------------------------------- MODULE DvrLink -------------------------------
(***************************************************************************)
(* The Modbus TCP link between the BBB main board and the HISI DVR board.  *)
(*                                                                         *)
(*   BBB   DvrApp::run on top of DvrAdp, a Modbus client that probes the   *)
(*         connection, answers the login request of the DVR board, sends   *)
(*         it the time and reads its counters (smart-bus/src).             *)
(*   HISI  the daemon: its comm thread, a Modbus server for one client at  *)
(*         a time, and its main thread, which waits for the login before   *)
(*         it handles commands (smb-HISI/src).                             *)
(*                                                                         *)
(* The network may lose the connection, each side may notice at a          *)
(* different moment, a call may time out although its request is served    *)
(* later, and either board may restart.  The faults the code does not      *)
(* cause itself are counted and bounded by MaxFaults.                      *)
(***************************************************************************)
EXTENDS Integers, Sequences

CONSTANTS
  HisiDead,      \* HISI_DEAD: failed probes the client puts up with
  LoginWrap,     \* 2^16 in the code: values of the U16 counter Dvrlogin
  MaxFaults      \* bound: faults that happen in one behaviour

ASSUME DvrLinkAssumption ==
  /\ HisiDead \in Nat
  /\ LoginWrap \in Nat /\ LoginWrap > 1
  /\ MaxFaults \in Nat

VARIABLES
  \* HISI daemon
  srvPc,         \* comm thread: where it is in its connection loop
  mainPc,        \* main thread: waiting for the login, or working
  g_loginOK,     \* the global of that name equals LOGINOK
  tabLogin,      \* mb_mapping->tab_registers[LOGIN_MODREG]
  rxMail,        \* the write the main thread has not handled yet
  srvSock,       \* the accepted connection as the server sees it
  inbox,         \* requests on the accepted connection, not yet served
  \* BBB client
  cliPc,         \* where DvrApp::run is
  Dvrlogin,      \* DvrApp::run's login counter
  loginRegVal,   \* DvrApp::run's copy of the login register
  retry,         \* dataClientRun's local of that name
  dvrState,      \* DvrApp::DvrState
  cliSock,       \* the connection as the client sees it
  pend,          \* requests sent while in the listen queue
  waiting,       \* a Modbus call is in progress
  reply,         \* the response on its way to the client
  \* history and bound
  answered,      \* LOGIN_RES was stored in this daemon run
  wrapped,       \* Dvrlogin has wrapped in this BBB run
  faults         \* faults so far

hisiVars == <<srvPc, mainPc, g_loginOK, tabLogin, rxMail, answered>>
sockVars == <<srvSock, inbox, cliSock, pend, reply>>
bbbVars  == <<cliPc, Dvrlogin, loginRegVal, retry, dvrState, waiting, wrapped>>
vars     == <<hisiVars, sockVars, bbbVars, faults>>

NoVal     == "none"      \* a register value never read, or no response
LOGIN_REQ == "A5A5"
LOGIN_RES == "B6B6"
Garbage   == -2          \* dataClientRun's retry before its first use

(* The requests of the client: the login register read and written, the    *)
(* four time registers written, the report registers read.                 *)
Request == {"rdLogin", "wrLogin", "wrTime", "rdInfo"}

(* DvrApp::run's program points that make a Modbus call, and the request   *)
(* each makes.  The four reads of counters, load and memory follow one     *)
(* another whatever they return and count as one.                          *)
Calling == {"probe", "getLogin", "setLogin", "sync", "report"}
Op(pc) == CASE pc \in {"probe", "getLogin"} -> "rdLogin"
            [] pc = "setLogin" -> "wrLogin"
            [] pc = "sync"     -> "wrTime"
            [] pc = "report"   -> "rdInfo"

(* A listening socket takes connections also while another is served. *)
Listening == srvPc \in {"accept", "serve"}

(* A fault the code does not cause. *)
Fault == faults < MaxFaults /\ faults' = faults + 1

-----------------------------------------------------------------------------
Init ==
  /\ srvPc = "off" /\ mainPc = "off" /\ g_loginOK = FALSE
  /\ tabLogin = LOGIN_REQ /\ rxMail = "none" /\ answered = FALSE
  /\ srvSock = "none" /\ inbox = <<>>
  /\ cliPc = "init" /\ Dvrlogin = 0 /\ loginRegVal = NoVal
  /\ retry = Garbage /\ dvrState = "unset" /\ wrapped = FALSE
  /\ cliSock = "closed" /\ pend = <<>> /\ waiting = FALSE /\ reply = NoVal
  /\ faults = 0

-----------------------------------------------------------------------------
(* The HISI daemon.                                                        *)

(* sysInit and startInterCPUComm.  When the shared memories cannot be      *)
(* created sysInit returns before it clears g_loginOK, which is loaded as  *)
(* LOGINOK, and before it creates the Modbus context: the daemon goes on,  *)
(* but its comm thread fails to listen for ever.                           *)
HisiBoot ==
  /\ srvPc = "off"
  /\ mainPc' = "wait"
  /\ \/ srvPc' = "listen" /\ g_loginOK' = FALSE
     \/ srvPc' = "noctx"  /\ g_loginOK' = TRUE
  /\ UNCHANGED <<tabLogin, rxMail, answered, sockVars, bbbVars, faults>>

Listen ==
  /\ srvPc = "listen"
  /\ srvPc' = "accept"
  /\ UNCHANGED <<mainPc, g_loginOK, tabLogin, rxMail, answered, sockVars,
                 bbbVars, faults>>

(* What the login register holds after an accept: a new login request.     *)
(* Mutant: the register is set once, when the thread starts.               *)
MutRegAtAccept == tabLogin
RegAtAccept == LOGIN_REQ

(* modbus_tcp_accept: the client's connection leaves the listen queue with *)
(* what it has sent so far.                                                *)
Accept ==
  /\ srvPc = "accept" /\ cliSock = "backlog"
  /\ srvPc' = "serve"
  /\ tabLogin' = RegAtAccept
  /\ srvSock' = "live" /\ cliSock' = "live"
  /\ inbox' = pend /\ pend' = <<>>
  /\ UNCHANGED <<mainPc, g_loginOK, rxMail, answered, reply, bbbVars, faults>>

(* What the client is sent for a request: a value it waits for, or the     *)
(* answer to a call it has given up, or nothing on a dead connection.      *)
ReplyTo(op) ==
  IF srvSock # "live" THEN reply
  ELSE IF ~ waiting \/ Len(inbox) > 1 THEN "late"
  ELSE IF op = "rdLogin" THEN tabLogin ELSE "ack"

(* g_loginOK after a request was received: once set it is not looked at    *)
(* again.  Mutant: any value of the register is taken for an answer.       *)
MutLoginNotTested == TRUE
LoginNoticed == g_loginOK \/ tabLogin = LOGIN_RES

(* modbus_receive returned a request: look for the login answer, or copy a *)
(* write into the mailbox of the main thread; then modbus_reply carries    *)
(* the request out.  The check precedes the write of the same request.     *)
Serve ==
  /\ srvPc = "serve" /\ inbox # <<>>
  /\ srvSock = "live" => reply = NoVal
  /\ LET op == Head(inbox) IN
     /\ g_loginOK' = LoginNoticed
     /\ rxMail' = IF g_loginOK /\ op \in {"wrLogin", "wrTime"}
                  THEN op ELSE rxMail
     /\ tabLogin' = IF op = "wrLogin" THEN LOGIN_RES ELSE tabLogin
     /\ answered' = (answered \/ op = "wrLogin")
     /\ reply' = ReplyTo(op)
  /\ inbox' = Tail(inbox)
  /\ UNCHANGED <<srvPc, mainPc, srvSock, cliSock, pend, bbbVars, faults>>

(* What closing the listening socket and the accepted connection does to   *)
(* the client: its connection is gone, wherever it stood.                  *)
DropClient ==
  /\ srvSock' = "none" /\ inbox' = <<>> /\ pend' = <<>> /\ reply' = NoVal
  /\ cliSock' = IF cliSock \in {"live", "backlog"} THEN "broken" ELSE cliSock

(* modbus_receive failed: the comm thread leaves its loop, closes both     *)
(* sockets and starts listening again.  g_loginOK stays as it is.          *)
CloseSession ==
  /\ srvPc' = "listen"
  /\ DropClient
  /\ UNCHANGED <<mainPc, g_loginOK, tabLogin, rxMail, answered, bbbVars>>

(* A dead connection is noticed.  Mutant: it never is. *)
MutEndStale == FALSE
EndStale == srvPc = "serve" /\ srvSock = "stale" /\ CloseSession
            /\ UNCHANGED faults

(* A live one is taken for dead. *)
EndLive  == srvPc = "serve" /\ srvSock = "live" /\ CloseSession /\ Fault

(* The main thread leaves its login loop. *)
MainLogin ==
  /\ mainPc = "wait" /\ g_loginOK
  /\ mainPc' = "work"
  /\ UNCHANGED <<srvPc, g_loginOK, tabLogin, rxMail, answered, sockVars,
                 bbbVars, faults>>

(* One round of the main thread: manageProcsViaCmd empties the mailbox,    *)
(* then the loop goes back to its login test.                              *)
MainRound ==
  /\ mainPc = "work"
  /\ mainPc' = "wait"
  /\ rxMail' = "none"
  /\ UNCHANGED <<srvPc, g_loginOK, tabLogin, answered, sockVars, bbbVars,
                 faults>>

(* The DVR board loses power, or the daemon is stopped. *)
HisiCrash ==
  /\ srvPc # "off" /\ Fault
  /\ srvPc' = "off" /\ mainPc' = "off" /\ g_loginOK' = FALSE
  /\ tabLogin' = LOGIN_REQ /\ rxMail' = "none" /\ answered' = FALSE
  /\ DropClient
  /\ UNCHANGED bbbVars

-----------------------------------------------------------------------------
(* The BBB client.                                                         *)

(* What run makes of dataClientRun's result, and the result: the function  *)
(* returns eOK on every path, also when it has given the server up.        *)
StateOf(ret) == IF ret = "eFail" THEN "dead" ELSE "alive"
ClientRunResult == "eOK"

(* modbus_connect in dataClientInit succeeds.  Called from init, run       *)
(* starts with a probe; called from dataClientRun, run goes on with eOK.   *)
Connect ==
  /\ cliPc \in {"init", "reconnect"} /\ Listening
  /\ cliSock' = "backlog" /\ pend' = <<>>
  /\ cliPc' = IF cliPc = "init" THEN "probe" ELSE "getLogin"
  /\ dvrState' = IF cliPc = "init" THEN dvrState ELSE StateOf(ClientRunResult)
  /\ UNCHANGED <<hisiVars, srvSock, inbox, reply, Dvrlogin, loginRegVal,
                 retry, waiting, wrapped, faults>>

(* A Modbus call sends its request; on a broken connection it is lost. *)
Send ==
  /\ cliPc \in Calling /\ ~ waiting
  /\ waiting' = TRUE
  /\ inbox' = IF cliSock = "live" THEN Append(inbox, Op(cliPc)) ELSE inbox
  /\ pend'  = IF cliSock = "backlog" THEN Append(pend, Op(cliPc)) ELSE pend
  /\ UNCHANGED <<hisiVars, srvSock, cliSock, reply, cliPc, Dvrlogin,
                 loginRegVal, retry, dvrState, wrapped, faults>>

(* modbus_set_error_recovery(LINK): a send that fails closes the socket,   *)
(* connects again and sends the same request on the new connection.        *)
LinkRecover ==
  /\ waiting /\ cliSock = "broken" /\ Listening
  /\ cliSock' = "backlog" /\ pend' = <<Op(cliPc)>>
  /\ UNCHANGED <<hisiVars, srvSock, inbox, reply, bbbVars, faults>>

(* The login counter after one more answer: the first sets it, the others  *)
(* increment it modulo its width.                                          *)
NextLogin == IF Dvrlogin = 0 THEN 1 ELSE (Dvrlogin + 1) % LoginWrap

(* When run answers the login register.                                    *)
(* Mutant: only before the first login, no re-login.                       *)
MutLoginAsked(v) == v = LOGIN_REQ /\ Dvrlogin = 0
LoginAsked(v) == v = LOGIN_REQ

(* What run does with the login register it has just tried to read into v. *)
LoginStep(v) ==
  /\ loginRegVal' = v
  /\ \/ LoginAsked(v) /\ cliPc' = "setLogin" /\ UNCHANGED Dvrlogin
     \/ ~ LoginAsked(v) /\ Dvrlogin = 0 /\ cliPc' = "probe"
          /\ Dvrlogin' = IF v = LOGIN_RES THEN 1 ELSE 0
     \/ ~ LoginAsked(v) /\ Dvrlogin # 0 /\ cliPc' = "sync"
          /\ UNCHANGED Dvrlogin
  /\ UNCHANGED <<retry, dvrState, wrapped>>

(* What follows a write of the login answer: run ignores its outcome. *)
AnswerStep ==
  /\ Dvrlogin' = NextLogin
  /\ wrapped' = (wrapped \/ NextLogin = 0)
  /\ cliPc' = IF Dvrlogin = 0 THEN "probe" ELSE "sync"
  /\ UNCHANGED <<loginRegVal, retry, dvrState>>

(* The time sync and the report: run ignores the outcome of both. *)
ExchangeStep ==
  /\ cliPc' = IF cliPc = "sync" THEN "report" ELSE "probe"
  /\ UNCHANGED <<Dvrlogin, loginRegVal, retry, dvrState, wrapped>>

(* dataClientRun's probe was answered: it returns eOK. *)
ProbeOk ==
  /\ cliPc' = "getLogin" /\ dvrState' = StateOf(ClientRunResult)
  /\ retry' = Garbage
  /\ UNCHANGED <<Dvrlogin, loginRegVal, wrapped>>

(* The response the call waits for arrives. *)
Receive ==
  /\ waiting /\ reply \notin {NoVal, "late"}
  /\ waiting' = FALSE /\ reply' = NoVal
  /\ \/ cliPc = "probe" /\ ProbeOk
     \/ cliPc = "getLogin" /\ LoginStep(reply)
     \/ cliPc = "setLogin" /\ AnswerStep
     \/ cliPc \in {"sync", "report"} /\ ExchangeStep
  /\ UNCHANGED <<hisiVars, srvSock, inbox, cliSock, pend, faults>>

(* A call that fails on a broken connection may leave it broken, or, by    *)
(* the error recovery, already connected again.                            *)
KeepOrRecover ==
  \/ UNCHANGED <<srvSock, inbox, cliSock, pend>>
  \/ /\ cliSock = "broken" /\ Listening
     /\ cliSock' = "backlog" /\ pend' = <<>> /\ UNCHANGED <<srvSock, inbox>>

(* modbus_close in dataClientRun. *)
CloseClient ==
  /\ cliSock' = "closed" /\ pend' = <<>> /\ UNCHANGED inbox
  /\ srvSock' = IF cliSock = "live" THEN "stale" ELSE srvSock

(* The values the uninitialised retry may start from: -1 stands for the    *)
(* largest U32, which ++ turns into 0, HisiDead + 1 for all the large ones.*)
RetryStart == -1 .. HisiDead + 1

(* A probe fails, with retry at r: probe again, or give the server up.     *)
(* Mutants: the counter is not incremented; it is one time too late.       *)
MutCounted(r) == r
Counted(r) == r + 1
MutGivesUp(r) == r > HisiDead
GivesUp(r) == Counted(r) > HisiDead

ProbeFails ==
  \E r \in IF retry = Garbage THEN RetryStart ELSE {retry} :
    \/ /\ GivesUp(r)
       /\ cliPc' = "reconnect" /\ retry' = Garbage /\ CloseClient
       /\ UNCHANGED <<Dvrlogin, loginRegVal, dvrState, wrapped>>
    \/ /\ ~ GivesUp(r)
       /\ retry' = Counted(r) /\ KeepOrRecover
       /\ UNCHANGED <<cliPc, Dvrlogin, loginRegVal, dvrState, wrapped>>

(* A Modbus call returns -1. *)
CallFails ==
  /\ waiting /\ reply \in {NoVal, "late"}
  /\ waiting' = FALSE /\ reply' = NoVal
  /\ \/ cliPc = "probe" /\ ProbeFails
     \/ cliPc = "getLogin" /\ LoginStep(loginRegVal) /\ KeepOrRecover
     \/ cliPc = "setLogin" /\ AnswerStep /\ KeepOrRecover
     \/ cliPc \in {"sync", "report"} /\ ExchangeStep /\ KeepOrRecover
  /\ UNCHANGED hisiVars

(* A call is bound to fail when its connection is broken, when the answer  *)
(* to an earlier call arrives instead of its own, or when the server is    *)
(* busy with a dead connection; anything else that fails it is a fault.    *)
BoundToFail == \/ cliSock = "broken" \/ reply = "late"
               \/ cliSock = "backlog" /\ srvPc = "serve"

Fail    == BoundToFail /\ CallFails /\ UNCHANGED faults
Timeout == ~ BoundToFail /\ CallFails /\ Fault

(* The network loses the client's connection; neither side knows yet. *)
ConnLoss ==
  /\ cliSock \in {"live", "backlog"} /\ Fault
  /\ cliSock' = "broken" /\ pend' = <<>> /\ reply' = NoVal
  /\ srvSock' = IF cliSock = "live" THEN "stale" ELSE srvSock
  /\ UNCHANGED <<hisiVars, inbox, bbbVars>>

(* The BBB restarts. *)
BbbRestart ==
  /\ cliPc # "init" /\ Fault
  /\ cliPc' = "init" /\ Dvrlogin' = 0 /\ loginRegVal' = NoVal
  /\ retry' = Garbage /\ dvrState' = "unset" /\ wrapped' = FALSE
  /\ waiting' = FALSE /\ reply' = NoVal
  /\ CloseClient
  /\ UNCHANGED hisiVars

-----------------------------------------------------------------------------
Server == \/ HisiBoot \/ Listen \/ Accept \/ Serve \/ EndStale
          \/ MainLogin \/ MainRound
Client == Connect \/ Send \/ LinkRecover \/ Receive \/ Fail
Faults == EndLive \/ HisiCrash \/ Timeout \/ ConnLoss \/ BbbRestart

Next == Server \/ Client \/ Faults

Spec == Init /\ [][Next]_vars

(* The threads of both programs keep running, the daemon is started again, *)
(* and a call that is bound to fail does so within its response timeout.   *)
Fairness ==
  /\ WF_vars(HisiBoot) /\ WF_vars(Listen) /\ WF_vars(Accept)
  /\ WF_vars(Serve) /\ WF_vars(EndStale)
  /\ WF_vars(MainLogin) /\ WF_vars(MainRound)
  /\ WF_vars(Connect) /\ WF_vars(Send) /\ WF_vars(Receive) /\ WF_vars(Fail)

FairSpec == Spec /\ Fairness

-----------------------------------------------------------------------------
(* Types of all variables. *)
TypeOK ==
  /\ srvPc \in {"off", "noctx", "listen", "accept", "serve"}
  /\ mainPc \in {"off", "wait", "work"}
  /\ g_loginOK \in BOOLEAN /\ answered \in BOOLEAN /\ wrapped \in BOOLEAN
  /\ tabLogin \in {LOGIN_REQ, LOGIN_RES}
  /\ rxMail \in {"none", "wrLogin", "wrTime"}
  /\ srvSock \in {"none", "live", "stale"}
  /\ cliSock \in {"closed", "backlog", "live", "broken"}
  /\ inbox \in Seq(Request) /\ pend \in Seq(Request)
  /\ cliPc \in Calling \cup {"init", "reconnect"}
  /\ Dvrlogin \in 0 .. LoginWrap - 1
  /\ loginRegVal \in {NoVal, LOGIN_REQ, LOGIN_RES}
  /\ retry \in {Garbage} \cup 0 .. HisiDead
  /\ dvrState \in {"unset", "alive", "dead"}
  /\ waiting \in BOOLEAN
  /\ reply \in {NoVal, LOGIN_REQ, LOGIN_RES, "ack", "late"}
  /\ faults \in 0 .. MaxFaults

(* The daemon considers itself logged in only when the BBB has written its *)
(* answer since the daemon started, over however many connections, losses  *)
(* and restarts of the BBB (interCPUComm's test of the login register).    *)
LoginNeedsAnswer == g_loginOK /\ srvPc # "noctx" => answered

(* The main thread handles commands only while the daemon is logged in,    *)
(* although the login is tested once per round and nothing is locked.      *)
MainWorksLoggedIn == mainPc = "work" => g_loginOK

(* No connection loss and no later login takes the login of a running      *)
(* daemon away (a new connection resets the register, not g_loginOK).      *)
LoginSticks == [][g_loginOK /\ srvPc' # "off" => g_loginOK']_vars

(* A BBB that has just started never reads its own answer back: whatever   *)
(* an earlier run of it left in the register or on its way there, it finds *)
(* a login request and logs in itself, unless its counter has wrapped.  So *)
(* run's branch "already login" is not reached.                            *)
FreshClientSeesRequest ==
  Dvrlogin = 0 /\ ~ wrapped => LOGIN_RES \notin {reply, loginRegVal}

(* When the faults are over, a daemon that could initialise ends up logged *)
(* in and served by a connected client.                                    *)
LoginRestored ==
  <>[](srvPc # "noctx") => <>[](g_loginOK /\ cliSock = "live")

(* And the time keeps arriving in the mailbox of its main thread. *)
TimeKeepsComing == <>[](srvPc # "noctx") => []<>(rxMail = "wrTime")

(* The client does not stay on a broken connection: it connects again in a *)
(* failing call, or dataClientRun gives it up after a bounded number of    *)
(* probes, whatever its retry started from.                                *)
BrokenLinkLeft == cliSock = "broken" ~> cliSock # "broken"

(* The daemon implements the login session.  One whose initialisation      *)
(* failed has no link at all and does not take part.                       *)
Session == INSTANCE LoginSession
             WITH loggedIn <- g_loginOK /\ srvPc # "noctx"
ImplementsSession == Session!Spec

(* "notify DVR state" (run), "notify that server should be dead"           *)
(* (dataClientRun): when the client gives the server up, its state says so.*)
DeadServerReported == cliPc = "reconnect" ~> dvrState = "dead"
=============================================================================
