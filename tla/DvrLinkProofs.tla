---------------------------- MODULE DvrLinkProofs ----------------------------
(***************************************************************************)
(* Proofs about DvrLink, for every width of the login counter, every retry *)
(* limit and any number of faults.                                         *)
(***************************************************************************)
EXTENDS DvrLink, SequenceTheorems, TLAPS

USE DvrLinkAssumption

-----------------------------------------------------------------------------
(* The invariant.                                                          *)

LastOf(q) == q[Len(q)]
NoAnswerIn(q) == \A i \in 1 .. Len(q) : q[i] # "wrLogin"

(* The call in progress: its request is the last one on the connection     *)
(* until its response is sent, and a response that is not late is of the   *)
(* kind the call expects.                                                  *)
CallInv ==
  /\ waiting => cliPc \in Calling
  /\ cliPc \notin Calling => cliSock = "closed"
  /\ cliSock = "live" <=> srvSock = "live"
  /\ srvSock # "none" => srvPc = "serve"
  /\ waiting /\ cliSock = "live" /\ reply = NoVal
       => inbox # <<>> /\ LastOf(inbox) = Op(cliPc)
  /\ waiting /\ cliSock = "backlog" => pend # <<>> /\ LastOf(pend) = Op(cliPc)
  /\ reply \in {LOGIN_REQ, LOGIN_RES} => waiting /\ Op(cliPc) = "rdLogin"
  /\ reply = "ack" => waiting /\ Op(cliPc) # "rdLogin"

(* The login answers of the daemon and what they rest on. *)
LoginInv ==
  /\ tabLogin = LOGIN_RES => answered
  /\ LoginNeedsAnswer
  /\ MainWorksLoggedIn
  /\ srvPc = "off" => ~ g_loginOK /\ ~ answered /\ mainPc = "off"

(* A client that has never answered has no answer under way, and the       *)
(* register of the server it is connected to still asks.                   *)
Fresh == Dvrlogin = 0 /\ ~ wrapped
FreshInv ==
  /\ Fresh => LOGIN_RES \notin {reply, loginRegVal}
  /\ Fresh /\ cliPc # "setLogin" => NoAnswerIn(pend)
  /\ Fresh /\ cliPc # "setLogin" /\ cliSock = "live"
       => NoAnswerIn(inbox) /\ tabLogin = LOGIN_REQ

-----------------------------------------------------------------------------
(* Queues of requests.                                                     *)

(* A request appended to a queue is its last one. *)
LEMMA AppendFacts ==
  ASSUME NEW q \in Seq(Request), NEW e \in Request
  PROVE  /\ Append(q, e) \in Seq(Request) /\ Append(q, e) # <<>>
         /\ LastOf(Append(q, e)) = e
         /\ NoAnswerIn(q) /\ e # "wrLogin" => NoAnswerIn(Append(q, e))
<1>1. /\ Append(q, e) \in Seq(Request) /\ Append(q, e) # <<>>
      /\ Len(Append(q, e)) = Len(q) + 1
      /\ \A i \in 1 .. Len(q) : Append(q, e)[i] = q[i]
      /\ Append(q, e)[Len(q) + 1] = e
  BY AppendProperties
<1>2. Len(q) \in Nat
  BY LenProperties
<1>3. \A i \in 1 .. Len(q) + 1 : i \in 1 .. Len(q) \/ i = Len(q) + 1
  BY <1>2
<1>4. QED
  BY <1>1, <1>3 DEF LastOf, NoAnswerIn

(* A queue that loses its head keeps its last request, if any is left. *)
LEMMA TailFacts ==
  ASSUME NEW q \in Seq(Request), q # <<>>
  PROVE  /\ Tail(q) \in Seq(Request) /\ Head(q) \in Request
         /\ Tail(q) # <<>> => LastOf(Tail(q)) = LastOf(q)
         /\ Len(q) > 1 => Tail(q) # <<>>
         /\ Len(q) <= 1 => Head(q) = LastOf(q)
         /\ NoAnswerIn(q) => NoAnswerIn(Tail(q)) /\ Head(q) # "wrLogin"
<1>1. /\ Tail(q) \in Seq(Request) /\ Head(q) \in Request
      /\ Len(Tail(q)) = Len(q) - 1
      /\ \A i \in 1 .. Len(Tail(q)) : Tail(q)[i] = q[i + 1]
  BY HeadTailProperties
<1>2. Len(q) \in Nat \ {0} /\ Len(<<>>) = 0
  BY EmptySeq
<1>3. Tail(q) # <<>> => Len(Tail(q)) \in Nat \ {0}
  BY <1>1, EmptySeq
<1>4. Head(q) = q[1]
  OBVIOUS
<1>5. Tail(q) # <<>> => LastOf(Tail(q)) = LastOf(q)
  BY <1>1, <1>2, <1>3 DEF LastOf
<1>6. NoAnswerIn(q) => NoAnswerIn(Tail(q))
  <2>1. \A i \in 1 .. Len(Tail(q)) : i + 1 \in 1 .. Len(q)
    BY <1>1, <1>2
  <2>2. QED
    BY <1>1, <2>1 DEF NoAnswerIn
<1>7. NoAnswerIn(q) => Head(q) # "wrLogin"
  BY <1>2, <1>4 DEF NoAnswerIn
<1>8. Len(q) > 1 => Tail(q) # <<>>
  <2>1. Tail(q) = <<>> => Len(Tail(q)) = 0
    BY EmptySeq
  <2>2. QED
    BY <1>1, <1>2, <2>1
<1>9. Len(q) <= 1 => Head(q) = LastOf(q)
  <2>1. \A n \in Nat \ {0} : n <= 1 => n = 1
    OBVIOUS
  <2>2. QED
    BY <2>1, <1>2, <1>4 DEF LastOf
<1>10. QED
  BY <1>1, <1>5, <1>6, <1>7, <1>8, <1>9
-----------------------------------------------------------------------------
(* Types.                                                                  *)

(* The initial state satisfies the types and the invariant. *)
LEMMA InitInv == Init => TypeOK /\ CallInv /\ LoginInv /\ FreshInv
<1>1. <<>> \in Seq(Request)
  BY EmptySeq
<1>2. 0 \in 0 .. LoginWrap - 1 /\ 0 \in 0 .. MaxFaults
  BY DvrLinkAssumption
<1>3. NoAnswerIn(<<>>)
  BY EmptySeq DEF NoAnswerIn
<1>4. QED
  BY <1>1, <1>2, <1>3
  DEF Init, TypeOK, CallInv, LoginInv, FreshInv, Fresh, Calling,
      LoginNeedsAnswer, MainWorksLoggedIn, NoVal, LOGIN_REQ, LOGIN_RES, Garbage

(* Every step keeps the types. *)
LEMMA TypeStep == TypeOK /\ CallInv /\ [Next]_vars => TypeOK'
<1> SUFFICES ASSUME TypeOK, CallInv, [Next]_vars PROVE TypeOK'
  OBVIOUS
<1> USE DEF TypeOK, hisiVars, sockVars, bbbVars, NoVal, LOGIN_REQ, LOGIN_RES,
            Garbage
<1>f. Fault => faults' \in 0 .. MaxFaults
  BY DvrLinkAssumption DEF Fault
<1>e. <<>> \in Seq(Request)
  BY EmptySeq
<1>o. \A pc \in Calling : Op(pc) \in Request
  BY DEF Calling, Op, Request
<1>d. DropClient => /\ inbox' \in Seq(Request) /\ pend' \in Seq(Request)
                    /\ srvSock' = "none" /\ reply' = NoVal
                    /\ cliSock' \in {"closed", "backlog", "live", "broken"}
  BY <1>e DEF DropClient
<1>c. CloseClient => /\ inbox' \in Seq(Request) /\ pend' \in Seq(Request)
                     /\ srvSock' \in {"none", "live", "stale"}
                     /\ cliSock' = "closed"
  BY <1>e DEF CloseClient
<1>k. KeepOrRecover => /\ inbox' \in Seq(Request) /\ pend' \in Seq(Request)
                       /\ srvSock' \in {"none", "live", "stale"}
                       /\ cliSock' \in {"closed", "backlog", "live", "broken"}
  BY <1>e DEF KeepOrRecover
<1>1. CASE HisiBoot
  <2>1. g_loginOK' \in BOOLEAN
    BY <1>1 DEF HisiBoot
  <2>2. srvPc' \in {"listen", "noctx"}
    BY <1>1 DEF HisiBoot
  <2>3. QED
    BY <1>1, <2>1, <2>2 DEF HisiBoot
<1>2. CASE Listen
  BY <1>2 DEF Listen
<1>3. CASE Accept
  BY <1>3, <1>e DEF Accept, RegAtAccept
<1>4. CASE Serve
  <2>1. inbox' \in Seq(Request)
    BY <1>4, TailFacts DEF Serve
  <2>2. reply' \in {NoVal, LOGIN_REQ, LOGIN_RES, "ack", "late"}
    BY <1>4 DEF Serve, ReplyTo
  <2>3. g_loginOK' \in BOOLEAN /\ answered' \in BOOLEAN
    BY <1>4 DEF Serve, LoginNoticed
  <2>4. /\ rxMail' \in {"none", "wrLogin", "wrTime"}
        /\ tabLogin' \in {LOGIN_REQ, LOGIN_RES}
    BY <1>4 DEF Serve
  <2>5. QED
    BY <1>4, <2>1, <2>2, <2>3, <2>4 DEF Serve
<1>5. CASE EndStale
  BY <1>5, <1>d DEF EndStale, CloseSession
<1>6. CASE MainLogin
  BY <1>6 DEF MainLogin
<1>7. CASE MainRound
  BY <1>7 DEF MainRound
<1>8. CASE Connect
  BY <1>8, <1>e DEF Connect, Calling, StateOf, ClientRunResult
<1>9. CASE Send
  BY <1>9, <1>o, AppendFacts DEF Send
<1>10. CASE LinkRecover
  <2>1. pend' \in Seq(Request)
    BY <1>10, <1>o DEF LinkRecover, CallInv
  <2>2. QED
    BY <1>10, <2>1 DEF LinkRecover
<1>n. NextLogin \in 0 .. LoginWrap - 1
  BY DvrLinkAssumption DEF NextLogin
<1>s. ASSUME NEW v \in {NoVal, LOGIN_REQ, LOGIN_RES}, LoginStep(v)
      PROVE  /\ loginRegVal' = v /\ cliPc' \in Calling
             /\ Dvrlogin' \in 0 .. LoginWrap - 1
             /\ UNCHANGED <<retry, dvrState, wrapped>>
  BY <1>s, DvrLinkAssumption DEF LoginStep, Calling
<1>a. AnswerStep => /\ cliPc' \in Calling /\ Dvrlogin' \in 0 .. LoginWrap - 1
                    /\ wrapped' \in BOOLEAN
                    /\ UNCHANGED <<loginRegVal, retry, dvrState>>
  BY <1>n DEF AnswerStep, Calling
<1>x. ExchangeStep => /\ cliPc' \in Calling
                      /\ UNCHANGED <<Dvrlogin, loginRegVal, retry, dvrState,
                                     wrapped>>
  BY DEF ExchangeStep, Calling
<1>11. CASE Receive
  <2>1. /\ waiting' \in BOOLEAN /\ reply' = NoVal
        /\ UNCHANGED <<hisiVars, srvSock, inbox, cliSock, pend, faults>>
    BY <1>11 DEF Receive
  <2>2. CASE cliPc = "probe" /\ ProbeOk
    BY <2>1, <2>2 DEF ProbeOk, Calling, StateOf, ClientRunResult
  <2>3. CASE cliPc = "getLogin" /\ LoginStep(reply)
    <3>1. reply \in {NoVal, LOGIN_REQ, LOGIN_RES}
      BY <1>11, <2>3 DEF Receive, CallInv, Op
    <3>2. QED
      BY <2>1, <2>3, <3>1, <1>s
  <2>4. CASE cliPc = "setLogin" /\ AnswerStep
    BY <2>1, <2>4, <1>a
  <2>5. CASE cliPc \in {"sync", "report"} /\ ExchangeStep
    BY <2>1, <2>5, <1>x
  <2>6. \/ cliPc = "probe" /\ ProbeOk
        \/ cliPc = "getLogin" /\ LoginStep(reply)
        \/ cliPc = "setLogin" /\ AnswerStep
        \/ cliPc \in {"sync", "report"} /\ ExchangeStep
    BY <1>11 DEF Receive
  <2>7. QED
    BY <2>2, <2>3, <2>4, <2>5, <2>6
<1>12. ASSUME CallFails, faults' \in 0 .. MaxFaults PROVE TypeOK'
  <2>1. /\ waiting' \in BOOLEAN /\ reply' = NoVal
        /\ UNCHANGED hisiVars
    BY <1>12 DEF CallFails
  <2>2. CASE cliPc = "probe" /\ ProbeFails
    <3>1. PICK r \in IF retry = Garbage THEN RetryStart ELSE {retry} :
            \/ GivesUp(r) /\ cliPc' = "reconnect" /\ retry' = Garbage
               /\ CloseClient
               /\ UNCHANGED <<Dvrlogin, loginRegVal, dvrState, wrapped>>
            \/ ~ GivesUp(r) /\ retry' = r + 1 /\ KeepOrRecover
               /\ UNCHANGED <<cliPc, Dvrlogin, loginRegVal, dvrState, wrapped>>
      BY <2>2 DEF ProbeFails, Counted
    <3>2. r \in -1 .. HisiDead + 1
      BY <3>1, DvrLinkAssumption DEF RetryStart
    <3>3. ~ GivesUp(r) => r + 1 \in 0 .. HisiDead
      BY <3>2, DvrLinkAssumption DEF GivesUp, Counted
    <3>4. CASE GivesUp(r)
      BY <1>12, <2>1, <3>1, <3>4, <1>c
    <3>5. CASE ~ GivesUp(r)
      BY <1>12, <2>1, <3>1, <3>3, <3>5, <1>k
    <3>6. QED
      BY <3>4, <3>5
  <2>3. CASE cliPc = "getLogin" /\ LoginStep(loginRegVal) /\ KeepOrRecover
    BY <1>12, <2>1, <2>3, <1>s, <1>k
  <2>4. CASE cliPc = "setLogin" /\ AnswerStep /\ KeepOrRecover
    BY <1>12, <2>1, <2>4, <1>a, <1>k
  <2>5. CASE cliPc \in {"sync", "report"} /\ ExchangeStep /\ KeepOrRecover
    BY <1>12, <2>1, <2>5, <1>x, <1>k
  <2>6. \/ cliPc = "probe" /\ ProbeFails
        \/ cliPc = "getLogin" /\ LoginStep(loginRegVal) /\ KeepOrRecover
        \/ cliPc = "setLogin" /\ AnswerStep /\ KeepOrRecover
        \/ cliPc \in {"sync", "report"} /\ ExchangeStep /\ KeepOrRecover
    BY <1>12 DEF CallFails
  <2>7. QED
    BY <2>2, <2>3, <2>4, <2>5, <2>6
<1>13. CASE Fail
  BY <1>12, <1>13 DEF Fail
<1>14. CASE EndLive
  BY <1>14, <1>d, <1>f DEF EndLive, CloseSession
<1>15. CASE HisiCrash
  BY <1>15, <1>d, <1>f DEF HisiCrash
<1>16. CASE Timeout
  BY <1>12, <1>16, <1>f DEF Timeout
<1>17. CASE ConnLoss
  BY <1>17, <1>e, <1>f DEF ConnLoss
<1>18. CASE BbbRestart
  <2>1. waiting' \in BOOLEAN /\ wrapped' \in BOOLEAN
    BY <1>18 DEF BbbRestart
  <2>2. Dvrlogin' \in 0 .. LoginWrap - 1
    BY <1>18, DvrLinkAssumption DEF BbbRestart
  <2>3. QED
    BY <1>18, <2>1, <2>2, <1>c, <1>f DEF BbbRestart
<1>19. CASE UNCHANGED vars
  BY <1>19 DEF vars
<1>20. QED
  BY <1>1, <1>2, <1>3, <1>4, <1>5, <1>6, <1>7, <1>8, <1>9, <1>10, <1>11,
     <1>13, <1>14, <1>15, <1>16, <1>17, <1>18, <1>19
  DEF Next, Server, Client, Faults

-----------------------------------------------------------------------------
(* The call in progress.                                                   *)

(* Every step keeps the facts about the call in progress. *)
LEMMA CallStep == TypeOK /\ CallInv /\ [Next]_vars => CallInv'
<1> SUFFICES ASSUME TypeOK, CallInv, [Next]_vars PROVE CallInv'
  OBVIOUS
<1> USE DEF CallInv, hisiVars, sockVars, bbbVars, NoVal, LOGIN_REQ, LOGIN_RES
<1>t. /\ tabLogin \in {LOGIN_REQ, LOGIN_RES}
      /\ inbox \in Seq(Request) /\ pend \in Seq(Request)
  BY DEF TypeOK
<1>1. CASE HisiBoot
  BY <1>1 DEF HisiBoot
<1>2. CASE Listen
  BY <1>2 DEF Listen
<1>3. CASE Accept
  BY <1>3 DEF Accept
<1>4. CASE Serve
  <2>1. CASE srvSock # "live"
    BY <1>4, <2>1 DEF Serve, ReplyTo
  <2>2. CASE srvSock = "live" /\ (~ waiting \/ Len(inbox) > 1)
    BY <1>4, <2>2 DEF Serve, ReplyTo
  <2>3. CASE srvSock = "live" /\ waiting /\ ~ Len(inbox) > 1
    <3>1. Head(inbox) = Op(cliPc)
      <4>1. Len(inbox) \in Nat
        BY <1>t, LenProperties
      <4>2. inbox # <<>> /\ LastOf(inbox) = Op(cliPc)
        BY <1>4, <2>3 DEF Serve
      <4>3. Len(inbox) <= 1
        BY <2>3, <4>1
      <4>4. QED
        BY <1>t, <4>2, <4>3, TailFacts
    <3>2. reply' = IF Op(cliPc) = "rdLogin" THEN tabLogin ELSE "ack"
      BY <1>4, <2>3, <3>1 DEF Serve, ReplyTo
    <3>3. QED
      BY <1>4, <1>t, <2>3, <3>2 DEF Serve
  <2>4. QED
    BY <2>1, <2>2, <2>3
<1>5. CASE EndStale
  BY <1>5 DEF EndStale, CloseSession, DropClient
<1>6. CASE MainLogin
  BY <1>6 DEF MainLogin
<1>7. CASE MainRound
  BY <1>7 DEF MainRound
<1>8. CASE Connect
  BY <1>8 DEF Connect, Calling
<1>9. CASE Send
  <2>1. Op(cliPc) \in Request
    BY <1>9 DEF Send, Calling, Op, Request
  <2>2. /\ Append(inbox, Op(cliPc)) # <<>>
        /\ LastOf(Append(inbox, Op(cliPc))) = Op(cliPc)
        /\ Append(pend, Op(cliPc)) # <<>>
        /\ LastOf(Append(pend, Op(cliPc))) = Op(cliPc)
    BY <1>t, <2>1, AppendFacts
  <2>3. QED
    BY <1>9, <2>2 DEF Send
<1>10. CASE LinkRecover
  <2>1. <<Op(cliPc)>> # <<>> /\ LastOf(<<Op(cliPc)>>) = Op(cliPc)
    BY DEF LastOf
  <2>2. QED
    BY <1>10, <2>1 DEF LinkRecover
<1>11. CASE Receive
  <2>1. cliPc' \in Calling
    BY <1>11
    DEF Receive, ProbeOk, LoginStep, AnswerStep, ExchangeStep, Calling
  <2>2. QED
    BY <1>11, <2>1 DEF Receive
<1>12. ASSUME CallFails PROVE CallInv'
  <2>1. /\ ~ waiting' /\ reply' = NoVal /\ UNCHANGED hisiVars
        /\ waiting /\ cliPc \in Calling
    BY <1>12 DEF CallFails
  <2>2. \/ cliPc' \in Calling /\ KeepOrRecover
        \/ cliPc' = "reconnect" /\ CloseClient
    BY <1>12, <2>1
    DEF CallFails, ProbeFails, LoginStep, AnswerStep, ExchangeStep, Calling
  <2>3. CASE cliPc' \in Calling /\ KeepOrRecover
    BY <2>1, <2>3 DEF KeepOrRecover
  <2>4. CASE cliPc' = "reconnect" /\ CloseClient
    BY <2>1, <2>4 DEF CloseClient
  <2>5. QED
    BY <2>2, <2>3, <2>4
<1>13. CASE Fail
  BY <1>12, <1>13 DEF Fail
<1>14. CASE EndLive
  BY <1>14 DEF EndLive, CloseSession, DropClient
<1>15. CASE HisiCrash
  BY <1>15 DEF HisiCrash, DropClient
<1>16. CASE Timeout
  BY <1>12, <1>16 DEF Timeout
<1>17. CASE ConnLoss
  BY <1>17 DEF ConnLoss
<1>18. CASE BbbRestart
  BY <1>18 DEF BbbRestart, CloseClient
<1>19. CASE UNCHANGED vars
  BY <1>19 DEF vars
<1>20. QED
  BY <1>1, <1>2, <1>3, <1>4, <1>5, <1>6, <1>7, <1>8, <1>9, <1>10, <1>11,
     <1>13, <1>14, <1>15, <1>16, <1>17, <1>18, <1>19
  DEF Next, Server, Client, Faults

-----------------------------------------------------------------------------
(* The login of the daemon.                                                *)

(* Every step keeps the facts about the daemon's login. *)
LEMMA LoginInvStep == LoginInv /\ [Next]_vars => LoginInv'
<1> SUFFICES ASSUME LoginInv, [Next]_vars PROVE LoginInv'
  OBVIOUS
<1> USE DEF LoginInv, LoginNeedsAnswer, MainWorksLoggedIn,
            LOGIN_REQ, LOGIN_RES
<1>1. CASE HisiBoot
  BY <1>1 DEF HisiBoot
<1>2. CASE Listen
  BY <1>2 DEF Listen
<1>3. CASE Accept
  BY <1>3 DEF Accept, RegAtAccept
<1>4. CASE Serve
  <2>1. g_loginOK' /\ srvPc # "noctx" => answered
    BY <1>4 DEF Serve, LoginNoticed
  <2>2. g_loginOK => g_loginOK'
    BY <1>4 DEF Serve, LoginNoticed
  <2>3. tabLogin' = LOGIN_RES => answered'
    BY <1>4 DEF Serve
  <2>4. QED
    BY <1>4, <2>1, <2>2, <2>3 DEF Serve
<1>5. CASE EndStale \/ EndLive
  BY <1>5 DEF EndStale, EndLive, CloseSession
<1>6. CASE MainLogin
  BY <1>6 DEF MainLogin
<1>7. CASE MainRound
  BY <1>7 DEF MainRound
<1>8. CASE HisiCrash
  BY <1>8 DEF HisiCrash
<1>9. CASE Client \/ Timeout \/ ConnLoss \/ BbbRestart
  <2>1. UNCHANGED hisiVars
    BY <1>9 DEF Client, Connect, Send, LinkRecover, Receive, Fail, Timeout,
                CallFails, ConnLoss, BbbRestart
  <2>2. QED
    BY <2>1 DEF hisiVars
<1>10. CASE UNCHANGED vars
  BY <1>10 DEF vars, hisiVars
<1>11. QED
  BY <1>1, <1>2, <1>3, <1>4, <1>5, <1>6, <1>7, <1>8, <1>9, <1>10
  DEF Next, Server, Faults

-----------------------------------------------------------------------------
(* A client that has not logged in yet.                                    *)

(* The login counter leaves zero by an answer, and comes back to it only   *)
(* by wrapping.                                                            *)
LEMMA AnswerEndsFresh == TypeOK /\ AnswerStep => ~ Fresh'
<1> SUFFICES ASSUME TypeOK, AnswerStep PROVE ~ Fresh'
  OBVIOUS
<1>1. Dvrlogin' = NextLogin /\ (NextLogin = 0 => wrapped')
  BY DEF AnswerStep
<1>2. QED
  BY <1>1 DEF Fresh

(* Every step keeps the facts about a client that has not logged in yet.   *)
LEMMA FreshStep ==
  TypeOK /\ CallInv /\ FreshInv /\ [Next]_vars => FreshInv'
<1> SUFFICES ASSUME TypeOK, CallInv, FreshInv, [Next]_vars PROVE FreshInv'
  OBVIOUS
<1> USE DEF FreshInv, hisiVars, sockVars, bbbVars, NoVal, LOGIN_REQ, LOGIN_RES
<1>t. inbox \in Seq(Request) /\ pend \in Seq(Request)
  BY DEF TypeOK
<1>e. NoAnswerIn(<<>>)
  BY EmptySeq DEF NoAnswerIn
<1>1. CASE HisiBoot
  BY <1>1 DEF HisiBoot, Fresh
<1>2. CASE Listen
  BY <1>2 DEF Listen, Fresh
<1>3. CASE Accept
  BY <1>3, <1>e DEF Accept, RegAtAccept, Fresh
<1>4. CASE Serve
  <2>1. Fresh' <=> Fresh
    BY <1>4 DEF Serve, Fresh
  <2>2. Fresh => reply' # LOGIN_RES
    <3>1. CASE srvSock # "live" \/ ~ waiting \/ Len(inbox) > 1
      BY <1>4, <3>1 DEF Serve, ReplyTo
    <3>2. CASE srvSock = "live" /\ waiting /\ ~ Len(inbox) > 1
      <4>1. Head(inbox) = Op(cliPc)
        <5>1. Len(inbox) \in Nat
          BY <1>t, LenProperties
        <5>2. inbox # <<>> /\ LastOf(inbox) = Op(cliPc)
          BY <1>4, <3>2 DEF Serve, CallInv
        <5>3. Len(inbox) <= 1
          BY <3>2, <5>1
        <5>4. QED
          BY <1>t, <5>2, <5>3, TailFacts
      <4>2. CASE cliPc = "setLogin"
        BY <1>4, <3>2, <4>1, <4>2 DEF Serve, ReplyTo, Op
      <4>3. CASE cliPc # "setLogin"
        BY <1>4, <3>2, <4>3 DEF Serve, ReplyTo, CallInv
      <4>4. QED
        BY <4>2, <4>3
    <3>3. QED
      BY <3>1, <3>2
  <2>3. Fresh /\ cliPc # "setLogin" /\ cliSock = "live"
          => NoAnswerIn(inbox') /\ tabLogin' = LOGIN_REQ
    BY <1>4, <1>t, TailFacts DEF Serve
  <2>4. QED
    BY <1>4, <2>1, <2>2, <2>3 DEF Serve
<1>5. CASE EndStale \/ EndLive
  BY <1>5, <1>e DEF EndStale, EndLive, CloseSession, DropClient, Fresh
<1>6. CASE MainLogin
  BY <1>6 DEF MainLogin, Fresh
<1>7. CASE MainRound
  BY <1>7 DEF MainRound, Fresh
<1>8. CASE Connect
  BY <1>8, <1>e DEF Connect, Fresh
<1>9. CASE Send
  <2>1. Op(cliPc) \in Request /\ (cliPc # "setLogin" => Op(cliPc) # "wrLogin")
    BY <1>9 DEF Send, Calling, Op, Request
  <2>2. cliPc # "setLogin" =>
          /\ NoAnswerIn(inbox) => NoAnswerIn(Append(inbox, Op(cliPc)))
          /\ NoAnswerIn(pend) => NoAnswerIn(Append(pend, Op(cliPc)))
    BY <1>t, <2>1, AppendFacts
  <2>3. QED
    BY <1>9, <2>2 DEF Send, Fresh
<1>10. CASE LinkRecover
  <2>1. cliPc # "setLogin" => NoAnswerIn(<<Op(cliPc)>>)
    BY <1>10 DEF LinkRecover, CallInv, Calling, Op, NoAnswerIn
  <2>2. QED
    BY <1>10, <2>1 DEF LinkRecover, Fresh
<1>11. CASE Receive
  <2>1. CASE cliPc = "setLogin"
    BY <1>11, <2>1, AnswerEndsFresh DEF Receive
  <2>2. CASE cliPc # "setLogin"
    BY <1>11, <2>2
    DEF Receive, ProbeOk, LoginStep, ExchangeStep, Fresh
  <2>3. QED
    BY <2>1, <2>2
<1>12. ASSUME CallFails PROVE FreshInv'
  <2>1. CASE cliPc = "setLogin"
    BY <1>12, <2>1, AnswerEndsFresh DEF CallFails
  <2>2. CASE cliPc # "setLogin"
    <3>1. reply' = NoVal /\ UNCHANGED <<tabLogin, wrapped>>
          /\ loginRegVal' = loginRegVal /\ (Fresh' => Fresh)
      BY <1>12, <2>2
      DEF CallFails, ProbeFails, LoginStep, ExchangeStep, Fresh
    <3>2. KeepOrRecover \/ CloseClient
      BY <1>12, <2>2 DEF CallFails, ProbeFails
    <3>3. /\ pend' = pend \/ pend' = <<>>
          /\ cliSock' = "live" => cliSock = "live" /\ inbox' = inbox
      BY <3>2 DEF KeepOrRecover, CloseClient
    <3>4. QED
      BY <2>2, <3>1, <3>3, <1>e
  <2>3. QED
    BY <2>1, <2>2
<1>13. CASE Fail \/ Timeout
  BY <1>12, <1>13 DEF Fail, Timeout
<1>14. CASE HisiCrash
  BY <1>14, <1>e DEF HisiCrash, DropClient, Fresh
<1>15. CASE ConnLoss
  BY <1>15, <1>e DEF ConnLoss, Fresh
<1>16. CASE BbbRestart
  BY <1>16, <1>e DEF BbbRestart, CloseClient
<1>17. CASE UNCHANGED vars
  BY <1>17 DEF vars, Fresh
<1>18. QED
  BY <1>1, <1>2, <1>3, <1>4, <1>5, <1>6, <1>7, <1>8, <1>9, <1>10, <1>11,
     <1>13, <1>14, <1>15, <1>16, <1>17
  DEF Next, Server, Client, Faults

-----------------------------------------------------------------------------
(* The theorems.                                                           *)

IInv == TypeOK /\ CallInv /\ LoginInv /\ FreshInv

(* IInv is an invariant. *)
LEMMA Invariant == Spec => []IInv
<1>1. Init => IInv
  BY InitInv DEF IInv
<1>2. IInv /\ [Next]_vars => IInv'
  BY TypeStep, CallStep, LoginInvStep, FreshStep DEF IInv
<1>3. QED
  BY <1>1, <1>2, PTL DEF Spec

(* All variables keep their types: in particular the retry counter of      *)
(* dataClientRun stays within its limit, whatever it starts from.          *)
THEOREM TypeCorrect == Spec => []TypeOK
<1>1. IInv => TypeOK
  BY DEF IInv
<1>2. QED
  BY <1>1, Invariant, PTL

(* A daemon that could initialise is logged in only after an answer of the *)
(* BBB in its own run (interCPUComm's test of the login register).         *)
THEOREM LoginAnswered == Spec => []LoginNeedsAnswer
<1>1. IInv => LoginNeedsAnswer
  BY DEF IInv, LoginInv
<1>2. QED
  BY <1>1, Invariant, PTL

(* The main thread handles commands only while the daemon is logged in.    *)
THEOREM MainLoggedIn == Spec => []MainWorksLoggedIn
<1>1. IInv => MainWorksLoggedIn
  BY DEF IInv, LoginInv
<1>2. QED
  BY <1>1, Invariant, PTL

(* A BBB that has just started never reads an old login answer of its own. *)
THEOREM FreshSeesRequest == Spec => []FreshClientSeesRequest
<1>1. IInv => FreshClientSeesRequest
  BY DEF IInv, FreshInv, Fresh, FreshClientSeesRequest
<1>2. QED
  BY <1>1, Invariant, PTL

(* Only the end of the daemon takes its login away. *)
THEOREM LoginStays == Spec => LoginSticks
<1>1. LoginInv /\ [Next]_vars
        => [g_loginOK /\ srvPc' # "off" => g_loginOK']_vars
  <2> SUFFICES ASSUME LoginInv, Next, g_loginOK, srvPc' # "off"
               PROVE  g_loginOK'
    OBVIOUS
  <2>1. CASE HisiBoot
    BY <2>1 DEF HisiBoot, LoginInv
  <2>2. CASE Serve
    BY <2>2 DEF Serve, LoginNoticed
  <2>3. CASE HisiCrash
    BY <2>3 DEF HisiCrash
  <2>4. CASE Listen \/ Accept \/ EndStale \/ EndLive \/ MainLogin \/ MainRound
    BY <2>4 DEF Listen, Accept, EndStale, EndLive, CloseSession, MainLogin,
                MainRound
  <2>5. CASE Client \/ Timeout \/ ConnLoss \/ BbbRestart
    BY <2>5 DEF Client, Connect, Send, LinkRecover, Receive, Fail, Timeout,
                CallFails, ConnLoss, BbbRestart, hisiVars
  <2>6. QED
    BY <2>1, <2>2, <2>3, <2>4, <2>5 DEF Next, Server, Faults
<1>2. IInv => LoginInv
  BY DEF IInv
<1>3. QED
  BY <1>1, <1>2, Invariant, PTL DEF Spec, LoginSticks

(* The daemon, over any number of connections, implements the login        *)
(* session: it logs in only after an answer, and a restart starts over.    *)
THEOREM Refinement == Spec => ImplementsSession
<1>1. Init => Session!Init
  BY DEF Init, Session!Init
<1>2. TypeOK /\ LoginInv /\ LoginInv' /\ [Next]_vars
        => [Session!Next]_Session!svars
  <2> SUFFICES ASSUME TypeOK, LoginInv, LoginInv', [Next]_vars
               PROVE  [Session!Next]_Session!svars
    OBVIOUS
  <2> USE DEF Session!Next, Session!svars, LoginInv, LoginNeedsAnswer
  <2>1. CASE HisiBoot
    BY <2>1 DEF HisiBoot
  <2>2. CASE Serve
    <3>1. srvPc = "serve" /\ srvPc' = "serve"
      BY <2>2 DEF Serve
    <3>2. g_loginOK => g_loginOK' /\ answered /\ answered'
      BY <2>2, <3>1 DEF Serve, LoginNoticed
    <3>3. CASE g_loginOK' /\ ~ g_loginOK
      <4>1. answered /\ answered'
        BY <2>2, <3>1, <3>3 DEF Serve, LoginNoticed
      <4>2. answered' = answered
        BY <4>1, <2>2 DEF TypeOK, Serve
      <4>3. QED
        BY <3>1, <3>3, <4>1, <4>2 DEF Session!LogIn
    <3>4. CASE g_loginOK' <=> g_loginOK
      <4>1. (g_loginOK /\ srvPc # "noctx")' = (g_loginOK /\ srvPc # "noctx")
        BY <3>1, <3>4
      <4>2. answered' = answered \/ answered' = TRUE
        BY <2>2 DEF TypeOK, Serve
      <4>3. QED
        BY <4>1, <4>2 DEF Session!Answer
    <3>5. QED
      BY <3>2, <3>3, <3>4
  <2>3. CASE HisiCrash
    BY <2>3 DEF HisiCrash, Session!Restart
  <2>4. CASE Listen \/ Accept \/ EndStale \/ EndLive \/ MainLogin \/ MainRound
    BY <2>4 DEF Listen, Accept, EndStale, EndLive, CloseSession, MainLogin,
                MainRound
  <2>5. CASE Client \/ Timeout \/ ConnLoss \/ BbbRestart
    BY <2>5 DEF Client, Connect, Send, LinkRecover, Receive, Fail, Timeout,
                CallFails, ConnLoss, BbbRestart, hisiVars
  <2>6. CASE UNCHANGED vars
    BY <2>6 DEF vars, hisiVars
  <2>7. QED
    BY <2>1, <2>2, <2>3, <2>4, <2>5, <2>6 DEF Next, Server, Faults
<1>3. IInv => TypeOK /\ LoginInv
  BY DEF IInv
<1>4. QED
  BY <1>1, <1>2, <1>3, Invariant, PTL DEF Spec, ImplementsSession, Session!Spec
=============================================================================
