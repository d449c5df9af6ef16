------------------------------ MODULE HmiLink ------------------------------
(***************************************************************************)
(* The serial Modbus link between the HMI board and the BBB.               *)
(*                                                                         *)
(*   HMI   the Arduino program, the Modbus master (smb-hmi/smb_main): in   *)
(*         setup it waits for the BBB to be ready and logs in; then its    *)
(*         loop sends the station chosen by the driver, watches the BBB by *)
(*         a keep-alive register that both sides write, and looks for the  *)
(*         alarm key.                                                      *)
(*   BBB   HmiApp on top of HmiAdp, the Modbus server (smart-bus/src): the *)
(*         task that serves requests and answers logins, and the timer     *)
(*         thread of the critical infos, which answers keep-alives.        *)
(*                                                                         *)
(* A request waits in the buffer of the BBB's serial port until it is      *)
(* served, also when the master has given it up; a frame carries nothing   *)
(* that tells the response of one read from that of another.  Registers    *)
(* with data to display are not modelled here.                             *)
(***************************************************************************)
EXTENDS Integers, Sequences

CONSTANTS
  Stations,      \* the stations a driver may choose
  BBBDEAD,       \* missed keep-alives until the BBB is taken for dead
  LoginRetries,  \* 2 in the code: see loginBBB
  MaxLine,       \* bound: requests the serial port buffers
  MaxFaults      \* bound: faults that happen in one behaviour

ASSUME HmiLinkAssumption ==
  /\ BBBDEAD \in Nat \ {0}
  /\ LoginRetries \in Nat /\ MaxLine \in Nat \ {0} /\ MaxFaults \in Nat

VARIABLES
  \* BBB
  BBBReady,      \* HmiApp::BBBReady, set by the main loop
  appPc,         \* the task of HmiApp
  timerOn,       \* the critical timer fires
  timerPc,       \* its thread: between the test and the answer, or not
  tab,           \* mb_mapping->tab_registers
  Hmilogin,      \* HmiApp::run's Hmilogin is not 0
  manualNext,    \* HmiApp::manualNextStation
  \* the line
  line,          \* requests at the BBB, not yet served
  resp,          \* a response on its way, or NoResp
  \* HMI
  hmiPc,         \* where the HMI program is
  waiting,       \* a Modbus call is in progress
  retry,         \* failed attempts of the current call
  buf,           \* the response buffer of the Modbus library
  errNo,         \* the error that popMsg shows
  keepAliveSt,   \* a keep-alive request has been sent
  fails,         \* keepAliveFails
  manu,          \* tBusInfo.manuCurrStation
  \* history and bound
  row,           \* keep-alives missed in a row
  session,       \* the BBB has not restarted since the HMI began to log in
  alarmIn,       \* the alarm being sent is in the BBB's register
  faults         \* faults so far

bbbVars  == <<BBBReady, appPc, timerOn, timerPc, tab, Hmilogin, manualNext>>
lineVars == <<line, resp>>
hmiVars  == <<hmiPc, waiting, retry, buf, errNo, keepAliveSt, fails, manu, row>>
vars     == <<bbbVars, lineVars, hmiVars, session, alarmIn, faults>>

NoVal == "none"
NONE  == "0xff"            \* no station chosen
NoResp == [fc |-> 0, val |-> NoVal]

(* The HMI's program points that make a Modbus call: the one register each *)
(* is about, and the function code of the library's call.                  *)
Reads   == {"ready", "rdLogin", "rdKeep"}
Alarms  == {"alarm1", "alarm2", "alarm3"}    \* oneKeyAlarm's three writes
Writes  == {"wrLogin", "wrStation", "wrKeep"} \cup Alarms
Calling == Reads \cup Writes
Setup   == {"off", "ready", "wrLogin", "rdLogin"}
Reg(pc) == CASE pc = "ready" -> "BBB_READY"
             [] pc \in {"wrLogin", "rdLogin"} -> "LOGIN"
             [] pc = "wrStation" -> "MANUAL"
             [] pc \in {"wrKeep", "rdKeep"} -> "KEEP_ALIVE"
             [] pc \in Alarms -> "ONE_KEY_ALARM"
Sent(pc) == CASE pc = "wrLogin" -> "LOGIN_REQ"
              [] pc = "wrKeep" -> "KEEP_REQ"
              [] pc = "wrStation" -> manu
              [] pc \in Alarms -> "ALARM"
              [] OTHER -> NoVal
Fc(pc) == IF pc \in Reads THEN 3 ELSE 6

Cleared == [r \in {"BBB_READY", "LOGIN", "KEEP_ALIVE", "MANUAL"} |-> "zero"]

Fault == faults < MaxFaults /\ faults' = faults + 1

-----------------------------------------------------------------------------
Init ==
  /\ BBBReady = FALSE /\ appPc = "down" /\ timerOn = FALSE /\ timerPc = "idle"
  /\ tab = Cleared /\ Hmilogin = FALSE /\ manualNext = "unset"
  /\ line = <<>> /\ resp = NoResp
  /\ hmiPc = "off" /\ waiting = FALSE /\ retry = 0 /\ buf = "zero"
  /\ errNo = "eNA" /\ keepAliveSt = FALSE /\ fails = 0 /\ manu = NONE
  /\ row = 0 /\ session = FALSE /\ alarmIn = FALSE /\ faults = 0

-----------------------------------------------------------------------------
(* The BBB.                                                                *)

(* HmiApp::init sets the server up, which opens the port. *)
AppInit ==
  /\ appPc = "down"
  /\ appPc' = "init"
  /\ UNCHANGED <<BBBReady, timerOn, timerPc, tab, Hmilogin, manualNext,
                 lineVars, hmiVars, session, alarmIn, faults>>

(* MainLoop::run, once the routes are read. *)
SetBBBReady ==
  /\ ~ BBBReady
  /\ BBBReady' = TRUE
  /\ UNCHANGED <<appPc, timerOn, timerPc, tab, Hmilogin, manualNext, lineVars,
                 hmiVars, session, alarmIn, faults>>

(* HmiApp::init ends when the main loop is ready: it starts the timers.    *)
AppReady ==
  /\ appPc = "init" /\ BBBReady
  /\ tab' = [tab EXCEPT !["BBB_READY"] = "READY"]
  /\ timerOn' = TRUE
  /\ appPc' = "receive"
  /\ UNCHANGED <<BBBReady, timerPc, Hmilogin, manualNext, lineVars, hmiVars,
                 session, alarmIn, faults>>

(* dataServerRun: one request is received, carried out and answered.       *)
(* Nothing reads the alarm's register, only its arrival is kept.           *)
Serve ==
  /\ appPc = "receive" /\ line # <<>>
  /\ LET req == Head(line) IN
     /\ tab' = IF req.fc = 6 /\ req.reg \in DOMAIN tab
               THEN [tab EXCEPT ![req.reg] = req.val] ELSE tab
     /\ alarmIn' = (alarmIn \/ (req.val = "ALARM" /\ hmiPc \in Alarms))
     /\ resp' = IF hmiPc = "off" THEN NoResp
                ELSE [fc |-> req.fc,
                      val |-> IF req.fc = 6 THEN NoVal ELSE tab[req.reg]]
  /\ line' = Tail(line)
  /\ appPc' = "check"
  /\ UNCHANGED <<BBBReady, timerOn, timerPc, Hmilogin, manualNext, hmiVars,
                 session, faults>>

(* Whether the login register is answered.  Mutant: there is no re-login.  *)
MutLoginAsked == tab["LOGIN"] = "LOGIN_REQ" /\ ~ Hmilogin
LoginAsked == tab["LOGIN"] = "LOGIN_REQ"

(* HmiApp's manual station after that.  Mutant: only taken with a login.   *)
MutManualTaken == IF Hmilogin /\ LoginAsked THEN tab["MANUAL"] ELSE manualNext
ManualTaken == IF Hmilogin THEN tab["MANUAL"] ELSE manualNext

(* The rest of run's loop: answer a login; once logged in, take over the   *)
(* station the driver has chosen.                                          *)
AppCheck ==
  /\ appPc = "check"
  /\ tab' = IF LoginAsked THEN [tab EXCEPT !["LOGIN"] = "LOGIN_RES"] ELSE tab
  /\ Hmilogin' = (Hmilogin \/ LoginAsked)
  /\ manualNext' = ManualTaken
  /\ appPc' = "receive"
  /\ UNCHANGED <<BBBReady, timerOn, timerPc, lineVars, hmiVars, session,
                 alarmIn, faults>>

(* refreshCriticalInfos looks for a keep-alive request ... *)
TimerTest ==
  /\ timerOn /\ timerPc = "idle" /\ tab["KEEP_ALIVE"] = "KEEP_REQ"
  /\ timerPc' = "answer"
  /\ UNCHANGED <<BBBReady, appPc, timerOn, tab, Hmilogin, manualNext,
                 lineVars, hmiVars, session, alarmIn, faults>>

(* ... and answers it.  (The count of lost requests is a local variable    *)
(* that starts from 0 in every run of the timer and has no effect.)        *)
TimerAnswer ==
  /\ timerPc = "answer"
  /\ tab' = [tab EXCEPT !["KEEP_ALIVE"] = "KEEP_RES"]
  /\ timerPc' = "idle"
  /\ UNCHANGED <<BBBReady, appPc, timerOn, Hmilogin, manualNext, lineVars,
                 hmiVars, session, alarmIn, faults>>

(* The BBB restarts; what its port had buffered is gone. *)
BbbCrash ==
  /\ appPc # "down" /\ Fault
  /\ BBBReady' = FALSE /\ appPc' = "down"
  /\ timerOn' = FALSE /\ timerPc' = "idle"
  /\ tab' = Cleared /\ Hmilogin' = FALSE /\ manualNext' = "unset"
  /\ line' = <<>> /\ session' = FALSE /\ alarmIn' = FALSE
  /\ UNCHANGED <<resp, hmiVars>>

(* The timers of the BBB stop, its server does not. *)
TimerStops ==
  /\ timerOn /\ Fault
  /\ timerOn' = FALSE /\ timerPc' = "idle"
  /\ UNCHANGED <<BBBReady, appPc, tab, Hmilogin, manualNext, lineVars,
                 hmiVars, session, alarmIn>>

-----------------------------------------------------------------------------
(* The HMI.                                                                *)

HmiBoot ==
  /\ hmiPc = "off"
  /\ hmiPc' = "ready"
  /\ UNCHANGED <<bbbVars, lineVars, waiting, retry, buf, errNo, keepAliveSt,
                 fails, manu, row, session, alarmIn, faults>>

(* The driver chooses a station, or the automatic one, which has changed,  *)
(* replaces the choice.                                                    *)
Choose(st) ==
  /\ hmiPc \notin Setup /\ ~ waiting
  /\ manu' = st
  /\ UNCHANGED <<bbbVars, lineVars, hmiPc, waiting, retry, buf, errNo,
                 keepAliveSt, fails, row, session, alarmIn, faults>>

(* A call empties its receive buffer and sends its request.                *)
Transmit(lost) ==
  /\ hmiPc \in Calling /\ ~ waiting
  /\ waiting' = TRUE
  /\ line' = IF lost \/ appPc = "down" \/ Len(line) >= MaxLine THEN line
             ELSE Append(line, [fc |-> Fc(hmiPc), reg |-> Reg(hmiPc),
                                val |-> Sent(hmiPc)])
  /\ resp' = NoResp
  /\ UNCHANGED <<bbbVars, hmiPc, retry, buf, errNo, keepAliveSt, fails, manu,
                 row, session, alarmIn>>

(* The BBB answers long before the next call, 80 ms and more later.  That  *)
(* it still has to serve an old request then, and will answer that one     *)
(* first, is a fault, as is the loss of the request.                       *)
Late == appPc \in {"receive", "check"} /\ line # <<>>
Send == ~ Late /\ Transmit(FALSE) /\ UNCHANGED faults
SendEarly == Late /\ Transmit(FALSE) /\ Fault
Lose == Transmit(TRUE) /\ Fault

(* From a call to the next one, attempt by attempt. *)
GoTo(pc) == hmiPc' = pc /\ retry' = 0
Again    == hmiPc' = hmiPc /\ retry' = retry + 1

(* A round of the loop ends and the next one begins, with the alarm key in *)
(* between: every third press of it raises an alarm.  The presses are not  *)
(* counted here.  Bound: none once the BBB has restarted.                  *)
NextRound == \/ GoTo("wrStation")
             \/ session /\ GoTo("alarm1")

(* oneKeyAlarm writes the alarm three times, whether the write before was  *)
(* answered or given up.  Mutant: once.                                    *)
MutAfterAlarm == GoTo("wrStation")
AfterAlarm == \/ hmiPc = "alarm1" /\ GoTo("alarm2")
              \/ hmiPc = "alarm2" /\ GoTo("alarm3")
              \/ hmiPc = "alarm3" /\ GoTo("wrStation")

(* isBBBReady looks at the response buffer, whatever became of the read.   *)
ReadyDone(v) ==
  /\ buf' = v
  /\ GoTo(IF v = "READY" THEN "wrLogin" ELSE "ready")
  /\ UNCHANGED <<errNo, keepAliveSt, fails, row>>

(* loginBBB: setup calls it until it succeeds. *)
LoginRead(v) ==
  /\ buf' = v
  /\ GoTo(IF v = "LOGIN_RES" THEN "wrKeep" ELSE "wrLogin")
  /\ UNCHANGED <<errNo, keepAliveSt, fails, row>>

(* Where setup goes when loginBBB gives up: it tries again.                *)
(* Mutant: it goes on.                                                     *)
MutLoginGivenUp == GoTo("wrKeep")
LoginGivenUp == GoTo("wrLogin")
LoginFails ==
  /\ IF retry > LoginRetries THEN LoginGivenUp ELSE Again
  /\ UNCHANGED <<buf, errNo, keepAliveSt, fails, row>>

(* keepAliveFails after one more miss.  Mutant: only the last one counts.  *)
MutMissed == 1
Missed == fails + 1

(* Whether that makes the BBB dead.  Mutant: one miss too late. *)
MutTakenForDead == Missed > BBBDEAD
TakenForDead == Missed >= BBBDEAD

(* The error a keep-alive that was read leaves: none on the link, and with *)
(* an answer none at all.  Mutant: a dead BBB stays dead.                  *)
MutDeadStays(v) == IF errNo = "eCommLinkError" THEN "eNA" ELSE errNo
NoError(v) ==
  IF errNo = "eCommLinkError" \/ (keepAliveSt /\ v = "KEEP_RES") THEN "eNA"
  ELSE errNo

(* The keep-alive register was read: the answer is looked for if there was *)
(* a request; then the next request is sent, unless the BBB is taken for   *)
(* dead.  The counter of misses is not reset by an answer.                 *)
KeepRead(v) ==
  /\ buf' = v
  /\ \/ /\ ~ keepAliveSt \/ v = "KEEP_RES"
        /\ errNo' = NoError(v) /\ fails' = fails /\ row' = 0
        /\ keepAliveSt' = TRUE /\ GoTo("wrKeep")
     \/ /\ keepAliveSt /\ v # "KEEP_RES" /\ ~ TakenForDead
        /\ errNo' = NoError(v) /\ fails' = Missed
        /\ row' = IF row < BBBDEAD THEN row + 1 ELSE row
        /\ keepAliveSt' = TRUE /\ GoTo("wrKeep")
     \/ /\ keepAliveSt /\ v # "KEEP_RES" /\ TakenForDead
        /\ errNo' = "eBBBDead" /\ fails' = 0
        /\ row' = IF row < BBBDEAD THEN row + 1 ELSE row
        /\ UNCHANGED keepAliveSt /\ NextRound
KeepFails ==
  /\ IF retry + 1 >= 2 THEN NextRound /\ errNo' = "eCommLinkError"
                       ELSE Again /\ UNCHANGED errNo
  /\ UNCHANGED <<buf, keepAliveSt, fails, row>>

(* Where the program goes after a write that is over: the loop writes the  *)
(* station in each round, and reads the keep-alive register after it when  *)
(* its interval is over, also if the write failed.                         *)
(* Mutant: a round that could not write the station ends there.            *)
AfterWrite == \/ hmiPc \in {"wrKeep", "wrStation"} /\ NextRound
              \/ hmiPc = "wrStation" /\ GoTo("rdKeep")
              \/ AfterAlarm
MutAfterFailedWrite == NextRound
AfterFailedWrite == AfterWrite

(* A keep-alive request, the station or the alarm was written, or failed   *)
(* twice.  In setup the request counts only if it was written; in the loop *)
(* the state was set before.                                               *)
Written ==
  /\ keepAliveSt' = (keepAliveSt \/ hmiPc = "wrKeep")
  /\ AfterWrite
  /\ UNCHANGED <<buf, errNo, fails, row>>
WriteFails ==
  /\ IF retry + 1 < 2 THEN Again ELSE AfterFailedWrite
  /\ UNCHANGED <<buf, errNo, keepAliveSt, fails, row>>

(* The library takes a response of the function it has called for its own. *)
Receive ==
  /\ waiting /\ resp # NoResp /\ resp.fc = Fc(hmiPc)
  /\ waiting' = FALSE /\ resp' = NoResp
  /\ \/ hmiPc = "ready" /\ ReadyDone(resp.val)
     \/ hmiPc = "wrLogin" /\ GoTo("rdLogin")
          /\ UNCHANGED <<buf, errNo, keepAliveSt, fails, row>>
     \/ hmiPc = "rdLogin" /\ LoginRead(resp.val)
     \/ hmiPc \in {"wrKeep", "wrStation"} \cup Alarms /\ Written
     \/ hmiPc = "rdKeep" /\ KeepRead(resp.val)
  /\ session' = (session \/ hmiPc' = "wrLogin")
  /\ alarmIn' = (alarmIn /\ hmiPc' \in Alarms)
  /\ UNCHANGED <<bbbVars, line, manu, faults>>

CallFails ==
  /\ waiting' = FALSE /\ resp' = NoResp
  /\ \/ hmiPc = "ready" /\ ReadyDone(buf)
     \/ hmiPc \in {"wrLogin", "rdLogin"} /\ LoginFails
     \/ hmiPc \in {"wrKeep", "wrStation"} \cup Alarms /\ WriteFails
     \/ hmiPc = "rdKeep" /\ KeepFails
  /\ session' = (session \/ hmiPc' = "wrLogin")
  /\ alarmIn' = (alarmIn /\ hmiPc' \in Alarms)
  /\ UNCHANGED <<bbbVars, line, manu>>

(* A call fails on another call's response, or when it cannot be answered: *)
(* its request was lost, or the server does not run.                       *)
Unanswered == /\ resp = NoResp
              /\ \/ appPc = "receive" /\ line = <<>>
                 \/ appPc \in {"down", "init"}
Fail == /\ waiting
        /\ Unanswered \/ (resp # NoResp /\ resp.fc # Fc(hmiPc))
        /\ CallFails /\ UNCHANGED faults
Timeout == waiting /\ resp = NoResp /\ ~ Unanswered /\ CallFails /\ Fault

(* The HMI board is switched off; it starts from scratch. *)
HmiCrash ==
  /\ hmiPc # "off" /\ Fault
  /\ hmiPc' = "off" /\ waiting' = FALSE /\ retry' = 0 /\ buf' = "zero"
  /\ errNo' = "eNA" /\ keepAliveSt' = FALSE /\ fails' = 0 /\ manu' = NONE
  /\ row' = 0 /\ resp' = NoResp /\ session' = FALSE /\ alarmIn' = FALSE
  /\ UNCHANGED <<bbbVars, line>>

-----------------------------------------------------------------------------
Bbb == \/ AppInit \/ SetBBBReady \/ AppReady
       \/ Serve \/ AppCheck \/ TimerTest \/ TimerAnswer
Hmi == HmiBoot \/ Send \/ Receive \/ Fail
Faults == \/ BbbCrash \/ TimerStops
          \/ SendEarly \/ Lose \/ Timeout \/ HmiCrash

Next == Bbb \/ Hmi \/ Faults \/ \E st \in Stations : Choose(st)

Spec == Init /\ [][Next]_vars

(* Once started, the task and the timer of the BBB keep running, and its   *)
(* main loop becomes ready; whether a BBB that is down starts again is up  *)
(* to the properties.  The HMI's loop goes round, its calls time out, and  *)
(* the keep-alive interval is over again and again.                        *)
PollKeepAlive == (Receive \/ Fail) /\ hmiPc' = "rdKeep"
Fairness ==
  /\ WF_vars(SetBBBReady) /\ WF_vars(AppReady) /\ WF_vars(Serve)
  /\ WF_vars(AppCheck) /\ WF_vars(TimerTest) /\ WF_vars(TimerAnswer)
  /\ WF_vars(HmiBoot) /\ WF_vars(Send) /\ WF_vars(Receive) /\ WF_vars(Fail)
  /\ SF_vars(PollKeepAlive)

FairSpec == Spec /\ Fairness

-----------------------------------------------------------------------------
Values == {"zero", "READY", "LOGIN_REQ", "LOGIN_RES", "KEEP_REQ", "KEEP_RES",
           "ALARM", NONE} \cup Stations

(* Types of all variables. *)
TypeOK ==
  /\ BBBReady \in BOOLEAN /\ timerOn \in BOOLEAN /\ Hmilogin \in BOOLEAN
  /\ appPc \in {"down", "init", "receive", "check"}
  /\ timerPc \in {"idle", "answer"}
  /\ tab \in [DOMAIN Cleared -> Values]
  /\ manualNext \in {"unset", "zero", NONE} \cup Stations
  /\ line \in Seq([fc : {3, 6}, reg : DOMAIN Cleared \cup {"ONE_KEY_ALARM"},
                   val : Values \cup {NoVal}]) /\ Len(line) <= MaxLine
  /\ resp \in {NoResp} \cup [fc : {3, 6}, val : Values \cup {NoVal}]
  /\ hmiPc \in {"off"} \cup Calling /\ waiting \in BOOLEAN
  /\ retry \in 0 .. LoginRetries + 1 /\ buf \in Values
  /\ errNo \in {"eNA", "eCommLinkError", "eBBBDead"}
  /\ keepAliveSt \in BOOLEAN /\ fails \in 0 .. BBBDEAD - 1
  /\ manu \in {NONE} \cup Stations /\ row \in 0 .. BBBDEAD
  /\ session \in BOOLEAN /\ alarmIn \in BOOLEAN /\ faults \in 0 .. MaxFaults

Online == hmiPc \notin Setup

(* An HMI that has left its setup is logged in at the BBB, although        *)
(* requests and responses are lost or late, reads carry nothing that tells *)
(* one register from another, and the login register may still hold the    *)
(* answer to an earlier run of the HMI; unless the BBB has restarted.      *)
OnlineLoggedIn == Online /\ session => Hmilogin

(* A BBB that keeps running lets the HMI through its setup in the end,     *)
(* also one that comes back while the BBB thinks it logged in.             *)
LoginReached == <>[](appPc # "down") => <>[]Online

(* The station the driver has chosen arrives at the BBB, unless another is *)
(* chosen or taken over, one of the boards restarts, or the BBB is down    *)
(* for good.                                                               *)
ManualReaches ==
  \A st \in Stations :
    (Online /\ session /\ manu = st)
      ~> (manualNext = st \/ manu # st \/ ~ session)

(* "repeat 3 times for sure" (oneKeyAlarm): when the third write of an     *)
(* alarm is over it has got to a BBB that did not restart meanwhile,       *)
(* although requests are lost, and late answers to earlier requests are    *)
(* taken for those of the alarm's.                                         *)
AlarmThere == \/ alarmIn
              \/ \E i \in DOMAIN line : line[i].reg = "ONE_KEY_ALARM"
AlarmArrives ==
  [][(hmiPc \in Alarms /\ hmiPc' \notin Alarms /\ session /\ session')
       => AlarmThere]_vars

(* An HMI whose BBB has gone down for good says so and goes on saying so.  *)
LossNoticed ==
  <>[](appPc = "down" /\ Online) => <>[](errNo = "eCommLinkError")

(* A BBB whose timers have stopped, though it answers every request, is    *)
(* taken for dead: missed keep-alives add up.                              *)
HungNoticed ==
  <>[](appPc \in {"receive", "check"} /\ ~ timerOn)
    => <>[](errNo = "eBBBDead")

(* And one whose timers answer in time shows no error in the end.          *)
AliveAgain ==
  <>[](/\ appPc \in {"receive", "check"}
       /\ ~ (hmiPc = "rdKeep" /\ resp.val = "KEEP_REQ"))
    => <>[](errNo = "eNA")

(* "seems that BBB is dead (not keep alive for N times" (getInfosFromBBB): *)
(* the HMI says so only after BBBDEAD keep-alives in a row were missed.    *)
DeadMeansSilent ==
  [][errNo' = "eBBBDead" /\ errNo # "eBBBDead" => row' >= BBBDEAD]_vars
=============================================================================
