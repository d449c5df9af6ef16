---------------------------- MODULE HmiLinkProofs ----------------------------
(***************************************************************************)
(* Proofs about HmiLink, for any stations, limits and number of faults.    *)
(* The stations may have any names: that a station's value is never taken  *)
(* for an answer follows from where it is written.                         *)
(***************************************************************************)
EXTENDS HmiLink, SequenceTheorems, TLAPS

USE HmiLinkAssumption

-----------------------------------------------------------------------------
(* The invariant.                                                          *)

Polled == {"BBB_READY", "LOGIN", "KEEP_ALIVE"}
Choice == {NONE} \cup Stations

(* The requests the HMI makes. *)
Request ==
  {q \in [fc : {3, 6}, reg : DOMAIN Cleared \cup {"ONE_KEY_ALARM"},
          val : Values \cup {NoVal}] :
     /\ q.fc = 3 => q.reg \in Polled
     /\ q.fc = 6 /\ q.reg = "LOGIN" => q.val = "LOGIN_REQ"
     /\ q.fc = 6 /\ q.reg = "KEEP_ALIVE" => q.val = "KEEP_REQ"
     /\ q.fc = 6 /\ q.reg = "MANUAL" => q.val \in Choice
     /\ q.fc = 6 => q.reg # "BBB_READY"}

(* So each register keeps to the values meant for it. *)
LinkInv ==
  /\ line \in Seq(Request)
  /\ tab["BBB_READY"] \in {"zero", "READY"}
  /\ tab["LOGIN"] \in {"zero", "LOGIN_REQ", "LOGIN_RES"}
  /\ tab["KEEP_ALIVE"] \in {"zero", "KEEP_REQ", "KEEP_RES"}
  /\ tab["MANUAL"] \in {"zero"} \cup Choice
  /\ resp.fc = 3 => resp.val \in {"zero", "READY", "LOGIN_REQ", "LOGIN_RES",
                                  "KEEP_REQ", "KEEP_RES"}

(* An answer to the login, in the register or on its way, means that the   *)
(* BBB has logged the HMI in; on its way only if the BBB has not           *)
(* restarted since.                                                        *)
LoginInv ==
  /\ tab["LOGIN"] = "LOGIN_RES" => Hmilogin
  /\ session /\ resp.fc = 3 /\ resp.val = "LOGIN_RES" => Hmilogin
  /\ OnlineLoggedIn

IInv == TypeOK /\ LinkInv /\ LoginInv

-----------------------------------------------------------------------------
(* The registers.                                                          *)
LEMMA Registers ==
  /\ DOMAIN Cleared = {"BBB_READY", "LOGIN", "KEEP_ALIVE", "MANUAL"}
  /\ \A r \in DOMAIN Cleared : Cleared[r] = "zero"
BY DEF Cleared

(* A fault is counted up to the bound. *)
LEMMA FaultStep == TypeOK /\ Fault => faults' \in 0 .. MaxFaults
BY DEF TypeOK, Fault

LEMMA InitInv == Init => IInv
<1>1. SUFFICES ASSUME Init PROVE IInv
  OBVIOUS
<1>2. <<>> \in Seq(Request) /\ Len(<<>>) = 0
      /\ <<>> \in Seq([fc : {3, 6}, reg : DOMAIN Cleared \cup {"ONE_KEY_ALARM"},
                       val : Values \cup {NoVal}])
  BY EmptySeq
<1>3. Cleared \in [DOMAIN Cleared -> Values]
  BY DEF Cleared, Values
<1>4. TypeOK
  <2>1. buf \in Values /\ resp \in {NoResp} /\ tab \in [DOMAIN Cleared -> Values]
    BY <1>1, <1>3 DEF Init, Values
  <2>2. fails \in 0 .. BBBDEAD - 1 /\ row \in 0 .. BBBDEAD
        /\ faults \in 0 .. MaxFaults /\ retry \in 0 .. LoginRetries + 1
    BY <1>1 DEF Init
  <2>3. line \in Seq([fc : {3, 6}, reg : DOMAIN Cleared \cup {"ONE_KEY_ALARM"},
                      val : Values \cup {NoVal}]) /\ Len(line) <= MaxLine
    BY <1>1, <1>2 DEF Init
  <2>4. QED
    BY <1>1, <2>1, <2>2, <2>3 DEF Init, TypeOK
<1>5. LinkInv
  BY <1>1, <1>2, Registers DEF Init, LinkInv, NoResp
<1>6. LoginInv
  BY <1>1, Registers
  DEF Init, LoginInv, NoResp, NoVal, OnlineLoggedIn, Online, Setup
<1>7. QED
  BY <1>4, <1>5, <1>6 DEF IInv

-----------------------------------------------------------------------------
(* The line.                                                               *)

(* What a call sends is one of the requests. *)
LEMMA Sends ==
  ASSUME TypeOK, hmiPc \in Calling
  PROVE  [fc |-> Fc(hmiPc), reg |-> Reg(hmiPc), val |-> Sent(hmiPc)] \in Request
<1> DEFINE q == [fc |-> Fc(hmiPc), reg |-> Reg(hmiPc), val |-> Sent(hmiPc)]
<1>1. hmiPc \in {"ready", "rdLogin", "rdKeep", "wrLogin", "wrStation",
                 "wrKeep", "alarm1", "alarm2", "alarm3"}
  BY DEF Calling, Reads, Writes, Alarms
<1>2. CASE hmiPc \in Reads
  <2>1. Fc(hmiPc) = 3
    BY <1>2 DEF Fc
  <2>2. Reg(hmiPc) \in Polled
    BY <1>2 DEF Reg, Reads, Polled, Alarms
  <2>3. Sent(hmiPc) = NoVal
    BY <1>2 DEF Sent, Reads, Alarms
  <2>4. QED
    BY <2>1, <2>2, <2>3, Registers DEF Request, Polled
<1>3. CASE hmiPc \notin Reads
  <2>1. Fc(hmiPc) = 6
    BY <1>3 DEF Fc
  <2>2. CASE hmiPc = "wrLogin"
    <3>1. Reg(hmiPc) = "LOGIN" /\ Sent(hmiPc) = "LOGIN_REQ"
      BY <2>2 DEF Reg, Sent, Alarms
    <3>2. QED
      BY <2>1, <3>1, Registers DEF Request, Values
  <2>3. CASE hmiPc = "wrKeep"
    <3>1. Reg(hmiPc) = "KEEP_ALIVE" /\ Sent(hmiPc) = "KEEP_REQ"
      BY <2>3 DEF Reg, Sent, Alarms
    <3>2. QED
      BY <2>1, <3>1, Registers DEF Request, Values
  <2>4. CASE hmiPc = "wrStation"
    <3>1. Reg(hmiPc) = "MANUAL" /\ Sent(hmiPc) = manu
      BY <2>4 DEF Reg, Sent, Alarms
    <3>2. manu \in Choice /\ manu \in Values
      BY DEF TypeOK, Choice, Values
    <3>3. QED
      BY <2>1, <3>1, <3>2, Registers DEF Request
  <2>5. CASE hmiPc \in Alarms
    <3>1. Reg(hmiPc) = "ONE_KEY_ALARM" /\ Sent(hmiPc) = "ALARM"
      BY <2>5 DEF Reg, Sent, Alarms
    <3>2. QED
      BY <2>1, <3>1, Registers DEF Request, Values
  <2>6. QED
    BY <1>1, <1>3, <2>2, <2>3, <2>4, <2>5 DEF Reads, Alarms
<1>4. QED
  BY <1>2, <1>3

(* A queue of requests is a queue of the type's records. *)
LEMMA LineType ==
  ASSUME NEW q \in Seq(Request)
  PROVE  q \in Seq([fc : {3, 6}, reg : DOMAIN Cleared \cup {"ONE_KEY_ALARM"},
                    val : Values \cup {NoVal}])
<1>1. Request \subseteq [fc : {3, 6}, reg : DOMAIN Cleared \cup {"ONE_KEY_ALARM"},
                         val : Values \cup {NoVal}]
  BY DEF Request
<1>2. QED
  BY <1>1, SeqMonotonic

(* A call: its request joins the line, or does not. *)
LEMMA TransmitStep ==
  ASSUME IInv, NEW lost \in BOOLEAN, Transmit(lost), faults' \in 0 .. MaxFaults
  PROVE  IInv'
<1>1. TypeOK /\ LinkInv /\ LoginInv
  BY DEF IInv
<1>2. line' \in Seq(Request) /\ Len(line') <= MaxLine
  <2> DEFINE q == [fc |-> Fc(hmiPc), reg |-> Reg(hmiPc), val |-> Sent(hmiPc)]
  <2>1. q \in Request
    BY <1>1, Sends DEF Transmit
  <2>2. line \in Seq(Request) /\ Len(line) <= MaxLine
    BY <1>1 DEF LinkInv, TypeOK
  <2>3. line' = line \/ (Len(line) < MaxLine /\ line' = Append(line, q))
    <3>1. Len(line) \in Nat
      BY <2>2, LenProperties
    <3>2. QED
      BY <3>1 DEF Transmit
  <2> HIDE DEF q
  <2>4. Append(line, q) \in Seq(Request) /\ Len(Append(line, q)) = Len(line) + 1
        /\ Len(line) \in Nat
    BY <2>1, <2>2, AppendProperties, LenProperties
  <2>5. QED
    BY <2>2, <2>3, <2>4
<1>3. TypeOK'
  <2>1. line' \in Seq([fc : {3, 6}, reg : DOMAIN Cleared \cup {"ONE_KEY_ALARM"},
                       val : Values \cup {NoVal}])
    BY <1>2, LineType
  <2>2. QED
    BY <1>1, <1>2, <2>1 DEF TypeOK, Transmit, bbbVars
<1>4. LinkInv'
  BY <1>1, <1>2 DEF LinkInv, Transmit, bbbVars, NoResp
<1>5. LoginInv'
  BY <1>1 DEF LoginInv, Transmit, bbbVars, NoResp, OnlineLoggedIn, Online
<1>6. QED
  BY <1>3, <1>4, <1>5 DEF IInv

(* The BBB serves the first request of the line. *)
LEMMA ServeStep == ASSUME IInv, Serve PROVE IInv'
<1> DEFINE q == Head(line)
<1>1. TypeOK /\ LinkInv /\ LoginInv
  BY DEF IInv
<1>2. q \in Request /\ Tail(line) \in Seq(Request)
      /\ Len(Tail(line)) = Len(line) - 1 /\ Len(line) \in Nat
  <2>1. line \in Seq(Request) /\ line # <<>>
    BY <1>1 DEF LinkInv, Serve
  <2>2. QED
    BY <2>1, HeadTailProperties, LenProperties
<1>3. /\ tab' = IF q.fc = 6 /\ q.reg \in DOMAIN tab
                THEN [tab EXCEPT ![q.reg] = q.val] ELSE tab
      /\ resp' = IF hmiPc = "off" THEN NoResp
                 ELSE [fc |-> q.fc,
                       val |-> IF q.fc = 6 THEN NoVal ELSE tab[q.reg]]
      /\ line' = Tail(line) /\ appPc' = "check"
      /\ alarmIn' \in BOOLEAN
      /\ UNCHANGED <<BBBReady, timerOn, timerPc, Hmilogin, manualNext, hmiVars,
                     session, faults>>
  BY DEF Serve
<1> HIDE DEF q
<1>4. tab \in [DOMAIN Cleared -> Values]
  BY <1>1 DEF TypeOK
<1>5. /\ q.fc \in {3, 6} /\ q.val \in Values \cup {NoVal}
      /\ q.fc = 3 => q.reg \in Polled
      /\ q.fc = 6 /\ q.reg = "LOGIN" => q.val = "LOGIN_REQ"
      /\ q.fc = 6 /\ q.reg = "KEEP_ALIVE" => q.val = "KEEP_REQ"
      /\ q.fc = 6 /\ q.reg = "MANUAL" => q.val \in Choice
      /\ q.fc = 6 => q.reg # "BBB_READY"
  BY <1>2 DEF Request
<1>6. q.fc = 6 /\ q.reg \in DOMAIN tab => q.val \in Values
  BY <1>4, <1>5, Registers DEF Values, Choice
<1>7. tab' \in [DOMAIN Cleared -> Values]
  BY <1>3, <1>4, <1>6
<1>8. /\ tab'["BBB_READY"] = tab["BBB_READY"]
      /\ tab'["LOGIN"] \in {tab["LOGIN"], "LOGIN_REQ"}
      /\ tab'["KEEP_ALIVE"] \in {tab["KEEP_ALIVE"], "KEEP_REQ"}
      /\ tab'["MANUAL"] \in {tab["MANUAL"]} \cup Choice
  BY <1>3, <1>4, <1>5, Registers
<1>9. CASE hmiPc = "off" \/ q.fc = 6
  <2>1. resp' = NoResp \/ (resp'.fc = 6 /\ resp' \in [fc : {3, 6}, val : Values \cup {NoVal}])
    BY <1>3, <1>9
  <2>2. resp'.fc # 3
    BY <2>1 DEF NoResp
  <2>3. QED
    <3>1. TypeOK'
      <4>1. line' \in Seq([fc : {3, 6}, reg : DOMAIN Cleared \cup {"ONE_KEY_ALARM"},
                           val : Values \cup {NoVal}]) /\ Len(line') <= MaxLine
        BY <1>1, <1>2, <1>3, LineType DEF TypeOK
      <4>2. QED
        BY <1>1, <1>3, <1>7, <2>1, <4>1 DEF TypeOK, hmiVars
    <3>2. LinkInv'
      BY <1>1, <1>2, <1>3, <1>8, <2>2 DEF LinkInv
    <3>3. LoginInv'
      BY <1>1, <1>3, <1>8, <2>2 DEF LoginInv, hmiVars, OnlineLoggedIn, Online
    <3>4. QED
      BY <3>1, <3>2, <3>3 DEF IInv
<1>10. CASE hmiPc # "off" /\ q.fc = 3
  <2>1. resp' = [fc |-> 3, val |-> tab[q.reg]] /\ q.reg \in Polled
    BY <1>3, <1>5, <1>10
  <2>2. /\ tab[q.reg] \in {"zero", "READY", "LOGIN_REQ", "LOGIN_RES",
                           "KEEP_REQ", "KEEP_RES"}
        /\ tab[q.reg] = "LOGIN_RES" => q.reg = "LOGIN"
    BY <1>1, <2>1 DEF LinkInv, Polled
  <2>3. resp' \in [fc : {3, 6}, val : Values \cup {NoVal}]
    BY <2>1, <2>2 DEF Values
  <2>4. TypeOK'
    <3>1. line' \in Seq([fc : {3, 6}, reg : DOMAIN Cleared \cup {"ONE_KEY_ALARM"},
                         val : Values \cup {NoVal}]) /\ Len(line') <= MaxLine
      BY <1>1, <1>2, <1>3, LineType DEF TypeOK
    <3>2. QED
      BY <1>1, <1>3, <1>7, <2>3, <3>1 DEF TypeOK, hmiVars
  <2>5. LinkInv'
    BY <1>1, <1>2, <1>3, <1>8, <2>1, <2>2 DEF LinkInv
  <2>6. LoginInv'
    BY <1>1, <1>3, <1>8, <2>1, <2>2 DEF LoginInv, hmiVars, OnlineLoggedIn,
      Online
  <2>7. QED
    BY <2>4, <2>5, <2>6 DEF IInv
<1>11. QED
  BY <1>5, <1>9, <1>10

-----------------------------------------------------------------------------
(* The BBB's own steps.                                                    *)

(* Steps that leave the line and the HMI alone and change the registers of *)
(* the table only to what is meant for them.                               *)
LEMMA BbbStep ==
  ASSUME IInv, UNCHANGED <<line, resp, hmiVars, session, alarmIn>>,
         BBBReady' \in BOOLEAN, timerOn' \in BOOLEAN, Hmilogin' \in BOOLEAN,
         appPc' \in {"down", "init", "receive", "check"},
         timerPc' \in {"idle", "answer"}, faults' \in 0 .. MaxFaults,
         manualNext' \in {"unset", "zero", NONE} \cup Stations,
         tab' \in [DOMAIN Cleared -> Values],
         tab'["BBB_READY"] \in {tab["BBB_READY"], "READY"},
         tab'["LOGIN"] \in {tab["LOGIN"], "LOGIN_RES"},
         tab'["KEEP_ALIVE"] \in {tab["KEEP_ALIVE"], "KEEP_RES"},
         tab'["MANUAL"] = tab["MANUAL"],
         Hmilogin => Hmilogin', tab'["LOGIN"] = "LOGIN_RES" => Hmilogin'
  PROVE  IInv'
<1>1. TypeOK'
  BY DEF IInv, TypeOK, hmiVars
<1>2. LinkInv'
  BY DEF IInv, LinkInv
<1>3. LoginInv'
  BY DEF IInv, LoginInv, OnlineLoggedIn, Online, hmiVars
<1>4. QED
  BY <1>1, <1>2, <1>3 DEF IInv

LEMMA Bbb1 == ASSUME IInv, AppInit \/ SetBBBReady \/ TimerTest \/ TimerStops
              PROVE  IInv'
<1>1. /\ UNCHANGED <<tab, Hmilogin, manualNext, line, resp, hmiVars, session,
                     alarmIn>>
      /\ BBBReady' \in BOOLEAN /\ timerOn' \in BOOLEAN
      /\ appPc' \in {"down", "init", "receive", "check"}
      /\ timerPc' \in {"idle", "answer"} /\ faults' \in 0 .. MaxFaults
  <2>1. TypeOK
    BY DEF IInv
  <2>2. CASE AppInit
    BY <2>1, <2>2 DEF AppInit, lineVars, TypeOK
  <2>3. CASE SetBBBReady
    BY <2>1, <2>3 DEF SetBBBReady, lineVars, TypeOK
  <2>4. CASE TimerTest
    BY <2>1, <2>4 DEF TimerTest, lineVars, TypeOK
  <2>5. CASE TimerStops
    BY <2>1, <2>5, FaultStep DEF TimerStops, lineVars, TypeOK
  <2>6. QED
    BY <2>2, <2>3, <2>4, <2>5
<1>2. QED
  BY <1>1, BbbStep DEF IInv, TypeOK, LoginInv

LEMMA Bbb2 == ASSUME IInv, AppReady \/ TimerAnswer PROVE IInv'
<1>1. tab \in [DOMAIN Cleared -> Values] /\ {"READY", "KEEP_RES"} \subseteq Values
  BY DEF IInv, TypeOK, Values
<1>2. /\ tab' \in [DOMAIN Cleared -> Values]
      /\ tab'["BBB_READY"] \in {tab["BBB_READY"], "READY"}
      /\ tab'["LOGIN"] = tab["LOGIN"]
      /\ tab'["KEEP_ALIVE"] \in {tab["KEEP_ALIVE"], "KEEP_RES"}
      /\ tab'["MANUAL"] = tab["MANUAL"]
  BY <1>1, Registers DEF AppReady, TimerAnswer
<1>3. /\ UNCHANGED <<Hmilogin, manualNext, line, resp, hmiVars, session,
                     alarmIn>>
      /\ BBBReady' \in BOOLEAN /\ timerOn' \in BOOLEAN
      /\ appPc' \in {"down", "init", "receive", "check"}
      /\ timerPc' \in {"idle", "answer"} /\ faults' \in 0 .. MaxFaults
  BY DEF AppReady, TimerAnswer, lineVars, IInv, TypeOK
<1>4. QED
  BY <1>2, <1>3, BbbStep DEF IInv, TypeOK, LoginInv

(* A login is answered only with Hmilogin set in the same step. *)
LEMMA Bbb3 == ASSUME IInv, AppCheck PROVE IInv'
<1>1. tab \in [DOMAIN Cleared -> Values] /\ "LOGIN_RES" \in Values
  BY DEF IInv, TypeOK, Values
<1>2. /\ tab' \in [DOMAIN Cleared -> Values]
      /\ tab'["BBB_READY"] = tab["BBB_READY"]
      /\ tab'["LOGIN"] \in {tab["LOGIN"], "LOGIN_RES"}
      /\ tab'["LOGIN"] # tab["LOGIN"] => Hmilogin'
      /\ tab'["KEEP_ALIVE"] = tab["KEEP_ALIVE"]
      /\ tab'["MANUAL"] = tab["MANUAL"]
  BY <1>1, Registers DEF AppCheck, LoginAsked
<1>3. /\ UNCHANGED <<BBBReady, timerOn, timerPc, line, resp, hmiVars, session,
                     alarmIn, faults>>
      /\ appPc' = "receive" /\ Hmilogin' \in BOOLEAN
      /\ Hmilogin => Hmilogin'
  BY DEF AppCheck, lineVars, IInv, TypeOK, LoginAsked
<1>4. manualNext' \in {"unset", "zero", NONE} \cup Stations
  BY DEF AppCheck, ManualTaken, IInv, TypeOK, LinkInv, Choice
<1>5. QED
  BY <1>2, <1>3, <1>4, BbbStep DEF IInv, TypeOK, LoginInv

LEMMA BbbCrashStep == ASSUME IInv, BbbCrash PROVE IInv'
<1>1. <<>> \in Seq(Request) /\ Len(<<>>) = 0
      /\ <<>> \in Seq([fc : {3, 6}, reg : DOMAIN Cleared \cup {"ONE_KEY_ALARM"},
                       val : Values \cup {NoVal}])
  BY EmptySeq
<1>2. Cleared \in [DOMAIN Cleared -> Values]
  BY DEF Cleared, Values
<1>3. TypeOK'
  <2>1. line' \in Seq([fc : {3, 6}, reg : DOMAIN Cleared \cup {"ONE_KEY_ALARM"},
                       val : Values \cup {NoVal}]) /\ Len(line') <= MaxLine
    BY <1>1 DEF BbbCrash
  <2>2. faults' \in 0 .. MaxFaults
    BY DEF BbbCrash, Fault, IInv, TypeOK
  <2>3. QED
    BY <1>2, <2>1, <2>2 DEF BbbCrash, IInv, TypeOK, hmiVars
<1>4. LinkInv'
  BY <1>1, Registers DEF BbbCrash, IInv, LinkInv
<1>5. LoginInv'
  BY Registers DEF BbbCrash, LoginInv, OnlineLoggedIn
<1>6. QED
  BY <1>3, <1>4, <1>5 DEF IInv

-----------------------------------------------------------------------------
(* The HMI's steps.                                                        *)


(* A call is over: the HMI is in operation only if it was, or if it has    *)
(* read an answer to its login.                                            *)
LEMMA CallOver ==
  ASSUME IInv, UNCHANGED <<bbbVars, line>>, waiting' = FALSE, resp' = NoResp,
         hmiPc' \in {"off"} \cup Calling, retry' \in 0 .. LoginRetries + 1,
         buf' \in Values, errNo' \in {"eNA", "eCommLinkError", "eBBBDead"},
         keepAliveSt' \in BOOLEAN, fails' \in 0 .. BBBDEAD - 1,
         row' \in 0 .. BBBDEAD, faults' \in 0 .. MaxFaults,
         session' \in BOOLEAN, alarmIn' \in BOOLEAN,
         manu' \in {NONE} \cup Stations,
         hmiPc' \notin Setup /\ session' => Hmilogin
  PROVE  IInv'
<1>1. TypeOK'
  BY DEF IInv, TypeOK, bbbVars
<1>2. LinkInv'
  BY DEF IInv, LinkInv, bbbVars, NoResp
<1>3. LoginInv'
  BY DEF IInv, LoginInv, OnlineLoggedIn, Online, bbbVars, NoResp
<1>4. QED
  BY <1>1, <1>2, <1>3 DEF IInv

(* Where calls lead. *)
LEMMA Points ==
  /\ Calling = {"ready", "rdLogin", "rdKeep", "wrLogin", "wrStation", "wrKeep",
                "alarm1", "alarm2", "alarm3"}
  /\ Alarms = {"alarm1", "alarm2", "alarm3"}
  /\ Setup = {"off", "ready", "wrLogin", "rdLogin"}
BY DEF Calling, Reads, Writes, Alarms, Setup

LEMMA ReceiveStep == ASSUME IInv, Receive PROVE IInv'
<1>1. TypeOK /\ LinkInv /\ LoginInv
  BY DEF IInv
<1>2. /\ waiting' = FALSE /\ resp' = NoResp
      /\ UNCHANGED <<bbbVars, line, manu, faults>>
      /\ session' = (session \/ hmiPc' = "wrLogin")
      /\ alarmIn' = (alarmIn /\ hmiPc' \in Alarms)
      /\ resp.fc = Fc(hmiPc)
  BY DEF Receive
<1>3. /\ session' \in BOOLEAN /\ alarmIn' \in BOOLEAN
      /\ manu' \in {NONE} \cup Stations /\ faults' \in 0 .. MaxFaults
      /\ errNo \in {"eNA", "eCommLinkError", "eBBBDead"} /\ buf \in Values
      /\ keepAliveSt \in BOOLEAN /\ fails \in 0 .. BBBDEAD - 1
      /\ row \in 0 .. BBBDEAD /\ 0 \in 0 .. LoginRetries + 1
  BY <1>1, <1>2 DEF TypeOK
<1>4. hmiPc \in Reads => resp.fc = 3 /\ resp.val \in Values
  BY <1>1, <1>2 DEF Fc, LinkInv, Values
<1>5. CASE hmiPc = "ready" /\ ReadyDone(resp.val)
  <2>1. hmiPc' \in {"ready", "wrLogin"} /\ retry' = 0 /\ buf' \in Values
    BY <1>4, <1>5 DEF ReadyDone, GoTo, Reads
  <2>2. UNCHANGED <<errNo, keepAliveSt, fails, row>>
    BY <1>5 DEF ReadyDone
  <2>3. hmiPc' \in Calling /\ hmiPc' \in Setup
    BY <2>1, Points
  <2>4. QED
    BY <1>2, <1>3, <2>1, <2>2, <2>3, CallOver
<1>6. CASE hmiPc = "wrLogin" /\ GoTo("rdLogin")
           /\ UNCHANGED <<buf, errNo, keepAliveSt, fails, row>>
  <2>1. hmiPc' = "rdLogin" /\ retry' = 0
        /\ UNCHANGED <<buf, errNo, keepAliveSt, fails, row>>
    BY <1>6 DEF GoTo
  <2>2. hmiPc' \in Calling /\ hmiPc' \in Setup
    BY <2>1, Points
  <2>3. QED
    BY <1>2, <1>3, <2>1, <2>2, CallOver
<1>7. CASE hmiPc = "rdLogin" /\ LoginRead(resp.val)
  <2>1. /\ buf' \in Values /\ retry' = 0
        /\ UNCHANGED <<errNo, keepAliveSt, fails, row>>
        /\ hmiPc' = IF resp.val = "LOGIN_RES" THEN "wrKeep" ELSE "wrLogin"
    BY <1>4, <1>7 DEF LoginRead, GoTo, Reads
  <2>2. hmiPc' \notin Setup /\ session' => Hmilogin
    BY <1>1, <1>2, <1>4, <1>7, <2>1, Points DEF LoginInv, Reads
  <2>3. hmiPc' \in Calling
    BY <2>1, Points
  <2>4. QED
    BY <1>2, <1>3, <2>1, <2>2, <2>3, CallOver
<1>8. CASE hmiPc \in {"wrKeep", "wrStation"} \cup Alarms /\ Written
  <2>1. /\ hmiPc' \in {"wrStation", "rdKeep"} \cup Alarms /\ retry' = 0
        /\ keepAliveSt' \in BOOLEAN /\ UNCHANGED <<buf, errNo, fails, row>>
    BY <1>1, <1>8, Points
    DEF Written, AfterWrite, AfterAlarm, NextRound, GoTo, TypeOK
  <2>2. hmiPc' \notin Setup /\ session' => Hmilogin
    BY <1>1, <1>2, <1>8, <2>1, Points DEF LoginInv, OnlineLoggedIn, Online
  <2>3. hmiPc' \in Calling
    BY <2>1, Points
  <2>4. QED
    BY <1>2, <1>3, <2>1, <2>2, <2>3, CallOver
<1>9. CASE hmiPc = "rdKeep" /\ KeepRead(resp.val)
  <2>1. buf' \in Values
    BY <1>4, <1>9 DEF KeepRead, Reads
  <2>2. /\ hmiPc' \in {"wrKeep", "wrStation", "alarm1"} /\ retry' = 0
        /\ keepAliveSt' \in BOOLEAN
    BY <1>1, <1>9 DEF KeepRead, NextRound, GoTo, TypeOK
  <2>3. errNo' \in {"eNA", "eCommLinkError", "eBBBDead"}
    BY <1>1, <1>9 DEF KeepRead, NoError, TypeOK
  <2>4. fails' \in 0 .. BBBDEAD - 1 /\ row' \in 0 .. BBBDEAD
    BY <1>1, <1>9 DEF KeepRead, Missed, TakenForDead, TypeOK
  <2>5. hmiPc' \notin Setup /\ session' => Hmilogin
    BY <1>1, <1>2, <1>9, <2>2, Points DEF LoginInv, OnlineLoggedIn, Online
  <2>6. hmiPc' \in Calling
    BY <2>2, Points
  <2>7. QED
    BY <1>2, <1>3, <2>1, <2>2, <2>3, <2>4, <2>5, <2>6, CallOver
<1>10. QED
  BY <1>5, <1>6, <1>7, <1>8, <1>9 DEF Receive

(* No call that failed lets the HMI through its setup. *)
LEMMA FailStep ==
  ASSUME IInv, CallFails, faults' \in 0 .. MaxFaults PROVE IInv'
<1>1. TypeOK /\ LinkInv /\ LoginInv
  BY DEF IInv
<1>2. /\ waiting' = FALSE /\ resp' = NoResp
      /\ UNCHANGED <<bbbVars, line, manu>>
      /\ session' = (session \/ hmiPc' = "wrLogin")
      /\ alarmIn' = (alarmIn /\ hmiPc' \in Alarms)
  BY DEF CallFails
<1>3. /\ session' \in BOOLEAN /\ alarmIn' \in BOOLEAN
      /\ manu' \in {NONE} \cup Stations
      /\ errNo \in {"eNA", "eCommLinkError", "eBBBDead"} /\ buf \in Values
      /\ keepAliveSt \in BOOLEAN /\ fails \in 0 .. BBBDEAD - 1
      /\ row \in 0 .. BBBDEAD /\ 0 \in 0 .. LoginRetries + 1
  BY <1>1, <1>2 DEF TypeOK
<1>4. CASE hmiPc = "ready" /\ ReadyDone(buf)
  <2>1. /\ hmiPc' \in {"ready", "wrLogin"} /\ retry' = 0 /\ buf' = buf
        /\ UNCHANGED <<errNo, keepAliveSt, fails, row>>
    BY <1>4 DEF ReadyDone, GoTo
  <2>2. hmiPc' \in Calling /\ hmiPc' \in Setup
    BY <2>1, Points
  <2>3. QED
    BY <1>2, <1>3, <2>1, <2>2, CallOver
<1>5. CASE hmiPc \in {"wrLogin", "rdLogin"} /\ LoginFails
  <2>1. /\ hmiPc' \in {"wrLogin", "rdLogin"}
        /\ retry' \in 0 .. LoginRetries + 1
        /\ UNCHANGED <<buf, errNo, keepAliveSt, fails, row>>
    BY <1>1, <1>5 DEF LoginFails, LoginGivenUp, GoTo, Again, TypeOK
  <2>2. hmiPc' \in Calling /\ hmiPc' \in Setup
    BY <2>1, Points
  <2>3. QED
    BY <1>2, <1>3, <2>1, <2>2, CallOver
<1>6. CASE \/ hmiPc \in {"wrKeep", "wrStation"} \cup Alarms /\ WriteFails
           \/ hmiPc = "rdKeep" /\ KeepFails
  <2>1. /\ hmiPc' \in {"wrStation", "rdKeep", "wrKeep"} \cup Alarms
        /\ retry' \in 0 .. LoginRetries + 1
        /\ errNo' \in {"eNA", "eCommLinkError", "eBBBDead"}
        /\ UNCHANGED <<buf, keepAliveSt, fails, row>>
    BY <1>1, <1>6, Points
    DEF WriteFails, KeepFails, AfterFailedWrite, AfterWrite, AfterAlarm,
        NextRound, GoTo, Again, TypeOK
  <2>2. hmiPc' \notin Setup /\ session' => Hmilogin
    BY <1>1, <1>2, <1>6, <2>1, Points DEF LoginInv, OnlineLoggedIn, Online
  <2>3. hmiPc' \in Calling
    BY <2>1, Points
  <2>4. QED
    BY <1>2, <1>3, <2>1, <2>2, <2>3, CallOver
<1>7. QED
  BY <1>4, <1>5, <1>6 DEF CallFails

LEMMA HmiCrashStep == ASSUME IInv, HmiCrash PROVE IInv'
<1>1. faults' \in 0 .. MaxFaults
  BY DEF HmiCrash, Fault, IInv, TypeOK
<1>2. buf' \in Values
  BY DEF HmiCrash, Values
<1>3. /\ UNCHANGED <<bbbVars, line>> /\ waiting' = FALSE /\ resp' = NoResp
      /\ hmiPc' \in {"off"} \cup Calling
      /\ errNo' \in {"eNA", "eCommLinkError", "eBBBDead"}
      /\ manu' \in {NONE} \cup Stations
  BY DEF HmiCrash
<1>4. keepAliveSt' \in BOOLEAN /\ session' \in BOOLEAN /\ alarmIn' \in BOOLEAN
  BY DEF HmiCrash
<1>5. /\ retry' \in 0 .. LoginRetries + 1 /\ fails' \in 0 .. BBBDEAD - 1
      /\ row' \in 0 .. BBBDEAD
  BY DEF HmiCrash
<1>6. hmiPc' \notin Setup /\ session' => Hmilogin
  BY DEF HmiCrash
<1>7. QED
  BY <1>1, <1>2, <1>3, <1>4, <1>5, <1>6, CallOver

LEMMA BootStep == ASSUME IInv, HmiBoot \/ \E st \in Stations : Choose(st)
                  PROVE  IInv'
<1>1. /\ UNCHANGED <<bbbVars, line, resp, waiting, retry, buf, errNo,
                     keepAliveSt, fails, row, session, alarmIn, faults>>
      /\ hmiPc' = hmiPc \/ hmiPc' = "ready"
      /\ manu' = manu \/ manu' \in Stations
  BY DEF HmiBoot, Choose, lineVars
<1>2. TypeOK'
  BY <1>1, Points DEF IInv, TypeOK, bbbVars
<1>3. LinkInv'
  BY <1>1 DEF IInv, LinkInv, bbbVars
<1>4. LoginInv'
  BY <1>1, Points DEF IInv, LoginInv, OnlineLoggedIn, Online, bbbVars
<1>5. QED
  BY <1>2, <1>3, <1>4 DEF IInv

-----------------------------------------------------------------------------
LEMMA Invariance == Spec => []IInv
<1>1. IInv /\ [Next]_vars => IInv'
  <2> SUFFICES ASSUME IInv, [Next]_vars PROVE IInv'
    OBVIOUS
  <2>1. CASE Bbb
    BY <2>1, Bbb1, Bbb2, Bbb3, ServeStep DEF Bbb
  <2>2. CASE Send \/ SendEarly \/ Lose
    <3>1. faults' \in 0 .. MaxFaults
      BY <2>2, FaultStep, Zenon DEF Send, SendEarly, Lose, IInv, TypeOK
    <3>2. Transmit(FALSE) \/ Transmit(TRUE)
      BY <2>2 DEF Send, SendEarly, Lose
    <3>3. \A b \in BOOLEAN : Transmit(b) => IInv'
      BY <3>1, TransmitStep
    <3>4. QED
      BY <3>2, <3>3
  <2>3. CASE Fail \/ Timeout
    <3>1. faults' \in 0 .. MaxFaults
      BY <2>3, FaultStep DEF Fail, Timeout, IInv, TypeOK
    <3>2. CallFails
      BY <2>3 DEF Fail, Timeout
    <3>3. QED
      BY <3>1, <3>2, FailStep
  <2>4. CASE Receive
    BY <2>4, ReceiveStep
  <2>5. CASE BbbCrash \/ HmiCrash
    BY <2>5, BbbCrashStep, HmiCrashStep
  <2>6. CASE HmiBoot \/ \E st \in Stations : Choose(st)
    BY <2>6, BootStep
  <2>7. CASE TimerStops
    BY <2>7, Bbb1
  <2>8. CASE UNCHANGED vars
    <3>1. UNCHANGED <<bbbVars, lineVars, hmiVars, session, alarmIn, faults>>
      BY <2>8 DEF vars
    <3>2. TypeOK'
      BY <3>1 DEF IInv, TypeOK, bbbVars, lineVars, hmiVars
    <3>3. LinkInv' /\ LoginInv'
      BY <3>1 DEF IInv, LinkInv, LoginInv, OnlineLoggedIn, Online, bbbVars,
                  lineVars, hmiVars
    <3>4. QED
      BY <3>2, <3>3 DEF IInv
  <2>9. QED
    BY <2>1, <2>2, <2>3, <2>4, <2>5, <2>6, <2>7, <2>8 DEF Next, Hmi, Faults
<1>2. QED
  BY InitInv, <1>1, PTL DEF Spec

(* The variables of both boards keep their types, the miss counter of      *)
(* getInfosFromBBB stays below its limit; and although frames are lost and *)
(* late and say little of themselves, each register of the BBB keeps to    *)
(* the values meant for it, and so do the requests on the line (LinkInv).  *)
THEOREM TypeCorrect == Spec => [](TypeOK /\ LinkInv)
<1>1. IInv => TypeOK /\ LinkInv
  BY DEF IInv
<1>2. QED
  BY Invariance, <1>1, PTL

(* An HMI that has left its setup is logged in at the BBB, unless the BBB  *)
(* has restarted since: no other register, no late response and no answer  *)
(* left over from an earlier login lets loginBBB succeed.                  *)
THEOREM OnlineMeansLoggedIn == Spec => []OnlineLoggedIn
<1>1. IInv => OnlineLoggedIn
  BY DEF IInv, LoginInv
<1>2. QED
  BY Invariance, <1>1, PTL

-----------------------------------------------------------------------------
(* The alarm.                                                              *)

Up == appPc \in {"receive", "check"}

(* Only a BBB that is up is ready and has logged the HMI in.  An alarm on  *)
(* the line is one when it is stored.                                      *)
UpInv ==
  /\ ~ Up => ~ Hmilogin /\ tab["BBB_READY"] # "READY"
  /\ \A i \in DOMAIN line : line[i].reg = "ONE_KEY_ALARM" => line[i].val = "ALARM"

(* Before the first fault nothing is left on the line when a call is over, *)
(* once the HMI has sent its first login.  Its reads before may be.        *)
Early == {"off", "ready"}
QuietInv ==
  faults = 0 =>
    /\ resp.fc = 3 /\ resp.val = "READY" => Up
    /\ hmiPc \in Early => buf # "READY"
    /\ hmiPc \notin Early => Up
    /\ hmiPc \notin Early /\ waiting =>
         \/ Len(line) = 1 /\ resp = NoResp
         \/ line = <<>> /\ resp # NoResp
    /\ hmiPc \notin Early \cup {"wrLogin"} /\ ~ waiting => line = <<>>

(* The price of an alarm that is not there: each attempt has cost a fault, *)
(* and so has a request from before, without which each write has had two  *)
(* attempts.                                                               *)
Place == CASE hmiPc = "alarm1" -> 0
           [] hmiPc = "alarm2" -> 1
           [] hmiPc = "alarm3" -> 2
Attempts == IF waiting THEN retry + 1 ELSE retry
Extra == IF hmiPc # "alarm1" \/ line # <<>> \/ resp # NoResp THEN 1 ELSE 0
CostInv ==
  session /\ hmiPc \in Alarms /\ ~ AlarmThere
    => Place + Attempts + Extra <= faults


(* The line after a step: one request longer, one shorter, or empty. *)
LEMMA Appended ==
  ASSUME IInv, NEW q \in Request
  PROVE  /\ Len(Append(line, q)) = Len(line) + 1 /\ Len(line) \in Nat
         /\ Append(line, q)[Len(line) + 1] = q
         /\ \A i \in 1 .. Len(line) : Append(line, q)[i] = line[i]
         /\ DOMAIN Append(line, q) = 1 .. Len(line) + 1
         /\ DOMAIN line = 1 .. Len(line)
<1>1. line \in Seq(Request)
  BY DEF IInv, LinkInv
<1>2. QED
  BY <1>1, AppendProperties, LenProperties

LEMMA Shortened ==
  ASSUME IInv, line # <<>>
  PROVE  /\ Head(line) = line[1] /\ Len(line) \in Nat /\ Len(line) >= 1
         /\ Tail(line) \in Seq(Request) /\ Len(Tail(line)) = Len(line) - 1
         /\ \A i \in 1 .. Len(line) - 1 : Tail(line)[i] = line[i + 1]
         /\ DOMAIN Tail(line) = 1 .. Len(line) - 1
         /\ DOMAIN line = 1 .. Len(line)
<1>1. line \in Seq(Request)
  BY DEF IInv, LinkInv
<1>2. Len(line) \in Nat /\ Len(line) # 0
  BY <1>1, LenProperties, EmptySeq
<1>3. Tail(line) \in Seq(Request) /\ Len(Tail(line)) = Len(line) - 1
      /\ \A i \in 1 .. Len(line) - 1 : Tail(line)[i] = line[i + 1]
  BY <1>1, HeadTailProperties
<1>4. QED
  BY <1>1, <1>2, <1>3, LenProperties

(* What a call puts on the line. *)
LEMMA Sending ==
  ASSUME IInv, NEW lost \in BOOLEAN, Transmit(lost)
  PROVE  LET q == [fc |-> Fc(hmiPc), reg |-> Reg(hmiPc), val |-> Sent(hmiPc)] IN
         /\ q \in Request
         /\ q.reg = "ONE_KEY_ALARM" => q.val = "ALARM"
         /\ hmiPc \in Alarms => q.reg = "ONE_KEY_ALARM"
         /\ \/ line' = line /\ (lost \/ ~ Up \/ line # <<>>)
            \/ line' = Append(line, q)
<1> DEFINE q == [fc |-> Fc(hmiPc), reg |-> Reg(hmiPc), val |-> Sent(hmiPc)]
<1>1. TypeOK /\ hmiPc \in Calling
  BY DEF IInv, Transmit
<1>2. q \in Request
  BY <1>1, Sends
<1>3. q.reg = "ONE_KEY_ALARM" => q.val = "ALARM"
  <2>1. Reg(hmiPc) = "ONE_KEY_ALARM" => hmiPc \in Alarms
    BY <1>1, Points DEF Reg
  <2>2. hmiPc \in Alarms => Sent(hmiPc) = "ALARM"
    BY Points DEF Sent
  <2>3. QED
    BY <2>1, <2>2
<1>4. hmiPc \in Alarms => q.reg = "ONE_KEY_ALARM"
  BY Points DEF Reg
<1>5. Len(<<>>) = 0 /\ MaxLine >= 1
  OBVIOUS
<1>6. \/ line' = line /\ (lost \/ ~ Up \/ line # <<>>)
      \/ line' = Append(line, q)
  BY <1>5 DEF Transmit, Up
<1>7. QED
  BY <1>2, <1>3, <1>4, <1>6

LEMMA UpStep ==
  ASSUME IInv, UpInv, [Next]_vars
  PROVE  UpInv'
<1>1. TypeOK
  BY DEF IInv
<1>2. ~ Up' => ~ Hmilogin' /\ tab'["BBB_READY"] # "READY"
  <2>1. CASE Serve \/ AppCheck \/ AppReady
    BY <2>1 DEF Serve, AppCheck, AppReady, Up
  <2>2. CASE BbbCrash
    BY <2>2, Registers DEF BbbCrash
  <2>3. CASE TimerAnswer
    <3>1. tab \in [DOMAIN Cleared -> Values]
      BY <1>1 DEF TypeOK
    <3>2. tab'["BBB_READY"] = tab["BBB_READY"]
      BY <2>3, <3>1, Registers DEF TimerAnswer
    <3>3. QED
      BY <2>3, <3>2 DEF TimerAnswer, UpInv, Up
  <2>4. CASE AppInit
    BY <2>4 DEF AppInit, UpInv, Up
  <2>5. CASE SetBBBReady \/ TimerTest \/ TimerStops
    BY <2>5 DEF SetBBBReady, TimerTest, TimerStops, UpInv, Up
  <2>6. CASE UNCHANGED bbbVars
    BY <2>6 DEF bbbVars, UpInv, Up
  <2>7. QED
    BY <2>1, <2>2, <2>3, <2>4, <2>5, <2>6 DEF Next, Bbb, Hmi, Faults, Send,
      SendEarly, Lose, Transmit, Receive, Fail, Timeout, CallFails, HmiCrash,
      HmiBoot, Choose, vars
<1>3. \A i \in DOMAIN line' : line'[i].reg = "ONE_KEY_ALARM" => line'[i].val = "ALARM"
  <2>1. CASE UNCHANGED line
    BY <2>1 DEF UpInv
  <2>2. CASE BbbCrash
    BY <2>2 DEF BbbCrash
  <2>3. CASE Serve
    <3>1. line # <<>> /\ line' = Tail(line)
      BY <2>3 DEF Serve
    <3>2. /\ Len(line) \in Nat /\ DOMAIN line' = 1 .. Len(line) - 1
          /\ DOMAIN line = 1 .. Len(line)
          /\ \A i \in 1 .. Len(line) - 1 : line'[i] = line[i + 1]
      BY <3>1, Shortened
    <3>3. \A i \in 1 .. Len(line) - 1 : i + 1 \in DOMAIN line
      BY <3>2
    <3>4. QED
      BY <3>2, <3>3 DEF UpInv
  <2>4. ASSUME NEW lost \in BOOLEAN, Transmit(lost)
        PROVE  \A i \in DOMAIN line' :
                 line'[i].reg = "ONE_KEY_ALARM" => line'[i].val = "ALARM"
    <3>1. PICK q \in Request : /\ q.reg = "ONE_KEY_ALARM" => q.val = "ALARM"
                               /\ line' = line \/ line' = Append(line, q)
      BY <2>4, Sending
    <3>2. CASE line' = line
      BY <3>2 DEF UpInv
    <3>3. CASE line' = Append(line, q)
      <4>1. /\ line'[Len(line) + 1] = q /\ Len(line) \in Nat
            /\ \A i \in 1 .. Len(line) : line'[i] = line[i]
            /\ DOMAIN line' = 1 .. Len(line) + 1 /\ DOMAIN line = 1 .. Len(line)
        BY <3>3, Appended
      <4>2. \A i \in 1 .. Len(line) + 1 : i \in 1 .. Len(line) \/ i = Len(line) + 1
        BY <4>1
      <4>3. QED
        BY <3>1, <4>1, <4>2 DEF UpInv
    <3>4. QED
      BY <3>1, <3>2, <3>3
  <2>5. CASE Send \/ SendEarly \/ Lose
    BY <2>4, <2>5 DEF Send, SendEarly, Lose
  <2>6. QED
    BY <2>1, <2>2, <2>3, <2>5 DEF Next, Bbb, Hmi, Faults, AppInit, SetBBBReady,
      AppReady, AppCheck, TimerTest, TimerAnswer, TimerStops, Receive, Fail,
      Timeout, CallFails, HmiCrash, HmiBoot, Choose, lineVars, vars
<1>4. QED
  BY <1>2, <1>3 DEF UpInv, Up

(* A step without a fault in a behaviour without one: what it can be.      *)
LEMMA NoFault ==
  ASSUME IInv, [Next]_vars, faults' = 0
  PROVE  /\ faults = 0
         /\ \/ Bbb \/ HmiBoot \/ Send \/ Receive \/ Fail
            \/ \E st \in Stations : Choose(st)
            \/ UNCHANGED vars
<1>1. faults \in Nat
  BY DEF IInv, TypeOK
<1>2. ~ Fault
  BY <1>1 DEF Fault
<1>3. ~ (BbbCrash \/ TimerStops \/ SendEarly \/ Lose \/ Timeout \/ HmiCrash)
  BY <1>2 DEF BbbCrash, TimerStops, SendEarly, Lose, Timeout, HmiCrash
<1>4. \/ Bbb \/ HmiBoot \/ Send \/ Receive \/ Fail
      \/ \E st \in Stations : Choose(st)
      \/ UNCHANGED vars
  BY <1>3 DEF Next, Hmi, Faults
<1>5. faults' = faults
  BY <1>4 DEF Bbb, AppInit, SetBBBReady, AppReady, Serve, AppCheck, TimerTest,
    TimerAnswer, HmiBoot, Send, Receive, Fail, Choose, vars
<1>6. QED
  BY <1>4, <1>5

(* Where the HMI is after a call that is over.                             *)
LEMMA Onwards ==
  ASSUME Receive \/ Fail
  PROVE  /\ waiting /\ ~ waiting' /\ resp' = NoResp
         /\ UNCHANGED <<line, appPc>>
         /\ hmiPc \in Calling
         /\ hmiPc # "ready" => hmiPc' \notin Early
         /\ hmiPc = "ready" =>
              /\ buf' = buf \/ (resp.fc = 3 /\ buf' = resp.val)
              /\ hmiPc' = IF buf' = "READY" THEN "wrLogin" ELSE "ready"
<1>1. /\ waiting /\ ~ waiting' /\ resp' = NoResp /\ UNCHANGED <<line, appPc>>
  BY DEF Receive, Fail, CallFails, bbbVars
<1>2. CASE hmiPc = "ready"
  <2>1. \/ ReadyDone(buf) \/ (resp.fc = 3 /\ ReadyDone(resp.val))
    BY <1>2, Points DEF Receive, Fail, CallFails, Fc, Reads
  <2>2. QED
    BY <1>1, <1>2, <2>1, Points DEF ReadyDone, GoTo
<1>3. CASE hmiPc # "ready"
  <2>1. hmiPc \in Calling
    BY <1>3, Points DEF Receive, Fail, CallFails
  <2>2. CASE Receive
    <3>1. hmiPc' \in Calling /\ hmiPc' # "ready"
      BY <1>3, <2>2, Points DEF Receive, LoginRead, Written, AfterWrite,
        AfterAlarm, NextRound, KeepRead, GoTo
    <3>2. QED
      BY <1>1, <1>3, <2>1, <3>1, Points DEF Early
  <2>3. CASE Fail
    <3>1. hmiPc' \in Calling /\ hmiPc' # "ready"
      BY <1>3, <2>3, Points DEF Fail, CallFails, LoginFails, LoginGivenUp,
        WriteFails, KeepFails, AfterFailedWrite, AfterWrite, AfterAlarm,
        NextRound, GoTo, Again
    <3>2. QED
      BY <1>1, <1>3, <2>1, <3>1, Points DEF Early
  <2>4. QED
    BY <2>2, <2>3
<1>4. QED
  BY <1>2, <1>3

LEMMA QuietStep ==
  ASSUME IInv, UpInv, QuietInv, [Next]_vars
  PROVE  QuietInv'
<1>1. SUFFICES ASSUME faults' = 0
               PROVE  /\ resp'.fc = 3 /\ resp'.val = "READY" => Up'
                      /\ hmiPc' \in Early => buf' # "READY"
                      /\ hmiPc' \notin Early => Up'
                      /\ hmiPc' \notin Early /\ waiting' =>
                           \/ Len(line') = 1 /\ resp' = NoResp
                           \/ line' = <<>> /\ resp' # NoResp
                      /\ hmiPc' \notin Early \cup {"wrLogin"} /\ ~ waiting' =>
                           line' = <<>>
  BY DEF QuietInv
<1>2. /\ faults = 0
      /\ \/ Bbb \/ HmiBoot \/ Send \/ Receive \/ Fail
         \/ \E st \in Stations : Choose(st)
         \/ UNCHANGED vars
  BY <1>1, NoFault
<1>3. /\ resp.fc = 3 /\ resp.val = "READY" => Up
      /\ hmiPc \in Early => buf # "READY"
      /\ hmiPc \notin Early => Up
      /\ hmiPc \notin Early /\ waiting =>
           \/ Len(line) = 1 /\ resp = NoResp
           \/ line = <<>> /\ resp # NoResp
      /\ hmiPc \notin Early \cup {"wrLogin"} /\ ~ waiting => line = <<>>
  BY <1>2 DEF QuietInv
<1>4. CASE Serve
  <2>1. /\ Up' /\ line # <<>> /\ line' = Tail(line)
        /\ UNCHANGED <<hmiPc, buf, waiting>>
        /\ hmiPc # "off" => resp'.fc = Head(line).fc
    BY <1>4 DEF Serve, Up, hmiVars
  <2>2. CASE hmiPc \in Early
    BY <1>3, <2>1, <2>2
  <2>3. CASE hmiPc \notin Early
    <3>1. waiting => Len(line) = 1
      BY <1>3, <2>1, <2>3
    <3>2. ~ waiting => hmiPc = "wrLogin"
      BY <1>3, <2>1, <2>3
    <3>3. Tail(line) \in Seq(Request) /\ Len(Tail(line)) = Len(line) - 1
          /\ Head(line) = line[1] /\ Head(line) \in Request
      <4>1. line \in Seq(Request)
        BY DEF IInv, LinkInv
      <4>2. QED
        BY <2>1, <4>1, Shortened, HeadTailProperties
    <3>4. waiting => line' = <<>>
      BY <2>1, <3>1, <3>3, EmptySeq
    <3>5. resp' # NoResp
      <4>1. resp'.fc \in {3, 6}
        BY <2>1, <2>3, <3>3 DEF Request, Early
      <4>2. QED
        BY <4>1 DEF NoResp
    <3>6. QED
      BY <2>1, <2>3, <3>2, <3>4, <3>5
  <2>4. QED
    BY <2>2, <2>3
<1>5. CASE \/ AppInit \/ SetBBBReady \/ AppReady \/ AppCheck \/ TimerTest
           \/ TimerAnswer \/ UNCHANGED vars
  <2>1. UNCHANGED <<line, resp, hmiPc, buf, waiting>> /\ (Up => Up')
    BY <1>5 DEF AppInit, SetBBBReady, AppReady, AppCheck, TimerTest,
      TimerAnswer, Up, lineVars, hmiVars, bbbVars, vars
  <2>2. QED
    BY <1>3, <2>1
<1>6. CASE HmiBoot \/ \E st \in Stations : Choose(st)
  <2>1. /\ UNCHANGED <<line, resp, buf, waiting>> /\ (Up' <=> Up)
        /\ hmiPc' = hmiPc \/ (hmiPc = "off" /\ hmiPc' = "ready")
    BY <1>6 DEF HmiBoot, Choose, Up, lineVars, bbbVars
  <2>2. QED
    BY <1>3, <2>1 DEF Early
<1>7. CASE Send
  <2>1. /\ Transmit(FALSE) /\ ~ Late /\ waiting' = TRUE /\ resp' = NoResp
        /\ UNCHANGED <<hmiPc, buf, appPc>> /\ resp'.fc # 3
    BY <1>7 DEF Send, Transmit, bbbVars, NoResp
  <2>2. CASE hmiPc \in Early
    BY <1>3, <2>1, <2>2
  <2>3. CASE hmiPc \notin Early
    <3>1. Up /\ line = <<>>
      BY <1>3, <2>1, <2>3 DEF Up, Late
    <3>2. PICK q \in Request : line' = Append(line, q)
      BY <2>1, <3>1, Sending
    <3>3. Len(line') = 1
      BY <3>1, <3>2, Appended, EmptySeq
    <3>4. QED
      BY <2>1, <2>3, <3>1, <3>3 DEF Up
  <2>4. QED
    BY <2>2, <2>3
<1>8. CASE Receive \/ Fail
  <2>1. /\ waiting /\ ~ waiting' /\ resp' = NoResp /\ resp'.fc # 3
        /\ UNCHANGED <<line, appPc>> /\ (Up' <=> Up)
    BY <1>8, Onwards DEF NoResp, Up
  <2>2. CASE hmiPc = "ready"
    <3>1. /\ buf' = buf \/ (resp.fc = 3 /\ buf' = resp.val)
          /\ hmiPc' = IF buf' = "READY" THEN "wrLogin" ELSE "ready"
      BY <1>8, <2>2, Onwards
    <3>2. buf' = "READY" => Up
      BY <1>3, <2>2, <3>1 DEF Early
    <3>3. QED
      BY <2>1, <3>1, <3>2 DEF Early
  <2>3. CASE hmiPc # "ready"
    <3>1. hmiPc \notin Early /\ hmiPc' \notin Early
      BY <1>8, <2>3, Onwards, Points DEF Early
    <3>2. Up
      BY <1>3, <3>1
    <3>3. line = <<>>
      <4>1. CASE resp # NoResp
        BY <1>3, <2>1, <3>1, <4>1
      <4>2. CASE resp = NoResp
        <5>1. Len(line) = 1
          BY <1>3, <2>1, <3>1, <4>2
        <5>2. line # <<>>
          BY <5>1, EmptySeq
        <5>3. ~ Receive /\ ~ Fail
          BY <3>2, <4>2, <5>2 DEF Receive, Fail, Unanswered, Up
        <5>4. QED
          BY <1>8, <5>3
      <4>3. QED
        BY <4>1, <4>2
    <3>4. QED
      BY <2>1, <3>1, <3>2, <3>3
  <2>4. QED
    BY <2>2, <2>3
<1>9. QED
  BY <1>2, <1>4, <1>5, <1>6, <1>7, <1>8 DEF Bbb

-----------------------------------------------------------------------------
(* What an alarm that does not arrive has cost.                            *)

(* While the alarm is written to a BBB that has logged the HMI in.         *)
LEMMA AlarmUp ==
  ASSUME IInv, UpInv, session, hmiPc \in Alarms
  PROVE  Up
<1>1. Hmilogin
  BY Points DEF IInv, LoginInv, OnlineLoggedIn, Online
<1>2. QED
  BY <1>1 DEF UpInv

(* An alarm that is there stays while the HMI writes it.                   *)
LEMMA AlarmStays ==
  ASSUME IInv, UpInv, [Next]_vars, hmiPc \in Alarms, hmiPc' \in Alarms,
         session', AlarmThere
  PROVE  AlarmThere'
<1>1. CASE UNCHANGED <<line, alarmIn>>
  BY <1>1 DEF AlarmThere
<1>2. CASE Serve
  <2>1. /\ line # <<>> /\ line' = Tail(line)
        /\ alarmIn' = (alarmIn \/ Head(line).val = "ALARM")
    BY <1>2 DEF Serve
  <2>2. /\ Head(line) = line[1] /\ Len(line) \in Nat /\ Len(line) >= 1
        /\ \A i \in 1 .. Len(line) - 1 : Tail(line)[i] = line[i + 1]
        /\ DOMAIN Tail(line) = 1 .. Len(line) - 1
        /\ DOMAIN line = 1 .. Len(line)
    BY <2>1, Shortened
  <2>3. CASE alarmIn
    BY <2>1, <2>3 DEF AlarmThere
  <2>4. CASE ~ alarmIn
    <3>1. PICK i \in 1 .. Len(line) : line[i].reg = "ONE_KEY_ALARM"
      BY <2>2, <2>4 DEF AlarmThere
    <3>2. CASE i = 1
      BY <2>1, <2>2, <3>1, <3>2 DEF UpInv, AlarmThere
    <3>3. CASE i # 1
      <4>1. i - 1 \in 1 .. Len(line) - 1 /\ (i - 1) + 1 = i
        BY <2>2, <3>3
      <4>2. i - 1 \in DOMAIN line' /\ line'[i - 1].reg = "ONE_KEY_ALARM"
        BY <2>1, <2>2, <3>1, <4>1
      <4>3. QED
        BY <4>2 DEF AlarmThere
    <3>4. QED
      BY <3>2, <3>3
  <2>5. QED
    BY <2>3, <2>4
<1>3. ASSUME NEW lost \in BOOLEAN, Transmit(lost)
      PROVE  AlarmThere'
  <2>1. PICK q \in Request : line' = line \/ line' = Append(line, q)
    BY <1>3, Sending
  <2>2. alarmIn' = alarmIn
    BY <1>3 DEF Transmit
  <2>3. CASE line' = line
    BY <2>2, <2>3 DEF AlarmThere
  <2>4. CASE line' = Append(line, q)
    <3>1. /\ \A i \in 1 .. Len(line) : line'[i] = line[i]
          /\ DOMAIN line' = 1 .. Len(line) + 1 /\ DOMAIN line = 1 .. Len(line)
          /\ Len(line) \in Nat
      BY <2>4, Appended
    <3>2. \A i \in DOMAIN line : i \in DOMAIN line' /\ line'[i] = line[i]
      BY <3>1
    <3>3. QED
      BY <2>2, <3>2 DEF AlarmThere
  <2>5. QED
    BY <2>1, <2>3, <2>4
<1>4. CASE Send \/ SendEarly \/ Lose
  BY <1>3, <1>4 DEF Send, SendEarly, Lose
<1>5. CASE Receive \/ Fail \/ Timeout
  BY <1>5 DEF Receive, Fail, Timeout, CallFails, AlarmThere
<1>6. CASE BbbCrash \/ HmiCrash
  BY <1>6 DEF BbbCrash, HmiCrash
<1>7. QED
  BY <1>1, <1>2, <1>4, <1>5, <1>6 DEF Next, Bbb, Hmi, Faults, AppInit,
    SetBBBReady, AppReady, AppCheck, TimerTest, TimerAnswer, TimerStops,
    HmiBoot, Choose, lineVars, vars

(* Sums of prices. *)
LEMMA Dearer ==
  ASSUME NEW p \in Nat, NEW a \in Nat, NEW e \in Nat, NEW d \in Nat,
         NEW f \in Nat, p + a + e <= f, d <= e
  PROVE  p + (a + 1) + d <= f + 1
OBVIOUS

LEMMA NoDearer ==
  ASSUME NEW p \in Nat, NEW a \in Nat, NEW e \in Nat, NEW d \in Nat,
         NEW f \in Nat, NEW g \in Nat, f <= g, p + a + e <= f, d <= e
  PROVE  p + a + d <= g
OBVIOUS

(* A call that begins: unless the alarm is on the line now, a fault has    *)
(* been paid for it.                                                       *)
LEMMA CostTransmit ==
  ASSUME IInv, UpInv, CostInv, Send \/ SendEarly \/ Lose,
         session', hmiPc' \in Alarms, ~ AlarmThere, ~ AlarmThere'
  PROVE  Place' + Attempts' + Extra' <= faults'
<1>1. /\ ~ waiting /\ waiting' = TRUE /\ resp' = NoResp
      /\ UNCHANGED <<hmiPc, retry, session>>
  BY DEF Send, SendEarly, Lose, Transmit
<1>2. PICK lost \in BOOLEAN :
        /\ Transmit(lost)
        /\ lost \/ ~ Late \/ faults' = faults + 1
        /\ lost => faults' = faults + 1
  BY DEF Send, SendEarly, Lose, Fault
<1>3. PICK q \in Request :
        /\ q.reg = "ONE_KEY_ALARM"
        /\ \/ line' = line /\ (lost \/ ~ Up \/ line # <<>>)
           \/ line' = Append(line, q)
  BY <1>1, <1>2, Sending
<1>4. line' # Append(line, q)
  <2>1. SUFFICES ASSUME line' = Append(line, q) PROVE FALSE
    OBVIOUS
  <2>2. /\ line'[Len(line) + 1] = q /\ Len(line) \in Nat
        /\ DOMAIN line' = 1 .. Len(line) + 1
    BY <2>1, Appended
  <2>3. Len(line) + 1 \in DOMAIN line'
    BY <2>2
  <2>4. QED
    BY <1>3, <2>2, <2>3 DEF AlarmThere
<1>5. Up
  BY <1>1, AlarmUp
<1>6. line' = line /\ faults' = faults + 1
  <2>1. line' = line /\ (lost \/ line # <<>>)
    BY <1>3, <1>4, <1>5
  <2>2. lost \/ Late
    BY <1>5, <2>1 DEF Up, Late
  <2>3. QED
    BY <1>2, <2>1, <2>2
<1>7. Place + Attempts + Extra <= faults
  BY <1>1 DEF CostInv
<1>8. Place' = Place /\ Attempts' = Attempts + 1 /\ Extra' <= Extra
  <2>1. Place' = Place
    BY <1>1 DEF Place
  <2>2. Attempts' = Attempts + 1
    BY <1>1 DEF Attempts
  <2>3. Extra' <= Extra
    BY <1>1, <1>6 DEF Extra
  <2>4. QED
    BY <2>1, <2>2, <2>3
<1>9. Place \in Nat /\ Attempts \in Nat /\ Extra \in Nat /\ Extra' \in Nat
      /\ faults \in Nat
  <2>1. hmiPc \in {"alarm1", "alarm2", "alarm3"} /\ retry \in Nat /\ faults \in Nat
    BY <1>1, Points DEF IInv, TypeOK
  <2>2. Place \in Nat
    BY <2>1 DEF Place
  <2>3. QED
    BY <2>1, <2>2 DEF Attempts, Extra
<1>10. Place + (Attempts + 1) + Extra' <= faults + 1
  BY <1>7, <1>8, <1>9, Dearer, Zenon
<1>11. QED
  BY <1>6, <1>8, <1>10, Zenon

(* A call that is over: on to the next attempt or the next write.          *)
LEMMA CostOver ==
  ASSUME IInv, UpInv, CostInv, Receive \/ Fail \/ Timeout,
         session', hmiPc \in Alarms, hmiPc' \in Alarms, ~ AlarmThere
  PROVE  Place' + Attempts' + Extra' <= faults'
<1>1. /\ waiting /\ ~ waiting' /\ resp' = NoResp /\ line' = line
      /\ session' = (session \/ hmiPc' = "wrLogin")
      /\ faults' = faults \/ faults' = faults + 1
  BY DEF Receive, Fail, Timeout, CallFails, Fault
<1>2. session /\ hmiPc \in {"alarm1", "alarm2", "alarm3"}
      /\ hmiPc' \in {"alarm1", "alarm2", "alarm3"}
  BY <1>1, Points
<1>3. Place + Attempts + Extra <= faults /\ Attempts = retry + 1
  BY <1>1, <1>2 DEF CostInv, Attempts
<1>4. retry \in Nat /\ faults \in Nat
  BY DEF IInv, TypeOK
<1>5. /\ hmiPc = "alarm1" => Place = 0
      /\ hmiPc = "alarm2" => Place = 1
      /\ hmiPc = "alarm3" => Place = 2
      /\ hmiPc' = "alarm1" => Place' = 0
      /\ hmiPc' = "alarm2" => Place' = 1
      /\ hmiPc' = "alarm3" => Place' = 2
  BY DEF Place
<1>6. Attempts' = retry'
  BY <1>1 DEF Attempts
<1>7. Extra \in {0, 1} /\ Extra' \in {0, 1}
  BY DEF Extra
<1>8. CASE hmiPc' = hmiPc /\ retry' = retry + 1
  <2>1. Extra' <= Extra
    BY <1>1, <1>8 DEF Extra
  <2>2. Place \in {0, 1, 2} /\ Place' = Place
    BY <1>2, <1>5, <1>8
  <2>3. QED
    BY <1>1, <1>3, <1>4, <1>6, <1>7, <1>8, <2>1, <2>2
<1>9. CASE /\ retry' = 0
           /\ \/ hmiPc = "alarm1" /\ hmiPc' = "alarm2"
              \/ hmiPc = "alarm2" /\ hmiPc' = "alarm3"
           /\ retry >= 1 \/ Extra = 1
  <2>1. Place' = Place + 1 /\ Place \in {0, 1}
    BY <1>5, <1>9
  <2>2. QED
    BY <1>1, <1>3, <1>4, <1>6, <1>7, <1>9, <2>1
<1>10. Receive => Extra = 1
  BY DEF Receive, Extra
<1>11. CASE Receive
  <2>1. /\ retry' = 0
        /\ \/ hmiPc = "alarm1" /\ hmiPc' = "alarm2"
           \/ hmiPc = "alarm2" /\ hmiPc' = "alarm3"
    BY <1>2, <1>11, Points DEF Receive, Written, AfterWrite, AfterAlarm, GoTo
  <2>2. QED
    BY <1>9, <1>10, <1>11, <2>1
<1>12. CASE Fail \/ Timeout
  <2>1. WriteFails
    BY <1>2, <1>12, Points DEF Fail, Timeout, CallFails
  <2>2. \/ hmiPc' = hmiPc /\ retry' = retry + 1
        \/ /\ retry' = 0 /\ retry >= 1
           /\ \/ hmiPc = "alarm1" /\ hmiPc' = "alarm2"
              \/ hmiPc = "alarm2" /\ hmiPc' = "alarm3"
    BY <1>2, <1>4, <2>1 DEF WriteFails, AfterFailedWrite, AfterWrite,
      AfterAlarm, GoTo, Again
  <2>3. QED
    BY <1>8, <1>9, <2>2
<1>13. QED
  BY <1>11, <1>12

(* The first write of an alarm begins.                                     *)
LEMMA CostStart ==
  ASSUME IInv, UpInv, QuietInv, [Next]_vars,
         session', hmiPc \notin Alarms, hmiPc' \in Alarms
  PROVE  Place' + Attempts' + Extra' <= faults'
<1>1. Receive \/ Fail \/ Timeout
  BY Points DEF Next, Bbb, Hmi, Faults, AppInit, SetBBBReady, AppReady, Serve,
    AppCheck, TimerTest, TimerAnswer, TimerStops, BbbCrash, HmiBoot, Choose,
    Send, SendEarly, Lose, Transmit, HmiCrash, hmiVars, vars
<1>2. /\ waiting /\ ~ waiting' /\ resp' = NoResp /\ line' = line
      /\ Timeout => faults' # 0
      /\ faults' \in Nat
  <2>1. faults \in Nat
    BY DEF IInv, TypeOK
  <2>2. faults' \in {faults, faults + 1} /\ (Timeout => faults' = faults + 1)
    BY <1>1 DEF Receive, Fail, Timeout, Fault
  <2>3. faults' \in Nat /\ (Timeout => faults' # 0)
    BY <2>1, <2>2
  <2>4. waiting /\ ~ waiting' /\ resp' = NoResp /\ line' = line
    BY <1>1 DEF Receive, Fail, Timeout, CallFails
  <2>5. QED
    BY <2>3, <2>4
<1>3. hmiPc' = "alarm1" /\ retry' = 0
  BY <1>1, Points DEF Receive, Fail, Timeout, CallFails, ReadyDone, LoginRead,
    LoginFails, LoginGivenUp, Written, WriteFails, AfterFailedWrite, AfterWrite,
    AfterAlarm, NextRound, KeepRead, KeepFails, GoTo, Again
<1>4. Place' = 0 /\ Attempts' = 0
  BY <1>2, <1>3 DEF Place, Attempts
<1>5. Extra' \in {0, 1} /\ (Extra' = 1 => line # <<>>)
  BY <1>2, <1>3 DEF Extra
<1>6. line # <<>> => faults' # 0
  <2>1. QuietInv'
    BY QuietStep
  <2>2. hmiPc' \notin Early \cup {"wrLogin"}
    BY <1>3 DEF Early
  <2>3. QED
    BY <1>2, <2>1, <2>2 DEF QuietInv
<1>7. Extra' <= faults'
  <2>1. CASE Extra' = 0
    BY <1>2, <2>1
  <2>2. CASE Extra' = 1
    <3>1. faults' # 0 /\ faults' \in Nat
      BY <1>2, <1>5, <1>6, <2>2, Zenon
    <3>2. QED
      BY <2>2, <3>1
  <2>3. QED
    BY <1>5, <2>1, <2>2
<1>8. 0 + 0 + Extra' <= faults'
  BY <1>5, <1>7
<1>9. QED
  BY <1>4, <1>8, Zenon

LEMMA CostStep ==
  ASSUME IInv, UpInv, QuietInv, CostInv, [Next]_vars
  PROVE  CostInv'
<1>1. SUFFICES ASSUME session', hmiPc' \in Alarms, ~ AlarmThere'
               PROVE  Place' + Attempts' + Extra' <= faults'
  BY DEF CostInv
<1>2. CASE hmiPc \notin Alarms
  BY <1>1, <1>2, CostStart
<1>3. CASE hmiPc \in Alarms
  <2>1. ~ AlarmThere
    BY <1>1, <1>3, AlarmStays
  <2>2. CASE Send \/ SendEarly \/ Lose
    BY <1>1, <2>1, <2>2, CostTransmit
  <2>3. CASE Receive \/ Fail \/ Timeout
    BY <1>1, <1>3, <2>1, <2>3, CostOver
  <2>4. ~ BbbCrash /\ ~ HmiCrash /\ ~ HmiBoot
    BY <1>1, <1>3, Points DEF BbbCrash, HmiCrash, HmiBoot
  <2>5. CASE /\ UNCHANGED <<hmiPc, waiting, retry, session>>
             /\ faults' = faults \/ faults' = faults + 1
             /\ (line' # <<>> \/ resp' # NoResp) => (line # <<>> \/ resp # NoResp)
    <3>1. Place + Attempts + Extra <= faults
      BY <1>1, <1>3, <2>1, <2>5 DEF CostInv
    <3>2. Place' = Place /\ Attempts' = Attempts
      BY <2>5 DEF Place, Attempts
    <3>3. Extra' <= Extra
      BY <2>5 DEF Extra
    <3>4. /\ Place \in Nat /\ Attempts \in Nat /\ Extra \in Nat
          /\ Extra' \in Nat /\ faults \in Nat
      <4>1. /\ hmiPc \in {"alarm1", "alarm2", "alarm3"}
            /\ retry \in Nat /\ faults \in Nat
        BY <1>3, Points DEF IInv, TypeOK
      <4>2. Place \in Nat
        BY <4>1 DEF Place
      <4>3. QED
        BY <4>1, <4>2 DEF Attempts, Extra
    <3>5. faults' \in Nat /\ faults <= faults'
      <4>1. faults \in Nat
        BY <3>4, Zenon
      <4>2. faults' = faults \/ faults' = faults + 1
        BY <2>5, Zenon
      <4>3. QED
        BY <4>1, <4>2
    <3>6. Place + Attempts + Extra' <= faults'
      BY <3>1, <3>3, <3>4, <3>5, NoDearer, Zenon
    <3>7. QED
      BY <3>2, <3>6, Zenon
  <2>6. CASE Serve
    BY <2>5, <2>6 DEF Serve, hmiVars
  <2>7. QED
    BY <2>2, <2>3, <2>4, <2>5, <2>6 DEF Next, Bbb, Hmi, Faults, AppInit,
      SetBBBReady, AppReady, AppCheck, TimerTest, TimerAnswer, TimerStops,
      Fault, Choose, lineVars, hmiVars, vars
<1>4. QED
  BY <1>2, <1>3

(* An alarm whose three writes are over without its being there, although  *)
(* both boards kept running, has cost four faults: three losses of frames, *)
(* however old answers are taken for new ones, are not enough.             *)
AlarmPrice ==
  [][(hmiPc \in Alarms) /\ hmiPc' \notin Alarms /\ session /\ session'
       => AlarmThere \/ faults >= 4]_vars

LEMMA AlarmInvariance == Spec => [](IInv /\ UpInv /\ QuietInv /\ CostInv)
<1>1. Init => UpInv /\ QuietInv /\ CostInv
  BY Registers, Points DEF Init, UpInv, Up, QuietInv, CostInv, Early, NoResp
<1>2. IInv /\ UpInv /\ [Next]_vars => UpInv'
  BY UpStep
<1>3. IInv /\ UpInv /\ QuietInv /\ [Next]_vars => QuietInv'
  BY QuietStep
<1>4. IInv /\ UpInv /\ QuietInv /\ CostInv /\ [Next]_vars => CostInv'
  BY CostStep
<1>5. QED
  BY <1>1, <1>2, <1>3, <1>4, Invariance, PTL DEF Spec

(* oneKeyAlarm's repetition pays: an alarm that is lost has cost four      *)
(* faults, for any sizes and limits, and however many faults there may be. *)
THEOREM AlarmIsDear == Spec => AlarmPrice
<1>1. ASSUME IInv, UpInv, CostInv, Next, hmiPc \in Alarms, hmiPc' \notin Alarms,
             session, session', ~ AlarmThere
      PROVE  faults >= 4
  <2>1. Receive \/ Fail \/ Timeout
    BY <1>1, Points DEF Next, Bbb, Hmi, Faults, AppInit, SetBBBReady, AppReady,
      Serve, AppCheck, TimerTest, TimerAnswer, TimerStops, BbbCrash, HmiBoot,
      Choose, Send, SendEarly, Lose, Transmit, HmiCrash, hmiVars
  <2>2. hmiPc = "alarm3" /\ (Receive \/ retry >= 1)
    <3>1. CASE Receive
      BY <1>1, <3>1, Points DEF Receive, Written, AfterWrite, AfterAlarm, GoTo
    <3>2. CASE Fail \/ Timeout
      <4>1. WriteFails
        BY <1>1, <3>2, Points DEF Fail, Timeout, CallFails
      <4>2. retry \in Nat
        BY <1>1 DEF IInv, TypeOK
      <4>3. QED
        BY <1>1, <4>1, <4>2, Points DEF WriteFails, AfterFailedWrite,
          AfterWrite, AfterAlarm, GoTo, Again
    <3>3. QED
      BY <2>1, <3>1, <3>2
  <2>3. Place = 2 /\ Attempts = retry + 1 /\ Extra = 1
    BY <2>1, <2>2 DEF Receive, Fail, Timeout, Place, Attempts, Extra
  <2>4. 2 + (retry + 1) + 1 <= faults
    <3>1. Place + Attempts + Extra <= faults
      BY <1>1 DEF CostInv
    <3>2. QED
      BY <2>3, <3>1, Zenon
  <2>5. retry \in Nat /\ faults \in Nat
    BY <1>1 DEF IInv, TypeOK
  <2>6. QED
    BY <2>4, <2>5
<1>2. IInv /\ UpInv /\ CostInv /\ [Next]_vars
        => [(hmiPc \in Alarms) /\ hmiPc' \notin Alarms /\ session /\ session'
              => AlarmThere \/ faults >= 4]_vars
  BY <1>1
<1>3. QED
  BY <1>2, AlarmInvariance, PTL DEF Spec, AlarmPrice

(* AlarmArrives holds where there are at most three faults, which is what  *)
(* "repeat 3 times for sure" (oneKeyAlarm) can mean.                       *)
THEOREM AlarmGetsThere == ASSUME MaxFaults <= 3 PROVE Spec => AlarmArrives
<1>1. IInv => faults < 4
  <2> SUFFICES ASSUME IInv PROVE faults < 4
    OBVIOUS
  <2>1. faults \in 0 .. MaxFaults
    BY DEF IInv, TypeOK
  <2>2. QED
    BY <2>1
<1>2. IInv /\ [(hmiPc \in Alarms) /\ hmiPc' \notin Alarms /\ session /\ session'
                 => AlarmThere \/ faults >= 4]_vars
        => [(hmiPc \in Alarms /\ hmiPc' \notin Alarms /\ session /\ session')
              => AlarmThere]_vars
  <2> SUFFICES ASSUME IInv,
                      hmiPc \in Alarms /\ hmiPc' \notin Alarms /\ session
                        /\ session' => AlarmThere \/ faults >= 4
               PROVE  hmiPc \in Alarms /\ hmiPc' \notin Alarms /\ session
                        /\ session' => AlarmThere
    OBVIOUS
  <2>1. faults < 4 /\ faults \in Nat
    BY <1>1 DEF IInv, TypeOK
  <2>2. QED
    BY <2>1
<1>3. QED
  BY <1>2, Invariance, AlarmIsDear, PTL DEF AlarmPrice, AlarmArrives

=============================================================================
