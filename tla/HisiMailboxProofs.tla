-------------------------- MODULE HisiMailboxProofs --------------------------
(***************************************************************************)
(* Proofs about HisiMailbox, for any number of messages.                   *)
(***************************************************************************)
EXTENDS HisiMailbox, TLAPS

USE HisiMailboxAssumption

-----------------------------------------------------------------------------
(* The invariant.                                                          *)

Slot == [regAddr : Regs \cup {LOGIN}, regVal : Versions \cup {Login},
         eFlag : BOOLEAN]

(* The register table holds the last sync that was replied to. *)
CommInv ==
  /\ msg = "login" => rr = 0
  /\ commPc # "receive" => msg # "none"
  /\ msg = "sync" => received >= 1
  /\ tabTime = IF msg = "sync" /\ commPc # "receive" THEN received - 1
                                                     ELSE received

(* The time in a slot is that of the sync before the last one or, until    *)
(* the last one has been copied into this slot, of the one before that.    *)
Latest == IF received = 0 THEN 0 ELSE received - 1
Older  == IF received < 2 THEN 0 ELSE received - 2
Copied(i) ==
  \/ msg # "sync" \/ commPc \in {"receive", "reply"}
  \/ i < rr
  \/ i = rr /\ commPc \in {"flag", "cnt"}
SlotInv ==
  \A i \in Slots :
    /\ rx[i].regAddr \in {TimeReg[i], LOGIN}
    /\ rx[i].regVal = Login => i = 0
    /\ rx[i].regVal # Login
         => rx[i].regVal = IF Copied(i) THEN Latest ELSE Older

(* The main thread takes the slots out in their order. *)
MainInv ==
  /\ mainPc \in {"clear", "addr", "val"} => msgIdx \in Slots
  /\ mainPc = "clear" => rx[msgIdx].eFlag
  /\ mainPc = "val" => reg \in {TimeReg[msgIdx], LOGIN}

(* What a struct tm may hold: no part more than a sync older than one      *)
(* before it, no login but in the year; and nothing from long before the   *)
(* pass began.                                                             *)
Torn(t) ==
  /\ \A i \in Slots : t[TimeReg[i]] = Login => i = 0
  /\ \A i, j \in Slots :
       i < j /\ t[TimeReg[i]] >= 0 /\ t[TimeReg[j]] # Garbage
         => t[TimeReg[j]] >= t[TimeReg[i]] - 1
TimeInv ==
  /\ \A i \in Slots : /\ time[TimeReg[i]] # Garbage => i < msgIdx
                      /\ time[TimeReg[i]] <= Latest
                      /\ time[TimeReg[i]] >= 0 => time[TimeReg[i]] >= began - 2
  /\ began <= received
  /\ Torn(time) /\ Torn(clock)

(* Each sync pays for one settimeofday: on its way into the last slot, in  *)
(* it, on its way out, or done.                                            *)
Coming == msg = "sync" /\ (\/ commPc \in {"addr", "val", "flag"}
                           \/ commPc = "cnt" /\ rr < 3)
Taken  == mainPc \in {"addr", "val"} /\ msgIdx = 3
One(b) == IF b THEN 1 ELSE 0
CountInv == sets + One(rx[3].eFlag) + One(Taken) + One(Coming) <= received

IInv == TypeOK /\ CommInv /\ SlotInv /\ MainInv /\ TimeInv /\ CountInv

-----------------------------------------------------------------------------
(* The four registers of the time are different, and none is the login's.  *)
LEMMA TimeRegs ==
  /\ Slots = {0, 1, 2, 3}
  /\ TimeReg[0] = "YEAR" /\ TimeReg[1] = "MON_DAY" /\ TimeReg[2] = "HOUR_MIN"
  /\ TimeReg[3] = "SEC_MS"
  /\ Regs = {"YEAR", "MON_DAY", "HOUR_MIN", "SEC_MS"} /\ LOGIN \notin Regs
  /\ \A i, j \in Slots : TimeReg[i] = TimeReg[j] => i = j
  /\ \A i \in Slots : TimeReg[i] \in Regs
<1>1. Slots = {0, 1, 2, 3}
  BY DEF Slots
<1>2. /\ TimeReg[0] = "YEAR" /\ TimeReg[1] = "MON_DAY"
      /\ TimeReg[2] = "HOUR_MIN" /\ TimeReg[3] = "SEC_MS"
  BY <1>1 DEF TimeReg
<1>3. Regs = {"YEAR", "MON_DAY", "HOUR_MIN", "SEC_MS"}
  BY <1>1, <1>2, Zenon DEF Regs
<1>4. QED
  BY <1>1, <1>2, <1>3 DEF LOGIN

LEMMA InitInv == Init => IInv
<1>1. SUFFICES ASSUME Init PROVE IInv
  OBVIOUS
<1>2. TypeOK
  BY <1>1, TimeRegs DEF Init, TypeOK, Versions
<1>3. CommInv /\ MainInv /\ CountInv
  BY <1>1, TimeRegs DEF Init, CommInv, MainInv, CountInv, One, Taken, Coming
<1>4. SlotInv
  BY <1>1 DEF Init, SlotInv, Copied, Latest, Older, Login
<1>5. TimeInv
  BY <1>1, TimeRegs DEF Init, TimeInv, Torn, Latest, Garbage, Login
<1>6. QED
  BY <1>2, <1>3, <1>4, <1>5 DEF IInv

(* Types are kept. *)
LEMMA TypeStep == TypeOK /\ MainInv /\ [Next]_vars => TypeOK'
<1> SUFFICES ASSUME TypeOK, MainInv, [Next]_vars PROVE TypeOK'
  OBVIOUS
<1> USE DEF TypeOK, Versions
<1>1. CASE RecvMsg
  BY <1>1 DEF RecvMsg, mailVars, mainVars, Slots
<1>2. CASE CopyAddr
  <2>1. RegAddr(msg, rr) \in Regs \cup {LOGIN}
    BY TimeRegs DEF RegAddr
  <2>2. [rx[rr] EXCEPT !.regAddr = RegAddr(msg, rr)]
          \in [regAddr : Regs \cup {LOGIN},
               regVal : 0 .. MaxMsgs \cup {Login}, eFlag : BOOLEAN]
    BY <2>1
  <2>3. rx' \in [Slots -> [regAddr : Regs \cup {LOGIN},
                           regVal : 0 .. MaxMsgs \cup {Login}, eFlag : BOOLEAN]]
    BY <1>2, <2>2 DEF CopyAddr
  <2>4. QED
    BY <1>2, <2>3 DEF CopyAddr, mainVars
<1>3. CASE CopyVal
  <2>1. CopiedVal \in 0 .. MaxMsgs \cup {Login}
    BY DEF CopiedVal
  <2>2. [rx[rr] EXCEPT !.regVal = CopiedVal]
          \in [regAddr : Regs \cup {LOGIN},
               regVal : 0 .. MaxMsgs \cup {Login}, eFlag : BOOLEAN]
    BY <2>1
  <2>3. rx' \in [Slots -> [regAddr : Regs \cup {LOGIN},
                           regVal : 0 .. MaxMsgs \cup {Login}, eFlag : BOOLEAN]]
    BY <1>3, <2>2 DEF CopyVal
  <2>4. QED
    BY <1>3, <2>3 DEF CopyVal, mainVars
<1>4. CASE CopyFlag
  <2>1. [rx[rr] EXCEPT !.eFlag = TRUE]
          \in [regAddr : Regs \cup {LOGIN},
               regVal : 0 .. MaxMsgs \cup {Login}, eFlag : BOOLEAN]
    OBVIOUS
  <2>2. rx' \in [Slots -> [regAddr : Regs \cup {LOGIN},
                           regVal : 0 .. MaxMsgs \cup {Login}, eFlag : BOOLEAN]]
    BY <1>4, <2>1 DEF CopyFlag
  <2>3. QED
    BY <1>4, <2>2 DEF CopyFlag, mainVars
<1>5. CASE CopyCnt
  BY <1>5 DEF CopyCnt, RegNum, MoreRegs, Slots, mainVars
<1>6. CASE Reply
  BY <1>6 DEF Reply, mailVars, mainVars
<1>7. CASE StartPass
  BY <1>7 DEF StartPass, mailVars, commVars
<1>8. CASE TestSlot
  BY <1>8 DEF TestSlot, mailVars, commVars
<1>9. CASE ClearFlag
  <2>1. msgIdx \in Slots
    BY <1>9 DEF ClearFlag, MainInv
  <2>2. [rx[msgIdx] EXCEPT !.eFlag = FALSE]
          \in [regAddr : Regs \cup {LOGIN},
               regVal : 0 .. MaxMsgs \cup {Login}, eFlag : BOOLEAN]
    BY <2>1
  <2>3. rx' \in [Slots -> [regAddr : Regs \cup {LOGIN},
                           regVal : 0 .. MaxMsgs \cup {Login}, eFlag : BOOLEAN]]
    BY <1>9, <2>2 DEF ClearFlag, Cleared
  <2>4. QED
    BY <1>9, <2>3 DEF ClearFlag, commVars
<1>10. CASE ReadAddr
  <2>1. rx[msgIdx].regAddr \in Regs \cup {LOGIN}
    BY <1>10 DEF ReadAddr, MainInv
  <2>2. QED
    BY <1>10, <2>1 DEF ReadAddr, mailVars, commVars
<1>11. CASE HandleVal
  <2>1. msgIdx \in Slots /\ rx[msgIdx].regVal \in 0 .. MaxMsgs \cup {Login}
    BY <1>11 DEF HandleVal, MainInv
  <2>2. time' \in [Regs -> 0 .. MaxMsgs \cup {Login, Garbage}]
    BY <1>11, <2>1 DEF HandleVal
  <2>3. clock' \in [Regs -> 0 .. MaxMsgs \cup {Login, Garbage}] /\ sets' \in Nat
    BY <1>11, <2>2 DEF HandleVal
  <2>4. msgIdx' \in 0 .. 4 /\ mainPc' = "test"
    BY <1>11, <2>1 DEF HandleVal, Slots
  <2>5. QED
    BY <1>11, <2>2, <2>3, <2>4 DEF HandleVal, mailVars, commVars
<1>12. CASE UNCHANGED vars
  BY <1>12 DEF vars, mailVars, commVars, mainVars
<1>13. QED
  BY <1>1, <1>2, <1>3, <1>4, <1>5, <1>6, <1>7, <1>8, <1>9, <1>10, <1>11, <1>12
  DEF Next, Comm, Main

(* The comm thread's own variables. *)
LEMMA CommStep == TypeOK /\ CommInv /\ [Next]_vars => CommInv'
<1> SUFFICES ASSUME TypeOK, CommInv, [Next]_vars PROVE CommInv'
  OBVIOUS
<1> USE DEF CommInv
<1>1. received \in Nat /\ tabTime \in Nat /\ rr \in Nat
  BY DEF TypeOK, Versions, Slots
<1>2. CASE RecvMsg
  BY <1>1, <1>2 DEF RecvMsg
<1>3. CASE CopyAddr
  BY <1>1, <1>3 DEF CopyAddr
<1>4. CASE CopyVal
  BY <1>1, <1>4 DEF CopyVal
<1>5. CASE CopyFlag
  BY <1>1, <1>5 DEF CopyFlag
<1>6. CASE CopyCnt
  BY <1>1, <1>6 DEF CopyCnt, MoreRegs, RegNum
<1>7. CASE Reply
  BY <1>1, <1>7 DEF Reply
<1>8. CASE UNCHANGED commVars
  BY <1>8 DEF commVars
<1>9. ASSUME Main \/ UNCHANGED vars PROVE UNCHANGED commVars
  BY <1>9 DEF Main, StartPass, TestSlot, ClearFlag, ReadAddr, HandleVal, vars
<1>10. QED
  BY <1>2, <1>3, <1>4, <1>5, <1>6, <1>7, <1>8, <1>9 DEF Next, Comm

-----------------------------------------------------------------------------
(* The values in the slots, step by step of the comm thread. *)
LEMMA SlotStep ==
  TypeOK /\ CommInv /\ SlotInv /\ MainInv /\ [Next]_vars => SlotInv'
<1> SUFFICES ASSUME TypeOK, CommInv, SlotInv, MainInv, [Next]_vars,
                    NEW i \in Slots
             PROVE  /\ rx'[i].regAddr \in {TimeReg[i], LOGIN}
                    /\ rx'[i].regVal = Login => i = 0
                    /\ rx'[i].regVal # Login
                         => rx'[i].regVal
                              = IF Copied(i)' THEN Latest' ELSE Older'
  BY DEF SlotInv
<1>1. /\ received \in Nat /\ tabTime \in Nat /\ rr \in Slots
      /\ i \in 0 .. 3 /\ rr \in 0 .. 3
      /\ rx \in [Slots -> [regAddr : Regs \cup {LOGIN},
                           regVal : Versions \cup {Login}, eFlag : BOOLEAN]]
      /\ commPc \in {"receive", "addr", "val", "flag", "cnt", "reply"}
  BY DEF TypeOK, Versions, Slots
<1>2. /\ rx[i].regAddr \in {TimeReg[i], LOGIN}
      /\ rx[i].regVal = Login => i = 0
      /\ rx[i].regVal # Login
           => rx[i].regVal = IF Copied(i) THEN Latest ELSE Older
  BY DEF SlotInv
<1> USE DEF Copied, Latest, Older
<1>3. CASE RecvMsg
  BY <1>1, <1>2, <1>3 DEF RecvMsg, mailVars
<1>4. CASE CopyAddr
  <2>1. /\ rx'[i].regVal = rx[i].regVal
        /\ rx'[i].regAddr = IF i = rr THEN RegAddr(msg, rr) ELSE rx[i].regAddr
    BY <1>1, <1>4 DEF CopyAddr
  <2>2. RegAddr(msg, rr) \in {TimeReg[rr], LOGIN}
    BY DEF RegAddr
  <2>3. Copied(i)' <=> Copied(i)
    BY <1>4 DEF CopyAddr
  <2>4. QED
    BY <1>2, <1>4, <2>1, <2>2, <2>3 DEF CopyAddr
<1>5. CASE CopyVal
  <2>1. /\ rx'[i].regAddr = rx[i].regAddr
        /\ rx'[i].regVal = IF i = rr THEN CopiedVal ELSE rx[i].regVal
    BY <1>1, <1>5 DEF CopyVal
  <2>2. UNCHANGED <<msg, rr, received, tabTime>> /\ commPc' = "flag"
    BY <1>5 DEF CopyVal
  <2>3. CASE i # rr
    BY <1>1, <1>2, <1>5, <2>1, <2>2, <2>3 DEF CopyVal
  <2>4. CASE i = rr /\ msg = "sync"
    BY <1>1, <1>2, <1>5, <2>1, <2>2, <2>4 DEF CopyVal, CopiedVal, CommInv,
      Login
  <2>5. CASE i = rr /\ msg # "sync"
    <3>1. msg = "login" /\ rr = 0
      BY <1>5, <2>5 DEF CopyVal, CommInv, TypeOK
    <3>2. QED
      BY <1>2, <2>1, <2>5, <3>1 DEF CopiedVal
  <2>6. QED
    BY <2>3, <2>4, <2>5
<1>6. CASE CopyFlag
  <2>1. rx'[i].regVal = rx[i].regVal /\ rx'[i].regAddr = rx[i].regAddr
    BY <1>1, <1>6 DEF CopyFlag
  <2>2. Copied(i)' <=> Copied(i)
    BY <1>6 DEF CopyFlag
  <2>3. QED
    BY <1>2, <1>6, <2>1, <2>2 DEF CopyFlag
<1>7. CASE CopyCnt
  <2>1. rx' = rx /\ received' = received
    BY <1>7 DEF CopyCnt
  <2>2. Copied(i)' <=> Copied(i)
    BY <1>1, <1>7 DEF CopyCnt, MoreRegs, RegNum
  <2>3. QED
    BY <1>2, <2>1, <2>2
<1>8. CASE Reply
  BY <1>2, <1>8 DEF Reply, mailVars
<1>9. ASSUME Main \/ UNCHANGED vars
      PROVE  /\ rx'[i].regVal = rx[i].regVal /\ rx'[i].regAddr = rx[i].regAddr
             /\ UNCHANGED commVars
  <2>1. CASE ClearFlag
    BY <1>1, <2>1 DEF ClearFlag, Cleared
  <2>2. CASE StartPass \/ TestSlot \/ ReadAddr \/ HandleVal \/ UNCHANGED vars
    BY <2>2 DEF StartPass, TestSlot, ReadAddr, HandleVal, vars, mailVars
  <2>3. QED
    BY <1>9, <2>1, <2>2 DEF Main
<1>10. CASE Main \/ UNCHANGED vars
  BY <1>2, <1>9, <1>10 DEF commVars
<1>11. QED
  BY <1>3, <1>4, <1>5, <1>6, <1>7, <1>8, <1>10 DEF Next, Comm

(* The main thread: a flag it has seen stays until it clears it. *)
LEMMA MainStep == TypeOK /\ SlotInv /\ MainInv /\ [Next]_vars => MainInv'
<1> SUFFICES ASSUME TypeOK, SlotInv, MainInv, [Next]_vars PROVE MainInv'
  OBVIOUS
<1>1. /\ rx \in [Slots -> [regAddr : Regs \cup {LOGIN},
                           regVal : Versions \cup {Login}, eFlag : BOOLEAN]]
      /\ cnt \in {0, 1, 4} /\ msgIdx \in 0 .. 4 /\ rr \in Slots
  BY DEF TypeOK
<1> USE DEF MainInv
<1>2. ASSUME RecvMsg \/ Comm \/ UNCHANGED vars
      PROVE  /\ UNCHANGED mainVars
             /\ \A i \in Slots : rx[i].eFlag => rx'[i].eFlag
  <2>1. CASE CopyAddr
    BY <1>1, <2>1 DEF CopyAddr
  <2>2. CASE CopyVal
    BY <1>1, <2>2 DEF CopyVal
  <2>3. CASE CopyFlag
    BY <1>1, <2>3 DEF CopyFlag
  <2>4. CASE RecvMsg \/ CopyCnt \/ Reply \/ UNCHANGED vars
    BY <2>4 DEF RecvMsg, CopyCnt, Reply, mailVars, vars
  <2>5. QED
    BY <1>2, <2>1, <2>2, <2>3, <2>4 DEF Comm
<1>3. CASE RecvMsg \/ Comm \/ UNCHANGED vars
  BY <1>2, <1>3 DEF mainVars
<1>4. CASE StartPass
  BY <1>4 DEF StartPass
<1>5. CASE TestSlot
  BY <1>1, <1>5 DEF TestSlot, Slots, mailVars
<1>6. CASE ClearFlag
  BY <1>6 DEF ClearFlag
<1>7. CASE ReadAddr
  BY <1>7 DEF ReadAddr, SlotInv
<1>8. CASE HandleVal
  BY <1>8 DEF HandleVal
<1>9. QED
  BY <1>3, <1>4, <1>5, <1>6, <1>7, <1>8 DEF Next, Main

(* The struct tm under construction and the one the clock was set from. *)
LEMMA TimeStep ==
  TypeOK /\ SlotInv /\ MainInv /\ TimeInv /\ [Next]_vars => TimeInv'
<1> SUFFICES ASSUME TypeOK, SlotInv, MainInv, TimeInv, [Next]_vars
             PROVE  TimeInv'
  OBVIOUS
<1>1. /\ received \in Nat /\ began \in Nat /\ msgIdx \in 0 .. 4
      /\ time \in [Regs -> Int] /\ clock \in [Regs -> Int]
      /\ Older >= received - 2
      /\ Latest \in Nat /\ Older \in Nat /\ Older <= Latest /\ Latest - 1 <= Older
  BY DEF TypeOK, Versions, Login, Garbage, Latest, Older
<1>2. /\ Latest' \in Nat /\ Latest' >= Latest
      /\ received' \in Nat /\ received' >= received
  BY <1>1 DEF Next, Comm, Main, RecvMsg, CopyAddr, CopyVal, CopyFlag, CopyCnt,
    Reply, StartPass, TestSlot, ClearFlag, ReadAddr, HandleVal, vars, commVars,
    Latest
<1>3. CASE UNCHANGED <<time, clock, msgIdx, began>>
  BY <1>1, <1>2, <1>3, TimeRegs DEF TimeInv, Torn
<1>4. CASE StartPass
  <2>1. \A i \in Slots : time'[TimeReg[i]] = Garbage
    BY <1>4, TimeRegs DEF StartPass
  <2>2. Torn(time)'
    BY <2>1 DEF Torn, Garbage, Login
  <2>3. Torn(clock)'
    BY <1>4 DEF StartPass, Torn, TimeInv
  <2>4. began' <= received'
    BY <1>1, <1>4 DEF StartPass, commVars
  <2>5. QED
    BY <1>2, <2>1, <2>2, <2>3, <2>4 DEF TimeInv, Garbage
<1>5. CASE TestSlot
  <2>1. msgIdx' >= msgIdx /\ msgIdx' \in Nat /\ UNCHANGED <<time, clock, began>>
    BY <1>1, <1>5 DEF TestSlot
  <2>2. QED
    BY <1>1, <1>2, <2>1, TimeRegs DEF TimeInv, Torn
<1>6. CASE HandleVal /\ reg \notin Regs
  <2>1. UNCHANGED <<time, clock, began>> /\ msgIdx' = msgIdx + 1
    BY <1>6, TimeRegs DEF HandleVal
  <2>2. QED
    BY <1>1, <1>2, <2>1, TimeRegs DEF TimeInv, Torn
<1>7. CASE HandleVal /\ reg \in Regs
  <2> DEFINE k == msgIdx
             v == rx[k].regVal
  <2>1. k \in Slots /\ reg = TimeReg[k] /\ k \in Nat
    BY <1>1, <1>7, TimeRegs DEF HandleVal, MainInv
  <2>2. /\ v = Login => k = 0
        /\ v # Login => v \in Nat /\ v >= Older /\ v <= Latest
    BY <1>1, <2>1 DEF SlotInv
  <2>3. /\ time'[TimeReg[k]] = v
        /\ \A i \in Slots \ {k} : time'[TimeReg[i]] = time[TimeReg[i]]
    BY <1>1, <1>7, <2>1, TimeRegs DEF HandleVal
  <2>4. /\ msgIdx' = k + 1 /\ (clock' = clock \/ clock' = time')
        /\ UNCHANGED <<began, received>> /\ began <= received
    BY <1>7 DEF HandleVal, commVars, TimeInv
  <2> HIDE DEF k, v
  <2>5. ASSUME NEW i \in Slots
        PROVE  /\ time'[TimeReg[i]] # Garbage => i < msgIdx'
               /\ time'[TimeReg[i]] <= Latest'
               /\ time'[TimeReg[i]] = Login => i = 0
               /\ time'[TimeReg[i]] >= 0 => time'[TimeReg[i]] >= began' - 2
    <3>1. CASE i = k
      BY <1>1, <1>2, <2>1, <2>2, <2>3, <2>4, <3>1 DEF Login
    <3>2. CASE i # k
      <4>1. i \in Nat /\ i < 4
        BY TimeRegs
      <4>2. time[TimeReg[i]] # Garbage => i < k
        BY DEF TimeInv, k
      <4>3. /\ time[TimeReg[i]] <= Latest /\ time[TimeReg[i]] \in Int
            /\ time[TimeReg[i]] >= 0 => time[TimeReg[i]] >= began - 2
        BY <1>1, TimeRegs DEF TimeInv
      <4>4. QED
        BY <1>1, <1>2, <2>1, <2>3, <2>4, <3>2, <4>1, <4>2, <4>3
        DEF TimeInv, Torn
    <3>3. QED
      BY <3>1, <3>2
  <2>6. ASSUME NEW i \in Slots, NEW j \in Slots, i < j,
               time'[TimeReg[i]] >= 0, time'[TimeReg[j]] # Garbage
        PROVE  time'[TimeReg[j]] >= time'[TimeReg[i]] - 1
    <3>1. i \in Nat /\ j \in Nat /\ i # j
      BY <2>6, TimeRegs
    <3>2. CASE j = k
      <4>1. time'[TimeReg[i]] = time[TimeReg[i]] /\ time[TimeReg[i]] <= Latest
        BY <2>3, <3>1, <3>2 DEF TimeInv
      <4>2. v >= Older /\ v \in Nat
        BY <2>2, <2>6, <3>1, <3>2
      <4>3. time[TimeReg[i]] \in Int
        BY <1>1, TimeRegs
      <4>4. QED
        BY <1>1, <2>3, <3>2, <4>1, <4>2, <4>3
    <3>3. CASE i = k
      <4>1. time[TimeReg[j]] # Garbage
        BY <2>3, <2>6, <3>1, <3>3
      <4>2. j < k
        BY <4>1 DEF TimeInv, k
      <4>3. QED
        BY <2>1, <2>6, <3>1, <3>3, <4>2
    <3>4. CASE i # k /\ j # k
      BY <2>3, <2>6, <3>4 DEF TimeInv, Torn
    <3>5. QED
      BY <3>2, <3>3, <3>4
  <2>7. Torn(time')
    BY <2>5, <2>6 DEF Torn
  <2>8. Torn(clock')
    BY <2>4, <2>7 DEF TimeInv
  <2>9. QED
    BY <2>4, <2>5, <2>7, <2>8 DEF TimeInv, Torn
<1>8. QED
  BY <1>3, <1>4, <1>5, <1>6, <1>7
  DEF Next, Comm, Main, RecvMsg, CopyAddr, CopyVal, CopyFlag, CopyCnt, Reply,
      ClearFlag, ReadAddr, mainVars, vars

(* Each sync sets the system time at most once. *)
LEMMA CountStep ==
  TypeOK /\ CommInv /\ MainInv /\ CountInv /\ [Next]_vars => CountInv'
<1> SUFFICES ASSUME TypeOK, CommInv, MainInv, CountInv, [Next]_vars
             PROVE  CountInv'
  OBVIOUS
<1>1. /\ received \in Nat /\ sets \in Nat /\ rr \in 0 .. 3 /\ msgIdx \in 0 .. 4
      /\ rr \in Slots /\ 3 \in Slots
      /\ rx \in [Slots -> [regAddr : Regs \cup {LOGIN},
                           regVal : Versions \cup {Login}, eFlag : BOOLEAN]]
      /\ msg \in {"none", "sync", "login"}
  BY DEF TypeOK, Versions, Slots
<1>2. rx[3].eFlag \in BOOLEAN
  BY <1>1
<1> USE DEF CountInv, One, Taken, Coming
<1>3. CASE RecvMsg
  <2>1. UNCHANGED <<rx, mainPc, msgIdx, sets>> /\ ~ Coming
    BY <1>3 DEF RecvMsg, mailVars, mainVars
  <2>2. \/ received' = received + 1
        \/ received' = received /\ msg' = "login"
    BY <1>3 DEF RecvMsg
  <2>3. QED
    BY <1>1, <1>2, <2>1, <2>2
<1>4. CASE CopyAddr \/ CopyVal
  <2>1. rx'[3].eFlag = rx[3].eFlag
    BY <1>1, <1>4 DEF CopyAddr, CopyVal
  <2>2. /\ UNCHANGED <<mainPc, msgIdx, sets, received, msg>>
        /\ Coming' <=> Coming
    BY <1>4 DEF CopyAddr, CopyVal, mainVars
  <2>3. QED
    BY <2>1, <2>2
<1>5. CASE CopyFlag
  <2>1. /\ rr # 3 => rx'[3].eFlag = rx[3].eFlag
        /\ rr = 3 => rx'[3].eFlag
    BY <1>1, <1>5 DEF CopyFlag
  <2>2. UNCHANGED <<mainPc, msgIdx, sets, received, msg, rr>>
    BY <1>5 DEF CopyFlag, mainVars
  <2>3. CASE rr # 3
    <3>1. Coming' <=> Coming
      BY <1>1, <1>5, <2>2, <2>3 DEF CopyFlag
    <3>2. QED
      BY <2>1, <2>2, <2>3, <3>1
  <2>4. CASE rr = 3
    <3>1. Coming /\ ~ Coming'
      BY <1>1, <1>5, <2>2, <2>4 DEF CopyFlag, CommInv
    <3>2. Taken' <=> Taken
      BY <2>2
    <3>3. QED
      BY <1>1, <1>2, <2>1, <2>2, <2>4, <3>1, <3>2
  <2>5. QED
    BY <2>3, <2>4
<1>6. CASE CopyCnt
  <2>1. UNCHANGED <<rx, mainPc, msgIdx, sets, received, msg>>
    BY <1>6 DEF CopyCnt, mainVars
  <2>2. Coming' => Coming
    BY <1>1, <1>6 DEF CopyCnt, MoreRegs, RegNum
  <2>3. QED
    BY <1>1, <1>2, <2>1, <2>2
<1>7. CASE Reply
  <2>1. UNCHANGED <<rx, mainPc, msgIdx, sets, received>> /\ ~ Coming'
    BY <1>7 DEF Reply, mailVars, mainVars
  <2>2. QED
    BY <1>1, <1>2, <2>1
<1>8. CASE StartPass \/ TestSlot \/ ReadAddr
  <2>1. UNCHANGED <<rx, sets, received, msg, commPc, rr>>
    BY <1>8 DEF StartPass, TestSlot, ReadAddr, mailVars, commVars
  <2>2. Taken' => Taken
    BY <1>8 DEF StartPass, TestSlot, ReadAddr
  <2>3. QED
    BY <1>1, <1>2, <2>1, <2>2
<1>9. CASE ClearFlag
  <2>1. UNCHANGED <<msgIdx, sets, received, msg, commPc, rr>> /\ ~ Taken
    BY <1>9 DEF ClearFlag, commVars
  <2>2. /\ msgIdx \in Slots /\ rx[msgIdx].eFlag
        /\ rx'[3].eFlag = IF msgIdx = 3 THEN FALSE ELSE rx[3].eFlag
    BY <1>1, <1>9 DEF ClearFlag, Cleared, MainInv
  <2>3. QED
    BY <1>1, <1>2, <2>1, <2>2
<1>10. CASE HandleVal
  <2>1. UNCHANGED <<rx, received, msg, commPc, rr>> /\ ~ Taken'
    BY <1>10 DEF HandleVal, mailVars, commVars
  <2>2. sets' = sets \/ (sets' = sets + 1 /\ Taken)
    BY <1>10, TimeRegs DEF HandleVal, MainInv, LOGIN
  <2>3. QED
    BY <1>1, <1>2, <2>1, <2>2
<1>11. CASE UNCHANGED vars
  BY <1>11 DEF vars, mailVars, commVars, mainVars
<1>12. QED
  BY <1>3, <1>4, <1>5, <1>6, <1>7, <1>8, <1>9, <1>10, <1>11
  DEF Next, Comm, Main

-----------------------------------------------------------------------------
(* The invariant holds in every reachable state. *)
LEMMA Invariance == Spec => []IInv
<1>1. IInv /\ [Next]_vars => IInv'
  BY TypeStep, CommStep, SlotStep, MainStep, TimeStep, CountStep DEF IInv
<1>2. QED
  BY InitInv, <1>1, PTL DEF Spec

(* The variables of both threads keep their types (interCPUComm and        *)
(* manageProcsViaCmd): no index leaves the mailbox.                        *)
THEOREM TypeCorrect == Spec => []TypeOK
<1>1. IInv => TypeOK
  BY DEF IInv
<1>2. QED
  BY Invariance, <1>1, PTL

(* However the slots are overwritten while they are read, the clock is not *)
(* set more often than syncs came.                                         *)
THEOREM SetOncePerSync == Spec => []SetsBounded
<1>1. IInv => SetsBounded
  <2>1. SUFFICES ASSUME IInv PROVE SetsBounded
    OBVIOUS
  <2>2. sets \in Nat /\ received \in Nat
    BY <2>1 DEF IInv, TypeOK, Versions
  <2>3. QED
    BY <2>1, <2>2 DEF IInv, CountInv, One, SetsBounded
<1>2. QED
  BY Invariance, <1>1, PTL

(* Only the year of a settimeofday can be a login answer: of the slots the *)
(* two messages share only the first.                                      *)
THEOREM LoginInYear == Spec => []LoginOnlyInYear
<1>1. IInv => LoginOnlyInYear
  BY TimeRegs DEF IInv, TimeInv, Torn, LoginOnlyInYear
<1>2. QED
  BY Invariance, <1>1, PTL

(* The parts of one settimeofday are near each other in both directions,   *)
(* and only the year can be a login answer, in whatever order              *)
(* interCPUComm writes the slots and manageProcsViaCmd takes them out.     *)
THEOREM PartsAreNear == Spec => PartsNear
<1>1. ASSUME IInv, IInv', [Next]_vars, sets' > sets
      PROVE  /\ LoginOnlyInYear'
             /\ \A i, j \in Slots :
                  i < j /\ clock'[TimeReg[i]] >= 0 /\ clock'[TimeReg[j]] >= 0
                    => clock'[TimeReg[j]] - clock'[TimeReg[i]]
                         \in -1 .. 1 + (received - began)
  <2>1. LoginOnlyInYear'
    BY <1>1, TimeRegs DEF IInv, TimeInv, Torn, LoginOnlyInYear
  <2>2. /\ clock' = time' /\ UNCHANGED <<received, began>>
        /\ received \in Nat /\ began \in Nat
    <3>1. sets \in Nat /\ received \in Nat /\ began \in Nat
      BY <1>1 DEF IInv, TypeOK, Versions
    <3>2. HandleVal \/ UNCHANGED sets
      BY <1>1 DEF Next, Comm, Main, RecvMsg, CopyAddr, CopyVal, CopyFlag,
        CopyCnt, Reply, StartPass, TestSlot, ClearFlag, ReadAddr, mainVars, vars
    <3>3. QED
      BY <1>1, <3>1, <3>2 DEF HandleVal, commVars
  <2>3. ASSUME NEW i \in Slots, clock'[TimeReg[i]] >= 0
        PROVE  /\ clock'[TimeReg[i]] \in Int /\ clock'[TimeReg[i]] >= began - 2
               /\ clock'[TimeReg[i]] <= IF received = 0 THEN 0 ELSE received - 1
    <3>1. TimeReg[i] \in Regs /\ time' \in [Regs -> Int]
      BY <1>1, TimeRegs DEF IInv, TypeOK, Versions, Login, Garbage
    <3>2. QED
      BY <1>1, <2>2, <2>3, <3>1 DEF IInv, TimeInv, Latest
  <2>4. ASSUME NEW i \in Slots, NEW j \in Slots,
               i < j, clock'[TimeReg[i]] >= 0, clock'[TimeReg[j]] >= 0
        PROVE  clock'[TimeReg[j]] >= clock'[TimeReg[i]] - 1
    BY <1>1, <2>4 DEF IInv, TimeInv, Torn, Garbage
  <2>5. began <= received
    BY <1>1 DEF IInv, TimeInv
  <2>6. QED
    BY <2>1, <2>2, <2>3, <2>4, <2>5
<1>2. IInv /\ IInv' /\ [Next]_vars
        => [sets' > sets =>
              /\ LoginOnlyInYear'
              /\ \A i, j \in Slots :
                   i < j /\ clock'[TimeReg[i]] >= 0 /\ clock'[TimeReg[j]] >= 0
                     => clock'[TimeReg[j]] - clock'[TimeReg[i]]
                          \in -1 .. 1 + (received - began)]_vars
  BY <1>1
<1>3. QED
  BY Invariance, <1>2, PTL DEF Spec, PartsNear

(* A value manageProcsViaCmd takes out of the mailbox is at most two syncs *)
(* old.                                                                    *)
THEOREM TakenAreFresh == Spec => TakenFresh
<1>1. ASSUME IInv, [Next]_vars, NEW r \in Regs, time'[r] >= 0,
             time'[r] # time[r]
      PROVE  time'[r] >= received - 2
  <2>1. received \in Nat /\ Latest >= received - 2 /\ Older >= received - 2
    BY <1>1 DEF IInv, TypeOK, Versions, Latest, Older
  <2>2. CASE StartPass
    BY <1>1, <2>2 DEF StartPass, Garbage
  <2>3. CASE HandleVal
    <3>1. msgIdx \in Slots
      BY <1>1, <2>3 DEF HandleVal, IInv, MainInv
    <3>2. time'[r] = rx[msgIdx].regVal
      BY <1>1, <2>3 DEF HandleVal, IInv, TypeOK
    <3>3. rx[msgIdx].regVal # Login
      BY <1>1, <3>2 DEF Login
    <3>4. rx[msgIdx].regVal \in {Latest, Older}
      BY <1>1, <3>1, <3>3 DEF IInv, SlotInv
    <3>5. QED
      BY <2>1, <3>2, <3>4
  <2>4. CASE UNCHANGED time
    BY <1>1, <2>4
  <2>5. QED
    BY <1>1, <2>2, <2>3, <2>4
    DEF Next, Comm, Main, RecvMsg, CopyAddr, CopyVal, CopyFlag, CopyCnt, Reply,
        TestSlot, ClearFlag, ReadAddr, mainVars, vars
<1>2. IInv /\ [Next]_vars
        => [\A r \in Regs : time'[r] >= 0 /\ time'[r] # time[r]
                              => time'[r] >= received - 2]_vars
  BY <1>1
<1>3. QED
  BY Invariance, <1>2, PTL DEF Spec, TakenFresh
=============================================================================
