---------------------------- MODULE HisiMailbox ----------------------------
(***************************************************************************)
(* The mailbox interCPUInfo of the HISI daemon (smb-HISI/src): the comm    *)
(* thread copies the registers of every multi-register write into its      *)
(* slots, the main thread takes them out (manageProcsViaCmd) and sets the  *)
(* system time from them.  Nothing is locked, so every access to a field   *)
(* of a slot is a step of its own.                                         *)
(*                                                                         *)
(* The BBB writes two kinds of messages: the time (four registers) and,    *)
(* after a new connection, its login answer (one register).  The n-th time *)
(* sync carries the value n in all four registers, so that a value tells   *)
(* which sync it stems from.  The boards this runs on have a single core.  *)
(***************************************************************************)
EXTENDS Integers

CONSTANTS
  MaxMsgs        \* bound: messages received in one behaviour

ASSUME HisiMailboxAssumption == MaxMsgs \in Nat

VARIABLES
  \* the mailbox
  rx,            \* interCPUInfo.rx
  rxCnt,         \* interCPUInfo.ullRxCnt
  \* comm thread
  tabTime,       \* the time registers of mb_mapping: the sync they hold
  msg,           \* the message being handled
  rr,            \* interCPUComm's index of that name
  commPc,        \* what the comm thread does next
  received,      \* time syncs received
  logins,        \* login answers received
  \* main thread
  msgIdx, cnt,   \* manageProcsViaCmd's index and its copy of ullRxCnt
  reg,           \* its local of that name
  time,          \* its struct tm, one entry per register it is filled from
  mainPc,        \* what the main thread does next
  clock,         \* the struct tm of the last settimeofday
  sets,          \* the number of settimeofday calls
  began          \* history: the syncs received when this pass began

mailVars == <<rx, rxCnt>>
commVars == <<tabTime, msg, rr, commPc, received, logins>>
mainVars == <<msgIdx, cnt, reg, time, mainPc, clock, sets, began>>
vars     == <<mailVars, commVars, mainVars>>

(* The registers, each with the slot its message puts it in: the login     *)
(* register alone in slot 0, the four of the time in slots 0 to 3.         *)
LOGIN == "LOGIN"
Slots == 0 .. 3
TimeReg == [i \in Slots |-> CASE i = 0 -> "YEAR" [] i = 1 -> "MON_DAY"
                              [] i = 2 -> "HOUR_MIN" [] i = 3 -> "SEC_MS"]
Regs == {TimeReg[i] : i \in Slots}

Login   == -1            \* a login value
Garbage == -2            \* a field of struct tm never assigned

(* The number of registers a message writes, and the register it puts into *)
(* slot i.                                                                 *)
RegNum(m) == IF m = "sync" THEN 4 ELSE 1
RegAddr(m, i) == IF m = "sync" THEN TimeReg[i] ELSE LOGIN

-----------------------------------------------------------------------------
(* The daemon has just logged in: the globals are zero. *)
Init ==
  /\ rx = [i \in Slots |-> [regAddr |-> LOGIN, regVal |-> 0, eFlag |-> FALSE]]
  /\ rxCnt = 0
  /\ tabTime = 0 /\ msg = "none" /\ rr = 0 /\ commPc = "receive"
  /\ received = 0 /\ logins = 0
  /\ msgIdx = 0 /\ cnt = 0 /\ reg = LOGIN /\ mainPc = "start"
  /\ time = [r \in Regs |-> Garbage] /\ clock = [r \in Regs |-> Garbage]
  /\ sets = 0 /\ began = 0

-----------------------------------------------------------------------------
(* The comm thread.                                                        *)

(* modbus_receive returns a write of several registers. *)
RecvMsg ==
  /\ commPc = "receive" /\ received + logins < MaxMsgs
  /\ \/ msg' = "sync" /\ received' = received + 1 /\ UNCHANGED logins
     \/ msg' = "login" /\ logins' = logins + 1 /\ UNCHANGED received
  /\ rr' = 0 /\ commPc' = "addr"
  /\ UNCHANGED <<mailVars, tabTime, mainVars>>

CopyAddr ==
  /\ commPc = "addr"
  /\ rx' = [rx EXCEPT ![rr].regAddr = RegAddr(msg, rr)]
  /\ commPc' = "val"
  /\ UNCHANGED <<rxCnt, tabTime, msg, rr, received, logins, mainVars>>

(* The value is the register's of the mapping: the message itself reaches  *)
(* the mapping only by the reply.  Mutant: a slot still flagged is kept.   *)
MutCopiedVal ==
  IF rx[rr].eFlag THEN rx[rr].regVal ELSE IF msg = "sync" THEN tabTime ELSE Login
CopiedVal == IF msg = "sync" THEN tabTime ELSE Login

CopyVal ==
  /\ commPc = "val"
  /\ rx' = [rx EXCEPT ![rr].regVal = CopiedVal]
  /\ commPc' = "flag"
  /\ UNCHANGED <<rxCnt, tabTime, msg, rr, received, logins, mainVars>>

CopyFlag ==
  /\ commPc = "flag"
  /\ rx' = [rx EXCEPT ![rr].eFlag = TRUE]
  /\ commPc' = "cnt"
  /\ UNCHANGED <<rxCnt, tabTime, msg, rr, received, logins, mainVars>>

(* Whether there is another register to copy.  Mutant: one too many.       *)
MutMoreRegs == rr < RegNum(msg)
MoreRegs == rr + 1 < RegNum(msg)

CopyCnt ==
  /\ commPc = "cnt"
  /\ rxCnt' = RegNum(msg)
  /\ IF MoreRegs THEN rr' = rr + 1 /\ commPc' = "addr"
                 ELSE UNCHANGED rr /\ commPc' = "reply"
  /\ UNCHANGED <<rx, tabTime, msg, received, logins, mainVars>>

(* modbus_reply stores the registers of the message. *)
Reply ==
  /\ commPc = "reply"
  /\ tabTime' = IF msg = "sync" THEN received ELSE tabTime
  /\ commPc' = "receive"
  /\ UNCHANGED <<mailVars, msg, rr, received, logins, mainVars>>

-----------------------------------------------------------------------------
(* The main thread.                                                        *)

(* manageProcsViaCmd begins: nothing of its struct tm is initialised.      *)
StartPass ==
  /\ mainPc = "start"
  /\ cnt' = rxCnt /\ msgIdx' = 0
  /\ time' = [r \in Regs |-> Garbage]
  /\ began' = received
  /\ mainPc' = "test"
  /\ UNCHANGED <<mailVars, commVars, reg, clock, sets>>

(* The slot is looked at, or the loop is over and the main loop goes round.*)
TestSlot ==
  /\ mainPc = "test"
  /\ \/ /\ msgIdx < cnt /\ rx[msgIdx].eFlag
        /\ mainPc' = "clear" /\ UNCHANGED msgIdx
     \/ /\ msgIdx < cnt /\ ~ rx[msgIdx].eFlag
        /\ msgIdx' = msgIdx + 1 /\ UNCHANGED mainPc
     \/ /\ msgIdx >= cnt
        /\ mainPc' = "start" /\ UNCHANGED msgIdx
  /\ UNCHANGED <<mailVars, commVars, cnt, reg, time, clock, sets, began>>

(* The flag is cleared before the slot is read. Mutant: it is left set.    *)
MutCleared == rx
Cleared == [rx EXCEPT ![msgIdx].eFlag = FALSE]

ClearFlag ==
  /\ mainPc = "clear"
  /\ rx' = Cleared
  /\ mainPc' = "addr"
  /\ UNCHANGED <<rxCnt, commVars, msgIdx, cnt, reg, time, clock, sets, began>>

ReadAddr ==
  /\ mainPc = "addr"
  /\ reg' = rx[msgIdx].regAddr
  /\ mainPc' = "val"
  /\ UNCHANGED <<mailVars, commVars, msgIdx, cnt, time, clock, sets, began>>

(* The value is read and dispatched on the register: a time register fills *)
(* its part of the struct tm, the last one sets the system time too.  The  *)
(* login register is none of the cases.                                    *)
HandleVal ==
  /\ mainPc = "val"
  /\ time' = IF reg \in Regs THEN [time EXCEPT ![reg] = rx[msgIdx].regVal]
                             ELSE time
  /\ IF reg = "SEC_MS" THEN clock' = time' /\ sets' = sets + 1
                       ELSE UNCHANGED <<clock, sets>>
  /\ msgIdx' = msgIdx + 1
  /\ mainPc' = "test"
  /\ UNCHANGED <<mailVars, commVars, cnt, reg, began>>

-----------------------------------------------------------------------------
Comm == CopyAddr \/ CopyVal \/ CopyFlag \/ CopyCnt \/ Reply
Main == StartPass \/ TestSlot \/ ClearFlag \/ ReadAddr \/ HandleVal

Next == RecvMsg \/ Comm \/ Main

Spec == Init /\ [][Next]_vars

(* Both threads keep running; whether more messages come is up to the BBB. *)
Fairness == WF_vars(Comm) /\ WF_vars(Main)

FairSpec == Spec /\ Fairness

-----------------------------------------------------------------------------
Versions == 0 .. MaxMsgs

(* Types of all variables. *)
TypeOK ==
  /\ rx \in [Slots -> [regAddr : Regs \cup {LOGIN},
                       regVal : Versions \cup {Login}, eFlag : BOOLEAN]]
  /\ rxCnt \in {0, 1, 4} /\ cnt \in {0, 1, 4}
  /\ tabTime \in Versions /\ received \in Versions
  /\ logins \in 0 .. MaxMsgs
  /\ msg \in {"none", "sync", "login"}
  /\ rr \in Slots
  /\ commPc \in {"receive", "addr", "val", "flag", "cnt", "reply"}
  /\ msgIdx \in 0 .. 4
  /\ reg \in Regs \cup {LOGIN}
  /\ time \in [Regs -> Versions \cup {Login, Garbage}]
  /\ clock \in [Regs -> Versions \cup {Login, Garbage}]
  /\ mainPc \in {"start", "test", "clear", "addr", "val"}
  /\ sets \in Nat /\ began \in Versions

(* A value taken out of the mailbox is at most two syncs old, however the  *)
(* main thread is delayed: it is never a value its slot held before.       *)
TakenFresh ==
  [][\A r \in Regs : time'[r] >= 0 /\ time'[r] # time[r]
                       => time'[r] >= received - 2]_vars

(* The year is the only part that a login answer, which shares its slot,   *)
(* can corrupt.                                                            *)
LoginOnlyInYear == \A r \in Regs \ {"YEAR"} : clock[r] # Login

(* The parts of one settimeofday may stem from different syncs, from none  *)
(* (a slot without its flag, or with the login's address) or, the year     *)
(* alone, from a login answer.  Of those of a sync a later part is at most *)
(* one sync older than one before it, and newer by at most one sync and as *)
(* many as have come while the pass went through the slots.                *)
PartsNear ==
  [][sets' > sets =>
       /\ LoginOnlyInYear'
       /\ \A i, j \in Slots :
            i < j /\ clock'[TimeReg[i]] >= 0 /\ clock'[TimeReg[j]] >= 0
              => clock'[TimeReg[j]] - clock'[TimeReg[i]]
                   \in -1 .. 1 + (received - began)]_vars

(* A slot may be overwritten or read while it is written, and a sync be    *)
(* handled twice; but the clock is not set more often than syncs come.     *)
SetsBounded == sets <= received

(* The end of a sync is not lost: the system time is set from it (one sync *)
(* late) or from a later one, unless a login answer hides its slots.       *)
SyncHandled ==
  \A n \in 1 .. MaxMsgs :
    received = n /\ commPc = "receive" /\ rxCnt = 4
      ~> clock["SEC_MS"] >= n - 1 \/ rxCnt # 4

(* "parse current modbus msg and update DB" (interCPUComm): when a sync is *)
(* copied, the mailbox holds its values.                                   *)
MailboxHoldsCurrentMsg ==
  commPc = "reply" /\ msg = "sync"
    => \A i \in Slots : rx[i].regVal = received
=============================================================================
