----------------------------- MODULE HisiReport -----------------------------
(***************************************************************************)
(* The periodic report of the HISI daemon (refreshInfoToBBB in             *)
(* smb-HISI/src/inter_cpu.c and sys.c): every message of the BBB adds the  *)
(* seconds since the one before to an interval, and once that is longer    *)
(* than the period the registers of load, memory and disks are read anew.  *)
(* The clock is the system time, which the daemon's main thread sets.  Only*)
(* its distance from the static ts matters, and no distance more than a    *)
(* period, so that is what the model counts.                               *)
(***************************************************************************)
EXTENDS Integers

CONSTANTS
  W,                    \* intervals are counted modulo W, 2^32 in the code
  Minute,               \* what TIME_SEC_DIFF adds, 60 in the code
  RPT_SYS_INFO_PERIOD,  \* 10 in the code
  Jumps,                \* how far from ts the clock may be set
  MaxFaults             \* bound: failed readings and settings of the clock

ASSUME HisiReportAssumption ==
  /\ W \in Nat /\ Minute \in Nat /\ RPT_SYS_INFO_PERIOD \in Nat
  /\ RPT_SYS_INFO_PERIOD < Minute /\ Minute < W
  /\ \A j \in Jumps : j \in Int /\ j < W
  /\ MaxFaults \in Nat

VARIABLES
  marked,    \* ts is 0xdeadbeef: the next message begins an interval
  gap,       \* otherwise the system time less ts
  interval,  \* refreshInfoToBBB's static of that name
  age,       \* history: seconds that passed since the first message
  odd,       \* history: a message of the interval did not see a later second
  faults     \* failed readings and settings of the clock

reportVars == <<marked, gap, interval, age, odd, faults>>

(* The statics of a process that has just started; interval is set anew    *)
(* where the mark is found.                                                *)
InitReport ==
  /\ marked = TRUE /\ gap = 0 /\ interval = 0
  /\ age = 0 /\ odd = FALSE /\ faults = 0

Marked ==
  marked' = TRUE /\ gap' = 0 /\ interval' = 0 /\ age' = 0 /\ odd' = FALSE

(* TIME_SEC_DIFF(tv.tv_sec, ts): a second that is not later counts as one  *)
(* of the next minute; further back than a minute it wraps.                *)
TIME_SEC_DIFF == IF gap > 0 THEN gap ELSE (gap + Minute) % W

(* The interval with this message.                                         *)
(* Mutant: the seconds since the last message only.                        *)
MutInterval == IF marked THEN 0 ELSE TIME_SEC_DIFF
Interval == IF marked THEN 0 ELSE (interval + TIME_SEC_DIFF) % W

(* Mutant: one second early.                                               *)
MutDue == Interval >= RPT_SYS_INFO_PERIOD
Due == Interval > RPT_SYS_INFO_PERIOD

(* ts and interval of a message that does not end the interval.            *)
Counted ==
  /\ marked' = FALSE /\ gap' = 0 /\ interval' = Interval
  /\ odd' = (~ marked /\ (odd \/ gap <= 0))

(* A message of the BBB that finds the report not due. *)
RefreshCounts == ~ Due /\ Counted /\ UNCHANGED <<age, faults>>

(* The report is due, but the load or the memory cannot be read: the       *)
(* interval stays as it is and the next message tries again.  A disk that  *)
(* cannot be read is only logged.                                          *)
ReadingFails ==
  /\ Due /\ faults < MaxFaults
  /\ Counted
  /\ faults' = faults + 1
  /\ UNCHANGED age

(* The registers are written, and the next message begins an interval.     *)
RefreshReports == Due /\ Marked /\ UNCHANGED faults

(* A second passes. *)
Tick ==
  /\ ~ marked /\ gap <= RPT_SYS_INFO_PERIOD
  /\ gap' = gap + 1
  /\ age' = IF age > RPT_SYS_INFO_PERIOD THEN age ELSE age + 1
  /\ UNCHANGED <<marked, interval, odd, faults>>

(* settimeofday, by manageProcsViaCmd.                                     *)
SetTime ==
  /\ ~ marked /\ faults < MaxFaults
  /\ gap' \in Jumps
  /\ odd' = TRUE
  /\ faults' = faults + 1
  /\ UNCHANGED <<marked, interval, age>>

TypeOKReport ==
  /\ marked \in BOOLEAN
  /\ gap \in Int /\ gap < W
  /\ interval \in 0 .. W - 1
  /\ age \in 0 .. RPT_SYS_INFO_PERIOD + 1
  /\ odd \in BOOLEAN
  /\ faults \in 0 .. MaxFaults

=============================================================================
