-------------------------- MODULE HisiDaemonProofs --------------------------
(***************************************************************************)
(* Proofs about HisiDaemon and HisiReport, for any number of daemons,      *)
(* programs and configurations: the lock, the shared memory, the programs  *)
(* a stop reaches, and the time of a report.                               *)
(***************************************************************************)
EXTENDS HisiDaemon, FiniteSetTheorems, SequenceTheorems, TLAPS

-----------------------------------------------------------------------------
(* The invariant.                                                          *)

Early   == {"none", "lock", "locked", "init"}    \* before it has programs
Labels  == {"none", "unlock"} \cup Unhandled \cup Handled \cup Ending
Numbers == 0 .. Slots + 1

(* The record p of daemon d; an entry of its table is a program's process  *)
(* or one that says there is none.                                         *)
ProcessType(d, p) ==
  /\ DOMAIN p = {"pc", "idx", "table", "ready", "file", "mapped", "alive"}
  /\ p.pc \in Labels
  /\ p.table \in Seq(Int) /\ p.idx \in 0 .. Len(p.table) + 1
  /\ \A i \in 1 .. Len(p.table) :
       p.table[i] \in {Everyone, Group, DEF_PID, Pid(d, i)}
  /\ p.ready \in BOOLEAN
  /\ p.file \in Numbers /\ p.mapped \in Numbers \cup {Failed}
  /\ p.alive \subseteq {Pid(d, i) : i \in 1 .. Len(p.table)}

(* The programs that run are in the table, but for the one just started    *)
(* and not entered yet; those the loop of the handler has passed are gone, *)
(* but for one whose entry was that of the default table.                  *)
Entry(d, p, i) == p.table[i] = Pid(d, i)
Runs(d, p, i)  == i \in 1 .. Len(p.table) /\ Pid(d, i) \in p.alive
TableInv(d, p) ==
  /\ p.pc \in Early => p.idx = 0 /\ p.alive = {}
  /\ p.pc \in {"fork", "assign"} => p.idx \in 1 .. Len(p.table)
  /\ p.pc \in {"fork", "comm", "run"} =>
       \A i \in Int : Runs(d, p, i) => i < p.idx /\ Entry(d, p, i)
  /\ p.pc = "assign" =>
       \A i \in Int : Runs(d, p, i) => i = p.idx \/ (i < p.idx /\ Entry(d, p, i))
  /\ \A i, j \in Int :
       Runs(d, p, i) /\ Runs(d, p, j) /\ ~ Entry(d, p, i) /\ ~ Entry(d, p, j)
         => i = j
  /\ p.pc \in {"kill", "free", "destroy"} =>
       \A i \in Int : Runs(d, p, i) /\ (p.pc = "kill" => i < p.idx)
                        => p.table[i] = DEF_PID /\ ~ Entry(d, p, i)

ProcessOK(d, p) == ProcessType(d, p) /\ TableInv(d, p)

DaemonType ==
  /\ DOMAIN proc = Daemons
  /\ \A d \in Daemons : ProcessOK(d, proc[d])
  /\ pidName \in Numbers /\ shmName \in Numbers
  /\ server \in {0} \cup Daemons /\ overlap \in BOOLEAN

(* Without an overlap: all daemons but those that end have locked, or ask  *)
(* for, the file under the name; one holds the lock at most, and when one  *)
(* ends the others do or are gone.  The one that serves has mapped the     *)
(* memory under the name, or none without noticing.                        *)
Present(d) == pc(d) # "none" /\ pc(d) \notin Ending
LockInv ==
  ~ overlap =>
    /\ \A d \in Daemons : Present(d) => proc[d].file = pidName /\ pidName # 0
    /\ \A d, e \in Daemons : Holds(d) /\ Holds(e) => d = e
    /\ \A d, e \in Daemons : ~ (Present(d) /\ pc(e) \in Ending)
    /\ \A d \in Daemons :
         pc(d) \in {"fork", "assign", "comm", "run"} /\ proc[d].ready
           => proc[d].mapped \in {shmName, Failed} /\ shmName # 0

(* The report: as long as every message saw a later second, the interval   *)
(* and the gap are the time that has passed.                               *)
ReportInv ==
  /\ marked => interval = 0 /\ gap = 0 /\ age = 0
  /\ ~ marked /\ ~ odd =>
       gap >= 0 /\ (age > RPT_SYS_INFO_PERIOD \/ age = interval + gap)

(* The server runs, and once it has told something its memory is mapped.   *)
ServerInv ==
  /\ server = 0 => marked
  /\ server # 0 => /\ pc(server) = "run"
                   /\ ~ marked => proc[server].mapped # Failed

IInv == DaemonType /\ LockInv /\ ServerInv /\ TypeOKReport /\ ReportInv

-----------------------------------------------------------------------------
(* One daemon.                                                             *)

LEMMA SlotsType == Slots \in Nat /\ Slots >= 1
BY HisiDaemonAssumption

(* The processes of a daemon's programs are different. *)
LEMMA PidOnce ==
  ASSUME NEW d \in Daemons
  PROVE  \A i, j \in Int : Pid(d, i) = Pid(d, j) => i = j
BY DEF Pid, Daemons

LEMMA LabelKinds ==
  /\ Labels = {"none", "unlock", "lock", "locked", "init", "fork", "assign",
               "comm", "run", "unlink", "kill", "free", "destroy"}
  /\ Early = {"none", "lock", "locked", "init"}
BY DEF Labels, Early, Unhandled, Handled, Starting, Ending

LEMMA NoneOK == \A d \in Daemons : ProcessOK(d, NoProcess)
BY HisiDaemonAssumption, LabelKinds
DEF ProcessOK, ProcessType, TableInv, NoProcess, Numbers, Runs

(* Before it has programs. *)
LEMMA EarlyOK ==
  ASSUME NEW d \in Daemons, NEW p, ProcessOK(d, p), p.pc \in Early
  PROVE  /\ ProcessOK(d, [p EXCEPT !.pc = "locked"])
         /\ \A n \in Numbers :
              ProcessOK(d, [p EXCEPT !.pc = "lock", !.file = n])
<1>1. ProcessOK(d, [p EXCEPT !.pc = "locked"])
  BY LabelKinds DEF ProcessOK, ProcessType, TableInv, Runs, Entry
<1>2. ASSUME NEW n \in Numbers
      PROVE  ProcessOK(d, [p EXCEPT !.pc = "lock", !.file = n])
  BY LabelKinds DEF ProcessOK, ProcessType, TableInv, Runs, Entry
<1>3. QED
  BY <1>1, <1>2

LEMMA ForkOK ==
  ASSUME NEW d \in Daemons, NEW p, ProcessOK(d, p), p.pc = "fork"
  PROVE  ProcessOK(d, [p EXCEPT !.pc = "assign",
                                !.alive = @ \cup {Pid(d, p.idx)}])
BY LabelKinds, PidOnce DEF ProcessOK, ProcessType, TableInv, Runs, Entry

LEMMA ConfOK ==
  ASSUME NEW d \in Daemons, NEW p, ProcessOK(d, p), p.pc = "locked", NEW n \in Nat
  PROVE  ProcessOK(d, [p EXCEPT !.pc = "init", !.table = [i \in 1 .. n |-> Group]])
<1>1. [i \in 1 .. n |-> Group] \in Seq(Int) /\ Len([i \in 1 .. n |-> Group]) = n
  BY DEF Group
<1>2. QED
  BY <1>1, LabelKinds DEF ProcessOK, ProcessType, TableInv, Runs, Entry

LEMMA InitOK ==
  ASSUME NEW d \in Daemons, NEW p, ProcessOK(d, p), p.pc = "init",
         NEW ok \in BOOLEAN, NEW m \in Numbers \cup {Failed}
  PROVE  ProcessOK(d, [p EXCEPT
           !.pc = "fork", !.idx = 1, !.ready = ok, !.mapped = m,
           !.table = IF @ = <<>> THEN [i \in 1 .. DEF_PROC_NUM |-> DEF_PID] ELSE @])
<1> DEFINE default == [i \in 1 .. DEF_PROC_NUM |-> DEF_PID]
           t == IF p.table = <<>> THEN default ELSE p.table
<1>1. default \in Seq(Int) /\ Len(default) = DEF_PROC_NUM /\ DEF_PROC_NUM >= 1
  BY HisiDaemonAssumption DEF DEF_PID
<1>2. p.table \in Seq(Int) /\ (p.table # <<>> => Len(p.table) >= 1)
  BY EmptySeq DEF ProcessOK, ProcessType
<1>3. t \in Seq(Int) /\ Len(t) >= 1 /\ Len(t) \in Nat
  BY <1>1, <1>2, HisiDaemonAssumption, LenProperties
<1>4. \A i \in 1 .. Len(t) : t[i] \in {Everyone, Group, DEF_PID, Pid(d, i)}
  BY <1>1 DEF ProcessOK, ProcessType
<1>5. p.alive = {}
  BY LabelKinds DEF ProcessOK, TableInv
<1> HIDE DEF t
<1>6. ProcessOK(d, [p EXCEPT !.pc = "fork", !.idx = 1, !.ready = ok,
                             !.mapped = m, !.table = t])
  BY <1>3, <1>4, <1>5, LabelKinds
  DEF ProcessOK, ProcessType, TableInv, Runs, Entry
<1>7. QED
  BY <1>6 DEF t

LEMMA ForkFailsOK ==
  ASSUME NEW d \in Daemons, NEW p, ProcessOK(d, p), p.pc = "fork"
  PROVE  ProcessOK(d, [p EXCEPT !.pc = "comm", !.table[p.idx] = Everyone])
<1> DEFINE t == [p.table EXCEPT ![p.idx] = Everyone]
<1>1. p.idx \in 1 .. Len(p.table) /\ p.table \in Seq(Int)
  BY DEF ProcessOK, ProcessType, TableInv
<1>2. /\ t \in Seq(Int) /\ Len(t) = Len(p.table)
      /\ \A i \in 1 .. Len(t) : t[i] = IF i = p.idx THEN Everyone ELSE p.table[i]
  BY <1>1, ExceptSeq DEF Everyone
<1> HIDE DEF t
<1> DEFINE q == [p EXCEPT !.pc = "comm", !.table = t]
<1>3. /\ q.pc = "comm" /\ q.table = t /\ q.idx = p.idx /\ q.alive = p.alive
      /\ q.ready = p.ready /\ q.file = p.file /\ q.mapped = p.mapped
      /\ DOMAIN q = DOMAIN p
  BY DEF ProcessOK, ProcessType
<1> HIDE DEF q
<1>4. ProcessType(d, q)
  BY <1>1, <1>2, <1>3, LabelKinds DEF ProcessOK, ProcessType
<1>5. TableInv(d, q)
  <2>1. \A i \in Int : Runs(d, q, i) => i < p.idx /\ Entry(d, p, i)
    BY <1>2, <1>3 DEF ProcessOK, TableInv, Runs
  <2>2. \A i \in Int : Runs(d, q, i) => i < q.idx /\ Entry(d, q, i)
    BY <1>1, <1>2, <1>3, <2>1 DEF Runs, Entry
  <2>3. QED
    BY <1>3, <2>2, LabelKinds DEF TableInv
<1>6. q = [p EXCEPT !.pc = "comm", !.table[p.idx] = Everyone]
  BY DEF q, t, ProcessOK, ProcessType
<1>7. QED
  BY <1>4, <1>5, <1>6 DEF ProcessOK

LEMMA EnterOK ==
  ASSUME NEW d \in Daemons, NEW p, ProcessOK(d, p), p.pc = "assign"
  PROVE  ProcessOK(d, [p EXCEPT
           !.pc = IF p.idx = Len(p.table) THEN "comm" ELSE "fork",
           !.table = [p.table EXCEPT ![p.idx] = Pid(d, p.idx)],
           !.idx = @ + 1])
<1> DEFINE t == [p.table EXCEPT ![p.idx] = Pid(d, p.idx)]
<1>1. p.idx \in 1 .. Len(p.table) /\ p.table \in Seq(Int) /\ Pid(d, p.idx) \in Int
  BY DEF ProcessOK, ProcessType, TableInv, Pid, Daemons
<1>2. /\ t \in Seq(Int) /\ Len(t) = Len(p.table)
      /\ \A i \in 1 .. Len(t) : t[i] = IF i = p.idx THEN Pid(d, p.idx) ELSE p.table[i]
  BY <1>1, ExceptSeq
<1> HIDE DEF t
<1> DEFINE l == IF p.idx = Len(p.table) THEN "comm" ELSE "fork"
           q == [p EXCEPT !.pc = l, !.table = t, !.idx = p.idx + 1]
<1>3. /\ q.pc = l /\ q.table = t /\ q.idx = p.idx + 1 /\ q.alive = p.alive
      /\ q.ready = p.ready /\ q.file = p.file /\ q.mapped = p.mapped
      /\ DOMAIN q = DOMAIN p
  BY DEF ProcessOK, ProcessType
<1>4. /\ l \in {"comm", "fork"} /\ Len(p.table) \in Nat
      /\ l = "fork" => p.idx + 1 <= Len(p.table)
  BY <1>1, LenProperties
<1> HIDE DEF q, l
<1>5. ProcessType(d, q)
  <2>1. q.pc \in Labels /\ q.idx \in 0 .. Len(q.table) + 1
    BY <1>1, <1>2, <1>3, <1>4, LabelKinds
  <2>2. \A i \in 1 .. Len(q.table) :
          q.table[i] \in {Everyone, Group, DEF_PID, Pid(d, i)}
    BY <1>1, <1>2, <1>3 DEF ProcessOK, ProcessType
  <2>3. QED
    BY <1>2, <1>3, <2>1, <2>2 DEF ProcessOK, ProcessType
<1>6. TableInv(d, q)
  <2>1. \A i \in Int : Runs(d, q, i) => i = p.idx \/ (i < p.idx /\ Entry(d, p, i))
    BY <1>2, <1>3 DEF ProcessOK, TableInv, Runs
  <2>2. ASSUME NEW i \in Int, Runs(d, q, i) PROVE i < q.idx /\ Entry(d, q, i)
    <3>1. i \in 1 .. Len(t) /\ (i = p.idx \/ (i < p.idx /\ p.table[i] = Pid(d, i)))
      BY <1>3, <2>1, <2>2 DEF Runs, Entry
    <3>2. t[i] = Pid(d, i)
      BY <1>1, <1>2, <3>1
    <3>3. QED
      BY <1>1, <1>3, <3>1, <3>2 DEF Entry
  <2>3. q.pc = "fork" => q.idx \in 1 .. Len(q.table)
    BY <1>1, <1>2, <1>3, <1>4
  <2>4. QED
    BY <1>3, <1>4, <2>2, <2>3, LabelKinds DEF TableInv
<1>7. QED
  BY <1>5, <1>6 DEF ProcessOK, q, l, t

LEMMA CommOK ==
  ASSUME NEW d \in Daemons, NEW p, ProcessOK(d, p), p.pc = "comm", NEW ok \in BOOLEAN
  PROVE  ProcessOK(d, [p EXCEPT !.pc = "run", !.ready = ok])
BY LabelKinds DEF ProcessOK, ProcessType, TableInv, Runs, Entry

(* A signal's handler begins, and goes through its steps. *)
LEMMA HandlerOK ==
  ASSUME NEW d \in Daemons, NEW p, ProcessOK(d, p)
  PROVE  /\ \A l \in {"unlock", "unlink"} : ProcessOK(d, [p EXCEPT !.pc = l])
         /\ ProcessOK(d, [p EXCEPT !.pc = "kill", !.idx = 1])
         /\ p.pc = "kill" /\ p.idx > Len(p.table)
              => ProcessOK(d, [p EXCEPT !.pc = "free"])
         /\ p.pc = "free" => ProcessOK(d, [p EXCEPT !.pc = "destroy"])
BY LabelKinds DEF ProcessOK, ProcessType, TableInv, Runs, Entry

LEMMA StruckOK ==
  ASSUME NEW d \in Daemons, NEW p, ProcessOK(d, p)
  PROVE  ProcessOK(d, Struck(p))
BY HandlerOK, NoneOK DEF Struck

(* Some of a daemon's programs end. *)
LEMMA EndedOK ==
  ASSUME NEW d \in Daemons, NEW p, ProcessOK(d, p), NEW S
  PROVE  ProcessOK(d, [p EXCEPT !.alive = p.alive \ S])
BY LabelKinds DEF ProcessOK, ProcessType, TableInv, Runs, Entry

(* The loop of the handler reaches all programs but those of a default     *)
(* table that are not entered.                                             *)
LEMMA KillOK ==
  ASSUME NEW d \in Daemons, NEW p, ProcessOK(d, p), p.pc = "kill",
         p.idx <= Len(p.table), NEW S,
         p.table[p.idx] \in {Everyone, Group} => S = p.alive,
         p.table[p.idx] \notin {Everyone, Group} => S = {p.table[p.idx]}
  PROVE  ProcessOK(d, [p EXCEPT !.alive = p.alive \ S, !.idx = p.idx + 1])
BY LabelKinds, PidOnce DEF ProcessOK, ProcessType, TableInv, Runs, Entry

-----------------------------------------------------------------------------
(* Numbers and configurations.                                             *)

(* There is a number that no daemon uses. *)
LEMMA NewFree ==
  ASSUME NEW f, NEW used, used = {f[e] : e \in Daemons}
  PROVE  New(used) \in 1 .. Slots + 1 /\ New(used) \notin used
<1>1. Slots \in Nat
  BY HisiDaemonAssumption
<1>2. ASSUME \A n \in 1 .. Slots + 1 : n \in used PROVE FALSE
  <2> DEFINE g == [n \in 1 .. Slots + 1 |-> CHOOSE e \in Daemons : f[e] = n]
  <2>1. ASSUME NEW n \in 1 .. Slots + 1 PROVE g[n] \in Daemons /\ f[g[n]] = n
    <3>1. PICK e \in Daemons : f[e] = n
      BY <1>2
    <3>2. g[n] = CHOOSE e2 \in Daemons : f[e2] = n
      OBVIOUS
    <3>3. QED
      BY <3>1, <3>2
  <2>2. g \in [1 .. Slots + 1 -> Daemons]
    BY <2>1
  <2>3. /\ IsFiniteSet(1 .. Slots + 1) /\ Cardinality(1 .. Slots + 1) = Slots + 1
        /\ IsFiniteSet(Daemons) /\ Cardinality(Daemons) = Slots
    BY <1>1, FS_Interval DEF Daemons
  <2> HIDE DEF g
  <2>4. \E m, n \in 1 .. Slots + 1 : m # n /\ g[m] = g[n]
    BY <1>1, <2>2, <2>3, FS_PigeonHole
  <2>5. QED
    BY <2>1, <2>4
<1>3. \E n \in 1 .. Slots + 1 : n \notin used
  BY <1>2
<1>4. QED
  BY <1>3 DEF New

LEMMA ConfType == \A f \in ConfFiles : parse_conf_file(f) \in Nat
<1> SUFFICES ASSUME NEW f \in ConfFiles PROVE parse_conf_file(f) \in Nat
  OBVIOUS
<1> DEFINE read == {i \in DOMAIN f : Reached(f, i)}
           T == {i \in read : Program(f, i)}
<1>1. f \in Seq(LineKinds)
  BY HisiDaemonAssumption
<1>2. IsFiniteSet(DOMAIN f)
  BY <1>1, LenProperties, FS_Interval
<1>3. T \in SUBSET DOMAIN f
  OBVIOUS
<1>4. Cardinality(T) \in Nat
  BY <1>2, <1>3, FS_Subset, FS_CardinalityType
<1>5. QED
  BY <1>4 DEF parse_conf_file

-----------------------------------------------------------------------------
(* All daemons.                                                            *)

(* One daemon takes a step of its own. *)
LEMMA Updated ==
  ASSUME DaemonType, NEW d \in Daemons, NEW q, ProcessOK(d, q),
         proc' = [proc EXCEPT ![d] = q]
  PROVE  DOMAIN proc' = Daemons /\ \A e \in Daemons : ProcessOK(e, proc'[e])
BY DEF DaemonType

(* A memory or a file that has a name of its own. *)
LEMMA OpenedType ==
  DaemonType => /\ Opened \in 1 .. Slots + 1
                /\ New({proc[e].file : e \in Daemons}) \in 1 .. Slots + 1
<1> SUFFICES ASSUME DaemonType
             PROVE  /\ Opened \in 1 .. Slots + 1
                    /\ New({proc[e].file : e \in Daemons}) \in 1 .. Slots + 1
  OBVIOUS
<1> DEFINE f == [e \in Daemons |-> proc[e].file]
           m == [e \in Daemons |-> proc[e].mapped]
           F == {proc[e].file : e \in Daemons}
           M == {proc[e].mapped : e \in Daemons}
<1>1. F = {f[e] : e \in Daemons} /\ M = {m[e] : e \in Daemons}
  OBVIOUS
<1> HIDE DEF f, m, F, M
<1>2. New(F) \in 1 .. Slots + 1 /\ New(M) \in 1 .. Slots + 1
  BY <1>1, NewFree
<1>3. shmName \in Numbers
  BY DEF DaemonType
<1>4. (IF shmName = 0 THEN New(M) ELSE shmName) \in 1 .. Slots + 1
  BY <1>2, <1>3, HisiDaemonAssumption DEF Numbers
<1>5. QED
  BY <1>2, <1>4 DEF Opened, F, M

LEMMA StartType ==
  ASSUME DaemonType, NEW d \in Daemons, Start(d)
  PROVE  /\ DOMAIN proc' = Daemons /\ \A e \in Daemons : ProcessOK(e, proc'[e])
         /\ pidName' \in Numbers /\ shmName' \in Numbers
<1> DEFINE p == proc[d]
           Goal == DOMAIN proc' = Daemons /\ \A e \in Daemons : ProcessOK(e, proc'[e])
<1>1. ProcessOK(d, p) /\ DOMAIN proc = Daemons
  BY DEF DaemonType
<1>2. CASE LockPidFile(d)
  <2>1. p.pc \in Early
    BY <1>2 DEF LockPidFile, pc, Early
  <2>2. ProcessOK(d, [p EXCEPT !.pc = "locked"]) /\ ProcessOK(d, NoProcess)
    BY <1>1, <2>1, EarlyOK, NoneOK
  <2>3. CASE proc' = [proc EXCEPT ![d].pc = "locked"]
    BY <1>1, <1>2, <2>2, <2>3, Updated DEF LockPidFile, DaemonType
  <2>4. CASE proc' = [proc EXCEPT ![d] = NoProcess]
    BY <2>2, <1>2, <2>4, Updated DEF LockPidFile, DaemonType
  <2>5. QED
    BY <1>2, <2>3, <2>4 DEF LockPidFile, Goto, Leave
<1>3. CASE ReadConf(d)
  <2>1. PICK f \in ConfFiles :
          proc' = [proc EXCEPT ![d].pc = "init",
                     ![d].table = [i \in 1 .. parse_conf_file(f) |-> Group]]
    BY <1>3 DEF ReadConf
  <2>2. parse_conf_file(f) \in Nat
    BY ConfType
  <2>3. p.pc = "locked"
    BY <1>3 DEF ReadConf, pc
  <2>4. ProcessOK(d, [p EXCEPT !.pc = "init",
                        !.table = [i \in 1 .. parse_conf_file(f) |-> Group]])
    BY <1>1, <2>2, <2>3, ConfOK
  <2>5. QED
    BY <1>1, <1>3, <2>1, <2>4, Updated DEF ReadConf, DaemonType
<1>4. CASE ForkProgram(d)
  <2>1. p.pc = "fork"
    BY <1>4 DEF ForkProgram, pc
  <2>2. ProcessOK(d, [p EXCEPT !.pc = "assign", !.alive = @ \cup {Pid(d, p.idx)}])
    BY <1>1, <2>1, ForkOK
  <2>3. QED
    BY <1>1, <1>4, <2>2, Updated DEF ForkProgram, DaemonType
<1>5. CASE ForkFails(d)
  <2>1. p.pc = "fork"
    BY <1>5 DEF ForkFails, pc
  <2>2. ProcessOK(d, [p EXCEPT !.pc = "comm", !.table[p.idx] = Everyone])
    BY <1>1, <2>1, ForkFailsOK
  <2>3. QED
    BY <1>1, <1>5, <2>2, Updated DEF ForkFails, DaemonType
<1>6. CASE EnterProgram(d)
  <2>1. p.pc = "assign"
    BY <1>6 DEF EnterProgram, pc
  <2>2. ProcessOK(d, [p EXCEPT
           !.pc = IF p.idx = Len(p.table) THEN "comm" ELSE "fork",
           !.table = [p.table EXCEPT ![p.idx] = Pid(d, p.idx)],
           !.idx = @ + 1])
    BY <1>1, <2>1, EnterOK
  <2>3. QED
    BY <1>1, <1>6, <2>2, Updated DEF EnterProgram, Entered, DaemonType
<1>7. CASE StartComm(d)
  <2>1. PICK ok \in BOOLEAN :
          proc' = [proc EXCEPT ![d].pc = "run", ![d].ready = @ /\ ok]
    BY <1>7 DEF StartComm
  <2>2. p.pc = "comm" /\ (p.ready /\ ok) \in BOOLEAN
    BY <1>7 DEF StartComm, pc
  <2>3. ProcessOK(d, [p EXCEPT !.pc = "run", !.ready = p.ready /\ ok])
    BY <1>1, <2>2, CommOK
  <2>4. QED
    BY <1>1, <1>7, <2>1, <2>3, Updated DEF StartComm, DaemonType
<1>8. CASE SysInit(d)
  <2>1. PICK ok \in BOOLEAN, m \in {0, Failed, Opened} :
          /\ shmName' = IF m = 0 THEN shmName ELSE Opened
          /\ proc' = [proc EXCEPT
               ![d].pc = "fork", ![d].idx = 1, ![d].ready = ok, ![d].mapped = m,
               ![d].table = IF @ = <<>> THEN [i \in 1 .. DEF_PROC_NUM |-> DEF_PID]
                                        ELSE @]
    BY <1>8 DEF SysInit
  <2>2. p.pc = "init"
    BY <1>8 DEF SysInit, pc
  <2>3. m \in Numbers \cup {Failed} /\ Opened \in Numbers
    BY OpenedType, SlotsType DEF Numbers
  <2>4. ProcessOK(d, [p EXCEPT
           !.pc = "fork", !.idx = 1, !.ready = ok, !.mapped = m,
           !.table = IF @ = <<>> THEN [i \in 1 .. DEF_PROC_NUM |-> DEF_PID] ELSE @])
    BY <1>1, <2>2, <2>3, InitOK
  <2>5. Goal
    BY <1>1, <2>1, <2>4, Updated
  <2>6. QED
    BY <1>8, <2>1, <2>3, <2>5 DEF SysInit, DaemonType
<1>9. QED
  BY <1>2, <1>3, <1>4, <1>5, <1>6, <1>7, <1>8 DEF Start

(* The signals and ends from outside. *)
LEMMA OutsideType ==
  ASSUME DaemonType, NEW d \in Daemons, Outside(d)
  PROVE  /\ DOMAIN proc' = Daemons /\ \A e \in Daemons : ProcessOK(e, proc'[e])
         /\ pidName' \in Numbers /\ shmName' \in Numbers
<1> DEFINE p == proc[d]
<1>1. ProcessOK(d, p) /\ DOMAIN proc = Daemons
  BY DEF DaemonType
<1>2. CASE Daemonize(d)
  <2>1. pidName' \in Numbers
    BY <1>2, OpenedType, SlotsType DEF Daemonize, Numbers, DaemonType
  <2>2. p.pc \in Early
    BY <1>2 DEF Daemonize, pc, Early
  <2> DEFINE q == [p EXCEPT !.pc = "lock", !.file = pidName']
  <2>3. ProcessOK(d, q)
    BY <1>1, <2>1, <2>2, EarlyOK
  <2>4. proc' = [proc EXCEPT ![d] = q]
    BY <1>1, <1>2 DEF Daemonize
  <2> HIDE DEF q
  <2>5. shmName' \in Numbers
    BY <1>2 DEF Daemonize, DaemonType
  <2>6. QED
    BY <2>1, <2>3, <2>4, <2>5, Updated
<1>3. CASE Fault(d) \/ Crash(d) \/ Hangup(d)
  <2>1. /\ proc' = [proc EXCEPT ![d] = NoProcess]
        /\ pidName' \in Numbers /\ shmName' \in Numbers
    BY <1>3 DEF Fault, Crash, Hangup, Leave, DaemonType
  <2>2. QED
    BY <2>1, NoneOK, Updated
<1>4. CASE Stop(d)
  <2>1. /\ proc' = [proc EXCEPT ![d] = Struck(p)]
        /\ pidName' \in Numbers /\ shmName' \in Numbers
    BY <1>4 DEF Stop, DaemonType
  <2>2. ProcessOK(d, Struck(p))
    BY <1>1, StruckOK
  <2>3. QED
    BY <2>1, <2>2, Updated
<1>5. QED
  BY <1>2, <1>3, <1>4 DEF Outside

(* The steps of the handler. *)
LEMMA HandleType ==
  ASSUME DaemonType, NEW d \in Daemons, Handle(d)
  PROVE  /\ DOMAIN proc' = Daemons /\ \A e \in Daemons : ProcessOK(e, proc'[e])
         /\ pidName' \in Numbers /\ shmName' \in Numbers
<1> DEFINE p == proc[d]
<1>1. ProcessOK(d, p) /\ DOMAIN proc = Daemons /\ 0 \in Numbers
  BY SlotsType DEF DaemonType, Numbers
<1>2. CASE Unlock(d)
  <2>1. /\ proc' = [proc EXCEPT ![d] = [p EXCEPT !.pc = "unlink"]]
        /\ pidName' \in Numbers /\ shmName' \in Numbers
    BY <1>1, <1>2 DEF Unlock, Goto, DaemonType
  <2>2. ProcessOK(d, [p EXCEPT !.pc = "unlink"])
    BY <1>1, HandlerOK
  <2>3. QED
    BY <2>1, <2>2, Updated
<1>3. CASE Unlink(d)
  <2>1. /\ proc' = [proc EXCEPT ![d] = [p EXCEPT !.pc = "kill", !.idx = 1]]
        /\ pidName' \in Numbers /\ shmName' \in Numbers
    BY <1>1, <1>3 DEF Unlink, First, DaemonType
  <2>2. ProcessOK(d, [p EXCEPT !.pc = "kill", !.idx = 1])
    BY <1>1, HandlerOK
  <2>3. QED
    BY <2>1, <2>2, Updated
<1>4. CASE KillProgram(d)
  <2>1. /\ p.pc = "kill" /\ p.idx <= Len(p.table)
        /\ Target(d) = p.table[p.idx]
    BY <1>4 DEF KillProgram, Killing, pc, Target
  <2>2. DOMAIN proc' = Daemons /\ pidName' \in Numbers /\ shmName' \in Numbers
    BY <1>4 DEF KillProgram, DaemonType
  <2>3. ProcessOK(d, proc'[d])
    <3> DEFINE S == Targets(d, d, Target(d))
    <3>1. proc'[d] = [p EXCEPT !.alive = p.alive \ S, !.idx = p.idx + 1]
      BY <1>1, <1>4 DEF KillProgram, ProcessOK, ProcessType
    <3>2. /\ p.table[p.idx] \in {Everyone, Group} => S = p.alive
          /\ p.table[p.idx] \notin {Everyone, Group} => S = {p.table[p.idx]}
      BY <2>1 DEF Targets
    <3> HIDE DEF S
    <3> HIDE DEF p
    <3>3. ProcessOK(d, [p EXCEPT !.alive = p.alive \ S, !.idx = p.idx + 1])
      BY <1>1, <2>1, <3>2, KillOK
    <3>4. QED
      BY <3>1, <3>3
  <2>4. ASSUME NEW e \in Daemons, e # d PROVE ProcessOK(e, proc'[e])
    <3> DEFINE q == [proc[e] EXCEPT !.alive = @ \ Targets(d, e, Target(d))]
    <3>1. ProcessOK(e, q) /\ ProcessOK(e, Struck(q))
      <4>1. ProcessOK(e, proc[e])
        BY DEF DaemonType
      <4>2. ProcessOK(e, q)
        BY <4>1, EndedOK
      <4> HIDE DEF q
      <4>3. QED
        BY <4>2, StruckOK
    <3>2. proc'[e] = IF Target(d) = Everyone THEN Struck(q) ELSE q
      BY <1>4, <2>4 DEF KillProgram
    <3>3. QED
      BY <3>1, <3>2
  <2>5. QED
    BY <2>2, <2>3, <2>4
<1>5. CASE KillsDone(d)
  <2>1. /\ proc' = [proc EXCEPT ![d] = [p EXCEPT !.pc = "free"]]
        /\ pidName' \in Numbers /\ shmName' \in Numbers
        /\ p.pc = "kill" /\ ~ (p.idx <= Len(p.table))
    BY <1>1, <1>5 DEF KillsDone, Killing, Goto, DaemonType, pc
  <2>2. p.idx > Len(p.table)
    BY <1>1, <2>1 DEF ProcessOK, ProcessType
  <2>3. ProcessOK(d, [p EXCEPT !.pc = "free"])
    BY <1>1, <2>1, <2>2, HandlerOK
  <2>4. QED
    BY <2>1, <2>3, Updated
<1>6. CASE FreeServer(d)
  <2>1. /\ \/ proc' = [proc EXCEPT ![d] = [p EXCEPT !.pc = "destroy"]]
           \/ proc' = [proc EXCEPT ![d] = NoProcess]
        /\ pidName' \in Numbers /\ shmName' \in Numbers
        /\ p.pc = "free"
    BY <1>1, <1>6 DEF FreeServer, Goto, Leave, DaemonType, pc
  <2>2. ProcessOK(d, [p EXCEPT !.pc = "destroy"]) /\ ProcessOK(d, NoProcess)
    BY <1>1, <2>1, HandlerOK, NoneOK
  <2>3. QED
    BY <2>1, <2>2, Updated
<1>7. CASE DestroyShms(d)
  <2>1. /\ proc' = [proc EXCEPT ![d] = NoProcess]
        /\ pidName' \in Numbers /\ shmName' \in Numbers
    BY <1>1, <1>7 DEF DestroyShms, Leave, DaemonType
  <2>2. QED
    BY <2>1, NoneOK, Updated
<1>8. QED
  BY <1>2, <1>3, <1>4, <1>5, <1>6, <1>7 DEF Handle

LEMMA FollowType ==
  ASSUME server \in {0} \cup Daemons, Follow
  PROVE  server' \in {0} \cup Daemons
BY DEF Follow

LEMMA TypeStep == DaemonType /\ [Next]_vars => DaemonType'
<1> SUFFICES ASSUME DaemonType, [Next]_vars PROVE DaemonType'
  OBVIOUS
<1> DEFINE Records == /\ DOMAIN proc' = Daemons
                      /\ \A e \in Daemons : ProcessOK(e, proc'[e])
                      /\ pidName' \in Numbers /\ shmName' \in Numbers
<1>1. server \in {0} \cup Daemons
  BY DEF DaemonType
<1>2. ASSUME NEW d \in Daemons, Start(d) \/ Handle(d) \/ Outside(d),
             Remember, Follow
      PROVE  DaemonType'
  <2>1. Records
    BY <1>2, StartType, HandleType, OutsideType
  <2>2. server' \in {0} \cup Daemons
    BY <1>1, <1>2, FollowType
  <2>3. overlap' \in BOOLEAN
    BY <1>2 DEF Remember
  <2>4. QED
    BY <2>1, <2>2, <2>3 DEF DaemonType
<1>3. ASSUME NEW d \in Daemons, Serve(d)
      PROVE  DaemonType'
  <2>1. UNCHANGED lifeVars /\ server' \in {0} \cup Daemons
    BY <1>1, <1>3 DEF Serve, TakePort, Message, Time
  <2>2. QED
    BY <2>1 DEF lifeVars, DaemonType
<1>4. CASE UNCHANGED vars
  BY <1>4 DEF vars, lifeVars, DaemonType
<1>5. QED
  BY <1>2, <1>3, <1>4 DEF Next, Main

-----------------------------------------------------------------------------
(* The lock.                                                               *)

LEMMA RememberCases ==
  ASSUME Remember, ~ overlap'
  PROVE  \/ \A e \in Daemons : proc'[e].pc = "none"
         \/ /\ ~ overlap
            /\ \A d, e \in Daemons : ~ ( /\ proc'[d].pc \in Starting \cup Unhandled
                                         /\ proc'[e].pc \in Ending )
BY DEF Remember

LEMMA LabelParts ==
  /\ Starting = {"init", "fork", "assign", "comm"}
  /\ Unhandled = {"lock", "locked"}
  /\ Handled = {"init", "fork", "assign", "comm", "run"}
  /\ Ending = {"unlink", "kill", "free", "destroy"}
BY DEF Starting, Unhandled, Handled, Ending

(* Nobody but those that end: nothing to say of the lock. *)
LEMMA QuietLock ==
  ASSUME \A e \in Daemons : proc'[e].pc = "none" \/ proc'[e].pc \in Ending
  PROVE  LockInv'
BY LabelParts DEF LockInv, Present, Holds, Up, pc

(* One daemon goes on, and neither begins to hold the lock nor to end. *)
LEMMA LockKept ==
  ASSUME DaemonType, LockInv, ~ overlap, NEW d \in Daemons, NEW q,
         proc' = [proc EXCEPT ![d] = q],
         pidName' = pidName, shmName' = shmName, q.file = proc[d].file,
         \/ q.pc = pc(d)
         \/ pc(d) \in Handled /\ q.pc \in Handled \cup {"unlock"}
         \/ pc(d) = "locked" /\ q.pc = "init"
         \/ pc(d) \in Ending /\ q.pc \in Ending,
         q.pc \in {"fork", "assign", "comm", "run"} /\ q.ready
           => /\ pc(d) \in {"fork", "assign", "comm", "run"}
              /\ proc[d].ready /\ q.mapped = proc[d].mapped
  PROVE  LockInv'
<1>1. \A e \in Daemons : proc'[e] = IF e = d THEN q ELSE proc[e]
  BY DEF DaemonType
<1>2. \A e \in Daemons : /\ Present(e)' => Present(e)
                         /\ Holds(e)' => Holds(e)
                         /\ proc'[e].pc \in Ending => proc[e].pc \in Ending
                         /\ proc'[e].file = proc[e].file
  BY <1>1, LabelParts DEF Present, Holds, Up, pc
<1>3. \A e \in Daemons :
        proc'[e].pc \in {"fork", "assign", "comm", "run"} /\ proc'[e].ready
          => /\ proc[e].pc \in {"fork", "assign", "comm", "run"}
             /\ proc[e].ready /\ proc'[e].mapped = proc[e].mapped
  BY <1>1 DEF pc
<1>4. QED
  BY <1>2, <1>3 DEF LockInv, pc

(* One daemon is gone. *)
LEMMA LockLeft ==
  ASSUME DaemonType, LockInv, ~ overlap, NEW d \in Daemons,
         proc' = [proc EXCEPT ![d] = NoProcess],
         pidName' = pidName, shmName' = shmName
  PROVE  LockInv'
<1>1. \A e \in Daemons : /\ e # d => proc'[e] = proc[e]
                         /\ e = d => proc'[e].pc = "none"
  BY DEF DaemonType, NoProcess
<1>2. \A e \in Daemons : Present(e)' \/ Holds(e)' \/ proc'[e].pc \in Ending => e # d
  BY <1>1, LabelParts DEF Present, Holds, Up, pc
<1>3. \A e \in Daemons : e # d => /\ Present(e)' => Present(e)
                                  /\ Holds(e)' => Holds(e)
  BY <1>1 DEF Present, Holds, Up, pc
<1>4. QED
  BY <1>1, <1>2, <1>3 DEF LockInv, pc

LEMMA StartLock ==
  ASSUME DaemonType, LockInv, ~ overlap, NEW d \in Daemons, Start(d)
  PROVE  LockInv'
<1> DEFINE p == proc[d]
<1>1. DOMAIN proc = Daemons /\ ProcessOK(d, p)
  BY DEF DaemonType
<1>2. CASE LockPidFile(d) /\ Locked(d)
  <2> DEFINE q == [p EXCEPT !.pc = "locked"]
  <2>1. /\ proc' = [proc EXCEPT ![d] = q] /\ pc(d) = "lock"
        /\ pidName' = pidName /\ shmName' = shmName
    BY <1>1, <1>2 DEF LockPidFile, Goto
  <2>2. q.pc = "locked" /\ q.file = p.file
    BY <1>1 DEF ProcessOK, ProcessType
  <2> HIDE DEF q
  <2>3. \A e \in Daemons : proc'[e] = IF e = d THEN q ELSE proc[e]
    BY <1>1, <2>1
  <2>4. \A e \in Daemons : /\ Present(e)' => Present(e)
                           /\ proc'[e].file = proc[e].file
                           /\ proc'[e].pc \in Ending => proc[e].pc \in Ending
                           /\ Holds(e)' => e = d \/ Holds(e)
                           /\ Holds(e) => Present(e)
    BY <2>1, <2>2, <2>3, LabelParts DEF Present, Holds, Up, pc
  <2>5. \A e \in Daemons : Holds(e) => e = d
    <3>1. Present(d)
      BY <2>1, LabelParts DEF Present
    <3>2. \A e \in Daemons : Present(e) => proc[e].file = pidName
      BY DEF LockInv
    <3>3. QED
      BY <1>2, <2>4, <3>1, <3>2 DEF Locked
  <2>6. \A e, g \in Daemons : Holds(e)' /\ Holds(g)' => e = g
    BY <2>4, <2>5
  <2>7. \A e \in Daemons :
          proc'[e].pc \in {"fork", "assign", "comm", "run"} => proc'[e] = proc[e]
    BY <2>2, <2>3
  <2>8. QED
    BY <2>1, <2>4, <2>6, <2>7 DEF LockInv, pc
<1>3. CASE LockPidFile(d) /\ ~ Locked(d)
  BY <1>3, LockLeft DEF LockPidFile, Leave
<1>4. CASE SysInit(d)
  <2>1. PICK ok \in BOOLEAN, m \in {0, Failed, Opened} :
          /\ ok => m # 0
          /\ shmName' = IF m = 0 THEN shmName ELSE Opened
          /\ proc' = [proc EXCEPT
               ![d].pc = "fork", ![d].idx = 1, ![d].ready = ok, ![d].mapped = m,
               ![d].table = IF @ = <<>> THEN [i \in 1 .. DEF_PROC_NUM |-> DEF_PID]
                                        ELSE @]
    BY <1>4 DEF SysInit
  <2> DEFINE q == [p EXCEPT
           !.pc = "fork", !.idx = 1, !.ready = ok, !.mapped = m,
           !.table = IF @ = <<>> THEN [i \in 1 .. DEF_PROC_NUM |-> DEF_PID] ELSE @]
  <2>2. proc' = [proc EXCEPT ![d] = q] /\ pc(d) = "init" /\ pidName' = pidName
    BY <1>1, <1>4, <2>1 DEF SysInit
  <2>3. q.pc = "fork" /\ q.ready = ok /\ q.mapped = m /\ q.file = p.file
    BY <1>1 DEF ProcessOK, ProcessType
  <2> HIDE DEF q
  <2>4. \A e \in Daemons : proc'[e] = IF e = d THEN q ELSE proc[e]
    BY <1>1, <2>2
  <2>5. \A e \in Daemons : /\ Present(e)' => Present(e)
                           /\ proc'[e].file = proc[e].file
                           /\ proc'[e].pc \in Ending => proc[e].pc \in Ending
                           /\ Holds(e)' => Holds(e)
    BY <2>2, <2>3, <2>4, LabelParts DEF Present, Holds, Up, pc
  <2>6. \A e \in Daemons :
          proc'[e].pc \in {"fork", "assign", "comm", "run"} => e = d
    <3>1. Holds(d)
      BY <2>2, LabelParts DEF Holds, Up
    <3>2. \A e \in Daemons : Holds(e) => e = d
      BY <3>1 DEF LockInv
    <3>3. \A e \in Daemons :
            proc'[e].pc \in {"fork", "assign", "comm", "run"} => Holds(e)'
      BY LabelParts DEF Holds, Up, pc
    <3>4. QED
      BY <2>5, <3>2, <3>3
  <2>7. ok => m \in {shmName', Failed} /\ shmName' # 0
    BY <2>1, OpenedType, SlotsType
  <2>8. \A e \in Daemons :
          proc'[e].pc \in {"fork", "assign", "comm", "run"} /\ proc'[e].ready
            => proc'[e].mapped \in {shmName', Failed} /\ shmName' # 0
    BY <2>3, <2>4, <2>6, <2>7
  <2>9. QED
    BY <2>2, <2>5, <2>8 DEF LockInv, pc
<1>5. ASSUME \/ ReadConf(d) \/ ForkProgram(d) \/ ForkFails(d)
             \/ EnterProgram(d) \/ StartComm(d)
      PROVE  LockInv'
  <2> DEFINE q == proc'[d]
  <2>1. /\ proc' = [proc EXCEPT ![d] = q]
        /\ pidName' = pidName /\ shmName' = shmName
    BY <1>1, <1>5 DEF ReadConf, ForkProgram, ForkFails, EnterProgram, StartComm
  <2>2. /\ q.file = p.file /\ q.mapped = p.mapped
        /\ \/ pc(d) \in Handled /\ q.pc \in Handled \cup {"unlock"}
           \/ pc(d) = "locked" /\ q.pc = "init"
    BY <1>1, <1>5, LabelParts
    DEF ReadConf, ForkProgram, ForkFails, EnterProgram, StartComm, pc,
        ProcessOK, ProcessType
  <2>3. q.pc \in {"fork", "assign", "comm", "run"} /\ q.ready
          => pc(d) \in {"fork", "assign", "comm", "run"} /\ p.ready
    BY <1>1, <1>5
    DEF ReadConf, ForkProgram, ForkFails, EnterProgram, StartComm, pc,
        ProcessOK, ProcessType
  <2> HIDE DEF q
  <2>4. QED
    BY <2>1, <2>2, <2>3, LockKept
<1>6. QED
  BY <1>2, <1>3, <1>4, <1>5 DEF Start

LEMMA HandleLock ==
  ASSUME DaemonType, LockInv, ~ overlap, NEW d \in Daemons, Handle(d),
         \A e, g \in Daemons : ~ ( /\ proc'[e].pc \in Starting \cup Unhandled
                                   /\ proc'[g].pc \in Ending )
  PROVE  LockInv'
<1>1. \A e \in Daemons : proc[e].pc \in Labels
  BY DEF DaemonType, ProcessOK, ProcessType
<1>2. CASE Unlock(d)
  <2>1. /\ pc(d) = "unlock" /\ DOMAIN proc = Daemons
        /\ proc' = [proc EXCEPT ![d] = [proc[d] EXCEPT !.pc = "unlink"]]
    BY <1>2 DEF Unlock, Goto, DaemonType
  <2>2. proc'[d].pc = "unlink" /\ \A e \in Daemons : e # d => proc'[e] = proc[e]
    BY <2>1 DEF DaemonType, ProcessOK, ProcessType
  <2>3. \A e \in Daemons : proc'[e].pc \notin Starting \cup Unhandled
    BY <2>2, LabelParts
  <2>4. \A e \in Daemons : Holds(e) => e = d
    BY <2>1 DEF LockInv, Holds
  <2>5. ASSUME NEW e \in Daemons PROVE proc'[e].pc = "none" \/ proc'[e].pc \in Ending
    <3>1. CASE e = d
      BY <2>2, <3>1, LabelParts
    <3>2. CASE e # d
      <4>1. proc[e].pc \notin {"run", "unlock"}
        BY <2>4, <3>2, LabelParts DEF Holds, Up, pc
      <4>2. proc[e].pc \notin Starting \cup Unhandled
        BY <2>2, <2>3, <3>2
      <4>3. QED
        BY <1>1, <2>2, <3>2, <4>1, <4>2, LabelKinds, LabelParts
    <3>3. QED
      BY <3>1, <3>2
  <2>6. QED
    BY <2>5, QuietLock
<1>3. CASE ~ Unlock(d)
  <2>1. pc(d) \in Ending
    BY <1>3, LabelParts
    DEF Handle, Unlink, KillProgram, Killing, KillsDone, FreeServer,
      DestroyShms
  <2>2. \A e \in Daemons : proc[e].pc = "none" \/ proc[e].pc \in Ending
    BY <2>1 DEF LockInv, Present, pc
  <2>3. \A e \in Daemons : proc'[e].pc = "none" \/ proc'[e].pc \in Ending
    <3>1. CASE KillProgram(d)
      <4>1. ASSUME NEW e \in Daemons
            PROVE  proc'[e].pc = "none" \/ proc'[e].pc \in Ending
        <5> DEFINE q == [proc[e] EXCEPT !.alive = @ \ Targets(d, e, Target(d))]
                   r == [q EXCEPT !.idx = @ + 1]
        <5>1. DOMAIN proc[e] = {"pc", "idx", "table", "ready", "file", "mapped", "alive"}
          BY DEF DaemonType, ProcessOK, ProcessType
        <5>2. DOMAIN q = DOMAIN proc[e] /\ q.pc = proc[e].pc /\ r.pc = proc[e].pc
          BY <5>1
        <5>3. proc'[e] \in {q, r, Struck(q)}
          BY <3>1 DEF KillProgram
        <5> HIDE DEF q, r
        <5>4. q.pc = "none" \/ q.pc \in Ending
          BY <2>2, <5>2
        <5>5. Struck(q).pc = "none" \/ Struck(q).pc \in Ending
          <6>1. CASE q.pc \in Ending
            <7>1. Struck(q) = [q EXCEPT !.pc = "unlink"]
              BY <6>1, LabelParts DEF Struck
            <7>2. QED
              BY <7>1, <5>1, <5>2, LabelParts
          <6>2. CASE q.pc = "none"
            <7>1. Struck(q) = q
              BY <6>2, LabelParts DEF Struck
            <7>2. QED
              BY <7>1, <6>2
          <6>3. QED
            BY <5>4, <6>1, <6>2
        <5>6. QED
          BY <2>2, <5>2, <5>3, <5>4, <5>5
      <4>2. QED
        BY <4>1
    <3>2. CASE ~ KillProgram(d)
      <4>1. PICK l \in Ending \cup {"none"} :
              /\ proc'[d].pc = l
              /\ \A e \in Daemons : e # d => proc'[e] = proc[e]
        BY <1>3, <3>2, LabelParts
        DEF Handle, Unlink, KillsDone, FreeServer, DestroyShms, Goto, Leave,
            NoProcess, DaemonType, ProcessOK, ProcessType
      <4>2. QED
        BY <2>2, <4>1
    <3>3. QED
      BY <3>1, <3>2
  <2>4. QED
    BY <2>3, QuietLock
<1>4. QED
  BY <1>2, <1>3

LEMMA OutsideLock ==
  ASSUME DaemonType, LockInv, ~ overlap, NEW d \in Daemons, Outside(d),
         \A e, g \in Daemons : ~ ( /\ proc'[e].pc \in Starting \cup Unhandled
                                   /\ proc'[g].pc \in Ending )
  PROVE  LockInv'
<1> DEFINE p == proc[d]
<1>1. DOMAIN proc = Daemons /\ ProcessOK(d, p)
  BY DEF DaemonType
<1>2. CASE Daemonize(d)
  <2> DEFINE q == [p EXCEPT !.pc = "lock", !.file = pidName']
  <2>1. /\ proc' = [proc EXCEPT ![d] = q] /\ pc(d) = "none" /\ shmName' = shmName
        /\ pidName # 0 => pidName' = pidName
    BY <1>1, <1>2 DEF Daemonize
  <2>2. pidName' # 0
    BY <1>2, OpenedType, SlotsType DEF Daemonize
  <2>3. q.pc = "lock" /\ q.file = pidName'
    BY <1>1 DEF ProcessOK, ProcessType
  <2> HIDE DEF q
  <2>4. \A e \in Daemons : proc'[e] = IF e = d THEN q ELSE proc[e]
    BY <1>1, <2>1
  <2>5. \A e \in Daemons : /\ Present(e)' => e = d \/ Present(e)
                           /\ Holds(e)' => Holds(e)
                           /\ proc'[e].pc \in Ending => proc[e].pc \in Ending /\ e # d
    BY <2>1, <2>3, <2>4, LabelParts DEF Present, Holds, Up, pc
  <2>6. \A e \in Daemons : Present(e)' => proc'[e].file = pidName'
    BY <2>1, <2>3, <2>4, <2>5 DEF LockInv
  <2>7. \A e, g \in Daemons : ~ (Present(e)' /\ proc'[g].pc \in Ending)
    <3>1. \A g \in Daemons : proc'[g].pc \notin Ending
      BY <2>3, <2>4, LabelParts
    <3>2. QED
      BY <3>1
  <2>8. \A e \in Daemons :
          proc'[e].pc \in {"fork", "assign", "comm", "run"} => proc'[e] = proc[e]
    BY <2>3, <2>4
  <2>9. QED
    BY <2>1, <2>2, <2>5, <2>6, <2>7, <2>8 DEF LockInv, pc
<1>3. CASE Fault(d) \/ Crash(d) \/ Hangup(d)
  BY <1>3, LockLeft DEF Fault, Crash, Hangup, Leave
<1>4. CASE Stop(d)
  <2> DEFINE q == Struck(p)
  <2>1. /\ proc' = [proc EXCEPT ![d] = q]
        /\ pidName' = pidName /\ shmName' = shmName
    BY <1>4 DEF Stop
  <2>2. CASE p.pc \in Handled
    <3>1. Struck(p) = [p EXCEPT !.pc = "unlock"]
      BY <2>2, LabelParts DEF Struck
    <3>2. /\ q.pc = "unlock" /\ q.file = p.file /\ pc(d) \in Handled
          /\ q.pc \in Handled \cup {"unlock"}
          /\ q.pc \notin {"fork", "assign", "comm", "run"}
      BY <1>1, <2>2, <3>1 DEF ProcessOK, ProcessType, pc
    <3> HIDE DEF q
    <3>3. QED
      BY <2>1, <3>2, LockKept
  <2>3. CASE p.pc \in Ending
    <3>1. Struck(p) = [p EXCEPT !.pc = "unlink"]
      BY <2>3, LabelParts DEF Struck
    <3>2. /\ q.pc = "unlink" /\ q.file = p.file /\ pc(d) \in Ending
          /\ q.pc \in Ending /\ q.pc \notin {"fork", "assign", "comm", "run"}
      BY <1>1, <2>3, <3>1, LabelParts DEF ProcessOK, ProcessType, pc
    <3> HIDE DEF q
    <3>3. QED
      BY <2>1, <3>2, LockKept
  <2>4. CASE p.pc \in Unhandled
    <3>1. Struck(p) = NoProcess
      BY <2>4, LabelParts DEF Struck
    <3>2. QED
      BY <2>1, <3>1, LockLeft
  <2>5. CASE p.pc \notin Handled \cup Ending \cup Unhandled
    <3>1. Struck(p) = p
      BY <2>5 DEF Struck
    <3>2. \A e \in Daemons : proc'[e] = proc[e]
      BY <1>1, <2>1, <3>1
    <3>3. QED
      BY <2>1, <3>2 DEF LockInv, Present, Holds, Up, pc
  <2>6. QED
    BY <2>2, <2>3, <2>4, <2>5
<1>5. QED
  BY <1>2, <1>3, <1>4 DEF Outside

LEMMA LockStep ==
  ASSUME DaemonType, LockInv, [Next]_vars
  PROVE  LockInv'
<1>1. ASSUME NEW d \in Daemons, Start(d) \/ Handle(d) \/ Outside(d), Remember
      PROVE  LockInv'
  <2>1. CASE overlap'
    BY <2>1 DEF LockInv
  <2>2. CASE \A e \in Daemons : proc'[e].pc = "none"
    BY <2>2, QuietLock
  <2>3. CASE /\ ~ overlap
             /\ \A e, g \in Daemons : ~ ( /\ proc'[e].pc \in Starting \cup Unhandled
                                          /\ proc'[g].pc \in Ending )
    BY <1>1, <2>3, StartLock, HandleLock, OutsideLock
  <2>4. QED
    BY <1>1, <2>1, <2>2, <2>3, RememberCases
<1>2. ASSUME UNCHANGED lifeVars
      PROVE  LockInv'
  BY <1>2 DEF lifeVars, LockInv, Present, Holds, Up, pc
<1>3. \A d \in Daemons : Serve(d) => UNCHANGED lifeVars
  BY DEF Serve, TakePort, Message, Time
<1>4. QED
  BY <1>1, <1>2, <1>3 DEF Next, Main, vars

-----------------------------------------------------------------------------
(* The server.                                                             *)

(* A daemon that runs before and after a step keeps its mapping.           *)
LEMMA RunsOn ==
  ASSUME DaemonType, NEW d \in Daemons, Start(d) \/ Handle(d) \/ Outside(d),
         NEW e \in Daemons, proc[e].pc = "run", proc'[e].pc = "run"
  PROVE  proc'[e].mapped = proc[e].mapped /\ proc'[e].ready = proc[e].ready
<1>1. /\ DOMAIN proc = Daemons
      /\ DOMAIN proc[e] = {"pc", "idx", "table", "ready", "file", "mapped", "alive"}
  BY DEF DaemonType, ProcessOK, ProcessType
<1>2. CASE d = e
  <2>1. Struck(proc[e]) = [proc[e] EXCEPT !.pc = "unlock"]
    BY LabelParts DEF Struck
  <2>2. Struck(proc[e]).pc # "run"
    BY <1>1, <2>1
  <2>3. CASE Start(d) \/ Handle(d)
    BY <1>2, <2>3
    DEF Start, LockPidFile, ReadConf, SysInit, ForkProgram, ForkFails,
        EnterProgram, StartComm, Handle, Unlock, Unlink, KillProgram, Killing,
        KillsDone, FreeServer, DestroyShms, pc
  <2>4. CASE Outside(d)
    BY <1>1, <1>2, <2>2, <2>4
    DEF Outside, Daemonize, Fault, Crash, Stop, Hangup, Leave, NoProcess, pc
  <2>5. QED
    BY <2>3, <2>4
<1>3. CASE d # e /\ ~ KillProgram(d)
  <2>1. proc'[e] = proc[e]
    BY <1>1, <1>3
    DEF Start, LockPidFile, ReadConf, SysInit, ForkProgram, ForkFails,
        EnterProgram, StartComm, Handle, Unlock, Unlink, KillsDone, FreeServer,
        DestroyShms, Outside, Daemonize, Fault, Crash, Stop, Hangup, Leave, Goto
  <2>2. QED
    BY <2>1
<1>4. CASE d # e /\ KillProgram(d)
  <2> DEFINE q == [proc[e] EXCEPT !.alive = @ \ Targets(d, e, Target(d))]
  <2>1. q.pc = "run" /\ q.mapped = proc[e].mapped /\ q.ready = proc[e].ready
        /\ DOMAIN q = DOMAIN proc[e]
    BY <1>1
  <2>2. proc'[e] = q \/ proc'[e] = Struck(q)
    BY <1>4 DEF KillProgram
  <2> HIDE DEF q
  <2>3. Struck(q) = [q EXCEPT !.pc = "unlock"]
    BY <2>1, LabelParts DEF Struck
  <2>4. Struck(q).pc # "run"
    BY <1>1, <2>1, <2>3
  <2>5. QED
    BY <2>1, <2>2, <2>4
<1>5. QED
  BY <1>2, <1>3, <1>4

LEMMA ServerStep ==
  ASSUME DaemonType, ServerInv, [Next]_vars
  PROVE  ServerInv'
<1>1. server = 0 \/ server \in Daemons
  BY DEF DaemonType
<1>2. 0 \notin Daemons
  BY DEF Daemons
<1>3. ASSUME NEW d \in Daemons, Start(d) \/ Handle(d) \/ Outside(d), Follow
      PROVE  ServerInv'
  <2>1. CASE server' = 0 /\ Marked
    BY <2>1 DEF Marked, ServerInv
  <2>2. CASE server = 0 /\ UNCHANGED <<server, reportVars>>
    BY <2>2 DEF reportVars, ServerInv
  <2>3. CASE /\ server # 0 /\ proc'[server].pc = "run"
             /\ UNCHANGED <<server, reportVars>>
    <3>1. proc[server].pc = "run"
      BY <2>3 DEF ServerInv, pc
    <3>2. /\ proc'[server].mapped = proc[server].mapped
          /\ proc'[server].ready = proc[server].ready
      BY <1>1, <1>3, <2>3, <3>1, RunsOn
    <3>3. QED
      BY <2>3, <3>2 DEF reportVars, ServerInv, pc
  <2>4. QED
    BY <1>3, <2>1, <2>2, <2>3 DEF Follow
<1>4. ASSUME NEW d \in Daemons, Serve(d)
      PROVE  ServerInv'
  <2>1. CASE TakePort(d)
    BY <1>2, <2>1 DEF TakePort, ServerInv, lifeVars, reportVars, pc
  <2>2. CASE Message(d)
    BY <1>2, <2>2 DEF Message, ServerInv, lifeVars, pc
  <2>3. CASE Time(d)
    BY <1>2, <2>3 DEF Time, Tick, SetTime, ServerInv, lifeVars, pc
  <2>4. QED
    BY <1>4, <2>1, <2>2, <2>3 DEF Serve
<1>5. CASE UNCHANGED vars
  BY <1>5 DEF vars, lifeVars, reportVars, ServerInv, pc
<1>6. QED
  BY <1>3, <1>4, <1>5 DEF Next, Main

-----------------------------------------------------------------------------
(* The report.                                                             *)

(* Counting modulo W. *)
LEMMA Mod ==
  ASSUME NEW n \in Nat, NEW a \in Int, n > 0
  PROVE  a % n \in 0 .. n - 1 /\ (a >= 0 /\ a < n => a % n = a)
OBVIOUS

LEMMA ReportConstants ==
  /\ W \in Nat /\ Minute \in Nat /\ RPT_SYS_INFO_PERIOD \in Nat
  /\ RPT_SYS_INFO_PERIOD < Minute /\ Minute < W /\ W > 0 /\ MaxFaults \in Nat
BY HisiReportAssumption

(* What a message adds. *)
LEMMA IntervalOK ==
  ASSUME TypeOKReport, ReportInv
  PROVE  /\ Interval \in 0 .. W - 1
         /\ marked => Interval = 0
         /\ ~ marked /\ ~ odd /\ gap > 0 /\ age <= RPT_SYS_INFO_PERIOD
              => Interval = interval + gap /\ age = Interval
<1>1. /\ interval \in 0 .. W - 1 /\ gap \in Int
      /\ age \in Int
  BY ReportConstants DEF TypeOKReport
<1>2. TIME_SEC_DIFF \in Int /\ (gap > 0 => TIME_SEC_DIFF = gap)
  BY <1>1, Mod, ReportConstants DEF TIME_SEC_DIFF
<1>3. /\ (interval + TIME_SEC_DIFF) % W \in 0 .. W - 1
      /\ interval + TIME_SEC_DIFF >= 0 /\ interval + TIME_SEC_DIFF < W
           => (interval + TIME_SEC_DIFF) % W = interval + TIME_SEC_DIFF
  BY <1>1, <1>2, Mod, ReportConstants
<1>4. Interval = IF marked THEN 0 ELSE (interval + TIME_SEC_DIFF) % W
  BY DEF Interval
<1>5. ASSUME ~ marked, ~ odd, gap > 0, age <= RPT_SYS_INFO_PERIOD
      PROVE  Interval = interval + gap /\ age = Interval
  <2>1. age = interval + gap
    BY <1>1, <1>5, ReportConstants DEF ReportInv
  <2>2. interval + TIME_SEC_DIFF = age /\ age >= 0 /\ age < W
    BY <1>1, <1>2, <1>5, <2>1, ReportConstants
  <2>3. QED
    BY <1>3, <1>4, <1>5, <2>1, <2>2
<1>6. QED
  BY <1>3, <1>4, <1>5, ReportConstants

(* A new interval is of its types. *)
LEMMA FreshOK ==
  /\ 0 \in Int /\ 0 < W /\ 0 \in 0 .. W - 1 /\ 0 \in 0 .. MaxFaults
  /\ 0 \in 0 .. RPT_SYS_INFO_PERIOD + 1
  /\ TRUE \in BOOLEAN /\ FALSE \in BOOLEAN
BY ReportConstants

LEMMA InitReportOK == InitReport => TypeOKReport /\ ReportInv
<1> SUFFICES ASSUME InitReport PROVE TypeOKReport /\ ReportInv
  OBVIOUS
<1>1. TypeOKReport
  BY FreshOK, Zenon DEF InitReport, TypeOKReport
<1>2. marked /\ interval = 0 /\ gap = 0 /\ age = 0
  BY DEF InitReport
<1>3. QED
  BY <1>1, <1>2 DEF ReportInv

LEMMA MarkedOK ==
  ASSUME Marked, faults' \in 0 .. MaxFaults
  PROVE  TypeOKReport' /\ ReportInv'
<1>1. TypeOKReport'
  BY FreshOK, Zenon DEF Marked, TypeOKReport
<1>2. marked' /\ interval' = 0 /\ gap' = 0 /\ age' = 0
  BY DEF Marked
<1>3. QED
  BY <1>1, <1>2 DEF ReportInv

LEMMA MessageOK ==
  ASSUME TypeOKReport, ReportInv,
         RefreshCounts \/ ReadingFails \/ RefreshReports
  PROVE  TypeOKReport' /\ ReportInv'
<1>1. faults' \in 0 .. MaxFaults
  BY ReportConstants
  DEF RefreshCounts, ReadingFails, RefreshReports, TypeOKReport
<1>2. CASE RefreshReports
  BY <1>1, <1>2, MarkedOK DEF RefreshReports
<1>3. CASE Counted /\ age' = age
  <2>1. /\ marked' = FALSE /\ gap' = 0 /\ interval' = Interval /\ age' = age
        /\ odd' = (~ marked /\ (odd \/ gap <= 0))
    BY <1>3 DEF Counted
  <2>2. /\ marked \in BOOLEAN /\ odd \in BOOLEAN /\ gap \in Int
        /\ age \in 0 .. RPT_SYS_INFO_PERIOD + 1
    BY DEF TypeOKReport
  <2>3. TypeOKReport'
    <3>1. interval' \in 0 .. W - 1 /\ gap' \in Int /\ gap' < W
      BY <2>1, IntervalOK, ReportConstants
    <3>2. marked' \in BOOLEAN /\ odd' \in BOOLEAN
      BY <2>1, <2>2
    <3>3. age' \in 0 .. RPT_SYS_INFO_PERIOD + 1
      BY <2>1, <2>2
    <3>4. QED
      BY <1>1, <3>1, <3>2, <3>3 DEF TypeOKReport
  <2>4. ASSUME ~ odd', ~ (age > RPT_SYS_INFO_PERIOD)
        PROVE  age = Interval
    <3>1. CASE marked
      <4>1. age = 0
        BY <3>1 DEF ReportInv
      <4>2. Interval = 0
        BY <3>1, IntervalOK
      <4>3. QED
        BY <4>1, <4>2
    <3>2. CASE ~ marked
      <4>1. ~ odd /\ ~ (gap <= 0)
        BY <2>1, <2>4, <3>2, Zenon
      <4>2. gap > 0 /\ age <= RPT_SYS_INFO_PERIOD
        BY <2>2, <2>4, <4>1, ReportConstants
      <4>3. QED
        BY <3>2, <4>1, <4>2, IntervalOK
    <3>3. QED
      BY <3>1, <3>2
  <2>5. Interval \in Int
    BY IntervalOK
  <2>6. ReportInv'
    BY <2>1, <2>2, <2>4, <2>5, ReportConstants DEF ReportInv
  <2>7. QED
    BY <2>3, <2>6
<1>4. QED
  BY <1>2, <1>3 DEF RefreshCounts, ReadingFails

LEMMA TimeOK ==
  ASSUME TypeOKReport, ReportInv, Tick \/ SetTime
  PROVE  TypeOKReport' /\ ReportInv'
<1>1. CASE Tick
  <2>1. TypeOKReport'
    BY <1>1, ReportConstants DEF Tick, TypeOKReport
  <2>2. ReportInv'
    BY <1>1, ReportConstants DEF Tick, ReportInv, TypeOKReport
  <2>3. QED
    BY <2>1, <2>2
<1>2. CASE SetTime
  <2>1. gap' \in Int /\ gap' < W
    BY <1>2, HisiReportAssumption DEF SetTime
  <2>2. TypeOKReport'
    BY <1>2, <2>1, ReportConstants DEF SetTime, TypeOKReport
  <2>3. ReportInv'
    BY <1>2 DEF SetTime, ReportInv
  <2>4. QED
    BY <2>2, <2>3
<1>3. QED
  BY <1>1, <1>2

LEMMA ReportStep ==
  ASSUME TypeOKReport, ReportInv, [Next]_vars
  PROVE  TypeOKReport' /\ ReportInv'
<1>1. CASE UNCHANGED reportVars
  BY <1>1 DEF reportVars, TypeOKReport, ReportInv
<1>2. CASE Marked /\ faults' = 0
  BY <1>2, MarkedOK, ReportConstants
<1>3. CASE RefreshCounts \/ ReadingFails \/ RefreshReports
  BY <1>3, MessageOK
<1>4. CASE Tick \/ SetTime
  BY <1>4, TimeOK
<1>5. QED
  BY <1>1, <1>2, <1>3, <1>4
  DEF Next, Main, Serve, TakePort, Message, Time, Follow, vars, reportVars

-----------------------------------------------------------------------------
(* The theorems.                                                           *)

LEMMA InitInv == Init => IInv
<1> SUFFICES ASSUME Init PROVE IInv
  OBVIOUS
<1>1. 0 \in Numbers
  BY SlotsType DEF Numbers
<1>2. \A d \in Daemons : proc[d] = NoProcess /\ proc[d].pc = "none"
  BY DEF Init, NoProcess
<1>3. DaemonType
  BY <1>1, <1>2, NoneOK DEF Init, DaemonType
<1>4. LockInv
  BY <1>2, LabelParts DEF LockInv, Present, Holds, Up, pc
<1>5. ServerInv
  BY DEF Init, InitReport, ServerInv
<1>6. QED
  BY <1>3, <1>4, <1>5, InitReportOK DEF Init, IInv

LEMMA InvStep == IInv /\ [Next]_vars => IInv'
BY TypeStep, LockStep, ServerStep, ReportStep DEF IInv

LEMMA Invariant == Spec => []IInv
BY InitInv, InvStep, PTL DEF Spec

(* TypeOK holds: the variables of the daemons and of the report stay in    *)
(* their types.                                                            *)
THEOREM TypeCorrect == Spec => []TypeOK
<1>1. IInv => TypeOK
  <2> SUFFICES ASSUME IInv PROVE TypeOK
    OBVIOUS
  <2>1. ASSUME NEW d \in Daemons
        PROVE  /\ pc(d) \in {"none", "unlock"} \cup Unhandled \cup Handled \cup Ending
               /\ proc[d].idx \in 0 .. Len(proc[d].table) + 1
               /\ \A i \in DOMAIN proc[d].table :
                    proc[d].table[i] \in {Everyone, Group, DEF_PID, Pid(d, i)}
               /\ proc[d].ready \in BOOLEAN
               /\ proc[d].file \in 0 .. Slots + 1
               /\ proc[d].mapped \in Failed .. Slots + 1
               /\ proc[d].alive \subseteq {Pid(d, i) : i \in DOMAIN proc[d].table}
    <3>1. ProcessType(d, proc[d])
      BY DEF IInv, DaemonType, ProcessOK
    <3>2. DOMAIN proc[d].table = 1 .. Len(proc[d].table)
      BY <3>1, LenProperties DEF ProcessType
    <3>3. QED
      BY <3>1, <3>2, SlotsType DEF ProcessType, Labels, Numbers, Failed, pc
  <2>2. QED
    BY <2>1 DEF IInv, DaemonType, TypeOK, Numbers
<1>2. QED
  BY <1>1, Invariant, PTL

(* OneDaemon holds: as long as none has started while another one was in   *)
(* the rest of its handler, the lock on the pid file (daemonize) keeps all *)
(* daemons but one out.                                                    *)
THEOREM OneDaemonOnly == Spec => []OneDaemon
<1>1. IInv => OneDaemon
  BY DEF IInv, LockInv, OneDaemon, Holds
<1>2. QED
  BY <1>1, Invariant, PTL

(* MemoryShared holds: the memory a serving daemon has mapped is the one   *)
(* its programs open by the name, or its mapping has failed and createShms *)
(* has not noticed; what it has told the BBB (getAPCinfo) comes from there.*)
THEOREM MemoryIsShared == Spec => []MemoryShared
<1>1. IInv => MemoryShared
  BY DEF IInv, LockInv, ServerInv, MemoryShared, Daemons, pc
<1>2. QED
  BY <1>1, Invariant, PTL

(* NoneLeft holds: the loop of handle_signal reaches all programs of its   *)
(* daemon but one started and not yet entered in a default table.          *)
THEOREM NoneIsLeft == Spec => []NoneLeft
<1>1. IInv => NoneLeft
  <2> SUFFICES ASSUME IInv, NEW d \in Daemons,
                      pc(d) \in {"free", "destroy"}, proc[d].alive # {}
               PROVE  \E i \in DOMAIN proc[d].table :
                        /\ proc[d].table[i] = DEF_PID
                        /\ proc[d].alive = {Pid(d, i)}
    BY DEF NoneLeft
  <2> DEFINE p == proc[d]
  <2>1. ProcessType(d, p) /\ TableInv(d, p)
    BY DEF IInv, DaemonType, ProcessOK
  <2>2. DOMAIN p.table = 1 .. Len(p.table) /\ Len(p.table) \in Nat
    BY <2>1, LenProperties DEF ProcessType
  <2>3. \A x \in p.alive : \E i \in 1 .. Len(p.table) : x = Pid(d, i)
    BY <2>1 DEF ProcessType
  <2>4. PICK i \in 1 .. Len(p.table) : Pid(d, i) \in p.alive
    BY <2>3
  <2>5. \A j \in Int : Runs(d, p, j) => p.table[j] = DEF_PID /\ ~ Entry(d, p, j)
    BY <2>1 DEF TableInv, pc
  <2>6. Runs(d, p, i) /\ i \in Int
    BY <2>4 DEF Runs
  <2>7. \A j \in Int : Runs(d, p, j) => j = i
    BY <2>1, <2>5, <2>6 DEF TableInv
  <2>8. p.alive = {Pid(d, i)}
    BY <2>2, <2>3, <2>4, <2>7 DEF Runs
  <2>9. QED
    BY <2>2, <2>4, <2>5, <2>6, <2>8
<1>2. QED
  BY <1>1, Invariant, PTL

(* PeriodKept holds: refreshInfoToBBB reports early only if some message   *)
(* did not see a later second than the one before, or the clock was set.   *)
THEOREM PeriodIsKept == Spec => PeriodKept
<1>1. ASSUME IInv, [Next]_vars
      PROVE  [~ marked /\ marked' /\ server' # 0
                => odd \/ gap <= 0 \/ age > RPT_SYS_INFO_PERIOD]_vars
  <2> SUFFICES ASSUME ~ marked, marked', server' # 0, ~ odd, ~ (gap <= 0),
                      ~ (age > RPT_SYS_INFO_PERIOD)
               PROVE  FALSE
    OBVIOUS
  <2>1. TypeOKReport /\ ReportInv
    BY <1>1 DEF IInv
  <2>2. gap \in Int /\ age \in Int
    BY <2>1, ReportConstants DEF TypeOKReport
  <2>3. gap > 0 /\ age <= RPT_SYS_INFO_PERIOD
    BY <2>2, ReportConstants
  <2>4. age = Interval
    BY <2>1, <2>3, IntervalOK
  <2>5. ~ Due
    BY <2>2, <2>3, <2>4, ReportConstants DEF Due
  <2>6. QED
    BY <1>1, <2>5
    DEF Next, Main, Serve, TakePort, Message, Time, Follow, vars, reportVars,
        RefreshCounts, ReadingFails, RefreshReports, Counted, Tick, SetTime
<1>2. QED
  BY <1>1, Invariant, PTL DEF Spec, PeriodKept

=============================================================================
