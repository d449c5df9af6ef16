----------------------------- MODULE HisiDaemon -----------------------------
(***************************************************************************)
(* The life of the HISI daemon (smb-HISI/src: daemon.c, apps.c, info.c):   *)
(* started with a pid file, by forking-daemon.service or by hand, it locks *)
(* the pid file, reads its configuration, creates the shared memories,     *)
(* starts its programs and serves the BBB; a signal ends it.  Several      *)
(* daemons may be started, one after the other or before the last one has  *)
(* ended, and a signal may come between any two steps.                     *)
(*                                                                         *)
(* The memories of APC, Venc and Live stand for one: only the first is     *)
(* used.  Programs end by SIGTERM only and are not followed any longer     *)
(* than their daemon; process ids, files and memories are numbered anew    *)
(* once nobody has them.  A signal a daemon sends to its own group has its *)
(* handler repeat what is done; that is left out.                          *)
(***************************************************************************)
EXTENDS HisiReport, Sequences, FiniteSets

CONSTANTS
  Slots,         \* bound: daemons that are there at the same time
  DEF_PROC_NUM,  \* programs of the default table, 3 in the code
  ConfFiles      \* daemon.conf, as the sequence of the kinds of its lines

LineKinds == {"MAGIC NUMBER", "PROCs:", "deadbeef", "number", "text",
              "spaces", "empty", "too long"}

ASSUME HisiDaemonAssumption ==
  /\ Slots \in 1 .. 60
  /\ DEF_PROC_NUM \in 1 .. 32
  /\ \A f \in ConfFiles : f \in Seq(LineKinds)

VARIABLES
  proc,     \* the daemons, each a record, pc "none" where there is none:
            \*   pc: what it does next
            \*   idx: iProc of startProcs and of the handler
            \*   table: procInfo, the procPID of each program
            \*   ready: sysInit and startInterCPUComm have succeeded
            \*   file: the pid file it has opened
            \*   mapped: the memory pShmAPC points to, 0: NULL, or Failed
            \*   alive: its programs that run
  pidName,  \* the file under the name pid_file_name, 0: none
  shmName,  \* the memory under the name /APCInfo, 0: none
  server,   \* the daemon whose comm thread has the Modbus port, 0: none
  overlap   \* history: a daemon has started while another one was ending,
            \* and there has been one since

lifeVars == <<proc, pidName, shmName, overlap>>
vars     == <<lifeVars, server, reportVars>>

Daemons  == 1 .. Slots
DEF_PID  == 6789
Everyone == -1            \* kill(-1): every process there is
Group    == 0             \* kill(0): the caller's process group

Failed   == -1            \* MAP_FAILED, what mmap returns when it fails

Pid(d, i) == 100 * d + i  \* the process of daemon d's program i

NoProcess == [pc |-> "none", idx |-> 0, table |-> <<>>, ready |-> FALSE,
              file |-> 0, mapped |-> 0, alive |-> {}]

pc(d) == proc[d].pc

Unhandled == {"lock", "locked"}
Starting  == {"init", "fork", "assign", "comm"}
Handled   == Starting \cup {"run"}         \* handle_signal is installed
Ending    == {"unlink", "kill", "free", "destroy"}
Up(d)     == pc(d) \in Handled \cup {"locked"}
Holds(d)  == Up(d) \/ pc(d) = "unlock"     \* the lock on its pid file

-----------------------------------------------------------------------------
(* parse_conf_file: the number of programs, 0 when it fails.               *)
Heads == {"MAGIC NUMBER", "PROCs:"}

(* Line i of file f comes under head h, the last one before it. *)
Under(f, h, i) ==
  \E j \in 1 .. i - 1 : f[j] = h /\ \A k \in j + 1 .. i - 1 : f[k] \notin Heads

(* Another number under the magic head is an error, and so is a line       *)
(* without any, unless the right one has been read before it.              *)
WrongMagic(f, i) ==
  /\ Under(f, "MAGIC NUMBER", i)
  /\ \/ f[i] \in {"number", "spaces"}
     \/ /\ f[i] = "text"
        /\ \A j \in 1 .. i - 1 : ~ (f[j] = "deadbeef" /\ Under(f, "MAGIC NUMBER", j))

(* It ends the file, as an empty line does or one cleanStr refuses. *)
Ends(f, i)    == f[i] \in {"empty", "too long"} \/ WrongMagic(f, i)
Reached(f, i) == \A j \in 1 .. i - 1 : ~ Ends(f, j)

(* A line of spaces is no program. *)
Program(f, i) == Under(f, "PROCs:", i) /\ f[i] \in {"text", "number", "deadbeef"}

parse_conf_file(f) ==
  LET read == {i \in DOMAIN f : Reached(f, i)} IN
  IF \E i \in read : WrongMagic(f, i) THEN 0
  ELSE Cardinality({i \in read : Program(f, i)})

-----------------------------------------------------------------------------
Init ==
  /\ proc = [d \in Daemons |-> NoProcess]
  /\ pidName = 0 /\ shmName = 0 /\ server = 0
  /\ overlap = FALSE
  /\ InitReport

Goto(d, l) == proc' = [proc EXCEPT ![d].pc = l]
Leave(d)   == proc' = [proc EXCEPT ![d] = NoProcess]

-----------------------------------------------------------------------------
(* Starting.                                                               *)

(* A number for a new file or memory, of those nobody uses. *)
New(used) == CHOOSE n \in 1 .. Slots + 1 : n \notin used

(* main, daemonize: the pid file is created unless it is there.            *)
Daemonize(d) ==
  /\ pc(d) = "none"
  /\ pidName' = IF pidName = 0 THEN New({proc[e].file : e \in Daemons}) ELSE pidName
  /\ proc' = [proc EXCEPT ![d].pc = "lock", ![d].file = pidName']
  /\ UNCHANGED shmName

(* lockf(F_TLOCK).  Mutant: its result is not looked at.                   *)
MutLocked(d) == TRUE
Locked(d) ==
  \A e \in Daemons \ {d} : ~ (proc[e].file = proc[d].file /\ Holds(e))

LockPidFile(d) ==
  /\ pc(d) = "lock"
  /\ IF Locked(d) THEN Goto(d, "locked") ELSE Leave(d)
  /\ UNCHANGED <<pidName, shmName>>

(* The handlers are installed and the configuration is read; the processes *)
(* of its programs are 0 so far.                                           *)
ReadConf(d) ==
  /\ pc(d) = "locked"
  /\ \E f \in ConfFiles :
       proc' = [proc EXCEPT ![d].pc = "init",
                            ![d].table = [i \in 1 .. parse_conf_file(f) |-> Group]]
  /\ UNCHANGED <<pidName, shmName>>

(* The memory createShms maps: the one under the name, or a new one.       *)
Opened == IF shmName = 0 THEN New({proc[e].mapped : e \in Daemons}) ELSE shmName

(* sysInit: the default table if there is no program.  The memories may be *)
(* refused, from the first or from a later one on, and then there is no    *)
(* Modbus context either.  That one could not be mapped goes unnoticed,    *)
(* since createShms compares with NULL, and its name is there.             *)
SysInit(d) ==
  /\ pc(d) = "init"
  /\ \E ok \in BOOLEAN, m \in {0, Failed, Opened} :
       /\ ok => m # 0
       /\ shmName' = IF m = 0 THEN shmName ELSE Opened
       /\ proc' = [proc EXCEPT
            ![d].pc = "fork", ![d].idx = 1, ![d].ready = ok, ![d].mapped = m,
            ![d].table = IF @ = <<>> THEN [i \in 1 .. DEF_PROC_NUM |-> DEF_PID]
                                     ELSE @]
  /\ UNCHANGED pidName

(* startProcs, exeCmd: the program is started, and its process is entered  *)
(* in the table after.                                                     *)
ForkProgram(d) ==
  /\ pc(d) = "fork"
  /\ proc' = [proc EXCEPT ![d].pc = "assign",
                          ![d].alive = @ \cup {Pid(d, proc[d].idx)}]
  /\ UNCHANGED <<pidName, shmName>>

(* fork fails: -1 is entered, and no more programs are started.            *)
ForkFails(d) ==
  /\ pc(d) = "fork"
  /\ proc' = [proc EXCEPT ![d].pc = "comm", ![d].table[proc[d].idx] = Everyone]
  /\ UNCHANGED <<pidName, shmName>>

(* The table with the process just started.                                *)
(* Mutant: it is entered one too far.                                      *)
MutEntered(d) ==
  [i \in DOMAIN proc[d].table |->
     IF i = proc[d].idx + 1 THEN Pid(d, proc[d].idx) ELSE proc[d].table[i]]
Entered(d) == [proc[d].table EXCEPT ![proc[d].idx] = Pid(d, proc[d].idx)]

EnterProgram(d) ==
  /\ pc(d) = "assign"
  /\ proc' = [proc EXCEPT
       ![d].pc = IF proc[d].idx = Len(proc[d].table) THEN "comm" ELSE "fork",
       ![d].table = Entered(d),
       ![d].idx = @ + 1]
  /\ UNCHANGED <<pidName, shmName>>

(* startInterCPUComm: whether the thread is created or not, main goes on.  *)
StartComm(d) ==
  /\ pc(d) = "comm"
  /\ \E ok \in BOOLEAN :
       proc' = [proc EXCEPT ![d].pc = "run", ![d].ready = @ /\ ok]
  /\ UNCHANGED <<pidName, shmName>>

-----------------------------------------------------------------------------
(* Serving the BBB.                                                        *)

(* The comm thread gets the port of the Modbus server.  Bound: not after an*)
(* overlap, when two daemons may want it.                                  *)
TakePort(d) ==
  /\ pc(d) = "run" /\ proc[d].ready /\ server = 0 /\ ~ overlap
  /\ server' = d
  /\ UNCHANGED <<lifeVars, reportVars>>

(* A message of the BBB: refreshInfoToBBB, which reads the counters first. *)
Message(d) ==
  /\ pc(d) = "run" /\ server = d /\ proc[d].mapped # Failed
  /\ RefreshCounts \/ ReadingFails \/ RefreshReports
  /\ UNCHANGED <<lifeVars, server>>

Time(d) ==
  /\ pc(d) = "run" /\ server = d
  /\ Tick \/ SetTime
  /\ UNCHANGED <<lifeVars, server>>

Serve(d) == TakePort(d) \/ Message(d) \/ Time(d)

(* getAPCinfo compares with NULL too: the first message ends a process     *)
(* whose memory is not mapped.                                             *)
Fault(d) ==
  /\ pc(d) = "run" /\ server = d /\ proc[d].mapped = Failed
  /\ Leave(d)
  /\ UNCHANGED <<pidName, shmName>>

(* getMemUse hands getline a pointer it has not initialised: the read may  *)
(* end the process.                                                        *)
Crash(d) ==
  /\ pc(d) = "run" /\ server = d /\ Due
  /\ Leave(d)
  /\ UNCHANGED <<pidName, shmName>>

-----------------------------------------------------------------------------
(* Ending.                                                                 *)

(* Process p at a SIGTERM or SIGINT: in its handler, in the handler once   *)
(* more (the lock is given back already), or gone.                         *)
(* Mutant: the handler is installed before daemonize.                      *)
MutStruck(p) ==
  CASE p.pc \in Handled \cup Unhandled -> [p EXCEPT !.pc = "unlock"]
    [] p.pc \in Ending                 -> [p EXCEPT !.pc = "unlink"]
    [] OTHER                           -> p
Struck(p) ==
  CASE p.pc \in Handled   -> [p EXCEPT !.pc = "unlock"]
    [] p.pc \in Ending    -> [p EXCEPT !.pc = "unlink"]
    [] p.pc \in Unhandled -> NoProcess
    [] OTHER              -> p

(* Bound: after an overlap no more signals come from outside. *)
Signalled(d) == pc(d) # "none" /\ ~ overlap

(* SIGTERM or SIGINT, from the system or by hand. *)
Stop(d) ==
  /\ Signalled(d)
  /\ proc' = [proc EXCEPT ![d] = Struck(@)]
  /\ UNCHANGED <<pidName, shmName>>

(* SIGHUP: the handler only says that the configuration is read again, and *)
(* ends the process as it does for every signal.                           *)
Hangup(d) ==
  /\ Signalled(d)
  /\ Leave(d)
  /\ UNCHANGED <<pidName, shmName>>

(* handle_signal: the lock is released, then the pid file's name removed.  *)
Unlock(d) ==
  /\ pc(d) = "unlock"
  /\ Goto(d, "unlink")
  /\ UNCHANGED <<pidName, shmName>>

(* Mutant: the loop that follows begins with the second program.           *)
MutFirst == 2
First == 1

Unlink(d) ==
  /\ pc(d) = "unlink"
  /\ pidName' = 0
  /\ proc' = [proc EXCEPT ![d].pc = "kill", ![d].idx = First]
  /\ UNCHANGED shmName

(* The programs of daemon e that daemon d's kill(t, SIGTERM) ends.         *)
Targets(d, e, t) ==
  IF t = Everyone \/ (t = Group /\ e = d) THEN proc[e].alive ELSE {t}

Killing(d) == pc(d) = "kill" /\ proc[d].idx <= Len(proc[d].table)
Target(d)  == proc[d].table[proc[d].idx]

(* One kill of the loop over the table; -1 reaches the other daemons too.  *)
KillProgram(d) ==
  /\ Killing(d)
  /\ proc' = [e \in Daemons |->
       LET left == proc[e].alive \ Targets(d, e, Target(d))
           p == [proc[e] EXCEPT !.alive = left] IN
         IF e = d THEN [p EXCEPT !.idx = @ + 1]
         ELSE IF Target(d) = Everyone THEN Struck(p) ELSE p]
  /\ UNCHANGED <<pidName, shmName>>

KillsDone(d) ==
  /\ pc(d) = "kill" /\ ~ Killing(d)
  /\ Goto(d, "free")
  /\ UNCHANGED <<pidName, shmName>>

(* stopModbusServer frees the mapping and the context the comm thread may  *)
(* be using: the process may end here.                                     *)
FreeServer(d) ==
  /\ pc(d) = "free"
  /\ Goto(d, "destroy") \/ (proc[d].ready /\ Leave(d))
  /\ UNCHANGED <<pidName, shmName>>

(* destroyShms, _exit. *)
DestroyShms(d) ==
  /\ pc(d) = "destroy"
  /\ shmName' = 0
  /\ Leave(d)
  /\ UNCHANGED pidName

-----------------------------------------------------------------------------
Start(d) ==
  \/ LockPidFile(d) \/ ReadConf(d) \/ SysInit(d)
  \/ ForkProgram(d) \/ ForkFails(d) \/ EnterProgram(d) \/ StartComm(d)

Handle(d) ==
  \/ Unlock(d) \/ Unlink(d) \/ KillProgram(d) \/ KillsDone(d)
  \/ FreeServer(d) \/ DestroyShms(d)

Outside(d) == Daemonize(d) \/ Fault(d) \/ Crash(d) \/ Stop(d) \/ Hangup(d)

(* The report is followed while main runs; what the comm thread of a       *)
(* daemon still answers during its handler is not.                         *)
Follow ==
  IF server = 0 \/ (proc'[server].pc = "run" /\ ~ overlap')
  THEN UNCHANGED <<server, reportVars>>
  ELSE server' = 0 /\ Marked /\ faults' = 0

(* A daemon that starts while another one is in the rest of its handler is *)
(* remembered until there is none.                                         *)
Remember ==
  overlap' = /\ \E d \in Daemons : proc'[d].pc # "none"
             /\ \/ overlap
                \/ \E d, e \in Daemons : /\ proc'[d].pc \in Starting \cup Unhandled
                                         /\ proc'[e].pc \in Ending

Main(d) == (Start(d) \/ Handle(d)) /\ Remember /\ Follow

Next ==
  \E d \in Daemons : Main(d) \/ (Outside(d) /\ Remember /\ Follow) \/ Serve(d)

Spec == Init /\ [][Next]_vars

(* The threads keep running, and the BBB polls the server that there is.   *)
Polled(d) == Message(d) \/ (Fault(d) /\ Remember /\ Follow)
Fairness == \A d \in Daemons : WF_vars(Main(d)) /\ WF_vars(Polled(d))

FairSpec == Spec /\ Fairness

-----------------------------------------------------------------------------
(* Types of all variables. *)
TypeOK ==
  /\ \A d \in Daemons :
       /\ pc(d) \in {"none", "unlock"} \cup Unhandled \cup Handled \cup Ending
       /\ proc[d].idx \in 0 .. Len(proc[d].table) + 1
       /\ \A i \in DOMAIN proc[d].table :
            proc[d].table[i] \in {Everyone, Group, DEF_PID, Pid(d, i)}
       /\ proc[d].ready \in BOOLEAN
       /\ proc[d].file \in 0 .. Slots + 1 /\ proc[d].mapped \in Failed .. Slots + 1
       /\ proc[d].alive \subseteq {Pid(d, i) : i \in DOMAIN proc[d].table}
  /\ pidName \in 0 .. Slots + 1 /\ shmName \in 0 .. Slots + 1
  /\ server \in {0} \cup Daemons
  /\ overlap \in BOOLEAN
  /\ TypeOKReport

(* The lock keeps a second daemon out (daemonize), whatever order starts,  *)
(* signals and crashes come in; only one that starts while another one is  *)
(* between the release of its lock and its end can break it.               *)
OneDaemon ==
  ~ overlap => \A d, e \in Daemons : Up(d) /\ Up(e) => d = e

(* When its handler is done with its programs (handle_signal), a daemon    *)
(* leaves none behind but one started and not yet entered in a default     *)
(* table, and then it has signalled a process it did not start instead.    *)
NoneLeft ==
  \A d \in Daemons :
    pc(d) \in {"free", "destroy"} /\ proc[d].alive # {}
      => \E i \in DOMAIN proc[d].table :
           /\ proc[d].table[i] = DEF_PID
           /\ proc[d].alive = {Pid(d, i)}

(* The memory a serving daemon has mapped is the one its programs open by  *)
(* the name, also after a daemon before it has ended without removing it;  *)
(* or it has mapped none without noticing (createShms), but then it tells  *)
(* the BBB nothing (getAPCinfo): what it has told comes from that memory.  *)
MemoryShared ==
  ~ overlap =>
    \A d \in Daemons :
      pc(d) = "run" /\ proc[d].ready =>
        /\ shmName # 0 /\ proc[d].mapped \in {shmName, Failed}
        /\ server = d /\ ~ marked => proc[d].mapped = shmName

(* The report comes early only if some message did not see a later second  *)
(* than the one before, or the clock was set.                              *)
PeriodKept ==
  [][~ marked /\ marked' /\ server' # 0
       => odd \/ gap <= 0 \/ age > RPT_SYS_INFO_PERIOD]_vars

(* A daemon that serves the BBB refreshes its report again and again,      *)
(* whatever failed in between.                                             *)
ReportsGoOn == \A d \in Daemons : []<>(server = d => marked)

=============================================================================
