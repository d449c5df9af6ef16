----------------------------- MODULE GpsPipeline -----------------------------
(***************************************************************************)
(* From the GPS receiver to the clock and the message FIFO of the BBB      *)
(* (smart-bus): three threads of the task table.                           *)
(*   GPSTask          reads the serial line byte by byte up to a line      *)
(*                    feed and parses the line into m_gpsInfo under        *)
(*                    counter_lock;                                        *)
(*   MainLoopTask     copies m_gpsInfo under counter_lock, sets the system *)
(*                    clock from it, writes it to the FIFO and sleeps;     *)
(*   MessageSendTask  reads the FIFO.                                      *)
(* The timeout of the serial line is measured by the system clock, which   *)
(* the main loop sets: a line during which it jumps may be cut.            *)
(*                                                                         *)
(* The characters between two fields the parser looks at are one token.    *)
(* The FIFO is counted in blocks of 40 bytes.  The stations the position   *)
(* is compared with are left out: what is reported is not used.            *)
(***************************************************************************)
EXTENDS Integers, Sequences, SequencesExt

CONSTANTS
  Secs,       \* seconds are counted modulo Secs
  MaxLine,    \* tokens that fill the line buffer
  PerRound,   \* bursts the receiver sends while the main loop sleeps
  MaxFaults,  \* bound: tokens lost, read errors and silences of the receiver
  FifoCap     \* blocks the FIFO takes

ASSUME GpsPipelineAssumption ==
  /\ Secs \in Nat \ {0, 1} /\ MaxFaults \in Nat
  /\ MaxLine \in Nat /\ MaxLine >= 4     \* linebuf takes an RMC sentence
  /\ PerRound \in Nat /\ PerRound >= 3   \* the sleep is of 30 seconds
  /\ FifoCap \in Nat /\ FifoCap >= 13

VARIABLES
  receiver,  \* "on" or "off"
  sec,       \* the second of the next burst
  uart,      \* tokens sent and not read
  bursts,    \* bursts since the main loop fell asleep
  faults,    \* faults so far
  gpsPc,     \* "closed", "read", "parse", "time", "place", "high"
  line,      \* linebuf
  jumped,    \* the clock was set since the read of this line began
  lock,      \* who holds counter_lock: "free", "gps", "main"
  fix,       \* m_gpsInfo
  whole,     \* history: fix when the GPS task last let go of the lock
  spoiled,   \* history: fixes that are not of one sentence
  fresh,     \* history: a fix was parsed since the main loop last took one
  excused,   \* history: since then a fault may have kept fixes away
  mainPc,    \* "take", "copyTime", "copyPlace", "set", "write", "sleep"
  info,      \* gpsInfo of the main loop
  fifo,      \* blocks in the FIFO
  at,        \* the first of them is this block of its message
  behind     \* history: two messages were queued since it was last empty

env  == <<receiver, sec, uart, bursts, faults>>
gps  == <<gpsPc, line, jumped, lock, fix, whole, spoiled>>
main == <<mainPc, info>>
pipe == <<fifo, at, behind>>
vars == <<env, gps, fresh, excused, main, pipe>>

-----------------------------------------------------------------------------
(* Sentences and fields.  The time stands at a fixed place behind the head *)
(* of its sentence, status, position, date and height behind so and so     *)
(* many commas.                                                            *)
RMC(s) == << [k |-> "RMC", s |-> s], [k |-> "pos", s |-> s],
             [k |-> "date", s |-> s], [k |-> "nl", s |-> s] >>
GGA(s) == << [k |-> "GGA", s |-> s], [k |-> "high", s |-> s],
             [k |-> "nl", s |-> s] >>
Junk == [k |-> "junk", s |-> 0]          \* never set

Kinds  == {"RMC", "GGA", "pos", "date", "high", "nl"}
Tokens == {[k |-> k, s |-> s] : k \in Kinds, s \in 0 .. Secs - 1}
NoFix  == [time |-> Junk, date |-> Junk, place |-> Junk]

HasHead(l, k) == \E i \in DOMAIN l : l[i].k = k
HeadAt(l, k)  == SelectInSeq(l, LAMBDA t : t.k = k)

(* GetComma: with too few commas the position is 0, so that the field is   *)
(* read from the head of the sentence.                                     *)
FieldOf(l, k, n) ==
  LET i == HeadAt(l, k) IN
  IF i + n < Len(l) THEN l[i + n] ELSE l[i]

OfOneSentence(f) ==
  /\ f.time.k = "RMC" /\ f.date.k = "date" /\ f.place.k = "pos"
  /\ f.time.s = f.date.s /\ f.date.s = f.place.s

-----------------------------------------------------------------------------
(* The main loop sleeps until enough bursts have come; main creates the    *)
(* FIFO and the lock before the threads.  Neither m_gpsInfo nor the main   *)
(* loop's own copy is initialised.                                         *)
Init ==
  /\ receiver = "on" /\ sec = 0 /\ uart = <<>> /\ bursts = 0 /\ faults = 0
  /\ gpsPc = "closed" /\ line = <<>> /\ jumped = FALSE /\ lock = "free"
  /\ fix = NoFix /\ whole = NoFix /\ spoiled = 0
  /\ fresh = FALSE /\ excused = TRUE
  /\ mainPc = "take" /\ info = NoFix
  /\ fifo = 0 /\ at = 0 /\ behind = FALSE

-----------------------------------------------------------------------------
(* The receiver sends a burst each second.  The thread reads faster than   *)
(* the line brings it: the burst before has been read and handled.         *)
Send ==
  /\ receiver = "on" /\ gpsPc = "read" /\ uart = <<>>
  /\ uart' = RMC(sec) \o GGA(sec)
  /\ sec' = (sec + 1) % Secs
  /\ bursts' = IF bursts < PerRound THEN bursts + 1 ELSE bursts
  /\ UNCHANGED <<receiver, faults, gps, fresh, excused, main, pipe>>

Fault == faults < MaxFaults /\ faults' = faults + 1 /\ excused' = TRUE

(* Characters are lost on the line. *)
Lose ==
  /\ Fault
  /\ \E i \in DOMAIN uart : uart' = RemoveAt(uart, i)
  /\ UNCHANGED <<receiver, sec, bursts, gps, fresh, main, pipe>>

SwitchOff ==
  /\ receiver = "on" /\ Fault /\ receiver' = "off"
  /\ UNCHANGED <<sec, uart, bursts, gps, fresh, main, pipe>>
SwitchOn ==
  /\ receiver = "off" /\ receiver' = "on"
  /\ UNCHANGED <<sec, uart, bursts, faults, gps, fresh, excused, main, pipe>>

-----------------------------------------------------------------------------
(* GPSTask: the line reader.                                               *)

(* The timer starts anew with each line.  Mutant: it does not.             *)
MutJumpedAtStart == jumped
JumpedAtStart == FALSE
StartLine == gpsPc' = "read" /\ line' = <<>> /\ jumped' = JumpedAtStart

(* An open that fails is tried again with the next call of run. *)
OpenDevice ==
  /\ gpsPc = "closed" /\ StartLine
  /\ UNCHANGED <<env, lock, fix, whole, spoiled, fresh, excused, main, pipe>>

(* The buffer is full before the line feed has come: an error, what was    *)
(* read is dropped.  Mutant: one byte too late.                            *)
MutFits(l) == Len(l) <= MaxLine
Fits(l) == Len(l) < MaxLine

ReadByte ==
  /\ gpsPc = "read" /\ uart # <<>>
  /\ uart' = Tail(uart)
  /\ LET l == Append(line, Head(uart)) IN
     IF Head(uart).k = "nl"
     THEN line' = l /\ gpsPc' = "parse" /\ UNCHANGED jumped
     ELSE IF Fits(l) THEN line' = l /\ UNCHANGED <<gpsPc, jumped>>
     ELSE StartLine
  /\ UNCHANGED <<receiver, sec, bursts, faults, lock, fix, whole, spoiled,
                 fresh, excused, main, pipe>>

(* The timeout: nothing has come for 1200 ms, or the clock has been set:   *)
(* the time elapsed, unsigned, is then beyond the limit in either          *)
(* direction, or the wait for the next byte is.  What was read is not      *)
(* parsed.  Mutant: its length is returned.                                *)
MutNumAtTimeout(l) == Len(l)
NumAtTimeout(l) == 0
Timeout ==
  /\ gpsPc = "read"
  /\ jumped \/ (receiver = "off" /\ uart = <<>>)
  /\ IF NumAtTimeout(line) > 0 THEN gpsPc' = "parse" /\ UNCHANGED <<line, jumped>>
     ELSE StartLine
  /\ UNCHANGED <<env, lock, fix, whole, spoiled, fresh, excused, main, pipe>>

(* A read that fails.  The code of the error is a char, less than 0 only   *)
(* where chars have a sign, which they have not on the BBB: there the loop *)
(* goes on and the timeout ends it.  The device is never opened again.     *)
ReadError ==
  /\ gpsPc = "read" /\ Fault
  /\ StartLine \/ UNCHANGED <<gpsPc, line, jumped>>
  /\ UNCHANGED <<receiver, sec, uart, bursts, lock, fix, whole, spoiled,
                 fresh, main, pipe>>

-----------------------------------------------------------------------------
(* GPSTask: the parser.                                                    *)

(* Mutant: the lock is not waited for.                                     *)
MutLockFree == TRUE
LockFree == lock = "free"

ParseOther ==
  /\ gpsPc = "parse" /\ ~ HasHead(line, "RMC") /\ ~ HasHead(line, "GGA")
  /\ StartLine
  /\ UNCHANGED <<env, lock, fix, whole, spoiled, fresh, excused, main, pipe>>

ParseLock ==
  /\ gpsPc = "parse" /\ LockFree
  /\ HasHead(line, "RMC") \/ HasHead(line, "GGA")
  /\ lock' = "gps"
  /\ gpsPc' = IF HasHead(line, "RMC") THEN "time" ELSE "high"
  /\ UNCHANGED <<env, line, jumped, fix, whole, spoiled, fresh, excused, main, pipe>>

ParseTime ==
  /\ gpsPc = "time" /\ gpsPc' = "place"
  /\ fix' = [fix EXCEPT !.time = FieldOf(line, "RMC", 0),
                        !.date = FieldOf(line, "RMC", 2)]
  /\ UNCHANGED <<env, line, jumped, lock, whole, spoiled, fresh, excused, main, pipe>>

ParsePlace ==
  /\ gpsPc = "place"
  /\ fix' = [fix EXCEPT !.place = FieldOf(line, "RMC", 1)]
  /\ lock' = "free" /\ whole' = fix' /\ fresh' = TRUE
  /\ spoiled' = IF OfOneSentence(fix') THEN spoiled ELSE spoiled + 1
  /\ StartLine
  /\ UNCHANGED <<env, excused, main, pipe>>

(* The height is not looked at by anyone. *)
ParseHigh ==
  /\ gpsPc = "high"
  /\ lock' = "free"
  /\ StartLine
  /\ UNCHANGED <<env, fix, whole, spoiled, fresh, excused, main, pipe>>

-----------------------------------------------------------------------------
(* MainLoopTask.  The hour is not copied: that of the copy is never set.   *)
TakeLock ==
  /\ mainPc = "take" /\ LockFree
  /\ lock' = "main" /\ mainPc' = "copyTime"
  /\ UNCHANGED <<env, gpsPc, line, jumped, fix, whole, spoiled, fresh, excused,
                 info, pipe>>

CopyTime ==
  /\ mainPc = "copyTime" /\ mainPc' = "copyPlace"
  /\ info' = [info EXCEPT !.time = fix.time, !.date = fix.date]
  /\ UNCHANGED <<env, gps, fresh, excused, pipe>>

CopyPlace ==
  /\ mainPc = "copyPlace" /\ mainPc' = "set"
  /\ info' = [info EXCEPT !.place = fix.place]
  /\ lock' = "free" /\ fresh' = FALSE
  /\ excused' = (receiver = "off" \/ gpsPc = "closed")
  /\ UNCHANGED <<env, gpsPc, line, jumped, fix, whole, spoiled, pipe>>

(* The clock is set when the year reads 2015, and is not otherwise.  The   *)
(* status of the fix is not asked.                                         *)
SetClock ==
  /\ mainPc = "set" /\ mainPc' = "write"
  /\ jumped' = TRUE \/ UNCHANGED jumped
  /\ UNCHANGED <<env, gpsPc, line, lock, fix, whole, spoiled, fresh, excused,
                 info, pipe>>

(* The message has 520 bytes, the buffer it is read into 600.  Mutant: the *)
(* reader's buffer has room for the text of the message only.              *)
Message == 13
MutReadSize == 12
ReadSize == 15

(* A write to a full FIFO waits. *)
WriteFifo ==
  /\ mainPc = "write" /\ fifo + Message <= FifoCap
  /\ fifo' = fifo + Message /\ behind' = (behind \/ fifo > 0)
  /\ mainPc' = "sleep" /\ bursts' = 0
  /\ UNCHANGED <<receiver, sec, uart, faults, gps, fresh, excused, info, at>>

Wake ==
  /\ mainPc = "sleep" /\ mainPc' = "take"
  /\ bursts = PerRound \/ receiver = "off" \/ gpsPc = "closed"
  /\ UNCHANGED <<env, gps, fresh, excused, info, pipe>>

(* MessageSendTask takes what is there, up to its buffer's size, for one   *)
(* message.  Mutant: select no longer asks for the FIFO after it has       *)
(* returned once.                                                          *)
MutChunk == 0
Chunk == IF fifo < ReadSize THEN fifo ELSE ReadSize
ReadFifo ==
  /\ fifo > 0
  /\ fifo' = fifo - Chunk /\ at' = (at + Chunk) % Message
  /\ behind' = (behind /\ fifo' > 0)
  /\ UNCHANGED <<env, gps, fresh, excused, main>>

-----------------------------------------------------------------------------
GpsTask  == OpenDevice \/ ReadByte \/ Timeout \/ ReadError \/ ParseOther
              \/ ParseLock \/ ParseTime \/ ParsePlace \/ ParseHigh
MainTask == TakeLock \/ CopyTime \/ CopyPlace \/ SetClock \/ WriteFifo \/ Wake
Receiver == Send \/ Lose \/ SwitchOff \/ SwitchOn
Next == GpsTask \/ MainTask \/ ReadFifo \/ Receiver

(* The threads are scheduled, the receiver sends while it is on.  A mutex  *)
(* may be taken by the other thread each time it is free: the GPS task     *)
(* spends a second between two uses of it, the main loop 30.               *)
Fairness ==
  /\ WF_vars(OpenDevice) /\ WF_vars(ReadByte) /\ WF_vars(ParseOther)
  /\ WF_vars(ParseTime \/ ParsePlace \/ ParseHigh) /\ SF_vars(ParseLock)
  /\ SF_vars(TakeLock) /\ WF_vars(CopyTime \/ CopyPlace \/ SetClock)
  /\ WF_vars(WriteFifo) /\ WF_vars(Wake) /\ WF_vars(ReadFifo) /\ WF_vars(Send)
Spec == Init /\ [][Next]_vars /\ Fairness

-----------------------------------------------------------------------------
TypeOK ==
  /\ receiver \in {"on", "off"} /\ sec \in 0 .. Secs - 1
  /\ uart \in Seq(Tokens) /\ line \in Seq(Tokens) /\ Len(line) <= MaxLine
  /\ bursts \in 0 .. PerRound /\ faults \in 0 .. MaxFaults
  /\ gpsPc \in {"closed", "read", "parse", "time", "place", "high"}
  /\ mainPc \in {"take", "copyTime", "copyPlace", "set", "write", "sleep"}
  /\ lock \in {"free", "gps", "main"}
  /\ {jumped, fresh, excused, behind} \subseteq BOOLEAN
  /\ {fix, whole, info} \subseteq [{"time", "date", "place"} -> Tokens \cup {Junk}]
  /\ spoiled \in Nat /\ fifo \in 0 .. FifoCap /\ at \in 0 .. Message - 1

(* Lines cut by timeouts, by errors or by a clock that jumps, and the rest *)
(* of such a line, never make a fix of two sentences: each lost piece of a *)
(* line spoils one fix at most, and nothing else does (ReadString drops    *)
(* what it has at a timeout, and the parser asks for the head).            *)
SpoiledByFaults == spoiled <= faults

(* What the main loop takes in a round is one fix the parser had finished, *)
(* the first time and also later: the two threads meet under counter_lock  *)
(* (adp_gps.cpp 424-447, app_main.cpp 245-247).  The hour is not part of   *)
(* it, it never gets there.                                                *)
TakenWhole ==
  [][mainPc = "copyPlace" /\ mainPc' = "set" => info' = whole]_vars

(* Although the main loop itself cuts a line whenever it sets the clock,   *)
(* it never sets the clock by the same fix twice while the receiver works: *)
(* each round finds a new one.                                             *)
TakenNew ==
  [][mainPc = "copyPlace" /\ mainPc' = "set" => fresh \/ excused]_vars

(* The reader of the FIFO starts at the head of a message, unless two of   *)
(* them have been queued since the FIFO was last empty; once it has been   *)
(* emptied the next message is read right again.                           *)
FramedUnlessBehind == at # 0 => behind

(* Neither the lock nor a full FIFO stops the main loop for good.          *)
RoundsGoOn == []<>(mainPc = "copyTime")

=============================================================================
