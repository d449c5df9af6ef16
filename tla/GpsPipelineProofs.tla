-------------------------- MODULE GpsPipelineProofs --------------------------
(***************************************************************************)
(* Proofs about GpsPipeline, for any line buffer, FIFO, period and number  *)
(* of faults: what the lock protects and how the FIFO is framed.           *)
(***************************************************************************)
EXTENDS GpsPipeline, SequenceTheorems, WellFoundedInduction, TLAPS

USE GpsPipelineAssumption

-----------------------------------------------------------------------------
(* The lock.                                                               *)

(* Who holds counter_lock is between its two ends, and only the GPS task   *)
(* changes the fix; the main loop has copied what is still there.          *)
Parsing == {"time", "place", "high"}
Copying == {"copyTime", "copyPlace"}
IsFix(f) == f = [time |-> f.time, date |-> f.date, place |-> f.place]
LockInv ==
  /\ lock = "gps" <=> gpsPc \in Parsing
  /\ lock = "main" <=> mainPc \in Copying
  /\ gpsPc \notin {"time", "place"} => fix = whole
  /\ mainPc = "copyPlace" => info.time = fix.time /\ info.date = fix.date
  /\ IsFix(fix) /\ IsFix(info)

LEMMA LockInit == Init => LockInv
BY DEF Init, LockInv, Parsing, Copying, IsFix, NoFix

(* Steps of neither task. *)
LEMMA LockOther ==
  LockInv /\ (\/ Receiver \/ ReadFifo \/ WriteFifo \/ Wake \/ SetClock
              \/ OpenDevice \/ ReadByte \/ Timeout \/ ReadError \/ ParseOther
              \/ UNCHANGED vars)
    => LockInv'
<1> SUFFICES ASSUME LockInv, (\/ Receiver \/ ReadFifo \/ WriteFifo \/ Wake
                              \/ SetClock \/ OpenDevice \/ ReadByte \/ Timeout
                              \/ ReadError \/ ParseOther \/ UNCHANGED vars)
             PROVE  LockInv'
  OBVIOUS
<1>1. UNCHANGED <<lock, fix, whole, info>>
  BY DEF Receiver, Send, Lose, SwitchOff, SwitchOn, ReadFifo, WriteFifo, Wake,
    SetClock, OpenDevice, ReadByte, Timeout, ReadError, ParseOther, vars, gps,
    main
<1>2. gpsPc' = gpsPc \/ (gpsPc \notin Parsing /\ gpsPc' \in {"read", "parse"})
  BY DEF Receiver, Send, Lose, SwitchOff, SwitchOn, ReadFifo, WriteFifo, Wake,
    SetClock, OpenDevice, ReadByte, Timeout, ReadError, ParseOther, vars, gps,
    StartLine, Parsing
<1>3. mainPc' = mainPc \/ (mainPc \notin Copying /\ mainPc' \in {"write", "sleep", "take"})
  BY DEF Receiver, Send, Lose, SwitchOff, SwitchOn, ReadFifo, WriteFifo, Wake,
    SetClock, OpenDevice, ReadByte, Timeout, ReadError, ParseOther, vars, main,
    Copying
<1>4. QED
  BY <1>1, <1>2, <1>3 DEF LockInv, Parsing, Copying

(* The parser. *)
LEMMA LockParser ==
  LockInv /\ (ParseLock \/ ParseTime \/ ParsePlace \/ ParseHigh) => LockInv'
<1> SUFFICES ASSUME LockInv, ParseLock \/ ParseTime \/ ParsePlace \/ ParseHigh
             PROVE  LockInv'
  OBVIOUS
<1>1. mainPc' = mainPc /\ info' = info
  BY DEF ParseLock, ParseTime, ParsePlace, ParseHigh, main
<1>2. CASE ParseLock
  BY <1>1, <1>2 DEF ParseLock, LockFree, LockInv, Parsing, Copying
<1>3. CASE ParseTime
  <2>1. fix' = [time |-> FieldOf(line, "RMC", 0),
                date |-> FieldOf(line, "RMC", 2), place |-> fix.place]
    BY <1>3 DEF ParseTime, LockInv, IsFix
  <2>2. mainPc \notin Copying
    BY <1>3 DEF ParseTime, LockInv, Parsing
  <2>3. IsFix(fix')
    BY <2>1 DEF IsFix
  <2>4. QED
    BY <1>1, <1>3, <2>2, <2>3 DEF ParseTime, LockInv, Parsing, Copying
<1>4. CASE ParsePlace
  <2>1. fix' = [time |-> fix.time, date |-> fix.date,
                place |-> FieldOf(line, "RMC", 1)]
    BY <1>4 DEF ParsePlace, LockInv, IsFix
  <2>2. mainPc \notin Copying
    BY <1>4 DEF ParsePlace, LockInv, Parsing
  <2>3. IsFix(fix')
    BY <2>1 DEF IsFix
  <2>4. QED
    BY <1>1, <1>4, <2>2, <2>3
    DEF ParsePlace, LockInv, Parsing, Copying, StartLine
<1>5. CASE ParseHigh
  BY <1>1, <1>5 DEF ParseHigh, LockInv, Parsing, Copying, StartLine
<1>6. QED
  BY <1>2, <1>3, <1>4, <1>5

(* The main loop's copy. *)
LEMMA LockTaker ==
  LockInv /\ (TakeLock \/ CopyTime \/ CopyPlace) => LockInv'
<1> SUFFICES ASSUME LockInv, TakeLock \/ CopyTime \/ CopyPlace PROVE LockInv'
  OBVIOUS
<1>1. UNCHANGED <<gpsPc, fix, whole>>
  BY DEF TakeLock, CopyTime, CopyPlace, gps
<1>2. CASE TakeLock
  BY <1>1, <1>2 DEF TakeLock, LockFree, LockInv, Copying, Parsing
<1>3. CASE CopyTime
  <2>1. info' = [time |-> fix.time, date |-> fix.date, place |-> info.place]
    BY <1>3 DEF CopyTime, LockInv, IsFix
  <2>2. IsFix(info') /\ info'.time = fix.time /\ info'.date = fix.date
    BY <2>1 DEF IsFix
  <2>3. QED
    BY <1>1, <1>3, <2>2 DEF CopyTime, LockInv, Copying, Parsing, gps
<1>4. CASE CopyPlace
  <2>1. info' = [time |-> info.time, date |-> info.date, place |-> fix.place]
    BY <1>4 DEF CopyPlace, LockInv, IsFix
  <2>2. IsFix(info')
    BY <2>1 DEF IsFix
  <2>3. QED
    BY <1>1, <1>4, <2>2 DEF CopyPlace, LockInv, Copying, Parsing
<1>5. QED
  BY <1>2, <1>3, <1>4

LEMMA LockStep == LockInv /\ [Next]_vars => LockInv'
BY LockOther, LockParser, LockTaker DEF Next, GpsTask, MainTask

(* What getGpsInfo copies is a fix the parser had finished when it let go  *)
(* of counter_lock: the lock keeps parser and main loop apart although     *)
(* each of them touches the fields one by one.                             *)
THEOREM TakenIsWhole == Spec => TakenWhole
<1>1. ASSUME LockInv, [Next]_vars, mainPc = "copyPlace", mainPc' = "set"
      PROVE  info' = whole
  <2>1. CopyPlace
    BY <1>1 DEF Next, GpsTask, MainTask, Receiver, Send, Lose, SwitchOff,
      SwitchOn, OpenDevice, ReadByte, Timeout, ReadError, ParseOther, ParseLock,
      ParseTime, ParsePlace, ParseHigh, TakeLock, CopyTime, SetClock, WriteFifo,
      Wake, ReadFifo, main, vars
  <2>2. info' = [time |-> fix.time, date |-> fix.date, place |-> fix.place]
    BY <1>1, <2>1 DEF CopyPlace, LockInv, IsFix
  <2>3. fix = whole
    BY <1>1 DEF LockInv, Parsing, Copying
  <2>4. QED
    BY <1>1, <2>2, <2>3 DEF LockInv, IsFix
<1>2. LockInv /\ [Next]_vars
        => [mainPc = "copyPlace" /\ mainPc' = "set" => info' = whole]_vars
  BY <1>1
<1>3. QED
  BY LockInit, LockStep, <1>2, PTL DEF Spec, TakenWhole

-----------------------------------------------------------------------------
(* The FIFO.                                                               *)

(* As long as nothing is behind, the FIFO holds one message at most, and   *)
(* all of it: a read takes it whole.                                       *)
FifoInv ==
  /\ fifo \in Nat /\ at \in 0 .. Message - 1
  /\ (fifo + at) % Message = 0
  /\ ~ behind => at = 0 /\ fifo \in {0, Message}

LEMMA FifoStep == FifoInv /\ [Next]_vars => FifoInv'
<1> SUFFICES ASSUME FifoInv, [Next]_vars PROVE FifoInv'
  OBVIOUS
<1> USE DEF FifoInv, Message
<1>1. CASE UNCHANGED pipe
  BY <1>1 DEF pipe
<1>2. CASE WriteFifo
  <2>1. fifo' = fifo + 13 /\ at' = at /\ (behind' <=> behind \/ fifo > 0)
    BY <1>2 DEF WriteFifo
  <2>2. (fifo + 13 + at) % 13 = 0
    OBVIOUS
  <2>3. QED
    BY <2>1, <2>2
<1>3. CASE ReadFifo
  <2>1. Chunk \in Nat /\ Chunk <= fifo /\ (fifo < 15 => Chunk = fifo)
        /\ Chunk <= 15
    BY DEF Chunk, ReadSize
  <2>2. /\ fifo' = fifo - Chunk /\ at' = (at + Chunk) % 13
        /\ behind' <=> behind /\ fifo' > 0
    BY <1>3 DEF ReadFifo
  <2>3. fifo' \in Nat /\ at' \in 0 .. 13 - 1
    BY <2>1, <2>2
  <2>4. at' \in {at + Chunk, at + Chunk - 13, at + Chunk - 26}
    BY <2>1, <2>2
  <2>5. (fifo' + at') % 13 = 0
    <3>1. fifo' + at' \in {fifo + at, fifo + at - 13, fifo + at - 26}
      BY <2>1, <2>2, <2>3, <2>4
    <3>2. (fifo + at) % 13 = 0 /\ fifo + at \in Nat
      OBVIOUS
    <3>3. \A n \in Int : n % 13 = 0 => (n - 13) % 13 = 0 /\ (n - 26) % 13 = 0
      OBVIOUS
    <3>4. QED
      BY <3>1, <3>2, <3>3
  <2>6. ~ behind' => at' = 0 /\ fifo' \in {0, 13}
    <3>1. CASE ~ behind
      <4>1. Chunk = fifo /\ at = 0
        BY <2>1, <3>1
      <4>2. QED
        BY <2>1, <2>2, <4>1
    <3>2. CASE fifo' = 0
      <4>1. \A n \in 0 .. 12 : (0 + n) % 13 = 0 => n = 0
        OBVIOUS
      <4>2. at' \in 0 .. 12
        BY <2>3
      <4>3. (0 + at') % 13 = 0
        BY <2>5, <3>2, Zenon
      <4>4. at' = 0
        BY <4>1, <4>2, <4>3, Zenon
      <4>5. QED
        BY <3>2, <4>4
    <3>3. QED
      BY <2>2, <2>3, <3>1, <3>2
  <2>7. QED
    BY <2>3, <2>5, <2>6, Zenon
<1>4. QED
  BY <1>1, <1>2, <1>3 DEF Next, GpsTask, MainTask, Receiver, Send, Lose,
    SwitchOff, SwitchOn, OpenDevice, ReadByte, Timeout, ReadError, ParseOther,
    ParseLock, ParseTime, ParsePlace, ParseHigh, TakeLock, CopyTime, CopyPlace,
    SetClock, Wake, vars

(* MessageSendTask reads from the head of a message, whatever the FIFO's   *)
(* size, unless two have been queued since it was last empty.              *)
THEOREM Framed == Spec => []FramedUnlessBehind
<1>1. Init => FifoInv
  BY DEF Init, FifoInv, Message
<1>2. FifoInv => FramedUnlessBehind
  BY DEF FifoInv, FramedUnlessBehind
<1>3. QED
  BY <1>1, <1>2, FifoStep, PTL DEF Spec

-----------------------------------------------------------------------------
(* Sequences of tokens.                                                    *)

LEMMA TokenParts ==
  \A t \in Tokens : t.k \in Kinds /\ t.s \in 0 .. Secs - 1 /\ t = [k |-> t.k, s |-> t.s]
BY DEF Tokens

(* A set of positions has a least one. *)
LEMMA LeastPosition ==
  ASSUME NEW I, I \subseteq Nat, I # {}
  PROVE  Min(I) \in I /\ \A j \in I : Min(I) <= j
<1>1. \E i \in I : \A j \in I : ~ (<<j, i>> \in OpToRel(<, Nat))
  BY NatLessThanWellFounded, WFMin
<1>2. PICK i \in I : \A j \in I : ~ (<<j, i>> \in OpToRel(<, Nat))
  BY <1>1
<1>3. \A j \in I : i <= j
  <2>1. ASSUME NEW j \in I PROVE ~ (j < i)
    <3>1. <<j, i>> \in Nat \X Nat
      OBVIOUS
    <3>2. QED
      BY <1>2, <3>1 DEF OpToRel
  <2>2. QED
    BY <2>1
<1>4. QED
  BY <1>2, <1>3 DEF Min

(* The parser asks for the first head in the line. *)
LEMMA HeadFirst ==
  ASSUME NEW l \in Seq(Tokens), NEW k, HasHead(l, k)
  PROVE  /\ HeadAt(l, k) \in 1 .. Len(l) /\ l[HeadAt(l, k)].k = k
         /\ \A j \in 1 .. HeadAt(l, k) - 1 : l[j].k # k
<1> DEFINE I == {i \in 1 .. Len(l) : l[i].k = k}
<1>1. I # {} /\ I \subseteq Nat
  BY LenProperties DEF HasHead
<1>2. HeadAt(l, k) = Min(I)
  BY <1>1 DEF HeadAt, SelectInSeq
<1>3. Min(I) \in I /\ \A j \in I : Min(I) <= j
  BY <1>1, LeastPosition
<1>4. \A j \in 1 .. Min(I) - 1 : j \in 1 .. Len(l) /\ j \notin I
  BY <1>3, LenProperties
<1>5. QED
  BY <1>2, <1>3, <1>4

LEMMA HeadIs ==
  ASSUME NEW l \in Seq(Tokens), NEW k, NEW i \in 1 .. Len(l), l[i].k = k,
         \A j \in 1 .. i - 1 : l[j].k # k
  PROVE  HasHead(l, k) /\ HeadAt(l, k) = i
<1>1. HasHead(l, k)
  BY LenProperties DEF HasHead
<1>2. /\ HeadAt(l, k) \in 1 .. Len(l) /\ l[HeadAt(l, k)].k = k
      /\ \A j \in 1 .. HeadAt(l, k) - 1 : l[j].k # k
  BY <1>1, HeadFirst
<1>3. QED
  BY <1>1, <1>2, LenProperties

LEMMA NoHead ==
  ASSUME NEW l \in Seq(Tokens), NEW k
  PROVE  HasHead(l, k) <=> \E i \in 1 .. Len(l) : l[i].k = k
BY LenProperties DEF HasHead

(* A field is read from a token of the line. *)
LEMMA FieldType ==
  ASSUME NEW l \in Seq(Tokens), NEW k, HasHead(l, k), NEW n \in Nat
  PROVE  FieldOf(l, k, n) \in Tokens
<1>1. HeadAt(l, k) \in 1 .. Len(l) /\ Len(l) \in Nat
  BY HeadFirst, LenProperties
<1>2. QED
  BY <1>1, ElementOfSeq DEF FieldOf

(* What the receiver sends: its sentence of position and date comes first. *)
LEMMA BurstIs ==
  ASSUME NEW s \in 0 .. Secs - 1, NEW b, b = RMC(s) \o GGA(s)
  PROVE  /\ b \in Seq(Tokens) /\ Len(b) = 7
         /\ b[1] = [k |-> "RMC", s |-> s] /\ b[2] = [k |-> "pos", s |-> s]
         /\ b[3] = [k |-> "date", s |-> s] /\ b[4] = [k |-> "nl", s |-> s]
         /\ b[5] = [k |-> "GGA", s |-> s] /\ b[6] = [k |-> "high", s |-> s]
         /\ b[7] = [k |-> "nl", s |-> s]
<1> DEFINE r == RMC(s)
           g == GGA(s)
<1>1. \A k \in Kinds : [k |-> k, s |-> s] \in Tokens
  BY DEF Tokens
<1>2. /\ r \in Seq(Tokens) /\ Len(r) = 4
      /\ r[1] = [k |-> "RMC", s |-> s] /\ r[2] = [k |-> "pos", s |-> s]
      /\ r[3] = [k |-> "date", s |-> s] /\ r[4] = [k |-> "nl", s |-> s]
  BY <1>1 DEF RMC, Kinds
<1>3. /\ g \in Seq(Tokens) /\ Len(g) = 3
      /\ g[1] = [k |-> "GGA", s |-> s] /\ g[2] = [k |-> "high", s |-> s]
      /\ g[3] = [k |-> "nl", s |-> s]
  BY <1>1 DEF GGA, Kinds
<1> HIDE DEF r, g
<1> DEFINE z == r \o g
<1>4. /\ z \in Seq(Tokens) /\ Len(z) = Len(r) + Len(g)
      /\ \A j \in 1 .. Len(r) + Len(g) :
           z[j] = IF j <= Len(r) THEN r[j] ELSE g[j - Len(r)]
  <2>1. r \in Seq(Tokens) /\ g \in Seq(Tokens)
    BY <1>2, <1>3
  <2>2. QED
    BY <2>1, ConcatProperties
<1>5. b = z
  BY DEF r, g
<1> HIDE DEF z
<1>6. /\ z[1] = r[1] /\ z[2] = r[2] /\ z[3] = r[3] /\ z[4] = r[4]
      /\ z[5] = g[1] /\ z[6] = g[2] /\ z[7] = g[3] /\ Len(z) = 7
  <2>1. Len(r) = 4 /\ Len(g) = 3
    BY <1>2, <1>3
  <2>2. \A j \in 1 .. 7 : z[j] = IF j <= 4 THEN r[j] ELSE g[j - 4]
    BY <1>4, <2>1
  <2>3. QED
    BY <1>4, <2>1, <2>2
<1>7. QED
  BY <1>2, <1>3, <1>4, <1>5, <1>6, Zenon

LEMMA BurstHeads ==
  ASSUME NEW s \in 0 .. Secs - 1, NEW b, b = RMC(s) \o GGA(s)
  PROVE  b \in Seq(Tokens) /\ \A j \in 2 .. Len(b) : b[j].k # "RMC"
<1>1. /\ b \in Seq(Tokens) /\ Len(b) = 7
      /\ b[2].k = "pos" /\ b[3].k = "date" /\ b[4].k = "nl"
      /\ b[5].k = "GGA" /\ b[6].k = "high" /\ b[7].k = "nl"
  <2>1. /\ b \in Seq(Tokens) /\ Len(b) = 7
        /\ b[2] = [k |-> "pos", s |-> s]
        /\ b[3] = [k |-> "date", s |-> s] /\ b[4] = [k |-> "nl", s |-> s]
        /\ b[5] = [k |-> "GGA", s |-> s] /\ b[6] = [k |-> "high", s |-> s]
        /\ b[7] = [k |-> "nl", s |-> s]
    BY BurstIs, Zenon
  <2>2. QED
    BY <2>1
<1>2. \A j \in 2 .. 7 : j = 2 \/ j = 3 \/ j = 4 \/ j = 5 \/ j = 6 \/ j = 7
  OBVIOUS
<1>3. QED
  BY <1>1, <1>2

(* A token that is lost. *)
LEMMA Removed ==
  ASSUME NEW u \in Seq(Tokens), NEW i \in 1 .. Len(u)
  PROVE  /\ RemoveAt(u, i) \in Seq(Tokens) /\ Len(RemoveAt(u, i)) = Len(u) - 1
         /\ \A j \in 1 .. Len(u) - 1 :
              RemoveAt(u, i)[j] = IF j < i THEN u[j] ELSE u[j + 1]
<1> DEFINE a == SubSeq(u, 1, i - 1)
           b == SubSeq(u, i + 1, Len(u))
<1>1. Len(u) \in Nat
  BY LenProperties
<1>2. /\ a \in Seq(Tokens) /\ Len(a) = i - 1
      /\ \A j \in 1 .. i - 1 : a[j] = u[j]
  BY <1>1, SubSeqProperties
<1>3. /\ b \in Seq(Tokens) /\ Len(b) = Len(u) - i
      /\ \A j \in 1 .. Len(u) - i : b[j] = u[j + i]
  BY <1>1, SubSeqProperties
<1> HIDE DEF a, b
<1>4. /\ a \o b \in Seq(Tokens) /\ Len(a \o b) = Len(a) + Len(b)
      /\ \A j \in 1 .. Len(a) + Len(b) :
           (a \o b)[j] = IF j <= Len(a) THEN a[j] ELSE b[j - Len(a)]
  BY <1>2, <1>3, ConcatProperties
<1>5. ASSUME NEW j \in 1 .. Len(u) - 1
      PROVE  (a \o b)[j] = IF j < i THEN u[j] ELSE u[j + 1]
  <2>1. (a \o b)[j] = IF j <= i - 1 THEN a[j] ELSE b[j - (i - 1)]
    BY <1>1, <1>2, <1>3, <1>4
  <2>2. CASE j < i
    BY <1>2, <2>1, <2>2
  <2>3. CASE ~ (j < i)
    <3>1. j - (i - 1) \in 1 .. Len(u) - i /\ (j - (i - 1)) + i = j + 1
      BY <1>1, <2>3
    <3>2. b[j - (i - 1)] = u[(j - (i - 1)) + i]
      BY <1>3, <3>1
    <3>3. QED
      BY <2>1, <2>3, <3>1, <3>2
  <2>4. QED
    BY <2>2, <2>3
<1>6. Len(a \o b) = Len(u) - 1
  BY <1>1, <1>2, <1>3, <1>4
<1>7. QED
  BY <1>4, <1>5, <1>6 DEF RemoveAt, a, b

(* A byte that is read. *)
LEMMA TailIs ==
  ASSUME NEW u \in Seq(Tokens), u # <<>>
  PROVE  /\ Tail(u) \in Seq(Tokens) /\ Len(Tail(u)) = Len(u) - 1 /\ Len(u) \in Nat
         /\ Len(u) >= 1 /\ Head(u) = u[1] /\ u[1] \in Tokens
         /\ \A j \in 1 .. Len(u) - 1 : Tail(u)[j] = u[j + 1]
BY HeadTailProperties, EmptySeq, ElementOfSeq

LEMMA AppendIs ==
  ASSUME NEW l \in Seq(Tokens), NEW t \in Tokens
  PROVE  /\ Append(l, t) \in Seq(Tokens) /\ Len(Append(l, t)) = Len(l) + 1
         /\ Len(l) \in Nat /\ Append(l, t)[Len(l) + 1] = t
         /\ \A j \in 1 .. Len(l) : Append(l, t)[j] = l[j]
BY AppendProperties, LenProperties

-----------------------------------------------------------------------------
(* Lines and types.                                                        *)

(* RMC sentences begin a burst; a line that is handled has been read up to *)
(* its line feed, and a buffer that is read into has room for one.         *)
Handling == {"parse", "time", "place", "high"}
LineInv ==
  /\ gpsPc \in {"closed", "read"} \cup Handling
  /\ uart \in Seq(Tokens) /\ line \in Seq(Tokens) /\ sec \in 0 .. Secs - 1
  /\ \A j \in 2 .. Len(uart) : uart[j].k # "RMC"
  /\ Len(line) <= MaxLine /\ (gpsPc \in {"closed", "read"} => Len(line) < MaxLine)
  /\ gpsPc \in Handling => line # <<>> /\ line[Len(line)].k = "nl"
  /\ gpsPc \in {"time", "place"} => HasHead(line, "RMC")
  /\ gpsPc = "place" => /\ fix.time = FieldOf(line, "RMC", 0)
                        /\ fix.date = FieldOf(line, "RMC", 2)

(* The steps that begin a line, and those that touch no line. *)
LEMMA LineNew ==
  ASSUME LineInv, StartLine, uart' = uart, sec' = sec
  PROVE  LineInv'
<1>1. <<>> \in Seq(Tokens) /\ Len(<<>>) = 0
  BY EmptySeq
<1>2. gpsPc' = "read" /\ line' = <<>>
  BY DEF StartLine
<1>3. QED
  BY <1>1, <1>2 DEF LineInv, Handling

LEMMA LineSame ==
  ASSUME LineInv, UNCHANGED <<gpsPc, uart, line, sec, fix>>
  PROVE  LineInv'
BY DEF LineInv

LEMMA LineSend ==
  ASSUME LineInv, Send
  PROVE  LineInv'
<1> DEFINE b == RMC(sec) \o GGA(sec)
<1>1. b \in Seq(Tokens) /\ \A j \in 2 .. Len(b) : b[j].k # "RMC"
  BY BurstHeads DEF LineInv
<1> HIDE DEF b
<1>2. /\ uart' = b /\ sec' = (sec + 1) % Secs
      /\ UNCHANGED <<gpsPc, line, fix>> /\ gpsPc = "read"
  BY DEF Send, gps, b
<1>3. sec' \in 0 .. Secs - 1
  BY <1>2 DEF LineInv
<1>4. QED
  BY <1>1, <1>2, <1>3 DEF LineInv, Handling

LEMMA LineLose ==
  ASSUME LineInv, Lose
  PROVE  LineInv'
<1>1. uart \in Seq(Tokens) /\ Len(uart) \in Nat /\ DOMAIN uart = 1 .. Len(uart)
  BY LenProperties DEF LineInv
<1>2. PICK i \in 1 .. Len(uart) : uart' = RemoveAt(uart, i)
  BY <1>1 DEF Lose
<1>3. /\ uart' \in Seq(Tokens) /\ Len(uart') = Len(uart) - 1
      /\ \A j \in 1 .. Len(uart) - 1 :
           uart'[j] = IF j < i THEN uart[j] ELSE uart[j + 1]
  BY <1>1, <1>2, Removed
<1>4. \A j \in 2 .. Len(uart') : uart'[j].k # "RMC"
  BY <1>1, <1>3 DEF LineInv
<1>5. UNCHANGED <<gpsPc, line, sec, fix>>
  BY DEF Lose, gps
<1>6. QED
  BY <1>3, <1>4, <1>5 DEF LineInv

(* What ReadByte takes, and that the line grows by it. *)
LEMMA ReadParts ==
  ASSUME LineInv, ReadByte
  PROVE  /\ gpsPc = "read" /\ uart # <<>> /\ Len(uart) >= 1 /\ Len(uart) \in Nat
         /\ uart[1] \in Tokens
         /\ uart' \in Seq(Tokens) /\ Len(uart') = Len(uart) - 1
         /\ \A j \in 1 .. Len(uart) - 1 : uart'[j] = uart[j + 1]
         /\ sec' = sec /\ fix' = fix
         /\ \/ StartLine /\ uart[1].k # "nl" /\ Len(line) + 1 >= MaxLine
            \/ /\ line' = Append(line, uart[1])
               /\ line' \in Seq(Tokens) /\ Len(line') = Len(line) + 1
               /\ line'[Len(line) + 1] = uart[1]
               /\ \A j \in 1 .. Len(line) : line'[j] = line[j]
               /\ jumped' = jumped
               /\ gpsPc' = IF uart[1].k = "nl" THEN "parse" ELSE "read"
               /\ uart[1].k # "nl" => Len(line') < MaxLine
<1>1. gpsPc = "read" /\ uart # <<>> /\ uart' = Tail(uart) /\ sec' = sec /\ fix' = fix
  BY DEF ReadByte
<1>2. uart \in Seq(Tokens) /\ line \in Seq(Tokens)
  BY DEF LineInv
<1>3. /\ Tail(uart) \in Seq(Tokens) /\ Len(Tail(uart)) = Len(uart) - 1
      /\ Len(uart) \in Nat /\ Len(uart) >= 1
      /\ Head(uart) = uart[1] /\ uart[1] \in Tokens
      /\ \A j \in 1 .. Len(uart) - 1 : Tail(uart)[j] = uart[j + 1]
  BY <1>1, <1>2, TailIs
<1> DEFINE l == Append(line, uart[1])
<1>4. /\ l \in Seq(Tokens) /\ Len(l) = Len(line) + 1 /\ Len(line) \in Nat
      /\ l[Len(line) + 1] = uart[1] /\ \A j \in 1 .. Len(line) : l[j] = line[j]
  BY <1>2, <1>3, AppendIs
<1>5. \/ uart[1].k = "nl" /\ line' = l /\ gpsPc' = "parse" /\ jumped' = jumped
      \/ /\ uart[1].k # "nl" /\ Fits(l) /\ line' = l
         /\ gpsPc' = gpsPc /\ jumped' = jumped
      \/ uart[1].k # "nl" /\ ~ Fits(l) /\ StartLine
  BY <1>3 DEF ReadByte
<1> HIDE DEF l
<1>6. \/ line' = l /\ jumped' = jumped
           /\ gpsPc' = (IF uart[1].k = "nl" THEN "parse" ELSE "read")
           /\ (uart[1].k # "nl" => Len(l) < MaxLine)
      \/ uart[1].k # "nl" /\ Len(line) + 1 >= MaxLine /\ StartLine
  BY <1>1, <1>4, <1>5 DEF Fits
<1>7. QED
  BY <1>1, <1>3, <1>4, <1>6 DEF l

LEMMA LineRead ==
  ASSUME LineInv, ReadByte
  PROVE  LineInv'
<1>1. \A j \in 2 .. Len(uart') : uart'[j].k # "RMC"
  <2>1. /\ Len(uart') = Len(uart) - 1 /\ Len(uart) \in Nat
        /\ \A j \in 1 .. Len(uart) - 1 : uart'[j] = uart[j + 1]
    BY ReadParts
  <2>2. \A j \in 2 .. Len(uart) : uart[j].k # "RMC"
    BY DEF LineInv
  <2>3. QED
    BY <2>1, <2>2
<1>2. CASE StartLine
  <2>1. /\ uart' \in Seq(Tokens) /\ sec' = sec /\ gpsPc' = "read" /\ line' = <<>>
        /\ <<>> \in Seq(Tokens) /\ Len(<<>>) = 0
    BY <1>2, ReadParts, EmptySeq DEF StartLine
  <2>2. QED
    BY <1>1, <2>1 DEF LineInv, Handling
<1>3. CASE ~ StartLine
  <2>1. /\ uart' \in Seq(Tokens) /\ line' \in Seq(Tokens) /\ sec' = sec
        /\ Len(line') = Len(line) + 1 /\ line'[Len(line')] = uart[1]
        /\ gpsPc' = IF uart[1].k = "nl" THEN "parse" ELSE "read"
        /\ uart[1].k # "nl" => Len(line') < MaxLine
        /\ Len(line) < MaxLine /\ Len(line) \in Nat
    BY <1>3, ReadParts, LenProperties DEF LineInv
  <2>2. line' # <<>>
    BY <2>1, EmptySeq
  <2>3. Len(line') <= MaxLine
    BY <2>1
  <2>4. QED
    BY <1>1, <2>1, <2>2, <2>3 DEF LineInv, Handling
<1>4. QED
  BY <1>2, <1>3

LEMMA LineStep == LineInv /\ [Next]_vars => LineInv'
<1> SUFFICES ASSUME LineInv, [Next]_vars PROVE LineInv'
  OBVIOUS
<1>1. CASE \/ OpenDevice \/ Timeout \/ ReadError \/ ParseOther \/ ParsePlace
           \/ ParseHigh
  <2>1. uart' = uart /\ sec' = sec /\ (StartLine \/ UNCHANGED <<gpsPc, line, fix>>)
    BY <1>1 DEF OpenDevice, Timeout, NumAtTimeout, ReadError, ParseOther,
      ParsePlace, ParseHigh, env
  <2>2. QED
    BY <2>1, LineNew, LineSame
<1>2. CASE \/ SwitchOff \/ SwitchOn \/ TakeLock \/ CopyTime \/ CopyPlace
           \/ SetClock \/ WriteFifo \/ Wake \/ ReadFifo \/ UNCHANGED vars
  BY <1>2, LineSame DEF SwitchOff, SwitchOn, TakeLock, CopyTime, CopyPlace,
    SetClock, WriteFifo, Wake, ReadFifo, vars, env, gps
<1>3. CASE ParseLock
  BY <1>3 DEF ParseLock, LineInv, Handling, env
<1>4. CASE ParseTime
  BY <1>4 DEF ParseTime, LineInv, Handling, env
<1>5. QED
  BY <1>1, <1>2, <1>3, <1>4, LineSend, LineLose, LineRead
  DEF Next, GpsTask, MainTask, Receiver

(* The fix, its copy, and what is left. *)
Fixes == [{"time", "date", "place"} -> Tokens \cup {Junk}]
FixType == fix \in Fixes /\ whole \in Fixes /\ info \in Fixes

CtlType ==
  /\ receiver \in {"on", "off"} /\ lock \in {"free", "gps", "main"}
  /\ mainPc \in {"take", "copyTime", "copyPlace", "set", "write", "sleep"}
FlagType ==
  /\ jumped \in BOOLEAN /\ fresh \in BOOLEAN /\ excused \in BOOLEAN
  /\ behind \in BOOLEAN
CountType ==
  /\ bursts \in 0 .. PerRound /\ faults \in 0 .. MaxFaults
  /\ spoiled \in Nat /\ fifo <= FifoCap

LEMMA FixStep == LineInv /\ FixType /\ [Next]_vars => FixType'
<1> SUFFICES ASSUME LineInv, FixType, [Next]_vars PROVE FixType'
  OBVIOUS
<1>1. CASE UNCHANGED <<fix, whole, info>>
  BY <1>1 DEF FixType
<1>2. CASE ParseTime
  <2>1. FieldOf(line, "RMC", 0) \in Tokens /\ FieldOf(line, "RMC", 2) \in Tokens
    BY <1>2, FieldType DEF ParseTime, LineInv
  <2>2. fix' = [fix EXCEPT !.time = FieldOf(line, "RMC", 0),
                           !.date = FieldOf(line, "RMC", 2)]
        /\ whole' = whole /\ info' = info
    BY <1>2 DEF ParseTime, main
  <2>3. QED
    BY <2>1, <2>2 DEF FixType, Fixes
<1>3. CASE ParsePlace
  <2>1. FieldOf(line, "RMC", 1) \in Tokens
    BY <1>3, FieldType DEF ParsePlace, LineInv
  <2>2. fix' = [fix EXCEPT !.place = FieldOf(line, "RMC", 1)]
        /\ whole' = fix' /\ info' = info
    BY <1>3 DEF ParsePlace, main
  <2>3. QED
    BY <2>1, <2>2 DEF FixType, Fixes
<1>4. CASE CopyTime
  BY <1>4 DEF CopyTime, gps, FixType, Fixes
<1>5. CASE CopyPlace
  BY <1>5 DEF CopyPlace, FixType, Fixes
<1>6. QED
  BY <1>1, <1>2, <1>3, <1>4, <1>5 DEF Next, GpsTask, MainTask, Receiver, Send,
    Lose, SwitchOff, SwitchOn, OpenDevice, ReadByte, Timeout, ReadError,
    ParseOther, ParseLock, ParseHigh, TakeLock, SetClock, WriteFifo, Wake,
    ReadFifo, vars, gps, main

LEMMA CtlStep == CtlType /\ [Next]_vars => CtlType'
BY DEF CtlType, Next, GpsTask, MainTask, Receiver, Send, Lose, SwitchOff,
  SwitchOn,
  OpenDevice, ReadByte, Timeout, ReadError, ParseOther, ParseLock, ParseTime,
  ParsePlace, ParseHigh, TakeLock, CopyTime, CopyPlace, SetClock, WriteFifo,
  Wake, ReadFifo, vars, env, gps, main, pipe

LEMMA FlagStep == FlagType /\ [Next]_vars => FlagType'
<1> SUFFICES ASSUME FlagType, [Next]_vars PROVE FlagType'
  OBVIOUS
<1>1. jumped' \in {jumped, TRUE, FALSE} /\ fresh' \in {fresh, TRUE, FALSE}
  BY DEF StartLine, JumpedAtStart, Next, GpsTask, MainTask, Receiver, Send,
    Lose, SwitchOff, SwitchOn,
    OpenDevice, ReadByte, Timeout, ReadError, ParseOther, ParseLock, ParseTime,
    ParsePlace, ParseHigh, TakeLock, CopyTime, CopyPlace, SetClock, WriteFifo,
    Wake, ReadFifo, vars, env, gps, main, pipe
<1>2. excused' \in BOOLEAN
  BY DEF Fault, FlagType, Next, GpsTask, MainTask, Receiver, Send, Lose,
    SwitchOff, SwitchOn,
    OpenDevice, ReadByte, Timeout, ReadError, ParseOther, ParseLock, ParseTime,
    ParsePlace, ParseHigh, TakeLock, CopyTime, CopyPlace, SetClock, WriteFifo,
    Wake, ReadFifo, vars, env, gps, main, pipe
<1>3. behind' \in BOOLEAN
  BY DEF FlagType, Next, GpsTask, MainTask, Receiver, Send, Lose, SwitchOff,
    SwitchOn,
    OpenDevice, ReadByte, Timeout, ReadError, ParseOther, ParseLock, ParseTime,
    ParsePlace, ParseHigh, TakeLock, CopyTime, CopyPlace, SetClock, WriteFifo,
    Wake, ReadFifo, vars, env, gps, main, pipe
<1>4. QED
  BY <1>1, <1>2, <1>3 DEF FlagType

LEMMA CountStep == CountType /\ FifoInv /\ [Next]_vars => CountType'
<1> SUFFICES ASSUME CountType, FifoInv, [Next]_vars PROVE CountType'
  OBVIOUS
<1>1. bursts' \in 0 .. PerRound
  BY DEF CountType, Next, GpsTask, MainTask, Receiver, Send, Lose, SwitchOff,
    SwitchOn,
    OpenDevice, ReadByte, Timeout, ReadError, ParseOther, ParseLock, ParseTime,
    ParsePlace, ParseHigh, TakeLock, CopyTime, CopyPlace, SetClock, WriteFifo,
    Wake, ReadFifo, vars, env, gps, main, pipe
<1>2. faults' \in 0 .. MaxFaults
  BY DEF Fault, CountType, Next, GpsTask, MainTask, Receiver, Send, Lose,
    SwitchOff, SwitchOn,
    OpenDevice, ReadByte, Timeout, ReadError, ParseOther, ParseLock, ParseTime,
    ParsePlace, ParseHigh, TakeLock, CopyTime, CopyPlace, SetClock, WriteFifo,
    Wake, ReadFifo, vars, env, gps, main, pipe
<1>3. spoiled' \in {spoiled, spoiled + 1}
  BY DEF Next, GpsTask, MainTask, Receiver, Send, Lose, SwitchOff, SwitchOn,
    OpenDevice, ReadByte, Timeout, ReadError, ParseOther, ParseLock, ParseTime,
    ParsePlace, ParseHigh, TakeLock, CopyTime, CopyPlace, SetClock, WriteFifo,
    Wake, ReadFifo, vars, env, gps, main, pipe
<1>4. fifo' <= FifoCap
  BY DEF FifoInv, CountType, Chunk, ReadSize, Next, GpsTask, MainTask,
    Receiver, Send, Lose, SwitchOff, SwitchOn,
    OpenDevice, ReadByte, Timeout, ReadError, ParseOther, ParseLock, ParseTime,
    ParsePlace, ParseHigh, TakeLock, CopyTime, CopyPlace, SetClock, WriteFifo,
    Wake, ReadFifo, vars, env, gps, main, pipe
<1>5. QED
  BY <1>1, <1>2, <1>3, <1>4 DEF CountType

TypeInv ==
  LineInv /\ FixType /\ CtlType /\ FlagType /\ CountType /\ FifoInv

LEMMA TypeInit == Init => TypeInv
<1> SUFFICES ASSUME Init PROVE TypeInv
  OBVIOUS
<1>1. /\ <<>> \in Seq(Tokens) /\ Len(<<>>) = 0 /\ 0 \in 0 .. Secs - 1
      /\ \A j \in 2 .. 0 : FALSE
  BY EmptySeq
<1>2. LineInv
  BY <1>1 DEF Init, LineInv, Handling
<1>3. FixType
  BY DEF Init, FixType, Fixes, NoFix
<1>4. CtlType /\ FlagType
  BY DEF Init, CtlType, FlagType
<1>5. CountType
  BY DEF Init, CountType
<1>6. FifoInv
  BY DEF Init, FifoInv, Message
<1>7. QED
  BY <1>2, <1>3, <1>4, <1>5, <1>6 DEF TypeInv

LEMMA TypeStep == TypeInv /\ [Next]_vars => TypeInv'
BY LineStep, FixStep, CtlStep, FlagStep, CountStep, FifoStep DEF TypeInv

(* TypeOK holds: a line fits its buffer (ReadString), what the parser      *)
(* copies from it are tokens of it, the FIFO never overflows.              *)
THEOREM TypeCorrect == Spec => []TypeOK
<1>1. TypeInv => TypeOK
  BY DEF TypeInv, LineInv, FixType, Fixes, CtlType, FlagType, CountType,
    FifoInv, Handling, TypeOK
<1>2. QED
  BY <1>1, TypeInit, TypeStep, PTL DEF Spec

-----------------------------------------------------------------------------
(* Spoiled fixes.                                                          *)

(* Position j of what is in the buffer l and behind it on the wire u, and  *)
(* whether the RMC sentence whose head is there is complete.               *)
Stream(l, u, j) == IF j <= Len(l) THEN l[j] ELSE u[j - Len(l)]
Complete(l, u, j) ==
  /\ j + 2 <= Len(l) + Len(u)
  /\ Stream(l, u, j + 1).k = "pos" /\ Stream(l, u, j + 2).k = "date"
  /\ Stream(l, u, j + 1).s = Stream(l, u, j).s
  /\ Stream(l, u, j + 2).s = Stream(l, u, j).s

(* The RMC sentence the parser will find in the line, or the one that      *)
(* comes next, is not complete: each of them has cost a fault and will     *)
(* spoil a fix at most.                                                    *)
BadLine(l, u) == HasHead(l, "RMC") /\ ~ Complete(l, u, HeadAt(l, "RMC"))
BadNext(u)    == u # <<>> /\ u[1].k = "RMC" /\ ~ Complete(<<>>, u, 1)
Bad(l, u)     == (IF BadLine(l, u) THEN 1 ELSE 0) + (IF BadNext(u) THEN 1 ELSE 0)
SpoiledInv    == spoiled + Bad(line, uart) <= faults

LEMMA BadType ==
  \A l, u : Bad(l, u) \in 0 .. 2 /\ (~ BadLine(l, u) /\ ~ BadNext(u) => Bad(l, u) = 0)
BY DEF Bad

(* A line that begins has no head. *)
LEMMA BadNew ==
  ASSUME NEW l \in Seq(Tokens), NEW u \in Seq(Tokens)
  PROVE  ~ BadLine(<<>>, u) /\ Bad(<<>>, u) <= Bad(l, u)
<1>1. ~ BadLine(<<>>, u)
  BY EmptySeq DEF BadLine, HasHead
<1>2. QED
  BY <1>1 DEF Bad

(* A burst is complete, and completes no other sentence's loss. *)
LEMMA BadSend ==
  ASSUME NEW l \in Seq(Tokens), NEW s \in 0 .. Secs - 1,
         NEW b, b = RMC(s) \o GGA(s)
  PROVE  Bad(l, b) <= Bad(l, <<>>)
<1>1. /\ b \in Seq(Tokens) /\ Len(b) = 7
      /\ b[1] = [k |-> "RMC", s |-> s] /\ b[2] = [k |-> "pos", s |-> s]
      /\ b[3] = [k |-> "date", s |-> s]
  BY BurstIs, Zenon
<1>2. Len(<<>>) = 0 /\ Len(l) \in Nat
  BY EmptySeq, LenProperties
<1>3. ~ BadNext(b)
  <2>1. Complete(<<>>, b, 1)
    BY <1>1, <1>2 DEF Complete, Stream
  <2>2. QED
    BY <2>1 DEF BadNext
<1>4. ASSUME BadLine(l, b) PROVE BadLine(l, <<>>)
  <2> DEFINE h == HeadAt(l, "RMC")
  <2>1. HasHead(l, "RMC") /\ ~ Complete(l, b, h)
    BY <1>4 DEF BadLine
  <2>2. h \in 1 .. Len(l)
    BY <2>1, HeadFirst
  <2> HIDE DEF h
  <2>3. ASSUME Complete(l, <<>>, h) PROVE Complete(l, b, h)
    BY <1>1, <1>2, <2>2, <2>3 DEF Complete, Stream
  <2>4. QED
    BY <2>1, <2>3 DEF BadLine, h
<1>5. QED
  BY <1>3, <1>4 DEF Bad

(* A token that is lost breaks one sentence at most. *)
LEMMA BadLose ==
  ASSUME NEW l \in Seq(Tokens), NEW u \in Seq(Tokens), NEW i \in 1 .. Len(u),
         \A j \in 2 .. Len(u) : u[j].k # "RMC"
  PROVE  Bad(l, RemoveAt(u, i)) <= Bad(l, u) + 1
<1> DEFINE v == RemoveAt(u, i)
           h == HeadAt(l, "RMC")
<1>1. /\ v \in Seq(Tokens) /\ Len(v) = Len(u) - 1 /\ Len(u) \in Nat /\ Len(l) \in Nat
      /\ \A j \in 1 .. Len(u) - 1 : v[j] = IF j < i THEN u[j] ELSE u[j + 1]
  BY Removed, LenProperties
<1> HIDE DEF v
<1>2. ASSUME BadLine(l, v), ~ BadLine(l, u) PROVE ~ BadNext(v)
  <2>1. HasHead(l, "RMC") /\ ~ Complete(l, v, h) /\ Complete(l, u, h)
    BY <1>2 DEF BadLine
  <2>2. h \in 1 .. Len(l)
    BY <2>1, HeadFirst
  <2> HIDE DEF h
  <2>3. ~ (h + 2 <= Len(l))
    <3>1. SUFFICES ASSUME h + 2 <= Len(l) PROVE Complete(l, v, h)
      BY <2>1
    <3>2. QED
      BY <1>1, <2>1, <2>2, <3>1 DEF Complete, Stream
  <2>4. u[1].k # "RMC"
    <3>1. CASE h = Len(l)
      <4>1. Stream(l, u, h + 1) = u[1]
        BY <1>1, <3>1 DEF Stream
      <4>2. QED
        BY <2>1, <4>1 DEF Complete
    <3>2. CASE h + 1 = Len(l)
      <4>1. Stream(l, u, h + 2) = u[1]
        BY <1>1, <2>2, <3>2 DEF Stream
      <4>2. QED
        BY <2>1, <4>1 DEF Complete
    <3>3. QED
      BY <1>1, <2>2, <2>3, <3>1, <3>2
  <2>5. v # <<>> => Len(v) >= 1
    BY <1>1, EmptySeq
  <2>6. v # <<>> => v[1].k # "RMC"
    BY <1>1, <2>4, <2>5
  <2>7. QED
    BY <2>6 DEF BadNext
<1>3. QED
  BY <1>2 DEF Bad, v

(* What is read stays what it is. *)
LEMMA BadRead ==
  ASSUME NEW l \in Seq(Tokens), NEW u \in Seq(Tokens), u # <<>>,
         \A j \in 2 .. Len(u) : u[j].k # "RMC"
  PROVE  /\ ~ BadNext(Tail(u))
         /\ Bad(Append(l, u[1]), Tail(u)) <= Bad(l, u)
<1> DEFINE v == Tail(u)
           m == Append(l, u[1])
           h == HeadAt(l, "RMC")
           g == HeadAt(m, "RMC")
<1>1. /\ v \in Seq(Tokens) /\ Len(v) = Len(u) - 1 /\ Len(u) \in Nat /\ Len(u) >= 1
      /\ u[1] \in Tokens /\ \A j \in 1 .. Len(u) - 1 : v[j] = u[j + 1]
  BY TailIs
<1>2. /\ m \in Seq(Tokens) /\ Len(m) = Len(l) + 1 /\ Len(l) \in Nat
      /\ m[Len(l) + 1] = u[1] /\ \A j \in 1 .. Len(l) : m[j] = l[j]
  BY <1>1, AppendIs
<1> HIDE DEF v, m
<1>3. ~ BadNext(v)
  <2>1. v # <<>> => Len(v) >= 1
    BY <1>1, EmptySeq
  <2>2. QED
    BY <1>1, <2>1 DEF BadNext
<1>4. \A j \in 1 .. Len(l) + Len(u) : Stream(m, v, j) = Stream(l, u, j)
  <2>1. ASSUME NEW j \in 1 .. Len(l) + Len(u)
        PROVE  Stream(m, v, j) = Stream(l, u, j)
    <3>1. CASE j <= Len(l)
      BY <1>2, <3>1 DEF Stream
    <3>2. CASE j = Len(l) + 1
      BY <1>2, <3>2 DEF Stream
    <3>3. CASE j > Len(l) + 1
      <4>1. j - Len(m) \in 1 .. Len(u) - 1 /\ j - Len(m) + 1 = j - Len(l)
        BY <1>1, <1>2, <3>3
      <4>2. v[j - Len(m)] = u[j - Len(l)]
        BY <1>1, <4>1
      <4>3. QED
        BY <1>2, <3>3, <4>2 DEF Stream
    <3>4. QED
      BY <1>2, <3>1, <3>2, <3>3
  <2>2. QED
    BY <2>1
<1>5. \A j \in 1 .. Len(l) + 1 : Complete(m, v, j) <=> Complete(l, u, j)
  <2>1. ASSUME NEW j \in 1 .. Len(l) + 1
        PROVE  Complete(m, v, j) <=> Complete(l, u, j)
    <3>1. j + 2 <= Len(m) + Len(v) <=> j + 2 <= Len(l) + Len(u)
      BY <1>1, <1>2
    <3>2. j + 2 <= Len(l) + Len(u) =>
            j + 1 \in 1 .. Len(l) + Len(u) /\ j + 2 \in 1 .. Len(l) + Len(u)
      BY <1>1, <1>2
    <3>3. Stream(m, v, j) = Stream(l, u, j)
      BY <1>1, <1>2, <1>4
    <3>4. QED
      BY <1>4, <3>1, <3>2, <3>3, Zenon DEF Complete
  <2>2. QED
    BY <2>1
<1>6. ASSUME BadLine(m, v) PROVE BadLine(l, u) \/ BadNext(u)
  <2>1. /\ HasHead(m, "RMC") /\ ~ Complete(m, v, g)
        /\ g \in 1 .. Len(m) /\ m[g].k = "RMC"
        /\ \A j \in 1 .. g - 1 : m[j].k # "RMC"
    BY <1>2, <1>6, HeadFirst DEF BadLine
  <2> HIDE DEF g
  <2>2. CASE g <= Len(l)
    <3>1. HasHead(l, "RMC") /\ h = g
      <4>1. g \in 1 .. Len(l) /\ l[g].k = "RMC" /\ \A j \in 1 .. g - 1 : l[j].k # "RMC"
        BY <1>2, <2>1, <2>2
      <4>2. QED
        BY <4>1, HeadIs
    <3>2. QED
      BY <1>2, <1>5, <2>1, <3>1 DEF BadLine
  <2>3. CASE g = Len(l) + 1
    <3>1. u[1].k = "RMC"
      BY <1>2, <2>1, <2>3
    <3>2. ~ Complete(l, u, Len(l) + 1)
      BY <1>2, <1>5, <2>1, <2>3
    <3>3. ~ Complete(<<>>, u, 1)
      <4>1. /\ Stream(l, u, Len(l) + 1) = u[1] /\ Stream(l, u, Len(l) + 1 + 1) = u[2]
            /\ Stream(l, u, Len(l) + 1 + 2) = u[3]
        BY <1>2 DEF Stream
      <4>2. /\ Stream(<<>>, u, 1) = u[1] /\ Stream(<<>>, u, 1 + 1) = u[2]
            /\ Stream(<<>>, u, 1 + 2) = u[3] /\ Len(<<>>) = 0
        BY EmptySeq DEF Stream
      <4>3. Len(l) + 1 + 2 <= Len(l) + Len(u) <=> 1 + 2 <= 0 + Len(u)
        BY <1>1, <1>2
      <4>4. QED
        BY <3>2, <4>1, <4>2, <4>3, Zenon DEF Complete
    <3>4. QED
      BY <3>1, <3>3 DEF BadNext
  <2>4. QED
    BY <1>2, <2>1, <2>2, <2>3
<1>7. QED
  BY <1>3, <1>6 DEF Bad, v, m

(* The parser takes the fix from the first sentence of the line. *)
LEMMA BadParsed ==
  ASSUME LineInv, ParsePlace, ~ BadLine(line, uart), IsFix(fix)
  PROVE  OfOneSentence(fix')
<1> DEFINE h == HeadAt(line, "RMC")
<1>1. /\ gpsPc = "place" /\ HasHead(line, "RMC") /\ Complete(line, uart, h)
      /\ line \in Seq(Tokens) /\ Len(line) \in Nat /\ line[Len(line)].k = "nl"
      /\ fix.time = FieldOf(line, "RMC", 0) /\ fix.date = FieldOf(line, "RMC", 2)
  BY LenProperties DEF ParsePlace, LineInv, BadLine, Handling
<1>2. h \in 1 .. Len(line) /\ line[h].k = "RMC"
  BY <1>1, HeadFirst
<1>3. /\ fix'.time = fix.time /\ fix'.date = fix.date
      /\ fix'.place = FieldOf(line, "RMC", 1)
  BY DEF ParsePlace, IsFix
<1>4. \A n \in Nat : FieldOf(line, "RMC", n) =
                       IF h + n < Len(line) THEN line[h + n] ELSE line[h]
  BY DEF FieldOf
<1> HIDE DEF h
<1>5. h # Len(line)
  BY <1>1, <1>2
<1>6. Stream(line, uart, h + 1) = line[h + 1] /\ Stream(line, uart, h) = line[h]
  BY <1>1, <1>2, <1>5 DEF Stream
<1>7. line[h + 1].k = "pos" /\ line[h + 1].s = line[h].s
  BY <1>1, <1>6 DEF Complete
<1>8. h + 1 # Len(line)
  BY <1>1, <1>7
<1>9. Stream(line, uart, h + 2) = line[h + 2]
  BY <1>1, <1>2, <1>5, <1>8 DEF Stream
<1>10. line[h + 2].k = "date" /\ line[h + 2].s = line[h].s
  BY <1>1, <1>6, <1>9 DEF Complete
<1>11. h + 2 # Len(line)
  BY <1>1, <1>10
<1>12. h + 2 < Len(line) /\ h + 1 < Len(line) /\ h + 0 = h
  BY <1>1, <1>2, <1>5, <1>8, <1>11
<1>13. /\ FieldOf(line, "RMC", 0) = line[h]
       /\ FieldOf(line, "RMC", 1) = line[h + 1]
       /\ FieldOf(line, "RMC", 2) = line[h + 2]
  BY <1>4, <1>12
<1>14. QED
  BY <1>1, <1>2, <1>3, <1>7, <1>10, <1>13 DEF OfOneSentence

LEMMA SpoiledStep ==
  ASSUME TypeInv, LockInv, SpoiledInv, [Next]_vars
  PROVE  SpoiledInv'
<1>1. /\ line \in Seq(Tokens) /\ uart \in Seq(Tokens) /\ sec \in 0 .. Secs - 1
      /\ \A j \in 2 .. Len(uart) : uart[j].k # "RMC"
      /\ spoiled \in Nat /\ faults \in Nat
  BY DEF TypeInv, LineInv, CountType
<1>2. Bad(line, uart) \in 0 .. 2
  BY BadType
<1> DEFINE B == Bad(line, uart)
<1>3. spoiled + B <= faults
  BY DEF SpoiledInv
<1>4. SUFFICES spoiled' + Bad(line', uart') <= faults'
  BY DEF SpoiledInv
<1> HIDE DEF B
<1>5. CASE UNCHANGED <<line, uart, spoiled, faults>>
  BY <1>3, <1>5 DEF B
<1>6. CASE SwitchOff
  <2>1. UNCHANGED <<line, uart, spoiled>> /\ faults' = faults + 1
    BY <1>6 DEF SwitchOff, Fault, gps
  <2>2. Bad(line', uart') = B
    BY <2>1 DEF B
  <2>3. QED
    BY <1>1, <1>2, <1>3, <2>1, <2>2 DEF B
<1>7. CASE \/ OpenDevice \/ Timeout \/ ReadError \/ ParseOther \/ ParseHigh
  <2>1. /\ uart' = uart /\ spoiled' = spoiled /\ faults' \in {faults, faults + 1}
        /\ line' = <<>> \/ line' = line
    BY <1>7 DEF OpenDevice, Timeout, NumAtTimeout, ReadError, ParseOther,
      ParseHigh, StartLine, Fault, env
  <2>2. Bad(line', uart') <= B /\ Bad(line', uart') \in 0 .. 2
    <3>1. Bad(<<>>, uart) <= B /\ Bad(<<>>, uart) \in 0 .. 2
      BY <1>1, BadNew, BadType DEF B
    <3>2. QED
      BY <1>1, <1>2, <2>1, <3>1 DEF B
  <2>3. QED
    BY <1>1, <1>2, <1>3, <2>1, <2>2 DEF B
<1>8. CASE Send
  <2>1. /\ uart = <<>> /\ uart' = RMC(sec) \o GGA(sec)
        /\ UNCHANGED <<line, spoiled, faults>>
    BY <1>8 DEF Send, gps
  <2>2. Bad(line, uart') <= Bad(line, <<>>)
    BY <1>1, <2>1, BadSend
  <2>3. Bad(line', uart') <= B /\ Bad(line', uart') \in 0 .. 2
    BY <2>1, <2>2, BadType DEF B
  <2>4. QED
    BY <1>1, <1>2, <1>3, <2>1, <2>3 DEF B
<1>9. CASE Lose
  <2>1. PICK i \in DOMAIN uart : uart' = RemoveAt(uart, i)
    BY <1>9 DEF Lose
  <2>2. i \in 1 .. Len(uart)
    BY <1>1, LenProperties
  <2>3. UNCHANGED <<line, spoiled>> /\ faults' = faults + 1
    BY <1>9 DEF Lose, Fault, gps
  <2>4. Bad(line, RemoveAt(uart, i)) <= B + 1
    BY <1>1, <2>2, BadLose DEF B
  <2>5. Bad(line', uart') <= B + 1 /\ Bad(line', uart') \in 0 .. 2
    BY <2>1, <2>3, <2>4, BadType
  <2>6. QED
    BY <1>1, <1>2, <1>3, <2>3, <2>5 DEF B
<1>10. CASE ReadByte
  <2>1. /\ uart # <<>> /\ uart' = Tail(uart) /\ UNCHANGED <<spoiled, faults>>
        /\ line' = Append(line, Head(uart)) \/ line' = <<>>
    BY <1>10 DEF ReadByte, StartLine
  <2>2. Head(uart) = uart[1] /\ Tail(uart) \in Seq(Tokens)
    BY <1>1, <2>1, TailIs
  <2>3. ~ BadNext(uart') /\ Bad(Append(line, uart[1]), Tail(uart)) <= B
    BY <1>1, <2>1, BadRead DEF B
  <2>4. Bad(line', uart') <= B /\ Bad(line', uart') \in 0 .. 2
    <3>1. CASE line' = <<>>
      <4>1. Bad(line', uart') = 0
        BY <2>1, <2>2, <2>3, <3>1, BadNew, BadType
      <4>2. QED
        BY <1>2, <4>1 DEF B
    <3>2. CASE line' = Append(line, uart[1])
      BY <2>1, <2>3, <3>2, BadType
    <3>3. QED
      BY <2>1, <2>2, <3>1, <3>2
  <2>5. QED
    BY <1>1, <1>2, <1>3, <2>1, <2>4 DEF B
<1>11. CASE ParsePlace
  <2>1. /\ uart' = uart /\ faults' = faults /\ line' = <<>>
        /\ spoiled' = IF OfOneSentence(fix') THEN spoiled ELSE spoiled + 1
    BY <1>11 DEF ParsePlace, StartLine, env
  <2>2. ~ BadLine(<<>>, uart) /\ Bad(<<>>, uart) <= B
    BY <1>1, BadNew DEF B
  <2>3. Bad(line', uart') <= B /\ Bad(line', uart') \in 0 .. 2
    BY <2>1, <2>2, BadType
  <2>4. CASE BadLine(line, uart)
    <3>1. Bad(<<>>, uart) + 1 <= B
      BY <2>2, <2>4 DEF Bad, B
    <3>2. QED
      BY <1>1, <1>2, <1>3, <2>1, <2>3, <3>1 DEF B
  <2>5. CASE ~ BadLine(line, uart)
    <3>1. OfOneSentence(fix')
      BY <1>11, <2>5, BadParsed DEF TypeInv, LockInv
    <3>2. spoiled' = spoiled
      BY <2>1, <3>1
    <3>3. QED
      BY <1>1, <1>2, <1>3, <2>1, <2>3, <3>2 DEF B
  <2>6. QED
    BY <2>4, <2>5
<1>12. QED
  BY <1>5, <1>6, <1>7, <1>8, <1>9, <1>10, <1>11 DEF Next, GpsTask, MainTask,
    Receiver, SwitchOn, ParseLock, ParseTime, TakeLock, CopyTime, CopyPlace,
    SetClock, WriteFifo, Wake, ReadFifo, vars, env, gps

(* SpoiledByFaults holds: however lines are cut by timeouts, errors and    *)
(* the clock (ReadString), no more fixes are put together from two         *)
(* sentences than there were faults.                                       *)
THEOREM SpoiledFew == Spec => []SpoiledByFaults
<1>1. Init => SpoiledInv
  <2> SUFFICES ASSUME Init PROVE SpoiledInv
    OBVIOUS
  <2>1. line = <<>> /\ uart = <<>> /\ spoiled = 0 /\ faults = 0
    BY DEF Init
  <2>2. ~ BadLine(<<>>, <<>>) /\ ~ BadNext(<<>>)
    BY EmptySeq DEF BadLine, HasHead, BadNext
  <2>3. Bad(line, uart) = 0
    BY <2>1, <2>2, BadType
  <2>4. QED
    BY <2>1, <2>3 DEF SpoiledInv
<1>2. TypeInv /\ LockInv /\ SpoiledInv /\ [Next]_vars => SpoiledInv'
  BY SpoiledStep
<1>3. TypeInv /\ SpoiledInv => SpoiledByFaults
  BY BadType DEF TypeInv, CountType, SpoiledInv, SpoiledByFaults
<1>4. QED
  BY <1>1, <1>2, <1>3, TypeInit, TypeStep, LockInit, LockStep, PTL DEF Spec

-----------------------------------------------------------------------------
(* A new fix in each round.                                                *)

(* The rest of the wire ends a line; the line has been read and the next   *)
(* one begins, with its own time; the next line will be an RMC sentence.   *)
Ends  == uart # <<>> /\ uart[Len(uart)].k = "nl"
Clean == gpsPc = "read" /\ line = <<>> /\ jumped = FALSE
Ahead ==
  /\ gpsPc = "read" /\ jumped = FALSE
  /\ Len(line) <= 3 /\ Len(line) + Len(uart) >= 4
  /\ Stream(line, uart, 1).k = "RMC" /\ Stream(line, uart, 2).k # "nl"
  /\ Stream(line, uart, 3).k # "nl" /\ Stream(line, uart, 4).k = "nl"
Found == gpsPc \in {"parse", "time", "place"} /\ HasHead(line, "RMC")

(* Where the main loop has taken a fix and there has been neither a fault  *)
(* nor another fix since: of the bursts sent while it sleeps the first may *)
(* be cut, but the line is empty when it has been read, and the fix of the *)
(* second one comes before the third is sent.                              *)
Waiting == ~ fresh /\ ~ excused
Working == receiver = "on" /\ gpsPc # "closed"
Bursts ==
  /\ bursts \in 0 .. 2
  /\ bursts = 1 => Ends \/ (uart = <<>> /\ (gpsPc \in Handling \/ Clean))
  /\ bursts = 2 => Ahead \/ Found
RoundInv ==
  Waiting => /\ mainPc \in {"set", "write", "sleep"} /\ Working
             /\ mainPc = "sleep" => Bursts

(* The steps of a burst that is sent, and of a line. *)
LEMMA BurstsSend ==
  ASSUME TypeInv, Bursts, Send
  PROVE  Bursts'
<1> DEFINE b == RMC(sec) \o GGA(sec)
<1>1. /\ b \in Seq(Tokens) /\ Len(b) = 7
      /\ b[1].k = "RMC" /\ b[2].k = "pos" /\ b[3].k = "date" /\ b[4].k = "nl"
      /\ b[7].k = "nl"
  <2>1. sec \in 0 .. Secs - 1
    BY DEF TypeInv, LineInv
  <2>2. /\ b \in Seq(Tokens) /\ Len(b) = 7
        /\ b[1] = [k |-> "RMC", s |-> sec] /\ b[2] = [k |-> "pos", s |-> sec]
        /\ b[3] = [k |-> "date", s |-> sec] /\ b[4] = [k |-> "nl", s |-> sec]
        /\ b[7] = [k |-> "nl", s |-> sec]
    BY <2>1, BurstIs, Zenon
  <2> HIDE DEF b
  <2>3. QED
    BY <2>2
<1>2. /\ gpsPc = "read" /\ uart = <<>> /\ uart' = b
      /\ bursts' = (IF bursts < PerRound THEN bursts + 1 ELSE bursts)
      /\ UNCHANGED <<gpsPc, line, jumped>>
  BY DEF Send, gps
<1> HIDE DEF b
<1>3. b # <<>> /\ Len(<<>>) = 0
  BY <1>1, EmptySeq
<1>4. CASE bursts = 0
  <2>1. bursts' = 1
    BY <1>2, <1>4
  <2>2. Ends'
    BY <1>1, <1>2, <1>3 DEF Ends
  <2>3. QED
    BY <2>1, <2>2 DEF Bursts
<1>5. CASE bursts = 1
  <2>1. Clean
    BY <1>2, <1>5 DEF Bursts, Ends, Handling
  <2>2. Ahead'
    <3>1. /\ gpsPc' = "read" /\ jumped' = FALSE /\ line' = <<>> /\ uart' = b
      BY <1>2, <2>1 DEF Clean
    <3>2. /\ Stream(<<>>, b, 1) = b[1] /\ Stream(<<>>, b, 2) = b[2]
          /\ Stream(<<>>, b, 3) = b[3] /\ Stream(<<>>, b, 4) = b[4]
      BY <1>3 DEF Stream
    <3>3. Len(<<>>) <= 3 /\ Len(<<>>) + Len(b) >= 4
      BY <1>1, <1>3
    <3>4. b[1].k = "RMC" /\ b[2].k # "nl" /\ b[3].k # "nl" /\ b[4].k = "nl"
      BY <1>1
    <3>5. QED
      BY <3>1, <3>2, <3>3, <3>4, Zenon DEF Ahead
  <2>3. QED
    BY <1>2, <1>5, <2>2 DEF Bursts
<1>6. bursts # 2
  <2>1. ~ Found
    BY <1>2 DEF Found
  <2>2. ~ Ahead
    BY <1>2, <1>3 DEF Ahead
  <2>3. QED
    BY <2>1, <2>2 DEF Bursts
<1>7. QED
  BY <1>4, <1>5, <1>6 DEF Bursts

(* What follows the line on the wire is the first token on the wire. *)
LEMMA StreamNext ==
  ASSUME NEW l \in Seq(Tokens), NEW u
  PROVE  Stream(l, u, Len(l) + 1) = u[1]
BY LenProperties DEF Stream

LEMMA BurstsRead ==
  ASSUME TypeInv, Bursts, ReadByte
  PROVE  Bursts'
<1>1. LineInv /\ line \in Seq(Tokens) /\ Len(line) \in Nat /\ bursts' = bursts
  BY LenProperties DEF TypeInv, LineInv, ReadByte
<1>2. /\ gpsPc = "read" /\ uart # <<>> /\ Len(uart) >= 1 /\ Len(uart) \in Nat
      /\ uart' \in Seq(Tokens) /\ Len(uart') = Len(uart) - 1
      /\ \A j \in 1 .. Len(uart) - 1 : uart'[j] = uart[j + 1]
  BY <1>1, ReadParts
<1>3. \/ StartLine /\ uart[1].k # "nl" /\ Len(line) + 1 >= MaxLine
      \/ /\ line' \in Seq(Tokens) /\ Len(line') = Len(line) + 1
         /\ line'[Len(line) + 1] = uart[1]
         /\ \A j \in 1 .. Len(line) : line'[j] = line[j]
         /\ jumped' = jumped
         /\ gpsPc' = IF uart[1].k = "nl" THEN "parse" ELSE "read"
  BY <1>1, ReadParts
<1>4. CASE bursts = 1
  <2>1. Ends
    BY <1>2, <1>4 DEF Bursts
  <2>2. CASE Len(uart) = 1
    <3>1. uart[1].k = "nl" /\ uart' = <<>>
      BY <1>2, <2>1, <2>2, EmptySeq DEF Ends
    <3>2. gpsPc' = "parse"
      BY <1>3, <3>1
    <3>3. QED
      BY <1>1, <1>4, <3>1, <3>2 DEF Bursts, Handling
  <2>3. CASE Len(uart) # 1
    <3>1. uart' # <<>> /\ uart'[Len(uart')] = uart[Len(uart)]
      BY <1>2, <2>3, EmptySeq
    <3>2. QED
      BY <1>1, <1>4, <2>1, <3>1 DEF Bursts, Ends
  <2>4. QED
    BY <2>2, <2>3
<1>5. CASE bursts = 2
  <2>1. Ahead
    BY <1>2, <1>5 DEF Bursts, Found
  <2>2. /\ Len(line) = 0 => Stream(line, uart, 1) = uart[1]
        /\ Len(line) = 1 => Stream(line, uart, 2) = uart[1]
        /\ Len(line) = 2 => Stream(line, uart, 3) = uart[1]
        /\ Len(line) = 3 => Stream(line, uart, 4) = uart[1]
    <3>1. line \in Seq(Tokens)
      BY <1>1
    <3>2. Stream(line, uart, Len(line) + 1) = uart[1]
      BY <3>1, StreamNext, Zenon
    <3> DEFINE n == Len(line)
    <3>3. Stream(line, uart, n + 1) = uart[1]
      BY <3>2
    <3> HIDE DEF n
    <3>4. /\ n = 0 => Stream(line, uart, 1) = uart[1]
          /\ n = 1 => Stream(line, uart, 2) = uart[1]
          /\ n = 2 => Stream(line, uart, 3) = uart[1]
          /\ n = 3 => Stream(line, uart, 4) = uart[1]
      BY <3>3
    <3>5. QED
      BY <3>4, Zenon DEF n
  <2>3. Len(line) \in 0 .. 3
    <3>1. Len(line) <= 3
      BY <2>1, Zenon DEF Ahead
    <3>2. Len(line) \in Nat
      BY <1>1, Zenon
    <3> DEFINE n == Len(line)
    <3>3. n <= 3 /\ n \in Nat
      BY <3>1, <3>2
    <3> HIDE DEF n
    <3>4. n \in 0 .. 3
      BY <3>3
    <3>5. QED
      BY <3>4, Zenon DEF n
  <2>4. ~ (uart[1].k # "nl" /\ Len(line) + 1 >= MaxLine)
    <3>1. CASE Len(line) = 3
      <4>1. Stream(line, uart, 4) = uart[1]
        BY <2>2, <3>1, Zenon
      <4>2. QED
        BY <2>1, <4>1 DEF Ahead
    <3>2. CASE Len(line) # 3
      <4> DEFINE n == Len(line)
      <4>1. n \in 0 .. 3 /\ n # 3
        BY <2>3, <3>2, Zenon
      <4>2. MaxLine \in Nat /\ MaxLine >= 4
        BY GpsPipelineAssumption, Zenon
      <4> HIDE DEF n
      <4>3. ~ (n + 1 >= MaxLine)
        BY <4>1, <4>2
      <4>4. QED
        BY <4>3, Zenon DEF n
    <3>3. QED
      BY <3>1, <3>2
  <2>5. /\ line' \in Seq(Tokens) /\ Len(line') = Len(line) + 1
        /\ line'[Len(line) + 1] = uart[1]
        /\ \A j \in 1 .. Len(line) : line'[j] = line[j]
        /\ jumped' = FALSE
        /\ gpsPc' = IF uart[1].k = "nl" THEN "parse" ELSE "read"
    BY <1>3, <2>1, <2>4 DEF Ahead
  <2>6. \A j \in 1 .. 4 : Stream(line', uart', j) = Stream(line, uart, j)
    <3>1. ASSUME NEW j \in 1 .. 4
          PROVE  Stream(line', uart', j) = Stream(line, uart, j)
      <4>1. CASE j <= Len(line)
        BY <1>1, <2>5, <4>1 DEF Stream
      <4>2. CASE j = Len(line) + 1
        BY <1>1, <2>5, <4>2 DEF Stream
      <4>3. CASE j > Len(line) + 1
        <5>1. /\ j - Len(line') \in 1 .. Len(uart) - 1
              /\ j - Len(line') + 1 = j - Len(line)
          BY <1>1, <1>2, <2>1, <2>5, <4>3 DEF Ahead
        <5>2. uart'[j - Len(line')] = uart[j - Len(line)]
          BY <1>2, <5>1
        <5>3. QED
          BY <1>1, <2>5, <4>3, <5>2 DEF Stream
      <4>4. QED
        BY <1>1, <4>1, <4>2, <4>3
    <3>2. QED
      BY <3>1
  <2>7. /\ Stream(line', uart', 1) = Stream(line, uart, 1)
        /\ Stream(line', uart', 2) = Stream(line, uart, 2)
        /\ Stream(line', uart', 3) = Stream(line, uart, 3)
        /\ Stream(line', uart', 4) = Stream(line, uart, 4)
    BY <2>6
  <2>8. CASE Len(line) = 3
    <3>1. gpsPc' = "parse"
      <4>1. Stream(line, uart, 4) = uart[1]
        BY <2>2, <2>8, Zenon
      <4>2. QED
        BY <2>1, <2>5, <4>1 DEF Ahead
    <3>2. Stream(line', uart', 1) = line'[1] /\ 1 \in 1 .. Len(line')
      BY <2>5, <2>8 DEF Stream
    <3>3. HasHead(line', "RMC")
      BY <2>1, <2>5, <2>7, <3>2, NoHead DEF Ahead
    <3>4. QED
      BY <1>1, <1>5, <3>1, <3>3 DEF Bursts, Found
  <2>9. CASE Len(line) # 3
    <3>1. uart[1].k # "nl"
      <4>1. Len(line) = 0 \/ Len(line) = 1 \/ Len(line) = 2
        BY <2>3, <2>9
      <4>2. /\ Stream(line, uart, 1).k # "nl" /\ Stream(line, uart, 2).k # "nl"
            /\ Stream(line, uart, 3).k # "nl"
        BY <2>1 DEF Ahead
      <4>3. QED
        BY <2>2, <4>1, <4>2
    <3>2. Len(line') <= 3 /\ Len(line') + Len(uart') >= 4
      BY <1>2, <2>1, <2>3, <2>5, <2>9 DEF Ahead
    <3>3. Ahead'
      BY <2>1, <2>5, <2>7, <3>1, <3>2 DEF Ahead
    <3>4. QED
      BY <1>1, <1>5, <3>3 DEF Bursts
  <2>10. QED
    BY <2>8, <2>9
<1>6. CASE bursts = 0
  BY <1>1, <1>6 DEF Bursts
<1>7. QED
  BY <1>4, <1>5, <1>6 DEF Bursts

(* The parser has handled a line, or has not yet. *)
LEMMA BurstsParse ==
  ASSUME TypeInv, Bursts, ParseOther \/ ParseHigh
  PROVE  Bursts'
<1>1. /\ uart' = uart /\ bursts' = bursts
      /\ gpsPc' = "read" /\ line' = <<>> /\ jumped' = FALSE
      /\ gpsPc \in {"parse", "high"}
      /\ gpsPc = "parse" => ~ HasHead(line, "RMC")
  BY DEF ParseOther, ParseHigh, StartLine, JumpedAtStart, env
<1>2. bursts # 2
  BY <1>1 DEF Bursts, Ahead, Found
<1>3. QED
  BY <1>1, <1>2 DEF Bursts, Ends, Clean

LEMMA BurstsTake ==
  ASSUME TypeInv, Bursts, ParseLock \/ ParseTime
  PROVE  Bursts'
<1>1. /\ uart' = uart /\ bursts' = bursts /\ line' = line
      /\ gpsPc \in Handling /\ gpsPc' \in Handling
      /\ Found => Found'
  BY DEF ParseLock, ParseTime, Handling, Found, env
<1>2. bursts = 2 => Found
  BY <1>1 DEF Bursts, Ahead, Handling
<1>3. bursts = 1 => Ends \/ uart = <<>>
  BY DEF Bursts
<1>4. QED
  BY <1>1, <1>2, <1>3 DEF Bursts, Ends

(* The timeout needs a clock that has been set. *)
LEMMA BurstsTimeout ==
  ASSUME TypeInv, Bursts, Timeout, receiver = "on"
  PROVE  Bursts'
<1>1. /\ uart' = uart /\ bursts' = bursts
      /\ gpsPc = "read" /\ jumped
  BY DEF Timeout, env
<1>2. bursts # 2
  BY <1>1 DEF Bursts, Ahead, Found
<1>3. bursts = 1 => Ends
  BY <1>1 DEF Bursts, Clean, Handling
<1>4. QED
  BY <1>1, <1>2, <1>3 DEF Bursts, Ends

(* Nothing that Bursts depends on changes. *)
LEMMA BurstsSame ==
  ASSUME Bursts, UNCHANGED <<uart, bursts, gpsPc, line, jumped>>
  PROVE  Bursts'
BY DEF Bursts, Ends, Clean, Ahead, Found

LEMMA RoundStep ==
  ASSUME TypeInv, RoundInv, [Next]_vars
  PROVE  RoundInv'
<1>1. SUFFICES ASSUME Waiting'
               PROVE  /\ mainPc' \in {"set", "write", "sleep"} /\ Working'
                      /\ mainPc' = "sleep" => Bursts'
  BY DEF RoundInv
<1>2. CASE CopyPlace
  <2>1. /\ mainPc' = "set" /\ receiver' = receiver /\ gpsPc' = gpsPc
        /\ excused' = (receiver = "off" \/ gpsPc = "closed")
    BY <1>2 DEF CopyPlace, env
  <2>2. receiver = "on" /\ gpsPc # "closed"
    BY <1>1, <2>1 DEF Waiting, TypeInv, CtlType
  <2>3. QED
    BY <2>1, <2>2 DEF Working
<1>3. ASSUME ~ CopyPlace PROVE Waiting
  BY <1>1, <1>3 DEF Waiting, Fault, Next, GpsTask, MainTask, Receiver, Send,
    Lose,
    SwitchOff, SwitchOn, OpenDevice, ReadByte, Timeout, ReadError, ParseOther,
    ParseLock, ParseTime, ParsePlace, ParseHigh, TakeLock, CopyTime, SetClock,
    WriteFifo, Wake, ReadFifo, vars
<1>4. CASE ~ CopyPlace
  <2>1. /\ mainPc \in {"set", "write", "sleep"} /\ Working
        /\ mainPc = "sleep" => Bursts
    BY <1>3, <1>4 DEF RoundInv
  <2>2. receiver = "on" /\ gpsPc # "closed"
    BY <2>1 DEF Working
  <2>3. CASE SetClock
    BY <2>2, <2>3 DEF SetClock, Working, env
  <2>4. CASE WriteFifo
    <3>1. mainPc' = "sleep" /\ bursts' = 0 /\ receiver' = receiver /\ gpsPc' = gpsPc
      BY <2>4 DEF WriteFifo, gps
    <3>2. Bursts'
      BY <3>1 DEF Bursts
    <3>3. QED
      BY <2>2, <3>1, <3>2 DEF Working
  <2>5. ~ Wake
    BY <2>1, <2>2 DEF Wake, Bursts
  <2>6. ~ TakeLock /\ ~ CopyTime
    BY <2>1 DEF TakeLock, CopyTime
  <2>7. ~ Lose /\ ~ SwitchOff /\ ~ ReadError /\ ~ ParsePlace
    BY <1>1 DEF Lose, SwitchOff, ReadError, ParsePlace, Fault, Waiting
  <2>8. ~ OpenDevice /\ ~ SwitchOn
    BY <2>2 DEF OpenDevice, SwitchOn
  <2>9. ASSUME mainPc' = mainPc, receiver' = receiver, gpsPc' # "closed",
               Bursts => Bursts'
        PROVE  /\ mainPc' \in {"set", "write", "sleep"} /\ Working'
               /\ mainPc' = "sleep" => Bursts'
    BY <2>1, <2>2, <2>9 DEF Working
  <2>10. CASE Send \/ ReadByte \/ ParseOther \/ ParseHigh \/ ParseLock \/ ParseTime
    <3>1. mainPc' = mainPc /\ receiver' = receiver
      BY <2>10 DEF Send, ReadByte, ParseOther, ParseHigh, ParseLock, ParseTime,
        env, main
    <3>2. gpsPc' # "closed"
      BY <2>2, <2>10 DEF Send, ReadByte, ParseOther, ParseHigh, ParseLock,
        ParseTime, StartLine, gps
    <3>3. Bursts => Bursts'
      BY <2>10, BurstsSend, BurstsRead, BurstsParse, BurstsTake
    <3>4. QED
      BY <2>9, <3>1, <3>2, <3>3
  <2>11. CASE Timeout
    <3>1. mainPc' = mainPc /\ receiver' = receiver /\ gpsPc' # "closed"
      BY <2>11 DEF Timeout, NumAtTimeout, StartLine, env, main
    <3>2. Bursts => Bursts'
      BY <2>2, <2>11, BurstsTimeout
    <3>3. QED
      BY <2>9, <3>1, <3>2
  <2>12. CASE ReadFifo \/ UNCHANGED vars
    <3>1. UNCHANGED <<mainPc, receiver, uart, bursts, gpsPc, line, jumped>>
      BY <2>12 DEF ReadFifo, vars, env, gps, main
    <3>2. QED
      BY <2>2, <2>9, <3>1, BurstsSame
  <2>13. QED
    BY <1>4, <2>3, <2>4, <2>5, <2>6, <2>7, <2>8, <2>10, <2>11, <2>12
    DEF Next, GpsTask, MainTask, Receiver
<1>5. QED
  BY <1>2, <1>4

(* TakenNew holds: although setting the clock may cut a line, each round   *)
(* of the main loop (app_main.cpp 230-286) finds a fix it has not seen,    *)
(* unless a fault came between.                                            *)
THEOREM TakenIsNew == Spec => TakenNew
<1>1. Init => RoundInv
  BY DEF Init, RoundInv, Waiting
<1>2. TypeInv /\ RoundInv /\ [Next]_vars => RoundInv'
  BY RoundStep
<1>3. RoundInv => [mainPc = "copyPlace" /\ mainPc' = "set" => fresh \/ excused]_vars
  BY DEF RoundInv, Waiting
<1>4. QED
  BY <1>1, <1>2, <1>3, TypeInit, TypeStep, PTL DEF Spec, TakenNew

=============================================================================
