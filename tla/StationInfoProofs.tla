------------------------- MODULE StationInfoProofs -------------------------
(***************************************************************************)
(* Proofs about StationInfo, for any route, any number of blocks and of    *)
(* faults: what the unlocked copies on the way of a station can mix.       *)
(***************************************************************************)
EXTENDS StationInfo, TLAPS

USE StationInfoAssumption

-----------------------------------------------------------------------------
(* The invariant.                                                          *)

(* The station of the main loop, or the one it had before. *)
Recent(s) == s = index \/ NextIndex(s) = index

(* A block of hmi_display or of the registers. *)
RecentBlock(b, p) ==
  b = Blank \/ \E s \in Stations : Recent(s) /\ b = FontOf(s, p)

(* The buffer: whole when the main loop rests, in part cleared or filled   *)
(* during a publication.                                                   *)
DisplayInv ==
  /\ \A p \in Pos : RecentBlock(hmi_display[p], p)
  /\ mainPc \in {"set", "sleep"} => mpos = 1 /\ hmi_display = Fonts(autoNext)
  /\ mainPc = "fill"
       => \A p \in Pos : p < mpos => hmi_display[p] = FontOf(index, p)
  /\ mainPc # "set" => autoNext = index
  /\ Recent(autoNext)

(* The registers: once a pass of the timer has begun while the main loop   *)
(* sleeps, what it has passed is that of the main loop's station.          *)
TabInv ==
  /\ \A p \in Pos : RecentBlock(tab[p], p)
  /\ Recent(AUTO)
  /\ passes # 0 => mainPc = "sleep" /\ AUTO = index
  /\ passes = 1 => /\ tpos # 0
                   /\ \A p \in Pos : p < tpos => tab[p] = FontOf(index, p)
  /\ passes = 2 => tab = Fonts(index)

(* The HMI: what it has read of the fetch in progress or the last one. *)
Has(p) == hmiPc = "idle" \/ (hmiPc = "fetch" /\ p < hpos)
ShownInv ==
  \A p \in Pos : Has(p) =>
    /\ fetched # "any" /\ font[p] \notin {Blank, Junk}
         => NearBy(font[p], autoCurr, p)
    /\ fetched = "exact" => font[p] = FontOf(autoCurr, p)

(* The fetch in progress: the main loop has gone on by one station at most *)
(* since it began, and not at all in the sleep it began in.                *)
FetchInv ==
  hmiPc = "fetch" /\ fetched # "any" =>
    /\ Recent(autoCurr) /\ autoCurr \in Stations
    /\ ~ old /\ mainPc = "sleep" => autoCurr = index
    /\ fetched = "exact" => /\ mainPc \in {"set", "sleep"}
                            /\ mainPc = "sleep" => passes = 2
                            /\ tab = Fonts(autoCurr)
                            /\ hmi_display = Fonts(autoCurr)

(* A failed read moves on to the next block, and the second of the first   *)
(* fetch or of the next station ends the fetch.                            *)
RetryInv ==
  /\ first => retry <= 1
  /\ ~ first /\ hpos <= Blocks => retry < hpos

IInv == TypeOK /\ DisplayInv /\ TabInv /\ ShownInv /\ FetchInv /\ RetryInv

-----------------------------------------------------------------------------
(* Stations and their fonts.                                               *)

LEMMA NextType == \A s \in Stations : NextIndex(s) \in Stations
BY DEF NextIndex, Stations

LEMMA NextOnce ==
  \A s, t \in Stations : NextIndex(s) = NextIndex(t) => s = t
BY DEF NextIndex, Stations

LEMMA FontOfType == \A s \in Stations, p \in Pos : FontOf(s, p) \in Stations
BY NextType DEF FontOf

LEMMA FontsAt ==
  ASSUME NEW s PROVE \A p \in Pos : Fonts(s)[p] = FontOf(s, p)
BY DEF Fonts

LEMMA Markers == {Blank, Junk, Other} \cap Stations = {}
BY DEF Blank, Junk, Other, Stations

LEMMA FontsType ==
  ASSUME NEW s \in Stations PROVE Fonts(s) \in [Pos -> Stations \cup {Blank}]
BY FontOfType DEF Fonts

(* Blocks and index of the last two stations are near each other. *)
LEMMA RecentNear ==
  ASSUME NEW s \in Stations, Recent(s), NEW p \in Pos, NEW b,
         RecentBlock(b, p), b # Blank
  PROVE  NearBy(b, s, p)
BY NextOnce DEF RecentBlock, NearBy, Recent

LEMMA FirstPos == 1 \in Pos
BY DEF Pos

LEMMA Positions ==
  /\ 1 \in Pos
  /\ \A p \in Pos : p # 2 * Blocks => p + 1 \in Pos
  /\ \A p \in Pos : p >= 1 /\ p <= 2 * Blocks /\ p \in Nat
  /\ 0 \notin Pos /\ 2 * Blocks \in Pos
BY DEF Pos

LEMMA InitInv == Init => IInv
<1> SUFFICES ASSUME Init PROVE IInv
  OBVIOUS
<1>1. 0 \in Stations
  BY DEF Stations
<1>2. TypeOK
  <2>1. hmi_display \in [Pos -> Stations \cup {Blank}]
    BY <1>1, FontsType DEF Init
  <2>2. /\ tab \in [Pos -> Stations \cup {Blank}]
        /\ font \in [Pos -> Stations \cup {Blank, Junk}]
    BY DEF Init
  <2>3. mpos \in Pos /\ hpos \in Pos
    <3>1. mpos = 1 /\ hpos = 1
      BY DEF Init
    <3>2. QED
      BY <3>1, FirstPos
  <2>4. /\ index \in Stations /\ autoNext \in Stations /\ AUTO \in Stations
        /\ autoCurr \in Stations \cup {Other}
    BY <1>1 DEF Init
  <2>5. tpos \in {0} \cup Pos /\ retry \in 0 .. Blocks /\ passes \in 0 .. 2
        /\ faults \in 0 .. MaxFaults
    BY DEF Init
  <2>6. /\ mainPc = "set" /\ hmiPc = "off" /\ first = FALSE
        /\ old = FALSE /\ fetched = "any"
    BY DEF Init
  <2>7. QED
    BY <2>1, <2>2, <2>3, <2>4, <2>5, <2>6 DEF TypeOK
<1>3. DisplayInv
  BY <1>1, FontsAt DEF Init, DisplayInv, RecentBlock, Recent
<1>4. TabInv
  BY <1>1, Positions DEF Init, TabInv, RecentBlock, Recent
<1>5. ShownInv /\ FetchInv /\ RetryInv
  BY DEF Init, ShownInv, FetchInv, RetryInv, Has
<1>6. QED
  BY <1>2, <1>3, <1>4, <1>5 DEF IInv

-----------------------------------------------------------------------------
(* Types.                                                                  *)

LEMMA MainType == TypeOK /\ Main => TypeOK'
<1> SUFFICES ASSUME TypeOK, Main PROVE TypeOK'
  OBVIOUS
<1>1. CASE SetIndex
  BY <1>1 DEF SetIndex, TypeOK, timerVars, hmiVars, Spoilt
<1>2. CASE Clear
  BY <1>2, Positions DEF Clear, NextBlock, LastBlock, TypeOK, timerVars,
    hmiVars
<1>3. CASE Fill
  BY <1>3, Positions, FontOfType
  DEF Fill, NextBlock, LastBlock, TypeOK, timerVars, hmiVars
<1>4. CASE Wake
  BY <1>4, NextType DEF Wake, TypeOK, hmiVars
<1>5. QED
  BY <1>1, <1>2, <1>3, <1>4 DEF Main

LEMMA TimerType == TypeOK /\ Timer => TypeOK'
<1> SUFFICES ASSUME TypeOK, Timer PROVE TypeOK'
  OBVIOUS
<1>1. CASE TimerIndex
  BY <1>1, Positions DEF TimerIndex, FirstBlock, TypeOK, mainVars, hmiVars
<1>2. CASE TimerCopy
  <2>1. tpos \in Pos /\ hmi_display[tpos] \in Stations \cup {Blank}
    BY <1>2 DEF TimerCopy, TypeOK
  <2>2. tab' \in [Pos -> Stations \cup {Blank}]
    BY <1>2, <2>1 DEF TimerCopy, TypeOK
  <2>3. tpos' \in {0} \cup Pos /\ passes' \in 0 .. 2
    BY <1>2, <2>1, Positions DEF TimerCopy, TypeOK
  <2>4. QED
    BY <1>2, <2>2, <2>3 DEF TimerCopy, TypeOK, mainVars, hmiVars
<1>3. QED
  BY <1>1, <1>2 DEF Timer

(* A fetch begins. *)
LEMMA StartType ==
  ASSUME TypeOK, NEW v \in Stations \cup {Other},
         NEW rate \in {"exact", "near", "any"}, StartFetch(v, rate),
         first' \in BOOLEAN, UNCHANGED <<mainVars, timerVars, font>>,
         faults' \in 0 .. MaxFaults
  PROVE  TypeOK'
BY Positions DEF StartFetch, TypeOK, mainVars, timerVars

LEMMA FaultType == TypeOK /\ Fault => faults' \in 0 .. MaxFaults
BY DEF TypeOK, Fault

(* A block is stored. *)
LEMMA StoreType ==
  ASSUME TypeOK, NEW val \in Stations \cup {Blank, Junk}, NEW r \in 0 .. Blocks,
         Store(val, r), UNCHANGED <<mainVars, timerVars, autoCurr>>,
         fetched' \in {"exact", "near", "any"}, faults' \in 0 .. MaxFaults
  PROVE  TypeOK'
<1>1. font' \in [Pos -> Stations \cup {Blank, Junk}]
  BY DEF Store, TypeOK
<1>2. /\ hmiPc' \in {"off", "idle", "fetch"} /\ first' \in BOOLEAN
      /\ old' \in BOOLEAN
  BY DEF Store, EndFetch, TypeOK
<1>3. hpos' \in Pos /\ retry' \in 0 .. Blocks
  BY Positions DEF Store, EndFetch, TypeOK
<1>4. QED
  BY <1>1, <1>2, <1>3 DEF TypeOK, mainVars, timerVars

LEMMA HmiType == TypeOK /\ RetryInv /\ (Hmi \/ Faults) => TypeOK'
<1> SUFFICES ASSUME TypeOK, RetryInv, Hmi \/ Faults PROVE TypeOK'
  OBVIOUS
<1>1. Rate \in {"exact", "near", "any"} /\ AUTO \in Stations \cup {Other}
      /\ StaleIndex = Stations \cup {Other} /\ faults \in 0 .. MaxFaults
      /\ first \in BOOLEAN
  BY DEF Rate, StaleIndex, TypeOK
<1>2. CASE FirstPoll
  <2>1. first' \in BOOLEAN /\ UNCHANGED <<mainVars, timerVars, font>>
    BY <1>2 DEF FirstPoll
  <2>2. CASE StartFetch(AUTO, Rate) /\ UNCHANGED faults
    BY <1>1, <2>1, <2>2, StartType
  <2>3. CASE \E v \in StaleIndex : StartFetch(v, "any") /\ Fault
    BY <1>1, <2>1, <2>3, StartType, FaultType
  <2>4. QED
    BY <1>2, <2>2, <2>3 DEF FirstPoll
<1>3. CASE FirstPollFails
  BY <1>3, FaultType DEF FirstPollFails, TypeOK, mainVars, timerVars
<1>4. ASSUME NEW v \in Stations \cup {Other},
             NEW rate \in {"exact", "near", "any"}, Polled(v, rate),
             UNCHANGED <<mainVars, timerVars, font>>, faults' \in 0 .. MaxFaults
      PROVE  TypeOK'
  <2>1. CASE first' = FALSE /\ StartFetch(v, rate)
    BY <1>4, <2>1, StartType
  <2>2. CASE UNCHANGED <<hmiPc, first, hpos, retry, autoCurr, old, fetched>>
    BY <1>4, <2>2 DEF TypeOK, mainVars, timerVars
  <2>3. QED
    BY <1>4, <2>1, <2>2 DEF Polled
<1>5. CASE Poll
  BY <1>1, <1>4, <1>5 DEF Poll
<1>6. CASE PollFails
  BY <1>1, <1>4, <1>6, FaultType DEF PollFails
<1>7. CASE ReadBlock
  <2>1. tab[RegBlock(hpos)] \in Stations \cup {Blank, Junk} /\ retry \in 0 .. Blocks
    BY DEF TypeOK, RegBlock
  <2>2. QED
    BY <1>1, <1>7, <2>1, StoreType DEF ReadBlock, TypeOK
<1>8. CASE ReadBlockFails
  <2>1. CASE GivesUp /\ EndFetch /\ fetched' = "any" /\ UNCHANGED font
    <3>1. faults' \in 0 .. MaxFaults
      BY <1>8, FaultType DEF ReadBlockFails
    <3>2. hpos' \in Pos
      <4>1. hpos' = 1
        BY <2>1 DEF EndFetch
      <4>2. QED
        BY <4>1, FirstPos
    <3>3. /\ hmiPc' = "idle" /\ first' = FALSE /\ old' = FALSE
          /\ fetched' = "any" /\ retry' \in 0 .. Blocks
          /\ UNCHANGED <<mainVars, timerVars, autoCurr, font>>
      BY <1>8, <2>1 DEF ReadBlockFails, EndFetch
    <3>4. QED
      BY <3>1, <3>2, <3>3 DEF TypeOK, mainVars, timerVars
  <2>2. CASE ~ GivesUp /\ Store(Junk, retry + 1) /\ fetched' = Spoilt
    <3>1. retry + 1 \in 0 .. Blocks
      BY <2>2, Positions DEF GivesUp, RetryInv, TypeOK
    <3>2. fetched' \in {"exact", "near", "any"}
      BY <2>2 DEF Spoilt, TypeOK
    <3>3. QED
      BY <1>8, <2>2, <3>1, <3>2, FaultType, StoreType DEF ReadBlockFails
  <2>3. QED
    BY <1>8, <2>1, <2>2 DEF ReadBlockFails
<1>9. CASE HmiCrash
  <2>1. faults' \in 0 .. MaxFaults
    BY <1>9, FaultType DEF HmiCrash
  <2>2. 0 \in Stations /\ font' \in [Pos -> Stations \cup {Blank, Junk}]
    BY <1>9 DEF HmiCrash, Stations
  <2>3. hpos' \in Pos
    <3>1. hpos' = 1
      BY <1>9 DEF HmiCrash
    <3>2. QED
      BY <3>1, FirstPos
  <2>4. /\ hmiPc' = "off" /\ first' = FALSE /\ old' = FALSE
        /\ autoCurr' \in Stations \cup {Other} /\ retry' \in 0 .. Blocks
        /\ fetched' = "any" /\ UNCHANGED <<mainVars, timerVars>>
    BY <1>9, <2>2 DEF HmiCrash
  <2>5. QED
    BY <2>1, <2>2, <2>3, <2>4 DEF TypeOK, mainVars, timerVars
<1>10. QED
  BY <1>2, <1>3, <1>5, <1>6, <1>7, <1>8, <1>9 DEF Hmi, Faults

LEMMA TypeStep == TypeOK /\ RetryInv /\ [Next]_vars => TypeOK'
<1>1. TypeOK /\ UNCHANGED vars => TypeOK'
  BY DEF vars, mainVars, timerVars, hmiVars, TypeOK
<1>2. QED
  BY <1>1, MainType, TimerType, HmiType DEF Next

-----------------------------------------------------------------------------
(* The buffer and the registers.                                           *)

(* A function on the blocks that is Fonts(s) block by block is Fonts(s). *)
LEMMA Whole ==
  ASSUME NEW s, NEW S, NEW f \in [Pos -> S],
         \A p \in Pos : f[p] = FontOf(s, p)
  PROVE  f = Fonts(s)
BY DEF Fonts

(* Only Wake changes the station of the main loop. *)
LEMMA RecentKept ==
  ASSUME index' = index
  PROVE  /\ \A s : Recent(s)' <=> Recent(s)
         /\ \A b, p : RecentBlock(b, p)' <=> RecentBlock(b, p)
BY DEF Recent, RecentBlock

LEMMA RecentOne ==
  ASSUME TypeOK
  PROVE  /\ Recent(index)
         /\ \A p \in Pos : RecentBlock(Blank, p) /\ RecentBlock(FontOf(index, p), p)
BY DEF Recent, RecentBlock, TypeOK

(* What was that of its station is that of the one before when it wakes. *)
LEMMA WakeRecent ==
  ASSUME TypeOK, index' = NextIndex(index), NEW s, s = index
  PROVE  Recent(s)' /\ \A p \in Pos : RecentBlock(FontOf(s, p), p)'
BY DEF RecentBlock, Recent, TypeOK

(* The steps of the timer and of the HMI leave the main loop alone. *)
LEMMA MainAlone == Timer \/ Hmi \/ Faults \/ UNCHANGED vars => UNCHANGED mainVars
BY DEF Timer, TimerIndex, TimerCopy, Hmi, FirstPoll, Poll, ReadBlock, Faults,
       FirstPollFails, PollFails, ReadBlockFails, HmiCrash, vars

LEMMA DisplayStep == IInv /\ [Next]_vars => DisplayInv'
<1> SUFFICES ASSUME IInv, [Next]_vars PROVE DisplayInv'
  OBVIOUS
<1> USE DEF IInv
<1>1. CASE SetIndex
  <2>1. UNCHANGED <<index, mpos, hmi_display>> /\ autoNext' = index
        /\ mainPc' = "clear"
    BY <1>1 DEF SetIndex
  <2>2. QED
    BY <2>1, RecentKept, RecentOne DEF DisplayInv
<1>2. CASE Clear
  <2>1. UNCHANGED <<index, autoNext>> /\ mainPc = "clear"
        /\ mainPc' \in {"fill", "clear"} /\ (mainPc' = "fill" => mpos' = 1)
        /\ hmi_display' = [hmi_display EXCEPT ![mpos] = Blank]
    BY <1>2 DEF Clear, NextBlock, LastBlock
  <2>2. \A p \in Pos : RecentBlock(hmi_display'[p], p)
    BY <2>1, RecentOne DEF DisplayInv, TypeOK
  <2>3. QED
    BY <2>1, <2>2, RecentKept, Positions DEF DisplayInv
<1>3. CASE Fill
  <2>1. UNCHANGED <<index, autoNext>> /\ mainPc = "fill" /\ autoNext = index
        /\ mpos \in Pos
        /\ hmi_display' = [hmi_display EXCEPT ![mpos] = FontOf(index, mpos)]
        /\ hmi_display \in [Pos -> Stations \cup {Blank}]
    BY <1>3 DEF Fill, DisplayInv, TypeOK
  <2>2. \A p \in Pos : RecentBlock(hmi_display'[p], p)
    BY <2>1, RecentOne DEF DisplayInv
  <2>3. \A p \in Pos : p <= mpos => hmi_display'[p] = FontOf(index, p)
    BY <2>1, Positions DEF DisplayInv
  <2>4. CASE LastBlock
    <3>1. mainPc' = "sleep" /\ mpos' = 1
      BY <1>3, <2>4 DEF Fill, NextBlock
    <3>2. \A p \in Pos : hmi_display'[p] = FontOf(index, p)
      BY <2>3, <2>4, Positions DEF LastBlock
    <3>3. hmi_display' \in [Pos -> Stations \cup {Blank}]
      BY <1>3, TypeStep
      DEF Next, Main, TypeOK
    <3>4. hmi_display' = Fonts(index)
      BY <3>2, <3>3, Whole
    <3>5. (hmi_display = Fonts(autoNext))'
      BY <2>1, <3>4 DEF Fonts, FontOf
    <3>6. QED
      BY <2>1, <2>2, <3>1, <3>5, RecentKept, RecentOne DEF DisplayInv
  <2>5. CASE ~ LastBlock
    <3>1. mainPc' = "fill" /\ mpos' = mpos + 1
      BY <1>3, <2>5 DEF Fill, NextBlock
    <3>2. \A p \in Pos : p < mpos' => hmi_display'[p] = FontOf(index, p)
      BY <2>1, <2>3, <3>1, Positions
    <3>3. QED
      BY <2>1, <2>2, <3>1, <3>2, RecentKept, RecentOne DEF DisplayInv, FontOf
  <2>6. QED
    BY <2>4, <2>5
<1>4. CASE Wake
  <2>1. /\ UNCHANGED <<mpos, autoNext, hmi_display>> /\ index' = NextIndex(index)
        /\ mainPc = "sleep" /\ mainPc' = "set"
    BY <1>4 DEF Wake
  <2>2. autoNext = index /\ hmi_display = Fonts(autoNext) /\ mpos = 1
    BY <2>1 DEF DisplayInv
  <2>3. Recent(autoNext)' /\ \A p \in Pos : RecentBlock(FontOf(autoNext, p), p)'
    BY <2>1, <2>2, WakeRecent DEF Recent, RecentBlock
  <2>4. \A p \in Pos : RecentBlock(hmi_display[p], p)'
    BY <2>1, <2>2, <2>3, FontsAt
  <2>5. (hmi_display = Fonts(autoNext))'
    BY <2>1, <2>2 DEF Fonts
  <2>6. QED
    BY <2>1, <2>2, <2>3, <2>4, <2>5 DEF DisplayInv
<1>5. CASE UNCHANGED mainVars
  <2>1. UNCHANGED <<mainPc, index, mpos, autoNext, hmi_display>>
    BY <1>5 DEF mainVars
  <2>2. (hmi_display = Fonts(autoNext))' <=> hmi_display = Fonts(autoNext)
    BY <2>1 DEF Fonts
  <2>3. QED
    BY <2>1, <2>2, RecentKept DEF DisplayInv
<1>6. QED
  BY <1>1, <1>2, <1>3, <1>4, <1>5, MainAlone DEF Next, Main

(* The steps of the HMI leave the timer alone. *)
LEMMA TimerAlone == Hmi \/ Faults \/ UNCHANGED vars => UNCHANGED timerVars
BY DEF Hmi, FirstPoll, Poll, ReadBlock, Faults,
       FirstPollFails, PollFails, ReadBlockFails, HmiCrash, vars

LEMMA TabStep == IInv /\ [Next]_vars => TabInv'
<1> SUFFICES ASSUME IInv, [Next]_vars PROVE TabInv'
  OBVIOUS
<1> USE DEF IInv
<1>1. CASE SetIndex \/ Clear \/ Fill
  <2>1. passes = 0 /\ UNCHANGED <<index, tpos, AUTO, tab, passes>>
    BY <1>1 DEF SetIndex, Clear, Fill, timerVars, TabInv
  <2>2. QED
    BY <2>1, RecentKept DEF TabInv
<1>2. CASE Wake
  <2>1. /\ UNCHANGED <<tpos, AUTO, tab>> /\ index' = NextIndex(index)
        /\ passes = 2 /\ passes' = 0
    BY <1>2 DEF Wake, Slept
  <2>2. AUTO = index /\ tab = Fonts(AUTO)
    BY <2>1 DEF TabInv
  <2>3. Recent(AUTO)' /\ \A p \in Pos : RecentBlock(FontOf(AUTO, p), p)'
    BY <2>1, <2>2, WakeRecent DEF Recent, RecentBlock
  <2>4. \A p \in Pos : RecentBlock(tab[p], p)'
    BY <2>1, <2>2, <2>3, FontsAt
  <2>5. QED
    BY <2>1, <2>3, <2>4 DEF TabInv
<1>3. CASE TimerIndex
  <2>1. /\ tpos = 0 /\ AUTO' = autoNext /\ tpos' = 1 /\ UNCHANGED <<tab, index, mainPc>>
        /\ passes' = IF mainPc = "sleep" /\ passes = 0 THEN 1 ELSE passes
    BY <1>3 DEF TimerIndex, FirstBlock, mainVars
  <2>2. passes # 1 /\ passes \in 0 .. 2
    BY <2>1 DEF TabInv, TypeOK
  <2>3. passes' # 0 => mainPc = "sleep" /\ autoNext = index
    BY <2>1 DEF TabInv, DisplayInv
  <2>4. passes' = 2 => tab = Fonts(index)
    BY <2>1, <2>2 DEF TabInv
  <2>5. (tab = Fonts(index))' <=> tab = Fonts(index)
    BY <2>1 DEF Fonts
  <2>6. QED
    BY <2>1, <2>3, <2>4, <2>5, RecentKept, Positions DEF TabInv, DisplayInv
<1>4. CASE TimerCopy
  <2>1. /\ tpos \in Pos /\ tab' = [tab EXCEPT ![tpos] = hmi_display[tpos]]
        /\ tpos' = IF tpos = 2 * Blocks THEN 0 ELSE tpos + 1
        /\ passes' = IF tpos = 2 * Blocks /\ passes = 1 THEN 2 ELSE passes
        /\ UNCHANGED <<AUTO, index, mainPc>>
        /\ tab \in [Pos -> Stations \cup {Blank}]
        /\ hmi_display \in [Pos -> Stations \cup {Blank}]
    BY <1>4 DEF TimerCopy, mainVars, TypeOK
  <2>2. \A p \in Pos : RecentBlock(tab'[p], p)
    BY <2>1 DEF TabInv, DisplayInv
  <2>3. passes' # 0 <=> passes # 0
    BY <2>1
  <2>4. passes # 0 => hmi_display = Fonts(index)
    BY DEF TabInv, DisplayInv
  <2>5. ASSUME passes = 1
        PROVE  \A p \in Pos : p <= tpos => tab'[p] = FontOf(index, p)
    BY <2>1, <2>4, <2>5, FontsAt, Positions DEF TabInv
  <2>6. ASSUME passes' = 1
        PROVE  tpos' # 0 /\ \A p \in Pos : p < tpos' => tab'[p] = FontOf(index, p)
    <3>1. passes = 1 /\ tpos # 2 * Blocks /\ tpos' = tpos + 1
      BY <2>1, <2>6
    <3>2. QED
      BY <2>1, <2>5, <3>1, Positions
  <2>7. ASSUME passes' = 2 PROVE (tab = Fonts(index))'
    <3>1. tab' \in [Pos -> Stations \cup {Blank}]
      BY <2>1
    <3>2. \A p \in Pos : tab'[p] = FontOf(index, p)
      <4>1. CASE passes = 1
        BY <2>1, <2>5, <2>7, <4>1, Positions
      <4>2. CASE passes = 2
        BY <2>1, <2>4, <4>2, FontsAt DEF TabInv
      <4>3. QED
        BY <2>1, <2>7, <4>1, <4>2
    <3>3. tab' = Fonts(index)
      BY <3>1, <3>2, Whole
    <3>4. QED
      BY <2>1, <3>3 DEF Fonts, FontOf
  <2>8. (\A p \in Pos : p < tpos => tab[p] = FontOf(index, p))'
          <=> \A p \in Pos : p < tpos' => tab'[p] = FontOf(index, p)
    BY <2>1 DEF FontOf
  <2>9. QED
    BY <2>1, <2>2, <2>3, <2>6, <2>7, <2>8, RecentKept DEF TabInv
<1>5. CASE UNCHANGED mainVars /\ UNCHANGED timerVars
  <2>1. UNCHANGED <<mainPc, index, tpos, AUTO, tab, passes>>
    BY <1>5 DEF mainVars, timerVars
  <2>2. (tab = Fonts(index))' <=> tab = Fonts(index)
    BY <2>1 DEF Fonts
  <2>3. QED
    BY <2>1, <2>2, RecentKept DEF TabInv
<1>6. QED
  BY <1>1, <1>2, <1>3, <1>4, <1>5, MainAlone, TimerAlone DEF Next, Main, Timer

-----------------------------------------------------------------------------
(* The HMI.                                                                *)

(* The steps of the HMI leave what it reads from alone. *)
LEMMA HmiAlone == Hmi \/ Faults \/ UNCHANGED vars => UNCHANGED <<mainVars, timerVars>>
BY MainAlone, TimerAlone

(* The poll begins a fetch, with the index of the register or without, or  *)
(* finds no change.                                                        *)
LEMMA PollCases ==
  ASSUME TypeOK, FirstPoll \/ Poll \/ PollFails
  PROVE  \/ StartFetch(AUTO, Rate) /\ first' \in BOOLEAN
         \/ (\E v \in StaleIndex : StartFetch(v, "any")) /\ first' \in BOOLEAN
         \/ UNCHANGED <<hmiPc, first, hpos, retry, autoCurr, font, old, fetched>>
BY DEF FirstPoll, Poll, PollFails, Polled

(* A stored block keeps what is shown near, or exact. *)
LEMMA StoreShown ==
  ASSUME IInv, hmiPc = "fetch", NEW val, NEW r, Store(val, r),
         UNCHANGED autoCurr, fetched' \in {fetched, Spoilt},
         fetched' # "any" /\ val \notin {Blank, Junk} => NearBy(val, autoCurr, hpos),
         fetched' = "exact" => val = FontOf(autoCurr, hpos)
  PROVE  ShownInv'
<1>1. hpos \in Pos /\ font \in [Pos -> Stations \cup {Blank, Junk}]
  BY DEF IInv, TypeOK
<1>2. font' = [font EXCEPT ![hpos] = val]
  BY DEF Store
<1>3. /\ fetched' # "any" => fetched # "any"
      /\ fetched' = "exact" => fetched = "exact"
  BY DEF Spoilt
<1>4. SUFFICES ASSUME NEW p \in Pos, Has(p)'
      PROVE  /\ fetched' # "any" /\ font'[p] \notin {Blank, Junk}
                  => NearBy(font'[p], autoCurr, p)
             /\ fetched' = "exact" => font'[p] = FontOf(autoCurr, p)
  BY DEF ShownInv, NearBy
<1>5. CASE p = hpos
  BY <1>1, <1>2, <1>5
<1>6. CASE p # hpos
  <2>1. p < hpos
    BY <1>1, <1>4, <1>6, Positions DEF Store, EndFetch, Has
  <2>2. font'[p] = font[p] /\ Has(p)
    BY <1>1, <1>2, <1>6, <2>1 DEF Has
  <2>3. QED
    BY <1>3, <2>2 DEF IInv, ShownInv
<1>7. QED
  BY <1>5, <1>6

LEMMA ShownStep == IInv /\ [Next]_vars => ShownInv'
<1> SUFFICES ASSUME IInv, [Next]_vars PROVE ShownInv'
  OBVIOUS
<1>1. CASE UNCHANGED <<hmiPc, hpos, autoCurr, font>> /\ fetched' \in {fetched, Spoilt}
  BY <1>1 DEF IInv, ShownInv, Has, NearBy, Spoilt
<1>2. CASE fetched' = "any"
  BY <1>2 DEF ShownInv
<1>3. CASE Main \/ Timer
  BY <1>1, <1>3 DEF Main, SetIndex, Clear, Fill, Wake, Timer, TimerIndex,
                    TimerCopy, hmiVars
<1>4. CASE FirstPoll \/ Poll \/ PollFails
  <2>1. ASSUME NEW v, NEW rate, StartFetch(v, rate) PROVE ShownInv'
    BY <2>1, Positions DEF StartFetch, ShownInv, Has
  <2>2. QED
    BY <1>1, <1>4, <2>1, PollCases DEF IInv
<1>5. CASE FirstPollFails \/ HmiCrash
  BY <1>2, <1>5 DEF FirstPollFails, HmiCrash
<1>6. CASE ReadBlock
  <2>1. /\ hmiPc = "fetch" /\ Store(tab[hpos], retry) /\ UNCHANGED <<autoCurr, fetched>>
        /\ hpos \in Pos
    BY <1>6 DEF ReadBlock, RegBlock, IInv, TypeOK
  <2>2. fetched # "any" /\ tab[hpos] \notin {Blank, Junk} => NearBy(tab[hpos], autoCurr, hpos)
    BY <2>1, RecentNear DEF IInv, FetchInv, TabInv
  <2>3. fetched = "exact" => tab[hpos] = FontOf(autoCurr, hpos)
    BY <2>1, FontsAt DEF IInv, FetchInv
  <2>4. QED
    BY <2>1, <2>2, <2>3, StoreShown
<1>7. CASE ReadBlockFails
  <2>1. CASE Store(Junk, retry + 1) /\ fetched' = Spoilt
    <3>1. hmiPc = "fetch" /\ UNCHANGED autoCurr /\ fetched' # "exact"
      BY <1>7, <2>1 DEF ReadBlockFails, Spoilt
    <3>2. QED
      BY <2>1, <3>1, StoreShown
  <2>2. QED
    BY <1>2, <1>7, <2>1 DEF ReadBlockFails
<1>8. CASE UNCHANGED vars
  BY <1>1, <1>8 DEF vars, hmiVars
<1>9. QED
  BY <1>3, <1>4, <1>5, <1>6, <1>7, <1>8 DEF Next, Hmi, Faults

(* A fetch begins with the index of the register. *)
LEMMA StartKnown == IInv /\ StartFetch(AUTO, Rate) /\ UNCHANGED <<mainVars, timerVars>>
                      => FetchInv'
<1> SUFFICES ASSUME IInv, StartFetch(AUTO, Rate), UNCHANGED <<mainVars, timerVars>>
    PROVE FetchInv'
  OBVIOUS
<1>1. /\ autoCurr' = AUTO /\ old' = ~ Settled
      /\ fetched' = IF Settled THEN "exact" ELSE "near"
      /\ UNCHANGED <<mainPc, index, hmi_display, tab, passes, AUTO>>
  BY DEF StartFetch, Rate, mainVars, timerVars
<1>2. AUTO \in Stations /\ Recent(AUTO)
  BY DEF IInv, TypeOK, TabInv
<1>3. Settled => /\ mainPc = "sleep" /\ passes = 2 /\ AUTO = index
                 /\ tab = Fonts(AUTO) /\ hmi_display = Fonts(AUTO)
  BY DEF Settled, IInv, TabInv, DisplayInv
<1>4. Recent(autoCurr)'
  BY <1>1, <1>2 DEF Recent
<1>5. (tab = Fonts(autoCurr))' <=> tab = Fonts(AUTO)
  BY <1>1 DEF Fonts
<1>6. (hmi_display = Fonts(autoCurr))' <=> hmi_display = Fonts(AUTO)
  BY <1>1 DEF Fonts
<1>7. QED
  BY <1>1, <1>2, <1>3, <1>4, <1>5, <1>6 DEF FetchInv

(* The fetch goes on, undisturbed by the BBB. *)
LEMMA FetchGoesOn ==
  ASSUME IInv, UNCHANGED <<mainVars, timerVars, autoCurr>>,
         hmiPc' = "fetch" => hmiPc = "fetch" /\ old' = old,
         fetched' \in {fetched, Spoilt}
  PROVE  FetchInv'
<1>1. UNCHANGED <<mainPc, index, hmi_display, tab, passes, autoCurr>>
  BY DEF mainVars, timerVars
<1>2. (tab = Fonts(autoCurr))' <=> tab = Fonts(autoCurr)
  BY <1>1 DEF Fonts
<1>3. (hmi_display = Fonts(autoCurr))' <=> hmi_display = Fonts(autoCurr)
  BY <1>1 DEF Fonts
<1>4. /\ fetched' # "any" => fetched # "any"
      /\ fetched' = "exact" => fetched = "exact"
  BY DEF Spoilt
<1>5. QED
  BY <1>1, <1>2, <1>3, <1>4, RecentKept DEF IInv, FetchInv

LEMMA FetchStep == IInv /\ [Next]_vars => FetchInv'
<1> SUFFICES ASSUME IInv, [Next]_vars PROVE FetchInv'
  OBVIOUS
<1>1. CASE SetIndex \/ Clear \/ Fill
  <2>1. mainPc \in {"set", "clear", "fill"} /\ UNCHANGED <<index, hmiPc, autoCurr>>
    BY <1>1 DEF SetIndex, Clear, Fill, hmiVars
  <2>2. ASSUME hmiPc = "fetch", fetched' # "any"
        PROVE  fetched' = "near" /\ fetched # "any"
    BY <1>1, <2>2 DEF SetIndex, Clear, Fill, Spoilt, IInv, FetchInv, TypeOK
  <2>3. hmiPc = "fetch" /\ ~ old' => mainPc' # "sleep"
    BY <1>1 DEF SetIndex, Clear, Fill
  <2>4. QED
    BY <2>1, <2>2, <2>3, RecentKept DEF IInv, FetchInv
<1>2. CASE Wake
  <2>1. /\ mainPc = "sleep" /\ mainPc' = "set" /\ index' = NextIndex(index)
        /\ ~ (hmiPc = "fetch" /\ old)
        /\ UNCHANGED <<hmi_display, tab, hmiPc, autoCurr, old, fetched>>
    BY <1>2 DEF Wake, Slept, hmiVars
  <2>2. SUFFICES ASSUME hmiPc = "fetch", fetched # "any" PROVE FetchInv'
    BY <2>1 DEF FetchInv
  <2>3. autoCurr = index /\ autoCurr \in Stations
    BY <2>1, <2>2 DEF IInv, FetchInv
  <2>4. Recent(autoCurr)'
    BY <2>1, <2>3 DEF Recent
  <2>5. (tab = Fonts(autoCurr))' <=> tab = Fonts(autoCurr)
    BY <2>1 DEF Fonts
  <2>6. (hmi_display = Fonts(autoCurr))' <=> hmi_display = Fonts(autoCurr)
    BY <2>1 DEF Fonts
  <2>7. QED
    BY <2>1, <2>2, <2>3, <2>4, <2>5, <2>6 DEF IInv, FetchInv
<1>3. CASE Timer
  <2>1. UNCHANGED <<mainPc, index, hmi_display, hmiPc, autoCurr, old, fetched>>
    BY <1>3 DEF Timer, TimerIndex, TimerCopy, mainVars, hmiVars
  <2>2. passes = 2 => passes' = 2
    BY <1>3 DEF Timer, TimerIndex, TimerCopy
  <2>3. ASSUME hmiPc = "fetch", fetched = "exact" PROVE tab' = tab
    <3>1. tab = Fonts(autoCurr) /\ hmi_display = Fonts(autoCurr)
      BY <2>3 DEF IInv, FetchInv
    <3>2. CASE TimerCopy
      BY <3>1, <3>2 DEF TimerCopy, IInv, TypeOK
    <3>3. QED
      BY <1>3, <3>2 DEF Timer, TimerIndex
  <2>4. (hmi_display = Fonts(autoCurr))' <=> hmi_display = Fonts(autoCurr)
    BY <2>1 DEF Fonts
  <2>5. tab' = tab => ((tab = Fonts(autoCurr))' <=> tab = Fonts(autoCurr))
    BY <2>1 DEF Fonts
  <2>6. QED
    BY <2>1, <2>2, <2>3, <2>4, <2>5, RecentKept DEF IInv, FetchInv
<1>4. CASE FirstPoll \/ Poll \/ PollFails
  <2>1. UNCHANGED <<mainVars, timerVars>>
    BY <1>4, HmiAlone DEF Hmi, Faults
  <2>2. CASE StartFetch(AUTO, Rate)
    BY <2>1, <2>2, StartKnown
  <2>3. CASE \E v \in StaleIndex : StartFetch(v, "any")
    BY <2>3 DEF StartFetch, FetchInv
  <2>4. CASE UNCHANGED <<hmiPc, first, hpos, retry, autoCurr, font, old, fetched>>
    BY <2>1, <2>4, FetchGoesOn
  <2>5. QED
    BY <1>4, <2>2, <2>3, <2>4, PollCases DEF IInv
<1>5. CASE FirstPollFails \/ HmiCrash
  BY <1>5 DEF FirstPollFails, HmiCrash, FetchInv
<1>6. CASE ReadBlock \/ ReadBlockFails
  <2>1. UNCHANGED <<mainVars, timerVars, autoCurr>>
    BY <1>6 DEF ReadBlock, ReadBlockFails
  <2>2. hmiPc' = "fetch" => hmiPc = "fetch" /\ old' = old
    BY <1>6 DEF ReadBlock, ReadBlockFails, Store, EndFetch
  <2>3. CASE fetched' = "any"
    BY <2>3 DEF FetchInv
  <2>4. CASE fetched' \in {fetched, Spoilt}
    BY <2>1, <2>2, <2>4, FetchGoesOn
  <2>5. QED
    BY <1>6, <2>3, <2>4 DEF ReadBlock, ReadBlockFails
<1>7. CASE UNCHANGED vars
  BY <1>7, FetchGoesOn DEF vars, hmiVars
<1>8. QED
  BY <1>1, <1>2, <1>3, <1>4, <1>5, <1>6, <1>7 DEF Next, Main, Hmi, Faults

LEMMA RetryStep == IInv /\ [Next]_vars => RetryInv'
<1> SUFFICES ASSUME IInv, [Next]_vars PROVE RetryInv'
  OBVIOUS
<1>1. /\ hpos \in Nat /\ hpos >= 1 /\ retry \in Nat /\ first \in BOOLEAN
      /\ first => retry <= 1
      /\ ~ first /\ hpos <= Blocks => retry < hpos
  BY Positions DEF IInv, TypeOK, RetryInv
<1>2. CASE UNCHANGED <<first, hpos, retry>>
  BY <1>1, <1>2 DEF RetryInv
<1>3. CASE hpos' = 1 /\ retry' = 0
  BY <1>3 DEF RetryInv
<1>4. CASE FirstPoll \/ Poll \/ PollFails
  BY <1>2, <1>3, <1>4, PollCases DEF IInv, StartFetch
<1>5. ASSUME NEW val, NEW r \in Nat, Store(val, r),
             first => r <= 1, r <= retry + 1
      PROVE  RetryInv'
  <2>1. CASE EndFetch
    BY <1>3, <2>1 DEF EndFetch
  <2>2. CASE /\ hpos' = hpos + 1 /\ first' = first
             /\ retry' = IF first /\ hpos = Blocks THEN 0 ELSE r
    BY <1>1, <1>5, <2>2 DEF RetryInv
  <2>3. QED
    BY <1>5, <2>1, <2>2 DEF Store
<1>6. CASE ReadBlock
  BY <1>1, <1>5, <1>6 DEF ReadBlock
<1>7. CASE ReadBlockFails
  <2>1. CASE EndFetch
    BY <1>3, <2>1 DEF EndFetch
  <2>2. CASE ~ GivesUp /\ Store(Junk, retry + 1)
    BY <1>1, <1>5, <2>2 DEF GivesUp
  <2>3. QED
    BY <1>7, <2>1, <2>2 DEF ReadBlockFails
<1>8. CASE FirstPollFails \/ HmiCrash \/ Main \/ Timer \/ UNCHANGED vars
  BY <1>2, <1>3, <1>8
  DEF FirstPollFails, HmiCrash, Main, SetIndex, Clear, Fill, Wake, Timer,
      TimerIndex, TimerCopy, hmiVars, vars
<1>9. QED
  BY <1>4, <1>6, <1>7, <1>8 DEF Next, Hmi, Faults

-----------------------------------------------------------------------------
LEMMA InvStep == IInv /\ [Next]_vars => IInv'
BY TypeStep, DisplayStep, TabStep, ShownStep, FetchStep, RetryStep DEF IInv

LEMMA Invariance == Spec => []IInv
BY InitInv, InvStep, PTL DEF Spec

(* TypeOK of the main loop, the timer and the HMI: the buffer and the      *)
(* registers never hold what a failed read leaves, and the HMI counts at   *)
(* most a failed read for each block of a station (getInfosFromBBB).       *)
THEOREM TypeCorrect == Spec => []TypeOK
<1>1. IInv => TypeOK
  BY DEF IInv
<1>2. QED
  BY <1>1, Invariance, PTL

(* What the HMI has fetched is at most one publication away from its       *)
(* index, for any route and any number of blocks, although the main loop   *)
(* (MainLoop::run) and the timer (refreshCriticalInfos) change the buffer  *)
(* and the registers between any two blocks that it reads.                 *)
THEOREM ShownIsNear == Spec => []ShownNear
<1>1. IInv => ShownNear
  BY DEF IInv, ShownInv, ShownNear, Has
<1>2. QED
  BY <1>1, Invariance, PTL

(* A fetch that begins when the timer has copied the publication, and that *)
(* no other publication and no failed read disturbs, shows the fonts of    *)
(* the station and of the next one (getInfosFromBBB).                      *)
THEOREM ShownIsExact == Spec => []ShownExact
<1>1. ASSUME IInv, hmiPc = "idle", fetched = "exact" PROVE font = Fonts(autoCurr)
  <2>1. \A p \in Pos : font[p] = FontOf(autoCurr, p)
    BY <1>1 DEF IInv, ShownInv, Has
  <2>2. font \in [Pos -> Stations \cup {Blank, Junk}]
    BY <1>1 DEF IInv, TypeOK
  <2>3. QED
    BY <2>1, <2>2, Whole
<1>2. IInv => ShownExact
  BY <1>1 DEF ShownExact
<1>3. QED
  BY <1>2, Invariance, PTL

-----------------------------------------------------------------------------
(* The board of the passengers.                                            *)

LEMMA BoardInit == Init => Board!Init
BY DEF Init, Board!Init, Board!Unsure, Stations

(* A fetch that ends, and not in doubt, shows something that fits. *)
LEMMA FetchShown ==
  ASSUME IInv, IInv', hmiPc = "fetch", hmiPc' = "idle", fetched # "any",
         fetched' # "any", UNCHANGED <<index, autoCurr>>
  PROVE  Board!Show
<1>1. Board!Current(autoCurr) /\ autoCurr \in Stations
  BY DEF IInv, FetchInv, Recent, Board!Current
<1>2. font' \in [Pos -> Stations \cup {Blank, Junk}]
  BY DEF IInv, TypeOK
<1>3. ASSUME NEW p \in Pos, font'[p] \notin {Blank, Junk}
      PROVE  \E t \in Stations : /\ Board!Neighbours(autoCurr, t)
                                 /\ font'[p] = FontOf(t, p)
  <2>1. NearBy(font[p], autoCurr, p)'
    BY <1>3 DEF IInv, ShownInv, Has
  <2>2. PICK t \in Stations :
          /\ font'[p] = FontOf(t, p)
          /\ t = autoCurr' \/ t = NextIndex(autoCurr') \/ autoCurr' = NextIndex(t)
    BY <2>1 DEF NearBy
  <2>3. QED
    BY <2>2 DEF Board!Neighbours
<1>4. Board!Fits(autoCurr, font')
  BY <1>3 DEF Board!Fits
<1>5. QED
  BY <1>1, <1>2, <1>4 DEF Board!Show, Board!Busy, Board!Shows

LEMMA BoardStep == IInv /\ IInv' /\ [Next]_vars => [Board!Next]_Board!bvars
<1> SUFFICES ASSUME IInv, IInv', [Next]_vars PROVE [Board!Next]_Board!bvars
  OBVIOUS
<1>1. CASE UNCHANGED <<index, hmiPc, autoCurr, font>>
           /\ fetched' = IF hmiPc = "fetch" THEN fetched' ELSE fetched
  BY <1>1 DEF Board!bvars
<1>2. CASE SetIndex \/ Clear \/ Fill \/ Timer
  BY <1>1, <1>2 DEF SetIndex, Clear, Fill, Timer, TimerIndex, TimerCopy,
    mainVars, hmiVars
<1>3. CASE Wake
  <2>1. index' = NextIndex(index) /\ UNCHANGED <<hmiPc, autoCurr, font, fetched>>
    BY <1>3 DEF Wake, hmiVars
  <2>2. QED
    BY <2>1 DEF Board!Next, Board!Depart
<1>4. ASSUME Hmi \/ Faults PROVE index' = index
  BY <1>4, HmiAlone DEF mainVars
<1>5. ASSUME index' = index, hmiPc' = "fetch" PROVE Board!Renew
  BY <1>5 DEF Board!Renew, Board!Busy
<1>6. ASSUME index' = index, hmiPc' # "fetch", fetched' = "any" PROVE Board!Doubt
  BY <1>6 DEF Board!Doubt, Board!Unsure
<1>7. CASE FirstPoll \/ Poll \/ PollFails
  <2>1. ASSUME NEW v, NEW rate, StartFetch(v, rate) PROVE Board!Renew
    BY <1>4, <1>5, <1>7, <2>1 DEF StartFetch, Hmi, Faults
  <2>2. CASE UNCHANGED <<hmiPc, first, hpos, retry, autoCurr, font, old, fetched>>
    BY <1>1, <1>4, <1>7, <2>2 DEF Hmi, Faults
  <2>3. QED
    BY <1>7, <2>1, <2>2, PollCases DEF IInv, Board!Next
<1>8. CASE FirstPollFails \/ HmiCrash
  BY <1>4, <1>6, <1>8 DEF FirstPollFails, HmiCrash, Hmi, Faults, Board!Next
<1>9. CASE ReadBlock \/ ReadBlockFails
  <2>1. /\ index' = index /\ autoCurr' = autoCurr /\ hmiPc = "fetch"
        /\ hmiPc' \in {"fetch", "idle"}
        /\ fetched' # "any" => fetched # "any"
    BY <1>4, <1>9 DEF ReadBlock, ReadBlockFails, Store, EndFetch, Spoilt, Hmi,
      Faults
  <2>2. CASE hmiPc' = "fetch"
    BY <1>5, <2>1, <2>2 DEF Board!Next
  <2>3. CASE hmiPc' = "idle" /\ fetched' = "any"
    BY <1>6, <2>1, <2>3 DEF Board!Next
  <2>4. CASE hmiPc' = "idle" /\ fetched' # "any"
    BY <2>1, <2>4, FetchShown DEF Board!Next
  <2>5. QED
    BY <2>1, <2>2, <2>3, <2>4
<1>10. CASE UNCHANGED vars
  BY <1>1, <1>10 DEF vars, mainVars, hmiVars
<1>11. QED
  BY <1>2, <1>3, <1>7, <1>8, <1>9, <1>10 DEF Next, Main, Hmi, Faults

(* The refinement.  The index on the panel is the bus's own at the end of  *)
(* the fetch, or the one before, however long main loop, timer and HMI     *)
(* take for their parts of the way, and the fonts belong beside it.        *)
THEOREM BoardIsKept == Spec => ImplementsBoard
<1>1. IInv /\ [Next]_vars => [Board!Next]_Board!bvars
  BY InvStep, BoardStep
<1>2. QED
  BY <1>1, BoardInit, Invariance, PTL DEF Spec, ImplementsBoard, Board!Spec

=============================================================================
