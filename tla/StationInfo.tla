---------------------------- MODULE StationInfo ----------------------------
(***************************************************************************)
(* The way of a station from the main loop of the BBB to the HMI board.    *)
(*                                                                         *)
(*   main   MainLoop::run (smart-bus/src/main) sets the index of the       *)
(*          station, fills hmi_display with the fonts of this station and  *)
(*          the next one, and sleeps for 30 s.                             *)
(*   timer  every 2 s refreshCriticalInfos copies the index and the fonts  *)
(*          into the registers (smart-bus/src/app/hmi).                    *)
(*   HMI    getInfosFromBBB (smb-hmi/smb_main) reads the index every 3 s   *)
(*          and, if it has changed, the fonts, block by block.             *)
(*                                                                         *)
(* Nothing is locked, on a board with one core: the threads of main and    *)
(* timer interleave between the blocks of a copy, as between any two       *)
(* statements.  A block of fonts, here and there, is 64 registers, what    *)
(* one request of the HMI reads.  The model begins when the publication    *)
(* before the main loop is over.                                           *)
(***************************************************************************)
EXTENDS Integers

CONSTANTS
  N,             \* stations of the route, 10 in the code
  Blocks,        \* blocks of one station's fonts, 8 in the code
  MaxFaults      \* bound: reads that fail, and restarts, in one behaviour

ASSUME StationInfoAssumption ==
  N \in Nat /\ N > 1 /\ Blocks \in Nat \ {0} /\ MaxFaults \in Nat

VARIABLES
  \* main loop
  mainPc,        \* what it does next
  index,         \* its local of that name
  mpos,          \* the block of hmi_display it fills next
  autoNext,      \* HmiApp::autoNextStation
  hmi_display,   \* the buffer of the fonts, block by block
  \* timer
  tpos,          \* the block it copies next, or 0
  AUTO,          \* the register AUTO_CURR_STATION_MODREG
  tab,           \* the registers of the fonts, block by block
  \* HMI
  hmiPc,         \* off, before its first poll, idle, or fetching fonts
  first,         \* the fetch in progress is that of the first poll
  hpos,          \* the block it reads next
  retry,         \* failed reads of this fetch, as the code counts them
  autoCurr,      \* tBusInfo.autoCurrStation
  font,          \* tBusInfo.currentStation and nextStation
  \* history and bound
  passes,        \* timer passes begun and ended since the last publication:
                 \* 0 none, 1 begun, 2 ended
  old,           \* the fetch began before the registers had settled
  fetched,       \* what the last fetch was like, see Rate
  faults         \* faults so far

mainVars  == <<mainPc, index, mpos, autoNext, hmi_display>>
timerVars == <<tpos, AUTO, tab, passes>>
hmiVars   == <<hmiPc, first, hpos, retry, autoCurr, font>>
vars      == <<mainVars, timerVars, hmiVars, old, fetched, faults>>

Stations == 0 .. N - 1
Pos      == 1 .. 2 * Blocks       \* the blocks of both stations
Blank    == -1                    \* a block of zeros
Junk     == -2                    \* what a failed read leaves in a block
Other    == -3                    \* an index that is none of the route's

(* The index after i.  Mutant: it does not wrap. *)
MutNextIndex(i) == i + 1
NextIndex(i) == IF i + 1 >= N THEN 0 ELSE i + 1

(* The station whose fonts block p belongs to when station s is current. *)
FontOf(s, p) == IF p <= Blocks THEN s ELSE NextIndex(s)
Fonts(s) == [p \in Pos |-> FontOf(s, p)]

(* The rating of a fetch that something has disturbed, see Rate. *)
Spoilt == IF fetched = "exact" THEN "near" ELSE fetched

Fault == faults < MaxFaults /\ faults' = faults + 1

-----------------------------------------------------------------------------
Init ==
  /\ mainPc = "set" /\ index = 0 /\ mpos = 1
  /\ autoNext = 0 /\ hmi_display = Fonts(0)
  /\ tpos = 0 /\ AUTO = 0 /\ tab = [p \in Pos |-> Blank] /\ passes = 0
  /\ hmiPc = "off" /\ first = FALSE /\ hpos = 1 /\ retry = 0
  /\ autoCurr = 0 /\ font = [p \in Pos |-> Blank]
  /\ old = FALSE /\ fetched = "any" /\ faults = 0

-----------------------------------------------------------------------------
(* The main loop.                                                          *)

(* A publication begins: the index is set before the fonts. *)
SetIndex ==
  /\ mainPc = "set"
  /\ autoNext' = index
  /\ mainPc' = "clear"
  /\ fetched' = IF hmiPc = "fetch" THEN Spoilt ELSE fetched
  /\ UNCHANGED <<index, mpos, hmi_display, timerVars, hmiVars, old, faults>>

(* generateHmiBuf clears the buffer, then fills it with the fonts of the   *)
(* station and the next one.                                               *)
LastBlock == mpos = 2 * Blocks
NextBlock == mpos' = IF LastBlock THEN 1 ELSE mpos + 1

Clear ==
  /\ mainPc = "clear"
  /\ hmi_display' = [hmi_display EXCEPT ![mpos] = Blank]
  /\ NextBlock /\ mainPc' = IF LastBlock THEN "fill" ELSE "clear"
  /\ UNCHANGED <<index, autoNext, timerVars, hmiVars, old, fetched, faults>>

Fill ==
  /\ mainPc = "fill"
  /\ hmi_display' = [hmi_display EXCEPT ![mpos] = FontOf(index, mpos)]
  /\ NextBlock /\ mainPc' = IF LastBlock THEN "sleep" ELSE "fill"
  /\ old' = IF LastBlock THEN hmiPc = "fetch" ELSE old
  /\ UNCHANGED <<index, autoNext, timerVars, hmiVars, fetched, faults>>

(* What 30 s are long enough for: a whole pass of the timer, which comes   *)
(* every 2 s, and the end of a fetch that began before it (a fetch has at  *)
(* most 9 reads that time out after 2 s, the others take 0.15 s each).     *)
(* Mutant: no sleep at all.                                                *)
MutSlept == TRUE
Slept == passes = 2 /\ ~ (hmiPc = "fetch" /\ old)

Wake ==
  /\ mainPc = "sleep" /\ Slept
  /\ index' = NextIndex(index)
  /\ mainPc' = "set" /\ passes' = 0
  /\ UNCHANGED <<mpos, autoNext, hmi_display, tpos, AUTO, tab, hmiVars, old,
                 fetched, faults>>

-----------------------------------------------------------------------------
(* The timer.                                                              *)

(* The block copied first in a pass.  Mutant: none if the index is that of *)
(* the last pass.                                                          *)
MutFirstBlock == IF AUTO = autoNext THEN 0 ELSE 1
FirstBlock == 1

TimerIndex ==
  /\ tpos = 0
  /\ AUTO' = autoNext
  /\ tpos' = FirstBlock
  /\ passes' = IF mainPc = "sleep" /\ passes = 0 THEN 1 ELSE passes
  /\ UNCHANGED <<tab, mainVars, hmiVars, old, fetched, faults>>

(* setVals copies register by register out of the buffer. *)
TimerCopy ==
  /\ tpos # 0
  /\ tab' = [tab EXCEPT ![tpos] = hmi_display[tpos]]
  /\ tpos' = IF tpos = 2 * Blocks THEN 0 ELSE tpos + 1
  /\ passes' = IF tpos = 2 * Blocks /\ passes = 1 THEN 2 ELSE passes
  /\ UNCHANGED <<AUTO, mainVars, hmiVars, old, fetched, faults>>

(* Index and fonts in the registers belong together. *)
Settled == mainPc = "sleep" /\ passes = 2

-----------------------------------------------------------------------------
(* The HMI.                                                                *)

(* What to expect of a fetch that begins now.  "exact": the fonts of the   *)
(* station shown.  "near": perhaps of a publication before or after it, or *)
(* with blocks of failed reads.  "any": the index was not read, or the     *)
(* fetch was given up.                                                     *)
Rate == IF Settled THEN "exact" ELSE "near"

StartFetch(v, rate) ==
  /\ autoCurr' = v
  /\ hmiPc' = "fetch" /\ hpos' = 1 /\ retry' = 0
  /\ old' = ~ Settled /\ fetched' = rate

(* The value that a failed read of the index leaves: that of another       *)
(* register, which may look like a station.                                *)
StaleIndex == Stations \cup {Other}

(* setup's call, once logged in: the fonts are fetched whatever the index. *)
FirstPoll ==
  /\ hmiPc = "off"
  /\ first' = TRUE
  /\ \/ StartFetch(AUTO, Rate) /\ UNCHANGED faults
     \/ \E v \in StaleIndex : StartFetch(v, "any") /\ Fault
  /\ UNCHANGED <<mainVars, timerVars, font>>

(* That call ends at once when it cannot write its keep-alive request. *)
FirstPollFails ==
  /\ hmiPc = "off" /\ Fault
  /\ hmiPc' = "idle" /\ fetched' = "any"
  /\ UNCHANGED <<mainVars, timerVars, first, hpos, retry, autoCurr, font, old>>

(* Whether an index calls for a fetch.  Mutant: only a larger one does. *)
MutChanged(v) == v > autoCurr
Changed(v) == v # autoCurr

(* The loop's poll, every 3 s unless the keep-alive before it fails. *)
Polled(v, rate) ==
  \/ Changed(v) /\ first' = FALSE /\ StartFetch(v, rate)
  \/ ~ Changed(v) /\ UNCHANGED <<hmiPc, first, hpos, retry, autoCurr,
                                 old, fetched>>
Poll == /\ hmiPc = "idle"
        /\ Polled(AUTO, Rate)
        /\ UNCHANGED <<mainVars, timerVars, font, faults>>
PollFails ==
  /\ hmiPc = "idle" /\ Fault
  /\ \E v \in StaleIndex : Polled(v, "any")
  /\ UNCHANGED <<mainVars, timerVars, font>>

(* The block of the registers that block p is read from.                   *)
(* Mutant: the start address is not set for the next station.              *)
MutRegBlock(p) == IF p <= Blocks THEN p ELSE p - Blocks
RegBlock(p) == p

(* A block is stored; after the last one the fetch is over.  The first     *)
(* fetch counts the failed reads of each station apart.                    *)
EndFetch == /\ hmiPc' = "idle" /\ hpos' = 1 /\ retry' = 0
            /\ first' = FALSE /\ old' = FALSE
Store(val, r) ==
  /\ font' = [font EXCEPT ![hpos] = val]
  /\ \/ hpos = 2 * Blocks /\ EndFetch
     \/ /\ hpos < 2 * Blocks
        /\ hpos' = hpos + 1
        /\ retry' = IF first /\ hpos = Blocks THEN 0 ELSE r
        /\ UNCHANGED <<hmiPc, first, old>>

ReadBlock ==
  /\ hmiPc = "fetch"
  /\ Store(tab[RegBlock(hpos)], retry)
  /\ UNCHANGED <<mainVars, timerVars, autoCurr, fetched, faults>>

(* A second failed read ends the fetch, but in the loop only when it is a  *)
(* read of the next station.                                               *)
GivesUp == retry + 1 >= 2 /\ (first \/ hpos > Blocks)

(* Otherwise what the response buffer holds is stored. *)
ReadBlockFails ==
  /\ hmiPc = "fetch" /\ Fault
  /\ \/ GivesUp /\ EndFetch /\ fetched' = "any" /\ UNCHANGED font
     \/ ~ GivesUp /\ Store(Junk, retry + 1) /\ fetched' = Spoilt
  /\ UNCHANGED <<mainVars, timerVars, autoCurr>>

(* The HMI board restarts. *)
HmiCrash ==
  /\ hmiPc # "off" /\ Fault
  /\ hmiPc' = "off" /\ first' = FALSE /\ hpos' = 1 /\ retry' = 0
  /\ autoCurr' = 0 /\ font' = [p \in Pos |-> Blank]
  /\ old' = FALSE /\ fetched' = "any"
  /\ UNCHANGED <<mainVars, timerVars>>

-----------------------------------------------------------------------------
Main  == SetIndex \/ Clear \/ Fill \/ Wake
Timer == TimerIndex \/ TimerCopy
Hmi   == FirstPoll \/ Poll \/ ReadBlock

Faults == FirstPollFails \/ PollFails \/ ReadBlockFails \/ HmiCrash

Next == Main \/ Timer \/ Hmi \/ Faults

Spec == Init /\ [][Next]_vars

(* The timer fires and the HMI's loop goes round.  Nothing is assumed of   *)
(* the main loop, which may be held up by the GPS or the message FIFO.     *)
Fairness ==
  /\ WF_vars(TimerIndex) /\ WF_vars(TimerCopy)
  /\ WF_vars(FirstPoll) /\ WF_vars(Poll) /\ WF_vars(ReadBlock)

FairSpec == Spec /\ Fairness

-----------------------------------------------------------------------------
(* Types of all variables. *)
TypeOK ==
  /\ mainPc \in {"set", "clear", "fill", "sleep"}
  /\ index \in Stations /\ autoNext \in Stations /\ AUTO \in Stations
  /\ mpos \in Pos /\ tpos \in {0} \cup Pos /\ hpos \in Pos
  /\ hmi_display \in [Pos -> Stations \cup {Blank}]
  /\ tab \in [Pos -> Stations \cup {Blank}]
  /\ hmiPc \in {"off", "idle", "fetch"} /\ first \in BOOLEAN
  /\ retry \in 0 .. Blocks
  /\ autoCurr \in Stations \cup {Other}
  /\ font \in [Pos -> Stations \cup {Blank, Junk}]
  /\ passes \in 0 .. 2 /\ old \in BOOLEAN
  /\ fetched \in {"exact", "near", "any"} /\ faults \in 0 .. MaxFaults

(* Block p shows the fonts of the station before s, of s, or of the one    *)
(* after it.                                                               *)
NearBy(b, s, p) ==
  \E t \in Stations : /\ b = FontOf(t, p)
                      /\ t = s \/ t = NextIndex(s) \/ s = NextIndex(t)

(* What the HMI shows is at most one publication away from its index, or   *)
(* blank: copying out of hmi_display without a lock (refreshCriticalInfos) *)
(* and reads that fail do no worse, unless the index itself was not read   *)
(* or the fetch was given up (getInfosFromBBB).                            *)
ShownNear ==
  hmiPc = "idle" /\ fetched # "any"
    => \A p \in Pos : font[p] \notin {Blank, Junk}
                        => NearBy(font[p], autoCurr, p)

(* A fetch whose index was read when the timer had copied the publication, *)
(* and that no other publication and no failed read has disturbed, shows   *)
(* the fonts of the station and of the next one.                           *)
ShownExact == hmiPc = "idle" /\ fetched = "exact" => font = Fonts(autoCurr)

(* Whatever a publication and the timer have mixed is repaired: when the   *)
(* main loop rests, the registers become those of its station.             *)
RegistersSettle ==
  <>[](mainPc = "sleep") => <>[](AUTO = index /\ tab = Fonts(index))

(* The HMI shows the index of the BBB in the end, also after a failed read *)
(* has given it another one.                                               *)
IndexFollows == <>[](mainPc = "sleep") => <>[](autoCurr = index)

(* "current station change, so need to update current station font"        *)
(* (getInfosFromBBB): when a poll finds no change, the fonts shown are     *)
(* those of the station.                                                   *)
FontsUpdated ==
  hmiPc = "idle" /\ Settled /\ ~ Changed(AUTO) => font = Fonts(autoCurr)

(* The way of a station implements the board of the passengers: it shows a *)
(* fetch that is over, unless the index was not read or the fetch given up *)
(* (getInfosFromBBB), and whatever the threads of the BBB have mixed fits. *)
Board == INSTANCE StationBoard
           WITH Signs <- Stations \cup {Blank, Junk}, Unread <- {Blank, Junk},
                After <- NextIndex, here <- index,
                board <- IF hmiPc = "fetch" THEN [is |-> "busy"]
                         ELSE IF fetched = "any" THEN [is |-> "unsure"]
                         ELSE [is |-> "shown", index |-> autoCurr,
                               fonts |-> font]
ImplementsBoard == Board!Spec
=============================================================================
