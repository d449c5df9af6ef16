---------------------------- MODULE StationBoard ----------------------------
(***************************************************************************)
(* What the passengers are promised of the panel, whatever the buffers,    *)
(* copies and reads on the way to it do.  The bus goes from one station to *)
(* the next, and every index that the panel shows was the bus's own while  *)
(* the panel was renewed, or the one before; the fonts beside it are those *)
(* of the same station or of a neighbour.  Only when a reading went wrong  *)
(* the panel is unsure, and then it promises nothing until it is renewed.  *)
(* StationInfo is shown to implement this module.                          *)
(***************************************************************************)
CONSTANTS
  Stations,      \* the stations of the route
  Pos,           \* the places of the panel that show fonts
  After(_),      \* the station that follows one
  Signs,         \* what a place can show
  FontOf(_, _),  \* what it shows when a station is current
  Unread         \* what it shows when it could not be read

VARIABLES
  here,          \* the station of the bus
  board          \* the panel: unsure, being renewed, or what it shows

bvars == <<here, board>>

Unsure == [is |-> "unsure"]
Busy   == [is |-> "busy"]
Shows(s, fonts) == [is |-> "shown", index |-> s, fonts |-> fonts]

(* s is the station of the bus or the one before. *)
Current(s) == s = here \/ After(s) = here

Neighbours(s, t) == t = s \/ t = After(s) \/ s = After(t)

(* The fonts may stand beside the index s. *)
Fits(s, fonts) ==
  \A p \in Pos : \/ fonts[p] \in Unread
                 \/ \E t \in Stations : /\ Neighbours(s, t)
                                        /\ fonts[p] = FontOf(t, p)

Init == here \in Stations /\ board = Unsure

(* The bus leaves for the next station. *)
Depart == here' = After(here) /\ UNCHANGED board

(* The panel is renewed. *)
Renew == board' = Busy /\ UNCHANGED here

(* It shows what it was renewed with. *)
Show ==
  /\ board = Busy
  /\ \E s \in Stations, fonts \in [Pos -> Signs] :
       board' = Shows(s, fonts) /\ Current(s) /\ Fits(s, fonts)
  /\ UNCHANGED here

(* A reading went wrong, or the panel was switched off. *)
Doubt == board' = Unsure /\ UNCHANGED here

Next == Depart \/ Renew \/ Doubt \/ Show

Spec == Init /\ [][Next]_bvars
=============================================================================
