----------------------------- MODULE MCHmiPanel -----------------------------
(* A block of the top line, the station, and the two numbers of one or two *)
(* digits that move; for the weather an instance of its own.               *)
EXTENDS HmiPanel
MCValues == [min |-> {0, 1}, station |-> {0, 1},
             temperature |-> {0, 10}, humidity |-> {0, 10}]
MCScreenValues == [station |-> {0, 1}, weather |-> {0, 2}, ultraViolet |-> {0, 2}]
=============================================================================
