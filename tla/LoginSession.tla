---------------------------- MODULE LoginSession ----------------------------
(***************************************************************************)
(* What the login handshake promises, whatever the connection between the  *)
(* two boards does: during one run of the DVR daemon the BBB answers the   *)
(* login request (0xB6B6 written over 0xA5A5), and only then may the       *)
(* daemon consider itself logged in.  A daemon that restarts starts over.  *)
(* DvrLink is shown to implement this module.                              *)
(***************************************************************************)
VARIABLES
  answered,   \* the BBB has answered the login request of this daemon run
  loggedIn    \* the daemon considers itself logged in

svars == <<answered, loggedIn>>

Init == answered = FALSE /\ loggedIn = FALSE

(* The answer of the BBB reaches the register of the daemon. *)
Answer == answered' = TRUE /\ UNCHANGED loggedIn

(* The daemon takes notice of the answer. *)
LogIn == answered /\ loggedIn' = TRUE /\ UNCHANGED answered

(* The daemon dies and is started again. *)
Restart == answered' = FALSE /\ loggedIn' = FALSE

Next == Answer \/ LogIn \/ Restart

Spec == Init /\ [][Next]_svars
=============================================================================
