----------------------------- MODULE MCDvrLink -----------------------------
(* The link of the BBB and the DVR board, for TLC: the constants are given *)
(* their values in the configurations.                                     *)
EXTENDS DvrLink
=============================================================================
