--------------------------- MODULE MCHisiMailbox ---------------------------
(* The mailbox of the daemon, for TLC: the constants are given their       *)
(* values in the configurations.                                           *)
EXTENDS HisiMailbox
=============================================================================
