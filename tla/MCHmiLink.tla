------------------------------ MODULE MCHmiLink ------------------------------
(* HmiLink on small instances.                                             *)
EXTENDS HmiLink
=============================================================================
