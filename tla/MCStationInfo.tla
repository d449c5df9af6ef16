--------------------------- MODULE MCStationInfo ---------------------------
(* Instances of StationInfo for TLC.  With four stations the one before,   *)
(* the one after and the one farther away differ; one block per station    *)
(* lets the copies be interrupted between a station and the next.          *)
EXTENDS StationInfo
=============================================================================
