---------------------------- MODULE MCGpsPipeline ----------------------------
(* Two seconds tell a sentence from the one before.  A buffer of 5 tokens  *)
(* is filled by two sentences whose line feed is lost.                     *)
(* The conversion to Beijing time: all days of a leap year and the years   *)
(* on either side of it, around the hour at which the day changes there,   *)
(* at the carries of second and minute.                                    *)
EXTENDS GpsPipeline, BeijingTime

MCYears == 2003 .. 2005
MCHours == {0, 14, 15, 16, 23}
MCEnds  == {0, 58, 59}

(* Evaluated once, when TLC starts; BeijingTimeProofs proves it for all.   *)
ASSUME BeijingInstance == BeijingRight
=============================================================================
