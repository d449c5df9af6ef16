----------------------------- MODULE BeijingTime -----------------------------
(***************************************************************************)
(* UTC2BTC of the GPS adapter (smart-bus, adp_gps.cpp): the time of a      *)
(* sentence, which is UTC, as Beijing time, with the second that has       *)
(* passed since.  gpsAdpParse has its call commented out: the time it      *)
(* stores is UTC.  The function itself is a chain of carries from field to *)
(* field with a calendar of its own.                                       *)
(***************************************************************************)
EXTENDS Integers

CONSTANTS
  Years, Hours, Minutes, Seconds    \* what the fields of a sentence may say

(* A sentence has two digits for the year; 2000 is added to them. *)
ASSUME BeijingTimeAssumption ==
  /\ Years \subseteq 2000 .. 2099 /\ Hours \subseteq 0 .. 23
  /\ Minutes \subseteq 0 .. 59 /\ Seconds \subseteq 0 .. 59

-----------------------------------------------------------------------------
(* The code.  date_time is a record of six ints.                           *)

PlusSecond(t) ==
  IF t.second < 59 THEN [t EXCEPT !.second = t.second + 1]
  ELSE IF t.minute < 59
       THEN [t EXCEPT !.second = 0, !.minute = t.minute + 1]
       ELSE [t EXCEPT !.second = 0, !.minute = 0, !.hour = t.hour + 1]

(* After which day the month is over: a table of the short months, then a  *)
(* case of its own for the second.                                         *)
LastDay(t) == IF t.month = 2 THEN IF t.year % 4 = 0 THEN 29 ELSE 28
              ELSE IF t.month \in {4, 6, 9, 11} THEN 30 ELSE 31

PlusDay(t) ==
  IF t.day + 1 <= LastDay(t) THEN [t EXCEPT !.day = t.day + 1]
  ELSE IF t.month + 1 <= 12
       THEN [t EXCEPT !.day = 1, !.month = t.month + 1]
       ELSE [t EXCEPT !.day = 1, !.month = t.month - 11, !.year = t.year + 1]

PlusEightHours(t) ==
  IF t.hour + 8 <= 23 THEN [t EXCEPT !.hour = t.hour + 8]
  ELSE PlusDay([t EXCEPT !.hour = t.hour - 16])

UTC2BTC(t) == PlusEightHours(PlusSecond(t))

-----------------------------------------------------------------------------
(* The reference: the Gregorian calendar and the seconds since the year    *)
(* 2000.                                                                   *)

Leap(y) == (y % 4 = 0 /\ y % 100 # 0) \/ y % 400 = 0

DaysBefore == <<0, 31, 59, 90, 120, 151, 181, 212, 243, 273, 304, 334>>
DaysIn     == <<31, 28, 31, 30, 31, 30, 31, 31, 30, 31, 30, 31>>

IsDate(t) ==
  /\ t.month \in 1 .. 12 /\ t.day >= 1
  /\ t.day <= DaysIn[t.month] + (IF t.month = 2 /\ Leap(t.year) THEN 1 ELSE 0)
IsTime(t) == t.hour \in 0 .. 23 /\ t.minute \in 0 .. 59 /\ t.second \in 0 .. 59

(* The leap years from 2000 to the one before, with 2100 out of reach. *)
LeapsBefore(y) == (y - 1997) \div 4

DayNumber(t) ==
  365 * (t.year - 2000) + LeapsBefore(t.year) + DaysBefore[t.month]
    + (IF t.month > 2 /\ Leap(t.year) THEN 1 ELSE 0) + t.day - 1
SecondNumber(t) ==
  86400 * DayNumber(t) + 3600 * t.hour + 60 * t.minute + t.second

Instants ==
  {t \in [year : Years, month : 1 .. 12, day : 1 .. 31,
          hour : Hours, minute : Minutes, second : Seconds] : IsDate(t)}

(* The chain of carries ends, for every second of every day, with a time   *)
(* of day and a date of the calendar, and they say 8 hours and 1 second    *)
(* later than what went in: no carry is lost or made twice, at the end of  *)
(* no minute, hour, day, month or year and at no leap day.                 *)
BeijingRight ==
  \A t \in Instants :
    LET b == UTC2BTC(t) IN
    IsDate(b) /\ IsTime(b) /\ SecondNumber(b) = SecondNumber(t) + 8 * 3600 + 1
=============================================================================
