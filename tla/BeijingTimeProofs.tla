-------------------------- MODULE BeijingTimeProofs --------------------------
(* UTC2BTC is right for every time of every day of 2000 to 2099.           *)
EXTENDS BeijingTime, TLAPS

DateTimes == [year : Int, month : Int, day : Int,
              hour : Int, minute : Int, second : Int]

SecondOfDay(t) == 3600 * t.hour + 60 * t.minute + t.second

(* The leap years since 2000, four years apart. *)
LEMMA LeapsCount ==
  ASSUME NEW y \in 2000 .. 2099
  PROVE  /\ Leap(y) <=> y % 4 = 0
         /\ LeapsBefore(y + 1) = LeapsBefore(y) + (IF y % 4 = 0 THEN 1 ELSE 0)
         /\ LeapsBefore(y) \in Int
  BY DEF Leap, LeapsBefore

(* A day later is the next day of the calendar, and the time is the same.  *)
LEMMA DayLater ==
  ASSUME NEW t \in DateTimes, t.year \in 2000 .. 2099, IsDate(t)
  PROVE  /\ PlusDay(t) \in DateTimes
         /\ IsDate(PlusDay(t))
         /\ DayNumber(PlusDay(t)) = DayNumber(t) + 1
         /\ PlusDay(t).hour = t.hour /\ PlusDay(t).minute = t.minute
         /\ PlusDay(t).second = t.second
<1> DEFINE b == PlusDay(t)
<1>1. t.month \in 1 .. 12
  BY DEF IsDate
<1>2. /\ Leap(t.year) <=> t.year % 4 = 0
      /\ LeapsBefore(t.year + 1)
           = LeapsBefore(t.year) + (IF t.year % 4 = 0 THEN 1 ELSE 0)
      /\ LeapsBefore(t.year) \in Int
  BY LeapsCount
<1>3. b \in DateTimes /\ b.hour = t.hour /\ b.minute = t.minute
        /\ b.second = t.second
  <2>1. CASE t.day + 1 <= LastDay(t)
    BY <2>1 DEF PlusDay, DateTimes
  <2> DEFINE c == [t EXCEPT !.day = 1]
  <2>2. c \in DateTimes /\ c.month = t.month /\ c.year = t.year
          /\ c.hour = t.hour /\ c.minute = t.minute /\ c.second = t.second
    BY DEF DateTimes
  <2>3. CASE ~ (t.day + 1 <= LastDay(t)) /\ t.month + 1 <= 12
    <3>1. b = [c EXCEPT !.month = c.month + 1]
      BY <2>2, <2>3 DEF PlusDay, DateTimes
    <3> HIDE DEF b, c
    <3> QED
      BY <2>2, <3>1 DEF DateTimes
  <2>4. CASE ~ (t.day + 1 <= LastDay(t)) /\ ~ (t.month + 1 <= 12)
    <3> DEFINE e == [c EXCEPT !.month = c.month - 11]
    <3>1. b = [e EXCEPT !.year = e.year + 1]
      BY <2>2, <2>4 DEF PlusDay, DateTimes
    <3> HIDE DEF b, c
    <3>2. e \in DateTimes /\ e.hour = c.hour /\ e.minute = c.minute
            /\ e.second = c.second
      BY <2>2 DEF DateTimes
    <3> HIDE DEF e
    <3> QED
      BY <2>2, <3>1, <3>2 DEF DateTimes
  <2> QED
    BY <2>1, <2>3, <2>4
<1>4. CASE t.month \in {1, 3, 4, 5, 6, 7, 8, 9, 10, 11}
  <2>1. CASE t.day + 1 <= LastDay(t)
    <3>1. b.month = t.month /\ b.year = t.year /\ b.day = t.day + 1
      BY <2>1 DEF PlusDay, DateTimes
    <3> QED
      BY <1>1, <1>2, <1>3, <1>4, <2>1, <3>1
      DEF DateTimes, IsDate, LastDay, DayNumber, DaysIn, DaysBefore
  <2>2. CASE ~ (t.day + 1 <= LastDay(t))
    <3>1. b.month = t.month + 1 /\ b.year = t.year /\ b.day = 1
      BY <1>4, <2>2 DEF PlusDay, DateTimes
    <3>2. t.day = DaysIn[t.month] /\ DaysIn[t.month] >= 1
      BY <1>1, <1>4, <2>2 DEF DateTimes, IsDate, LastDay, DaysIn
    <3>3. DaysBefore[t.month + 1] = DaysBefore[t.month] + DaysIn[t.month]
      BY <1>4 DEF DaysIn, DaysBefore
    <3> QED
      BY <1>1, <1>2, <1>3, <1>4, <3>1, <3>2, <3>3
      DEF DateTimes, IsDate, DayNumber, DaysIn, DaysBefore
  <2> QED
    BY <2>1, <2>2, <1>3
<1>5. CASE t.month = 2
  BY <1>1, <1>2, <1>3, <1>5 DEF PlusDay, DateTimes, IsDate, LastDay, DayNumber,
    DaysIn, DaysBefore
<1>6. CASE t.month = 12
  BY <1>1, <1>2, <1>3, <1>6 DEF PlusDay, DateTimes, IsDate, LastDay, DayNumber,
    DaysIn, DaysBefore
<1> QED
  BY <1>1, <1>3, <1>4, <1>5, <1>6

(* A second later, while the hours may reach 24. *)
LEMMA SecondLater ==
  ASSUME NEW t \in DateTimes, IsTime(t)
  PROVE  /\ PlusSecond(t) \in DateTimes
         /\ PlusSecond(t).hour \in 0 .. 24
         /\ PlusSecond(t).minute \in 0 .. 59 /\ PlusSecond(t).second \in 0 .. 59
         /\ SecondOfDay(PlusSecond(t)) = SecondOfDay(t) + 1
         /\ PlusSecond(t).year = t.year /\ PlusSecond(t).month = t.month
         /\ PlusSecond(t).day = t.day
<1> DEFINE b == PlusSecond(t)
<1>1. CASE t.second < 59
  <2>1. b = [t EXCEPT !.second = t.second + 1]
    BY <1>1 DEF PlusSecond
  <2> QED
    BY <2>1, <1>1 DEF DateTimes, IsTime, SecondOfDay
<1> DEFINE c == [t EXCEPT !.second = 0]
<1>2. c \in DateTimes /\ c.second = 0 /\ c.minute = t.minute /\ c.hour = t.hour
        /\ c.year = t.year /\ c.month = t.month /\ c.day = t.day
  BY DEF DateTimes
<1>3. CASE t.second >= 59 /\ t.minute < 59
  <2>1. b = [c EXCEPT !.minute = c.minute + 1]
    BY <1>2, <1>3 DEF PlusSecond, DateTimes
  <2>2. b \in DateTimes /\ b.second = 0 /\ b.minute = t.minute + 1
          /\ b.hour = t.hour /\ b.year = t.year /\ b.month = t.month
          /\ b.day = t.day
    <3> HIDE DEF b, c
    <3> QED
      BY <1>2, <2>1 DEF DateTimes
  <2>3. t.second = 59 /\ t.minute \in 0 .. 58 /\ t.hour \in 0 .. 23
    BY <1>3 DEF DateTimes, IsTime
  <2> HIDE DEF b, c
  <2>4. SecondOfDay(b) = SecondOfDay(t) + 1
    BY <2>2, <2>3 DEF SecondOfDay
  <2> QED
    BY <2>2, <2>3, <2>4 DEF b
<1>4. CASE t.second >= 59 /\ t.minute >= 59
  <2> DEFINE e == [c EXCEPT !.minute = 0]
  <2>1. b = [e EXCEPT !.hour = e.hour + 1]
    BY <1>2, <1>4 DEF PlusSecond, DateTimes
  <2>2. e \in DateTimes /\ e.second = 0 /\ e.minute = 0 /\ e.hour = t.hour
          /\ e.year = t.year /\ e.month = t.month /\ e.day = t.day
    BY <1>2 DEF DateTimes
  <2>3. b \in DateTimes /\ b.second = 0 /\ b.minute = 0 /\ b.hour = t.hour + 1
          /\ b.year = t.year /\ b.month = t.month /\ b.day = t.day
    <3> HIDE DEF b, e
    <3> QED
      BY <2>1, <2>2 DEF DateTimes
  <2> QED
    BY <2>3, <1>4 DEF DateTimes, IsTime, SecondOfDay
<1> QED
  BY <1>1, <1>3, <1>4 DEF IsTime, DateTimes

(* BeijingRight holds for any years from 2000 to 2099, hours, minutes and  *)
(* seconds: no carry of UTC2BTC is lost or made twice.                     *)
THEOREM BeijingAlways == BeijingRight
<1> SUFFICES ASSUME NEW t \in Instants
             PROVE  LET b == UTC2BTC(t) IN
                    /\ IsDate(b) /\ IsTime(b)
                    /\ SecondNumber(b) = SecondNumber(t) + 8 * 3600 + 1
  BY DEF BeijingRight
<1>1. /\ t \in DateTimes /\ t.year \in 2000 .. 2099
      /\ IsDate(t) /\ IsTime(t)
  <2>1. PICK y \in Years, m \in 1 .. 12, d \in 1 .. 31,
             h \in Hours, i \in Minutes, s \in Seconds :
          t = [year |-> y, month |-> m, day |-> d,
               hour |-> h, minute |-> i, second |-> s]
    BY DEF Instants
  <2>2. y \in 2000 .. 2099 /\ h \in 0 .. 23 /\ i \in 0 .. 59 /\ s \in 0 .. 59
    BY BeijingTimeAssumption
  <2>3. t \in DateTimes /\ t.year \in 2000 .. 2099 /\ IsTime(t)
    BY <2>1, <2>2 DEF DateTimes, IsTime
  <2> QED
    BY <2>3 DEF Instants
<1> DEFINE u == PlusSecond(t)
<1>2. /\ u \in DateTimes /\ u.hour \in 0 .. 24
      /\ u.minute \in 0 .. 59 /\ u.second \in 0 .. 59
      /\ SecondOfDay(u) = SecondOfDay(t) + 1
      /\ u.year = t.year /\ u.month = t.month /\ u.day = t.day
  BY <1>1, SecondLater
<1>3. IsDate(u) /\ DayNumber(u) = DayNumber(t)
  BY <1>1, <1>2 DEF IsDate, DayNumber
<1>4. UTC2BTC(t) = PlusEightHours(u)
  BY DEF UTC2BTC
<1>5. DayNumber(t) \in Int
  <2>1. LeapsBefore(t.year) \in Int
    BY <1>1, LeapsCount
  <2>2. t.month \in 1 .. 12
    BY <1>1 DEF IsDate
  <2>3. DaysBefore[t.month] \in Int
    BY <2>2 DEF DaysBefore
  <2> QED
    BY <1>1, <2>1, <2>3 DEF DayNumber, DateTimes
<1> HIDE DEF u
<1>6. CASE u.hour + 8 <= 23
  <2>1. PlusEightHours(u) = [u EXCEPT !.hour = u.hour + 8]
    BY <1>6 DEF PlusEightHours
  <2> DEFINE b == PlusEightHours(u)
  <2>2. /\ b.hour = u.hour + 8 /\ b.minute = u.minute /\ b.second = u.second
        /\ b.year = u.year /\ b.month = u.month /\ b.day = u.day
    BY <1>2, <2>1 DEF DateTimes
  <2>3. IsDate(b) /\ DayNumber(b) = DayNumber(u)
    BY <1>3, <2>2 DEF IsDate, DayNumber
  <2> HIDE DEF b
  <2>4. IsTime(b)
    BY <1>2, <1>6, <2>2 DEF IsTime
  <2>5. SecondNumber(b) = SecondNumber(t) + 8 * 3600 + 1
    <3>1. DayNumber(b) = DayNumber(t)
      BY <1>3, <2>3
    <3> QED
      BY <1>1, <1>2, <1>5, <2>2, <3>1
      DEF SecondNumber, SecondOfDay, DateTimes
  <2> QED
    BY <1>4, <2>3, <2>4, <2>5 DEF b
<1>7. CASE ~ (u.hour + 8 <= 23)
  <2> DEFINE v == [u EXCEPT !.hour = u.hour - 16]
             b == PlusDay(v)
  <2>1. PlusEightHours(u) = b
    BY <1>7 DEF PlusEightHours
  <2>2. /\ v \in DateTimes
        /\ v.hour = u.hour - 16 /\ v.minute = u.minute /\ v.second = u.second
        /\ v.year = u.year /\ v.month = u.month /\ v.day = u.day
    BY <1>2 DEF DateTimes
  <2>3. IsDate(v) /\ DayNumber(v) = DayNumber(u)
    BY <1>3, <2>2 DEF IsDate, DayNumber
  <2> HIDE DEF v
  <2>4. /\ IsDate(b) /\ DayNumber(b) = DayNumber(v) + 1
        /\ b.hour = v.hour /\ b.minute = v.minute /\ b.second = v.second
    BY <1>1, <1>2, <2>2, <2>3, DayLater
  <2> HIDE DEF b
  <2>5. IsTime(b) /\ SecondNumber(b) = SecondNumber(t) + 8 * 3600 + 1
    BY <1>1, <1>2, <1>3, <1>5, <1>7, <2>2, <2>3, <2>4
    DEF IsTime, SecondNumber, SecondOfDay, DateTimes
  <2> QED
    BY <1>4, <2>1, <2>4, <2>5
<1> QED
  BY <1>6, <1>7
=============================================================================
