------------------------------ MODULE Calendar ------------------------------
(***************************************************************************)
(* base/Date.cc and the UTC half of base/TimeZone.cc, by which the logger  *)
(* and the log files date what they write: the arithmetic that turns a     *)
(* civil date into a Julian day number and back, and seconds since 1970    *)
(* into a DateTime and back.  It is checked against the calendar itself:   *)
(* `date' goes on day by day, and `day' counts the days, from dates whose  *)
(* number is known.                                                        *)
(***************************************************************************)
EXTENDS Integers

CONSTANTS
  KnownDates, \* dates to start from, with their Julian day numbers
  WalkDays,   \* bound: days to walk
  ClockTimes, \* times of the day, as <<hour, minute, second>>
  MaxEpochDays \* bound: days on either side of 1970 whose seconds TLC can count

VARIABLES
  date,   \* the civil date
  day,    \* its Julian day number, counted
  walked  \* days from the start

calVars == <<date, day, walked>>

Date(y, m, d) == [year |-> y, month |-> m, day |-> d]

Init ==
  /\ \E k \in KnownDates : date = k.date /\ day = k.number
  /\ walked = 0

-----------------------------------------------------------------------------
(* The calendar *)

Leap(y) == y % 4 = 0 /\ (y % 100 # 0 \/ y % 400 = 0)

DaysIn(y, m) ==
  IF m \in {4, 6, 9, 11} THEN 30 ELSE IF m # 2 THEN 31 ELSE IF Leap(y) THEN 29 ELSE 28

DayAfter(c) ==
  IF c.day < DaysIn(c.year, c.month) THEN [c EXCEPT !.day = @ + 1]
  ELSE IF c.month < 12 THEN Date(c.year, c.month + 1, 1)
  ELSE Date(c.year + 1, 1, 1)

Next ==
  /\ walked < WalkDays
  /\ date' = DayAfter(date)
  /\ day' = day + 1
  /\ walked' = walked + 1

CalendarSpec == Init /\ [][Next]_calVars

-----------------------------------------------------------------------------
(* Date.cc *)

\* The leap days before March of year y.
LeapDays(y) == y \div 4 - y \div 100 + y \div 400

\* Years that begin in March, so that the leap day is the last.
GetJulianDayNumber(c) ==
  LET a == (14 - c.month) \div 12
      y == c.year + 4800 - a
      m == c.month + 12 * a - 3
  IN c.day + (153 * m + 2) \div 5 + y * 365 + LeapDays(y) - 32045

\* Day e of the year y that begins in March.
DayOfYear(y, e) ==
  LET m == (5 * e + 2) \div 153
  IN Date(y - 4800 + m \div 10, m + 3 - 12 * (m \div 10), e - (153 * m + 2) \div 5 + 1)

\* Day c of the century b.
DayOfCentury(b, c) ==
  LET d == (4 * c + 3) \div 1461
  IN DayOfYear(b * 100 + d, c - (1461 * d) \div 4)

GetYearMonthDay(number) ==
  LET a == number + 32044
      b == (4 * a + 3) \div 146097
  IN DayOfCentury(b, a - (b * 146097) \div 4)

JulianDayOf1970 == GetJulianDayNumber(Date(1970, 1, 1))

-----------------------------------------------------------------------------
(* TimeZone.cc: BreakTime and fromUtcTime *)

SecondsPerDay == 24 * 60 * 60

\* C++ division and remainder round towards zero.
Quot(a, b) == IF a >= 0 THEN a \div b ELSE -((-a) \div b)
Rem(a, b)  == a - b * Quot(a, b)

FillHMS(s) == <<s \div 3600, (s \div 60) % 60, s % 60>>

\* Days since 1970 and seconds of the day, made positive before 1970.
DayAndSecond(t) ==
  LET s == Rem(t, SecondsPerDay)
      d == Quot(t, SecondsPerDay)
  IN IF s < 0 THEN <<d - 1, s + SecondsPerDay>> ELSE <<d, s>>

BreakTime(t) ==
  [date |-> GetYearMonthDay(DayAndSecond(t)[1] + JulianDayOf1970),
   clock |-> FillHMS(DayAndSecond(t)[2])]

FromUtcTime(dt) ==
  (GetJulianDayNumber(dt.date) - JulianDayOf1970) * SecondsPerDay
    + dt.clock[1] * 3600 + dt.clock[2] * 60 + dt.clock[3]

-----------------------------------------------------------------------------
(* Properties *)

\* getJulianDayNumber counts the days of the calendar, over the ends of
\* months, leap years and centuries, and getYearMonthDay undoes it.
DaysAreCounted ==
  /\ GetJulianDayNumber(date) = day
  /\ GetYearMonthDay(day) = date

\* The seconds of a date and time are broken up into that date and time, on
\* either side of 1970, where C++ division changes its direction.
TimesAreBroken ==
  LET epochDay == day - JulianDayOf1970
  IN epochDay \in -MaxEpochDays .. MaxEpochDays =>
       \A clock \in ClockTimes :
         LET dt == [date |-> date, clock |-> clock]
             t  == epochDay * SecondsPerDay + clock[1] * 3600 + clock[2] * 60 + clock[3]
         IN BreakTime(t) = dt /\ FromUtcTime(dt) = t

\* Date.cc and TimeZone.cc count days and break seconds up as the calendar does.
DatesAreRight ==
  /\ DaysAreCounted
  /\ TimesAreBroken
=============================================================================
