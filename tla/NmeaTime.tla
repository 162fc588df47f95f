------------------------------ MODULE NmeaTime ------------------------------
(***************************************************************************)
(* nmea_shift_tz: a UTC date and time of an NMEA sentence, moved by a      *)
(* signed number of minutes.  Each turn of its four loops is an action.    *)
(***************************************************************************)
EXTENDS Integers

CONSTANTS Date,     \* the dates that are passed, as [d, m, y] with a two-digit y
          Minute,   \* the times, as minutes of the day
          Offset,   \* the values of tz_min
          NONE      \* no instant: the date does not exist

int16_t == -(2^15) .. 2^15 - 1

ASSUME NmeaTimeAssumption == /\ Date \subseteq [d : 0 .. 99, m : 0 .. 99, y : 0 .. 99]
                             /\ Minute \subseteq 0 .. 1439
                             /\ Offset \subseteq int16_t

VARIABLES pc, total, day_delta, day, mon, year,
          instant   \* the minute that the result should name, counted from 1 March of year 0

vars == <<pc, total, day_delta, day, mon, year, instant>>

leap_year(y) == y % 4 = 0 /\ (y % 100 # 0 \/ y % 400 = 0)

\* (mutant) February never has a leap day
DaysWithoutLeap(month, year_full) ==
  IF month \notin 1 .. 12 THEN 30
  ELSE <<31, 28, 31, 30, 31, 30, 31, 31, 30, 31, 30, 31>>[month]

days_in_month(month, year_full) ==
  IF month \notin 1 .. 12 THEN 30
  ELSE IF month = 2 THEN IF leap_year(year_full) THEN 29 ELSE 28
  ELSE <<31, 28, 31, 30, 31, 30, 31, 31, 30, 31, 30, 31>>[month]

YearOf(y) == IF y >= 70 THEN 1900 + y ELSE 2000 + y

\* The number of a day of the Gregorian calendar, by years that begin in March:
\* the leap day is the last of its year, and the months before it have
\* 153 days in every five.
DayNumber(y, m, d) ==
  LET march == IF m > 2 THEN [y |-> y, m |-> m - 3] ELSE [y |-> y - 1, m |-> m + 9]
  IN  365 * march.y + (march.y \div 4) - (march.y \div 100) + (march.y \div 400)
        + ((153 * march.m + 2) \div 5) + d - 1

Exists(y, m, d) == m \in 1 .. 12 /\ d \in 1 .. days_in_month(m, y)
-----------------------------------------------------------------------------
Init == \E date \in Date, minute \in Minute, tz_min \in Offset :
          /\ total = minute + tz_min /\ day_delta = 0
          /\ day = date.d /\ mon = date.m /\ year = YearOf(date.y)
          /\ instant = IF Exists(year, mon, day)
                       THEN 1440 * DayNumber(year, mon, day) + minute + tz_min ELSE NONE
          /\ pc = "minutes"

\* (mutant) midnight stays on the day before
OverLate == total > 1440

Under == total < 0
Over  == total >= 1440

AddDay == /\ pc = "minutes" /\ Under
          /\ total' = total + 1440 /\ day_delta' = day_delta - 1
          /\ UNCHANGED <<pc, day, mon, year, instant>>

DropDay == /\ pc = "minutes" /\ Over
           /\ total' = total - 1440 /\ day_delta' = day_delta + 1
           /\ UNCHANGED <<pc, day, mon, year, instant>>

SplitTime == /\ pc = "minutes" /\ ~Under /\ ~Over
             /\ pc' = "days"
             /\ UNCHANGED <<total, day_delta, day, mon, year, instant>>

NextDay == /\ pc = "days" /\ day_delta > 0
           /\ IF day + 1 > days_in_month(mon, year)
              THEN /\ day' = 1
                   /\ IF mon + 1 > 12 THEN mon' = 1 /\ year' = year + 1
                                      ELSE mon' = mon + 1 /\ UNCHANGED year
              ELSE day' = day + 1 /\ UNCHANGED <<mon, year>>
           /\ day_delta' = day_delta - 1
           /\ UNCHANGED <<pc, total, instant>>

\* mon is a uint8_t: from 0, the month of a sentence without a date, it wraps.
PrevDay == /\ pc = "days" /\ day_delta < 0
           /\ IF day - 1 < 1
              THEN /\ LET m == (mon - 1) % 256
                      IN  IF m < 1 THEN mon' = 12 /\ year' = year - 1
                                   ELSE mon' = m /\ UNCHANGED year
                   /\ day' = days_in_month(mon', year')
              ELSE day' = day - 1 /\ UNCHANGED <<mon, year>>
           /\ day_delta' = day_delta + 1
           /\ UNCHANGED <<pc, total, instant>>

Done == /\ pc = "days" /\ day_delta = 0
        /\ pc' = "done"
        /\ UNCHANGED <<total, day_delta, day, mon, year, instant>>

Next == AddDay \/ DropDay \/ SplitTime \/ NextDay \/ PrevDay \/ Done

\* A call that has begun runs to its end.
Spec == Init /\ [][Next]_vars /\ WF_vars(Next)
-----------------------------------------------------------------------------
\* The loops only move minutes into days and days into the date: whatever the
\* roll-over, they never lose or gain a day of the calendar.
InstantKept == instant # NONE => /\ Exists(year, mon, day)
                                 /\ instant = 1440 * (DayNumber(year, mon, day) + day_delta) + total

\* Every call ends, with a time of one day and all days moved, also from a
\* date that does not exist.
Ends == <>(pc = "done" /\ total \in 0 .. 1439 /\ day_delta = 0)
=============================================================================
