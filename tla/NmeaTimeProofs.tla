--------------------------- MODULE NmeaTimeProofs ---------------------------
(***************************************************************************)
(* nmea_shift_tz loses and gains no day, for every year, time and offset.  *)
(* The calendar of the code, a table of months and a leap-year test, is    *)
(* compared with one that counts in years from March and has neither.  No  *)
(* call turns its loops more than 46 times.                                *)
(***************************************************************************)
EXTENDS NmeaTime, TLAPS

\* The days before 1 March of a year.
MarchFirst(y) == 365 * y + (y \div 4) - (y \div 100) + (y \div 400)

\* A division by n steps exactly at the multiples of n.
LEMMA QuotientSteps ==
  ASSUME NEW y \in Int
  PROVE  /\ (y \div 4) - ((y - 1) \div 4) = IF y % 4 = 0 THEN 1 ELSE 0
         /\ (y \div 100) - ((y - 1) \div 100) = IF y % 100 = 0 THEN 1 ELSE 0
         /\ (y \div 400) - ((y - 1) \div 400) = IF y % 400 = 0 THEN 1 ELSE 0
<1>1. (y \div 4) - ((y - 1) \div 4) = IF y % 4 = 0 THEN 1 ELSE 0
  BY SMT
<1>2. (y \div 100) - ((y - 1) \div 100) = IF y % 100 = 0 THEN 1 ELSE 0
  BY SMT
<1>3. (y \div 400) - ((y - 1) \div 400) = IF y % 400 = 0 THEN 1 ELSE 0
  BY SMT
<1> QED BY <1>1, <1>2, <1>3

\* From one first of March to the next there is a February of leap_year's length.
LEMMA MarchYear ==
  ASSUME NEW y \in Int
  PROVE  MarchFirst(y) - MarchFirst(y - 1) = IF leap_year(y) THEN 366 ELSE 365
<1> DEFINE four    == (y \div 4) - ((y - 1) \div 4)
           hundred == (y \div 100) - ((y - 1) \div 100)
           fours   == (y \div 400) - ((y - 1) \div 400)
<1>1. MarchFirst(y) - MarchFirst(y - 1) = 365 + four - hundred + fours
  BY SMT DEF MarchFirst
<1>2. (y % 400 = 0 => y % 100 = 0) /\ (y % 100 = 0 => y % 4 = 0)
  BY SMT
<1> HIDE DEF four, hundred, fours
<1>3. /\ four = IF y % 4 = 0 THEN 1 ELSE 0
      /\ hundred = IF y % 100 = 0 THEN 1 ELSE 0
      /\ fours = IF y % 400 = 0 THEN 1 ELSE 0
  BY QuotientSteps DEF four, hundred, fours
<1> QED BY <1>1, <1>2, <1>3 DEF leap_year

\* The day number of the first of each month, in years from March.
LEMMA MonthFirst ==
  ASSUME NEW y \in Int, NEW m \in 1 .. 12, NEW d \in Int
  PROVE  DayNumber(y, m, d)
           = (IF m > 2 THEN MarchFirst(y) ELSE MarchFirst(y - 1))
             + <<306, 337, 0, 31, 61, 92, 122, 153, 184, 214, 245, 275>>[m] + d - 1
<1>1. CASE m = 1 BY <1>1, SMT DEF DayNumber, MarchFirst
<1>2. CASE m = 2 BY <1>2, SMT DEF DayNumber, MarchFirst
<1>3. CASE m = 3 BY <1>3, SMT DEF DayNumber, MarchFirst
<1>4. CASE m = 4 BY <1>4, SMT DEF DayNumber, MarchFirst
<1>5. CASE m = 5 BY <1>5, SMT DEF DayNumber, MarchFirst
<1>6. CASE m = 6 BY <1>6, SMT DEF DayNumber, MarchFirst
<1>7. CASE m = 7 BY <1>7, SMT DEF DayNumber, MarchFirst
<1>8. CASE m = 8 BY <1>8, SMT DEF DayNumber, MarchFirst
<1>9. CASE m = 9 BY <1>9, SMT DEF DayNumber, MarchFirst
<1>10. CASE m = 10 BY <1>10, SMT DEF DayNumber, MarchFirst
<1>11. CASE m = 11 BY <1>11, SMT DEF DayNumber, MarchFirst
<1>12. CASE m = 12 BY <1>12, SMT DEF DayNumber, MarchFirst
<1>13. m \in {1, 2, 3, 4, 5, 6, 7, 8, 9, 10, 11, 12}
  BY SMT
<1> QED BY <1>1, <1>2, <1>3, <1>4, <1>5, <1>6, <1>7, <1>8, <1>9, <1>10, <1>11, <1>12, <1>13

\* The day after the last of a month is the first of the next one.
LEMMA MonthEnd ==
  ASSUME NEW y \in Int, NEW m \in 1 .. 11
  PROVE  DayNumber(y, m + 1, 1) = DayNumber(y, m, days_in_month(m, y)) + 1
<1>1. MarchFirst(y) \in Int /\ MarchFirst(y - 1) \in Int /\ y - 1 \in Int
  BY SMT DEF MarchFirst
<1>2. MarchFirst(y) - MarchFirst(y - 1) = IF leap_year(y) THEN 366 ELSE 365
  BY MarchYear
<1>3. days_in_month(m, y) = IF m = 2 THEN IF leap_year(y) THEN 29 ELSE 28
                            ELSE <<31, 28, 31, 30, 31, 30, 31, 31, 30, 31, 30, 31>>[m]
  BY SMT DEF days_in_month
<1>4. days_in_month(m, y) \in Int
  BY <1>3, SMT
<1>5. m \in 1 .. 12 /\ m + 1 \in 1 .. 12
  BY SMT
<1>6. DayNumber(y, m + 1, 1)
        = (IF m + 1 > 2 THEN MarchFirst(y) ELSE MarchFirst(y - 1))
          + <<306, 337, 0, 31, 61, 92, 122, 153, 184, 214, 245, 275>>[m + 1]
  <2>1. DayNumber(y, m + 1, 1)
        = (IF m + 1 > 2 THEN MarchFirst(y) ELSE MarchFirst(y - 1))
          + <<306, 337, 0, 31, 61, 92, 122, 153, 184, 214, 245, 275>>[m + 1] + 1 - 1
    BY <1>5, MonthFirst, SMTT(40)
  <2> QED BY <2>1, <1>1, <1>5, SMT
<1>7. DayNumber(y, m, days_in_month(m, y))
        = (IF m > 2 THEN MarchFirst(y) ELSE MarchFirst(y - 1))
          + <<306, 337, 0, 31, 61, 92, 122, 153, 184, 214, 245, 275>>[m]
          + days_in_month(m, y) - 1
  BY <1>4, <1>5, MonthFirst, SMTT(40)
<1>8. CASE m = 1 BY <1>1, <1>3, <1>6, <1>7, <1>8, SMT
<1>9. CASE m = 2 BY <1>1, <1>2, <1>3, <1>6, <1>7, <1>9, SMT
<1>10. CASE m \in 3 .. 11 BY <1>1, <1>3, <1>6, <1>7, <1>10, SMTT(30)
<1> QED BY <1>8, <1>9, <1>10, SMT

\* The day after the last of December is New Year's Day.
LEMMA YearEnd ==
  ASSUME NEW y \in Int
  PROVE  DayNumber(y + 1, 1, 1) = DayNumber(y, 12, 31) + 1
<1>1. MarchFirst(y) \in Int /\ y + 1 \in Int /\ (y + 1) - 1 = y
  BY SMT DEF MarchFirst
<1>2. DayNumber(y + 1, 1, 1)
        = (IF 1 > 2 THEN MarchFirst(y + 1) ELSE MarchFirst((y + 1) - 1))
          + <<306, 337, 0, 31, 61, 92, 122, 153, 184, 214, 245, 275>>[1] + 1 - 1
  BY <1>1, MonthFirst
<1>3. DayNumber(y, 12, 31)
        = (IF 12 > 2 THEN MarchFirst(y) ELSE MarchFirst(y - 1))
          + <<306, 337, 0, 31, 61, 92, 122, 153, 184, 214, 245, 275>>[12] + 31 - 1
  BY MonthFirst
<1> QED BY <1>1, <1>2, <1>3, SMT

\* Within a month, days are numbered one after the other.
LEMMA DayStep ==
  ASSUME NEW y \in Int, NEW m \in Int, NEW d \in Int
  PROVE  /\ DayNumber(y, m, d) \in Int
         /\ DayNumber(y, m, d + 1) = DayNumber(y, m, d) + 1
         /\ DayNumber(y, m, d - 1) = DayNumber(y, m, d) - 1
  BY SMT DEF DayNumber

\* Every month has a last day, and it is at most the 31st.
LEMMA MonthLength ==
  ASSUME NEW y \in Int, NEW m \in 1 .. 12
  PROVE  days_in_month(m, y) \in 28 .. 31 /\ days_in_month(12, y) = 31
  BY SMTT(30) DEF days_in_month

\* A date that exists stays a date, and names its instant with the minutes
\* and days that are still to be moved.
IInv == /\ total \in Int
        /\ day_delta \in Int
        /\ instant # NONE => year \in Int /\ InstantKept

\* An int16_t is an integer between its bounds.
LEMMA ShortBounds ==
  ASSUME NEW z \in int16_t
  PROVE  z \in Int /\ z + 32768 >= 0 /\ z <= 32767
<1>1. 2^15 = 32768
  BY SMT
<1> QED BY <1>1, SMT DEF int16_t

\* What the caller passes is numbers.
LEMMA ArgumentsAreNumbers ==
  ASSUME NEW date \in Date, NEW minute \in Minute, NEW tz_min \in Offset
  PROVE  minute \in Int /\ tz_min \in Int /\ date.d \in Int /\ date.m \in Int /\ date.y \in Int
<1>1. date \in [d : 0 .. 99, m : 0 .. 99, y : 0 .. 99] /\ minute \in 0 .. 1439
  BY NmeaTimeAssumption
<1>2. tz_min \in int16_t
  BY NmeaTimeAssumption
<1>3. tz_min \in Int
  BY <1>2, ShortBounds
<1> QED BY <1>1, <1>3

\* The call starts with a date that exists, or with none to keep.
LEMMA InitIInv == Init => IInv
<1> SUFFICES ASSUME NEW date \in Date, NEW minute \in Minute, NEW tz_min \in Offset,
                    total = minute + tz_min, day_delta = 0,
                    day = date.d, mon = date.m, year = YearOf(date.y),
                    instant = IF Exists(year, mon, day)
                              THEN 1440 * DayNumber(year, mon, day) + minute + tz_min
                              ELSE NONE
             PROVE  IInv
  BY DEF Init
<1>1. minute \in Int /\ tz_min \in Int /\ date.d \in Int /\ date.m \in Int /\ date.y \in Int
  BY ArgumentsAreNumbers
<1>2. year \in Int
  BY <1>1, SMT DEF YearOf
<1>3. DayNumber(year, mon, day) \in Int
  BY <1>1, <1>2, DayStep
<1>4. CASE Exists(year, mon, day)
  <2>1. instant = 1440 * (DayNumber(year, mon, day) + day_delta) + total
    BY <1>1, <1>3, <1>4, SMT
  <2> QED BY <1>1, <1>2, <1>4, <2>1, SMT DEF IInv, InstantKept
<1>5. CASE ~Exists(year, mon, day)
  BY <1>1, <1>5, SMT DEF IInv, InstantKept
<1> QED BY <1>4, <1>5

\* What a date that exists gives: its parts are integers and so is its number.
LEMMA DateParts ==
  ASSUME IInv, instant # NONE
  PROVE  /\ year \in Int /\ mon \in 1 .. 12 /\ day \in Int
         /\ day >= 1 /\ day <= days_in_month(mon, year)
         /\ days_in_month(mon, year) \in 28 .. 31
         /\ DayNumber(year, mon, day) \in Int
         /\ instant = 1440 * (DayNumber(year, mon, day) + day_delta) + total
<1>1. year \in Int /\ mon \in 1 .. 12 /\ day \in 1 .. days_in_month(mon, year)
  BY DEF IInv, InstantKept, Exists
<1>2. days_in_month(mon, year) \in 28 .. 31
  BY <1>1, MonthLength
<1>3. day \in Int /\ day >= 1 /\ day <= days_in_month(mon, year)
  BY <1>1, <1>2, SMT
<1>4. DayNumber(year, mon, day) \in Int
  BY <1>1, <1>3, DayStep
<1> QED BY <1>1, <1>2, <1>3, <1>4 DEF IInv, InstantKept

\* The first loop keeps the invariant: a day's minutes become a day.
LEMMA MinuteSteps == IInv /\ (AddDay \/ DropDay) => IInv'
<1> SUFFICES ASSUME IInv, AddDay \/ DropDay PROVE IInv'
  OBVIOUS
<1>1. total \in Int /\ day_delta \in Int
  BY DEF IInv
<1>2. /\ instant' = instant /\ day' = day /\ mon' = mon /\ year' = year
      /\ \/ total' = total + 1440 /\ day_delta' = day_delta - 1
         \/ total' = total - 1440 /\ day_delta' = day_delta + 1
  BY DEF AddDay, DropDay
<1>3. total' \in Int /\ day_delta' \in Int
  BY <1>1, <1>2, SMT
<1>4. ASSUME instant # NONE PROVE year' \in Int /\ InstantKept'
  <2>1. /\ year \in Int /\ DayNumber(year, mon, day) \in Int
        /\ instant = 1440 * (DayNumber(year, mon, day) + day_delta) + total
    BY <1>4, DateParts
  <2>2. instant = 1440 * (DayNumber(year, mon, day) + day_delta') + total'
    BY <1>1, <1>2, <2>1, SMT
  <2>3. Exists(year, mon, day)
    BY <1>4 DEF IInv, InstantKept
  <2> QED BY <1>2, <2>1, <2>2, <2>3 DEF InstantKept
<1> QED BY <1>2, <1>3, <1>4 DEF IInv

\* A turn of the loop over days forward, within the month or across its end.
LEMMA NextDayStep == IInv /\ NextDay => IInv'
<1> SUFFICES ASSUME IInv, NextDay PROVE IInv'
  OBVIOUS
<1>1. total \in Int /\ day_delta \in Int /\ total' = total
      /\ day_delta' = day_delta - 1 /\ instant' = instant
  BY DEF IInv, NextDay
<1>2. total' \in Int /\ day_delta' \in Int
  BY <1>1, SMT
<1>3. ASSUME instant # NONE PROVE year' \in Int /\ InstantKept'
  <2> USE <1>3
  <2>1. /\ year \in Int /\ mon \in 1 .. 12 /\ day \in Int
        /\ day >= 1 /\ day <= days_in_month(mon, year)
        /\ days_in_month(mon, year) \in 28 .. 31
        /\ DayNumber(year, mon, day) \in Int
        /\ instant = 1440 * (DayNumber(year, mon, day) + day_delta) + total
    BY DateParts
  <2>2. SUFFICES ASSUME /\ year' \in Int /\ mon' \in 1 .. 12
                        /\ day' \in 1 .. days_in_month(mon', year')
                        /\ DayNumber(year', mon', day') = DayNumber(year, mon, day) + 1
                 PROVE  year' \in Int /\ InstantKept'
    <3>1. CASE day + 1 <= days_in_month(mon, year)
      <4>1. day' = day + 1 /\ mon' = mon /\ year' = year
        BY <2>1, <3>1, SMT DEF NextDay
      <4>2. DayNumber(year, mon, day + 1) = DayNumber(year, mon, day) + 1
        BY <2>1, DayStep
      <4>3. day + 1 \in 1 .. days_in_month(mon, year)
        BY <2>1, <3>1, SMT
      <4> QED BY <2>1, <2>2, <4>1, <4>2, <4>3
    <3>2. CASE day + 1 > days_in_month(mon, year) /\ mon # 12
      <4>1. day' = 1 /\ mon' = mon + 1 /\ year' = year /\ mon \in 1 .. 11
            /\ day = days_in_month(mon, year)
        BY <2>1, <3>2, SMT DEF NextDay
      <4>2. mon + 1 \in 1 .. 12
        BY <4>1, SMT
      <4>3. 1 \in 1 .. days_in_month(mon + 1, year)
        BY <2>1, <4>2, MonthLength, SMT
      <4>4. DayNumber(year, mon + 1, 1) = DayNumber(year, mon, day) + 1
        BY <2>1, <4>1, MonthEnd
      <4> QED BY <2>1, <2>2, <4>1, <4>2, <4>3, <4>4
    <3>3. CASE day + 1 > days_in_month(mon, year) /\ mon = 12
      <4>1. days_in_month(12, year) = 31 /\ 1 \in 1 .. 12
        BY <2>1, MonthLength, SMT
      <4>2. day' = 1 /\ mon' = 1 /\ year' = year + 1 /\ day = 31
        BY <2>1, <3>3, <4>1, SMT DEF NextDay
      <4>3. year + 1 \in Int
        BY <2>1, SMT
      <4>4. 1 \in 1 .. days_in_month(1, year + 1)
        BY <4>1, <4>3, MonthLength, SMT
      <4>5. DayNumber(year + 1, 1, 1) = DayNumber(year, mon, day) + 1
        BY <2>1, <3>3, <4>2, YearEnd
      <4> QED BY <2>2, <4>1, <4>2, <4>3, <4>4, <4>5
    <3> QED BY <2>1, <3>1, <3>2, <3>3, SMT
  <2>3. instant' = 1440 * (DayNumber(year', mon', day') + day_delta') + total'
    BY <1>1, <2>1, <2>2, SMT
  <2> QED BY <2>2, <2>3 DEF InstantKept, Exists
<1> QED BY <1>1, <1>2, <1>3 DEF IInv

\* A turn of the loop over days backward; months 1 to 12 never wrap as bytes.
LEMMA PrevDayStep == IInv /\ PrevDay => IInv'
<1> SUFFICES ASSUME IInv, PrevDay PROVE IInv'
  OBVIOUS
<1>1. total \in Int /\ day_delta \in Int /\ total' = total
      /\ day_delta' = day_delta + 1 /\ instant' = instant
  BY DEF IInv, PrevDay
<1>2. total' \in Int /\ day_delta' \in Int
  BY <1>1, SMT
<1>3. ASSUME instant # NONE PROVE year' \in Int /\ InstantKept'
  <2> USE <1>3
  <2>1. /\ year \in Int /\ mon \in 1 .. 12 /\ day \in Int
        /\ day >= 1 /\ day <= days_in_month(mon, year)
        /\ days_in_month(mon, year) \in 28 .. 31
        /\ DayNumber(year, mon, day) \in Int
        /\ instant = 1440 * (DayNumber(year, mon, day) + day_delta) + total
    BY DateParts
  <2>2. SUFFICES ASSUME /\ year' \in Int /\ mon' \in 1 .. 12
                        /\ day' \in 1 .. days_in_month(mon', year')
                        /\ DayNumber(year', mon', day') = DayNumber(year, mon, day) - 1
                 PROVE  year' \in Int /\ InstantKept'
    <3>1. CASE day - 1 >= 1
      <4>1. day' = day - 1 /\ mon' = mon /\ year' = year
        BY <2>1, <3>1, SMT DEF PrevDay
      <4>2. DayNumber(year, mon, day - 1) = DayNumber(year, mon, day) - 1
        BY <2>1, DayStep
      <4>3. day - 1 \in 1 .. days_in_month(mon, year)
        BY <2>1, <3>1, SMT
      <4> QED BY <2>1, <2>2, <4>1, <4>2, <4>3
    <3>2. CASE day - 1 < 1 /\ mon # 1
      <4> DEFINE last == days_in_month(mon - 1, year)
      <4>1. mon - 1 \in 1 .. 11 /\ mon - 1 \in 1 .. 12 /\ (mon - 1) + 1 = mon
            /\ (mon - 1) % 256 = mon - 1 /\ day = 1
        BY <2>1, <3>2, SMT
      <4>2. mon' = mon - 1 /\ year' = year /\ day' = days_in_month(mon', year')
        BY <2>1, <3>2, <4>1, SMT DEF PrevDay
      <4>3. last \in 28 .. 31
        BY <2>1, <4>1, MonthLength
      <4>4. DayNumber(year, mon, day) = DayNumber(year, mon - 1, last) + 1
        BY <2>1, <4>1, MonthEnd
      <4> HIDE DEF last
      <4>5. DayNumber(year, mon - 1, last) \in Int
        <5>1. mon - 1 \in Int /\ last \in Int
          BY <4>1, <4>3, SMT
        <5> QED BY <2>1, <5>1, DayStep
      <4>6. last \in 1 .. last /\ DayNumber(year, mon - 1, last) = DayNumber(year, mon, day) - 1
        BY <2>1, <4>3, <4>4, <4>5, SMT
      <4>7. day' = last
        BY <4>2 DEF last
      <4> QED BY <2>1, <2>2, <4>1, <4>2, <4>6, <4>7 DEF last
    <3>3. CASE day - 1 < 1 /\ mon = 1
      <4>1. day = 1 /\ (mon - 1) % 256 = 0 /\ (year - 1) + 1 = year /\ year - 1 \in Int
            /\ 31 \in Int /\ 12 \in 1 .. 12
        BY <2>1, <3>3, SMT
      <4>2. mon' = 12 /\ year' = year - 1 /\ day' = days_in_month(mon', year')
        BY <2>1, <3>3, <4>1, SMT DEF PrevDay
      <4>3. days_in_month(12, year - 1) = 31
        BY <4>1, MonthLength
      <4>4. DayNumber(year, mon, day) = DayNumber(year - 1, 12, 31) + 1
        BY <3>3, <4>1, YearEnd
      <4>5. DayNumber(year - 1, 12, 31) \in Int
        BY <4>1, DayStep
      <4>6. DayNumber(year - 1, 12, 31) = DayNumber(year, mon, day) - 1 /\ 31 \in 1 .. 31
        BY <2>1, <4>4, <4>5, SMT
      <4> QED BY <2>2, <4>1, <4>2, <4>3, <4>6
    <3> QED BY <2>1, <3>1, <3>2, <3>3, SMT
  <2>3. instant' = 1440 * (DayNumber(year', mon', day') + day_delta') + total'
    BY <1>1, <2>1, <2>2, SMT
  <2> QED BY <2>2, <2>3 DEF InstantKept, Exists
<1> QED BY <1>1, <1>2, <1>3 DEF IInv

\* Every step keeps the invariant; those that only move on touch none of it.
LEMMA NextIInv == IInv /\ [Next]_vars => IInv'
<1> SUFFICES ASSUME IInv, [Next]_vars PROVE IInv'
  OBVIOUS
<1>1. CASE AddDay \/ DropDay BY <1>1, MinuteSteps
<1>2. CASE NextDay BY <1>2, NextDayStep
<1>3. CASE PrevDay BY <1>3, PrevDayStep
<1>4. CASE SplitTime \/ Done \/ UNCHANGED vars
  BY <1>4 DEF SplitTime, Done, vars, IInv, InstantKept
<1> QED BY <1>1, <1>2, <1>3, <1>4 DEF Next

\* nmea_shift_tz (nmea.c:408-464) names the instant it was given, in every
\* state of its loops, for every date, time of day and int16_t of minutes.
THEOREM InstantTheorem == Spec => []InstantKept
<1>1. IInv => InstantKept
  BY DEF IInv, InstantKept
<1> QED BY <1>1, InitIInv, NextIInv, PTL DEF Spec
-----------------------------------------------------------------------------
\* The turns of the loop over minutes that are left, and the days to move.
TurnsDue  == IF total < 0 THEN (1439 - total) \div 1440 ELSE total \div 1440
DaysToGo  == IF day_delta < 0 THEN -day_delta ELSE day_delta

\* A bound on the steps that are left: a turn over minutes costs one over days.
StepsLeft == IF pc = "minutes" THEN 2 * TurnsDue + DaysToGo + 2
             ELSE IF pc = "days" THEN DaysToGo + 1 ELSE 0

\* Where the loops are left, their conditions are false.
LoopsLeft == /\ pc \in {"minutes", "days", "done"}
             /\ pc # "minutes" => total \in 0 .. 1439
             /\ pc = "done" => day_delta = 0

BoundInv == /\ total \in Int /\ day_delta \in Int
            /\ LoopsLeft
            /\ StepsLeft \in 0 .. 48

\* An int16_t of minutes is 23 days at most, from any time of day.
LEMMA InitBoundInv == Init => BoundInv
<1> SUFFICES ASSUME Init PROVE BoundInv
  OBVIOUS
<1>1. pc = "minutes" /\ day_delta = 0
  BY DEF Init
<1>2. PICK date \in Date, minute \in Minute, tz_min \in Offset : total = minute + tz_min
  BY Zenon DEF Init
<1>3. minute \in 0 .. 1439 /\ tz_min \in int16_t
  BY <1>2, NmeaTimeAssumption
<1>4. total \in Int /\ total + 32768 >= 0 /\ total <= 34206
  <2>1. tz_min \in Int /\ tz_min + 32768 >= 0 /\ tz_min <= 32767
    BY <1>3, ShortBounds
  <2>2. minute \in Int /\ minute >= 0 /\ minute <= 1439
    BY <1>3, SMT
  <2> QED BY <1>2, <2>1, <2>2, SMT
<1>5. TurnsDue \in 0 .. 23
  <2>1. CASE total < 0
    <3>1. TurnsDue = (1439 - total) \div 1440
      BY <2>1 DEF TurnsDue
    <3> QED BY <1>4, <2>1, <3>1, SMT
  <2>2. CASE ~(total < 0)
    <3>1. TurnsDue = total \div 1440
      BY <2>2 DEF TurnsDue
    <3> QED BY <1>4, <2>2, <3>1, SMT
  <2> QED BY <2>1, <2>2
<1>6. StepsLeft \in 0 .. 48 /\ DaysToGo = 0
  BY <1>1, <1>5, SMT DEF StepsLeft, DaysToGo
<1> QED BY <1>1, <1>4, <1>6 DEF BoundInv, LoopsLeft

\* A turn over minutes takes one off the turns that are left, and a turn over
\* days one off the days.
LEMMA StepCounts ==
  ASSUME BoundInv, Next
  PROVE  /\ total' \in Int /\ day_delta' \in Int /\ LoopsLeft'
         /\ StepsLeft' \in Nat /\ StepsLeft' < StepsLeft
<1>1. total \in Int /\ day_delta \in Int /\ TurnsDue \in Nat /\ DaysToGo \in Nat
  BY SMT DEF BoundInv, TurnsDue, DaysToGo
<1>2. CASE AddDay \/ DropDay
  <2>1. /\ pc = "minutes" /\ pc' = "minutes"
        /\ total' \in Int /\ day_delta' \in Int
    BY <1>1, <1>2, SMT DEF AddDay, DropDay
  <2>2. TurnsDue' \in Nat /\ TurnsDue' = TurnsDue - 1
    BY <1>1, <1>2, SMT DEF AddDay, DropDay, Under, Over, TurnsDue
  <2>3. DaysToGo' \in Nat /\ DaysToGo' <= DaysToGo + 1
    BY <1>1, <1>2, SMT DEF AddDay, DropDay, DaysToGo
  <2>4. /\ StepsLeft = 2 * TurnsDue + DaysToGo + 2
        /\ StepsLeft' = 2 * TurnsDue' + DaysToGo' + 2
    BY <2>1 DEF StepsLeft
  <2>5. \A t, d, u, e \in Nat : t = u + 1 /\ e <= d + 1
          => 2 * u + e + 2 \in Nat /\ 2 * u + e + 2 < 2 * t + d + 2
    BY SMT
  <2>6. TurnsDue = TurnsDue' + 1
    BY <1>1, <2>2, SMT
  <2>7. 2 * TurnsDue' + DaysToGo' + 2 \in Nat
        /\ 2 * TurnsDue' + DaysToGo' + 2 < 2 * TurnsDue + DaysToGo + 2
    BY <1>1, <2>2, <2>3, <2>5, <2>6, Zenon
  <2>8. StepsLeft' \in Nat /\ StepsLeft' < StepsLeft
    BY <2>4, <2>7
  <2> QED BY <2>1, <2>8 DEF LoopsLeft
<1>3. CASE SplitTime
  <2>1. /\ pc = "minutes" /\ pc' = "days" /\ total' = total /\ day_delta' = day_delta
        /\ total \in 0 .. 1439
    BY <1>1, <1>3, SMT DEF SplitTime, Under, Over
  <2>2. DaysToGo' = DaysToGo
    BY <2>1 DEF DaysToGo
  <2>3. StepsLeft' \in Nat /\ StepsLeft' < StepsLeft
    BY <1>1, <2>1, <2>2, SMT DEF StepsLeft
  <2> QED BY <1>1, <2>1, <2>3 DEF LoopsLeft
<1>4. CASE NextDay \/ PrevDay
  <2>1. /\ pc = "days" /\ pc' = "days" /\ total' = total
        /\ total \in 0 .. 1439
    BY <1>4 DEF NextDay, PrevDay, BoundInv, LoopsLeft
  <2>2. day_delta' \in Int /\ DaysToGo' \in Nat /\ DaysToGo' = DaysToGo - 1
    BY <1>1, <1>4, SMT DEF NextDay, PrevDay, DaysToGo
  <2>3. StepsLeft' \in Nat /\ StepsLeft' < StepsLeft
    BY <1>1, <2>1, <2>2, SMT DEF StepsLeft
  <2> QED BY <1>1, <2>1, <2>2, <2>3 DEF LoopsLeft
<1>5. CASE Done
  <2>1. /\ pc = "days" /\ pc' = "done" /\ total' = total /\ day_delta' = 0
        /\ total \in 0 .. 1439
    BY <1>5 DEF Done, BoundInv, LoopsLeft
  <2>2. StepsLeft' = 0 /\ StepsLeft = DaysToGo + 1
    BY <2>1 DEF StepsLeft
  <2> QED BY <1>1, <2>1, <2>2, SMT DEF LoopsLeft
<1> QED BY <1>2, <1>3, <1>4, <1>5 DEF Next

LEMMA NextBoundInv == BoundInv /\ [Next]_vars => BoundInv'
<1>1. ASSUME BoundInv, Next PROVE BoundInv'
  BY <1>1, StepCounts, SMT DEF BoundInv
<1>2. ASSUME BoundInv, UNCHANGED vars PROVE BoundInv'
  BY <1>2 DEF vars, BoundInv, LoopsLeft, StepsLeft, TurnsDue, DaysToGo
<1> QED BY <1>1, <1>2

\* No call of nmea_shift_tz (nmea.c:408-464) turns its loops more than 46 times
\* before it returns, whatever date, time and offset it is given, dates that do
\* not exist included: every step takes something off what is left of at most
\* 48 steps.  With it every call that goes on ends.
THEOREM BoundTheorem == Spec => [](StepsLeft \in 0 .. 48) /\ [][StepsLeft' < StepsLeft]_vars
<1>1. BoundInv => StepsLeft \in 0 .. 48
  BY DEF BoundInv
<1>2. BoundInv /\ [Next]_vars => [StepsLeft' < StepsLeft]_vars
  BY StepCounts
<1> QED BY <1>1, <1>2, InitBoundInv, NextBoundInv, PTL DEF Spec

\* A call that has returned leaves a time of one day and no day left to move
\* (nmea.c:419-420, 438-455), also from a date that does not exist.
THEOREM ResultTheorem == Spec => [](pc = "done" => total \in 0 .. 1439 /\ day_delta = 0)
<1>1. BoundInv => (pc = "done" => total \in 0 .. 1439 /\ day_delta = 0)
  BY DEF BoundInv, LoopsLeft
<1> QED BY <1>1, InitBoundInv, NextBoundInv, PTL DEF Spec
=============================================================================
