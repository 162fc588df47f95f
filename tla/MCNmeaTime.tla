----------------------------- MODULE MCNmeaTime -----------------------------
(***************************************************************************)
(* Every date of a common year, of two leap years, one of them 2000, and   *)
(* of the year before, and the date of a sentence without one; both ends   *)
(* of a day; the offsets in use at their extremes and those of an int16_t. *)
(***************************************************************************)
EXTENDS NmeaTime

MCDate == {date \in [d : 1 .. 31, m : 1 .. 12, y : {99, 0, 23, 24}] :
             Exists(YearOf(date.y), date.m, date.d)}
            \cup {[d |-> 0, m |-> 0, y |-> 0]}
MCMinute == {0, 1, 720, 1439}
MCOffset == {-32768, -1440, -720, -300, -1, 0, 1, 345, 840, 1440, 32767}
=============================================================================
