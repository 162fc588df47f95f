----------------------------- MODULE NmeaFields -----------------------------
(***************************************************************************)
(* nmea.c: the fields of a sentence body and what the decoders make of     *)
(* them.  A double is an integer number of 1/100000, in minutes of arc for *)
(* an angle; binary rounding is left out.  The character '\0', and a field *)
(* of a struct that memset cleared, is the empty string.                   *)
(***************************************************************************)
EXTENDS Integers, FiniteSets, SequencesExt

CONSTANT NULL      \* no such field

Scale == 100000
-----------------------------------------------------------------------------
\* Where a field ends: before a comma or at the end of the line.
Ends(line) == {i \in 1 .. Len(line) + 1 : i = Len(line) + 1 \/ line[i] = ","}

\* The ends that which others precede: one of them, or none.
EndsOf(line, which) == LET ends == Ends(line)
                       IN  {i \in ends : Cardinality({j \in ends : j < i}) = which}
EndOf(line, which)  == CHOOSE i \in EndsOf(line, which) : TRUE
StartOf(line, which) == IF which = 0 THEN 1 ELSE EndOf(line, which - 1) + 1

\* (mutant) the loop stops one short, so the last field is never found
FieldAtComma(line, which) ==
  IF EndsOf(line, which) \ {Len(line) + 1} = {} THEN NULL
  ELSE SubSeq(line, StartOf(line, which), EndOf(line, which) - 1)

field_at(line, which) ==
  IF EndsOf(line, which) = {} THEN NULL
  ELSE SubSeq(line, StartOf(line, which), EndOf(line, which) - 1)
-----------------------------------------------------------------------------
(* The C library on the text of a number.                                  *)
Digit == <<"0", "1", "2", "3", "4", "5", "6", "7", "8", "9">>
Value(ds)  == FoldLeft(LAMBDA n, d : 10 * n + (CHOOSE k \in 1 .. 10 : Digit[k] = d) - 1, 0, ds)
Leading(s) == SubSeq(s, 1, Max({k \in 0 .. Len(s) : \A j \in 1 .. k : s[j] \in Range(Digit)}))
After(s, n) == SubSeq(s, n + 1, Len(s))

\* The white space that a body may have (no CR or LF, and no vertical tab, which
\* TLA+ cannot spell), and a sign.
Blank       == {" ", "\t", "\f"}
Trimmed(s)  == After(s, Max({k \in 0 .. Len(s) : \A j \in 1 .. k : s[j] \in Blank}))
Negated(s)  == IF s = <<>> THEN FALSE ELSE s[1] = "-"
Unsigned(s) == IF s = <<>> THEN s ELSE IF s[1] \in {"-", "+"} THEN After(s, 1) ELSE s

Fraction(s) == LET ds == IF s = <<>> THEN <<>> ELSE IF s[1] # "." THEN <<>> ELSE Leading(After(s, 1))
               IN  Value([k \in 1 .. 5 |-> IF k <= Len(ds) THEN ds[k] ELSE "0"])
Decimal(s)  == Scale * Value(Leading(s)) + Fraction(After(s, Len(Leading(s))))

atoi(s)   == LET t == Trimmed(s)  n == Value(Leading(Unsigned(t)))
             IN  IF Negated(t) THEN -n ELSE n
strtod(s) == LET t == Trimmed(s)  x == Decimal(Unsigned(t))
             IN  IF Negated(t) THEN -x ELSE x
-----------------------------------------------------------------------------
\* A field that is too long for the buffer is not copied.
field_copy(f, cap) == IF Len(f) + 1 > cap THEN <<>> ELSE f

field_to_double(f) == strtod(field_copy(f, 24))
field_to_int(f)    == atoi(field_copy(f, 12))

\* Degrees up to two characters before the dot, or the end, and then minutes.
parse_dmm(s) ==
  LET dots      == {i \in DOMAIN s : s[i] = "."}
      dot       == IF dots = {} THEN Len(s) ELSE Min(dots) - 1
      deg_chars == dot - 2
  IN  IF Len(s) < 3 \/ dot < 2 \/ deg_chars >= 8 THEN 0
      ELSE 60 * Scale * atoi(SubSeq(s, 1, deg_chars)) + field_to_double(After(s, deg_chars))

Two(s, k) == atoi(SubSeq(s, k, k + 1)) % 256

NoTime == [h |-> 0, m |-> 0, s |-> 0]
NoDate == [d |-> 0, m |-> 0, y |-> 0]
parse_hms(s) == IF Len(s) < 6 THEN NoTime ELSE [h |-> Two(s, 1), m |-> Two(s, 3), s |-> Two(s, 5)]
parse_dmy(s) == IF Len(s) < 6 THEN NoDate ELSE [d |-> Two(s, 1), m |-> Two(s, 3), y |-> Two(s, 5)]
-----------------------------------------------------------------------------
Given(line, k) == field_at(line, k) \notin {NULL, <<>>}

\* What a field holds, or the zero that memset left.
Parsed(line, k, parse(_), zero) == IF Given(line, k) THEN parse(field_at(line, k)) ELSE zero
First(f)        == f[1]
Char(line, k)   == Parsed(line, k, First, "")
Number(line, k) == Parsed(line, k, field_to_double, 0)

\* An angle and, in the next field, its hemisphere.
Angle(line, k, negative) == LET a == Parsed(line, k, parse_dmm, 0)
                            IN  IF Char(line, k + 1) \in negative THEN -a ELSE a

decode_rmc(line) ==
  [time        |-> Parsed(line, 1, parse_hms, NoTime),
   valid       |-> Char(line, 2),
   lat_deg     |-> Angle(line, 3, {"S", "s"}),  ns |-> Char(line, 4),
   lon_deg     |-> Angle(line, 5, {"W", "w"}),  ew |-> Char(line, 6),
   speed_knots |-> Number(line, 7),
   course_deg  |-> Number(line, 8),
   date        |-> Parsed(line, 9, parse_dmy, NoDate),
   pos_mode    |-> Char(line, 12)]

decode_gga(line) ==
  [time       |-> Parsed(line, 1, parse_hms, NoTime),
   lat_deg    |-> Angle(line, 2, {"S", "s"}),  ns |-> Char(line, 3),
   lon_deg    |-> Angle(line, 4, {"W", "w"}),  ew |-> Char(line, 5),
   fix_status |-> Char(line, 6),
   sats_used  |-> Parsed(line, 7, field_to_int, 0) % 256,
   hdop       |-> Number(line, 8),
   altitude_m |-> Number(line, 9)]

decode_gsa(line) ==
  [mode |-> Char(line, 1), fix_3d |-> Char(line, 2),
   pdop |-> Number(line, 15), hdop |-> Number(line, 16), vdop |-> Number(line, 17)]
=============================================================================
