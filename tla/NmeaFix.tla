------------------------------- MODULE NmeaFix -------------------------------
(***************************************************************************)
(* What a GNSS receiver knows, rendered as sentences by NMEA 0183, framed  *)
(* and dispatched by the parser, and read by the application from the      *)
(* three snapshots.  A receiver leaves the fields of what it does not know *)
(* empty, or the last ones away.                                           *)
(***************************************************************************)
EXTENDS Nmea, NmeaFields

CONSTANTS Messages,  \* [type, talker, fix, lacks, pad]: a fix as a sentence of a type,
                     \* the parts that the receiver does not know, and the number
                     \* of zeros that it writes before a speed
          Odd        \* bodies of receivers that keep to no standard

VARIABLES shown,   \* what the application reads, by type: n->rmc, n->gga and n->gsa
          coming,  \* the message whose body has been verified, or NONE
          sent     \* the last message of each type that was dispatched, or NONE

fixVars == <<vars, shown, coming, sent>>
-----------------------------------------------------------------------------
Digits(n, w) == [k \in 1 .. w |-> Digit[((n \div 10^(w - k)) % 10) + 1]]
Abs(n)       == IF n < 0 THEN -n ELSE n
Zeros(n)     == [k \in 1 .. n |-> "0"]

\* A number of tenths, an angle, three small numbers.
Tenths(n)   == (IF n < 0 THEN <<"-">> ELSE <<>>)
                 \o Digits(Abs(n) \div 10, 3) \o <<".">> \o Digits(Abs(n) % 10, 1)
Dmm(a, w)   == Digits(Abs(a) \div (60 * Scale), w) \o Digits((Abs(a) \div Scale) % 60, 2)
                 \o <<".">> \o Digits(Abs(a) % Scale, 5)
Triple(x, y, z) == Digits(x, 2) \o Digits(y, 2) \o Digits(z, 2)

Tag(talker, type) == talker \o (CASE type = "RMC" -> <<"R", "M", "C">>
                                  [] type = "GGA" -> <<"G", "G", "A">>
                                  [] type = "GSA" -> <<"G", "S", "A">>)

\* The fields of a message; those of a part that it lacks are empty.
FieldsOf(m) ==
  LET x == m.fix
      If(part, text) == IF part \in m.lacks THEN <<>> ELSE text
      time == If("time", Triple(x.time.h, x.time.m, x.time.s) \o <<".", "0", "0">>)
      angles == <<If("position", Dmm(x.lat, 2)), If("position", <<IF x.lat < 0 THEN "S" ELSE "N">>),
                  If("position", Dmm(x.lon, 3)), If("position", <<IF x.lon < 0 THEN "W" ELSE "E">>)>>
      dop == If("dop", Tenths(x.dop))
  IN  CASE m.type = "RMC" ->
             <<time, <<x.valid>>>> \o angles
               \o <<If("speed", Zeros(m.pad) \o Tenths(x.speed)), If("course", Tenths(x.course)),
                    If("date", Triple(x.date.d, x.date.m, x.date.y)), <<>>, <<>>>>
               \o (IF "mode" \in m.lacks THEN <<>> ELSE <<<<x.mode>>>>)
        [] m.type = "GGA" ->
             <<time>> \o angles
               \o <<<<x.quality>>, If("sats", Digits(x.sats, 2)), dop, If("altitude", Tenths(x.alt)),
                    <<"M">>, Tenths(4), <<"M">>, <<>>, <<>>>>
        [] m.type = "GSA" ->
             <<<<"A">>, <<x.dim>>>> \o [k \in 1 .. 12 |-> IF k <= x.sats THEN Digits(k, 2) ELSE <<>>]
               \o <<dop, dop, dop>>

BodyOf(m) == FoldLeft(LAMBDA s, f : s \o <<",">> \o f, Tag(m.talker, m.type), FieldsOf(m))

\* What a receiver can know and has the digits to say, with characters that no
\* comma is among.
TwoDigits  == 0 .. 99
FourDigits == 0 .. 9999
Within(n) == -n .. n
Character == STRING \ {","}
Fix == [time : [h : TwoDigits, m : TwoDigits, s : TwoDigits],
        date : [d : TwoDigits, m : TwoDigits, y : TwoDigits],
        lat : Within(90 * 60 * Scale), lon : Within(180 * 60 * Scale),
        speed : FourDigits, course : FourDigits, dop : FourDigits, alt : Within(9999), sats : TwoDigits,
        valid : Character, quality : Character, mode : Character, dim : Character]
Message == [type : Type, talker : [1 .. 2 -> Character], fix : Fix, lacks : SUBSET STRING, pad : Nat]

\* Every body is a text, no text is the null pointer, and NONE is not a message.
ASSUME FixAssumption == /\ NULL \notin Seq(STRING) /\ Odd \subseteq Seq(STRING)
                        /\ \A m \in Messages : m \in Message /\ BodyOf(m) \in Seq(STRING)
                        /\ NONE \notin Messages /\ NONE \notin Type
                        /\ \A t \in Type \cup {NONE} : NONE # [type |-> t, odd |-> TRUE]
-----------------------------------------------------------------------------
(* What the application should read after a message.                       *)
Unless(m, part, zero, x) == IF part \in m.lacks THEN zero ELSE x
Sign(m, x, minus, plus)  == Unless(m, "position", "", IF x < 0 THEN minus ELSE plus)
Exact(n) == n * (Scale \div 10)

Meant(m) ==
  LET x == m.fix
      time == Unless(m, "time", NoTime, x.time)
      lat  == Unless(m, "position", 0, x.lat)
      lon  == Unless(m, "position", 0, x.lon)
      dop  == Unless(m, "dop", 0, Exact(x.dop))
      \* Sign, zeros, three digits, a dot and one more digit: 23 characters at most.
      tooLong == m.pad + 5 > 23
  IN  CASE m.type = "RMC" ->
             [time |-> time, valid |-> x.valid,
              lat_deg |-> lat, ns |-> Sign(m, x.lat, "S", "N"),
              lon_deg |-> lon, ew |-> Sign(m, x.lon, "W", "E"),
              speed_knots |-> IF tooLong THEN 0 ELSE Unless(m, "speed", 0, Exact(x.speed)),
              course_deg  |-> Unless(m, "course", 0, Exact(x.course)),
              date |-> Unless(m, "date", NoDate, x.date),
              pos_mode |-> Unless(m, "mode", "", x.mode)]
        [] m.type = "GGA" ->
             [time |-> time,
              lat_deg |-> lat, ns |-> Sign(m, x.lat, "S", "N"),
              lon_deg |-> lon, ew |-> Sign(m, x.lon, "W", "E"),
              fix_status |-> x.quality, sats_used |-> Unless(m, "sats", 0, x.sats),
              hdop |-> dop, altitude_m |-> Unless(m, "altitude", 0, Exact(x.alt))]
        [] m.type = "GSA" ->
             [mode |-> "A", fix_3d |-> x.dim, pdop |-> dop, hdop |-> dop, vdop |-> dop]
-----------------------------------------------------------------------------
\* A struct that memset cleared.
Nothing(t) ==
  CASE t = "RMC" -> [time |-> NoTime, valid |-> "", lat_deg |-> 0, ns |-> "", lon_deg |-> 0,
                     ew |-> "", speed_knots |-> 0, course_deg |-> 0, date |-> NoDate,
                     pos_mode |-> ""]
    [] t = "GGA" -> [time |-> NoTime, lat_deg |-> 0, ns |-> "", lon_deg |-> 0, ew |-> "",
                     fix_status |-> "", sats_used |-> 0, hdop |-> 0, altitude_m |-> 0]
    [] t = "GSA" -> [mode |-> "", fix_3d |-> "", pdop |-> 0, hdop |-> 0, vdop |-> 0]

FixInit == /\ Init
           /\ shown = [t \in Type |-> Nothing(t)]
           /\ coming = NONE /\ sent = [t \in Type |-> NONE]

\* The body of a sentence is complete and its checksum was right.
Verify(m, bs) == /\ line = <<>>
                 /\ line' = bs /\ coming' = m /\ event' = NONE
                 /\ UNCHANGED <<state, overflow, computed_csum, csum_buf, on_message, snapshot, shown, sent>>

Receive    == coming = NONE /\ \E m \in Messages : Verify(m, BodyOf(m))
ReceiveOdd == coming = NONE /\ \E bs \in Odd : Verify([type |-> TypeOf(bs), odd |-> TRUE], bs)

Decoded(t, bs) == CASE t = "RMC" -> decode_rmc(bs)
                    [] t = "GGA" -> decode_gga(bs)
                    [] t = "GSA" -> decode_gsa(bs)

\* (mutant) a decoder fills the parser's struct in place, and not one that it cleared
FillInPlace(t) ==
  LET new == Decoded(t, line)
  IN  shown' = [shown EXCEPT ![t] = [f \in DOMAIN new |-> IF new[f] = Nothing(t)[f] THEN @[f] ELSE new[f]]]

\* The decoder of the type assigns the struct that it made to the parser's.
Assign(t) == shown' = [shown EXCEPT ![t] = Decoded(t, line)]

Dispatch == /\ coming # NONE
            /\ dispatch_line /\ reset_state
            /\ IF TypeOf(line) = NONE THEN UNCHANGED shown ELSE Assign(TypeOf(line))
            /\ sent' = IF coming.type = NONE THEN sent ELSE [sent EXCEPT ![coming.type] = coming]
            /\ coming' = NONE
            /\ UNCHANGED on_message

Restart == /\ nmea_init
           /\ shown' = [t \in Type |-> Nothing(t)]
           /\ coming' = NONE /\ sent' = [t \in Type |-> NONE]

FixNext == Receive \/ ReceiveOdd \/ Dispatch \/ Restart

FixSpec == FixInit /\ [][FixNext]_fixVars
-----------------------------------------------------------------------------
\* Each snapshot says what the last sentence of its type said, field for field,
\* with the sign of the hemisphere; what the receiver did not know is zero, and
\* not what an earlier sentence said, and a number too long for the buffer it
\* is copied to is 0 and never a part of it (nmea.c:72-264).
SnapshotIsLastFix ==
  \A t \in Type : LET m == sent[t]
                  IN  IF m = NONE THEN shown[t] = Nothing(t)
                      ELSE "odd" \notin DOMAIN m => shown[t] = Meant(m)

\* However a body is cut by commas, field_at finds each of its fields, empty
\* ones and the last included, and nothing past the last: the fields have no
\* comma and make the body again (nmea.c:45-67).
FieldsAreSplit ==
  LET n    == Cardinality({i \in DOMAIN line : line[i] = ","})
      f(k) == field_at(line, k)
  IN  /\ \A k \in 0 .. n : f(k) # NULL /\ "," \notin Range(f(k))
      /\ line = FoldLeft(LAMBDA s, k : s \o <<",">> \o f(k), f(0), [k \in 1 .. n |-> k])
      /\ \A k \in n + 1 .. n + 2 : f(k) = NULL
=============================================================================
