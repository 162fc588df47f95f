------------------------------ MODULE MCNmeaFix ------------------------------
(***************************************************************************)
(* A fix in each pair of hemispheres, at the ends of what the fields can   *)
(* hold; any one part missing, or all; bodies of a few commas and digits.  *)
(***************************************************************************)
EXTENDS NmeaFix

\* A position on land, and the last before the date line and before midnight.
Land == [time |-> [h |-> 8, m |-> 35, s |-> 59], date |-> [d |-> 9, m |-> 12, y |-> 2],
         lat |-> 283711437, lon |-> 51391522, speed |-> 125, course |-> 775, alt |-> 4996,
         sats |-> 8, dop |-> 10, valid |-> "A", quality |-> "1", mode |-> "A", dim |-> "3"]
Sea  == [time |-> [h |-> 23, m |-> 59, s |-> 8], date |-> [d |-> 31, m |-> 10, y |-> 99],
         lat |-> -1, lon |-> -1079999999, speed |-> 0, course |-> 3599, alt |-> -4320,
         sats |-> 12, dop |-> 999, valid |-> "V", quality |-> "6", mode |-> "N", dim |-> "2"]

M(type, fix, lacks, pad) ==
  [type |-> type, talker |-> <<"G", "N">>, fix |-> fix, lacks |-> lacks, pad |-> pad]

MCMessages ==
  {M("RMC", Land, {}, 18), M("RMC", Land, {}, 19),
   M("RMC", Land, {"time", "position", "speed", "course", "date", "mode"}, 0),
   M("RMC", Sea, {}, 0), M("RMC", Sea, {"position", "mode"}, 0),
   M("GGA", Land, {}, 0), M("GGA", Land, {"time", "position", "sats", "dop", "altitude"}, 0),
   M("GGA", Sea, {"time"}, 0),
   M("GSA", Land, {}, 0), M("GSA", Sea, {"dop"}, 0)}

\* Of a type that is decoded, of one that is not, and of none.
MCOdd == {Tag(<<"G", "P">>, "RMC") \o <<",">> \o s : s \in [1 .. 3 -> {",", "7"}] \cup [1 .. 2 -> {",", "."}]}
           \cup {<<"G", "P", "G", "S", "V", ",">> \o s : s \in BoundedSeq({",", "4"}, 3)}
           \cup {<<"P", "U", "B", "X">>}

MCByte  == {"$"}
MCAscii == [b \in MCByte |-> 36]
=============================================================================
