----------------------------- MODULE MCNmeaLine -----------------------------
(***************************************************************************)
(* Bodies that one byte tells apart, of the same type and of two, one of a *)
(* type that the parser does not decode, with two digits that may be taken *)
(* for a checksum, and one that is two bytes too long: they are equal, so  *)
(* the part of it that the line keeps has the checksum of the whole.       *)
(***************************************************************************)
EXTENDS NmeaLine

MCBody == {<<"G", "P", "R", "M", "C", ",">>,
           <<"G", "N", "R", "M", "C", ",">>,
           <<"G", "P", "G", "S", "A", ",">>,
           <<"G", "P", "D", "B", "T", ",">>,
           <<"G", "N", "G", "G", "A", ",", "1", "1">>}

MCByte  == {"$", "*", "\r", "\n", ",", "A", "C", "G", "M", "N", "P", "R", "S", "T", "x"}
             \cup {HexDigits[d] : d \in 1 .. 16}
MCAscii == [b \in MCByte |->
              CASE b = "$" -> 36 [] b = "*" -> 42 [] b = "\r" -> 13 [] b = "\n" -> 10
                [] b = "," -> 44 [] b = "x" -> 120
                [] b = "G" -> 71 [] b = "M" -> 77 [] b = "N" -> 78 [] b = "P" -> 80
                [] b = "R" -> 82 [] b = "S" -> 83 [] b = "T" -> 84
                [] OTHER -> LET d == CHOOSE d \in 1 .. 16 : HexDigits[d] = b
                            IN  IF d <= 10 THEN 47 + d ELSE 54 + d]
MCGarble == {"$", "*", "\r", "A", "N"}
MCNoise  == {"*", "A", "\n"}

\* The parts of the bodies, with an even or an odd number of the 'A's of the noise.
Parts    == UNION {{SubSeq(bs, 1, k) : k \in 0 .. Len(bs)} : bs \in MCBody}
SumOf(s) == {i \in 0 .. 7 : Cardinality({k \in DOMAIN s : i \in BitsOf(MCAscii[s[k]])}) % 2 = 1}
MCStray  == {SumOf(s) : s \in Parts} \cup {SumOf(s \o <<"A">>) : s \in Parts}
=============================================================================
