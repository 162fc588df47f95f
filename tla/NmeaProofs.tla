----------------------------- MODULE NmeaProofs -----------------------------
(***************************************************************************)
(* The framing is safe for every line length and every set of bytes: the   *)
(* buffers are never overrun, and dispatch never reads a checksum digit    *)
(* that did not arrive.  And a receiver's sentences are heard: an          *)
(* undisturbed one, of any length, exactly once, whatever the line did to  *)
(* the sentences before it; and of the disturbed ones nothing is heard, but*)
(* by the accidents that NmeaLine names.                                   *)
(***************************************************************************)
EXTENDS NmeaLine, FiniteSetTheorems, SequenceTheorems, TLAPS

IInv == TypeOK /\ ChecksumComplete

\* The bits of a checksum stay the bits of a byte.
LEMMA XorOfBytes ==
  ASSUME NEW s \in SUBSET (0 .. 7), NEW n
  PROVE  Xor(s, BitsOf(n)) \in SUBSET (0 .. 7)
  BY Zenon DEF Xor, BitsOf

\* The parser between two sentences.
AtRest == /\ state = "WAIT_DOLLAR" /\ line = <<>> /\ overflow = FALSE
          /\ computed_csum = {} /\ csum_buf = <<>>
          /\ on_message \in BOOLEAN /\ snapshot \in [Type -> Seq(Byte)]

\* A parser at rest satisfies the framing invariant.
LEMMA RestIsSafe == AtRest => IInv
<1> SUFFICES ASSUME AtRest PROVE IInv
  OBVIOUS
<1>1. overflow \in BOOLEAN
  BY Zenon DEF AtRest
<1>2. line \in Seq(Byte) /\ Len(line) <= LineMax /\ csum_buf \in Seq(Byte) /\ Len(csum_buf) = 0
  <2>1. line = <<>> /\ csum_buf = <<>>
    BY Zenon DEF AtRest
  <2> QED BY <2>1, NmeaAssumption, SMT DEF NmeaAssumption
<1>3. Len(csum_buf) <= 2 /\ Len(csum_buf) # 2
  BY <1>2
<1>4. TypeOK
  BY <1>1, <1>2, <1>3, Zenon DEF TypeOK, AtRest
<1>5. ChecksumComplete
  BY <1>3, Zenon DEF ChecksumComplete, AtRest
<1> QED BY <1>4, <1>5 DEF IInv

\* An initial parser is at rest, with empty snapshots.
LEMMA InitIInv == Init => IInv
<1> SUFFICES ASSUME Init PROVE IInv
  OBVIOUS
<1>1. [t \in Type |-> <<>>] \in [Type -> Seq(Byte)]
  OBVIOUS
<1> QED BY <1>1, RestIsSafe, Zenon DEF Init, AtRest

\* reset_state brings the parser to rest, whatever it had collected.
LEMMA ResetIsSafe ==
  reset_state /\ on_message' \in BOOLEAN /\ snapshot' \in [Type -> Seq(Byte)] => IInv'
<1>1. reset_state /\ on_message' \in BOOLEAN /\ snapshot' \in [Type -> Seq(Byte)] => AtRest'
  BY Zenon DEF reset_state, AtRest
<1> QED BY <1>1, RestIsSafe, PTL

\* A dispatched line becomes a snapshot; nothing else of the parser changes.
LEMMA DispatchKeepsTypes ==
  ASSUME IInv, dispatch_line
  PROVE  snapshot' \in [Type -> Seq(Byte)]
<1>1. CASE TypeOf(line) = NONE
  BY <1>1 DEF dispatch_line, IInv, TypeOK
<1>2. CASE TypeOf(line) # NONE
  BY <1>2 DEF dispatch_line, IInv, TypeOK
<1> QED BY <1>1, <1>2

\* Every action keeps the framing invariant, and so does a step that changes
\* nothing.
LEMMA NextIInv == IInv /\ [Next]_vars => IInv'
<1> SUFFICES ASSUME IInv, [Next]_vars PROVE IInv'
  OBVIOUS
<1>1. ASSUME nmea_init PROVE IInv'
  <2>1. [t \in Type |-> <<>>] \in [Type -> Seq(Byte)]
    OBVIOUS
  <2> QED BY <1>1, <2>1, ResetIsSafe, Zenon DEF nmea_init
<1>2. ASSUME NEW b \in Byte, FeedWaitDollar(b), UNCHANGED on_message PROVE IInv'
  <2>1. CASE b = "$"
    <3>1. /\ state' = "IN_BODY" /\ line' = <<>> /\ csum_buf' = <<>> /\ computed_csum' = {}
          /\ overflow' \in BOOLEAN /\ snapshot' = snapshot /\ on_message' = on_message
      BY <1>2, <2>1, Zenon DEF FeedWaitDollar, Silent
    <3> QED BY <3>1, NmeaAssumption, SMT DEF IInv, TypeOK, ChecksumComplete, NmeaAssumption
  <2>2. CASE b # "$"
    BY <1>2, <2>2 DEF FeedWaitDollar, Silent, parser, IInv, TypeOK, ChecksumComplete
  <2> QED BY <2>1, <2>2
<1>3. ASSUME NEW b \in Byte, FeedBody(b), UNCHANGED on_message PROVE IInv'
  <2>1. CASE b = "*" /\ state' = "AFTER_STAR" /\ UNCHANGED <<line, overflow, computed_csum, csum_buf>>
    BY <1>3, <2>1 DEF FeedBody, Silent, IInv, TypeOK, ChecksumComplete
  <2>2. CASE reset_state
    BY <1>3, <2>2, ResetIsSafe, Zenon DEF FeedBody, Silent, IInv, TypeOK
  <2>3. CASE /\ RoomInLine
             /\ line' = Append(line, b)
             /\ computed_csum' = Xor(computed_csum, BitsOf(Ascii[b]))
             /\ UNCHANGED <<state, overflow, csum_buf>>
    <3>1. line' \in Seq(Byte) /\ Len(line') <= LineMax
      BY <2>3, NmeaAssumption DEF RoomInLine, IInv, TypeOK, NmeaAssumption
    <3>2. computed_csum' \subseteq 0 .. 7
      BY <2>3, XorOfBytes DEF IInv, TypeOK
    <3> QED BY <1>3, <2>3, <3>1, <3>2 DEF FeedBody, Silent, IInv, TypeOK, ChecksumComplete
  <2>4. CASE overflow' = TRUE /\ UNCHANGED <<state, line, computed_csum, csum_buf>>
    BY <1>3, <2>4 DEF FeedBody, Silent, IInv, TypeOK, ChecksumComplete
  <2> QED BY <1>3, <2>1, <2>2, <2>3, <2>4 DEF FeedBody
<1>4. ASSUME NEW b \in Byte, FeedAfterStar(b), UNCHANGED on_message PROVE IInv'
  <2>1. CASE reset_state
    BY <1>4, <2>1, ResetIsSafe, Zenon DEF FeedAfterStar, Silent, IInv, TypeOK
  <2>2. CASE /\ Len(csum_buf) < 2
             /\ csum_buf' = Append(csum_buf, b)
             /\ state' = IF BothDigits(csum_buf') THEN "AFTER_CSUM" ELSE state
             /\ UNCHANGED <<line, overflow, computed_csum>>
    <3>1. csum_buf' \in Seq(Byte) /\ Len(csum_buf') <= 2
      BY <2>2 DEF IInv, TypeOK
    <3>2. state = "AFTER_STAR"
      BY <1>4 DEF FeedAfterStar
    <3>3. state' = "AFTER_CSUM" <=> Len(csum_buf') = 2
      BY <2>2, <3>2 DEF BothDigits
    <3>4. state' \in {"AFTER_STAR", "AFTER_CSUM"}
      BY <2>2, <3>2
    <3> QED BY <1>4, <2>2, <3>1, <3>3, <3>4 DEF FeedAfterStar, Silent, IInv, TypeOK, ChecksumComplete
  <2> QED BY <1>4, <2>1, <2>2 DEF FeedAfterStar
<1>5. ASSUME NEW b \in Byte, FeedAfterCsum(b), UNCHANGED on_message PROVE IInv'
  <2>1. snapshot' \in [Type -> Seq(Byte)]
    <3>1. dispatch_line \/ snapshot' = snapshot
      BY <1>5, Zenon DEF FeedAfterCsum, Silent
    <3> QED BY <3>1, DispatchKeepsTypes DEF IInv, TypeOK
  <2>2. CASE reset_state
    BY <1>5, <2>1, <2>2, ResetIsSafe, Zenon DEF IInv, TypeOK
  <2>3. CASE UNCHANGED parser
    BY <1>5, <2>1, <2>3 DEF parser, IInv, TypeOK, ChecksumComplete
  <2> QED BY <1>5, <2>2, <2>3 DEF FeedAfterCsum
<1>6. CASE UNCHANGED vars
  BY <1>6 DEF vars, parser, IInv, TypeOK, ChecksumComplete
<1> QED BY <1>1, <1>2, <1>3, <1>4, <1>5, <1>6 DEF Next, nmea_feed_byte

\* The line and the checksum buffer never outgrow their arrays, whatever bytes
\* arrive (nmea.c:330, 343-344).
THEOREM TypeTheorem == Spec => []TypeOK
<1>1. IInv => TypeOK
  BY DEF IInv
<1> QED BY <1>1, InitIInv, NextIInv, PTL DEF Spec

\* nmea_feed_byte never writes past line[] or csum_buf[], whatever bytes arrive,
\* and dispatches a line only when both its checksum digits have arrived.
THEOREM FramingTheorem == Spec => [](TypeOK /\ ChecksumComplete)
<1>1. IInv => TypeOK /\ ChecksumComplete
  BY DEF IInv
<1> QED BY <1>1, InitIInv, NextIInv, PTL DEF Spec
-----------------------------------------------------------------------------
(***************************************************************************)
(* The line.  The checksum first: the exclusive or of the bytes, and the   *)
(* byte whose bits are set in an odd number of them.                       *)
(***************************************************************************)
\* Where bit i is set among the first j bytes; the bits set an odd number of times.
BitIn(bs, j, i) == {k \in 1 .. j : i \in BitsOf(Ascii[bs[k]])}
Odd(bs, j) == {i \in 0 .. 7 : Cardinality(BitIn(bs, j, i)) % 2 = 1}

\* Sets of bits that differ, bit by bit, as an exclusive or does.
LEMMA XorByBits ==
  ASSUME NEW O \in SUBSET (0 .. 7), NEW P \in SUBSET (0 .. 7), NEW B \in SUBSET (0 .. 7),
         \A i \in 0 .. 7 : i \in O <=> (IF i \in B THEN i \notin P ELSE i \in P)
  PROVE  O = Xor(P, B)
  BY DEF Xor

\* A number and its successor differ in parity.
LEMMA ParityFlips == \A n \in Nat : (n + 1) % 2 = 1 <=> n % 2 # 1
  OBVIOUS

\* One more byte flips the bits that are set in it.
LEMMA OddStep ==
  ASSUME NEW bs, NEW j \in Nat
  PROVE  Odd(bs, j + 1) = Xor(Odd(bs, j), BitsOf(Ascii[bs[j + 1]]))
<1> DEFINE B == BitsOf(Ascii[bs[j + 1]])
<1>1. ASSUME NEW i \in 0 .. 7
      PROVE  i \in Odd(bs, j + 1) <=> (IF i \in B THEN i \notin Odd(bs, j) ELSE i \in Odd(bs, j))
  <2> DEFINE S == BitIn(bs, j, i)
  <2>1. IsFiniteSet(S) /\ Cardinality(S) \in Nat
    <3>1. IsFiniteSet(1 .. j) BY FS_Interval
    <3>2. S \in SUBSET (1 .. j) BY DEF BitIn
    <3> QED BY <3>1, <3>2, FS_Subset, FS_CardinalityType
  <2>2. j + 1 \notin S BY DEF BitIn
  <2>3. i \in Odd(bs, j) <=> Cardinality(S) % 2 = 1 BY DEF Odd
  <2>4. CASE i \in B
    <3>1. BitIn(bs, j + 1, i) = S \cup {j + 1} BY <2>4 DEF BitIn
    <3>2. Cardinality(BitIn(bs, j + 1, i)) = Cardinality(S) + 1
      BY <2>1, <2>2, <3>1, FS_AddElement, Zenon
    <3>3. i \in Odd(bs, j + 1) <=> (Cardinality(S) + 1) % 2 = 1 BY <3>2 DEF Odd
    <3> QED BY <2>1, <2>3, <2>4, <3>3, ParityFlips, Zenon
  <2>5. CASE i \notin B
    <3>1. BitIn(bs, j + 1, i) = S BY <2>5 DEF BitIn
    <3>2. i \in Odd(bs, j + 1) <=> Cardinality(S) % 2 = 1 BY <3>1 DEF Odd
    <3> QED BY <2>3, <2>5, <3>2, Zenon
  <2> QED BY <2>4, <2>5
<1>2. Odd(bs, j + 1) \in SUBSET (0 .. 7) /\ Odd(bs, j) \in SUBSET (0 .. 7) /\ B \in SUBSET (0 .. 7)
  BY DEF Odd, BitsOf
<1> HIDE DEF B
<1>3. Odd(bs, j + 1) = Xor(Odd(bs, j), B) BY <1>1, <1>2, XorByBits
<1> QED BY <1>3 DEF B

\* No byte sets no bit.
LEMMA OddOfNone ==
  ASSUME NEW bs
  PROVE  Odd(bs, 0) = {}
<1>1. ASSUME NEW i PROVE BitIn(bs, 0, i) = {} BY DEF BitIn
<1> QED BY <1>1, FS_EmptySet DEF Odd

\* Every set of bits is that of a byte.
LEMMA BitsOfAByte ==
  ASSUME NEW s \in SUBSET (0 .. 7)
  PROVE  \E n \in 0 .. 255 : BitsOf(n) = s
<1> DEFINE b(i) == IF i \in s THEN 1 ELSE 0
           n == b(0) + 2 * b(1) + 4 * b(2) + 8 * b(3) + 16 * b(4) + 32 * b(5) + 64 * b(6) + 128 * b(7)
<1>1. \A i \in 0 .. 7 : b(i) \in {0, 1} OBVIOUS
<1>2. ASSUME NEW i \in 0 .. 7 PROVE (n \div BitValue[i + 1]) % 2 = b(i)
  <2> HIDE DEF b
  <2>1. /\ b(0) \in {0, 1} /\ b(1) \in {0, 1} /\ b(2) \in {0, 1} /\ b(3) \in {0, 1}
        /\ b(4) \in {0, 1} /\ b(5) \in {0, 1} /\ b(6) \in {0, 1} /\ b(7) \in {0, 1}
    BY <1>1
  <2>2. CASE i = 0 BY <2>1, <2>2 DEF BitValue
  <2>3. CASE i = 1 BY <2>1, <2>3 DEF BitValue
  <2>4. CASE i = 2 BY <2>1, <2>4 DEF BitValue
  <2>5. CASE i = 3 BY <2>1, <2>5 DEF BitValue
  <2>6. CASE i = 4 BY <2>1, <2>6 DEF BitValue
  <2>7. CASE i = 5 BY <2>1, <2>7 DEF BitValue
  <2>8. CASE i = 6 BY <2>1, <2>8 DEF BitValue
  <2>9. CASE i = 7 BY <2>1, <2>9 DEF BitValue
  <2> QED BY <2>2, <2>3, <2>4, <2>5, <2>6, <2>7, <2>8, <2>9
<1>3. n \in 0 .. 255
  <2> HIDE DEF b
  <2> QED BY <1>1
<1>4. \A i \in 0 .. 7 : i \in s <=> b(i) = 1 OBVIOUS
<1> HIDE DEF n, b
<1>5. BitsOf(n) = {i \in 0 .. 7 : b(i) = 1} BY <1>2 DEF BitsOf
<1>6. BitsOf(n) = s BY <1>4, <1>5
<1> QED BY <1>3, <1>6

\* The receiver's checksum has the bits of the exclusive or.
LEMMA ChecksumBits ==
  ASSUME NEW bs, NEW S, bs \in Seq(S)
  PROVE  Checksum(bs) \in 0 .. 255 /\ BitsOf(Checksum(bs)) = Odd(bs, Len(bs))
<1>1. DOMAIN bs = 1 .. Len(bs) OBVIOUS
<1>2. Checksum(bs) = HexOf(Odd(bs, Len(bs))) BY <1>1 DEF Checksum, Odd, BitIn
<1>3. Odd(bs, Len(bs)) \in SUBSET (0 .. 7) BY DEF Odd
<1> QED BY <1>2, <1>3, BitsOfAByte DEF HexOf

\* A digit that is sent is read as its value, and ends no line.
LEMMA DigitRead ==
  ASSUME NEW d \in 0 .. 15
  PROVE  /\ IsHex(HexDigits[d + 1]) /\ hex_nibble(HexDigits[d + 1]) = d
         /\ HexDigits[d + 1] \notin EndOfLine
<1>1. \A e \in 1 .. 16 : HexDigits[d + 1] \in {HexDigits[e], LowerHex[e]} <=> e = d + 1
  BY DEF HexDigits, LowerHex
<1>2. HexDigits[d + 1] \notin EndOfLine BY DEF HexDigits, EndOfLine
<1> HIDE DEF HexDigits, LowerHex
<1>3. d + 1 \in 1 .. 16 /\ (d + 1) - 1 = d OBVIOUS
<1>4. (CHOOSE e \in 1 .. 16 : HexDigits[d + 1] \in {HexDigits[e], LowerHex[e]}) = d + 1
  BY <1>1, <1>3
<1> QED BY <1>1, <1>2, <1>3, <1>4 DEF IsHex, hex_nibble
-----------------------------------------------------------------------------
(***************************************************************************)
(* An undisturbed sentence, byte by byte.                                  *)
(***************************************************************************)
High(bs) == HexDigits[(Checksum(bs) \div 16) + 1]
Low(bs)  == HexDigits[(Checksum(bs) % 16) + 1]
End(bs)  == <<"*", High(bs), Low(bs), "\r", "\n">>

\* What the parser has of the body after k bytes of it.
Kept(k)      == IF k < LineMax THEN k ELSE LineMax
Collected(k) == /\ line = SubSeq(body, 1, Kept(k))
                /\ overflow <=> k > LineMax
                /\ computed_csum = Odd(body, Kept(k))

\* Where the parser is when the line has carried all but `todo'.
Ahead     == todo = Sentence(body) /\ state = "WAIT_DOLLAR" /\ heard = 0
Inside(k) == /\ todo = SubSeq(body, k + 1, Len(body)) \o End(body)
             /\ state = "IN_BODY" /\ csum_buf = <<>> /\ heard = 0
             /\ Collected(k)
Digits(s, buf, rest) == /\ state = s /\ csum_buf = buf /\ todo = rest /\ heard = 0
                        /\ Collected(Len(body))
Over == /\ todo \in {<<"\n">>, <<>>}
        /\ state = "WAIT_DOLLAR" /\ ~inLine
        /\ heard = IF Accepted(body) /\ on_message THEN 1 ELSE 0
        /\ Accepted(body) => snapshot[TypeOf(body)] = body

Phase == \/ Ahead
         \/ \E k \in 0 .. Len(body) : Inside(k)
         \/ Digits("AFTER_STAR", <<>>, <<High(body), Low(body), "\r", "\n">>)
         \/ Digits("AFTER_STAR", <<High(body)>>, <<Low(body), "\r", "\n">>)
         \/ Digits("AFTER_CSUM", <<High(body), Low(body)>>, <<"\r", "\n">>)
         \/ Over

Clean == ~fault /\ ~merged /\ body # <<>>


\* The first element of a concatenation and the others.
LEMMA HeadOfConcat ==
  ASSUME NEW T, NEW s \in Seq(T), s # <<>>, NEW e \in Seq(T)
  PROVE  s \o e # <<>> /\ Head(s \o e) = Head(s) /\ Tail(s \o e) = Tail(s) \o e
<1>1. Tail(s \o e) = Tail(s) \o e
  <2>1. Len(s) \in Nat \ {0} /\ Len(e) \in Nat BY EmptySeq
  <2>2. /\ s \o e \in Seq(T) /\ Len(s \o e) = Len(s) + Len(e) /\ s \o e # <<>>
        /\ \A i \in 1 .. Len(s) + Len(e) : (s \o e)[i] = IF i <= Len(s) THEN s[i] ELSE e[i - Len(s)]
    BY <2>1, ConcatProperties
  <2>3. /\ Tail(s) \in Seq(T) /\ Len(Tail(s)) = Len(s) - 1
        /\ \A i \in 1 .. Len(s) - 1 : Tail(s)[i] = s[i + 1]
    BY HeadTailProperties
  <2>4. /\ Tail(s \o e) \in Seq(T) /\ Len(Tail(s \o e)) = Len(s) + Len(e) - 1
        /\ \A i \in 1 .. Len(s) + Len(e) - 1 : Tail(s \o e)[i] = (s \o e)[i + 1]
    BY <2>1, <2>2, HeadTailProperties
  <2>5. /\ Tail(s) \o e \in Seq(T) /\ Len(Tail(s) \o e) = Len(s) + Len(e) - 1
        /\ \A i \in 1 .. Len(s) + Len(e) - 1 :
             (Tail(s) \o e)[i] = IF i <= Len(s) - 1 THEN Tail(s)[i] ELSE e[i - (Len(s) - 1)]
    BY <2>1, <2>3, ConcatProperties
  <2>6. \A i \in 1 .. Len(s) + Len(e) - 1 : Tail(s \o e)[i] = (Tail(s) \o e)[i]
    BY <2>1, <2>2, <2>3, <2>4, <2>5
  <2> QED BY <2>4, <2>5, <2>6, SeqEqual
<1>2. s \o e # <<>> /\ Head(s \o e) = Head(s)
  BY EmptySeq, ConcatProperties
<1> QED BY <1>1, <1>2

\* A set that the bytes of a sentence are in.
LEMMA EndIsASequence ==
  ASSUME NEW bs, NEW S
  PROVE  \E T : S \subseteq T /\ "$" \in T /\ End(bs) \in Seq(T)
<1> DEFINE T == S \cup {"$", "*", High(bs), Low(bs), "\r", "\n"}
<1>1. S \subseteq T /\ "$" \in T OBVIOUS
<1>2. End(bs) \in Seq(T) BY DEF End
<1> QED BY <1>1, <1>2

\* The first byte of a sentence and the others.
LEMMA SentenceParts ==
  ASSUME NEW bs, NEW S, bs \in Seq(S)
  PROVE  /\ Sentence(bs) # <<>> /\ Head(Sentence(bs)) = "$"
         /\ Tail(Sentence(bs)) = SubSeq(bs, 1, Len(bs)) \o End(bs)
<1>1. Sentence(bs) = (<<"$">> \o bs) \o End(bs) BY Zenon DEF Sentence, End, High, Low
<1>2. PICK T : S \subseteq T /\ "$" \in T /\ End(bs) \in Seq(T) BY EndIsASequence
<1>3. bs \in Seq(T) /\ <<"$">> \in Seq(T) /\ <<"$">> # <<>> BY <1>2, SeqMonotonic
<1>4. /\ <<"$">> \o bs \in Seq(T) /\ <<"$">> \o bs # <<>>
      /\ Head(<<"$">> \o bs) = "$" /\ Tail(<<"$">> \o bs) = bs
  <2>1. Head(<<"$">>) = "$" /\ Tail(<<"$">>) = <<>> OBVIOUS
  <2> QED BY <1>3, <2>1, HeadOfConcat, ConcatProperties, ConcatEmptySeq
<1>5. SubSeq(bs, 1, Len(bs)) = bs BY SubSeqFull
<1> QED BY <1>1, <1>2, <1>4, <1>5, HeadOfConcat, SMTT(40)

\* The next byte of a sentence, after k bytes of the body.
LEMMA BodyParts ==
  ASSUME NEW bs, NEW S, bs \in Seq(S), NEW k \in 0 .. Len(bs)
  PROVE  LET s == SubSeq(bs, k + 1, Len(bs)) \o End(bs)
         IN  IF k < Len(bs)
             THEN s # <<>> /\ Head(s) = bs[k + 1] /\ Tail(s) = SubSeq(bs, k + 2, Len(bs)) \o End(bs)
             ELSE s # <<>> /\ Head(s) = "*" /\ Tail(s) = <<High(bs), Low(bs), "\r", "\n">>
<1>0. PICK T : S \subseteq T /\ "$" \in T /\ End(bs) \in Seq(T) BY EndIsASequence
<1>1. CASE k < Len(bs)
  <2> DEFINE s == SubSeq(bs, k + 1, Len(bs))
  <2>1. k + 1 \in 1 .. Len(bs) /\ Len(bs) \in k + 1 .. Len(bs) /\ (k + 1) + 1 = k + 2
    BY <1>1, LenProperties
  <2>2. Head(s) = bs[k + 1] /\ Tail(s) = SubSeq(bs, k + 2, Len(bs))
    BY <2>1, HeadTailOfSubSeq
  <2>3. s \in Seq(T) /\ s # <<>>
    <3>1. bs \in Seq(T) BY <1>0, SeqMonotonic
    <3>2. s \in Seq(T) /\ Len(s) = Len(bs) - k BY <2>1, <3>1
    <3>3. Len(bs) - k # 0 BY <1>1, LenProperties
    <3> HIDE DEF s
    <3> QED BY <3>2, <3>3, EmptySeq
  <2>4. /\ s \o End(bs) # <<>> /\ Head(s \o End(bs)) = bs[k + 1]
        /\ Tail(s \o End(bs)) = SubSeq(bs, k + 2, Len(bs)) \o End(bs)
    <3> HIDE DEF s
    <3>1. s \o End(bs) # <<>> /\ Head(s \o End(bs)) = Head(s) /\ Tail(s \o End(bs)) = Tail(s) \o End(bs)
      BY <1>0, <2>3, HeadOfConcat
    <3> QED BY <2>2, <3>1
  <2> QED BY <1>1, <2>4, Zenon
<1>2. CASE k = Len(bs)
  <2>1. SubSeq(bs, k + 1, Len(bs)) = <<>> BY <1>2, LenProperties
  <2>2. <<>> \o End(bs) = End(bs) BY <1>0, ConcatEmptySeq
  <2>3. /\ End(bs) # <<>> /\ Head(End(bs)) = "*"
        /\ Tail(End(bs)) = <<High(bs), Low(bs), "\r", "\n">>
    BY DEF End
  <2>4. ~(k < Len(bs)) BY <1>2, LenProperties
  <2> QED BY <2>1, <2>2, <2>3, <2>4, Zenon
<1>3. k < Len(bs) \/ k = Len(bs) BY LenProperties
<1> QED BY <1>1, <1>2, <1>3, Zenon
-----------------------------------------------------------------------------
\* The parser does in each state what that state's action says.
LEMMA ByState ==
  ASSUME NEW b, nmea_feed_byte(b)
  PROVE  /\ on_message' = on_message
         /\ state = "WAIT_DOLLAR" => FeedWaitDollar(b)
         /\ state = "IN_BODY"     => FeedBody(b)
         /\ state = "AFTER_STAR"  => FeedAfterStar(b)
         /\ state = "AFTER_CSUM"  => FeedAfterCsum(b)
  BY DEF nmea_feed_byte, FeedWaitDollar, FeedBody, FeedAfterStar, FeedAfterCsum

\* A dispatched body has one of the three types.
LEMMA TypeOfRange ==
  ASSUME NEW bs, TypeOf(bs) # NONE
  PROVE  TypeOf(bs) \in Type
  BY Zenon DEF TypeOf, Type

\* What holds of the parser whatever the line does to the bytes.
Steady == /\ on_message \in BOOLEAN
          /\ snapshot = [t \in Type |-> snapshot[t]]
          /\ ~inLine => state = "WAIT_DOLLAR"

\* The end of a line brings the parser to rest, in every state.
LEMMA EndBringsToRest ==
  ASSUME NEW b \in EndOfLine, nmea_feed_byte(b)
  PROVE  state' = "WAIT_DOLLAR"
<1>1. b # "$" BY DEF EndOfLine
<1>2. CASE FeedWaitDollar(b) BY <1>1, <1>2, Zenon DEF FeedWaitDollar, parser
<1>3. CASE FeedBody(b)
  <2>1. b # "*" BY DEF EndOfLine
  <2> QED BY <1>3, <2>1, Zenon DEF FeedBody, reset_state
<1>4. CASE FeedAfterStar(b) BY <1>4, Zenon DEF FeedAfterStar, reset_state
<1>5. CASE FeedAfterCsum(b) BY <1>5, Zenon DEF FeedAfterCsum, reset_state
<1> QED BY <1>2, <1>3, <1>4, <1>5, Zenon DEF nmea_feed_byte

\* No byte leaves the snapshots without their domain.
LEMMA SnapshotStays ==
  ASSUME NEW b, nmea_feed_byte(b), snapshot = [t \in Type |-> snapshot[t]]
  PROVE  snapshot' = [t \in Type |-> snapshot'[t]]
<1>1. UNCHANGED snapshot \/ dispatch_line
  BY Zenon DEF nmea_feed_byte, FeedWaitDollar, FeedBody, FeedAfterStar, FeedAfterCsum, Silent
<1>2. CASE dispatch_line /\ TypeOf(line) # NONE
  <2>1. snapshot' = [snapshot EXCEPT ![TypeOf(line)] = line] BY <1>2, Zenon DEF dispatch_line
  <2> QED BY <2>1
<1>3. CASE dispatch_line /\ TypeOf(line) = NONE BY <1>3, Zenon DEF dispatch_line
<1>4. CASE UNCHANGED snapshot BY <1>4
<1> QED BY <1>1, <1>2, <1>3, <1>4

\* A byte that arrives keeps the parser steady.
LEMMA ArrivesSteady ==
  ASSUME NEW b, Arrives(b), Steady
  PROVE  Steady'
<1>1. nmea_feed_byte(b) /\ inLine' = (b = "$" \/ (inLine /\ b \notin EndOfLine))
  BY Zenon DEF Arrives
<1>2. on_message' \in BOOLEAN BY <1>1, ByState DEF Steady
<1>3. snapshot' = [t \in Type |-> snapshot'[t]] BY <1>1, SnapshotStays DEF Steady
<1>4. ~inLine' => state' = "WAIT_DOLLAR"
  <2>1. CASE b \in EndOfLine BY <1>1, <2>1, EndBringsToRest, Zenon
  <2>2. CASE b # "$" /\ ~inLine
    <3>1. FeedWaitDollar(b) BY <1>1, <2>2, ByState, Zenon DEF Steady
    <3> QED BY <2>2, <3>1, Zenon DEF FeedWaitDollar, parser
  <2> QED BY <1>1, <2>1, <2>2, Zenon
<1> QED BY <1>2, <1>3, <1>4 DEF Steady
-----------------------------------------------------------------------------
(***************************************************************************)
(* The phases of an undisturbed sentence: each byte leads to the next.     *)
(***************************************************************************)
\* The receiver's bodies, and the ends of sentences, have no line end.
LEMMA BodyBytes ==
  ASSUME body \in Body
  PROVE  /\ body \in Seq(Byte \ (EndOfLine \cup {"*"})) /\ body \in Seq(Byte)
         /\ Len(body) \in Nat
         /\ \A k \in 1 .. Len(body) : body[k] \notin EndOfLine /\ body[k] # "*"
<1>1. body \in Seq(Byte \ (EndOfLine \cup {"*"})) BY LineAssumption DEF LineAssumption
<1>2. body \in Seq(Byte) BY <1>1, SeqMonotonic
<1>3. \A k \in 1 .. Len(body) : body[k] \in Byte \ (EndOfLine \cup {"*"})
  BY <1>1, ElementOfSeq
<1> QED BY <1>1, <1>2, <1>3, LenProperties

\* A byte of a sentence, transmitted.
Sent(b) == Transmit /\ Head(todo) = b /\ Steady /\ body \in Body

\* What a transmitted byte leaves alone.
LEMMA SentBasics ==
  ASSUME NEW b, Sent(b)
  PROVE  /\ nmea_feed_byte(b) /\ todo' = Tail(todo) /\ body' = body
         /\ on_message' = on_message /\ on_message \in BOOLEAN
         /\ inLine' = (b = "$" \/ (inLine /\ b \notin EndOfLine))
         /\ heard' = IF event' # NONE THEN heard + 1 ELSE heard
<1>1. nmea_feed_byte(b) /\ todo' = Tail(todo) /\ body' = body
  BY Zenon DEF Sent, Transmit, Arrives
<1> QED BY <1>1, ByState, Zenon DEF Sent, Transmit, Arrives, Steady

\* The '$' opens the line.
LEMMA OpenStep ==
  ASSUME Ahead, Sent("$")
  PROVE  Inside(0)'
<1>1. todo' = SubSeq(body', 0 + 1, Len(body')) \o End(body')
  <2>1. Tail(todo) = SubSeq(body, 1, Len(body)) \o End(body)
    BY BodyBytes, SentenceParts DEF Ahead, Sent
  <2>2. todo' = Tail(todo) /\ body' = body /\ 0 + 1 = 1 BY SentBasics
  <2> QED BY <2>1, <2>2
<1>2. FeedWaitDollar("$") BY SentBasics, ByState DEF Ahead
<1>3. /\ state' = "IN_BODY" /\ line' = <<>> /\ overflow' = FALSE
      /\ computed_csum' = {} /\ csum_buf' = <<>> /\ event' = NONE
  BY <1>2, Zenon DEF FeedWaitDollar, Silent
<1>4. heard' = 0 BY <1>3, SentBasics DEF Ahead
<1>5. Kept(0) = 0 /\ ~(0 > LineMax) BY NmeaAssumption DEF Kept, NmeaAssumption
<1>6. SubSeq(body', 1, 0) = <<>> OBVIOUS
<1>7. Collected(0)' BY <1>3, <1>5, <1>6, OddOfNone, Zenon DEF Collected
<1> QED BY <1>1, <1>3, <1>4, <1>7, Zenon DEF Inside

\* A byte of the body is kept while there is room.
LEMMA BodyStep ==
  ASSUME NEW k \in 0 .. Len(body), k < Len(body), Inside(k), Sent(body[k + 1])
  PROVE  Inside(k + 1)'
<1> DEFINE b == body[k + 1]
<1>0. body \in Body BY DEF Sent
<1>1. k \in Nat /\ k + 1 \in 1 .. Len(body) /\ Len(body) \in Nat /\ (k + 1) + 1 = k + 2
  BY <1>0, BodyBytes
<1>2. b \notin EndOfLine /\ b # "*" BY <1>0, <1>1, BodyBytes, Zenon
<1>3. todo' = SubSeq(body', k + 2, Len(body')) \o End(body')
  BY <1>0, BodyBytes, BodyParts, SentBasics DEF Inside
<1>4. FeedBody(b) BY SentBasics, ByState, Zenon DEF Inside
<1>5. /\ event' = NONE /\ state' = "IN_BODY" /\ csum_buf' = <<>>
      /\ \/ /\ RoomInLine /\ line' = Append(line, b) /\ overflow' = overflow
            /\ computed_csum' = Xor(computed_csum, BitsOf(Ascii[b]))
         \/ ~RoomInLine /\ overflow' = TRUE /\ UNCHANGED <<line, computed_csum>>
  BY <1>2, <1>4, Zenon DEF FeedBody, Silent, Inside
<1>6. heard' = 0 BY <1>5, SentBasics DEF Inside
<1>7. /\ line = SubSeq(body, 1, Kept(k)) /\ (overflow <=> k > LineMax)
      /\ computed_csum = Odd(body, Kept(k))
  BY Zenon DEF Inside, Collected
<1>8. LineMax \in Nat BY NmeaAssumption DEF NmeaAssumption
<1>9. Collected(k + 1)'
  <2>1. CASE k < LineMax
    <3>1. Kept(k) = k /\ Kept(k + 1) = k + 1 /\ ~(k > LineMax) /\ ~(k + 1 > LineMax)
      BY <1>1, <1>8, <2>1 DEF Kept
    <3>2. Len(SubSeq(body, 1, k)) = k BY <1>0, <1>1, BodyBytes
    <3>3. RoomInLine BY <1>7, <2>1, <3>1, <3>2 DEF RoomInLine
    <3>4. /\ line' = Append(SubSeq(body, 1, k), b) /\ overflow' = FALSE
          /\ computed_csum' = Xor(Odd(body, k), BitsOf(Ascii[b]))
      BY <1>5, <1>7, <3>1, <3>3
    <3>5. Append(SubSeq(body, 1, k), b) = SubSeq(body, 1, k + 1)
      BY <1>0, <1>1, BodyBytes
    <3>6. computed_csum' = Odd(body, k + 1) BY <1>1, <3>4, OddStep
    <3> QED BY <3>1, <3>4, <3>5, <3>6, SentBasics DEF Collected
  <2>2. CASE ~(k < LineMax)
    <3>1. Kept(k) = LineMax /\ Kept(k + 1) = LineMax /\ k + 1 > LineMax /\ LineMax <= k
      BY <1>1, <1>8, <2>2 DEF Kept
    <3>2. Len(SubSeq(body, 1, LineMax)) = LineMax BY <1>0, <1>1, <1>8, <3>1, BodyBytes
    <3>3. ~RoomInLine BY <1>7, <1>8, <3>1, <3>2 DEF RoomInLine
    <3> QED BY <1>5, <1>7, <3>1, <3>3, SentBasics DEF Collected
  <2> QED BY <2>1, <2>2
<1> QED BY <1>1, <1>3, <1>5, <1>6, <1>9, Zenon DEF Inside

\* The '*' closes the body.
LEMMA StarStep ==
  ASSUME Inside(Len(body)), Sent("*")
  PROVE  Digits("AFTER_STAR", <<>>, <<High(body), Low(body), "\r", "\n">>)'
<1>0. body \in Body BY DEF Sent
<1>1. todo' = <<High(body'), Low(body'), "\r", "\n">>
  <2>1. Len(body) \in 0 .. Len(body) /\ ~(Len(body) < Len(body)) BY <1>0, BodyBytes
  <2>2. Tail(todo) = <<High(body), Low(body), "\r", "\n">>
    BY <1>0, <2>1, BodyBytes, BodyParts DEF Inside
  <2> QED BY <2>2, SentBasics, Zenon
<1>2. FeedBody("*") BY SentBasics, ByState, Zenon DEF Inside
<1>3. "*" \notin EndOfLine BY DEF EndOfLine
<1>4. /\ state' = "AFTER_STAR" /\ UNCHANGED <<line, overflow, computed_csum, csum_buf>>
      /\ event' = NONE
  BY <1>2, <1>3, Zenon DEF FeedBody, Silent
<1>5. heard' = 0 BY <1>4, SentBasics DEF Inside
<1>6. Collected(Len(body))' BY <1>4, SentBasics, Zenon DEF Inside, Collected
<1> QED BY <1>1, <1>4, <1>5, <1>6, Zenon DEF Digits, Inside

\* A byte is its two digits.
LEMMA TwoDigits ==
  \A c \in 0 .. 255 : /\ c \div 16 \in 0 .. 15 /\ c % 16 \in 0 .. 15
                      /\ 16 * (c \div 16) + (c % 16) = c
  OBVIOUS

\* The first digit of the checksum is collected.
LEMMA HighStep ==
  ASSUME Digits("AFTER_STAR", <<>>, <<High(body), Low(body), "\r", "\n">>), Sent(High(body))
  PROVE  Digits("AFTER_STAR", <<High(body)>>, <<Low(body), "\r", "\n">>)'
<1>1. body \in Body /\ Checksum(body) \in 0 .. 255
  BY BodyBytes, ChecksumBits DEF Sent
<1>2. Checksum(body) \div 16 \in 0 .. 15 BY <1>1, TwoDigits, Zenon
<1>3. High(body) \notin EndOfLine BY <1>2, DigitRead DEF High
<1>4. todo' = <<Low(body'), "\r", "\n">> BY SentBasics DEF Digits
<1>5. FeedAfterStar(High(body)) BY SentBasics, ByState, Zenon DEF Digits
<1>6. /\ csum_buf' = Append(csum_buf, High(body))
      /\ state' = IF BothDigits(csum_buf') THEN "AFTER_CSUM" ELSE state
      /\ UNCHANGED <<line, overflow, computed_csum>> /\ event' = NONE
  BY <1>3, <1>5, Zenon DEF FeedAfterStar, Silent
<1>7. csum_buf' = <<High(body')>> /\ ~BothDigits(csum_buf')
  <2>1. csum_buf = <<>> BY Zenon DEF Digits
  <2>2. csum_buf' = <<High(body)>> BY <1>6, <2>1
  <2>3. Len(csum_buf') # 2 BY <2>2
  <2> QED BY <2>2, <2>3, SentBasics, Zenon DEF BothDigits
<1>8. heard' = 0 BY <1>6, SentBasics DEF Digits
<1>9. Collected(Len(body))' BY <1>6, SentBasics, Zenon DEF Digits, Collected
<1> QED BY <1>4, <1>6, <1>7, <1>8, <1>9, Zenon DEF Digits

\* A sequence of one byte and another byte.
LEMMA AppendToOne ==
  ASSUME NEW h, NEW l
  PROVE  Append(<<h>>, l) = <<h, l>>
<1>1. <<h>> \in Seq({h, l}) /\ <<h, l>> \in Seq({h, l}) /\ Len(<<h>>) = 1 /\ <<h>>[1] = h
  OBVIOUS
<1>2. /\ Append(<<h>>, l) \in Seq({h, l}) /\ Len(Append(<<h>>, l)) = 2
      /\ Append(<<h>>, l)[1] = h /\ Append(<<h>>, l)[2] = l
  BY <1>1, AppendProperties
<1>3. Len(<<h, l>>) = 2 /\ <<h, l>>[1] = h /\ <<h, l>>[2] = l OBVIOUS
<1>4. \A i \in 1 .. 2 : Append(<<h>>, l)[i] = <<h, l>>[i]
  <2>1. 1 .. 2 = {1, 2} OBVIOUS
  <2> QED BY <1>2, <1>3, <2>1, Zenon
<1> QED BY <1>1, <1>2, <1>3, <1>4, SeqEqual, Zenon

\* So is the second.
LEMMA LowStep ==
  ASSUME Digits("AFTER_STAR", <<High(body)>>, <<Low(body), "\r", "\n">>), Sent(Low(body))
  PROVE  Digits("AFTER_CSUM", <<High(body), Low(body)>>, <<"\r", "\n">>)'
<1>1. body \in Body /\ Checksum(body) \in 0 .. 255
  BY BodyBytes, ChecksumBits DEF Sent
<1>2. Checksum(body) % 16 \in 0 .. 15 BY <1>1, TwoDigits, Zenon
<1>3. Low(body) \notin EndOfLine BY <1>2, DigitRead DEF Low
<1>4. todo' = <<"\r", "\n">> BY SentBasics DEF Digits
<1>5. FeedAfterStar(Low(body)) BY SentBasics, ByState, Zenon DEF Digits
<1>6. /\ csum_buf' = Append(csum_buf, Low(body))
      /\ state' = IF BothDigits(csum_buf') THEN "AFTER_CSUM" ELSE state
      /\ UNCHANGED <<line, overflow, computed_csum>> /\ event' = NONE
  BY <1>3, <1>5, Zenon DEF FeedAfterStar, Silent
<1>7. csum_buf' = <<High(body'), Low(body')>> /\ BothDigits(csum_buf')
  <2>1. csum_buf = <<High(body)>> BY Zenon DEF Digits
  <2>2. csum_buf' = <<High(body), Low(body)>>
    BY <1>6, <2>1, AppendToOne, Zenon
  <2>3. Len(csum_buf') = 2 BY <2>2
  <2> QED BY <2>2, <2>3, SentBasics, Zenon DEF BothDigits
<1>8. heard' = 0 BY <1>6, SentBasics DEF Digits
<1>9. Collected(Len(body))' BY <1>6, SentBasics, Zenon DEF Digits, Collected
<1> QED BY <1>4, <1>6, <1>7, <1>8, <1>9, Zenon DEF Digits

\* All of a body that fits is kept.
LEMMA KeptIfItFits ==
  ASSUME NEW n \in Nat, n <= LineMax
  PROVE  Kept(n) = n /\ ~(n > LineMax)
  BY NmeaAssumption DEF Kept, NmeaAssumption

\* The sentence verifies exactly when all of its body was kept.
LEMMA VerifiedIfItFits ==
  ASSUME body \in Body, Digits("AFTER_CSUM", <<High(body), Low(body)>>, <<"\r", "\n">>)
  PROVE  /\ Verified <=> Len(body) <= LineMax
         /\ Verified => line = body
<1> DEFINE c == Checksum(body)
<1>1. Len(body) \in Nat /\ LineMax \in Nat /\ SubSeq(body, 1, Len(body)) = body
  BY BodyBytes, SubSeqFull, NmeaAssumption DEF NmeaAssumption
<1>2. /\ line = SubSeq(body, 1, Kept(Len(body))) /\ (overflow <=> Len(body) > LineMax)
      /\ computed_csum = Odd(body, Kept(Len(body)))
      /\ csum_buf = <<High(body), Low(body)>>
  BY Zenon DEF Digits, Collected
<1>3. Verified => Len(body) <= LineMax BY <1>1, <1>2 DEF Verified
<1>4. ASSUME Len(body) <= LineMax PROVE Verified /\ line = body
  <2>0. Kept(Len(body)) = Len(body) /\ ~(Len(body) > LineMax) BY <1>1, <1>4, KeptIfItFits
  <2>1. Kept(Len(body)) = Len(body) /\ ~overflow BY <1>2, <2>0, Zenon
  <2>2. c \in 0 .. 255 /\ BitsOf(c) = Odd(body, Len(body)) BY BodyBytes, ChecksumBits
  <2> HIDE DEF c
  <2>3. c \div 16 \in 0 .. 15 /\ c % 16 \in 0 .. 15 /\ 16 * (c \div 16) + (c % 16) = c
    BY <2>2, TwoDigits, Zenon
  <2>4. csum_buf[1] = HexDigits[(c \div 16) + 1] /\ csum_buf[2] = HexDigits[(c % 16) + 1]
    <3>1. csum_buf[1] = High(body) /\ csum_buf[2] = Low(body) BY <1>2
    <3> QED BY <3>1, Zenon DEF High, Low, c
  <2>5. /\ IsHex(csum_buf[1]) /\ hex_nibble(csum_buf[1]) = c \div 16
        /\ IsHex(csum_buf[2]) /\ hex_nibble(csum_buf[2]) = c % 16
    BY <2>3, <2>4, DigitRead, Zenon
  <2>6. BitsOf(16 * hex_nibble(csum_buf[1]) + hex_nibble(csum_buf[2])) = computed_csum
    BY <1>2, <2>1, <2>2, <2>3, <2>5, Zenon
  <2>7. line = body BY <1>1, <1>2, <2>1, Zenon
  <2> QED BY <2>1, <2>5, <2>6, <2>7, Zenon DEF Verified
<1> QED BY <1>3, <1>4

\* The CR dispatches a body that fits and is known, once.
LEMMA ReturnStep ==
  ASSUME Digits("AFTER_CSUM", <<High(body), Low(body)>>, <<"\r", "\n">>), Sent("\r")
  PROVE  Over'
<1>0. body \in Body BY DEF Sent
<1>1. todo' = <<"\n">> /\ body' = body /\ heard = 0 BY SentBasics DEF Digits
<1>2. FeedAfterCsum("\r") BY SentBasics, ByState, Zenon DEF Digits
<1>3. "\r" \in EndOfLine /\ "\r" # "$" BY DEF EndOfLine
<1>4. /\ state' = "WAIT_DOLLAR"
      /\ IF Verified THEN dispatch_line ELSE Silent
  BY <1>2, <1>3, Zenon DEF FeedAfterCsum, reset_state
<1>5. ~inLine' BY <1>3, SentBasics, Zenon
<1>6. CASE Accepted(body)
  <2> DEFINE t == TypeOf(body)
  <2>1. t # NONE /\ t \in Type /\ line = body /\ Verified
    BY <1>0, <1>6, VerifiedIfItFits, TypeOfRange, Zenon DEF Accepted
  <2>2. /\ snapshot' = [snapshot EXCEPT ![t] = body]
        /\ event' = IF on_message THEN [type |-> t, body |-> body] ELSE NONE
    BY <1>4, <2>1, Zenon DEF dispatch_line
  <2> HIDE DEF t
  <2>3. NONE # [type |-> t, body |-> body]
    BY <1>0, <2>1, LineAssumption, Zenon DEF LineAssumption
  <2>4. heard' = IF on_message' THEN 1 ELSE 0 BY <1>1, <2>2, <2>3, SentBasics
  <2>5. snapshot'[t] = body BY <2>1, <2>2 DEF Sent, Steady
  <2> QED BY <1>1, <1>4, <1>5, <1>6, <2>4, <2>5 DEF Over, t
<1>7. CASE ~Accepted(body)
  <2>1. event' = NONE
    BY <1>0, <1>4, <1>7, VerifiedIfItFits, Zenon DEF dispatch_line, Silent, Accepted
  <2>2. heard' = 0 BY <1>1, <2>1, SentBasics
  <2> QED BY <1>1, <1>4, <1>5, <1>7, <2>2 DEF Over
<1> QED BY <1>6, <1>7

\* A byte outside a sentence, but a '$', does nothing.
LEMMA IdleByte ==
  ASSUME NEW b, b # "$", nmea_feed_byte(b), state = "WAIT_DOLLAR"
  PROVE  /\ state' = "WAIT_DOLLAR" /\ event' = NONE /\ snapshot' = snapshot
         /\ on_message' = on_message
<1>1. FeedWaitDollar(b) BY ByState, Zenon
<1> QED BY <1>1, ByState, Zenon DEF FeedWaitDollar, parser, Silent

\* The LF is outside the sentence already.
LEMMA NewlineStep ==
  ASSUME Over, todo = <<"\n">>, Sent("\n")
  PROVE  Over'
<1>1. "\n" \in EndOfLine /\ "\n" # "$" BY DEF EndOfLine
<1>2. todo' = <<>> /\ body' = body BY SentBasics
<1>3. /\ state' = "WAIT_DOLLAR" /\ event' = NONE /\ snapshot' = snapshot
      /\ on_message' = on_message
  BY <1>1, SentBasics, IdleByte, Zenon DEF Over
<1>4. ~inLine' /\ heard' = heard BY <1>1, <1>3, SentBasics, Zenon
<1> QED BY <1>2, <1>3, <1>4 DEF Over, Accepted
-----------------------------------------------------------------------------
LineInv == /\ Steady
           /\ body # <<>> => body \in Body
           /\ Clean => Phase

\* A sentence of which nothing is still to come is over.
LEMMA DoneIsOver ==
  ASSUME Phase, body \in Body, todo = <<>>
  PROVE  Over
<1>1. ~Ahead BY BodyBytes, SentenceParts DEF Ahead
<1>2. \A k \in 0 .. Len(body) : ~Inside(k)
  <2>1. ASSUME NEW k \in 0 .. Len(body)
        PROVE  SubSeq(body, k + 1, Len(body)) \o End(body) # <<>>
    BY BodyBytes, BodyParts
  <2> QED BY <2>1, Zenon DEF Inside
<1>3. ASSUME NEW a, NEW b, NEW c, NEW d
      PROVE  <<a, b>> # <<>> /\ <<a, b, c>> # <<>> /\ <<a, b, c, d>> # <<>>
  OBVIOUS
<1> QED BY <1>1, <1>2, <1>3, Zenon DEF Phase, Digits

\* The bytes of a sentence lead from phase to phase.
LEMMA TransmitPhase ==
  ASSUME Steady, body \in Body, Phase, Transmit
  PROVE  Phase'
<1>1. Steady /\ body \in Body /\ Phase OBVIOUS
<1>2. body' = body BY Zenon DEF Transmit
<1>3. ASSUME NEW b, Head(todo) = b PROVE Sent(b) BY <1>1, <1>3 DEF Sent
<1>4. CASE Ahead
  <2>1. Head(todo) = "$" BY <1>1, <1>4, BodyBytes, SentenceParts DEF Ahead
  <2>2. Inside(0)' BY <1>3, <1>4, <2>1, OpenStep
  <2>3. 0 \in 0 .. Len(body') BY <1>1, <1>2, BodyBytes
  <2> QED BY <2>2, <2>3, Zenon DEF Phase
<1>5. ASSUME NEW k \in 0 .. Len(body), Inside(k) PROVE Phase'
  <2> DEFINE s == SubSeq(body, k + 1, Len(body)) \o End(body)
  <2>1. todo = s BY <1>5, Zenon DEF Inside
  <2>2. CASE k < Len(body)
    <3>1. Head(todo) = body[k + 1] BY <1>1, <2>1, <2>2, BodyBytes, BodyParts
    <3>2. Inside(k + 1)' BY <1>3, <1>5, <2>2, <3>1, BodyStep
    <3>3. k + 1 \in 0 .. Len(body') BY <1>1, <1>2, <2>2, BodyBytes
    <3> QED BY <3>2, <3>3, Zenon DEF Phase
  <2>3. CASE k = Len(body)
    <3>1. ~(k < Len(body)) BY <1>1, <2>3, BodyBytes
    <3>2. Head(todo) = "*" BY <1>1, <2>1, <3>1, BodyBytes, BodyParts
    <3>3. Digits("AFTER_STAR", <<>>, <<High(body), Low(body), "\r", "\n">>)'
      BY <1>3, <1>5, <2>3, <3>2, StarStep
    <3> QED BY <3>3, Zenon DEF Phase
  <2> QED BY <1>1, <2>2, <2>3, BodyBytes
<1>6. CASE Digits("AFTER_STAR", <<>>, <<High(body), Low(body), "\r", "\n">>)
  <2>1. Head(todo) = High(body) BY <1>6 DEF Digits
  <2> QED BY <1>3, <1>6, <2>1, HighStep, Zenon DEF Phase
<1>7. CASE Digits("AFTER_STAR", <<High(body)>>, <<Low(body), "\r", "\n">>)
  <2>1. Head(todo) = Low(body) BY <1>7 DEF Digits
  <2> QED BY <1>3, <1>7, <2>1, LowStep, Zenon DEF Phase
<1>8. CASE Digits("AFTER_CSUM", <<High(body), Low(body)>>, <<"\r", "\n">>)
  <2>1. Head(todo) = "\r" BY <1>8 DEF Digits
  <2> QED BY <1>3, <1>8, <2>1, ReturnStep, Zenon DEF Phase
<1>9. CASE Over
  <2>1. todo = <<"\n">> BY <1>9, Zenon DEF Over, Transmit
  <2>2. Head(todo) = "\n" BY <2>1
  <2> QED BY <1>3, <1>9, <2>1, <2>2, NewlineStep, Zenon DEF Phase
<1> QED BY <1>1, <1>4, <1>5, <1>6, <1>7, <1>8, <1>9, Zenon DEF Phase

\* Noise after a sentence that is over changes nothing.
LEMMA HissPhase ==
  ASSUME body \in Body, Phase, Hiss
  PROVE  Phase'
<1>1. body \in Body /\ Phase /\ todo = <<>> BY Zenon DEF Hiss
<1>2. Over BY <1>1, DoneIsOver
<1>3. PICK b \in Noise : Arrives(b) BY Zenon DEF Hiss
<1>4. b # "$" BY LineAssumption, Zenon DEF LineAssumption
<1>5. /\ state' = "WAIT_DOLLAR" /\ event' = NONE /\ snapshot' = snapshot
      /\ on_message' = on_message
  BY <1>2, <1>3, <1>4, IdleByte, Zenon DEF Arrives, Over
<1>6. ~inLine' /\ heard' = heard BY <1>2, <1>3, <1>4, <1>5, Zenon DEF Arrives, Over
<1>7. todo' = todo /\ body' = body BY Zenon DEF Hiss
<1>8. Over' BY <1>2, <1>5, <1>6, <1>7 DEF Over, Accepted
<1> QED BY <1>8, Zenon DEF Phase

\* An initialised parser is steady.
LEMMA RestartSteady ==
  ASSUME nmea_init
  PROVE  Steady'
<1>1. /\ on_message' \in BOOLEAN /\ snapshot' = [t \in Type |-> <<>>]
      /\ state' = "WAIT_DOLLAR"
  BY Zenon DEF nmea_init, reset_state
<1> QED BY <1>1 DEF Steady

\* Each step of the receiver, of the line and of the application keeps the phases.
LEMMA LineStep == LineInv /\ [LineNext]_<<vars, wire>> => LineInv'
<1> SUFFICES ASSUME LineInv, [LineNext]_<<vars, wire>> PROVE LineInv'
  OBVIOUS
<1>0. Steady /\ (body # <<>> => body \in Body) BY DEF LineInv
<1>1. ASSUME UNCHANGED <<parser, on_message, snapshot, inLine>> PROVE Steady'
  BY <1>0, <1>1, Zenon DEF Steady, parser
<1>2. ASSUME NEW bs \in Body, Begin(bs) PROVE LineInv'
  <2>1. Steady' BY <1>1, <1>2, Zenon DEF Begin
  <2>2. body' \in Body BY <1>2, Zenon DEF Begin
  <2>3. ASSUME Clean' PROVE Phase'
    <3>1. ~inLine BY <1>2, <2>3, Zenon DEF Begin, Clean
    <3>2. state' = "WAIT_DOLLAR" BY <1>0, <1>2, <3>1, Zenon DEF Begin, Steady, parser
    <3>3. Ahead' BY <1>2, <3>2, Zenon DEF Begin, Ahead
    <3> QED BY <3>3, Zenon DEF Phase
  <2> QED BY <2>1, <2>2, <2>3, Zenon DEF LineInv
<1>3. ASSUME Transmit PROVE LineInv'
  <2>1. Steady' BY <1>0, <1>3, ArrivesSteady, Zenon DEF Transmit
  <2>2. body' = body /\ (Clean' <=> Clean) BY <1>3, Zenon DEF Transmit, Clean
  <2> QED BY <1>0, <1>3, <2>1, <2>2, TransmitPhase, Zenon DEF LineInv, Clean
<1>4. ASSUME Hiss PROVE LineInv'
  <2>1. Steady' BY <1>0, <1>4, ArrivesSteady, Zenon DEF Hiss
  <2>2. body' = body /\ (Clean' <=> Clean) BY <1>4, Zenon DEF Hiss, Clean
  <2> QED BY <1>0, <1>4, <2>1, <2>2, HissPhase, Zenon DEF LineInv, Clean
<1>5. ASSUME Lose \/ Alter \/ Insert \/ Cut \/ Restart PROVE LineInv'
  <2>1. fault' = TRUE /\ body' = body
    BY <1>5, Zenon DEF Lose, Alter, Insert, Cut, Restart, Disturb
  <2>2. Steady'
    <3>1. CASE Lose \/ Cut BY <1>1, <3>1, Zenon DEF Lose, Cut
    <3>2. CASE Alter \/ Insert BY <1>0, <3>2, ArrivesSteady, Zenon DEF Alter, Insert
    <3>3. CASE Restart BY <3>3, RestartSteady, Zenon DEF Restart
    <3> QED BY <1>5, <3>1, <3>2, <3>3
  <2> QED BY <1>0, <2>1, <2>2, Zenon DEF LineInv, Clean
<1>6. ASSUME UNCHANGED <<vars, wire>> PROVE LineInv'
  <2>1. Steady' BY <1>1, <1>6, Zenon DEF vars, wire
  <2>2. /\ state' = state /\ line' = line /\ overflow' = overflow /\ computed_csum' = computed_csum
        /\ csum_buf' = csum_buf /\ on_message' = on_message /\ snapshot' = snapshot
        /\ body' = body /\ todo' = todo /\ fault' = fault /\ inLine' = inLine
        /\ merged' = merged /\ heard' = heard
    BY <1>6, Zenon DEF vars, parser, wire
  <2>3. (Clean' <=> Clean) /\ (Phase => Phase')
    BY <2>2 DEF Clean, Phase, Ahead, Inside, Digits, Over, Collected, Accepted
  <2> QED BY <1>0, <2>1, <2>2, <2>3, Zenon DEF LineInv
<1> QED BY <1>2, <1>3, <1>4, <1>5, <1>6, Zenon DEF LineNext

\* The parser starts at rest, before any sentence.
LEMMA LineStart == LineInit => LineInv
<1> SUFFICES ASSUME LineInit PROVE LineInv
  OBVIOUS
<1>1. /\ on_message \in BOOLEAN /\ snapshot = [t \in Type |-> <<>>]
      /\ state = "WAIT_DOLLAR" /\ body = <<>>
  BY Zenon DEF LineInit, Init
<1>2. Steady BY <1>1 DEF Steady
<1> QED BY <1>1, <1>2, Zenon DEF LineInv, Clean

\* An undisturbed sentence of any length and content that does not begin inside
\* an unterminated line is heard exactly once if its type is known and it fits,
\* and never otherwise, whatever went wrong before it (nmea.c:317-376).
THEOREM CleanTheorem == LineSpec => []CleanIsHeard
<1>1. LineInv => CleanIsHeard
  <2> SUFFICES ASSUME LineInv, todo = <<>>, Clean
               PROVE  /\ heard = IF Accepted(body) /\ on_message THEN 1 ELSE 0
                      /\ Accepted(body) => snapshot[TypeOf(body)] = body
    BY Zenon DEF CleanIsHeard, Clean
  <2>1. body \in Body /\ Phase BY Zenon DEF LineInv, Clean
  <2> QED BY <2>1, DoneIsOver, Zenon DEF Over
<1> QED BY <1>1, LineStart, LineStep, PTL DEF LineSpec
-----------------------------------------------------------------------------
(***************************************************************************)
(* A disturbed sentence.  Codes first: different bytes differ in a bit, an *)
(* exclusive or with a byte can be undone, and a part of a body has the    *)
(* checksum of its bytes.                                                  *)
(***************************************************************************)
\* A byte is the sum of its bits.
LEMMA SumOfBits ==
  ASSUME NEW n \in 0 .. 255
  PROVE  n = (n % 2) + 2 * ((n \div 2) % 2) + 4 * ((n \div 4) % 2) + 8 * ((n \div 8) % 2)
               + 16 * ((n \div 16) % 2) + 32 * ((n \div 32) % 2)
               + 64 * ((n \div 64) % 2) + 128 * ((n \div 128) % 2)
<1>1. /\ n = (n % 2) + 2 * (n \div 2) /\ n \div 2 = ((n \div 2) % 2) + 2 * (n \div 4)
      /\ n \div 4 = ((n \div 4) % 2) + 2 * (n \div 8) /\ n \div 8 = ((n \div 8) % 2) + 2 * (n \div 16)
  BY SMTT(40)
<1>2. /\ n \div 16 = ((n \div 16) % 2) + 2 * (n \div 32)
      /\ n \div 32 = ((n \div 32) % 2) + 2 * (n \div 64)
      /\ n \div 64 = ((n \div 64) % 2) + 2 * (n \div 128) /\ n \div 128 = (n \div 128) % 2
  BY SMTT(40)
<1> QED BY <1>1, <1>2, SMTT(40)

\* Different bytes differ in a bit.
LEMMA BitsTellBytes ==
  ASSUME NEW m \in 0 .. 255, NEW n \in 0 .. 255, BitsOf(m) = BitsOf(n)
  PROVE  m = n
<1> DEFINE bit(x, i) == (x \div BitValue[i + 1]) % 2
<1>1. \A i \in 0 .. 7 : bit(m, i) = 1 <=> bit(n, i) = 1 BY DEF BitsOf
<1>2. \A i \in 0 .. 7 : bit(m, i) \in {0, 1} /\ bit(n, i) \in {0, 1}
  BY DEF BitValue
<1>3. \A i \in 0 .. 7 : bit(m, i) = bit(n, i) BY <1>1, <1>2, Zenon
<1>4. /\ m % 2 = n % 2 /\ (m \div 2) % 2 = (n \div 2) % 2 /\ (m \div 4) % 2 = (n \div 4) % 2
      /\ (m \div 8) % 2 = (n \div 8) % 2 /\ (m \div 16) % 2 = (n \div 16) % 2
      /\ (m \div 32) % 2 = (n \div 32) % 2 /\ (m \div 64) % 2 = (n \div 64) % 2
      /\ (m \div 128) % 2 = (n \div 128) % 2
  <2>1. /\ bit(m, 0) = bit(n, 0) /\ bit(m, 1) = bit(n, 1) /\ bit(m, 2) = bit(n, 2)
        /\ bit(m, 3) = bit(n, 3) /\ bit(m, 4) = bit(n, 4) /\ bit(m, 5) = bit(n, 5)
        /\ bit(m, 6) = bit(n, 6) /\ bit(m, 7) = bit(n, 7)
    <3> HIDE DEF bit
    <3> QED BY <1>3
  <2> QED BY <2>1 DEF BitValue
<1>5. m = (m % 2) + 2 * ((m \div 2) % 2) + 4 * ((m \div 4) % 2) + 8 * ((m \div 8) % 2)
            + 16 * ((m \div 16) % 2) + 32 * ((m \div 32) % 2)
            + 64 * ((m \div 64) % 2) + 128 * ((m \div 128) % 2)
  BY SumOfBits
<1>6. n = (n % 2) + 2 * ((n \div 2) % 2) + 4 * ((n \div 4) % 2) + 8 * ((n \div 8) % 2)
            + 16 * ((n \div 16) % 2) + 32 * ((n \div 32) % 2)
            + 64 * ((n \div 64) % 2) + 128 * ((n \div 128) % 2)
  BY SumOfBits
<1> QED BY <1>4, <1>5, <1>6, Zenon

\* Only the byte of code 0 has no bit set.
LEMMA NoBits ==
  ASSUME NEW n \in 0 .. 255, n # 0
  PROVE  BitsOf(n) # {}
<1>1. BitsOf(0) = {}
  <2>1. \A i \in 0 .. 7 : (0 \div BitValue[i + 1]) % 2 = 0 BY DEF BitValue
  <2> QED BY <2>1 DEF BitsOf
<1>2. 0 \in 0 .. 255 OBVIOUS
<1> QED BY <1>1, <1>2, BitsTellBytes

\* Sets of bits that differ still differ after an exclusive or with the same set.
LEMMA XorTells ==
  ASSUME NEW s, NEW t, NEW b, Xor(s, b) = Xor(t, b)
  PROVE  s = t
  BY DEF Xor

\* Sets of bits are changed alike only by the same set.
LEMMA XorTellsBytes ==
  ASSUME NEW s, NEW b, NEW c, Xor(s, b) = Xor(s, c)
  PROVE  b = c
  BY DEF Xor

\* A bit that is set is changed.
LEMMA XorMoves ==
  ASSUME NEW s, NEW b, b # {}
  PROVE  Xor(s, b) # s
  BY DEF Xor

\* The first k bytes of a body have the checksum that the parser keeps of them.
LEMMA PartSumIsOdd ==
  ASSUME NEW bs, NEW S, bs \in Seq(S), NEW k \in 0 .. Len(bs)
  PROVE  PartSum(bs, k) = Odd(bs, k)
<1> DEFINE s == SubSeq(bs, 1, k)
<1>1. /\ s \in Seq(S) /\ Len(s) = k /\ \A i \in 1 .. k : s[i] = bs[i]
  OBVIOUS
<1> HIDE DEF s
<1>2. BitsOf(Checksum(s)) = Odd(s, k)
  <2>1. BitsOf(Checksum(s)) = Odd(s, Len(s)) BY <1>1, ChecksumBits, Zenon
  <2> QED BY <1>1, <2>1
<1>3. \A i : BitIn(s, k, i) = BitIn(bs, k, i) BY <1>1 DEF BitIn
<1>4. Odd(s, k) = Odd(bs, k) BY <1>3 DEF Odd
<1>5. PartSum(bs, k) = BitsOf(Checksum(s)) BY DEF PartSum, s
<1> QED BY <1>2, <1>4, <1>5
-----------------------------------------------------------------------------
(***************************************************************************)
(* Where the parser may be after a disturbance.  `Ready': the sentence is  *)
(* all to come.  `NoOpening': what is to come opens no line.               *)
(***************************************************************************)
Closing   == (Byte \cup {HexDigits[d] : d \in 1 .. 16} \cup {"*", "\r", "\n"}) \ {"$"}
NoOpening == todo \in Seq(Closing)
Ready     == todo = Sentence(body) /\ heard = 0
Rest(k)   == SubSeq(body, k + 1, Len(body)) \o End(body)

\* The checksum is not that of the first k bytes; it is, or noise made it of such.
Differs(k) == overflow \/ computed_csum # Odd(body, k)
Agrees(k)  == overflow \/ computed_csum = Odd(body, k)
Strayed    == overflow \/ computed_csum \in Stray

\* Outside a line; in the body with a wrong checksum; in the body, but its '*' is
\* gone; in the body of a sentence that was cut, or of noise.
Idle   == state = "WAIT_DOLLAR" /\ NoOpening
Off(k) == state = "IN_BODY" /\ csum_buf = <<>> /\ todo = Rest(k) /\ Differs(k)
Late   == /\ state = "IN_BODY" /\ csum_buf = <<>>
          /\ todo \in {<<High(body), Low(body), "\r", "\n">>, <<Low(body), "\r", "\n">>,
                       <<"\r", "\n">>, <<"\n">>}
Lost   == state = "IN_BODY" /\ csum_buf = <<>> /\ Strayed /\ (todo = <<>> \/ Ready)

\* After a '*': that of a body with a wrong checksum, one that is not the
\* sentence's, with p bytes of the body read, or one of noise.
OffStar == /\ state = "AFTER_STAR" /\ Differs(Len(body))
           /\ \/ csum_buf = <<>> /\ todo = <<High(body), Low(body), "\r", "\n">>
              \/ csum_buf = <<High(body)>> /\ todo = <<Low(body), "\r", "\n">>
FalseStar(k, p) == /\ p \in {k, k + 1} /\ state = "AFTER_STAR" /\ Agrees(k)
                   /\ \/ csum_buf = <<>> /\ todo = Rest(p)
                      \/ p < Len(body) /\ csum_buf = <<body[p + 1]>> /\ todo = Rest(p + 1)
LostStar == /\ state = "AFTER_STAR" /\ Strayed /\ (todo = <<>> \/ Ready)
            /\ csum_buf = <<>> \/ \E d \in Noise : csum_buf = <<d>>

\* What the digits will say, or said, does no harm.
Harmless == \/ state = "AFTER_CSUM" /\ (Verified => line \in pending)
            \/ /\ state = "AFTER_STAR"
               /\ overflow \/ line \in pending \/ \E d : csum_buf = <<d>> /\ ~IsHex(d)
Settled  == Harmless /\ (Ready \/ NoOpening)

Stars == \/ OffStar \/ LostStar
         \/ \E k \in 0 .. Len(body), p \in 0 .. Len(body) : FalseStar(k, p)
Dirty == Idle \/ (\E k \in 0 .. Len(body) : Off(k)) \/ Late \/ Lost \/ Stars \/ Settled
Known == Phase \/ Dirty

\* The body under way is pending; before the first, the parser is at rest.
Pending == IF body = <<>> THEN todo = <<>> /\ state = "WAIT_DOLLAR" ELSE body \in pending

ForgeInv == LineInv /\ Pending /\ Known /\ NoForgery

\* What is to come of a sentence, digits and line end included, opens no line.
LEMMA ClosingBytes ==
  ASSUME body \in Body
  PROVE  /\ \A k \in 1 .. Len(body) : body[k] \in Closing
         /\ High(body) \in Closing /\ Low(body) \in Closing
         /\ "*" \in Closing /\ "\r" \in Closing /\ "\n" \in Closing
<1>1. ASSUME NEW k \in 1 .. Len(body) PROVE body[k] \in Closing
  <2>1. body \in Seq(Byte) BY BodyBytes
  <2>2. body[k] \in Byte BY <2>1, ElementOfSeq
  <2>3. k \in DOMAIN body BY <2>1
  <2>4. body[k] # "$" BY <2>3, AccidentAssumption, Zenon DEF AccidentAssumption
  <2> QED BY <2>2, <2>4, Zenon DEF Closing
<1>2. \A d \in 1 .. 16 : HexDigits[d] # "$"
  BY DEF HexDigits
<1>3. Checksum(body) \in 0 .. 255 BY BodyBytes, ChecksumBits
<1>4. (Checksum(body) \div 16) + 1 \in 1 .. 16 /\ (Checksum(body) % 16) + 1 \in 1 .. 16 BY <1>3
<1>5. High(body) \in Closing /\ Low(body) \in Closing
  BY <1>2, <1>4, Zenon DEF High, Low, Closing
<1> QED BY <1>1, <1>5, Zenon DEF Closing

\* The bytes of a sentence after its '$', or part of them, open no line.
LEMMA RestCloses ==
  ASSUME body \in Body
  PROVE  /\ \A k \in 0 .. Len(body) : Rest(k) \in Seq(Closing)
         /\ <<High(body), Low(body), "\r", "\n">> \in Seq(Closing)
         /\ <<Low(body), "\r", "\n">> \in Seq(Closing)
         /\ <<"\r", "\n">> \in Seq(Closing) /\ <<"\n">> \in Seq(Closing) /\ <<>> \in Seq(Closing)
<1>1. /\ High(body) \in Closing /\ Low(body) \in Closing
      /\ "*" \in Closing /\ "\r" \in Closing /\ "\n" \in Closing
  BY ClosingBytes
<1> DEFINE cr == "\r"
           lf == "\n"
           star == "*"
<1>2. High(body) \in Closing /\ Low(body) \in Closing /\ star \in Closing /\ cr \in Closing /\ lf \in Closing
  BY <1>1
<1> HIDE DEF cr, lf, star
<1>3. /\ <<star, High(body), Low(body), cr, lf>> \in Seq(Closing)
      /\ <<High(body), Low(body), cr, lf>> \in Seq(Closing)
      /\ <<Low(body), cr, lf>> \in Seq(Closing)
      /\ <<cr, lf>> \in Seq(Closing) /\ <<lf>> \in Seq(Closing) /\ <<>> \in Seq(Closing)
  BY <1>2
<1>4. End(body) \in Seq(Closing) BY <1>3 DEF End, cr, lf, star
<1>5. ASSUME NEW k \in 0 .. Len(body) PROVE Rest(k) \in Seq(Closing)
  <2>1. body \in Seq(Byte) /\ Len(body) \in Nat BY BodyBytes
  <2>2. body \in Seq(Closing)
    <3>1. DOMAIN body = 1 .. Len(body) /\ body = [i \in 1 .. Len(body) |-> body[i]] BY <2>1
    <3>2. \A i \in 1 .. Len(body) : body[i] \in Closing BY ClosingBytes
    <3> QED BY <2>1, <3>1, <3>2
  <2>3. SubSeq(body, k + 1, Len(body)) \in Seq(Closing) BY <2>1, <2>2
  <2> QED BY <1>4, <2>3, ConcatProperties DEF Rest
<1> QED BY <1>3, <1>5 DEF cr, lf, star

\* A line opens with the '$' that is the first byte of a sentence.
LEMMA ReadyParts ==
  ASSUME body \in Body, Ready
  PROVE  todo # <<>> /\ Head(todo) = "$" /\ Tail(todo) = Rest(0) /\ Tail(todo) \in Seq(Closing)
<1>1. todo # <<>> /\ Head(todo) = "$" /\ Tail(todo) = SubSeq(body, 1, Len(body)) \o End(body)
  BY BodyBytes, SentenceParts, Zenon DEF Ready
<1>2. 0 \in 0 .. Len(body) /\ 0 + 1 = 1 BY BodyBytes
<1>3. Tail(todo) = Rest(0) BY <1>1, <1>2 DEF Rest
<1> QED BY <1>1, <1>2, <1>3, RestCloses

\* What is to come after k bytes of a body.
LEMMA RestParts ==
  ASSUME body \in Body, NEW k \in 0 .. Len(body)
  PROVE  /\ Rest(k) # <<>>
         /\ k < Len(body) => /\ k + 1 \in 0 .. Len(body) /\ k + 1 \in 1 .. Len(body)
                             /\ Head(Rest(k)) = body[k + 1] /\ Tail(Rest(k)) = Rest(k + 1)
         /\ ~(k < Len(body)) => /\ k = Len(body) /\ Head(Rest(k)) = "*"
                                /\ Tail(Rest(k)) = <<High(body), Low(body), "\r", "\n">>
<1>1. body \in Seq(Byte) /\ Len(body) \in Nat BY BodyBytes
<1>2. /\ k < Len(body) => k + 1 \in 0 .. Len(body) /\ k + 1 \in 1 .. Len(body)
      /\ ~(k < Len(body)) => k = Len(body)
      /\ (k + 1) + 1 = k + 2
  BY <1>1
<1> DEFINE s == SubSeq(body, k + 1, Len(body)) \o End(body)
           t == SubSeq(body, k + 2, Len(body)) \o End(body)
<1>3. IF k < Len(body) THEN s # <<>> /\ Head(s) = body[k + 1] /\ Tail(s) = t
      ELSE s # <<>> /\ Head(s) = "*" /\ Tail(s) = <<High(body), Low(body), "\r", "\n">>
  BY <1>1, BodyParts
<1>4. Rest(k) = s /\ Rest(k + 1) = t BY <1>2 DEF Rest
<1> HIDE DEF s, t
<1> QED BY <1>2, <1>3, <1>4, Zenon
-----------------------------------------------------------------------------
(***************************************************************************)
(* What a byte does to a parser that is not where the sentence is.         *)
(***************************************************************************)
\* A line end brings it to rest, and what follows opens no line.
LEMMA EndIdles ==
  ASSUME NEW b \in EndOfLine, nmea_feed_byte(b), todo' \in Seq(Closing)
  PROVE  Idle'
  BY EndBringsToRest, Zenon DEF Idle, NoOpening

\* At rest, every byte but a '$' is ignored.
LEMMA IdleStays ==
  ASSUME NEW b, b # "$", nmea_feed_byte(b), state = "WAIT_DOLLAR", todo' \in Seq(Closing)
  PROVE  Idle'
  BY IdleByte, Zenon DEF Idle, NoOpening

\* In a body a byte enters the checksum, if it fits.
LEMMA BodyByte ==
  ASSUME NEW b, nmea_feed_byte(b), state = "IN_BODY", b \notin EndOfLine, b # "*"
  PROVE  /\ state' = "IN_BODY" /\ csum_buf' = csum_buf
         /\ \/ overflow'
            \/ overflow' = overflow /\ computed_csum' = Xor(computed_csum, BitsOf(Ascii[b]))
<1>1. FeedBody(b) BY ByState, Zenon
<1> QED BY <1>1, Zenon DEF FeedBody

\* A '*' ends the body, wherever it comes from.
LEMMA BodyStar ==
  ASSUME nmea_feed_byte("*"), state = "IN_BODY"
  PROVE  /\ state' = "AFTER_STAR" /\ line' = line /\ overflow' = overflow
         /\ computed_csum' = computed_csum /\ csum_buf' = csum_buf
<1>1. FeedBody("*") /\ "*" \notin EndOfLine BY ByState, Zenon DEF EndOfLine
<1> QED BY <1>1, Zenon DEF FeedBody

\* A byte after the '*' is taken for a digit.
LEMMA StarByte ==
  ASSUME NEW b, nmea_feed_byte(b), state = "AFTER_STAR", b \notin EndOfLine
  PROVE  /\ line' = line /\ overflow' = overflow /\ computed_csum' = computed_csum
         /\ csum_buf' = Append(csum_buf, b) /\ state' \in {"AFTER_STAR", "AFTER_CSUM"}
         /\ state' = IF BothDigits(csum_buf') THEN "AFTER_CSUM" ELSE "AFTER_STAR"
<1>1. FeedAfterStar(b) BY ByState, Zenon
<1> QED BY <1>1, Zenon DEF FeedAfterStar

\* The first one leaves the parser waiting for another; that completes the checksum.
LEMMA FirstDigit ==
  ASSUME NEW b, nmea_feed_byte(b), state = "AFTER_STAR", b \notin EndOfLine, csum_buf = <<>>
  PROVE  csum_buf' = <<b>> /\ state' = "AFTER_STAR"
<1>1. csum_buf' = <<b>> BY StarByte
<1>2. Len(<<b>>) # 2 OBVIOUS
<1> QED BY <1>1, <1>2, StarByte, Zenon DEF BothDigits

LEMMA SecondDigit ==
  ASSUME NEW b, NEW d, nmea_feed_byte(b), state = "AFTER_STAR", b \notin EndOfLine, csum_buf = <<d>>
  PROVE  csum_buf' = <<d, b>> /\ state' = "AFTER_CSUM"
<1>1. csum_buf' = <<d, b>> BY StarByte, AppendToOne, Zenon
<1>2. Len(<<d, b>>) = 2 OBVIOUS
<1> QED BY <1>1, <1>2, StarByte, Zenon DEF BothDigits

\* Two bytes that do not spell the checksum: the parser is settled.
LEMMA BadDigits ==
  ASSUME NEW b, NEW d, nmea_feed_byte(b), state = "AFTER_STAR", b \notin EndOfLine, csum_buf = <<d>>,
         overflow \/ ~Spells(d, b, computed_csum), todo' \in Seq(Closing) \/ Ready'
  PROVE  Settled'
<1>1. csum_buf' = <<d, b>> /\ state' = "AFTER_CSUM" BY SecondDigit, Zenon
<1>2. overflow' \/ ~Spells(d, b, computed_csum') BY StarByte, Zenon
<1>3. csum_buf'[1] = d /\ csum_buf'[2] = b BY <1>1
<1>4. ~Verified' BY <1>2, <1>3, Zenon DEF Verified, Spells
<1> QED BY <1>1, <1>4, Zenon DEF Settled, Harmless, NoOpening

\* A byte that is no digit settles it at once.
LEMMA BadDigit ==
  ASSUME NEW b, ~IsHex(b), nmea_feed_byte(b), state = "AFTER_STAR", b \notin EndOfLine,
         csum_buf = <<>> \/ \E d : csum_buf = <<d>>, todo' \in Seq(Closing) \/ Ready'
  PROVE  Settled'
<1>1. CASE csum_buf = <<>>
  <2>1. csum_buf' = <<b>> /\ state' = "AFTER_STAR" BY <1>1, FirstDigit, Zenon
  <2> QED BY <2>1, Zenon DEF Settled, Harmless, NoOpening
<1>2. ASSUME NEW d, csum_buf = <<d>> PROVE Settled'
  <2>1. ~Spells(d, b, computed_csum) BY Zenon DEF Spells
  <2> QED BY <1>2, <2>1, BadDigits, Zenon
<1> QED BY <1>1, <1>2, Zenon

\* Settled, it stays so up to the line end.
LEMMA HarmlessStays ==
  ASSUME NEW b, nmea_feed_byte(b), Harmless, pending' = pending, b \notin EndOfLine
  PROVE  Harmless'
<1>1. CASE state = "AFTER_CSUM"
  <2>1. FeedAfterCsum(b) BY <1>1, ByState, Zenon
  <2>2. /\ state' = state /\ line' = line /\ overflow' = overflow
        /\ computed_csum' = computed_csum /\ csum_buf' = csum_buf
    BY <2>1, Zenon DEF FeedAfterCsum, parser
  <2>3. Verified' <=> Verified BY <2>2, Zenon DEF Verified
  <2> QED BY <1>1, <2>2, <2>3, Zenon DEF Harmless
<1>2. CASE state = "AFTER_STAR"
  <2>1. state' \in {"AFTER_STAR", "AFTER_CSUM"} /\ line' = line /\ overflow' = overflow
    BY <1>2, StarByte, Zenon
  <2>2. CASE overflow \/ line \in pending
    BY <2>1, <2>2, Zenon DEF Harmless, Verified
  <2>3. ASSUME NEW d, csum_buf = <<d>>, ~IsHex(d) PROVE Harmless'
    <3>1. csum_buf' = <<d, b>> /\ state' = "AFTER_CSUM" BY <1>2, <2>3, SecondDigit, Zenon
    <3>2. csum_buf'[1] = d BY <3>1
    <3> QED BY <2>3, <3>1, <3>2, Zenon DEF Harmless, Verified
  <2> QED BY <1>2, <2>2, <2>3, Zenon DEF Harmless
<1> QED BY <1>1, <1>2, Zenon DEF Harmless

LEMMA SettledStays ==
  ASSUME NEW b, nmea_feed_byte(b), Harmless, pending' = pending, todo' \in Seq(Closing)
  PROVE  Settled' \/ Idle'
  BY EndIdles, HarmlessStays, Zenon DEF Settled, NoOpening

\* A callback hears the line, with the type that it has, and only if it is verified.
LEMMA HeardIsLine ==
  ASSUME NEW b, nmea_feed_byte(b), event' # NONE
  PROVE  /\ state = "AFTER_CSUM" /\ Verified
         /\ event' = [type |-> TypeOf(line), body |-> line]
<1>1. ~FeedWaitDollar(b) /\ ~FeedBody(b) /\ ~FeedAfterStar(b)
  BY Zenon DEF FeedWaitDollar, FeedBody, FeedAfterStar, Silent
<1>2. FeedAfterCsum(b) BY <1>1, Zenon DEF nmea_feed_byte
<1>3. state = "AFTER_CSUM" /\ Verified /\ dispatch_line BY <1>2, Zenon DEF FeedAfterCsum, Silent
<1> QED BY <1>3, Zenon DEF dispatch_line

\* A line is verified only if it is pending.
LEMMA VerifiedIsPending ==
  ASSUME body # <<>> => body \in Body, Pending, Known, state = "AFTER_CSUM", Verified
  PROVE  line \in pending
<1>1. CASE Phase
  <2>1. Digits("AFTER_CSUM", <<High(body), Low(body)>>, <<"\r", "\n">>)
    BY <1>1, Zenon DEF Phase, Ahead, Inside, Digits, Over
  <2>2. todo # <<>> BY <2>1 DEF Digits
  <2>3. body # <<>> BY <2>2, Zenon DEF Pending
  <2> QED BY <2>1, <2>3, VerifiedIfItFits, Zenon DEF Pending
<1>2. CASE Dirty
  <2>1. Harmless
    BY <1>2, Zenon DEF Dirty, Idle, Off, Late, Lost, Stars, OffStar, LostStar, FalseStar, Settled
  <2> QED BY <2>1, Zenon DEF Harmless
<1> QED BY <1>1, <1>2, Zenon DEF Known

\* So nothing else is heard.
LEMMA HeardIsPending ==
  ASSUME NEW b, nmea_feed_byte(b), pending' = pending,
         body # <<>> => body \in Body, Pending, Known
  PROVE  NoForgery'
<1>1. ASSUME event' # NONE PROVE event'.body \in pending /\ event'.type = TypeOf(event'.body)
  <2>1. /\ state = "AFTER_CSUM" /\ Verified
        /\ event' = [type |-> TypeOf(line), body |-> line]
    BY <1>1, HeardIsLine
  <2>2. line \in pending BY <2>1, VerifiedIsPending, Zenon
  <2>3. event'.type = TypeOf(line) /\ event'.body = line BY <2>1
  <2> QED BY <2>2, <2>3, Zenon
<1>2. ASSUME NEW s PROVE TypeOf(s)' = TypeOf(s) BY Zenon DEF TypeOf
<1> QED BY <1>1, <1>2, Zenon DEF NoForgery
-----------------------------------------------------------------------------
(***************************************************************************)
(* The rest of a disturbed sentence, and one merged with it, byte by byte. *)
(***************************************************************************)
Passed(b) == /\ todo # <<>> /\ b = Head(todo) /\ todo' = Tail(todo) /\ nmea_feed_byte(b)
             /\ body \in Body /\ body' = body /\ pending' = pending

\* The digits of a sentence spell the checksum of its body and no other.
LEMMA SentDigits ==
  ASSUME body \in Body
  PROVE  /\ High(body) \notin EndOfLine /\ Low(body) \notin EndOfLine
         /\ High(body) # "*" /\ Low(body) # "*"
         /\ \A sum : Spells(High(body), Low(body), sum) => sum = Odd(body, Len(body))
<1> DEFINE c == Checksum(body)
<1>1. c \in 0 .. 255 /\ BitsOf(c) = Odd(body, Len(body)) BY BodyBytes, ChecksumBits
<1> HIDE DEF c
<1>2. c \div 16 \in 0 .. 15 /\ c % 16 \in 0 .. 15 /\ 16 * (c \div 16) + (c % 16) = c
  BY <1>1, TwoDigits, Zenon
<1>3. High(body) = HexDigits[(c \div 16) + 1] /\ Low(body) = HexDigits[(c % 16) + 1]
  BY DEF High, Low, c
<1>4. /\ hex_nibble(High(body)) = c \div 16 /\ hex_nibble(Low(body)) = c % 16
      /\ High(body) \notin EndOfLine /\ Low(body) \notin EndOfLine
  BY <1>2, <1>3, DigitRead, Zenon
<1>5. \A sum : Spells(High(body), Low(body), sum) => sum = Odd(body, Len(body))
  BY <1>1, <1>2, <1>4, Zenon DEF Spells
<1>6. ~IsHex("*") BY DEF IsHex, HexDigits, LowerHex
<1>7. IsHex(High(body)) /\ IsHex(Low(body)) BY <1>2, <1>3, DigitRead, Zenon
<1> QED BY <1>4, <1>5, <1>6, <1>7

\* Neither a '*' nor a '$' is a digit, or ends a line.
LEMMA NoDigits ==
  ~IsHex("*") /\ ~IsHex("$") /\ "*" \notin EndOfLine /\ "$" \notin EndOfLine
  BY DEF IsHex, HexDigits, LowerHex, EndOfLine

\* A wrong checksum stays wrong to the '*', and then the digits are not its digits.
LEMMA OffStep ==
  ASSUME NEW b, Passed(b), NEW k \in 0 .. Len(body), Off(k)
  PROVE  Dirty'
<1>1. /\ body \in Body /\ body' = body /\ nmea_feed_byte(b) /\ state = "IN_BODY" /\ csum_buf = <<>>
      /\ b = Head(Rest(k)) /\ todo' = Tail(Rest(k)) /\ Differs(k)
  BY Zenon DEF Passed, Off
<1>2. CASE k < Len(body)
  <2>1. /\ k + 1 \in 0 .. Len(body) /\ k + 1 \in 1 .. Len(body)
        /\ b = body[k + 1] /\ todo' = Rest(k + 1)
    BY <1>1, <1>2, RestParts, Zenon
  <2>2. b \notin EndOfLine /\ b # "*" BY <1>1, <2>1, BodyBytes, Zenon
  <2>3. /\ state' = "IN_BODY" /\ csum_buf' = csum_buf
        /\ \/ overflow'
           \/ overflow' = overflow /\ computed_csum' = Xor(computed_csum, BitsOf(Ascii[b]))
    BY <1>1, <2>2, BodyByte
  <2>4. Odd(body, k + 1) = Xor(Odd(body, k), BitsOf(Ascii[b])) BY <1>1, <2>1, OddStep
  <2>5. overflow' \/ computed_csum' # Odd(body, k + 1) BY <1>1, <2>3, <2>4, XorTells, Zenon DEF Differs
  <2>6. Off(k + 1)' BY <1>1, <2>1, <2>3, <2>5, Zenon DEF Off, Rest, Differs
  <2> QED BY <1>1, <2>1, <2>6, Zenon DEF Dirty
<1>3. CASE ~(k < Len(body))
  <2>1. k = Len(body) /\ b = "*" /\ todo' = <<High(body), Low(body), "\r", "\n">>
    BY <1>1, <1>3, RestParts, Zenon
  <2>2. OffStar' BY <1>1, <2>1, BodyStar, Zenon DEF OffStar, Differs
  <2> QED BY <2>2, Zenon DEF Dirty, Stars
<1> QED BY <1>2, <1>3

LEMMA OffStarStep ==
  ASSUME NEW b, Passed(b), OffStar
  PROVE  Dirty'
<1>1. /\ body \in Body /\ body' = body /\ nmea_feed_byte(b) /\ state = "AFTER_STAR"
      /\ Differs(Len(body)) /\ b = Head(todo) /\ todo' = Tail(todo)
  BY Zenon DEF Passed, OffStar
<1>2. CASE csum_buf = <<>> /\ todo = <<High(body), Low(body), "\r", "\n">>
  <2>1. b = High(body) /\ todo' = <<Low(body), "\r", "\n">> BY <1>1, <1>2
  <2>2. b \notin EndOfLine BY <1>1, <2>1, SentDigits, Zenon
  <2>3. csum_buf' = <<b>> /\ state' = "AFTER_STAR" BY <1>1, <1>2, <2>2, FirstDigit, Zenon
  <2>4. overflow' = overflow /\ computed_csum' = computed_csum BY <1>1, <2>2, StarByte, Zenon
  <2>5. OffStar' BY <1>1, <2>1, <2>3, <2>4, Zenon DEF OffStar, Differs
  <2> QED BY <2>5, Zenon DEF Dirty, Stars
<1>3. CASE csum_buf = <<High(body)>> /\ todo = <<Low(body), "\r", "\n">>
  <2>1. b = Low(body) /\ todo' = <<"\r", "\n">> BY <1>1, <1>3
  <2>2. b \notin EndOfLine /\ todo' \in Seq(Closing) BY <1>1, <2>1, SentDigits, RestCloses, Zenon
  <2>3. overflow \/ ~Spells(High(body), b, computed_csum)
    BY <1>1, <2>1, SentDigits, Zenon DEF Differs
  <2>4. Settled' BY <1>1, <1>3, <2>2, <2>3, BadDigits, Zenon
  <2> QED BY <2>4, Zenon DEF Dirty
<1> QED BY <1>2, <1>3, Zenon DEF OffStar

\* Without its '*' a sentence stays in the body up to the line end.
LEMMA LateStep ==
  ASSUME NEW b, Passed(b), Late
  PROVE  Dirty'
<1>1. /\ body \in Body /\ body' = body /\ nmea_feed_byte(b) /\ state = "IN_BODY" /\ csum_buf = <<>>
      /\ b = Head(todo) /\ todo' = Tail(todo)
  BY Zenon DEF Passed, Late
<1>2. ASSUME b \notin EndOfLine, b # "*",
             todo' \in {<<Low(body), "\r", "\n">>, <<"\r", "\n">>}
      PROVE  Dirty'
  <2>1. state' = "IN_BODY" /\ csum_buf' = csum_buf BY <1>1, <1>2, BodyByte
  <2>2. Late' BY <1>1, <1>2, <2>1, Zenon DEF Late
  <2> QED BY <2>2, Zenon DEF Dirty
<1>3. ASSUME b \in EndOfLine, todo' \in {<<"\n">>, <<>>} PROVE Dirty'
  <2>1. todo' \in Seq(Closing) BY <1>1, <1>3, RestCloses
  <2> QED BY <1>1, <1>3, <2>1, EndIdles, Zenon DEF Dirty
<1>4. CASE todo = <<High(body), Low(body), "\r", "\n">>
  <2>1. b = High(body) /\ todo' = <<Low(body), "\r", "\n">> BY <1>1, <1>4
  <2> QED BY <1>1, <1>2, <2>1, SentDigits, Zenon
<1>5. CASE todo = <<Low(body), "\r", "\n">>
  <2>1. b = Low(body) /\ todo' = <<"\r", "\n">> BY <1>1, <1>5
  <2> QED BY <1>1, <1>2, <2>1, SentDigits, Zenon
<1>6. CASE todo = <<"\r", "\n">>
  <2>1. b = "\r" /\ todo' = <<"\n">> BY <1>1, <1>6
  <2> QED BY <1>3, <2>1, Zenon DEF EndOfLine
<1>7. CASE todo = <<"\n">>
  <2>1. b = "\n" /\ todo' = <<>> BY <1>1, <1>7
  <2> QED BY <1>3, <2>1, Zenon DEF EndOfLine
<1> QED BY <1>4, <1>5, <1>6, <1>7, Zenon DEF Late

\* The two bytes after a '*' that is not the sentence's do not spell the checksum.
LEMMA FalseStarStep ==
  ASSUME NEW b, Passed(b), NEW k \in 0 .. Len(body), NEW p \in 0 .. Len(body), FalseStar(k, p)
  PROVE  Dirty'
<1>1. /\ body \in Body /\ body' = body /\ nmea_feed_byte(b) /\ state = "AFTER_STAR"
      /\ Agrees(k) /\ b = Head(todo) /\ todo' = Tail(todo) /\ p \in {k, k + 1}
  BY Zenon DEF Passed, FalseStar
<1>2. ASSUME csum_buf = <<>>, todo = Rest(p) PROVE Dirty'
  <2>1. CASE p < Len(body)
    <3>1. /\ p + 1 \in 0 .. Len(body) /\ p + 1 \in 1 .. Len(body)
          /\ b = body[p + 1] /\ todo' = Rest(p + 1)
      BY <1>1, <1>2, <2>1, RestParts, Zenon
    <3>2. b \notin EndOfLine BY <1>1, <3>1, BodyBytes, Zenon
    <3>3. csum_buf' = <<b>> /\ state' = "AFTER_STAR" BY <1>1, <1>2, <3>2, FirstDigit, Zenon
    <3>4. overflow' = overflow /\ computed_csum' = computed_csum BY <1>1, <3>2, StarByte, Zenon
    <3>5. FalseStar(k, p)'
      BY <1>1, <2>1, <3>1, <3>3, <3>4, Zenon DEF FalseStar, Agrees, Rest
    <3> QED BY <1>1, <3>5, Zenon DEF Dirty, Stars
  <2>2. CASE ~(p < Len(body))
    <3>1. b = "*" /\ todo' = <<High(body), Low(body), "\r", "\n">>
      BY <1>1, <1>2, <2>2, RestParts, Zenon
    <3>2. todo' \in Seq(Closing) BY <1>1, <3>1, RestCloses, Zenon
    <3>3. Settled' BY <1>1, <1>2, <3>1, <3>2, NoDigits, BadDigit, Zenon
    <3> QED BY <3>3, Zenon DEF Dirty
  <2> QED BY <2>1, <2>2
<1>3. ASSUME p < Len(body), csum_buf = <<body[p + 1]>>, todo = Rest(p + 1) PROVE Dirty'
  <2>0. p + 1 \in 0 .. Len(body) BY <1>1, <1>3, RestParts, Zenon
  <2>1. /\ b \notin EndOfLine /\ todo' \in Seq(Closing)
        /\ overflow \/ ~Spells(body[p + 1], b, computed_csum)
    <3>1. CASE p + 1 < Len(body)
      <4>1. /\ (p + 1) + 1 \in 0 .. Len(body) /\ (p + 1) + 1 \in 1 .. Len(body)
            /\ b = body[(p + 1) + 1] /\ todo' = Rest((p + 1) + 1)
        BY <1>1, <1>3, <2>0, <3>1, RestParts, Zenon
      <4>2. b \notin EndOfLine /\ todo' \in Seq(Closing)
        BY <1>1, <4>1, BodyBytes, RestCloses, Zenon
      <4>3. p + 1 \in 1 .. Len(body) - 1 /\ p + 1 \in {k + 1, k + 2}
        BY <1>1, <3>1, BodyBytes
      <4>4. ~Spells(body[p + 1], body[(p + 1) + 1], PartSum(body, k))
        BY <1>1, <4>3, AccidentAssumption, Zenon DEF AccidentAssumption
      <4>5. PartSum(body, k) = Odd(body, k) BY <1>1, BodyBytes, PartSumIsOdd
      <4> QED BY <1>1, <4>1, <4>2, <4>4, <4>5, Zenon DEF Agrees
    <3>2. CASE ~(p + 1 < Len(body))
      <4>1. b = "*" /\ todo' = <<High(body), Low(body), "\r", "\n">>
        BY <1>1, <1>3, <2>0, <3>2, RestParts, Zenon
      <4> QED BY <1>1, <4>1, NoDigits, RestCloses, Zenon DEF Spells
    <3> QED BY <3>1, <3>2
  <2>2. Settled' BY <1>1, <1>3, <2>1, BadDigits, Zenon
  <2> QED BY <2>2, Zenon DEF Dirty
<1> QED BY <1>2, <1>3, Zenon DEF FalseStar

\* What noise, or a part of a sentence, left does not pass for the next sentence.
LEMMA LostStep ==
  ASSUME NEW b, Passed(b), Lost
  PROVE  Dirty'
<1>1. /\ body \in Body /\ body' = body /\ nmea_feed_byte(b) /\ state = "IN_BODY" /\ csum_buf = <<>>
      /\ Ready /\ Strayed /\ b = Head(todo) /\ todo' = Tail(todo)
  BY Zenon DEF Passed, Lost
<1>2. b = "$" /\ todo' = Rest(0) BY <1>1, ReadyParts, Zenon
<1>3. b \notin EndOfLine /\ b # "*" BY <1>2, NoDigits, Zenon
<1>4. /\ state' = "IN_BODY" /\ csum_buf' = csum_buf
      /\ \/ overflow'
         \/ overflow' = overflow /\ computed_csum' = Xor(computed_csum, BitsOf(Ascii[b]))
  BY <1>1, <1>3, BodyByte
<1>5. overflow' \/ computed_csum' # Odd(body, 0)
  <2>1. CASE overflow BY <1>4, <2>1
  <2>2. CASE computed_csum \in Stray
    <3>1. computed_csum # BitsOf(Ascii[b])
      <4>1. \A s \in Stray : s # BitsOf(Ascii["$"])
        BY AccidentAssumption, Zenon DEF AccidentAssumption
      <4> QED BY <1>2, <2>2, <4>1
    <3>2. Odd(body, 0) = {} BY OddOfNone
    <3>3. Xor(computed_csum, BitsOf(Ascii[b])) # {} BY <3>1 DEF Xor
    <3> QED BY <1>4, <3>2, <3>3
  <2> QED BY <1>1, <2>1, <2>2, Zenon DEF Strayed
<1>6. Off(0)' BY <1>1, <1>2, <1>4, <1>5, Zenon DEF Off, Rest, Differs
<1>7. 0 \in 0 .. Len(body') BY <1>1, BodyBytes
<1> QED BY <1>6, <1>7, Zenon DEF Dirty

LEMMA LostStarStep ==
  ASSUME NEW b, Passed(b), LostStar
  PROVE  Dirty'
<1>1. b = "$" /\ todo' \in Seq(Closing) BY ReadyParts, Zenon DEF Passed, LostStar
<1>2. Settled' BY <1>1, NoDigits, BadDigit, Zenon DEF Passed, LostStar
<1> QED BY <1>2, Zenon DEF Dirty
-----------------------------------------------------------------------------
(***************************************************************************)
(* One disturbance, at each phase of a sentence.                           *)
(***************************************************************************)
Garbled(b) == b \in Garble /\ Arrives(b) /\ (todo' = todo \/ (todo' = Tail(todo) /\ b # Head(todo)))
Dropped    == /\ UNCHANGED <<parser, heard>> /\ (todo' = Tail(todo) \/ todo' = <<>>)
Disturbed  == /\ body \in Body /\ body \in pending /\ body' = body /\ pending' = pending /\ todo # <<>>
              /\ Dropped \/ \E b : Garbled(b)

\* A parser at rest is opened by a '$' only.
LEMMA OpenedByDollar ==
  ASSUME NEW b, Arrives(b), state = "WAIT_DOLLAR"
  PROVE  /\ heard' = heard
         /\ b = "$" => /\ state' = "IN_BODY" /\ csum_buf' = <<>> /\ computed_csum' = {}
         /\ b # "$" => state' = "WAIT_DOLLAR"
<1>1. FeedWaitDollar(b) BY ByState, Zenon DEF Arrives
<1>2. event' = NONE BY <1>1, Zenon DEF FeedWaitDollar, Silent
<1>3. heard' = heard BY <1>2, Zenon DEF Arrives
<1> QED BY <1>1, <1>3, Zenon DEF FeedWaitDollar, parser

\* An empty line has the checksum of the first 0 bytes of a body.
LEMMA NoneStrays ==
  ASSUME body \in Body
  PROVE  {} \in Stray
<1>1. 0 \in 0 .. Len(body) BY BodyBytes
<1>2. PartSum(body, 0) \in Stray BY <1>1, AccidentAssumption, Zenon DEF AccidentAssumption
<1>3. PartSum(body, 0) = {} BY <1>1, BodyBytes, PartSumIsOdd, OddOfNone
<1> QED BY <1>2, <1>3

LEMMA AheadDisturbed ==
  ASSUME Disturbed, Ahead
  PROVE  Known'
<1>1. /\ body \in Body /\ body' = body /\ Ready /\ state = "WAIT_DOLLAR"
      /\ <<>> \in Seq(Closing)
  BY RestCloses, Zenon DEF Disturbed, Ahead, Ready
<1>2. Head(todo) = "$" /\ Tail(todo) \in Seq(Closing) BY <1>1, ReadyParts, Zenon
<1>3. CASE Dropped
  <2>1. state' = "WAIT_DOLLAR" /\ todo' \in Seq(Closing) BY <1>1, <1>2, <1>3, Zenon DEF Dropped, parser
  <2> QED BY <2>1, Zenon DEF Known, Dirty, Idle, NoOpening
<1>4. ASSUME NEW b, Garbled(b) PROVE Known'
  <2>0. Arrives(b) BY <1>4, Zenon DEF Garbled
  <2>1. CASE b = "$"
    <3>1. todo' = todo /\ heard' = heard /\ state' = "IN_BODY" /\ csum_buf' = <<>> /\ computed_csum' = {}
      BY <1>1, <1>2, <1>4, <2>0, <2>1, OpenedByDollar, Zenon DEF Garbled
    <3>2. Ready' BY <1>1, <3>1, Zenon DEF Ready
    <3>3. Strayed' BY <1>1, <3>1, NoneStrays, Zenon DEF Strayed
    <3> QED BY <3>1, <3>2, <3>3, Zenon DEF Known, Dirty, Lost
  <2>2. CASE b # "$"
    <3>1. state' = "WAIT_DOLLAR" /\ heard' = heard BY <1>1, <2>0, <2>2, OpenedByDollar
    <3>2. CASE todo' = todo BY <1>1, <3>1, <3>2, Zenon DEF Known, Phase, Ahead, Ready
    <3>3. CASE todo' = Tail(todo) BY <1>2, <3>1, <3>3, Zenon DEF Known, Dirty, Idle, NoOpening
    <3> QED BY <1>4, <3>2, <3>3, Zenon DEF Garbled
  <2> QED BY <2>1, <2>2
<1> QED BY <1>3, <1>4, Zenon DEF Disturbed

\* Inside a body the checksum is that of the bytes so far.
LEMMA InsideAgrees ==
  ASSUME body \in Body, NEW k \in 0 .. Len(body), Collected(k)
  PROVE  Agrees(k) /\ Strayed
<1>1. k \in Nat /\ LineMax \in Nat BY BodyBytes, NmeaAssumption DEF NmeaAssumption
<1>2. (overflow <=> k > LineMax) /\ computed_csum = Odd(body, Kept(k)) BY Zenon DEF Collected
<1>3. overflow \/ k <= LineMax BY <1>1, <1>2
<1>4. Agrees(k) BY <1>1, <1>2, <1>3, KeptIfItFits, Zenon DEF Agrees
<1>5. PartSum(body, k) = Odd(body, k) BY BodyBytes, PartSumIsOdd
<1>6. PartSum(body, k) \in Stray BY AccidentAssumption, Zenon DEF AccidentAssumption
<1> QED BY <1>4, <1>5, <1>6, Zenon DEF Agrees, Strayed

\* A byte of a body has a code, which sets a bit, and which no other byte has.
LEMMA CodesTell ==
  ASSUME body \in Body, NEW k \in 1 .. Len(body)
  PROVE  /\ BitsOf(Ascii[body[k]]) # {}
         /\ \A b \in Garble : b # body[k] => BitsOf(Ascii[b]) # BitsOf(Ascii[body[k]])
<1>1. body \in Seq(Byte) /\ body[k] \in Byte /\ k \in DOMAIN body
  <2>1. body \in Seq(Byte) BY BodyBytes
  <2> QED BY <2>1, ElementOfSeq
<1>2. \A b \in Byte : Ascii[b] \in 0 .. 255 BY NmeaAssumption DEF NmeaAssumption
<1>3. Ascii[body[k]] # 0 BY <1>1, AccidentAssumption, Zenon DEF AccidentAssumption
<1>4. ASSUME NEW b \in Garble, b # body[k]
      PROVE  BitsOf(Ascii[b]) # BitsOf(Ascii[body[k]])
  <2>1. b \in Byte /\ Ascii[b] # Ascii[body[k]]
    BY <1>1, <1>4, AccidentAssumption, Zenon DEF AccidentAssumption
  <2> QED BY <1>1, <1>2, <2>1, BitsTellBytes
<1>5. BitsOf(Ascii[body[k]]) # {} BY <1>1, <1>2, <1>3, NoBits
<1> QED BY <1>4, <1>5

\* An inserted byte has a code that sets a bit.
LEMMA GarbleHasBits ==
  ASSUME NEW b \in Garble
  PROVE  BitsOf(Ascii[b]) # {}
<1>1. b \in Byte BY AccidentAssumption, Zenon DEF AccidentAssumption
<1>2. Ascii[b] \in 0 .. 255 BY <1>1, NmeaAssumption DEF NmeaAssumption
<1>3. Ascii[b] # 0 BY GarbleAssumption, Zenon DEF GarbleAssumption
<1> QED BY <1>2, <1>3, NoBits

\* A byte of the body that is lost, altered or inserted makes the checksum wrong, a
\* '*' ends the body too early, and a line end ends the line.
LEMMA InsideDisturbed ==
  ASSUME Disturbed, NEW k \in 0 .. Len(body), Inside(k)
  PROVE  Known'
<1>1. /\ body \in Body /\ body' = body /\ state = "IN_BODY" /\ csum_buf = <<>>
      /\ todo = Rest(k) /\ Collected(k)
  BY Zenon DEF Disturbed, Inside, Rest
<1>2. Agrees(k) /\ Strayed BY <1>1, InsideAgrees, Zenon
<1>3. /\ k < Len(body) => /\ k + 1 \in 0 .. Len(body) /\ k + 1 \in 1 .. Len(body)
                          /\ Head(todo) = body[k + 1] /\ Tail(todo) = Rest(k + 1)
      /\ ~(k < Len(body)) => /\ Head(todo) = "*"
                             /\ Tail(todo) = <<High(body), Low(body), "\r", "\n">>
  BY <1>1, RestParts, Zenon
<1>4. ASSUME k < Len(body)
      PROVE  Odd(body, k + 1) = Xor(Odd(body, k), BitsOf(Ascii[body[k + 1]]))
  <2>1. k \in Nat BY <1>1, BodyBytes
  <2> QED BY <2>1, OddStep
<1>5. todo \in Seq(Closing) /\ Tail(todo) \in Seq(Closing) BY <1>1, <1>3, RestCloses, Zenon
<1>6. CASE Dropped
  <2>1. /\ state' = "IN_BODY" /\ csum_buf' = <<>> /\ overflow' = overflow
        /\ computed_csum' = computed_csum
    BY <1>1, <1>6, Zenon DEF Dropped, parser
  <2>2. CASE todo' = <<>> BY <1>2, <2>1, <2>2, Zenon DEF Known, Dirty, Lost, Strayed
  <2>3. CASE todo' = Tail(todo) /\ k < Len(body)
    <3>1. Odd(body, k) # Odd(body, k + 1)
      <4>1. BitsOf(Ascii[body[k + 1]]) # {} BY <1>1, <1>3, <2>3, CodesTell, Zenon
      <4> QED BY <1>4, <2>3, <4>1, XorMoves, Zenon
    <3>2. Off(k + 1)'
      BY <1>1, <1>2, <1>3, <2>1, <2>3, <3>1, Zenon DEF Off, Differs, Agrees, Rest
    <3> QED BY <1>1, <1>3, <2>3, <3>2, Zenon DEF Known, Dirty
  <2>4. CASE todo' = Tail(todo) /\ ~(k < Len(body))
    BY <1>1, <1>3, <2>1, <2>4, Zenon DEF Known, Dirty, Late
  <2> QED BY <1>6, <2>2, <2>3, <2>4, Zenon DEF Dropped
<1>7. ASSUME NEW b, Garbled(b) PROVE Known'
  <2>0. nmea_feed_byte(b) /\ b \in Garble BY <1>7, Zenon DEF Garbled, Arrives
  <2>1. CASE b \in EndOfLine
    <3>1. todo' \in Seq(Closing) BY <1>5, <1>7, Zenon DEF Garbled
    <3> QED BY <2>0, <2>1, <3>1, EndIdles, Zenon DEF Known, Dirty
  <2>2. CASE b = "*"
    <3>1. /\ state' = "AFTER_STAR" /\ overflow' = overflow /\ csum_buf' = <<>>
          /\ computed_csum' = computed_csum
      BY <1>1, <2>0, <2>2, BodyStar, Zenon
    <3>2. CASE todo' = todo
      <4>1. FalseStar(k, k)' BY <1>1, <1>2, <3>1, <3>2, Zenon DEF FalseStar, Agrees, Rest
      <4> QED BY <1>1, <4>1, Zenon DEF Known, Dirty, Stars
    <3>3. CASE todo' = Tail(todo) /\ k < Len(body)
      <4>1. FalseStar(k, k + 1)'
        BY <1>1, <1>2, <1>3, <3>1, <3>3, Zenon DEF FalseStar, Agrees, Rest
      <4> QED BY <1>1, <1>3, <3>3, <4>1, Zenon DEF Known, Dirty, Stars
    <3> QED BY <1>3, <1>7, <2>2, <3>2, <3>3, Zenon DEF Garbled
  <2>3. CASE b \notin EndOfLine /\ b # "*"
    <3>1. /\ state' = "IN_BODY" /\ csum_buf' = <<>>
          /\ \/ overflow'
             \/ overflow' = overflow /\ computed_csum' = Xor(computed_csum, BitsOf(Ascii[b]))
      BY <1>1, <2>0, <2>3, BodyByte
    <3>2. overflow' \/ computed_csum' = Xor(Odd(body, k), BitsOf(Ascii[b]))
      BY <1>2, <3>1, Zenon DEF Agrees
    <3>3. CASE todo' = todo
      <4>1. Xor(Odd(body, k), BitsOf(Ascii[b])) # Odd(body, k)
        BY <2>0, GarbleHasBits, XorMoves, Zenon
      <4>2. Off(k)' BY <1>1, <3>1, <3>2, <3>3, <4>1, Zenon DEF Off, Differs, Rest
      <4> QED BY <1>1, <4>2, Zenon DEF Known, Dirty
    <3>4. CASE todo' = Tail(todo) /\ b # Head(todo) /\ k < Len(body)
      <4>1. BitsOf(Ascii[b]) # BitsOf(Ascii[body[k + 1]])
        BY <1>1, <1>3, <2>0, <3>4, CodesTell, Zenon
      <4>2. Xor(Odd(body, k), BitsOf(Ascii[b])) # Odd(body, k + 1)
        BY <1>4, <3>4, <4>1, XorTellsBytes, Zenon
      <4>3. Off(k + 1)'
        BY <1>1, <1>3, <3>1, <3>2, <3>4, <4>2, Zenon DEF Off, Differs, Rest
      <4> QED BY <1>1, <1>3, <3>4, <4>3, Zenon DEF Known, Dirty
    <3>5. CASE todo' = Tail(todo) /\ ~(k < Len(body))
      BY <1>1, <1>3, <3>1, <3>5, Zenon DEF Known, Dirty, Late
    <3> QED BY <1>7, <3>3, <3>4, <3>5, Zenon DEF Garbled
  <2> QED BY <2>1, <2>2, <2>3
<1> QED BY <1>6, <1>7, Zenon DEF Disturbed

\* A disturbed checksum is that of the whole body, or of no body.
LEMMA DigitsDisturbed ==
  ASSUME Disturbed, NEW s \in {"AFTER_STAR", "AFTER_CSUM"}, NEW buf, NEW rest, Digits(s, buf, rest),
         todo \in Seq(Closing)
  PROVE  Known'
<1>1. /\ body \in Body /\ body \in pending /\ body' = body /\ pending' = pending /\ state = s
      /\ Collected(Len(body)) /\ Tail(todo) \in Seq(Closing) /\ <<>> \in Seq(Closing)
  <2>1. todo # <<>> BY Zenon DEF Disturbed
  <2>2. Tail(todo) \in Seq(Closing) /\ <<>> \in Seq(Closing) BY <2>1
  <2> QED BY <2>2, Zenon DEF Disturbed, Digits
<1>2. overflow \/ line = body
  <2>1. Len(body) \in Nat /\ LineMax \in Nat /\ SubSeq(body, 1, Len(body)) = body
    BY <1>1, BodyBytes, SubSeqFull, NmeaAssumption DEF NmeaAssumption
  <2>2. line = SubSeq(body, 1, Kept(Len(body))) /\ (overflow <=> Len(body) > LineMax)
    BY <1>1, Zenon DEF Collected
  <2>3. overflow \/ Len(body) <= LineMax BY <2>1, <2>2
  <2> QED BY <2>1, <2>2, <2>3, KeptIfItFits, Zenon
<1>3. Harmless BY <1>1, <1>2, Zenon DEF Harmless, Verified
<1>4. CASE Dropped
  <2>1. /\ state' = state /\ line' = line /\ overflow' = overflow
        /\ computed_csum' = computed_csum /\ csum_buf' = csum_buf
    BY <1>4, Zenon DEF Dropped, parser
  <2>2. Harmless' BY <1>1, <1>3, <2>1, Zenon DEF Harmless, Verified
  <2>3. todo' \in Seq(Closing) BY <1>1, <1>4, Zenon DEF Dropped
  <2> QED BY <2>2, <2>3, Zenon DEF Known, Dirty, Settled, NoOpening
<1>5. ASSUME NEW b, Garbled(b) PROVE Known'
  <2>1. nmea_feed_byte(b) /\ todo' \in Seq(Closing) BY <1>1, <1>5, Zenon DEF Garbled, Arrives
  <2> QED BY <1>1, <1>3, <2>1, SettledStays, Zenon DEF Known, Dirty
<1> QED BY <1>4, <1>5, Zenon DEF Disturbed

LEMMA OverDisturbed ==
  ASSUME Disturbed, Over
  PROVE  Known'
<1>1. body \in Body /\ body' = body /\ state = "WAIT_DOLLAR" /\ todo = <<"\n">>
  BY Zenon DEF Disturbed, Over
<1>2. Tail(todo) = <<>> BY <1>1
<1>3. todo \in Seq(Closing) /\ <<>> \in Seq(Closing) BY <1>1, RestCloses, Zenon
<1>4. CASE Dropped
  <2>1. state' = "WAIT_DOLLAR" /\ todo' \in Seq(Closing) BY <1>1, <1>2, <1>3, <1>4, Zenon DEF Dropped, parser
  <2> QED BY <2>1, Zenon DEF Known, Dirty, Idle, NoOpening
<1>5. ASSUME NEW b, Garbled(b) PROVE Known'
  <2>0. Arrives(b) /\ (todo' = todo \/ todo' = <<>>) BY <1>2, <1>5, Zenon DEF Garbled
  <2>1. CASE b = "$"
    <3>1. state' = "IN_BODY" /\ csum_buf' = <<>> /\ Strayed'
      BY <1>1, <2>0, <2>1, OpenedByDollar, NoneStrays, Zenon DEF Strayed
    <3> QED BY <1>1, <2>0, <3>1, Zenon DEF Known, Dirty, Lost, Late
  <2>2. CASE b # "$"
    <3>1. state' = "WAIT_DOLLAR" /\ todo' \in Seq(Closing)
      BY <1>1, <1>3, <2>0, <2>2, OpenedByDollar, Zenon
    <3> QED BY <3>1, Zenon DEF Known, Dirty, Idle, NoOpening
  <2> QED BY <2>1, <2>2
<1> QED BY <1>4, <1>5, Zenon DEF Disturbed

LEMMA DisturbedPhase ==
  ASSUME Disturbed, Phase
  PROVE  Known'
<1>1. body \in Body BY Zenon DEF Disturbed
<1>2. /\ <<High(body), Low(body), "\r", "\n">> \in Seq(Closing)
      /\ <<Low(body), "\r", "\n">> \in Seq(Closing) /\ <<"\r", "\n">> \in Seq(Closing)
  BY <1>1, RestCloses, Zenon
<1>3. ASSUME NEW s \in {"AFTER_STAR", "AFTER_CSUM"}, NEW buf, NEW rest \in Seq(Closing), Digits(s, buf, rest)
      PROVE  Known'
  <2>1. todo \in Seq(Closing) BY <1>3, Zenon DEF Digits
  <2> QED BY <1>3, <2>1, DigitsDisturbed, Zenon
<1> QED BY <1>2, <1>3, AheadDisturbed, InsideDisturbed, OverDisturbed, Zenon DEF Phase
-----------------------------------------------------------------------------
(***************************************************************************)
(* Each step of the receiver, of the line and of the application.          *)
(***************************************************************************)
\* What is to come is a whole sentence, or opens no line.
LEMMA ToCome ==
  ASSUME body \in Body, Known
  PROVE  Ready \/ todo \in Seq(Closing)
<1>1. /\ \A k \in 0 .. Len(body) : Rest(k) \in Seq(Closing)
      /\ <<High(body), Low(body), "\r", "\n">> \in Seq(Closing)
      /\ <<Low(body), "\r", "\n">> \in Seq(Closing)
      /\ <<"\r", "\n">> \in Seq(Closing) /\ <<"\n">> \in Seq(Closing) /\ <<>> \in Seq(Closing)
  BY RestCloses
<1>2. CASE Phase BY <1>1, <1>2, Zenon DEF Phase, Ahead, Inside, Digits, Over, Ready, Rest
<1>3. CASE Idle \/ Late \/ Lost \/ Settled
  BY <1>1, <1>3, Zenon DEF Idle, Late, Lost, Settled, NoOpening
<1>4. CASE \E k \in 0 .. Len(body) : Off(k) BY <1>1, <1>4, Zenon DEF Off
<1>5. CASE OffStar \/ LostStar BY <1>1, <1>5, Zenon DEF OffStar, LostStar
<1>6. ASSUME NEW k \in 0 .. Len(body), NEW p \in 0 .. Len(body), FalseStar(k, p)
      PROVE  todo \in Seq(Closing)
  <2>1. CASE todo = Rest(p) BY <1>1, <2>1, Zenon
  <2>2. CASE p < Len(body) /\ todo = Rest(p + 1)
    <3>1. p + 1 \in 0 .. Len(body) BY <2>2, RestParts, Zenon
    <3> QED BY <1>1, <2>2, <3>1, Zenon
  <2> QED BY <1>6, <2>1, <2>2, Zenon DEF FalseStar
<1> QED BY <1>2, <1>3, <1>4, <1>5, <1>6, Zenon DEF Known, Dirty, Stars

\* Between sentences, where the parser may be.
LEMMA Between ==
  ASSUME body \in Body, Known, todo = <<>>
  PROVE  Over \/ Idle \/ Lost \/ LostStar \/ Settled
<1>1. \A k \in 0 .. Len(body) : Rest(k) # <<>> BY RestParts, Zenon
<1>2. ASSUME NEW a, NEW b, NEW c, NEW d
      PROVE  <<a>> # <<>> /\ <<a, b>> # <<>> /\ <<a, b, c>> # <<>> /\ <<a, b, c, d>> # <<>>
  OBVIOUS
<1>3. CASE Phase BY <1>3, DoneIsOver, Zenon
<1>4. ~Late /\ ~OffStar BY <1>2, Zenon DEF Late, OffStar
<1>5. ~\E k \in 0 .. Len(body) : Off(k) BY <1>1, Zenon DEF Off
<1>6. ASSUME NEW k \in 0 .. Len(body), NEW p \in 0 .. Len(body), FalseStar(k, p)
      PROVE  FALSE
  <2>1. CASE todo = Rest(p) BY <1>1, <2>1, Zenon
  <2>2. CASE p < Len(body) /\ todo = Rest(p + 1)
    <3>1. p + 1 \in 0 .. Len(body) BY <2>2, RestParts, Zenon
    <3> QED BY <1>1, <2>2, <3>1, Zenon
  <2> QED BY <1>6, <2>1, <2>2, Zenon DEF FalseStar
<1> QED BY <1>3, <1>4, <1>5, <1>6, Zenon DEF Known, Dirty, Stars

\* A byte of a sentence, disturbed before or not.
LEMMA TransmitKnown ==
  ASSUME LineInv, Pending, Known, Transmit
  PROVE  Known'
<1>1. Steady /\ body \in Body /\ todo # <<>> BY Zenon DEF LineInv, Pending, Transmit
<1>2. PICK b : b = Head(todo) OBVIOUS
<1>3. Passed(b) BY <1>1, <1>2, Zenon DEF Passed, Transmit, Arrives
<1>4. CASE Phase BY <1>1, <1>4, TransmitPhase, Zenon DEF Known
<1>5. CASE Idle
  <2>1. b \in Closing /\ Tail(todo) \in Seq(Closing)
    <3>1. todo \in Seq(Closing) BY <1>5, Zenon DEF Idle, NoOpening
    <3> QED BY <1>1, <1>2, <3>1
  <2>2. b # "$" /\ todo' \in Seq(Closing) BY <1>3, <2>1, Zenon DEF Closing, Passed
  <2> QED BY <1>3, <1>5, <2>2, IdleStays, Zenon DEF Known, Dirty, Idle, Passed
<1>6. CASE Settled
  <2>1. Tail(todo) \in Seq(Closing)
    <3>1. CASE Ready BY <1>1, <3>1, ReadyParts, Zenon
    <3>2. CASE NoOpening
      <4>1. todo \in Seq(Closing) BY <3>2, Zenon DEF NoOpening
      <4> QED BY <1>1, <4>1
    <3> QED BY <1>6, <3>1, <3>2, Zenon DEF Settled
  <2> QED BY <1>3, <1>6, <2>1, SettledStays, Zenon DEF Known, Dirty, Settled, Passed
<1>7. CASE (\E k \in 0 .. Len(body) : Off(k)) \/ Late \/ Lost \/ Stars
  BY <1>3, <1>7, OffStep, LateStep, LostStep, OffStarStep, LostStarStep, FalseStarStep, Zenon
     DEF Stars, Known
<1> QED BY <1>4, <1>5, <1>6, <1>7, Zenon DEF Known, Dirty

\* Noise closes a line or is added to it, and does not spell a checksum.
LEMMA HissKnown ==
  ASSUME LineInv, Pending, Known, Hiss
  PROVE  Known' /\ Pending'
<1>1. /\ todo = <<>> /\ todo' = <<>> /\ body' = body /\ pending' = pending
      /\ <<>> \in Seq(Closing)
  <2>1. todo = <<>> /\ todo' = todo /\ body' = body /\ pending' = pending BY Zenon DEF Hiss
  <2>2. <<>> \in Seq(Closing) OBVIOUS
  <2> QED BY <2>1, <2>2
<1>2. PICK b \in Noise : Arrives(b) BY Zenon DEF Hiss
<1>3. nmea_feed_byte(b) /\ b # "$" BY <1>2, LineAssumption, Zenon DEF Arrives, LineAssumption
<1>4. ASSUME state = "WAIT_DOLLAR" PROVE Idle' BY <1>1, <1>3, <1>4, IdleStays, Zenon
<1>5. CASE body = <<>>
  <2>1. Idle' BY <1>4, <1>5, Zenon DEF Pending
  <2> QED BY <1>1, <1>5, <2>1, Zenon DEF Known, Dirty, Pending, Idle
<1>6. CASE body # <<>>
  <2>0. body \in Body /\ Pending' BY <1>1, <1>6, Zenon DEF LineInv, Pending
  <2> SUFFICES Known'
    BY <2>0
  <2>1. CASE Over \/ Idle BY <1>4, <2>1, Zenon DEF Over, Idle, Known, Dirty
  <2>2. CASE Settled BY <1>1, <1>3, <2>2, SettledStays, Zenon DEF Settled, Known, Dirty
  <2>3. CASE b \in EndOfLine BY <1>1, <1>3, <2>3, EndIdles, Zenon DEF Known, Dirty
  <2>4. CASE Lost /\ b \notin EndOfLine
    <3>0. state = "IN_BODY" /\ csum_buf = <<>> /\ Strayed BY <2>4, Zenon DEF Lost
    <3>1. CASE b = "*"
      <4>1. LostStar' BY <1>1, <1>3, <3>0, <3>1, BodyStar, Zenon DEF LostStar, Strayed
      <4> QED BY <4>1, Zenon DEF Known, Dirty, Stars
    <3>2. CASE b # "*"
      <4>1. /\ state' = "IN_BODY" /\ csum_buf' = csum_buf
            /\ \/ overflow'
               \/ overflow' = overflow /\ computed_csum' = Xor(computed_csum, BitsOf(Ascii[b]))
        BY <1>3, <2>4, <3>0, <3>2, BodyByte
      <4>2. \A s \in Stray : Xor(s, BitsOf(Ascii[b])) \in Stray
        BY <1>2, <2>4, <3>2, AccidentAssumption, Zenon DEF AccidentAssumption
      <4>3. Lost' BY <1>1, <3>0, <4>1, <4>2, Zenon DEF Lost, Strayed
      <4> QED BY <4>3, Zenon DEF Known, Dirty
    <3> QED BY <3>1, <3>2
  <2>5. CASE LostStar /\ b \notin EndOfLine
    <3>0. state = "AFTER_STAR" /\ Strayed BY <2>5, Zenon DEF LostStar
    <3>1. CASE csum_buf = <<>>
      <4>1. csum_buf' = <<b>> /\ state' = "AFTER_STAR" BY <1>3, <2>5, <3>0, <3>1, FirstDigit, Zenon
      <4>2. overflow' = overflow /\ computed_csum' = computed_csum BY <1>3, <2>5, <3>0, StarByte, Zenon
      <4>3. LostStar' BY <1>1, <1>2, <3>0, <4>1, <4>2, Zenon DEF LostStar, Strayed
      <4> QED BY <4>3, Zenon DEF Known, Dirty, Stars
    <3>2. ASSUME NEW d \in Noise, csum_buf = <<d>> PROVE Known'
      <4>1. overflow \/ ~Spells(d, b, computed_csum)
        BY <1>2, <3>0, AccidentAssumption, Zenon DEF AccidentAssumption, Strayed
      <4>2. Settled' BY <1>1, <1>3, <2>5, <3>0, <3>2, <4>1, BadDigits, Zenon
      <4> QED BY <4>2, Zenon DEF Known, Dirty
    <3> QED BY <2>5, <3>1, <3>2, Zenon DEF LostStar
  <2> QED BY <1>1, <2>0, <2>1, <2>2, <2>3, <2>4, <2>5, Between, Zenon
<1> QED BY <1>5, <1>6

\* A sentence begins where the last, or the noise, left the parser.
LEMMA BeginKnown ==
  ASSUME LineInv, Pending, Known, NEW bs \in Body, Begin(bs)
  PROVE  Known' /\ Pending'
<1>1. /\ todo = <<>> /\ body' = bs /\ todo' = Sentence(bs) /\ heard' = 0
      /\ pending' = IF inLine THEN pending \cup {bs} ELSE {bs}
      /\ state' = state /\ line' = line /\ overflow' = overflow
      /\ computed_csum' = computed_csum /\ csum_buf' = csum_buf
  BY Zenon DEF Begin, parser
<1>2. Ready' BY <1>1, Zenon DEF Ready
<1>3. bs # <<>> BY AccidentAssumption, Zenon DEF AccidentAssumption
<1>4. Pending' BY <1>1, <1>3, Zenon DEF Pending
<1> SUFFICES Known'
  BY <1>4
<1>5. CASE state = "WAIT_DOLLAR" BY <1>1, <1>5, Zenon DEF Known, Phase, Ahead
<1>6. CASE state # "WAIT_DOLLAR"
  <2>1. body \in Body BY <1>6, Zenon DEF LineInv, Pending
  <2>2. pending' = pending \cup {bs} BY <1>1, <1>6, Zenon DEF LineInv, Steady
  <2>3. CASE Lost BY <1>1, <1>2, <2>3, Zenon DEF Lost, Strayed, Known, Dirty
  <2>4. CASE LostStar BY <1>1, <1>2, <2>4, Zenon DEF LostStar, Strayed, Known, Dirty, Stars
  <2>5. CASE Settled
    <3>1. Harmless' BY <1>1, <2>2, <2>5, Zenon DEF Settled, Harmless, Verified
    <3> QED BY <1>2, <3>1, Zenon DEF Settled, Known, Dirty
  <2> QED BY <1>1, <1>6, <2>1, <2>3, <2>4, <2>5, Between, Zenon DEF Over, Idle
<1> QED BY <1>5, <1>6

\* A parser that is initialised is at rest, whatever is to come.
LEMMA RestartKnown ==
  ASSUME LineInv, Pending, Known, Restart
  PROVE  Known' /\ Pending'
<1>1. /\ state' = "WAIT_DOLLAR" /\ todo' = todo /\ body' = body /\ pending' = pending
      /\ heard' = heard
  BY Zenon DEF Restart, nmea_init, reset_state
<1>2. CASE body = <<>>
  <2>1. todo' = <<>> BY <1>1, <1>2, Zenon DEF Pending
  <2>2. todo' \in Seq(Closing) BY <2>1
  <2> QED BY <1>1, <1>2, <2>1, <2>2, Zenon DEF Pending, Known, Dirty, Idle, NoOpening
<1>3. CASE body # <<>>
  <2>1. body \in Body /\ Pending' BY <1>1, <1>3, Zenon DEF LineInv, Pending
  <2> SUFFICES Known'
    BY <2>1
  <2>2. CASE Ready BY <1>1, <2>2, Zenon DEF Ready, Known, Phase, Ahead
  <2>3. CASE todo \in Seq(Closing) BY <1>1, <2>3, Zenon DEF Known, Dirty, Idle, NoOpening
  <2> QED BY <2>1, <2>2, <2>3, ToCome, Zenon
<1> QED BY <1>2, <1>3

\* The line disturbs only a sentence that is undisturbed.
LEMMA DisturbKnown ==
  ASSUME LineInv, Pending, Lose \/ Alter \/ Insert \/ Cut
  PROVE  Known' /\ Pending'
<1>1. /\ todo # <<>> /\ ~fault /\ ~merged /\ body' = body /\ pending' = pending
  BY Zenon DEF Lose, Alter, Insert, Cut, Disturb
<1>2. body # <<>> /\ body \in Body /\ body \in pending /\ Phase
  BY <1>1, Zenon DEF LineInv, Pending, Clean
<1>3. Dropped \/ \E b : Garbled(b)
  <2>1. CASE Lose \/ Cut BY <2>1, Zenon DEF Lose, Cut, Dropped
  <2>2. CASE Alter BY <2>2, Zenon DEF Alter, Garbled
  <2>3. CASE Insert BY <2>3, Zenon DEF Insert, Garbled
  <2> QED BY <2>1, <2>2, <2>3
<1>4. Disturbed BY <1>1, <1>2, <1>3, Zenon DEF Disturbed
<1> QED BY <1>1, <1>2, <1>4, DisturbedPhase, Zenon DEF Pending

\* Each step keeps track of the parser, and lets it hear nothing but what is pending.
LEMMA ForgeStep == ForgeInv /\ [LineNext]_<<vars, wire>> => ForgeInv'
<1> SUFFICES ASSUME ForgeInv, [LineNext]_<<vars, wire>> PROVE ForgeInv'
  OBVIOUS
<1>0. LineInv /\ Pending /\ Known /\ NoForgery /\ LineInv' BY LineStep, Zenon DEF ForgeInv
<1>1. ASSUME event' = NONE PROVE NoForgery' BY <1>1, Zenon DEF NoForgery
<1>2. ASSUME NEW b, Arrives(b), pending' = pending PROVE NoForgery'
  BY <1>0, <1>2, HeardIsPending, Zenon DEF Arrives, LineInv
<1>3. ASSUME NEW bs \in Body, Begin(bs) PROVE ForgeInv'
  <2>1. NoForgery' BY <1>1, <1>3, Zenon DEF Begin
  <2> QED BY <1>0, <1>3, <2>1, BeginKnown, Zenon DEF ForgeInv
<1>4. CASE Transmit
  <2>1. NoForgery' BY <1>2, <1>4, Zenon DEF Transmit
  <2>2. Known' BY <1>0, <1>4, TransmitKnown, Zenon
  <2>3. Pending' BY <1>0, <1>4, Zenon DEF Pending, Transmit
  <2> QED BY <1>0, <2>1, <2>2, <2>3, Zenon DEF ForgeInv
<1>5. CASE Hiss
  <2>1. NoForgery' BY <1>2, <1>5, Zenon DEF Hiss
  <2> QED BY <1>0, <1>5, <2>1, HissKnown, Zenon DEF ForgeInv
<1>6. CASE Restart
  <2>1. NoForgery' BY <1>1, <1>6, Zenon DEF Restart, nmea_init
  <2> QED BY <1>0, <1>6, <2>1, RestartKnown, Zenon DEF ForgeInv
<1>7. CASE Lose \/ Alter \/ Insert \/ Cut
  <2>1. ASSUME Lose \/ Cut PROVE NoForgery' BY <1>1, <2>1, Zenon DEF Lose, Cut
  <2>2. ASSUME Alter \/ Insert PROVE NoForgery'
    BY <1>2, <2>2, Zenon DEF Alter, Insert, Disturb
  <2>3. NoForgery' BY <1>7, <2>1, <2>2, Zenon
  <2> QED BY <1>0, <1>7, <2>3, DisturbKnown, Zenon DEF ForgeInv
<1>8. CASE UNCHANGED <<vars, wire>>
  <2>1. /\ state' = state /\ line' = line /\ overflow' = overflow /\ computed_csum' = computed_csum
        /\ csum_buf' = csum_buf /\ on_message' = on_message /\ snapshot' = snapshot
        /\ event' = event /\ body' = body /\ todo' = todo /\ inLine' = inLine
        /\ pending' = pending /\ heard' = heard
    BY <1>8, Zenon DEF vars, parser, wire
  <2>2. NoForgery' BY <1>0, <2>1 DEF NoForgery, TypeOf
  <2>3. Pending' BY <1>0, <2>1, Zenon DEF Pending
  <2>4. Phase => Phase'
    BY <2>1 DEF Phase, Ahead, Inside, Digits, Over, Collected, Accepted
  <2>5. Dirty => Dirty'
    <3>1. Idle => Idle' BY <2>1, Zenon DEF Idle, NoOpening
    <3>2. ASSUME NEW k, Off(k) PROVE Off(k)' BY <2>1, <3>2, Zenon DEF Off, Rest, Differs
    <3>3. (Late => Late') /\ (OffStar => OffStar') BY <2>1, Zenon DEF Late, OffStar, Differs
    <3>4. (Lost => Lost') /\ (LostStar => LostStar')
      BY <2>1, Zenon DEF Lost, LostStar, Strayed, Ready
    <3>5. ASSUME NEW k, NEW p, FalseStar(k, p) PROVE FalseStar(k, p)'
      BY <2>1, <3>5, Zenon DEF FalseStar, Agrees, Rest
    <3>6. Settled => Settled' BY <2>1, Zenon DEF Settled, Harmless, Verified, Ready, NoOpening
    <3>7. Stars => Stars' BY <2>1, <3>3, <3>4, <3>5, Zenon DEF Stars
    <3> QED BY <2>1, <3>1, <3>2, <3>3, <3>4, <3>6, <3>7, Zenon DEF Dirty
  <2> QED BY <1>0, <2>2, <2>3, <2>4, <2>5, Zenon DEF ForgeInv, Known
<1> QED BY <1>3, <1>4, <1>5, <1>6, <1>7, <1>8, Zenon DEF LineNext

LEMMA ForgeStart == LineInit => ForgeInv
<1> SUFFICES ASSUME LineInit PROVE ForgeInv
  OBVIOUS
<1>1. state = "WAIT_DOLLAR" /\ body = <<>> /\ todo = <<>> /\ event = NONE
  BY Zenon DEF LineInit, Init
<1>2. todo \in Seq(Closing) BY <1>1
<1> QED BY <1>1, <1>2, LineStart, Zenon DEF ForgeInv, Pending, Known, Dirty, Idle, NoOpening, NoForgery

\* For every set of bodies and of noise bytes that AccidentAssumption admits, which
\* leaves out sets with a member that can spell another checksum by accident:
\* wherever a single disturbance hits each sentence, however the noise falls between
\* them and whenever the parser is initialised, a body is heard only if it was sent
\* since the line was last at rest, and as the type that it has (nmea.c:317-376).
THEOREM ForgeryTheorem == LineSpec => []NoForgery
<1>1. ForgeInv => NoForgery BY DEF ForgeInv
<1> QED BY <1>1, ForgeStart, ForgeStep, PTL DEF LineSpec
=============================================================================
