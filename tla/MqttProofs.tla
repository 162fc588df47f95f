----------------------------- MODULE MqttProofs -----------------------------
(***************************************************************************)
(* What byte_stream.h writes is what it reads, the remaining length of     *)
(* mqtt.c decodes to the length it was given, a builder answers with the   *)
(* size of the packet exactly when there is a packet that fits, and the    *)
(* broker understands every packet and measurement as it was meant.        *)
(***************************************************************************)
EXTENDS MqttLink, Induction, TLAPS

\* A word from its bytes.
LEMMA Halves ==
  ASSUME NEW v \in Int, 0 <= v, v < 65536
  PROVE  v = 256 * ((v \div 256) % 256) + (v % 256)
<1>1. (v \div 256) % 256 = v \div 256 BY SMT
<1>2. v = 256 * (v \div 256) + (v % 256) BY SMT
<1> QED BY <1>1, <1>2, SMT

Joined4(v) == 16777216 * ((v \div 16777216) % 256) + 65536 * ((v \div 65536) % 256)
                + 256 * ((v \div 256) % 256) + (v % 256)

\* A word from its four bytes.
LEMMA Quarters ==
  ASSUME NEW v \in Int, 0 <= v, v < 4294967296
  PROVE  Joined4(v) = v
<1>1. v \div 16777216 = (v \div 16777216) % 256 BY SMT
<1>2. v \div 65536 = 256 * (v \div 16777216) + ((v \div 65536) % 256) BY SMT
<1>3. v \div 256 = 256 * (v \div 65536) + ((v \div 256) % 256) BY SMT
<1>4. v = 256 * (v \div 256) + (v % 256) BY SMT
<1> QED BY <1>1, <1>2, <1>3, <1>4, SMT DEF Joined4

\* The upper byte of a negative word is 256 too much, as its cast takes it to be.
LEMMA SignedByte ==
  ASSUME NEW a \in Int, -128 <= a, a <= 127
  PROVE  Int8(a % 256) = a
<1>1. CASE a >= 0
  <2>1. a % 256 = a BY <1>1, SMT
  <2> QED BY <2>1, <1>1, SMT DEF Int8
<1>2. CASE a < 0
  <2>1. a % 256 = a + 256 BY <1>2, SMT
  <2> QED BY <2>1, <1>2, SMT DEF Int8
<1> QED BY <1>1, <1>2, SMT

\* The same for two bytes in two's complement.
LEMMA SignedHalves ==
  ASSUME NEW v \in Int, -32768 <= v, v <= 32767
  PROVE  Int16(256 * ((v \div 256) % 256) + (v % 256)) = v
<1>1. v = 256 * (v \div 256) + (v % 256) BY SMT
<1>2. CASE v >= 0
  <2>1. (v \div 256) % 256 = v \div 256 BY <1>2, SMT
  <2> QED BY <2>1, <1>1, <1>2, SMT DEF Int16
<1>3. CASE v < 0
  <2>1. (v \div 256) % 256 = (v \div 256) + 256 BY <1>3, SMT
  <2> QED BY <2>1, <1>1, <1>3, SMT DEF Int16
<1> QED BY <1>2, <1>3, SMT

\* The same for four bytes in two's complement.
LEMMA SignedQuarters ==
  ASSUME NEW v \in Int, -2147483648 <= v, v <= 2147483647
  PROVE  v = 16777216 * Int8((v \div 16777216) % 256) + 65536 * ((v \div 65536) % 256)
               + 256 * ((v \div 256) % 256) + (v % 256)
<1> DEFINE a == v \div 16777216
<1>1. a \in Int /\ -128 <= a /\ a <= 127 BY SMT
<1>2. Int8(a % 256) = a
  <2> HIDE DEF a
  <2> QED BY <1>1, SignedByte
<1>3. v \div 65536 = 256 * a + ((v \div 65536) % 256) BY SMT
<1>4. v \div 256 = 256 * (v \div 65536) + ((v \div 256) % 256) BY SMT
<1>5. v = 256 * (v \div 256) + (v % 256) BY SMT
<1> QED BY <1>1, <1>2, <1>3, <1>4, <1>5, SMT

\* What follows the bytes that were put before a sequence is the sequence.
LEMMA AfterOne ==
  ASSUME NEW a, NEW S, NEW s \in Seq(S)
  PROVE  LET t == <<a>> \o s IN t[1] = a /\ SubSeq(t, 2, Len(t)) = s
OBVIOUS

\* What follows two bytes.
LEMMA AfterTwo ==
  ASSUME NEW a, NEW b, NEW S, NEW s \in Seq(S)
  PROVE  LET t == <<a, b>> \o s IN t[1] = a /\ t[2] = b /\ SubSeq(t, 3, Len(t)) = s
OBVIOUS

\* What follows four bytes.
LEMMA AfterFour ==
  ASSUME NEW a, NEW b, NEW c, NEW d, NEW S, NEW s \in Seq(S)
  PROVE  LET t == <<a, b, c, d>> \o s
         IN  t[1] = a /\ t[2] = b /\ t[3] = c /\ t[4] = d /\ SubSeq(t, 5, Len(t)) = s
OBVIOUS

\* A get takes the value from the front of what was put before a sequence.
LEMMA GetIs ==
  ASSUME NEW x, NEW s, NEW t
  PROVE  /\ SubSeq(t, 2, Len(t)) = s => Get(x, t, 1) = [value |-> x, rest |-> s]
         /\ SubSeq(t, 3, Len(t)) = s => Get(x, t, 2) = [value |-> x, rest |-> s]
         /\ SubSeq(t, 5, Len(t)) = s => Get(x, t, 4) = [value |-> x, rest |-> s]
<1>1. 1 + 1 = 2 /\ 2 + 1 = 3 /\ 4 + 1 = 5 BY SMT
<1> QED BY <1>1, Zenon DEF Get

\* One byte that was put is what is read, unsigned or signed.
LEMMA BytesSurvive ==
  ASSUME NEW S, NEW s \in Seq(S)
  PROVE  /\ \A v \in uint8_t : bs_get_u8(bs_put_u8(Fresh, v).bytes \o s) = [value |-> v, rest |-> s]
         /\ \A v \in int8_t : bs_get_i8(bs_put_i8(Fresh, v).bytes \o s) = [value |-> v, rest |-> s]
<1>1. ASSUME NEW v, NEW t, t = bs_put_u8(Fresh, v).bytes \o s
      PROVE  t[1] = v % 256 /\ SubSeq(t, 2, Len(t)) = s
  <2>1. bs_put_u8(Fresh, v).bytes = <<v % 256>> BY SMT DEF bs_put_u8, Put, Fresh
  <2>2. t = <<v % 256>> \o s BY <2>1, <1>1, Zenon
  <2> QED BY <2>2, AfterOne
<1>2. ASSUME NEW v \in uint8_t
      PROVE  bs_get_u8(bs_put_u8(Fresh, v).bytes \o s) = [value |-> v, rest |-> s]
  <2> DEFINE t == bs_put_u8(Fresh, v).bytes \o s
  <2>1. v % 256 = v BY SMT DEF uint8_t
  <2>2. t[1] = v /\ SubSeq(t, 2, Len(t)) = s BY <1>1, <2>1, Zenon
  <2> HIDE DEF t
  <2>3. Get(v, t, 1) = [value |-> v, rest |-> s] BY <2>2, GetIs, Zenon
  <2>4. bs_get_u8(t) = Get(v, t, 1) BY <2>2, Zenon DEF bs_get_u8
  <2> QED BY <2>3, <2>4, Zenon DEF t
<1>3. ASSUME NEW v \in int8_t
      PROVE  bs_get_i8(bs_put_i8(Fresh, v).bytes \o s) = [value |-> v, rest |-> s]
  <2> DEFINE t == bs_put_u8(Fresh, v).bytes \o s
  <2>1. Int8(v % 256) = v BY SignedByte, SMT DEF int8_t
  <2>2. Int8(t[1]) = v /\ SubSeq(t, 2, Len(t)) = s BY <1>1, <2>1, Zenon
  <2> HIDE DEF t
  <2>3. Get(v, t, 1) = [value |-> v, rest |-> s] BY <2>2, GetIs, Zenon
  <2>4. bs_get_i8(t) = Get(v, t, 1) BY <2>2, Zenon DEF bs_get_i8
  <2> QED BY <2>3, <2>4, Zenon DEF t, bs_put_i8
<1> QED BY <1>2, <1>3

\* Two bytes that were put are what is read, in either order, unsigned or
\* signed.
LEMMA HalfWordsSurvive ==
  ASSUME NEW S, NEW s \in Seq(S)
  PROVE  /\ \A v \in uint16_t :
              /\ bs_get_u16_be(bs_put_u16_be(Fresh, v).bytes \o s) = [value |-> v, rest |-> s]
              /\ bs_get_u16_le(bs_put_u16_le(Fresh, v).bytes \o s) = [value |-> v, rest |-> s]
         /\ \A v \in int16_t :
              /\ bs_get_i16_be(bs_put_i16_be(Fresh, v).bytes \o s) = [value |-> v, rest |-> s]
              /\ bs_get_i16_le(bs_put_i16_le(Fresh, v).bytes \o s) = [value |-> v, rest |-> s]
<1> DEFINE W(v)  == 256 * ((v \div 256) % 256) + (v % 256)
           be(v) == bs_put_u16_be(Fresh, v).bytes \o s
           le(v) == bs_put_u16_le(Fresh, v).bytes \o s
<1>1. ASSUME NEW v
      PROVE  /\ Word2(be(v)) = W(v) /\ Word2(Flip2(le(v))) = W(v)
             /\ SubSeq(be(v), 3, Len(be(v))) = s /\ SubSeq(le(v), 3, Len(le(v))) = s
  <2>1. /\ bs_put_u16_be(Fresh, v).bytes = Bytes2(v)
        /\ bs_put_u16_le(Fresh, v).bytes = Flip2(Bytes2(v))
    BY SMT DEF bs_put_u16_be, bs_put_u16_le, Put, Fresh, Bytes2, Flip2
  <2>2. /\ Word2(Bytes2(v) \o s) = W(v)
        /\ Word2(Flip2(Flip2(Bytes2(v)) \o s)) = W(v)
        /\ SubSeq(Bytes2(v) \o s, 3, Len(Bytes2(v) \o s)) = s
        /\ SubSeq(Flip2(Bytes2(v)) \o s, 3, Len(Flip2(Bytes2(v)) \o s)) = s
    BY AfterTwo DEF Word2, Flip2, Bytes2
  <2> QED BY <2>1, <2>2, Zenon
<1> HIDE DEF W, be, le
<1>2. ASSUME NEW v \in uint16_t
      PROVE  /\ bs_get_u16_be(be(v)) = [value |-> v, rest |-> s]
             /\ bs_get_u16_le(le(v)) = [value |-> v, rest |-> s]
  <2>1. v \in Int /\ 0 <= v /\ v < 65536 BY SMT DEF uint16_t
  <2>2. W(v) = v BY <2>1, Halves, SMT DEF W
  <2>3. bs_get_u16_be(be(v)) = Get(v, be(v), 2) BY <1>1, <2>2, Zenon DEF bs_get_u16_be
  <2>4. bs_get_u16_le(le(v)) = Get(v, le(v), 2) BY <1>1, <2>2, Zenon DEF bs_get_u16_le
  <2> QED BY <1>1, <2>3, <2>4, GetIs, Zenon
<1>3. ASSUME NEW v \in int16_t
      PROVE  /\ bs_get_i16_be(be(v)) = [value |-> v, rest |-> s]
             /\ bs_get_i16_le(le(v)) = [value |-> v, rest |-> s]
  <2>1. v \in Int /\ -32768 <= v /\ v <= 32767 BY SMT DEF int16_t
  <2>2. Int16(W(v)) = v BY <2>1, SignedHalves, SMT DEF W
  <2>3. bs_get_i16_be(be(v)) = Get(v, be(v), 2) BY <1>1, <2>2, Zenon DEF bs_get_i16_be
  <2>4. bs_get_i16_le(le(v)) = Get(v, le(v), 2) BY <1>1, <2>2, Zenon DEF bs_get_i16_le
  <2> QED BY <1>1, <2>3, <2>4, GetIs, Zenon
<1> QED BY <1>2, <1>3 DEF be, le, bs_put_i16_be, bs_put_i16_le

\* The range of a 32-bit word, from the range of its upper half.
LEMMA WordRange ==
  /\ \A v \in uint32_t : v \in Int /\ 0 <= v /\ v < 4294967296
  /\ \A v \in int32_t : v \in Int /\ -2147483648 <= v /\ v <= 2147483647
<1>1. ASSUME NEW v \in uint32_t PROVE v \in Int /\ 0 <= v /\ v < 4294967296
  <2>1. v \in Nat /\ v \div 65536 <= 65535 BY SMT DEF uint32_t, uint16_t
  <2> QED BY <2>1, SMT
<1>2. ASSUME NEW v \in int32_t PROVE v \in Int /\ -2147483648 <= v /\ v <= 2147483647
  <2>1. v \in Int /\ -32768 <= v \div 65536 /\ v \div 65536 <= 32767 BY SMT DEF int32_t, int16_t
  <2> QED BY <2>1, SMT
<1> QED BY <1>1, <1>2

\* Four bytes that were put are what is read, in either order, unsigned or
\* signed.
LEMMA WordsSurvive ==
  ASSUME NEW S, NEW s \in Seq(S)
  PROVE  /\ \A v \in uint32_t :
              /\ bs_get_u32_be(bs_put_u32_be(Fresh, v).bytes \o s) = [value |-> v, rest |-> s]
              /\ bs_get_u32_le(bs_put_u32_le(Fresh, v).bytes \o s) = [value |-> v, rest |-> s]
         /\ \A v \in int32_t :
              /\ bs_get_i32_be(bs_put_i32_be(Fresh, v).bytes \o s) = [value |-> v, rest |-> s]
              /\ bs_get_i32_le(bs_put_i32_le(Fresh, v).bytes \o s) = [value |-> v, rest |-> s]
<1> DEFINE W(v) == Joined4(v)
           Z(v) == 16777216 * Int8((v \div 16777216) % 256) + 65536 * ((v \div 65536) % 256)
                     + 256 * ((v \div 256) % 256) + (v % 256)
           be(v) == bs_put_u32_be(Fresh, v).bytes \o s
           le(v) == bs_put_u32_le(Fresh, v).bytes \o s
<1>0. ASSUME NEW v
      PROVE  LET b == Bytes4(v) \o s  l == Flip4(Bytes4(v)) \o s
             IN  /\ Word4(b) = W(v) /\ Word4(Flip4(l)) = W(v)
                 /\ SignedWord4(b) = Z(v) /\ SignedWord4(Flip4(l)) = Z(v)
                 /\ SubSeq(b, 5, Len(b)) = s /\ SubSeq(l, 5, Len(l)) = s
  BY AfterFour, SMT DEF Joined4, Word4, SignedWord4, Flip4, Bytes4
<1>1. ASSUME NEW v
      PROVE  /\ bs_put_u32_be(Fresh, v).bytes = Bytes4(v)
             /\ bs_put_u32_le(Fresh, v).bytes = Flip4(Bytes4(v))
  BY SMT DEF bs_put_u32_be, bs_put_u32_le, Put, Fresh, Bytes4, Flip4
<1>2. ASSUME NEW v \in uint32_t PROVE W(v) = v BY WordRange, Quarters, SMT
<1>3. ASSUME NEW v \in int32_t PROVE Z(v) = v BY WordRange, SignedQuarters, SMT
<1> HIDE DEF W, Z
<1>4. ASSUME NEW v
      PROVE  /\ Word4(be(v)) = W(v) /\ Word4(Flip4(le(v))) = W(v)
             /\ SignedWord4(be(v)) = Z(v) /\ SignedWord4(Flip4(le(v))) = Z(v)
             /\ SubSeq(be(v), 5, Len(be(v))) = s /\ SubSeq(le(v), 5, Len(le(v))) = s
  BY <1>0, <1>1, Zenon
<1> HIDE DEF be, le
<1>5. ASSUME NEW v \in uint32_t
      PROVE  /\ bs_get_u32_be(be(v)) = [value |-> v, rest |-> s]
             /\ bs_get_u32_le(le(v)) = [value |-> v, rest |-> s]
  <2>1. bs_get_u32_be(be(v)) = Get(v, be(v), 4) BY <1>4, <1>2, Zenon DEF bs_get_u32_be
  <2>2. bs_get_u32_le(le(v)) = Get(v, le(v), 4) BY <1>4, <1>2, Zenon DEF bs_get_u32_le
  <2> QED BY <1>4, <2>1, <2>2, GetIs, ZenonT(60)
<1>6. ASSUME NEW v \in int32_t
      PROVE  /\ bs_get_i32_be(be(v)) = [value |-> v, rest |-> s]
             /\ bs_get_i32_le(le(v)) = [value |-> v, rest |-> s]
  <2>1. bs_get_i32_be(be(v)) = Get(v, be(v), 4) BY <1>4, <1>3, Zenon DEF bs_get_i32_be
  <2>2. bs_get_i32_le(le(v)) = Get(v, le(v), 4) BY <1>4, <1>3, Zenon DEF bs_get_i32_le
  <2> QED BY <1>4, <2>1, <2>2, GetIs, ZenonT(60)
<1> QED BY <1>5, <1>6 DEF be, le, bs_put_i32_be, bs_put_i32_le

\* Whatever a bs_put function of byte_stream.h wrote, its bs_get function reads
\* back and leaves what follows, for every value of the format's type.
THEOREM MeasurementsSurvive ==
  ASSUME NEW S, NEW s \in Seq(S), NEW f \in DOMAIN ValuesOf, NEW v \in ValuesOf[f]
  PROVE  Read(f, Written([format |-> f, value |-> v]).bytes \o s) = [value |-> v, rest |-> s]
<1>1. CASE f = "u8"
  BY <1>1, BytesSurvive DEF Read, Written, ValuesOf
<1>2. CASE f = "i8"
  BY <1>2, BytesSurvive DEF Read, Written, ValuesOf
<1>3. CASE f = "u16_be"
  BY <1>3, HalfWordsSurvive DEF Read, Written, ValuesOf
<1>4. CASE f = "u16_le"
  BY <1>4, HalfWordsSurvive DEF Read, Written, ValuesOf
<1>5. CASE f = "i16_be"
  BY <1>5, HalfWordsSurvive DEF Read, Written, ValuesOf
<1>6. CASE f = "i16_le"
  BY <1>6, HalfWordsSurvive DEF Read, Written, ValuesOf
<1>7. CASE f = "u32_be"
  BY <1>7, WordsSurvive DEF Read, Written, ValuesOf
<1>8. CASE f = "u32_le"
  BY <1>8, WordsSurvive DEF Read, Written, ValuesOf
<1>9. CASE f = "i32_be"
  BY <1>9, WordsSurvive DEF Read, Written, ValuesOf
<1>10. CASE f = "i32_le"
  BY <1>10, WordsSurvive DEF Read, Written, ValuesOf
<1> QED BY <1>1, <1>2, <1>3, <1>4, <1>5, <1>6, <1>7, <1>8, <1>9, <1>10 DEF ValuesOf
-----------------------------------------------------------------------------
(* The width of a sequence: the sum of the widths of its elements.         *)

Weights(s) == [i \in 1 .. Len(s) |-> WidthOf(s[i])]

\* The function that the fold recurses with.
Weighs(g, s) ==
  g = [t \in SUBSET DOMAIN s |-> IF t = {} THEN 0
         ELSE g[t \ {CHOOSE x \in t : TRUE}] + WidthOf(s[CHOOSE x \in t : TRUE])]

\* Whatever is in memory counts one byte at least.
LEMMA WidthOfAny == \A x : WidthOf(x) \in Nat /\ (x \in Element => WidthOf(x) >= 1)
<1>1. ASSUME NEW x \in DOMAIN TextLen
      PROVE  WidthOf(x) \in Nat /\ (x \in Element => WidthOf(x) >= 1)
  <2>1. WidthOf(x) = TextLen[x] /\ TextLen[x] \in Nat
    BY TextAssumption, Zenon DEF TextAssumption, WidthOf
  <2>2. x \in Element => TextLen[x] > 0
    BY TextAssumption DEF TextAssumption, Element
  <2> QED BY <2>1, <2>2
<1>2. ASSUME NEW x, x \notin DOMAIN TextLen PROVE WidthOf(x) = 1
  BY <1>2 DEF WidthOf
<1> QED BY <1>1, <1>2

\* The widths of the elements of a sequence are numbers.
LEMMA WeightsAre == \A s : Weights(s) \in [1 .. Len(s) -> Nat]
  BY WidthOfAny DEF Weights

\* The partial sums, and that the last is the width.
Partial(P, s) == /\ P \in [0 .. Len(s) -> Nat]
                 /\ P[0] = 0 /\ P[Len(s)] = Width(s)
                 /\ \A k \in 1 .. Len(s) : P[k] = P[k - 1] + WidthOf(s[k])

\* The fold that is the width is the last of the partial sums.
LEMMA WidthIsPartial ==
  ASSUME NEW S, NEW s \in Seq(S)
  PROVE  \E P : Partial(P, s)
<1> DEFINE n == Len(s)
           w == Weights(s)
           g0 == CHOOSE g : Weighs(g, s)
<1>1. n \in Nat /\ DOMAIN s = 1 .. n /\ w \in [1 .. n -> Nat]
  BY WeightsAre
<1>2. Width(s) = g0[1 .. n]
  <2>1. Width(s) = (CHOOSE g : Weighs(g, s))[DOMAIN s]
    BY Zenon DEF Width, FoldSeq, FoldFunction, FoldFunctionOnSet, MapThenFoldSet, Weighs
  <2> QED BY <1>1, <2>1
<1>3. \E g : Weighs(g, s)
  <2>1. PICK g \in [SUBSET (1 .. n) -> Nat] : Sums(g, n, w)
    BY <1>1, SumExists
  <2>2. \A t \in SUBSET (1 .. n) :
          g[t] = IF t = {} THEN 0 ELSE g[t \ {CHOOSE x \in t : TRUE}] + WidthOf(s[CHOOSE x \in t : TRUE])
    BY <2>1 DEF Sums, Weights
  <2> QED BY <1>1, <2>2 DEF Weighs
<1>4. Weighs(g0, s)
  BY <1>3
<1> HIDE DEF g0
<1>5. Sums(g0, n, w)
  BY <1>1, <1>4 DEF Weighs, Sums, Weights
<1>6. g0 \in [SUBSET (1 .. n) -> Nat]
  <2>1. \A t \in SUBSET (1 .. n) : g0[t] \in Nat
    BY <1>1, <1>5, SumStays
  <2> QED BY <1>1, <1>4, <2>1 DEF Weighs
<1>7. g0[1 .. 0] = 0 /\ \A k \in 1 .. n : g0[1 .. k] = g0[1 .. k - 1] + w[k]
  BY <1>1, <1>5, <1>6, SumUpto
<1> DEFINE P == [k \in 0 .. n |-> g0[1 .. k]]
<1>8. P \in [0 .. n -> Nat] /\ P[0] = 0 /\ P[n] = Width(s)
  BY <1>1, <1>2, <1>6, <1>7
<1>9. \A k \in 1 .. n : P[k] = P[k - 1] + WidthOf(s[k])
  BY <1>1, <1>7 DEF Weights
<1> HIDE DEF P
<1> QED BY <1>8, <1>9 DEF Partial

\* Partial sums of sequences that agree so far are the same so far.
LEMMA PartialAgree ==
  ASSUME NEW s, NEW t, Len(s) \in Nat, Len(t) \in Nat, NEW P, Partial(P, s), NEW Q, Partial(Q, t),
         NEW n \in Nat, n <= Len(s), n <= Len(t), \A k \in 1 .. n : s[k] = t[k]
  PROVE  \A k \in 0 .. n : P[k] = Q[k]
<1> DEFINE T == {k \in Nat : k <= n => P[k] = Q[k]}
<1>1. 0 \in T
  BY DEF Partial
<1>2. ASSUME NEW k \in Nat, k \in T PROVE k + 1 \in T
  <2> SUFFICES ASSUME k + 1 <= n PROVE P[k + 1] = Q[k + 1]
    OBVIOUS
  <2>1. k + 1 \in 1 .. Len(s) /\ k + 1 \in 1 .. Len(t) /\ k + 1 \in 1 .. n /\ (k + 1) - 1 = k
    OBVIOUS
  <2>2. P[k + 1] = P[k] + WidthOf(s[k + 1]) /\ Q[k + 1] = Q[k] + WidthOf(t[k + 1])
    BY <2>1 DEF Partial
  <2> QED BY <1>2, <2>1, <2>2
<1> HIDE DEF T
<1>3. Nat \subseteq T
  BY <1>1, <1>2, InductionOnSets
<1> QED BY <1>3 DEF T

\* Nothing counts nothing.
LEMMA WidthNone == Width(<<>>) = 0
<1>0. <<>> \in Seq({})
  OBVIOUS
<1>1. PICK P : Partial(P, <<>>)
  BY <1>0, WidthIsPartial
<1> QED BY <1>1 DEF Partial

\* An element more counts as much as it stands for.
LEMMA WidthMore ==
  ASSUME NEW S, NEW s \in Seq(S), NEW x
  PROVE  Width(Append(s, x)) = Width(s) + WidthOf(x) /\ Width(s) \in Nat
<1> DEFINE T == S \cup {x}
           t == Append(s, x)
           n == Len(s)
<1>1. s \in Seq(T) /\ t \in Seq(T) /\ n \in Nat /\ Len(t) = n + 1 /\ t[n + 1] = x
      /\ \A k \in 1 .. n : s[k] = t[k]
  OBVIOUS
<1>2. PICK P : Partial(P, s)
  BY <1>1, WidthIsPartial
<1>3. PICK Q : Partial(Q, t)
  BY <1>1, WidthIsPartial
<1> HIDE DEF t, T
<1>4. \A k \in 0 .. n : P[k] = Q[k]
  BY <1>1, <1>2, <1>3, PartialAgree
<1>5. P[n] = Width(s) /\ Width(s) \in Nat
  BY <1>1, <1>2 DEF Partial
<1>6. n + 1 \in 1 .. Len(t) /\ (n + 1) - 1 = n
  BY <1>1
<1>7. Width(t) = Q[n] + WidthOf(x)
  BY <1>1, <1>3, <1>6 DEF Partial
<1> QED BY <1>1, <1>4, <1>5, <1>7 DEF t

\* The width of two sequences joined is the sum of theirs.
LEMMA WidthJoin ==
  ASSUME NEW S, NEW a \in Seq(S), NEW b \in Seq(S)
  PROVE  /\ Width(a \o b) = Width(a) + Width(b)
         /\ Width(a) \in Nat /\ Width(b) \in Nat
<1> DEFINE Pre(k) == SubSeq(b, 1, k)
           T == {k \in Nat : k <= Len(b) => Width(a \o Pre(k)) = Width(a) + Width(Pre(k))}
<1>0. Len(b) \in Nat /\ Width(a) \in Nat /\ Width(b) \in Nat
  BY WidthMore
<1>1. 0 \in T
  <2>1. Pre(0) = <<>> /\ a \o Pre(0) = a
    OBVIOUS
  <2> HIDE DEF Pre
  <2>2. Width(a \o Pre(0)) = Width(a) + Width(Pre(0))
    <3>1. Width(Pre(0)) = 0 /\ Width(a \o Pre(0)) = Width(a)
      BY <2>1, WidthNone, Zenon
    <3> QED BY <1>0, <3>1
  <2> QED BY <2>2
<1>2. ASSUME NEW k \in Nat, k \in T PROVE k + 1 \in T
  <2> SUFFICES ASSUME k + 1 <= Len(b) PROVE Width(a \o Pre(k + 1)) = Width(a) + Width(Pre(k + 1))
    OBVIOUS
  <2>1. Pre(k + 1) = Append(Pre(k), b[k + 1]) /\ Pre(k) \in Seq(S)
    OBVIOUS
  <2>2. Width(a \o Pre(k)) = Width(a) + Width(Pre(k))
    BY <1>0, <1>2
  <2> DEFINE p == Pre(k)
             x == b[k + 1]
  <2>3. p \in Seq(S) /\ Pre(k + 1) = Append(p, x)
    BY <2>1
  <2> HIDE DEF p, x
  <2>4. a \o Append(p, x) = Append(a \o p, x) /\ a \o p \in Seq(S)
    BY <2>3
  <2>5. Width(a \o Append(p, x)) = Width(a \o p) + WidthOf(x)
    BY <2>4, WidthMore
  <2>6. Width(Append(p, x)) = Width(p) + WidthOf(x) /\ Width(p) \in Nat /\ WidthOf(x) \in Nat
    BY <2>3, WidthMore, WidthOfAny
  <2>7. Width(a \o p) = Width(a) + Width(p)
    BY <2>2 DEF p
  <2>8. (Width(a) + Width(p)) + WidthOf(x) = Width(a) + (Width(p) + WidthOf(x))
    BY <1>0, <2>6
  <2> QED BY <2>3, <2>5, <2>6, <2>7, <2>8
<1>3. Len(b) \in T
  <2> HIDE DEF T
  <2> QED BY <1>0, <1>1, <1>2, InductionOnSets
<1>4. Pre(Len(b)) = b
  OBVIOUS
<1> HIDE DEF Pre
<1>5. Width(a \o Pre(Len(b))) = Width(a) + Width(Pre(Len(b)))
  BY <1>0, <1>3
<1> QED BY <1>0, <1>4, <1>5
-----------------------------------------------------------------------------
(* Fields: a byte counts for one, and what a field takes from the front of *)
(* a sequence is what was put there.                                       *)

\* A sequence grows by one element at its end.
LEMMA OneMore ==
  ASSUME NEW S, NEW a \in S, NEW b \in S, NEW c \in S
  PROVE  /\ Append(<<>>, a) = <<a>>
         /\ Append(<<a>>, b) = <<a, b>>
         /\ Append(<<a, b>>, c) = <<a, b, c>>
<1>1. Append(<<>>, a) = <<a>>
  OBVIOUS
<1>2. ASSUME NEW t \in Seq(S), Len(t) = 2, t[1] = a, t[2] = b PROVE t = <<a, b>>
  BY <1>2
<1>3. ASSUME NEW t \in Seq(S), Len(t) = 3, t[1] = a, t[2] = b, t[3] = c PROVE t = <<a, b, c>>
  BY <1>3
<1>4. LET t == Append(<<a>>, b) IN t \in Seq(S) /\ Len(t) = 2 /\ t[1] = a /\ t[2] = b
  OBVIOUS
<1>5. LET t == Append(<<a, b>>, c)
      IN  t \in Seq(S) /\ Len(t) = 3 /\ t[1] = a /\ t[2] = b /\ t[3] = c
  OBVIOUS
<1>6. Append(<<a>>, b) = <<a, b>>
  BY <1>2, <1>4, Zenon
<1>7. Append(<<a, b>>, c) = <<a, b, c>>
  BY <1>3, <1>5, Zenon
<1> QED BY <1>1, <1>6, <1>7, Zenon

\* The same for the fourth element.
LEMMA FourthMore ==
  ASSUME NEW S, NEW a \in S, NEW b \in S, NEW c \in S, NEW d \in S
  PROVE  Append(<<a, b, c>>, d) = <<a, b, c, d>>
<1> DEFINE t == Append(<<a, b, c>>, d)
<1>1. t \in Seq(S) /\ Len(t) = 4 /\ t[1] = a /\ t[2] = b /\ t[3] = c /\ t[4] = d
  OBVIOUS
<1> HIDE DEF t
<1>2. t = <<a, b, c, d>>
  BY <1>1
<1> QED BY <1>2 DEF t

\* Where a sequence is cut before the end of the first of two joined, and after.
LEMMA CutBefore ==
  ASSUME NEW S, NEW b \in Seq(S), NEW r \in Seq(S), NEW k \in Nat, k < Len(b)
  PROVE  /\ SubSeq(b \o r, 1, k) \in Seq(S) /\ SubSeq(b, k + 1, Len(b)) \in Seq(S)
         /\ SubSeq(b, k + 1, Len(b)) # <<>>
         /\ b = SubSeq(b \o r, 1, k) \o SubSeq(b, k + 1, Len(b))
<1> DEFINE x == SubSeq(b \o r, 1, k)
           y == SubSeq(b, k + 1, Len(b))
           n == Len(b)
           z == Join(x, y)
<1>1. /\ x \in Seq(S) /\ Len(x) = k /\ \A i \in 1 .. k : x[i] = b[i]
      /\ y \in Seq(S) /\ Len(y) = n - k /\ \A i \in 1 .. n - k : y[i] = b[k + i]
      /\ n \in Nat
  BY SMTT(40)
<1> HIDE DEF x, y
<1>2. /\ z \in Seq(S) /\ Len(z) = k + (n - k)
      /\ \A i \in 1 .. k : z[i] = x[i]
      /\ \A i \in 1 .. n - k : z[k + i] = y[i]
  <2>1. /\ z \in Seq(S) /\ Len(z) = Len(x) + Len(y)
        /\ \A i \in 1 .. Len(x) : z[i] = x[i]
        /\ \A i \in 1 .. Len(y) : z[Len(x) + i] = y[i]
    <3>1. x \in Seq(S) /\ y \in Seq(S)
      BY <1>1
    <3> HIDE DEF n
    <3>2. Join(x, y) \in Seq(S) /\ Len(Join(x, y)) = Len(x) + Len(y)
      BY <3>1, JoinAt
    <3>3. \A i \in 1 .. Len(x) : Join(x, y)[i] = x[i]
      BY <3>1, JoinLeft
    <3>4. \A i \in 1 .. Len(y) : Join(x, y)[Len(x) + i] = y[i]
      BY <3>1, JoinRight
    <3> QED BY <3>2, <3>3, <3>4, Zenon
  <2> HIDE DEF z, n
  <2> QED BY <1>1, <2>1, Zenon
<1> HIDE DEF n, z
<1>3. ASSUME NEW i \in 1 .. n PROVE z[i] = b[i]
  <2>1. CASE i <= k
    BY <1>1, <1>2, <2>1
  <2>2. CASE i > k
    <3>1. i - k \in 1 .. n - k /\ k + (i - k) = i
      BY <1>1, <2>2
    <3>2. z[k + (i - k)] = b[k + (i - k)]
      BY <1>1, <1>2, <3>1, Zenon
    <3> QED BY <3>1, <3>2
  <2> QED BY <1>1, <2>1, <2>2
<1>4. b = z
  <2>1. Len(z) = n
    BY <1>1, <1>2
  <2>2. Len(b) = n
    BY DEF n
  <2> QED BY <1>2, <1>3, <2>1, <2>2
<1>5. y # <<>>
  <2>1. Len(y) >= 1
    BY <1>1 DEF n
  <2> QED BY <1>1, <2>1
<1> QED BY <1>1, <1>4, <1>5 DEF x, y, z, Join

\* A cut past the first of two sequences takes some of the second.
LEMMA CutAfter ==
  ASSUME NEW S, NEW b \in Seq(S), NEW r \in Seq(S), NEW k \in Nat, k > Len(b), k <= Len(b \o r)
  PROVE  /\ SubSeq(r, 1, k - Len(b)) \in Seq(S)
         /\ SubSeq(r, 1, k - Len(b)) # <<>>
         /\ SubSeq(b \o r, 1, k) = b \o SubSeq(r, 1, k - Len(b))
<1> DEFINE x == SubSeq(b \o r, 1, k)
           y == SubSeq(r, 1, k - Len(b))
           n == Len(b)
<1>1. /\ x \in Seq(S) /\ Len(x) = k /\ \A i \in 1 .. k : x[i] = (b \o r)[i]
      /\ y \in Seq(S) /\ Len(y) = k - n /\ \A i \in 1 .. k - n : y[i] = r[i]
      /\ n \in Nat /\ k - n \in Nat /\ k - n >= 1
  OBVIOUS
<1>2. \A i \in 1 .. k : (b \o r)[i] = IF i <= n THEN b[i] ELSE r[i - n]
  OBVIOUS
<1> DEFINE z == b \o y
<1>3. z \in Seq(S) /\ Len(z) = n + (k - n)
      /\ \A i \in 1 .. k : z[i] = IF i <= n THEN b[i] ELSE y[i - n]
  BY <1>1
<1> HIDE DEF x, y, z
<1>4. ASSUME NEW i \in 1 .. k PROVE x[i] = z[i]
  <2>1. CASE i <= n
    BY <1>1, <1>2, <1>3, <2>1
  <2>2. CASE i > n
    <3>1. i - n \in 1 .. k - n
      BY <1>1, <2>2
    <3> QED BY <1>1, <1>2, <1>3, <2>2, <3>1
  <2> QED BY <1>1, <2>1, <2>2
<1>5. x = z
  BY <1>1, <1>3, <1>4
<1>6. y # <<>>
  BY <1>1
<1> QED BY <1>1, <1>5, <1>6 DEF x, y, z

\* Bytes are elements, and up to four of them count one each.
LEMMA BytesCount ==
  /\ \A a \in uint8_t : a \in Element /\ WidthOf(a) = 1
  /\ \A a \in uint8_t : <<a>> \in Seq(Element) /\ Width(<<a>>) = 1
  /\ \A a, b \in uint8_t : <<a, b>> \in Seq(Element) /\ Width(<<a, b>>) = 2
  /\ \A a, b, c \in uint8_t : <<a, b, c>> \in Seq(Element) /\ Width(<<a, b, c>>) = 3
  /\ \A a, b, c, d \in uint8_t : <<a, b, c, d>> \in Seq(Element) /\ Width(<<a, b, c, d>>) = 4
<1>1. ASSUME NEW a \in uint8_t PROVE a \in Element /\ WidthOf(a) = 1
  <2>1. a \notin DOMAIN TextLen
    BY TextAssumption DEF TextAssumption, uint8_t
  <2> QED BY <2>1 DEF Element, WidthOf, uint8_t
<1>2. ASSUME NEW s \in Seq(Element), NEW a \in uint8_t
      PROVE  Append(s, a) \in Seq(Element) /\ Width(Append(s, a)) = Width(s) + 1 /\ Width(s) \in Nat
  BY <1>1, WidthMore
<1> HIDE DEF uint8_t, Element
<1>3. <<>> \in Seq(Element) /\ Width(<<>>) = 0
  BY WidthNone
<1>4. ASSUME NEW a \in uint8_t
      PROVE  <<a>> \in Seq(Element) /\ Width(<<a>>) = 1
  <2>1. Append(<<>>, a) = <<a>>
    BY OneMore, Zenon
  <2>2. <<a>> \in Seq(Element) /\ Width(<<a>>) = Width(<<>>) + 1
    BY <1>2, <1>3, <2>1, Zenon
  <2>3. Width(<<>>) = 0
    BY <1>3, Zenon
  <2> QED BY <2>2, <2>3
<1>5. ASSUME NEW a \in uint8_t, NEW b \in uint8_t
      PROVE  <<a, b>> \in Seq(Element) /\ Width(<<a, b>>) = 2
  <2>1. Append(<<a>>, b) = <<a, b>>
    BY OneMore, Zenon
  <2>2. <<a, b>> \in Seq(Element) /\ Width(<<a, b>>) = Width(<<a>>) + 1
    BY <1>2, <1>4, <2>1, Zenon
  <2>3. Width(<<a>>) = 1
    BY <1>4, Zenon
  <2> QED BY <2>2, <2>3
<1>6. ASSUME NEW a \in uint8_t, NEW b \in uint8_t, NEW c \in uint8_t
      PROVE  <<a, b, c>> \in Seq(Element) /\ Width(<<a, b, c>>) = 3
  <2>1. Append(<<a, b>>, c) = <<a, b, c>>
    BY OneMore, Zenon
  <2>2. <<a, b, c>> \in Seq(Element) /\ Width(<<a, b, c>>) = Width(<<a, b>>) + 1
    BY <1>2, <1>5, <2>1, Zenon
  <2>3. Width(<<a, b>>) = 2
    BY <1>5, Zenon
  <2> QED BY <2>2, <2>3
<1>7. ASSUME NEW a \in uint8_t, NEW b \in uint8_t, NEW c \in uint8_t, NEW d \in uint8_t
      PROVE  <<a, b, c, d>> \in Seq(Element) /\ Width(<<a, b, c, d>>) = 4
  <2>1. Append(<<a, b, c>>, d) = <<a, b, c, d>>
    BY FourthMore, Zenon
  <2>2. <<a, b, c, d>> \in Seq(Element) /\ Width(<<a, b, c, d>>) = Width(<<a, b, c>>) + 1
    BY <1>2, <1>6, <2>1, Zenon
  <2>3. Width(<<a, b, c>>) = 3
    BY <1>6, Zenon
  <2> QED BY <2>2, <2>3
<1> QED BY <1>1, <1>4, <1>5, <1>6, <1>7

\* A sequence that is not empty counts one byte at least.
LEMMA SomethingCounts ==
  ASSUME NEW s \in Seq(Element), s # <<>>
  PROVE  Width(s) >= 1
<1> DEFINE n == Len(s)
           p == SubSeq(s, 1, n - 1)
<1>1. n \in Nat /\ n >= 1 /\ p \in Seq(Element) /\ s[n] \in Element /\ s = Append(p, s[n])
  OBVIOUS
<1> HIDE DEF p, n
<1>2. Width(s) = Width(p) + WidthOf(s[n]) /\ Width(p) \in Nat
  BY <1>1, WidthMore, Zenon
<1>3. WidthOf(s[n]) \in Nat /\ WidthOf(s[n]) >= 1
  BY <1>1, WidthOfAny
<1> QED BY <1>2, <1>3

\* As many bytes as a sequence counts, taken from its front, are the sequence.
LEMMA CutHere ==
  ASSUME NEW b \in Seq(Element), NEW r \in Seq(Element)
  PROVE  TakeBytes(b \o r, Width(b)) = [value |-> [bytes |-> b, len |-> Width(b)], rest |-> r]
<1> DEFINE s == b \o r
           n == Len(b)
           fits == {k \in 0 .. Len(s) : Width(SubSeq(s, 1, k)) = Width(b)}
<1>1. n \in Nat /\ Len(s) \in Nat /\ n <= Len(s) /\ SubSeq(s, 1, n) = b /\ SubSeq(s, n + 1, Len(s)) = r
  OBVIOUS
<1>2. ASSUME NEW k \in 0 .. Len(s), k < n PROVE Width(SubSeq(s, 1, k)) # Width(b)
  <2> DEFINE x == SubSeq(s, 1, k)
             y == SubSeq(b, k + 1, n)
  <2>0. k \in Nat /\ k < Len(b)
    BY <1>2
  <2>1. x \in Seq(Element) /\ y \in Seq(Element) /\ y # <<>> /\ b = x \o y
    BY <2>0, CutBefore, ZenonT(60)
  <2> HIDE DEF x, y, s, n
  <2>2. Width(b) = Width(x) + Width(y) /\ Width(x) \in Nat /\ Width(y) \in Nat
    BY <2>1, WidthJoin
  <2>3. Width(y) >= 1
    BY <2>1, SomethingCounts
  <2>4. Width(x) # Width(b)
    BY <2>2, <2>3
  <2> QED BY <2>4 DEF x
<1>3. ASSUME NEW k \in 0 .. Len(s), k > n PROVE Width(SubSeq(s, 1, k)) # Width(b)
  <2> DEFINE x == SubSeq(s, 1, k)
             y == SubSeq(r, 1, k - n)
  <2>0. k \in Nat /\ k > Len(b) /\ k <= Len(b \o r)
    BY <1>3
  <2>1. y \in Seq(Element) /\ y # <<>> /\ x = b \o y
    BY <2>0, CutAfter, Zenon
  <2> HIDE DEF x, y, s, n
  <2>2. Width(x) = Width(b) + Width(y) /\ Width(b) \in Nat /\ Width(y) \in Nat
    BY <2>1, WidthJoin
  <2>3. Width(y) >= 1
    BY <2>1, SomethingCounts
  <2>4. Width(x) # Width(b)
    BY <2>2, <2>3
  <2> QED BY <2>4 DEF x
<1> HIDE DEF s, n
<1>4. fits = {n}
  <2>1. n \in fits
    <3>1. n \in 0 .. Len(s)
      BY <1>1
    <3> QED BY <1>1, <3>1, Zenon
  <2>2. ASSUME NEW k \in fits PROVE k = n
    <3>1. k \in 0 .. Len(s) /\ Width(SubSeq(s, 1, k)) = Width(b)
      OBVIOUS
    <3> HIDE DEF fits
    <3>2. ~ (k < n) /\ ~ (k > n)
      BY <1>2, <1>3, <3>1
    <3> QED BY <1>1, <3>1, <3>2
  <2> HIDE DEF fits
  <2> QED BY <2>1, <2>2
<1>5. Max(fits) = n
  <2>1. Max({n}) = n
    BY <1>1 DEF Max
  <2> QED BY <1>4, <2>1
<1> DEFINE result == TakeBytes(s, Width(b))
<1>6. result = Get([bytes |-> SubSeq(s, 1, Max(fits)), len |-> Width(b)], s, Max(fits))
  <2>1. \E k \in 0 .. Len(s) : Width(SubSeq(s, 1, k)) = Width(b)
    <3>1. n \in 0 .. Len(s) /\ Width(SubSeq(s, 1, n)) = Width(b)
      BY <1>1, <1>4
    <3> QED BY <3>1, Zenon
  <2>2. result = bs_get_bytes(s, Width(b))
    BY <2>1, Zenon DEF TakeBytes
  <2>3. bs_get_bytes(s, Width(b)) = Get([bytes |-> SubSeq(s, 1, Max(fits)), len |-> Width(b)], s, Max(fits))
    BY Zenon DEF bs_get_bytes
  <2> QED BY <2>2, <2>3, Zenon
<1> HIDE DEF fits
<1>7. result = [value |-> [bytes |-> b, len |-> Width(b)], rest |-> r]
  BY <1>1, <1>5, <1>6, Zenon DEF Get
<1> QED BY <1>7 DEF s, result

\* Three sequences joined, and their type.
LEMMA JoinAssociates ==
  ASSUME NEW S, NEW a \in Seq(S), NEW b \in Seq(S), NEW c \in Seq(S)
  PROVE  (a \o b) \o c = a \o (b \o c) /\ a \o b \in Seq(S) /\ b \o c \in Seq(S)
OBVIOUS

\* The same for what is in memory.
LEMMA MemoryJoins ==
  \A a, b, c \in Seq(Element) : (a \o b) \o c = a \o (b \o c)
OBVIOUS

\* What a text is, taken apart.
LEMMA TextIs ==
  ASSUME NEW s, IsText(s)
  PROVE  /\ s.bytes \in Seq(Element) /\ s.len \in Nat /\ s.len = Width(s.bytes)
         /\ s = [bytes |-> s.bytes, len |-> s.len] /\ s # NULL
  BY TextAssumption DEF IsText, TextAssumption

\* A string as mqtt.c writes it: its length in two bytes, and its bytes.
Str(s) == Bytes2(s.len) \o s.bytes

\* The two bytes of a length or an identifier.
LEMMA HalfWord ==
  ASSUME NEW v \in Int
  PROVE  Bytes2(v) \in Seq(Element) /\ Width(Bytes2(v)) = 2
<1>1. (v \div 256) % 256 \in uint8_t /\ v % 256 \in uint8_t
  BY DEF uint8_t
<1> QED BY <1>1, BytesCount DEF Bytes2

\* Two bytes that were put before something are read, and leave it.
LEMMA HalfWordRead ==
  ASSUME NEW v \in uint16_t, NEW q \in Seq(Element)
  PROVE  bs_get_u16_be(Bytes2(v) \o q) = [value |-> v, rest |-> q]
<1>1. bs_put_u16_be(Fresh, v).bytes = Bytes2(v)
  BY SMT DEF bs_put_u16_be, Put, Fresh, Bytes2
<1>2. bs_get_u16_be(bs_put_u16_be(Fresh, v).bytes \o q) = [value |-> v, rest |-> q]
  BY HalfWordsSurvive, Zenon
<1> QED BY <1>1, <1>2, Zenon

\* A string with its length before it counts two bytes more.
LEMMA StrIs ==
  ASSUME NEW s, IsText(s)
  PROVE  Str(s) \in Seq(Element) /\ Width(Str(s)) = 2 + s.len
<1>1. Bytes2(s.len) \in Seq(Element) /\ Width(Bytes2(s.len)) = 2
  BY TextIs, HalfWord
<1>2. s.bytes \in Seq(Element) /\ Width(s.bytes) = s.len
  BY TextIs
<1> DEFINE h == Bytes2(s.len)
           t == s.bytes
<1> HIDE DEF h, t
<1>3. h \o t \in Seq(Element) /\ Width(h \o t) = Width(h) + Width(t)
  BY <1>1, <1>2, WidthJoin DEF h, t
<1> QED BY <1>1, <1>2, <1>3 DEF Str, h, t

\* A string that a builder wrote is what the reader gets, with what follows.
LEMMA StringRead ==
  ASSUME NEW s, IsText(s), s.len \in uint16_t, NEW r \in Seq(Element)
  PROVE  GetString(Str(s) \o r) = [value |-> s, rest |-> r]
<1> DEFINE h == Bytes2(s.len)
           b == s.bytes
           q == b \o r
           t == h \o q
<1>1. h \in Seq(Element) /\ b \in Seq(Element) /\ s.len \in uint16_t /\ Width(b) = s.len
  BY TextIs, HalfWord
<1>2. Len(h) = 2
  BY DEF Bytes2
<1> HIDE DEF h, b
<1>3. Str(s) \o r = t /\ q \in Seq(Element)
  <2>1. (h \o b) \o r = h \o (b \o r) /\ b \o r \in Seq(Element)
    BY <1>1, JoinAssociates
  <2> QED BY <2>1, Zenon DEF Str, h, b
<1> HIDE DEF q
<1>4. Len(t) >= 2
  <2>1. Len(h \o q) = Len(h) + Len(q) /\ Len(q) \in Nat
    BY <1>1, <1>3
  <2>2. Len(t) = 2 + Len(q)
    BY <1>2, <2>1, Zenon
  <2> HIDE DEF t
  <2> QED BY <2>1, <2>2
<1>5. bs_get_u16_be(t) = [value |-> s.len, rest |-> q]
  <2>1. bs_get_u16_be(Bytes2(s.len) \o q) = [value |-> s.len, rest |-> q]
    BY <1>1, <1>3, HalfWordRead, Zenon
  <2> QED BY <2>1 DEF h
<1>6. TakeBytes(q, s.len) = [value |-> s, rest |-> r]
  <2>1. TakeBytes(q, Width(b)) = [value |-> [bytes |-> b, len |-> Width(b)], rest |-> r]
    BY <1>1, CutHere, Zenon DEF q
  <2>2. s = [bytes |-> b, len |-> Width(b)]
    BY <1>1, TextIs, Zenon DEF b
  <2> QED BY <1>1, <2>1, <2>2, Zenon
<1>7. GetString(t) = TakeBytes(bs_get_u16_be(t).rest, bs_get_u16_be(t).value)
  <2>1. ~ (Len(t) < 2)
    BY <1>1, <1>2, <1>3, <1>4
  <2> QED BY <2>1, Zenon DEF GetString
<1> HIDE DEF t
<1>8. bs_get_u16_be(t).rest = q /\ bs_get_u16_be(t).value = s.len
  BY <1>5
<1> QED BY <1>3, <1>6, <1>7, <1>8, Zenon
-----------------------------------------------------------------------------
(* What the writers leave: as many bytes as the offset says.               *)

Filled(w) == w.bytes \in Seq(Element) /\ w.off \in Nat /\ Width(w.bytes) = w.off

\* A put of bytes moves the offset by as many.
LEMMA PutFills ==
  ASSUME NEW b \in Seq(Element), Len(b) \in Nat, Width(b) = Len(b)
  PROVE  Put(Fresh, b).bytes = b /\ Filled(Put(Fresh, b))
<1>1. <<>> \o b = b /\ 0 + Len(b) = Len(b)
  OBVIOUS
<1>2. Put(Fresh, b) = [bytes |-> b, off |-> Len(b)]
  BY <1>1, Zenon DEF Put, Fresh
<1> QED BY <1>2 DEF Filled

\* So does every put of an integer.
LEMMA WordsFill ==
  ASSUME NEW v \in Int
  PROVE  /\ Filled(bs_put_u8(Fresh, v))
         /\ Filled(bs_put_u16_be(Fresh, v)) /\ Filled(bs_put_u16_le(Fresh, v))
         /\ Filled(bs_put_u32_be(Fresh, v)) /\ Filled(bs_put_u32_le(Fresh, v))
<1>1. /\ v % 256 \in uint8_t /\ (v \div 256) % 256 \in uint8_t
      /\ (v \div 65536) % 256 \in uint8_t /\ (v \div 16777216) % 256 \in uint8_t
  BY DEF uint8_t
<1>2. ASSUME NEW b, b \in {<<v % 256>>, Bytes2(v), Flip2(Bytes2(v)), Bytes4(v), Flip4(Bytes4(v))}
      PROVE  b \in Seq(Element) /\ Len(b) \in Nat /\ Width(b) = Len(b)
  <2> DEFINE p == v % 256
             q == (v \div 256) % 256
             x == (v \div 65536) % 256
             y == (v \div 16777216) % 256
  <2>1. b \in {<<p>>, <<q, p>>, <<p, q>>, <<y, x, q, p>>, <<p, q, x, y>>}
    BY <1>2 DEF Bytes2, Flip2, Bytes4, Flip4
  <2>2. p \in uint8_t /\ q \in uint8_t /\ x \in uint8_t /\ y \in uint8_t
    BY <1>1
  <2> HIDE DEF p, q, x, y
  <2>3. CASE b = <<p>>
    BY <2>2, <2>3, BytesCount
  <2>4. /\ <<q, p>> \in Seq(Element) /\ Width(<<q, p>>) = 2
        /\ <<p, q>> \in Seq(Element) /\ Width(<<p, q>>) = 2
    BY <2>2, BytesCount
  <2>5. /\ <<y, x, q, p>> \in Seq(Element) /\ Width(<<y, x, q, p>>) = 4
        /\ <<p, q, x, y>> \in Seq(Element) /\ Width(<<p, q, x, y>>) = 4
    BY <2>2, BytesCount
  <2>6. /\ Len(<<q, p>>) = 2 /\ Len(<<p, q>>) = 2
        /\ Len(<<y, x, q, p>>) = 4 /\ Len(<<p, q, x, y>>) = 4 /\ 2 \in Nat /\ 4 \in Nat
    OBVIOUS
  <2> QED BY <2>1, <2>3, <2>4, <2>5, <2>6, Zenon
<1> QED BY <1>2, PutFills, ZenonT(60) DEF bs_put_u8, bs_put_u16_be, bs_put_u16_le, bs_put_u32_be, bs_put_u32_le

\* The values of every format but the string are integers.
LEMMA ValuesAreIntegers == \A f \in DOMAIN ValuesOf : \A v \in ValuesOf[f] : v \in Int
<1>1. \A v : \/ v \in uint8_t \/ v \in int8_t \/ v \in uint16_t \/ v \in int16_t
             \/ v \in uint32_t \/ v \in int32_t
             => v \in Int
  BY DEF uint8_t, int8_t, uint16_t, int16_t, uint32_t, int32_t
<1>2. ASSUME NEW f \in DOMAIN ValuesOf
      PROVE  ValuesOf[f] \in {uint8_t, int8_t, uint16_t, int16_t, uint32_t, int32_t}
  BY DEF ValuesOf
<1> QED BY <1>1, <1>2, Zenon

\* A string with its 8-bit length before it moves the offset by as many bytes
\* as it counts.
LEMMA StringFills ==
  ASSUME NEW s, IsText(s), s.len \in uint8_t
  PROVE  /\ bs_put_str_u8(Fresh, s).bytes = <<s.len>> \o s.bytes
         /\ Filled(bs_put_str_u8(Fresh, s))
<1> DEFINE h == <<s.len>>
           b == s.bytes
<1>1. s.len \in Nat /\ (s.len % 256) % 256 = s.len
  BY DEF uint8_t
<1>2. h \in Seq(Element) /\ Width(h) = 1
  BY BytesCount
<1>3. b \in Seq(Element) /\ Width(b) = s.len
  BY TextIs
<1> DEFINE w == bs_put_u8(Fresh, s.len % 256)
<1>4. w.bytes = h /\ w.off = 1
  BY <1>1 DEF bs_put_u8, Put, Fresh
<1> HIDE DEF w
<1>5. bs_put_str_u8(Fresh, s) = [bytes |-> h \o b, off |-> 1 + s.len]
  BY <1>4, Zenon DEF bs_put_str_u8, bs_put_bytes, w
<1> HIDE DEF h, b
<1>6. h \o b \in Seq(Element) /\ Width(h \o b) = 1 + s.len
  BY <1>1, <1>2, <1>3, WidthJoin
<1> QED BY <1>1, <1>5, <1>6 DEF Filled, h, b

\* The length of a short string fits in 8 bits.
LEMMA ShortLength ==
  ASSUME NEW s, IsText(s), s.len <= 255
  PROVE  s.len \in uint8_t
<1>1. s.len \in Nat
  BY TextIs, Zenon
<1> QED BY <1>1 DEF uint8_t

\* Whatever a measurement is, the offset says how many bytes were written.
LEMMA MeasurementFills ==
  ASSUME NEW m, IsMeasurement(m)
  PROVE  Filled(Written(m))
<1>1. CASE m.format \in DOMAIN ValuesOf /\ m.value \in ValuesOf[m.format]
  <2>1. m.value \in Int
    BY <1>1, ValuesAreIntegers, Zenon
  <2>2. m.format \in {"u8", "i8", "u16_be", "u16_le", "i16_be", "i16_le",
                      "u32_be", "u32_le", "i32_be", "i32_le"}
    BY <1>1 DEF ValuesOf
  <2> QED BY <2>1, <2>2, WordsFill
        DEF Written, bs_put_i8, bs_put_i16_be, bs_put_i16_le, bs_put_i32_be, bs_put_i32_le
<1>2. CASE m.format = "str_u8" /\ IsText(m.value) /\ m.value.len <= 255
  <2>1. m.value.len \in uint8_t
    BY <1>2, ShortLength, Zenon
  <2>2. Written(m) = bs_put_str_u8(Fresh, m.value)
    BY <1>2 DEF Written
  <2> QED BY <1>2, <2>1, <2>2, StringFills
<1> QED BY <1>1, <1>2 DEF IsMeasurement

\* What was written has its bytes in the order that the format's name promises.
LEMMA MeasurementOrdered ==
  ASSUME NEW m, IsMeasurement(m)
  PROVE  Written(m).bytes = OnTheWire(m)
<1>1. CASE m.format \in DOMAIN ValuesOf /\ m.value \in ValuesOf[m.format]
  <2> DEFINE v == m.value
  <2>1. v \in Int
    BY <1>1, ValuesAreIntegers, Zenon
  <2>2. m.format \in {"u8", "i8", "u16_be", "u16_le", "i16_be", "i16_le",
                      "u32_be", "u32_le", "i32_be", "i32_le"}
    BY <1>1 DEF ValuesOf
  <2> HIDE DEF v
  <2>3. /\ bs_put_u8(Fresh, v).bytes = <<v % 256>>
        /\ bs_put_u16_be(Fresh, v).bytes = Bytes2(v) /\ bs_put_u16_le(Fresh, v).bytes = Flip2(Bytes2(v))
        /\ bs_put_u32_be(Fresh, v).bytes = Bytes4(v) /\ bs_put_u32_le(Fresh, v).bytes = Flip4(Bytes4(v))
    BY SMT DEF bs_put_u8, bs_put_u16_be, bs_put_u16_le, bs_put_u32_be, bs_put_u32_le,
               Put, Fresh, Bytes2, Bytes4, Flip2, Flip4
  <2> DEFINE Laid(w) == [k \in DOMAIN w |-> (v \div w[k]) % 256]
             be4 == <<16777216, 65536, 256, 1>>
             le4 == <<1, 256, 65536, 16777216>>
  <2>4. v \div 1 = v
    BY <2>1
  <2>5. Laid(<<1>>) = <<v % 256>>
    BY <2>1, <2>4
  <2>6. Laid(<<256, 1>>) = Bytes2(v) /\ Laid(<<1, 256>>) = Flip2(Bytes2(v))
    BY <2>1, <2>4 DEF Bytes2, Flip2
  <2>7. Laid(be4) = Bytes4(v) /\ Laid(le4) = Flip4(Bytes4(v))
    BY <2>1, <2>4, SMT DEF Bytes4, Flip4
  <2>8. OnTheWire(m) = Laid(PlaceValues[m.format])
    <3>1. m.format # "str_u8"
      BY <2>2
    <3> QED BY <3>1, Zenon DEF OnTheWire, v
  <2>9. /\ m.format \in {"u32_be", "i32_be"} => PlaceValues[m.format] = be4
        /\ m.format \in {"u32_le", "i32_le"} => PlaceValues[m.format] = le4
    BY SMT DEF PlaceValues
  <2> HIDE DEF Laid, be4, le4
  <2>10. CASE m.format \in {"u8", "i8"}
    <3>1. PlaceValues[m.format] = <<1>>
      BY <2>10 DEF PlaceValues
    <3>2. Written(m) = bs_put_u8(Fresh, v)
      BY <2>10 DEF Written, bs_put_i8, v
    <3> QED BY <2>3, <2>5, <2>8, <3>1, <3>2, Zenon
  <2>11. CASE m.format \in {"u16_be", "i16_be"}
    <3>1. PlaceValues[m.format] = <<256, 1>>
      BY <2>11 DEF PlaceValues
    <3>2. Written(m) = bs_put_u16_be(Fresh, v)
      BY <2>11 DEF Written, bs_put_i16_be, v
    <3> QED BY <2>3, <2>6, <2>8, <3>1, <3>2, Zenon
  <2>12. CASE m.format \in {"u16_le", "i16_le"}
    <3>1. PlaceValues[m.format] = <<1, 256>>
      BY <2>12 DEF PlaceValues
    <3>2. Written(m) = bs_put_u16_le(Fresh, v)
      BY <2>12 DEF Written, bs_put_i16_le, v
    <3> QED BY <2>3, <2>6, <2>8, <3>1, <3>2, Zenon
  <2>13. CASE m.format \in {"u32_be", "i32_be"}
    <3>1. PlaceValues[m.format] = be4
      BY <2>13, <2>9, Zenon
    <3>2. Written(m) = bs_put_u32_be(Fresh, v)
      BY <2>13 DEF Written, bs_put_i32_be, v
    <3> QED BY <2>3, <2>7, <2>8, <3>1, <3>2, Zenon
  <2>14. CASE m.format \in {"u32_le", "i32_le"}
    <3>1. PlaceValues[m.format] = le4
      BY <2>14, <2>9, Zenon
    <3>2. Written(m) = bs_put_u32_le(Fresh, v)
      BY <2>14 DEF Written, bs_put_i32_le, v
    <3> QED BY <2>3, <2>7, <2>8, <3>1, <3>2, Zenon
  <2> QED BY <2>2, <2>10, <2>11, <2>12, <2>13, <2>14, Zenon
<1>2. CASE m.format = "str_u8" /\ IsText(m.value) /\ m.value.len <= 255
  <2>1. m.value.len \in uint8_t
    BY <1>2, ShortLength, Zenon
  <2>2. Written(m) = bs_put_str_u8(Fresh, m.value)
    BY <1>2 DEF Written
  <2> QED BY <1>2, <2>1, <2>2, StringFills, Zenon DEF OnTheWire
<1> QED BY <1>1, <1>2 DEF IsMeasurement

\* Whatever was written to be published is what is read, with nothing left over.
LEMMA MeasurementRead ==
  ASSUME NEW m, IsMeasurement(m)
  PROVE  Read(m.format, Written(m).bytes) = Get(m.value, <<>>, 0)
<1> DEFINE b == Written(m).bytes
<1>0. Get(m.value, <<>>, 0) = [value |-> m.value, rest |-> <<>>]
  BY DEF Get
<1>1. CASE m.format \in DOMAIN ValuesOf /\ m.value \in ValuesOf[m.format]
  <2>1. Written([format |-> m.format, value |-> m.value]).bytes = b
    BY Zenon DEF Written
  <2>2. <<>> \in Seq(Element) /\ b \o <<>> = b
    BY MeasurementFills DEF Filled
  <2> HIDE DEF b
  <2>3. Read(m.format, b \o <<>>) = [value |-> m.value, rest |-> <<>>]
    BY <1>1, <2>1, <2>2, MeasurementsSurvive, Zenon
  <2> QED BY <1>0, <2>2, <2>3, Zenon DEF b
<1>2. CASE m.format = "str_u8" /\ IsText(m.value) /\ m.value.len <= 255
  <2> DEFINE s == m.value
             h == <<s.len>>
             t == s.bytes
  <2>1. s.len \in uint8_t /\ t \in Seq(Element) /\ s.len = Width(t)
        /\ s = [bytes |-> t, len |-> Width(t)]
    BY <1>2, TextIs, ShortLength, Zenon
  <2>2. Written(m) = bs_put_str_u8(Fresh, s)
    BY <1>2 DEF Written
  <2>3. b = h \o t
    BY <1>2, <2>1, <2>2, StringFills
  <2> HIDE DEF b
  <2>4. b[1] = s.len /\ SubSeq(b, 2, Len(b)) = t
    BY <2>1, <2>3, AfterOne
  <2>5. bs_get_u8(b) = [value |-> s.len, rest |-> t]
    BY <2>4, GetIs, Zenon DEF bs_get_u8
  <2>6. TakeBytes(t \o <<>>, Width(t)) = [value |-> [bytes |-> t, len |-> Width(t)], rest |-> <<>>]
    <3>1. <<>> \in Seq(Element)
      OBVIOUS
    <3> QED BY <2>1, <3>1, CutHere, Zenon
  <2>7. t \o <<>> = t
    BY <2>1
  <2>8. Read(m.format, b) = TakeBytes(bs_get_u8(b).rest, bs_get_u8(b).value)
    BY <1>2, Zenon DEF Read
  <2> HIDE DEF s, t
  <2>9. bs_get_u8(b).rest = t /\ bs_get_u8(b).value = s.len
    BY <2>5
  <2>10. Read(m.format, b) = [value |-> s, rest |-> <<>>]
    BY <2>1, <2>6, <2>7, <2>8, <2>9, Zenon
  <2> QED BY <1>0, <2>10, Zenon DEF b, s
<1> QED BY <1>1, <1>2 DEF IsMeasurement
-----------------------------------------------------------------------------
\* The length that the first bytes of a sequence encode: seven bits of each,
\* the lowest first, up to a byte below 128.
LengthOf(b) ==
  IF b[1] < 128 THEN b[1]
  ELSE IF b[2] < 128 THEN (b[1] - 128) + 128 * b[2]
  ELSE IF b[3] < 128 THEN (b[1] - 128) + 128 * (b[2] - 128) + 16384 * b[3]
  ELSE (b[1] - 128) + 128 * (b[2] - 128) + 16384 * (b[3] - 128) + 2097152 * b[4]

\* The shifts of a length, and what is left after four of them.
LEMMA Shifts ==
  ASSUME NEW v \in Int, 0 <= v, v < 268435456
  PROVE  /\ Shifted(v, 0) = v /\ Shifted(v, 1) = v \div 128 /\ Shifted(v, 2) = v \div 16384
         /\ Shifted(v, 3) = v \div 2097152 /\ ~ (Shifted(v, 4) > 0)
         /\ Shifted(v, 1) = 0 <=> v < 128
         /\ Shifted(v, 2) = 0 <=> v < 16384
         /\ Shifted(v, 3) = 0 <=> v < 2097152
         /\ Shifted(v, 1) > 0 <=> v >= 128
         /\ Shifted(v, 2) > 0 <=> v >= 16384
         /\ Shifted(v, 3) > 0 <=> v >= 2097152
<1>1. /\ Shifted(v, 0) = v /\ Shifted(v, 1) = v \div 128 /\ Shifted(v, 2) = v \div 16384
      /\ Shifted(v, 3) = v \div 2097152 /\ Shifted(v, 4) = v \div 268435456
  BY SMT DEF Shifted
<1>2. v \div 128 = 0 <=> v < 128 BY SMT
<1>3. v \div 16384 = 0 <=> v < 16384 BY SMT
<1>4. v \div 2097152 = 0 <=> v < 2097152 BY SMT
<1>5. v \div 128 > 0 <=> v >= 128 BY SMT
<1>6. v \div 16384 > 0 <=> v >= 16384 BY SMT
<1>7. v \div 2097152 > 0 <=> v >= 2097152 BY SMT
<1>8. ~ (v \div 268435456 > 0) BY SMT
<1> QED BY <1>1, <1>2, <1>3, <1>4, <1>5, <1>6, <1>7, <1>8, SMT

\* A length is put together from its groups of seven bits.
LEMMA Sevens ==
  ASSUME NEW v \in Int, 0 <= v, v < 268435456
  PROVE  /\ v = 128 * (v \div 128) + (v % 128)
         /\ v \div 128 = 128 * (v \div 16384) + ((v \div 128) % 128)
         /\ v \div 16384 = 128 * (v \div 2097152) + ((v \div 16384) % 128)
         /\ (v \div 2097152) % 128 = v \div 2097152
         /\ v \div 2097152 \in Nat /\ v \div 2097152 < 128
<1>1. v = 128 * (v \div 128) + (v % 128) BY SMT
<1>2. v \div 128 = 128 * (v \div 16384) + ((v \div 128) % 128) BY SMT
<1>3. v \div 16384 = 128 * (v \div 2097152) + ((v \div 16384) % 128) BY SMT
<1>4. (v \div 2097152) % 128 = v \div 2097152 BY SMT
<1>5. v \div 2097152 \in Nat /\ v \div 2097152 < 128 BY SMT
<1> QED BY <1>1, <1>2, <1>3, <1>4, <1>5, SMT

\* The bytes that put_varint writes, for a length of one to four bytes.
Spelled(v, b) ==
  b = IF v < 128 THEN <<Group(v, 1)>>
      ELSE IF v < 16384 THEN <<Group(v, 1), Group(v, 2)>>
      ELSE IF v < 2097152 THEN <<Group(v, 1), Group(v, 2), Group(v, 3)>>
      ELSE <<Group(v, 1), Group(v, 2), Group(v, 3), Group(v, 4)>>

\* The loop of put_varint writes the groups of a length below 2^28.
LEMMA VarintBytes ==
  ASSUME NEW v \in Int, 0 <= v, v < 268435456
  PROVE  Spelled(v, put_varint(Fresh, v).bytes)
<1> DEFINE b(n) == [k \in 1 .. n |-> Group(v, k)]
<1>1. put_varint(Fresh, v).bytes = b(Turns(v))
  <2>1. ~ (Shifted(v, 4) > 0) BY Shifts, SMT
  <2>2. b(Turns(v)) \in Seq({Group(v, k) : k \in 1 .. 4})
    <3>1. Turns(v) \in 1 .. 4 BY SMT DEF Turns
    <3> QED BY <3>1
  <2> HIDE DEF b
  <2>3. put_varint(Fresh, v).bytes = <<>> \o b(Turns(v))
    BY <2>1 DEF put_varint, Put, Fresh, b
  <2> QED BY <2>2, <2>3
<1>2. Turns(v) = IF v < 128 THEN 1 ELSE IF v < 16384 THEN 2 ELSE IF v < 2097152 THEN 3 ELSE 4
  <2>1. /\ Shifted(v, 1) = 0 <=> v < 128
        /\ Shifted(v, 2) = 0 <=> v < 16384
        /\ Shifted(v, 3) = 0 <=> v < 2097152
    BY Shifts, SMT
  <2> QED BY <2>1, SMT DEF Turns
<1>3. b(1) = <<Group(v, 1)>> OBVIOUS
<1>4. b(2) = <<Group(v, 1), Group(v, 2)>> OBVIOUS
<1>5. b(3) = <<Group(v, 1), Group(v, 2), Group(v, 3)>> OBVIOUS
<1>6. b(4) = <<Group(v, 1), Group(v, 2), Group(v, 3), Group(v, 4)>> OBVIOUS
<1> HIDE DEF b
<1> QED BY <1>1, <1>2, <1>3, <1>4, <1>5, <1>6, SMT DEF Spelled

\* A length in groups of seven bits, and the bytes that they are sent in.
Grouped(v, a, c, d, e) ==
  /\ a < 128 /\ c < 128 /\ d < 128 /\ e < 128
  /\ v = a + 128 * c + 16384 * d + 2097152 * e
  /\ Group(v, 1) = a + (IF v >= 128 THEN 128 ELSE 0)
  /\ Group(v, 2) = c + (IF v >= 16384 THEN 128 ELSE 0)
  /\ Group(v, 3) = d + (IF v >= 2097152 THEN 128 ELSE 0)
  /\ Group(v, 4) = e

\* What each group is, and whether another follows.
LEMMA Groups ==
  ASSUME NEW v \in Int, 0 <= v, v < 268435456
  PROVE  \E a, c, d, e \in Nat : Grouped(v, a, c, d, e)
<1>1. (v \div 2097152) % 128 = v \div 2097152 BY Sevens, SMT
<1>2. /\ Group(v, 1) = (Shifted(v, 0) % 128) + (IF Shifted(v, 1) > 0 THEN 128 ELSE 0)
      /\ Group(v, 2) = (Shifted(v, 1) % 128) + (IF Shifted(v, 2) > 0 THEN 128 ELSE 0)
      /\ Group(v, 3) = (Shifted(v, 2) % 128) + (IF Shifted(v, 3) > 0 THEN 128 ELSE 0)
      /\ Group(v, 4) = (Shifted(v, 3) % 128) + (IF Shifted(v, 4) > 0 THEN 128 ELSE 0)
  BY SMT DEF Group
<1>3. /\ Shifted(v, 0) = v /\ Shifted(v, 1) = v \div 128 /\ Shifted(v, 2) = v \div 16384
      /\ Shifted(v, 3) = v \div 2097152
  BY Shifts, SMT
<1>4. /\ Shifted(v, 1) > 0 <=> v >= 128
      /\ Shifted(v, 2) > 0 <=> v >= 16384
      /\ Shifted(v, 3) > 0 <=> v >= 2097152
      /\ ~ (Shifted(v, 4) > 0)
  BY Shifts, SMT
<1>5. v \div 2097152 \in Nat BY Sevens, SMT
<1>6. Group(v, 1) = (v % 128) + (IF v >= 128 THEN 128 ELSE 0)
  BY <1>2, <1>3, <1>4, SMT
<1>7. Group(v, 2) = ((v \div 128) % 128) + (IF v >= 16384 THEN 128 ELSE 0)
  BY <1>2, <1>3, <1>4, SMT
<1>8. Group(v, 3) = ((v \div 16384) % 128) + (IF v >= 2097152 THEN 128 ELSE 0)
  <2>1. Group(v, 3) = (Shifted(v, 2) % 128) + (IF v >= 2097152 THEN 128 ELSE 0)
    BY <1>2, <1>4, SMT
  <2>2. Shifted(v, 2) = v \div 16384 BY <1>3, SMT
  <2> QED BY <2>1, <2>2, SMT
<1>9. Group(v, 4) = v \div 2097152
  <2> DEFINE x == Shifted(v, 3)
  <2>1. x \in Nat /\ x % 128 = x BY <1>1, <1>3, <1>5, SMT
  <2>2. Group(v, 4) = (x % 128) + 0 BY <1>2, <1>4, SMT
  <2> HIDE DEF x
  <2>3. Group(v, 4) = x BY <2>1, <2>2, SMT
  <2> QED BY <2>3, <1>3, SMT DEF x
<1> DEFINE a == v % 128  c == (v \div 128) % 128  d == (v \div 16384) % 128  e == v \div 2097152
<1>10. a \in Nat /\ a < 128 BY SMT
<1>11. c \in Nat /\ c < 128 BY SMT
<1>12. d \in Nat /\ d < 128 BY SMT
<1>13. e \in Nat /\ e < 128 BY SMT
<1>14. v = a + 128 * c + 16384 * d + 2097152 * e
  <2>1. v = 128 * (v \div 128) + a BY SMT
  <2>2. v \div 128 = 128 * (v \div 16384) + c BY SMT
  <2>3. v \div 16384 = 128 * e + d BY SMT
  <2> HIDE DEF a, c, d, e
  <2> QED BY <2>1, <2>2, <2>3, <1>10, <1>11, <1>12, <1>13, SMT
<1>15. /\ Group(v, 1) = a + (IF v >= 128 THEN 128 ELSE 0)
       /\ Group(v, 2) = c + (IF v >= 16384 THEN 128 ELSE 0)
       /\ Group(v, 3) = d + (IF v >= 2097152 THEN 128 ELSE 0)
       /\ Group(v, 4) = e
  BY <1>6, <1>7, <1>8, <1>9, SMT
<1> HIDE DEF a, c, d, e
<1>16. Grouped(v, a, c, d, e) BY <1>15, <1>10, <1>11, <1>12, <1>13, <1>14, SMT DEF Grouped
<1> QED BY <1>16, <1>10, <1>11, <1>12, <1>13, SMT

\* The groups decode to the number that they were taken from.
LEMMA DecodesGroups ==
  ASSUME NEW v \in Int, 0 <= v, v < 268435456, NEW S, NEW s \in Seq(S), NEW b, Spelled(v, b),
         NEW a \in Nat, NEW c \in Nat, NEW d \in Nat, NEW e \in Nat, Grouped(v, a, c, d, e)
  PROVE  LengthOf(b \o s) = v
<1>1. CASE v < 128
  <2>1. b = <<a>> /\ v = a BY <1>1, SMT DEF Spelled, Grouped
  <2>2. (b \o s)[1] = a BY <2>1, AfterOne, SMT
  <2> QED BY <2>1, <2>2, <1>1, SMT DEF LengthOf
<1>2. CASE v >= 128 /\ v < 16384
  <2>1. b = <<a + 128, c>> /\ v = a + 128 * c /\ c < 128 BY <1>2, SMT DEF Spelled, Grouped
  <2>2. (b \o s)[1] = a + 128 /\ (b \o s)[2] = c BY <2>1, AfterTwo, SMT
  <2> QED BY <2>1, <2>2, <1>2, SMT DEF LengthOf
<1>3. CASE v >= 16384 /\ v < 2097152
  <2>1. /\ b = <<a + 128, c + 128, d>> /\ v = a + 128 * c + 16384 * d /\ d < 128
    BY <1>3, SMT DEF Spelled, Grouped
  <2>2. (b \o s)[1] = a + 128 /\ (b \o s)[2] = c + 128 /\ (b \o s)[3] = d
    BY <2>1, SMT
  <2> QED BY <2>1, <2>2, <1>3, SMT DEF LengthOf
<1>4. CASE v >= 2097152
  <2>1. /\ b = <<a + 128, c + 128, d + 128, e>>
        /\ v = a + 128 * c + 16384 * d + 2097152 * e /\ e < 128
    BY <1>4, SMT DEF Spelled, Grouped
  <2>2. /\ (b \o s)[1] = a + 128 /\ (b \o s)[2] = c + 128
        /\ (b \o s)[3] = d + 128 /\ (b \o s)[4] = e
    BY <2>1, AfterFour, SMT
  <2> QED BY <2>1, <2>2, <1>4, SMT DEF LengthOf
<1> QED BY <1>1, <1>2, <1>3, <1>4, SMT

\* put_varint writes as many bytes as varint_size measures.
LEMMA VarintSize ==
  ASSUME NEW v \in Int, 0 <= v, v < 268435456
  PROVE  /\ put_varint(Fresh, v).off = varint_size(v)
         /\ Len(put_varint(Fresh, v).bytes) = varint_size(v)
<1> DEFINE b == put_varint(Fresh, v).bytes
<1>1. put_varint(Fresh, v).off = Len(b)
  <2>1. ~ (Shifted(v, 4) > 0) BY Shifts, SMT
  <2>2. Turns(v) \in Nat BY SMT DEF Turns
  <2>3. [k \in 1 .. Turns(v) |-> Group(v, k)] \in Seq({Group(v, k) : k \in 1 .. Turns(v)})
    BY <2>2, SMT
  <2> QED BY <2>1, <2>2, <2>3, SMT DEF put_varint, Put, Fresh
<1>2. Spelled(v, b) BY VarintBytes, SMT
<1> HIDE DEF b
<1>3. Len(b) = varint_size(v) BY <1>2, SMT DEF Spelled, varint_size
<1> QED BY <1>1, <1>3, SMT DEF b

\* The remaining length that put_varint writes takes the bytes that varint_size
\* counted, and is decoded to the length of the body, for every length that a
\* packet can have.
THEOREM RemainingLengthDecodes ==
  ASSUME NEW v \in Int, 0 <= v, v < 268435456, NEW S, NEW s \in Seq(S)
  PROVE  /\ put_varint(Fresh, v).off = varint_size(v)
         /\ Len(put_varint(Fresh, v).bytes) = varint_size(v)
         /\ LengthOf(put_varint(Fresh, v).bytes \o s) = v
<1>1. Spelled(v, put_varint(Fresh, v).bytes) BY VarintBytes, SMT
<1>2. PICK a, c, d, e \in Nat : Grouped(v, a, c, d, e) BY Groups, SMT
<1>3. LengthOf(put_varint(Fresh, v).bytes \o s) = v BY <1>1, <1>2, DecodesGroups, SMT
<1> QED BY <1>3, VarintSize, SMT
-----------------------------------------------------------------------------
\* The size of a packet, as mqtt.c measures it.
LEMMA SizeMeasured ==
  ASSUME NEW m, BodySize(m) \in Nat, BodySize(m) < 268435456
  PROVE  PacketSize(m) = 1 + varint_size(BodySize(m)) + BodySize(m)
<1> DEFINE n == BodySize(m)  K == {k \in 1 .. 4 : n < Power128[k]}
<1>1. ASSUME NEW k \in K, \A j \in K : k <= j PROVE Min(K) = k
  BY <1>1, SMT DEF Min
<1>7. n \in Nat /\ n < 268435456 OBVIOUS
<1> HIDE DEF n
<1>8. /\ Power128[1] = 128 /\ Power128[2] = 16384
      /\ Power128[3] = 2097152 /\ Power128[4] = 268435456
  BY SMT DEF Power128
<1>9. /\ 1 \in K <=> n < 128
      /\ 2 \in K <=> n < 16384
      /\ 3 \in K <=> n < 2097152
      /\ 4 \in K
      /\ \A j \in K : j \in {1, 2, 3, 4}
  BY <1>7, <1>8, SMT
<1> HIDE DEF K
<1>2. n < 128 => 1 \in K /\ \A j \in K : 1 <= j BY <1>9, SMT
<1>3. n >= 128 /\ n < 16384 => 2 \in K /\ \A j \in K : 2 <= j BY <1>7, <1>9, SMT
<1>4. n >= 16384 /\ n < 2097152 => 3 \in K /\ \A j \in K : 3 <= j BY <1>7, <1>9, SMT
<1>5. n >= 2097152 => 4 \in K /\ \A j \in K : 4 <= j BY <1>7, <1>9, SMT
<1>6. Min(K) = varint_size(n)
  BY <1>1, <1>2, <1>3, <1>4, <1>5, <1>7, SMT DEF varint_size
<1> QED BY <1>6, SMT DEF PacketSize, K, n

\* What Packet returns, for a body of any length that fits in 32 bits.
LEMMA PacketReturns ==
  ASSUME MqttAssumption,
         NEW buf \in Nat, NEW type, NEW length \in Nat, length < UInt32,
         NEW body, body.off = length
  PROVE  LET total == 1 + varint_size(length) + length
         IN  Packet(buf, type, length, body).ret
               = IF length < 268435456 /\ total <= buf THEN total ELSE 0
<1>1. length % SizeT = length /\ length % UInt32 = length
  BY SMT DEF MqttAssumption
<1>2. CASE length >= 268435456
  <2>1. varint_size(length) = 0 BY <1>2, SMT DEF varint_size
  <2> QED BY <2>1, <1>1, <1>2, SMT DEF Packet, Refused
<1>3. CASE length < 268435456
  <2> DEFINE rl == varint_size(length)  total == 1 + rl + length
             header == put_varint(bs_put_u8(Fresh, type), length)
  <2>1. rl \in 1 .. 4 BY <1>3, SMT DEF varint_size
  <2>2. total % SizeT = total BY <2>1, <1>3, SMT DEF MqttAssumption
  <2>3. header.off = 1 + rl
    <3>1. put_varint(Fresh, length).off = rl BY <1>3, VarintSize, SMT
    <3>2. ~ (Shifted(length, 4) > 0) BY <1>3, Shifts, SMT
    <3>3. \A g : Put(Fresh, g).off = 0 + Len(g) BY SMT DEF Put, Fresh
    <3>4. \A g : Put(bs_put_u8(Fresh, type), g).off = 0 + 1 + Len(g)
      BY SMT DEF bs_put_u8, Put, Fresh
    <3>5. Turns(length) \in Nat BY SMT DEF Turns
    <3>6. Len([k \in 1 .. Turns(length) |-> Group(length, k)]) = Turns(length) BY <3>5, SMT
    <3> HIDE DEF rl
    <3> QED BY <3>1, <3>2, <3>3, <3>4, <3>5, <3>6, SMT DEF put_varint, header
  <2>4. Packet(buf, type, length, body).ret
          = IF rl = 0 \/ total % SizeT > buf THEN 0 ELSE header.off + body.off
    BY <1>1, SMT DEF Packet, Refused
  <2> HIDE DEF header, rl
  <2> QED BY <2>1, <2>2, <2>3, <2>4, <1>3, SMT DEF rl
<1> QED BY <1>2, <1>3, SMT

\* What a put of one or two bytes adds to the offset.
LEMMA TwoMore ==
  ASSUME NEW w, NEW v
  PROVE  /\ bs_put_u16_be(w, v).off = w.off + 2
         /\ bs_put_u8(w, v).off = w.off + 1
BY SMT DEF bs_put_u16_be, bs_put_u8, Put, Bytes2

\* What a put of a string adds to the offset.
LEMMA StringOffset ==
  ASSUME NEW w, w.off \in Nat, NEW s, s.len \in Nat
  PROVE  bs_put_str_u16_be(w, s).off = w.off + 2 + s.len
BY TwoMore, SMT DEF bs_put_str_u16_be, bs_put_bytes

\* What a builder is to return for a packet and a buffer.
Answer(m, buf) == IF Encodable(m) /\ buf # NULL /\ PacketSize(m) <= buf THEN PacketSize(m) ELSE 0

IsBuffer(buf) == buf = NULL \/ buf \in Nat

\* A builder that refused nothing returns what Packet does.
LEMMA AnswerOfPacket ==
  ASSUME MqttAssumption,
         NEW buf \in Nat, buf # NULL, NEW m, NEW type, NEW body,
         BodySize(m) \in Nat, BodySize(m) < UInt32, body.off = BodySize(m),
         Encodable(m) <=> BodySize(m) < 268435456
  PROVE  Packet(buf, type, BodySize(m), body).ret = Answer(m, buf)
<1> DEFINE n == BodySize(m)
<1>1. Packet(buf, type, n, body).ret
        = LET total == 1 + varint_size(n) + n
          IN  IF n < 268435456 /\ total <= buf THEN total ELSE 0
  BY PacketReturns, SMT
<1>2. n < 268435456 => PacketSize(m) = 1 + varint_size(n) + n
  BY SizeMeasured, SMT
<1> HIDE DEF n
<1> QED BY <1>1, <1>2, SMT DEF Answer, n

\* The size of the body by the type of the packet.
LEMMA BodySizeOf ==
  ASSUME NEW m
  PROVE  /\ m.type = CONNECT =>
              BodySize(m) = 12 + m.client.len + LengthIfGiven(m.user) + LengthIfGiven(m.pass)
         /\ m.type = PUBLISH => BodySize(m) = 2 + m.topic.len + m.payload.len
         /\ m.type = SUBSCRIBE => BodySize(m) = 5 + m.topic.len
         /\ m.type = UNSUBSCRIBE => BodySize(m) = 4 + m.topic.len
         /\ m.type \in {PINGREQ, DISCONNECT} => BodySize(m) = 0
<1>1. CASE m.type = CONNECT
  BY <1>1 DEF BodySize, CONNECT, PUBLISH, SUBSCRIBE, UNSUBSCRIBE, PINGREQ, DISCONNECT
<1>2. CASE m.type = PUBLISH
  BY <1>2 DEF BodySize, CONNECT, PUBLISH, SUBSCRIBE, UNSUBSCRIBE, PINGREQ, DISCONNECT
<1>3. CASE m.type = SUBSCRIBE
  BY <1>3 DEF BodySize, CONNECT, PUBLISH, SUBSCRIBE, UNSUBSCRIBE, PINGREQ, DISCONNECT
<1>4. CASE m.type = UNSUBSCRIBE
  BY <1>4 DEF BodySize, CONNECT, PUBLISH, SUBSCRIBE, UNSUBSCRIBE, PINGREQ, DISCONNECT
<1>5. CASE m.type \in {PINGREQ, DISCONNECT}
  BY <1>5 DEF BodySize, CONNECT, PUBLISH, SUBSCRIBE, UNSUBSCRIBE, PINGREQ, DISCONNECT
<1> QED BY <1>1, <1>2, <1>3, <1>4, <1>5

\* mqtt_build_publish answers as it should.
LEMMA PublishAnswers ==
  ASSUME MqttAssumption, NULL # Memory(<<>>),
         NEW p, IsPublish(p), NEW buf, IsBuffer(buf)
  PROVE  mqtt_build_publish(buf, p.topic, p.payload, p.len).ret = Answer(Publish(p), buf)
<1> DEFINE m == Publish(p)
<1>1. /\ m.type = PUBLISH /\ m.topic = p.topic
      /\ m.payload = IF p.len = 0 THEN Memory(<<>>) ELSE p.payload
  BY SMT DEF Publish
<1>2. Required(m) = {p.topic} /\ Optional(m) = {}
  BY <1>1, SMT DEF Required, Optional, CONNECT, PUBLISH
<1> HIDE DEF m
<1>3. BodySize(m) = 2 + m.topic.len + m.payload.len
  BY <1>1, BodySizeOf, SMT
<1>4. m.type \notin {SUBSCRIBE, UNSUBSCRIBE}
  BY <1>1, SMT DEF PUBLISH, SUBSCRIBE, UNSUBSCRIBE
<1>5. Encodable(m) <=> /\ p.topic # NULL /\ p.topic.len > 0 /\ p.topic.len <= 65535
                       /\ m.payload # NULL /\ BodySize(m) < 268435456
  BY <1>1, <1>2, <1>4, SMT DEF Encodable, Power128, PUBLISH
<1>6. CASE \/ buf = NULL \/ Missing(p.topic) \/ (p.payload = NULL /\ p.len > 0)
           \/ TooLong(p.topic)
  <2>1. ~ (Encodable(m) /\ buf # NULL)
    BY <1>6, <1>5, <1>1, SMT DEF Missing, TooLong, IsPublish, IsString
  <2>2. Answer(m, buf) = 0 BY <2>1, SMT DEF Answer
  <2>3. mqtt_build_publish(buf, p.topic, p.payload, p.len).ret = 0
    BY <1>6, SMT DEF mqtt_build_publish, Refused
  <2> QED BY <2>2, <2>3, SMT DEF m
<1>7. CASE ~ (\/ buf = NULL \/ Missing(p.topic) \/ (p.payload = NULL /\ p.len > 0)
              \/ TooLong(p.topic))
  <2>1. /\ buf \in Nat /\ buf # NULL /\ p.topic # NULL
        /\ p.topic.len \in Nat /\ 0 < p.topic.len /\ p.topic.len <= 65535
    BY <1>7, SMT DEF IsBuffer, IsPublish, IsString, Missing, TooLong
  <2> DEFINE body == IF p.len = 0 THEN bs_put_str_u16_be(Fresh, p.topic)
                     ELSE bs_put_bytes(bs_put_str_u16_be(Fresh, p.topic), p.payload)
  <2>2. m.payload.len = p.len /\ p.len \in Nat /\ m.payload # NULL
    BY <1>1, <1>7, SMT DEF Memory, IsPublish
  <2>3. bs_put_str_u16_be(Fresh, p.topic).off = 2 + p.topic.len
    <3>1. Fresh.off = 0 BY SMT DEF Fresh
    <3> QED BY <3>1, <2>1, StringOffset, SMT
  <2>4. body.off = BodySize(m)
    <3>1. body.off = 2 + p.topic.len + p.len
      <4>1. CASE p.len = 0 BY <4>1, <2>1, <2>3, SMT
      <4>2. CASE p.len # 0
        <5>1. p.payload # NULL /\ p.len > 0 /\ p.payload.len = p.len
          BY <4>2, <2>2, <1>7, SMT DEF IsPublish
        <5>2. bs_put_bytes(bs_put_str_u16_be(Fresh, p.topic), p.payload).off
                = bs_put_str_u16_be(Fresh, p.topic).off + p.payload.len
          BY DEF bs_put_bytes
        <5> QED BY <4>2, <5>1, <5>2, <2>3, SMT
      <4> QED BY <4>1, <4>2, SMT
    <3> QED BY <3>1, <1>3, <1>1, <2>2, SMT
  <2>5. mqtt_build_publish(buf, p.topic, p.payload, p.len)
          = Packet(buf, PUBLISH, BodySize(m), body)
    <3>1. BodySize(m) = 2 + p.topic.len + p.len BY <1>1, <1>3, <2>1, <2>2, SMT
    <3> QED BY <1>7, <3>1, SMT DEF mqtt_build_publish
  <2> HIDE DEF body, m
  <2>6. BodySize(m) \in Nat /\ BodySize(m) < UInt32
    <3>1. BodySize(m) = 2 + p.topic.len + p.len BY <1>1, <1>3, <2>1, <2>2, SMT
    <3>2. 65537 + p.len < UInt32 BY DEF IsPublish
    <3> QED BY <3>1, <3>2, <2>1, <2>2, SMT DEF MqttAssumption
  <2>7. Encodable(m) <=> BodySize(m) < 268435456
    BY <1>5, <2>1, <2>2, SMT
  <2>8. Packet(buf, PUBLISH, BodySize(m), body).ret = Answer(m, buf)
    BY <2>1, <2>4, <2>6, <2>7, AnswerOfPacket, SMT
  <2> QED BY <2>5, <2>8, SMT DEF m
<1> QED BY <1>6, <1>7, SMT

\* When SUBSCRIBE and UNSUBSCRIBE can be encoded.
LEMMA RequestEncodable ==
  ASSUME NEW m, m.type \in {SUBSCRIBE, UNSUBSCRIBE}
  PROVE  Encodable(m) <=> /\ m.topic # NULL /\ m.topic.len > 0 /\ m.topic.len <= 65535 /\ m.id # 0
                          /\ BodySize(m) < 268435456
<1>1. Required(m) = {m.topic} /\ Optional(m) = {}
  BY SMT DEF Required, Optional, CONNECT, PUBLISH, SUBSCRIBE, UNSUBSCRIBE
<1>2. m.type # PUBLISH BY SMT DEF PUBLISH, SUBSCRIBE, UNSUBSCRIBE
<1> QED BY <1>1, <1>2, SMT DEF Encodable, Power128

\* mqtt_build_subscribe answers as it should.
LEMMA SubscribeAnswers ==
  ASSUME MqttAssumption,
         NEW s, IsRequest(s), NEW buf, IsBuffer(buf)
  PROVE  mqtt_build_subscribe(buf, s.id, s.topic).ret = Answer(Request(SUBSCRIBE, s), buf)
<1> DEFINE m   == Request(SUBSCRIBE, s)
           bad == buf = NULL \/ Missing(s.topic) \/ s.id = 0 \/ TooLong(s.topic)
<1>0. IsString(s.topic) BY DEF IsRequest
<1>1. m.type = SUBSCRIBE /\ m.topic = s.topic /\ m.id = s.id BY SMT DEF Request
<1> HIDE DEF m
<1>2. BodySize(m) = 5 + s.topic.len BY <1>1, BodySizeOf, SMT
<1>3. Encodable(m) <=> /\ s.topic # NULL /\ s.topic.len > 0 /\ s.topic.len <= 65535 /\ s.id # 0
                       /\ BodySize(m) < 268435456
  BY <1>1, RequestEncodable, SMT
<1>4. CASE bad
  <2>1. ~ (Encodable(m) /\ buf # NULL)
    BY <1>0, <1>3, <1>4, SMT DEF Missing, TooLong, IsString
  <2>2. Answer(m, buf) = 0 BY <2>1, SMT DEF Answer
  <2>3. mqtt_build_subscribe(buf, s.id, s.topic).ret = 0
    BY <1>4, SMT DEF mqtt_build_subscribe, Refused
  <2> QED BY <2>2, <2>3, SMT DEF m
<1>5. CASE ~ bad
  <2>1. /\ buf \in Nat /\ buf # NULL /\ s.topic # NULL /\ s.id # 0
        /\ s.topic.len \in Nat /\ 0 < s.topic.len /\ s.topic.len <= 65535
    BY <1>0, <1>5, SMT DEF IsBuffer, IsString, Missing, TooLong
  <2> DEFINE text == bs_put_str_u16_be(bs_put_u16_be(Fresh, s.id), s.topic)
             body == bs_put_u8(text, 0)
  <2>2. body.off = BodySize(m)
    <3>1. Fresh.off = 0 BY SMT DEF Fresh
    <3>2. bs_put_u16_be(Fresh, s.id).off = 2 BY <3>1, TwoMore, SMT
    <3>3. text.off = 4 + s.topic.len BY <3>2, <2>1, StringOffset, SMT
    <3> HIDE DEF text
    <3>4. body.off = 5 + s.topic.len BY <3>3, <2>1, TwoMore, SMT
    <3> QED BY <3>4, <1>2, SMT
  <2>3. BodySize(m) \in Nat /\ BodySize(m) < UInt32
    BY <1>2, <2>1, SMT DEF MqttAssumption
  <2>4. Encodable(m) <=> BodySize(m) < 268435456 BY <1>3, <2>1, SMT
  <2>5. mqtt_build_subscribe(buf, s.id, s.topic) = Packet(buf, SUBSCRIBE, BodySize(m), body)
    <3>1. 2 + 2 + s.topic.len + 1 = BodySize(m) BY <1>2, <2>1, SMT
    <3> QED BY <1>5, <3>1, SMT DEF mqtt_build_subscribe
  <2> HIDE DEF body
  <2>6. Packet(buf, SUBSCRIBE, BodySize(m), body).ret = Answer(m, buf)
    BY <2>1, <2>2, <2>3, <2>4, AnswerOfPacket, SMT
  <2> QED BY <2>5, <2>6, SMT DEF m
<1> QED BY <1>4, <1>5, SMT

\* mqtt_build_unsubscribe answers as it should.
LEMMA UnsubscribeAnswers ==
  ASSUME MqttAssumption,
         NEW s, IsRequest(s), NEW buf, IsBuffer(buf)
  PROVE  mqtt_build_unsubscribe(buf, s.id, s.topic).ret = Answer(Request(UNSUBSCRIBE, s), buf)
<1> DEFINE m   == Request(UNSUBSCRIBE, s)
           bad == buf = NULL \/ Missing(s.topic) \/ s.id = 0 \/ TooLong(s.topic)
<1>0. IsString(s.topic) BY DEF IsRequest
<1>1. m.type = UNSUBSCRIBE /\ m.topic = s.topic /\ m.id = s.id BY SMT DEF Request
<1> HIDE DEF m
<1>2. BodySize(m) = 4 + s.topic.len BY <1>1, BodySizeOf, SMT
<1>3. Encodable(m) <=> /\ s.topic # NULL /\ s.topic.len > 0 /\ s.topic.len <= 65535 /\ s.id # 0
                       /\ BodySize(m) < 268435456
  BY <1>1, RequestEncodable, SMT
<1>4. CASE bad
  <2>1. ~ (Encodable(m) /\ buf # NULL)
    BY <1>0, <1>3, <1>4, SMT DEF Missing, TooLong, IsString
  <2>2. Answer(m, buf) = 0 BY <2>1, SMT DEF Answer
  <2>3. mqtt_build_unsubscribe(buf, s.id, s.topic).ret = 0
    BY <1>4, SMT DEF mqtt_build_unsubscribe, Refused
  <2> QED BY <2>2, <2>3, SMT DEF m
<1>5. CASE ~ bad
  <2>1. /\ buf \in Nat /\ buf # NULL /\ s.topic # NULL /\ s.id # 0
        /\ s.topic.len \in Nat /\ 0 < s.topic.len /\ s.topic.len <= 65535
    BY <1>0, <1>5, SMT DEF IsBuffer, IsString, Missing, TooLong
  <2> DEFINE text == bs_put_str_u16_be(bs_put_u16_be(Fresh, s.id), s.topic)
             body == text
  <2>2. body.off = BodySize(m)
    <3>1. Fresh.off = 0 BY SMT DEF Fresh
    <3>2. bs_put_u16_be(Fresh, s.id).off = 2 BY <3>1, TwoMore, SMT
    <3>3. text.off = 4 + s.topic.len BY <3>2, <2>1, StringOffset, SMT
    <3> HIDE DEF text
    <3>4. body.off = 4 + s.topic.len BY <3>3, <2>1, TwoMore, SMT
    <3> QED BY <3>4, <1>2, SMT
  <2>3. BodySize(m) \in Nat /\ BodySize(m) < UInt32
    BY <1>2, <2>1, SMT DEF MqttAssumption
  <2>4. Encodable(m) <=> BodySize(m) < 268435456 BY <1>3, <2>1, SMT
  <2>5. mqtt_build_unsubscribe(buf, s.id, s.topic) = Packet(buf, UNSUBSCRIBE, BodySize(m), body)
    <3>1. 2 + 2 + s.topic.len = BodySize(m) BY <1>2, <2>1, SMT
    <3> QED BY <1>5, <3>1, SMT DEF mqtt_build_unsubscribe
  <2> HIDE DEF body
  <2>6. Packet(buf, UNSUBSCRIBE, BodySize(m), body).ret = Answer(m, buf)
    BY <2>1, <2>2, <2>3, <2>4, AnswerOfPacket, SMT
  <2> QED BY <2>5, <2>6, SMT DEF m
<1> QED BY <1>4, <1>5, SMT

\* The builders of the two packets without a body answer as they should.
LEMMA SignalAnswers ==
  ASSUME NEW buf, IsBuffer(buf)
  PROVE  /\ mqtt_build_pingreq(buf).ret = Answer(Signal(PINGREQ), buf)
         /\ mqtt_build_disconnect(buf).ret = Answer(Signal(DISCONNECT), buf)
<1>1. ASSUME NEW type \in {PINGREQ, DISCONNECT}
      PROVE  Encodable(Signal(type)) /\ PacketSize(Signal(type)) = 2
  <2>1. /\ BodySize(Signal(type)) = 0 /\ Signal(type).type = type
        /\ Required(Signal(type)) = {} /\ Optional(Signal(type)) = {}
    BY SMT DEF BodySize, Required, Optional, Signal, CONNECT, PUBLISH, SUBSCRIBE, UNSUBSCRIBE,
           PINGREQ, DISCONNECT
  <2>2. Encodable(Signal(type))
    BY <2>1, SMT DEF Encodable, Power128, SUBSCRIBE, UNSUBSCRIBE, PUBLISH, PINGREQ, DISCONNECT
  <2>3. PacketSize(Signal(type)) = 1 + varint_size(0) + 0 BY <2>1, SizeMeasured, SMT
  <2> QED BY <2>2, <2>3, SMT DEF varint_size
<1>2. ASSUME NEW type PROVE TwoBytes(buf, type).ret = IF buf # NULL /\ 2 <= buf THEN 2 ELSE 0
  BY SMT DEF TwoBytes, IsBuffer, Refused
<1> QED BY <1>1, <1>2, SMT DEF mqtt_build_pingreq, mqtt_build_disconnect, Answer

\* What a put of an optional string adds to the offset.
LEMMA GivenOffset ==
  ASSUME NEW w, w.off \in Nat, NEW s, IsString(s)
  PROVE  /\ LengthIfGiven(s) \in Nat
         /\ PutIfGiven(w, s).off = w.off + LengthIfGiven(s)
BY StringOffset, SMT DEF LengthIfGiven, PutIfGiven, IsString

\* mqtt_build_connect answers as it should.
LEMMA ConnectAnswers ==
  ASSUME NEW c, IsConnect(c), NEW buf, IsBuffer(buf)
  PROVE  mqtt_build_connect(buf, c.client, c.user, c.pass).ret = Answer(Connect(c), buf)
<1> DEFINE m    == Connect(c)
           user == IF Missing(c.user) THEN NULL ELSE c.user
           pass == IF user = NULL THEN NULL ELSE c.pass
           bad  == \/ buf = NULL \/ Missing(c.client)
                   \/ \E s \in {c.client, user, pass} \ {NULL} : TooLong(s)
<1>1. m.type = CONNECT /\ m.client = c.client /\ m.user = user /\ m.pass = pass
  BY SMT DEF Connect, Missing
<1>2. IsString(c.client) /\ IsString(user) /\ IsString(pass)
  BY SMT DEF IsString, IsConnect
<1>3. Required(m) = {c.client} /\ Optional(m) = {user, pass} \ {NULL}
  BY <1>1, SMT DEF Required, Optional, CONNECT
<1> HIDE DEF m, user, pass
<1>4. BodySize(m) = 12 + c.client.len + LengthIfGiven(user) + LengthIfGiven(pass)
  BY <1>1, BodySizeOf, SMT
<1>5. Encodable(m) <=> /\ c.client # NULL /\ c.client.len > 0
                       /\ \A s \in {c.client} \cup ({user, pass} \ {NULL}) : s.len <= 65535
                       /\ BodySize(m) < 268435456
  BY <1>1, <1>3, SMT DEF Encodable, Power128, CONNECT, SUBSCRIBE, UNSUBSCRIBE, PUBLISH
<1>6. CASE bad
  <2>1. Answer(m, buf) = 0
    BY <1>5, <1>6, <1>2, SMT DEF Answer, Missing, TooLong, IsString
  <2>2. mqtt_build_connect(buf, c.client, c.user, c.pass) = Refused
    BY <1>6, SMT DEF mqtt_build_connect, user, pass
  <2> QED BY <2>1, <2>2, SMT DEF Refused, m
<1>7. CASE ~ bad
  <2>1. /\ buf \in Nat /\ buf # NULL /\ c.client # NULL
        /\ c.client.len \in Nat /\ 0 < c.client.len /\ c.client.len <= 65535
    BY <1>7, <1>2, SMT DEF IsBuffer, IsString, Missing, TooLong
  <2>2. ASSUME NEW s \in {user, pass} PROVE LengthIfGiven(s) \in Nat /\ LengthIfGiven(s) <= 65537
    <3>1. CASE s = NULL BY <3>1, SMT DEF LengthIfGiven
    <3>2. CASE s # NULL
      <4>1. ~ TooLong(s) BY <3>2, <1>7, Zenon
      <4>2. s.len \in Nat BY <3>2, <1>2, SMT DEF IsString
      <4> QED BY <4>1, <4>2, <3>2, SMT DEF LengthIfGiven, TooLong
    <3> QED BY <3>1, <3>2, SMT
  <2> DEFINE head == bs_put_u16_be(
                       bs_put_u8(bs_put_u8(bs_put_str_u16_be(Fresh, Memory(<<77, 81, 84, 84>>)), 4),
                                 Flags(user, pass)),
                       KEEPALIVE_S)
             body == PutIfGiven(PutIfGiven(bs_put_str_u16_be(head, c.client), user), pass)
  <2>3. head.off = 10
    <3>1. Memory(<<77, 81, 84, 84>>).len = 4 BY SMT DEF Memory
    <3>2. Fresh.off = 0 BY SMT DEF Fresh
    <3>3. bs_put_str_u16_be(Fresh, Memory(<<77, 81, 84, 84>>)).off = 6
      BY <3>1, <3>2, StringOffset, SMT
    <3> QED BY <3>3, TwoMore, SMT
  <2> HIDE DEF head
  <2>4. bs_put_str_u16_be(head, c.client).off = 12 + c.client.len
    BY <2>1, <2>3, StringOffset, SMT
  <2>5. PutIfGiven(bs_put_str_u16_be(head, c.client), user).off
          = 12 + c.client.len + LengthIfGiven(user)
    BY <2>1, <2>4, <1>2, GivenOffset, SMT
  <2>6. /\ LengthIfGiven(user) \in Nat /\ LengthIfGiven(user) <= 65537
        /\ LengthIfGiven(pass) \in Nat /\ LengthIfGiven(pass) <= 65537
    BY <2>2, SMT
  <2>7. body.off = BodySize(m)
    <3> DEFINE w == PutIfGiven(bs_put_str_u16_be(head, c.client), user)
    <3>1. w.off \in Nat BY <2>1, <2>5, <2>6, SMT
    <3> HIDE DEF w
    <3>2. PutIfGiven(w, pass).off = w.off + LengthIfGiven(pass)
      BY <3>1, <1>2, GivenOffset, SMT
    <3> QED BY <3>2, <2>1, <2>5, <2>6, <1>4, SMT DEF w
  <2>8. mqtt_build_connect(buf, c.client, c.user, c.pass)
          = Packet(buf, CONNECT, BodySize(m), body)
    BY <1>7, <1>4, SMT DEF mqtt_build_connect, user, pass, head
  <2> HIDE DEF body
  <2>9. /\ BodySize(m) \in Nat /\ BodySize(m) < UInt32
        /\ Encodable(m) <=> BodySize(m) < 268435456
    <3>1. BodySize(m) \in Nat /\ BodySize(m) < UInt32
      BY <1>4, <2>1, <2>6, MqttAssumption, SMT DEF MqttAssumption
    <3>2. \A s \in {c.client} \cup ({user, pass} \ {NULL}) : s.len <= 65535
      BY <1>7, <1>2, <2>1, SMT DEF TooLong, IsString
    <3> QED BY <3>1, <3>2, <1>5, <2>1, SMT
  <2>10. Packet(buf, CONNECT, BodySize(m), body).ret = Answer(m, buf)
    BY <2>1, <2>7, <2>9, MqttAssumption, AnswerOfPacket, SMT
  <2> QED BY <2>8, <2>10, SMT DEF m
<1> QED BY <1>6, <1>7, SMT

\* What can be encoded has a size, so the buffers of the model are null
\* pointers and sizes.
LEMMA BodySizes ==
  /\ \A c : IsConnect(c) /\ Encodable(Connect(c))
              => BodySize(Connect(c)) \in Nat
  /\ \A p : IsPublish(p) /\ Encodable(Publish(p)) => BodySize(Publish(p)) \in Nat
  /\ \A s : IsRequest(s) =>
       /\ Encodable(Request(SUBSCRIBE, s)) => BodySize(Request(SUBSCRIBE, s)) \in Nat
       /\ Encodable(Request(UNSUBSCRIBE, s)) => BodySize(Request(UNSUBSCRIBE, s)) \in Nat
  /\ BodySize(Signal(PINGREQ)) \in Nat /\ BodySize(Signal(DISCONNECT)) \in Nat
<1>1. ASSUME NEW c, IsConnect(c), Encodable(Connect(c))
      PROVE  BodySize(Connect(c)) \in Nat
  <2> DEFINE m == Connect(c)
  <2>1. /\ m.type = CONNECT /\ m.client = c.client
        /\ m.user \in {NULL, c.user} /\ m.pass \in {NULL, c.pass}
    BY SMT DEF Connect
  <2>2. IsString(m.client) /\ IsString(m.user) /\ IsString(m.pass)
    BY <2>1, <1>1, SMT DEF IsString, IsConnect
  <2> HIDE DEF m
  <2>3. m.client # NULL BY <2>1, <1>1, SMT DEF Encodable, Required, m
  <2>4. LengthIfGiven(m.user) \in Nat /\ LengthIfGiven(m.pass) \in Nat
    BY <2>2, SMT DEF LengthIfGiven, IsString
  <2>5. BodySize(m) = 12 + m.client.len + LengthIfGiven(m.user) + LengthIfGiven(m.pass)
    BY <2>1, BodySizeOf, SMT
  <2>6. m.client.len \in Nat BY <2>2, <2>3, SMT DEF IsString
  <2> QED BY <2>4, <2>5, <2>6, SMT DEF m
<1>2. ASSUME NEW p, IsPublish(p), Encodable(Publish(p)) PROVE BodySize(Publish(p)) \in Nat
  <2> DEFINE m == Publish(p)
  <2>1. /\ m.type = PUBLISH /\ m.topic = p.topic
        /\ m.payload = IF p.len = 0 THEN Memory(<<>>) ELSE p.payload
    BY SMT DEF Publish
  <2> HIDE DEF m
  <2>2. m.topic # NULL /\ m.payload # NULL
    BY <2>1, <1>2, SMT DEF Encodable, Required, m, CONNECT, PUBLISH
  <2>3. m.topic.len \in Nat BY <2>1, <2>2, <1>2, SMT DEF IsPublish, IsString
  <2>4. m.payload.len \in Nat BY <2>1, <2>2, <1>2, SMT DEF IsPublish, IsString, Memory
  <2>5. BodySize(m) = 2 + m.topic.len + m.payload.len BY <2>1, BodySizeOf, SMT
  <2> QED BY <2>3, <2>4, <2>5, SMT DEF m
<1>3. ASSUME NEW s, IsRequest(s), NEW type \in {SUBSCRIBE, UNSUBSCRIBE},
             Encodable(Request(type, s))
      PROVE  BodySize(Request(type, s)) \in Nat
  <2> DEFINE m == Request(type, s)
  <2>1. m.type = type /\ m.topic = s.topic BY SMT DEF Request
  <2> HIDE DEF m
  <2>2. m.topic # NULL
    BY <2>1, <1>3, SMT DEF Encodable, Required, m, CONNECT, PUBLISH, SUBSCRIBE, UNSUBSCRIBE
  <2>3. m.topic.len \in Nat BY <2>1, <2>2, <1>3, SMT DEF IsString, IsRequest
  <2>4. BodySize(m) \in {5 + m.topic.len, 4 + m.topic.len}
    BY <2>1, SMT DEF BodySize, CONNECT, PUBLISH, SUBSCRIBE, UNSUBSCRIBE
  <2> QED BY <2>3, <2>4, SMT DEF m
<1>4. BodySize(Signal(PINGREQ)) \in Nat /\ BodySize(Signal(DISCONNECT)) \in Nat
  BY SMT DEF BodySize, Signal, CONNECT, PUBLISH, SUBSCRIBE, UNSUBSCRIBE, PINGREQ, DISCONNECT
<1> QED BY <1>1, <1>2, <1>3, <1>4, SMT

\* A buffer is a null pointer or a size.
LEMMA BuffersAreSizes ==
  ASSUME MqttAssumption, NEW m, Encodable(m) => BodySize(m) \in Nat, NEW buf \in Buffers(m)
  PROVE  IsBuffer(buf)
<1>1. SizeT - 1 \in Nat BY SMT DEF MqttAssumption
<1>2. Encodable(m) => PacketSize(m) \in Nat \ {0}
  <2>1. Encodable(m) => BodySize(m) < 268435456 BY SMT DEF Encodable, Power128
  <2>2. ASSUME BodySize(m) \in Nat, BodySize(m) < 268435456
        PROVE  varint_size(BodySize(m)) \in 1 .. 4
    BY <2>2, SMT DEF varint_size
  <2> QED BY <2>1, <2>2, SizeMeasured, SMT
<1> QED BY <1>1, <1>2, SMT DEF Buffers, IsBuffer

\* What the arguments of the calls are.
LEMMA Arguments ==
  /\ NULL # Memory(<<>>)
  /\ \A c \in Connects : IsConnect(c)
  /\ \A p \in Publications : IsPublish(p)
  /\ \A s \in Subscriptions : IsRequest(s)
  /\ \A t \in Topics : t # NULL /\ t.len \in Nat
  /\ \A v \in Measurements : Written(v).off \in Nat
<1>1. \A v \in Measurements : Written(v).off \in Nat
  BY MeasurementAssumption, MeasurementFills, Zenon DEF MeasurementAssumption, Filled
<1> QED BY <1>1, MqttLinkAssumption, Zenon DEF MqttLinkAssumption

\* A measurement that can be encoded fits.
LEMMA MeasuredIsPublish ==
  ASSUME NEW t \in Topics, NEW v \in Measurements, Encodable(Publish(Measured(t, v)))
  PROVE  IsPublish(Measured(t, v)) /\ PacketSize(Publish(Measured(t, v))) \in Nat
<1> DEFINE q == Measured(t, v)  m == Publish(q)
<1>1. t # NULL /\ t.len \in Nat /\ Written(v).off \in Nat BY Arguments, Zenon
<1>2. q.topic = t /\ q.payload.len = q.len /\ q.len = Written(v).off BY SMT DEF Measured
<1>3. m.type = PUBLISH /\ m.topic = q.topic /\ (q.len # 0 => m.payload = q.payload)
  BY SMT DEF Publish
<1>4. q.len = 0 => m.payload.len = 0 BY SMT DEF Publish, Memory
<1>5. BodySize(m) < 268435456 BY SMT DEF Encodable, Power128
<1> HIDE DEF q, m
<1>6. BodySize(m) = 2 + m.topic.len + m.payload.len BY <1>3, BodySizeOf, SMT
<1>7. m.payload.len = q.len BY <1>2, <1>3, <1>4, SMT
<1>8. BodySize(m) = 2 + t.len + q.len BY <1>2, <1>3, <1>6, <1>7, SMT
<1>9. IsPublish(q)
  <2>1. 65537 + q.len < UInt32 BY <1>1, <1>2, <1>5, <1>8, MqttAssumption, SMT DEF MqttAssumption
  <2> QED BY <2>1, <1>1, <1>2, SMT DEF IsPublish, IsString
<1>10. BodySize(m) \in Nat BY <1>1, <1>2, <1>8, SMT
<1>11. varint_size(BodySize(m)) \in Nat BY <1>10, SMT DEF varint_size
<1>12. PacketSize(m) \in Nat BY <1>5, <1>10, <1>11, SizeMeasured, SMT
<1> QED BY <1>9, <1>12, SMT DEF q, m

\* Every builder, called in whatever order and with whatever arguments and
\* buffer, returns the size of the packet it was to build if MQTT has one and
\* the buffer holds it, and 0 otherwise.
THEOREM ReturnsTheSizeAlways == LinkSpec => []ReturnsTheSize
<1>1. LinkInit => ReturnsTheSize BY DEF LinkInit, ReturnsTheSize
<1>2. ASSUME ReturnsTheSize, [LinkNext]_vars PROVE ReturnsTheSize'
  <2>1. ASSUME NEW m, NEW v, NEW buf, NEW result, Sends(m, v, buf, result),
               result.ret = Answer(m, buf)
        PROVE  ReturnsTheSize'
    BY <2>1 DEF Sends, ReturnsTheSize, Answer
  <2>2. CASE SendConnect
    <3>0. PICK c \in Connects : \E buf \in Buffers(Connect(c)) :
            Sends(Connect(c), NULL, buf, mqtt_build_connect(buf, c.client, c.user, c.pass))
      BY <2>2 DEF SendConnect
    <3>1. PICK buf \in Buffers(Connect(c)) :
            Sends(Connect(c), NULL, buf, mqtt_build_connect(buf, c.client, c.user, c.pass))
      BY <3>0
    <3>2. IsConnect(c)
      BY Arguments
    <3>3. IsBuffer(buf) BY <3>2, MqttAssumption, BodySizes, BuffersAreSizes
    <3> QED BY <3>1, <3>2, <3>3, <2>1, ConnectAnswers
  <2>3. CASE SendPublish
    <3>0. PICK p \in Publications : \E buf \in Buffers(Publish(p)) :
            Sends(Publish(p), NULL, buf, mqtt_build_publish(buf, p.topic, p.payload, p.len))
      BY <2>3 DEF SendPublish
    <3>1. PICK buf \in Buffers(Publish(p)) :
            Sends(Publish(p), NULL, buf, mqtt_build_publish(buf, p.topic, p.payload, p.len))
      BY <3>0
    <3>2. IsPublish(p) /\ NULL # Memory(<<>>)
      BY Arguments
    <3>3. IsBuffer(buf) BY <3>2, MqttAssumption, BodySizes, BuffersAreSizes
    <3> QED BY <3>1, <3>2, <3>3, <2>1, MqttAssumption, PublishAnswers
  <2>4. CASE SendMeasurement
    <3>1. PICK topic \in Topics, v \in Measurements :
            LET q == Measured(topic, v)
            IN  /\ Encodable(Publish(q))
                /\ Sends(Publish(q), v, PacketSize(Publish(q)),
                         mqtt_build_publish(PacketSize(Publish(q)), q.topic, q.payload, q.len))
      BY <2>4, Zenon DEF SendMeasurement
    <3>2. IsPublish(Measured(topic, v)) /\ IsBuffer(PacketSize(Publish(Measured(topic, v))))
      BY <3>1, MeasuredIsPublish DEF IsBuffer
    <3> QED BY <3>1, <3>2, <2>1, MqttAssumption, Arguments, PublishAnswers
  <2>5. CASE SendSubscribe
    <3>0. PICK s \in Subscriptions : \E buf \in Buffers(Request(SUBSCRIBE, s)) :
            Sends(Request(SUBSCRIBE, s), NULL, buf, mqtt_build_subscribe(buf, s.id, s.topic))
      BY <2>5 DEF SendSubscribe
    <3>1. PICK buf \in Buffers(Request(SUBSCRIBE, s)) :
            Sends(Request(SUBSCRIBE, s), NULL, buf, mqtt_build_subscribe(buf, s.id, s.topic))
      BY <3>0
    <3>2. IsRequest(s) BY Arguments
    <3>3. IsBuffer(buf) BY <3>2, MqttAssumption, BodySizes, BuffersAreSizes
    <3> QED BY <3>1, <3>2, <3>3, <2>1, MqttAssumption, SubscribeAnswers
  <2>6. CASE SendUnsubscribe
    <3>0. PICK s \in Subscriptions : \E buf \in Buffers(Request(UNSUBSCRIBE, s)) :
            Sends(Request(UNSUBSCRIBE, s), NULL, buf, mqtt_build_unsubscribe(buf, s.id, s.topic))
      BY <2>6 DEF SendUnsubscribe
    <3>1. PICK buf \in Buffers(Request(UNSUBSCRIBE, s)) :
            Sends(Request(UNSUBSCRIBE, s), NULL, buf, mqtt_build_unsubscribe(buf, s.id, s.topic))
      BY <3>0
    <3>2. IsRequest(s) BY Arguments
    <3>3. IsBuffer(buf) BY <3>2, MqttAssumption, BodySizes, BuffersAreSizes
    <3> QED BY <3>1, <3>2, <3>3, <2>1, MqttAssumption, UnsubscribeAnswers
  <2>7. CASE SendPingreq
    <3>1. PICK buf \in Buffers(Signal(PINGREQ)) :
            Sends(Signal(PINGREQ), NULL, buf, mqtt_build_pingreq(buf))
      BY <2>7 DEF SendPingreq
    <3>2. IsBuffer(buf) BY MqttAssumption, BodySizes, BuffersAreSizes
    <3> QED BY <3>1, <3>2, <2>1, MqttAssumption, SignalAnswers
  <2>8. CASE SendDisconnect
    <3>1. PICK buf \in Buffers(Signal(DISCONNECT)) :
            Sends(Signal(DISCONNECT), NULL, buf, mqtt_build_disconnect(buf))
      BY <2>8 DEF SendDisconnect
    <3>2. IsBuffer(buf) BY MqttAssumption, BodySizes, BuffersAreSizes
    <3> QED BY <3>1, <3>2, <2>1, MqttAssumption, SignalAnswers
  <2>9. CASE BrokerReads BY <2>9 DEF BrokerReads, ReturnsTheSize
  <2>10. CASE UNCHANGED vars BY <1>2, <2>10 DEF vars, ReturnsTheSize
  <2> QED BY <1>2, <2>2, <2>3, <2>4, <2>5, <2>6, <2>7, <2>8, <2>9, <2>10 DEF LinkNext
<1> QED BY <1>1, <1>2, PTL DEF LinkSpec
-----------------------------------------------------------------------------
(* The bytes of a message, and that the broker makes the message of them.  *)

StrIf(s) == IF s = NULL THEN <<>> ELSE Str(s)

Protocol == Memory(<<77, 81, 84, 84>>)

Body(m) ==
  CASE m.type = CONNECT ->
         Str(Protocol) \o (<<4, Flags(m.user, m.pass), 0, KEEPALIVE_S>>
           \o (Str(m.client) \o (StrIf(m.user) \o StrIf(m.pass))))
    [] m.type = PUBLISH     -> Str(m.topic) \o m.payload.bytes
    [] m.type = SUBSCRIBE   -> Bytes2(m.id) \o (Str(m.topic) \o <<0>>)
    [] m.type = UNSUBSCRIBE -> Bytes2(m.id) \o (Str(m.topic) \o <<>>)
    [] OTHER                -> <<>>

IsConnectMessage(m) ==
  /\ m = [type |-> CONNECT, client |-> m.client, user |-> m.user, pass |-> m.pass]
  /\ IsText(m.client) /\ TextOrNull(m.user) /\ TextOrNull(m.pass)
  /\ m.user = NULL => m.pass = NULL

IsPublishMessage(m) ==
  /\ m = [type |-> PUBLISH, topic |-> m.topic, payload |-> m.payload]
  /\ IsText(m.topic) /\ IsText(m.payload)

IsRequestMessage(t, m) ==
  /\ m = [type |-> t, id |-> m.id, topic |-> m.topic]
  /\ IsText(m.topic) /\ m.id \in uint16_t

\* What MQTT can say.
IsMessage(m) == \/ IsConnectMessage(m) \/ IsPublishMessage(m)
                \/ IsRequestMessage(SUBSCRIBE, m) \/ IsRequestMessage(UNSUBSCRIBE, m)
                \/ m = Signal(PINGREQ) \/ m = Signal(DISCONNECT)
Sayable(m) == IsMessage(m) /\ Encodable(m)

\* No two packets begin with the same byte.
LEMMA TypesDiffer ==
  /\ CONNECT # PUBLISH /\ CONNECT # SUBSCRIBE /\ CONNECT # UNSUBSCRIBE
  /\ PUBLISH # SUBSCRIBE /\ PUBLISH # UNSUBSCRIBE /\ SUBSCRIBE # UNSUBSCRIBE
  /\ PINGREQ \notin {CONNECT, PUBLISH, SUBSCRIBE, UNSUBSCRIBE}
  /\ DISCONNECT \notin {CONNECT, PUBLISH, SUBSCRIBE, UNSUBSCRIBE}
  BY DEF CONNECT, PUBLISH, SUBSCRIBE, UNSUBSCRIBE, PINGREQ, DISCONNECT

\* The body by the type of the packet.
LEMMA BodyIs ==
  ASSUME NEW m
  PROVE  /\ m.type = CONNECT =>
              Body(m) = Str(Protocol) \o (<<4, Flags(m.user, m.pass), 0, KEEPALIVE_S>>
                          \o (Str(m.client) \o (StrIf(m.user) \o StrIf(m.pass))))
         /\ m.type = PUBLISH => Body(m) = Str(m.topic) \o m.payload.bytes
         /\ m.type = SUBSCRIBE => Body(m) = Bytes2(m.id) \o (Str(m.topic) \o <<0>>)
         /\ m.type = UNSUBSCRIBE => Body(m) = Bytes2(m.id) \o (Str(m.topic) \o <<>>)
         /\ m.type \in {PINGREQ, DISCONNECT} => Body(m) = <<>>
<1>1. CASE m.type = CONNECT
  BY <1>1, TypesDiffer, Zenon DEF Body
<1>2. CASE m.type = PUBLISH
  BY <1>2, TypesDiffer, Zenon DEF Body
<1>3. CASE m.type = SUBSCRIBE
  BY <1>3, TypesDiffer, Zenon DEF Body
<1>4. CASE m.type = UNSUBSCRIBE
  BY <1>4, TypesDiffer, Zenon DEF Body
<1>5. CASE m.type \in {PINGREQ, DISCONNECT}
  BY <1>5, TypesDiffer, Zenon DEF Body
<1> QED BY <1>1, <1>2, <1>3, <1>4, <1>5

\* What the broker looks for, by the type of the packet.
LEMMA ParseIs ==
  ASSUME NEW s
  PROVE  /\ Parse(CONNECT, s) = ParseConnect(s)
         /\ Parse(PUBLISH, s) = ParsePublish(s)
         /\ Parse(SUBSCRIBE, s) = ParseRequest(SUBSCRIBE, s, <<0>>)
         /\ Parse(UNSUBSCRIBE, s) = ParseRequest(UNSUBSCRIBE, s, <<>>)
         /\ s = <<>> => /\ Parse(PINGREQ, s) = Signal(PINGREQ)
                        /\ Parse(DISCONNECT, s) = Signal(DISCONNECT)
  BY DEF Parse, CONNECT, PUBLISH, SUBSCRIBE, UNSUBSCRIBE, PINGREQ, DISCONNECT

\* Nothing taken leaves everything.
LEMMA NothingRead ==
  ASSUME NEW x, NEW s \in Seq(Element)
  PROVE  Get(x, s, 0) = [value |-> x, rest |-> s]
<1>1. SubSeq(s, 1, Len(s)) = s
  OBVIOUS
<1>2. 0 + 1 = 1
  OBVIOUS
<1> QED BY <1>1, <1>2, Zenon DEF Get

Short(s) == TextOrNull(s) /\ (s # NULL => s.len \in uint16_t)

\* An optional string is read when it is announced, and else not looked for.
LEMMA IfRead ==
  ASSUME NEW s, Short(s), NEW r \in Seq(Element)
  PROVE  /\ GetIf(s # NULL, StrIf(s) \o r) = [value |-> s, rest |-> r]
         /\ StrIf(s) \in Seq(Element) /\ StrIf(s) \o r \in Seq(Element)
         /\ Width(StrIf(s)) = LengthIfGiven(s) /\ LengthIfGiven(s) \in Nat
<1>1. CASE s = NULL
  <2>1. StrIf(s) = <<>> /\ LengthIfGiven(s) = 0
    BY <1>1 DEF StrIf, LengthIfGiven
  <2>2. <<>> \o r = r /\ <<>> \in Seq(Element)
    OBVIOUS
  <2>3. GetIf(s # NULL, r) = [value |-> s, rest |-> r]
    BY <1>1, NothingRead, Zenon DEF GetIf
  <2>4. 0 \in Nat
    OBVIOUS
  <2> QED BY <2>1, <2>2, <2>3, <2>4, WidthNone, Zenon
<1>2. CASE s # NULL
  <2>1. IsText(s) /\ s.len \in uint16_t
    BY <1>2, Zenon DEF Short, TextOrNull
  <2>2. StrIf(s) = Str(s) /\ LengthIfGiven(s) = 2 + s.len
    BY <1>2, Zenon DEF StrIf, LengthIfGiven
  <2>3. Str(s) \in Seq(Element) /\ Width(Str(s)) = 2 + s.len /\ s.len \in Nat
    BY <2>1, StrIs, TextIs
  <2>4. Str(s) \o r \in Seq(Element)
    BY <2>3
  <2>5. GetIf(s # NULL, Str(s) \o r) = [value |-> s, rest |-> r]
    BY <1>2, <2>1, StringRead, Zenon DEF GetIf
  <2>6. 2 + s.len \in Nat
    BY <2>3
  <2> QED BY <2>2, <2>3, <2>4, <2>5, <2>6, Zenon
<1> QED BY <1>1, <1>2

\* The name of the protocol is a text of four bytes.
LEMMA ProtocolIs == IsText(Protocol) /\ Protocol.len = 4 /\ Protocol.len \in uint16_t
<1> DEFINE b == <<77, 81, 84, 84>>
<1>1. 77 \in uint8_t /\ 81 \in uint8_t /\ 84 \in uint8_t
  BY DEF uint8_t
<1>2. b \in Seq(Element) /\ Width(b) = 4
  BY <1>1, BytesCount
<1>3. Len(b) = 4 /\ 4 \in Nat /\ 4 \in uint16_t
  BY DEF uint16_t
<1>4. Protocol = [bytes |-> b, len |-> 4]
  BY <1>3, Zenon DEF Protocol, Memory
<1> HIDE DEF b
<1>5. Protocol \in [bytes : Seq(Element), len : Nat] /\ Protocol.len = 4 /\ Protocol.bytes = b
  BY <1>2, <1>3, <1>4
<1> QED BY <1>2, <1>3, <1>5, Zenon DEF IsText

\* The flags of CONNECT are a byte that announces exactly the strings that are
\* there.
LEMMA FlagsSay ==
  ASSUME NEW user, NEW pass, user = NULL => pass = NULL
  PROVE  /\ Flags(user, pass) \in uint8_t /\ Flags(user, pass) \in {2, 130, 194}
         /\ Flags(user, pass) \div 128 = 1 <=> user # NULL
         /\ (Flags(user, pass) \div 64) % 2 = 1 <=> pass # NULL
<1>1. CASE user = NULL
  <2>1. Flags(user, pass) = 2
    BY <1>1 DEF Flags
  <2> QED BY <1>1, <2>1 DEF uint8_t
<1>2. CASE user # NULL /\ pass = NULL
  <2>1. Flags(user, pass) = 130
    BY <1>2 DEF Flags
  <2> QED BY <1>2, <2>1 DEF uint8_t
<1>3. CASE user # NULL /\ pass # NULL
  <2>1. Flags(user, pass) = 194
    BY <1>3 DEF Flags
  <2> QED BY <1>3, <2>1 DEF uint8_t
<1> QED BY <1>1, <1>2, <1>3

\* An announcement counts only by whether it is one.
LEMMA GivenTheSame ==
  ASSUME NEW g, NEW h, NEW s, g <=> h
  PROVE  GetIf(g, s) = GetIf(h, s)
  BY DEF GetIf

\* The four bytes after the name of the protocol.
LEMMA HeadIs ==
  ASSUME NEW f \in uint8_t, NEW q \in Seq(Element)
  PROVE  LET h == <<4, f, 0, KEEPALIVE_S>>
         IN  /\ h \in Seq(Element) /\ Width(h) = 4 /\ h \o q \in Seq(Element)
             /\ (h \o q)[1] = 4 /\ (h \o q)[2] = f /\ SubSeq(h \o q, 5, Len(h \o q)) = q
<1>1. 4 \in uint8_t /\ 0 \in uint8_t /\ KEEPALIVE_S \in uint8_t
  BY DEF uint8_t, KEEPALIVE_S
<1> DEFINE h == <<4, f, 0, KEEPALIVE_S>>
<1>2. h \in Seq(Element) /\ Width(h) = 4
  BY <1>1, BytesCount, ZenonT(60)
<1>3. h \o q \in Seq(Element)
  <2> HIDE DEF h
  <2> QED BY <1>2
<1>4. (h \o q)[1] = 4 /\ (h \o q)[2] = f /\ SubSeq(h \o q, 5, Len(h \o q)) = q
  BY AfterFour
<1> QED BY <1>2, <1>3, <1>4, Zenon

\* What the broker finds in the body of a CONNECT, field after field.
Fields(w, f, q0, q1, q2, q3, client, user, pass) ==
  /\ GetString(w) = [value |-> Protocol, rest |-> q0]
  /\ q0[1] = 4 /\ q0[2] = f /\ SubSeq(q0, 5, Len(q0)) = q1 /\ f \in {2, 130, 194}
  /\ GetString(q1) = [value |-> client, rest |-> q2]
  /\ GetIf(f \div 128 = 1, q2) = [value |-> user, rest |-> q3]
  /\ GetIf((f \div 64) % 2 = 1, q3) = [value |-> pass, rest |-> <<>>]

\* Fields that are found in their places make the message.
LEMMA ConnectParsed ==
  ASSUME NEW w, NEW f, NEW q0, NEW q1, NEW q2, NEW q3, NEW client, NEW user, NEW pass,
         Fields(w, f, q0, q1, q2, q3, client, user, pass)
  PROVE  ParseConnect(w) = [type |-> CONNECT, client |-> client, user |-> user, pass |-> pass]
<1> DEFINE a == GetString(w)
           b == GetString(q1)
           c == GetIf(f \div 128 = 1, q2)
           d == GetIf((f \div 64) % 2 = 1, q3)
<1> USE DEF Fields
<1>1. /\ a.value = Protocol /\ a.rest = q0 /\ b.value = client /\ b.rest = q2
      /\ c.value = user /\ c.rest = q3 /\ d.value = pass /\ d.rest = <<>>
  OBVIOUS
<1> QED BY <1>1, Zenon DEF ParseConnect, Protocol

\* The bytes of CONNECT, and that the broker makes the message of them.
LEMMA ConnectSaid ==
  ASSUME NEW m, IsConnectMessage(m), m.client.len \in uint16_t, Short(m.user), Short(m.pass)
  PROVE  /\ Body(m) \in Seq(Element) /\ Width(Body(m)) = BodySize(m)
         /\ Parse(CONNECT, Body(m)) = m
<1> DEFINE f == Flags(m.user, m.pass)
           h == <<4, f, 0, KEEPALIVE_S>>
           c == Str(m.client)
           u == StrIf(m.user)
           p == StrIf(m.pass)
           q2 == u \o p
           q1 == c \o q2
           q0 == h \o q1
           n == Str(Protocol)
           w == n \o q0
<1>1. m.type = CONNECT
  BY DEF IsConnectMessage
<1>2. Body(m) = w
  BY <1>1, BodyIs, Zenon
<1>3. /\ f \in uint8_t /\ f \in {2, 130, 194}
      /\ f \div 128 = 1 <=> m.user # NULL
      /\ (f \div 64) % 2 = 1 <=> m.pass # NULL
  BY FlagsSay DEF IsConnectMessage
<1>4. /\ <<>> \in Seq(Element) /\ p \in Seq(Element) /\ p \o <<>> = p
      /\ Width(p) = LengthIfGiven(m.pass) /\ LengthIfGiven(m.pass) \in Nat
      /\ GetIf(m.pass # NULL, p) = [value |-> m.pass, rest |-> <<>>]
  <2>1. <<>> \in Seq(Element)
    OBVIOUS
  <2>2. p \in Seq(Element) /\ Width(p) = LengthIfGiven(m.pass) /\ LengthIfGiven(m.pass) \in Nat
    BY <2>1, IfRead, Zenon
  <2>3. GetIf(m.pass # NULL, p \o <<>>) = [value |-> m.pass, rest |-> <<>>]
    BY <2>1, IfRead, Zenon
  <2> HIDE DEF p
  <2>4. p \o <<>> = p
    BY <2>2
  <2> QED BY <2>1, <2>2, <2>3, <2>4, Zenon
<1>5. /\ u \in Seq(Element) /\ q2 \in Seq(Element)
      /\ Width(u) = LengthIfGiven(m.user) /\ LengthIfGiven(m.user) \in Nat
      /\ GetIf(m.user # NULL, q2) = [value |-> m.user, rest |-> p]
  BY <1>4, IfRead, Zenon
<1>6. /\ c \in Seq(Element) /\ Width(c) = 2 + m.client.len /\ m.client.len \in Nat
      /\ GetString(q1) = [value |-> m.client, rest |-> q2]
  BY <1>5, StrIs, TextIs, StringRead, Zenon DEF IsConnectMessage
<1>7. q1 \in Seq(Element)
  <2> HIDE DEF c, q2
  <2> QED BY <1>5, <1>6
<1>8. /\ h \in Seq(Element) /\ Width(h) = 4 /\ q0 \in Seq(Element)
      /\ q0[1] = 4 /\ q0[2] = f /\ SubSeq(q0, 5, Len(q0)) = q1
  <2> HIDE DEF f, q1
  <2> QED BY <1>3, <1>7, HeadIs
<1>9. /\ n \in Seq(Element) /\ Width(n) = 6
      /\ GetString(w) = [value |-> Protocol, rest |-> q0]
  <2> HIDE DEF q0
  <2>1. 2 + 4 = 6
    OBVIOUS
  <2> QED BY <1>8, <2>1, ProtocolIs, StrIs, StringRead, Zenon
<1> HIDE DEF f, h, c, u, p, q2, q1, q0, n
<1>10. w \in Seq(Element)
  BY <1>8, <1>9
<1>11. Width(w) = BodySize(m)
  <2>1. Width(q2) = Width(u) + Width(p)
    BY <1>4, <1>5, WidthJoin, Zenon DEF q2
  <2>2. Width(q1) = Width(c) + Width(q2)
    BY <1>5, <1>6, WidthJoin, Zenon DEF q1
  <2>3. Width(q0) = Width(h) + Width(q1)
    BY <1>7, <1>8, WidthJoin, Zenon DEF q0
  <2>4. Width(w) = Width(n) + Width(q0)
    BY <1>8, <1>9, WidthJoin, Zenon
  <2>5. BodySize(m) = 12 + m.client.len + LengthIfGiven(m.user) + LengthIfGiven(m.pass)
    BY <1>1, BodySizeOf
  <2>6. /\ Width(p) = LengthIfGiven(m.pass) /\ LengthIfGiven(m.pass) \in Nat
        /\ Width(u) = LengthIfGiven(m.user) /\ LengthIfGiven(m.user) \in Nat
        /\ Width(c) = 2 + m.client.len /\ m.client.len \in Nat /\ Width(h) = 4 /\ Width(n) = 6
    BY <1>4, <1>5, <1>6, <1>8, <1>9, Zenon
  <2> HIDE DEF w
  <2> QED BY <2>1, <2>2, <2>3, <2>4, <2>5, <2>6
<1>12. ParseConnect(w) = m
  <2>1. GetIf(f \div 128 = 1, q2) = [value |-> m.user, rest |-> p]
    BY <1>3, <1>5, GivenTheSame, Zenon
  <2>2. GetIf((f \div 64) % 2 = 1, p) = [value |-> m.pass, rest |-> <<>>]
    BY <1>3, <1>4, GivenTheSame, Zenon
  <2>3. ParseConnect(w) = [type |-> CONNECT, client |-> m.client, user |-> m.user, pass |-> m.pass]
    <3> HIDE DEF w
    <3>1. Fields(w, f, q0, q1, q2, p, m.client, m.user, m.pass)
      BY <1>3, <1>6, <1>8, <1>9, <2>1, <2>2, Zenon DEF Fields
    <3> QED BY <3>1, ConnectParsed, Zenon
  <2> QED BY <2>3, Zenon DEF IsConnectMessage
<1> QED BY <1>1, <1>2, <1>10, <1>11, <1>12, ParseIs, Zenon

\* The bytes of PUBLISH, and that the broker makes the message of them.
LEMMA PublishSaid ==
  ASSUME NEW m, IsPublishMessage(m), m.topic.len \in uint16_t
  PROVE  /\ Body(m) \in Seq(Element) /\ Width(Body(m)) = BodySize(m)
         /\ Parse(PUBLISH, Body(m)) = m
<1> DEFINE c == Str(m.topic)
           p == m.payload.bytes
           w == c \o p
<1>1. m.type = PUBLISH
  BY DEF IsPublishMessage
<1>2. Body(m) = w
  BY <1>1, BodyIs, Zenon
<1>3. p \in Seq(Element) /\ m.payload.len = Width(p) /\ m.payload = [bytes |-> p, len |-> Width(p)]
  BY TextIs, Zenon DEF IsPublishMessage
<1>4. /\ c \in Seq(Element) /\ Width(c) = 2 + m.topic.len /\ m.topic.len \in Nat
      /\ GetString(w) = [value |-> m.topic, rest |-> p]
  BY <1>3, StrIs, TextIs, StringRead, Zenon DEF IsPublishMessage
<1> HIDE DEF c, p
<1>5. Width(w) = Width(c) + Width(p) /\ Width(p) \in Nat
  BY <1>3, <1>4, WidthJoin, Zenon
<1>6. w \in Seq(Element)
  BY <1>3, <1>4
<1> HIDE DEF w
<1>7. Width(w) = BodySize(m)
  <2>1. BodySize(m) = 2 + m.topic.len + m.payload.len
    BY <1>1, BodySizeOf
  <2> QED BY <1>3, <1>4, <1>5, <2>1
<1>8. ParsePublish(w) = m
  <2>1. GetString(w).value = m.topic /\ GetString(w).rest = p
    BY <1>4
  <2>2. ParsePublish(w) = [type |-> PUBLISH, topic |-> m.topic, payload |-> m.payload]
    BY <1>3, <2>1, Zenon DEF ParsePublish
  <2> QED BY <2>2, Zenon DEF IsPublishMessage
<1> QED BY <1>2, <1>6, <1>7, <1>8, ParseIs, Zenon

\* The identifier and the topic, found in their places, make the message.
LEMMA RequestParsed ==
  ASSUME NEW m, NEW t, IsRequestMessage(t, m), m.topic.len \in uint16_t, NEW tail \in Seq(Element)
  PROVE  LET w == Bytes2(m.id) \o (Str(m.topic) \o tail)
         IN  /\ w \in Seq(Element) /\ Width(w) = 4 + m.topic.len + Width(tail)
             /\ Width(tail) \in Nat /\ m.topic.len \in Nat
             /\ ParseRequest(t, w, tail) = m
<1> DEFINE h == Bytes2(m.id)
           c == Str(m.topic)
           q == c \o tail
           w == h \o q
<1>1. h \in Seq(Element) /\ Width(h) = 2
  <2>1. m.id \in Int
    BY DEF IsRequestMessage, uint16_t
  <2> QED BY <2>1, HalfWord, Zenon
<1>2. /\ c \in Seq(Element) /\ Width(c) = 2 + m.topic.len /\ m.topic.len \in Nat
      /\ GetString(q) = [value |-> m.topic, rest |-> tail]
  BY StrIs, TextIs, StringRead, Zenon DEF IsRequestMessage
<1> HIDE DEF c
<1>3. q \in Seq(Element) /\ Width(q) = Width(c) + Width(tail) /\ Width(tail) \in Nat
  <2>1. q \in Seq(Element)
    BY <1>2
  <2> QED BY <1>2, <2>1, WidthJoin, Zenon
<1> HIDE DEF q
<1>4. bs_get_u16_be(w) = [value |-> m.id, rest |-> q]
  BY <1>3, HalfWordRead, Zenon DEF IsRequestMessage
<1> HIDE DEF h
<1>5. w \in Seq(Element) /\ Width(w) = Width(h) + Width(q)
  <2>1. w \in Seq(Element)
    BY <1>1, <1>3
  <2> QED BY <1>1, <1>3, <2>1, WidthJoin, Zenon
<1> HIDE DEF w
<1>6. Width(w) = 4 + m.topic.len + Width(tail)
  BY <1>1, <1>2, <1>3, <1>5
<1>7. ParseRequest(t, w, tail) = m
  <2>1. /\ bs_get_u16_be(w).value = m.id /\ bs_get_u16_be(w).rest = q
        /\ GetString(q).value = m.topic /\ GetString(q).rest = tail
    BY <1>2, <1>4
  <2>2. ParseRequest(t, w, tail) = [type |-> t, id |-> m.id, topic |-> m.topic]
    BY <2>1, Zenon DEF ParseRequest
  <2> QED BY <2>2, Zenon DEF IsRequestMessage
<1> QED BY <1>2, <1>3, <1>5, <1>6, <1>7, Zenon DEF w, h, q, c

\* The bytes of SUBSCRIBE and UNSUBSCRIBE, and that the broker makes the
\* message of them.
LEMMA RequestSaid ==
  ASSUME NEW m, NEW t \in {SUBSCRIBE, UNSUBSCRIBE}, IsRequestMessage(t, m),
         m.topic.len \in uint16_t
  PROVE  /\ Body(m) \in Seq(Element) /\ Width(Body(m)) = BodySize(m)
         /\ Parse(t, Body(m)) = m
<1>0. m.type = t
  BY DEF IsRequestMessage
<1>1. CASE t = SUBSCRIBE
  <2> DEFINE w == Bytes2(m.id) \o (Str(m.topic) \o <<0>>)
  <2>1. Body(m) = w /\ BodySize(m) = 5 + m.topic.len
    BY <1>0, <1>1, BodyIs, BodySizeOf, Zenon
  <2>2. <<0>> \in Seq(Element) /\ Width(<<0>>) = 1
    <3>1. 0 \in uint8_t
      BY DEF uint8_t
    <3> QED BY <3>1, BytesCount
  <2>3. /\ w \in Seq(Element) /\ Width(w) = 4 + m.topic.len + Width(<<0>>) /\ m.topic.len \in Nat
        /\ ParseRequest(t, w, <<0>>) = m
    BY <2>2, RequestParsed, Zenon
  <2> HIDE DEF w
  <2>4. Width(w) = BodySize(m)
    BY <2>1, <2>2, <2>3
  <2> QED BY <1>1, <2>1, <2>3, <2>4, ParseIs, Zenon
<1>2. CASE t = UNSUBSCRIBE
  <2> DEFINE w == Bytes2(m.id) \o (Str(m.topic) \o <<>>)
  <2>1. Body(m) = w /\ BodySize(m) = 4 + m.topic.len
    BY <1>0, <1>2, BodyIs, BodySizeOf, Zenon
  <2>2. <<>> \in Seq(Element) /\ Width(<<>>) = 0
    BY WidthNone
  <2>3. /\ w \in Seq(Element) /\ Width(w) = 4 + m.topic.len + Width(<<>>) /\ m.topic.len \in Nat
        /\ ParseRequest(t, w, <<>>) = m
    BY <2>2, RequestParsed, Zenon
  <2> HIDE DEF w
  <2>4. Width(w) = BodySize(m)
    BY <2>1, <2>2, <2>3
  <2> QED BY <1>2, <2>1, <2>3, <2>4, ParseIs, Zenon
<1> QED BY <1>1, <1>2

\* A packet without a body says its type.
LEMMA SignalSaid ==
  ASSUME NEW m, m = Signal(PINGREQ) \/ m = Signal(DISCONNECT)
  PROVE  /\ Body(m) \in Seq(Element) /\ Width(Body(m)) = BodySize(m)
         /\ Parse(m.type, Body(m)) = m
<1>1. m.type \in {PINGREQ, DISCONNECT} /\ m = Signal(m.type)
  BY DEF Signal
<1>2. Body(m) = <<>> /\ BodySize(m) = 0
  BY <1>1, BodyIs, BodySizeOf, Zenon
<1>3. <<>> \in Seq(Element) /\ Width(<<>>) = 0
  BY WidthNone
<1> QED BY <1>1, <1>2, <1>3, ParseIs

\* What has to be short in a message that can be encoded, is.
LEMMA SayableIsShort ==
  ASSUME NEW m, Sayable(m)
  PROVE  /\ IsConnectMessage(m) => m.client.len \in uint16_t /\ Short(m.user) /\ Short(m.pass)
         /\ IsPublishMessage(m) => m.topic.len \in uint16_t
         /\ \A t \in {SUBSCRIBE, UNSUBSCRIBE} : IsRequestMessage(t, m) => m.topic.len \in uint16_t
<1> DEFINE Fits(s) == s.len <= 65535
<1>0. ASSUME NEW s, IsText(s), Fits(s) PROVE s.len \in uint16_t
  <2>1. s.len \in Nat
    BY <1>0, TextIs, SMT
  <2> QED BY <1>0, <2>1, SMT DEF uint16_t
<1>1. \A s \in Required(m) \cup Optional(m) : Fits(s)
  BY SMT DEF Sayable, Encodable
<1> HIDE DEF Fits
<1>2. ASSUME IsConnectMessage(m)
      PROVE  m.client.len \in uint16_t /\ Short(m.user) /\ Short(m.pass)
  <2>1. m.type = CONNECT
    BY <1>2 DEF IsConnectMessage
  <2>2. Required(m) = {m.client} /\ Optional(m) = {m.user, m.pass} \ {NULL}
    BY <2>1 DEF Required, Optional
  <2>3. /\ Fits(m.client)
        /\ m.user # NULL => Fits(m.user)
        /\ m.pass # NULL => Fits(m.pass)
    BY <1>1, <2>2
  <2>4. IsText(m.client) /\ TextOrNull(m.user) /\ TextOrNull(m.pass)
    BY <1>2 DEF IsConnectMessage
  <2> QED BY <1>0, <2>3, <2>4 DEF Short, TextOrNull
<1>3. ASSUME IsPublishMessage(m) PROVE m.topic.len \in uint16_t
  <2>1. m.type = PUBLISH /\ IsText(m.topic)
    BY <1>3 DEF IsPublishMessage
  <2>2. m.topic \in Required(m)
    BY <2>1, TypesDiffer DEF Required
  <2> QED BY <1>0, <1>1, <2>1, <2>2
<1>4. ASSUME NEW t \in {SUBSCRIBE, UNSUBSCRIBE}, IsRequestMessage(t, m)
      PROVE  m.topic.len \in uint16_t
  <2>1. m.type = t /\ IsText(m.topic)
    BY <1>4 DEF IsRequestMessage
  <2>2. m.topic \in Required(m)
    BY <2>1, TypesDiffer DEF Required
  <2> QED BY <1>0, <1>1, <2>1, <2>2
<1> QED BY <1>2, <1>3, <1>4

\* Whatever MQTT can say, the broker makes of its bytes what was said.
LEMMA Said ==
  ASSUME NEW m, Sayable(m)
  PROVE  /\ Body(m) \in Seq(Element) /\ Width(Body(m)) = BodySize(m)
         /\ Parse(m.type, Body(m)) = m
<1>1. CASE IsConnectMessage(m)
  <2>1. m.type = CONNECT
    BY <1>1 DEF IsConnectMessage
  <2> QED BY <1>1, <2>1, SayableIsShort, ConnectSaid
<1>2. CASE IsPublishMessage(m)
  <2>1. m.type = PUBLISH
    BY <1>2 DEF IsPublishMessage
  <2> QED BY <1>2, <2>1, SayableIsShort, PublishSaid
<1>3. ASSUME NEW t \in {SUBSCRIBE, UNSUBSCRIBE}, IsRequestMessage(t, m)
      PROVE  /\ Body(m) \in Seq(Element) /\ Width(Body(m)) = BodySize(m)
             /\ Parse(m.type, Body(m)) = m
  <2>1. m.type = t
    BY <1>3 DEF IsRequestMessage
  <2>2. m.topic.len \in uint16_t
    BY <1>3, SayableIsShort, Zenon
  <2> QED BY <1>3, <2>1, <2>2, RequestSaid, Zenon
<1>4. CASE m = Signal(PINGREQ) \/ m = Signal(DISCONNECT)
  BY <1>4, SignalSaid, Zenon
<1> QED BY <1>1, <1>2, <1>3, <1>4 DEF Sayable, IsMessage
-----------------------------------------------------------------------------
(* The remaining length, as the broker reads it.                           *)

\* Bytes of which all but the last say that more follow.
Coded(c) == /\ c \in Seq(uint8_t) /\ Len(c) \in 1 .. 4 /\ c[Len(c)] < 128
            /\ \A j \in 1 .. Len(c) - 1 : c[j] >= 128

\* A coded length is one to four bytes long.
LEMMA CodedLength ==
  ASSUME NEW c, Coded(c)
  PROVE  Len(c) \in Nat /\ DOMAIN c = 1 .. Len(c)
  BY DEF Coded

\* The bytes of a coded length.
LEMMA CodedBytes ==
  ASSUME NEW c, Coded(c)
  PROVE  \A k \in 1 .. Len(c) : c[k] \in Nat
<1>1. \A k \in 1 .. Len(c) : c[k] \in uint8_t
  BY DEF Coded
<1>2. \A x \in uint8_t : x \in Nat
  BY DEF uint8_t
<1> QED BY <1>1, <1>2, Zenon

\* The last group of a coded length is where the reader stops.
LEMMA GroupsEnd ==
  ASSUME NEW c, Coded(c), NEW r \in Seq(Element)
  PROVE  LET s == c \o r
         IN  /\ LastGroup(s) = Len(c) /\ SubSeq(s, 1, LastGroup(s)) = c
             /\ SubSeq(s, LastGroup(s) + 1, Len(s)) = r
<1> DEFINE s == c \o r
           n == Len(c)
           T == Element \cup uint8_t
<1>1. n \in 1 .. 4 /\ c \in Seq(T) /\ r \in Seq(T)
  BY DEF Coded
<1>2. \A k \in 1 .. n : s[k] = c[k]
  BY <1>1
<1>3. SubSeq(s, 1, n) = c /\ SubSeq(s, n + 1, Len(s)) = r
  BY <1>1
<1>4. c[n] < 128 /\ \A j \in 1 .. n - 1 : c[j] >= 128
  BY DEF Coded
<1>5. \A k \in 1 .. n : c[k] \in Nat
  BY CodedBytes
<1> HIDE DEF s, n
<1>6. s[n] < 128 /\ \A j \in 1 .. n - 1 : s[j] >= 128
  BY <1>1, <1>2, <1>4
<1>7. ASSUME NEW k \in 1 .. 4, s[k] < 128, \A j \in 1 .. k - 1 : s[j] >= 128
      PROVE  k = n
  <2>1. CASE k < n
    <3>1. k \in 1 .. n - 1 /\ k \in 1 .. n
      BY <1>1, <2>1
    <3>2. s[k] >= 128 /\ s[k] \in Nat
      BY <1>2, <1>5, <1>6, <3>1
    <3> QED BY <1>7, <3>2
  <2>2. CASE n < k
    <3>1. n \in 1 .. k - 1 /\ n \in 1 .. n
      BY <1>1, <2>2
    <3>2. s[n] >= 128 /\ s[n] \in Nat
      BY <1>2, <1>5, <1>7, <3>1
    <3> QED BY <1>6, <3>2
  <2> QED BY <1>1, <2>1, <2>2
<1>8. LastGroup(s) = n
  BY <1>1, <1>6, <1>7 DEF LastGroup
<1> QED BY <1>3, <1>8, Zenon DEF s, n

\* The function that Decoded recurses with.
Decodes(g, c) ==
  \A t \in SUBSET (1 .. Len(c)) :
    g[t] = IF t = {} THEN 0 ELSE 128 * g[t \ {Min(t)}] + (c[Min(t)] % 128)

\* What the reader decodes is the value of the groups up to the last.
LEMMA DecodedIs ==
  ASSUME NEW c, Coded(c)
  PROVE  \E g : /\ Decodes(g, c)
                /\ g[1 .. Len(c)] = FoldRight(LAMBDA b, n : 128 * n + (b % 128), c, 0)
<1> DEFINE N == Len(c)
           Folding(g) == g = [t \in SUBSET DOMAIN c |-> IF t = {} THEN 0
                                ELSE 128 * g[t \ {Min(t)}] + (c[Min(t)] % 128)]
           g0 == CHOOSE g : Folding(g)
           whole == FoldRight(LAMBDA b, n : 128 * n + (b % 128), c, 0)
<1>1. N \in Nat /\ DOMAIN c = 1 .. N /\ \A k \in 1 .. N : c[k] \in Nat
  BY CodedBytes, CodedLength
<1>2. whole = g0[DOMAIN c]
  BY Zenon DEF FoldRight, MapThenFoldSet
<1> HIDE DEF N
<1>3. PICK g \in [SUBSET (1 .. N) -> Nat] : Folding(g)
  <2> DEFINE F == [k \in 1 .. N |-> [v \in Nat |-> 128 * v + (c[k] % 128)]]
             V == Nat
  <2>1. ASSUME NEW k \in 1 .. N, NEW v \in Nat
        PROVE  F[k][v] = 128 * v + (c[k] % 128) /\ 128 * v + (c[k] % 128) \in Nat
    <3>1. c[k] \in Nat
      BY <1>1
    <3>2. c[k] % 128 \in Nat
      BY <3>1
    <3> QED BY <3>2
  <2>2. 0 \in V /\ Keeps(F, 1 .. N, V)
    BY <2>1 DEF Keeps
  <2> HIDE DEF F, V
  <2>3. PICK g \in [SUBSET (1 .. N) -> V] : FoldsRight(g, N, F, 0)
    BY <1>1, <2>2, FoldRightExists
  <2>4. ASSUME NEW t \in SUBSET (1 .. N)
        PROVE  g[t] = IF t = {} THEN 0 ELSE 128 * g[t \ {Min(t)}] + (c[Min(t)] % 128)
    <3>1. CASE t = {}
      BY <2>3, <3>1 DEF FoldsRight
    <3>2. CASE t # {}
      <4>1. Min(t) \in 1 .. N /\ t \ {Min(t)} \in SUBSET (1 .. N)
        BY <1>1, <3>2, MinIs
      <4>2. g[t] = F[Min(t)][g[t \ {Min(t)}]] /\ g[t \ {Min(t)}] \in Nat
        BY <2>3, <3>2, <4>1 DEF FoldsRight, V
      <4> QED BY <2>1, <3>2, <4>1, <4>2, Zenon
    <3> QED BY <3>1, <3>2
  <2>5. g \in [SUBSET (1 .. N) -> Nat]
    BY <2>3 DEF V
  <2>6. Folding(g)
    BY <1>1, <2>4, <2>5
  <2> QED BY <2>5, <2>6
<1>4. Folding(g0)
  BY <1>3, Zenon
<1> HIDE DEF g0
<1>5. Decodes(g0, c)
  BY <1>1, <1>4 DEF Decodes, N
<1> HIDE DEF whole
<1>6. whole = g0[1 .. Len(c)]
  BY <1>1, <1>2 DEF N
<1> QED BY <1>5, <1>6, Zenon DEF whole

\* The number that coded bytes stand for.
LEMMA DecodedValue ==
  ASSUME NEW c, Coded(c), NEW g, Decodes(g, c)
  PROVE  /\ Len(c) = 1 => g[1 .. Len(c)] = c[1] % 128
         /\ Len(c) = 2 => g[1 .. Len(c)] = 128 * (c[2] % 128) + (c[1] % 128)
         /\ Len(c) = 3 => g[1 .. Len(c)] = 128 * (128 * (c[3] % 128) + (c[2] % 128)) + (c[1] % 128)
         /\ Len(c) = 4 => g[1 .. Len(c)] = 128 * (128 * (128 * (c[4] % 128) + (c[3] % 128))
                                                  + (c[2] % 128)) + (c[1] % 128)
<1> DEFINE n == Len(c)
           m(k) == c[k] % 128
<1>1. n \in Nat /\ n >= 1 /\ \A k \in 1 .. n : m(k) \in Nat
  <2>0. n \in 1 .. 4
    BY Zenon DEF Coded
  <2>1. n \in Nat /\ n >= 1
    BY <2>0
  <2>2. \A k \in 1 .. n : c[k] \in Nat
    BY CodedBytes
  <2> QED BY <2>1, <2>2
<1>2. ASSUME NEW k \in 1 .. n PROVE g[k .. n] = 128 * g[k + 1 .. n] + m(k)
  <2>1. k .. n \in SUBSET (1 .. n)
    BY <1>1
  <2>2. Min(k .. n) = k /\ (k .. n) \ {k} = k + 1 .. n /\ (k .. n) # {}
    BY <1>1, MinIs
  <2> HIDE DEF n
  <2> QED BY <2>1, <2>2, ZenonT(60) DEF Decodes, n
<1>3. g[n + 1 .. n] = 0
  <2>1. n + 1 .. n = {} /\ {} \in SUBSET (1 .. n)
    BY <1>1
  <2> QED BY <2>1 DEF Decodes
<1>4. g[n .. n] = m(n) /\ m(n) \in Nat
  <2>0. n \in 1 .. n
    BY <1>1
  <2>1. g[n .. n] = 128 * g[n + 1 .. n] + m(n) /\ m(n) \in Nat
    BY <1>1, <1>2, <2>0, Zenon
  <2> QED BY <1>3, <2>1
<1> HIDE DEF m
<1>5. CASE n = 1
  BY <1>4, <1>5 DEF m
<1>6. CASE n = 2
  <2>1. g[1 .. n] = 128 * g[2 .. n] + m(1) /\ g[2 .. n] = m(2)
    BY <1>2, <1>4, <1>6
  <2> QED BY <1>6, <2>1 DEF m
<1>7. CASE n = 3
  <2>1. g[1 .. n] = 128 * g[2 .. n] + m(1) /\ g[2 .. n] = 128 * g[3 .. n] + m(2) /\ g[3 .. n] = m(3)
    BY <1>2, <1>4, <1>7
  <2> QED BY <1>7, <2>1 DEF m
<1>8. CASE n = 4
  <2>1. /\ g[1 .. n] = 128 * g[2 .. n] + m(1) /\ g[2 .. n] = 128 * g[3 .. n] + m(2)
        /\ g[3 .. n] = 128 * g[4 .. n] + m(3) /\ g[4 .. n] = m(4)
    BY <1>2, <1>4, <1>8
  <2> QED BY <1>8, <2>1 DEF m
<1> QED BY <1>5, <1>6, <1>7, <1>8

\* What a remaining length can be.
IsLength(v) == v \in Int /\ 0 <= v /\ v < 268435456

\* A length and its bytes, seven bits in each.
InSevens(v, c, x, y, z, u) ==
  /\ x < 128 /\ y < 128 /\ z < 128 /\ u < 128
  /\ \/ c = <<x>> /\ v = x /\ varint_size(v) = 1
     \/ c = <<x + 128, y>> /\ v = x + 128 * y /\ varint_size(v) = 2
     \/ c = <<x + 128, y + 128, z>> /\ v = x + 128 * y + 16384 * z /\ varint_size(v) = 3
     \/ /\ c = <<x + 128, y + 128, z + 128, u>>
        /\ v = x + 128 * y + 16384 * z + 2097152 * u /\ varint_size(v) = 4

\* The groups that a length is coded in.
LEMMA LengthGroups ==
  ASSUME NEW v, IsLength(v), NEW c, Spelled(v, c)
  PROVE  \E x, y, z, u \in Nat : InSevens(v, c, x, y, z, u)
<1>1. v \in Int /\ 0 <= v /\ v < 268435456
  BY SMT DEF IsLength
<1>2. PICK x, y, z, u \in Nat : Grouped(v, x, y, z, u)
  BY <1>1, Groups, SMT
<1>3. ASSUME v < 128
      PROVE  InSevens(v, c, x, y, z, u)
  <2>1. c = <<x>> /\ v = x /\ varint_size(v) = 1
    BY <1>1, <1>2, <1>3, SMT DEF Spelled, Grouped, varint_size
  <2> QED BY <1>2, <2>1, SMT DEF Grouped, InSevens
<1>4. ASSUME v >= 128 /\ v < 16384
      PROVE  InSevens(v, c, x, y, z, u)
  <2>1. c = <<x + 128, y>> /\ v = x + 128 * y /\ varint_size(v) = 2
    BY <1>1, <1>2, <1>4, SMT DEF Spelled, Grouped, varint_size
  <2> QED BY <1>2, <2>1, SMT DEF Grouped, InSevens
<1>5. ASSUME v >= 16384 /\ v < 2097152
      PROVE  InSevens(v, c, x, y, z, u)
  <2>1. /\ c = <<x + 128, y + 128, z>> /\ v = x + 128 * y + 16384 * z /\ varint_size(v) = 3
    BY <1>1, <1>2, <1>5, SMT DEF Spelled, Grouped, varint_size
  <2> QED BY <1>2, <2>1, SMT DEF Grouped, InSevens
<1>6. ASSUME v >= 2097152
      PROVE  InSevens(v, c, x, y, z, u)
  <2>1. /\ c = <<x + 128, y + 128, z + 128, u>>
        /\ v = x + 128 * y + 16384 * z + 2097152 * u /\ varint_size(v) = 4
    BY <1>1, <1>2, <1>6, SMT DEF Spelled, Grouped, varint_size
  <2> QED BY <1>2, <2>1, SMT DEF Grouped, InSevens
<1>7. v < 128 \/ (v >= 128 /\ v < 16384) \/ (v >= 16384 /\ v < 2097152) \/ v >= 2097152
  BY <1>1, SMT
<1>8. InSevens(v, c, x, y, z, u)
  BY <1>3, <1>4, <1>5, <1>6, <1>7, SMT
<1> QED BY <1>8, Zenon

\* The number that bytes decode to.
Base128(c) == FoldRight(LAMBDA b, n : 128 * n + (b % 128), c, 0)

\* The value of a coded length by the number of its groups.
LEMMA CodedIsValue ==
  ASSUME NEW c, Coded(c)
  PROVE  /\ Len(c) = 1 => Base128(c) = c[1] % 128
         /\ Len(c) = 2 => Base128(c) = 128 * (c[2] % 128) + (c[1] % 128)
         /\ Len(c) = 3 => Base128(c) = 128 * (128 * (c[3] % 128) + (c[2] % 128)) + (c[1] % 128)
         /\ Len(c) = 4 => Base128(c) = 128 * (128 * (128 * (c[4] % 128) + (c[3] % 128))
                                              + (c[2] % 128)) + (c[1] % 128)
<1>1. PICK g : Decodes(g, c) /\ g[1 .. Len(c)] = Base128(c)
  BY DecodedIs, Zenon DEF Base128
<1> QED BY <1>1, DecodedValue, SMT

\* The bytes of a length: how many they are, and that they decode to it.
LEMMA LengthSpelled ==
  ASSUME NEW v, IsLength(v), NEW c, Spelled(v, c)
  PROVE  Coded(c) /\ Len(c) = varint_size(v) /\ Base128(c) = v
<1>1. PICK x, y, z, u \in Nat : InSevens(v, c, x, y, z, u)
  BY LengthGroups, Zenon
<1> USE DEF InSevens
<1>2. ASSUME NEW a \in Nat, a < 128
      PROVE a % 128 = a /\ (a + 128) % 128 = a /\ a \in uint8_t /\ a + 128 \in uint8_t /\ a + 128 >= 128
  BY <1>2, SMT DEF uint8_t
<1>3. ASSUME NEW a \in {x, y, z, u}
      PROVE a \in Nat /\ a < 128 /\ a % 128 = a /\ (a + 128) % 128 = a /\ a \in uint8_t
            /\ a + 128 \in uint8_t /\ a + 128 >= 128
  BY <1>1, <1>2, SMT
<1>5. CASE c = <<x>> /\ v = x /\ varint_size(v) = 1
  <2>1. Len(c) = 1 /\ c[1] = x
    BY <1>5, SMT
  <2>2. Coded(c)
    BY <1>3, <1>5, <2>1, SMT DEF Coded
  <2> QED BY <1>3, <1>5, <2>1, <2>2, CodedIsValue, SMT
<1>6. CASE c = <<x + 128, y>> /\ v = x + 128 * y /\ varint_size(v) = 2
  <2>1. Len(c) = 2 /\ c[1] = x + 128 /\ c[2] = y
    BY <1>6, SMT
  <2>2. Coded(c)
    BY <1>3, <1>6, <2>1, SMT DEF Coded
  <2>3. Base128(c) = 128 * (c[2] % 128) + (c[1] % 128)
    BY <2>1, <2>2, CodedIsValue, Zenon
  <2> QED BY <1>3, <1>6, <2>1, <2>2, <2>3, SMT
<1>7. CASE c = <<x + 128, y + 128, z>> /\ v = x + 128 * y + 16384 * z /\ varint_size(v) = 3
  <2>1. Len(c) = 3 /\ c[1] = x + 128 /\ c[2] = y + 128 /\ c[3] = z
    BY <1>7, SMT
  <2>2. Coded(c)
    BY <1>3, <1>7, <2>1, SMT DEF Coded
  <2>3. Base128(c) = 128 * (128 * (c[3] % 128) + (c[2] % 128)) + (c[1] % 128)
    BY <2>1, <2>2, CodedIsValue, Zenon
  <2> QED BY <1>3, <1>7, <2>1, <2>2, <2>3, SMT
<1>8. CASE /\ c = <<x + 128, y + 128, z + 128, u>>
           /\ v = x + 128 * y + 16384 * z + 2097152 * u /\ varint_size(v) = 4
  <2>1. Len(c) = 4 /\ c[1] = x + 128 /\ c[2] = y + 128 /\ c[3] = z + 128 /\ c[4] = u
    BY <1>8, SMT
  <2>2. Coded(c)
    BY <1>3, <1>8, <2>1, SMT DEF Coded
  <2>3. Base128(c) = 128 * (128 * (128 * (c[4] % 128) + (c[3] % 128)) + (c[2] % 128)) + (c[1] % 128)
    BY <2>1, <2>2, CodedIsValue, Zenon
  <2> QED BY <1>3, <1>8, <2>1, <2>2, <2>3, SMT
<1> QED BY <1>1, <1>5, <1>6, <1>7, <1>8, SMT

\* What is written of a length before the rest is what the broker reads of it.
LEMMA LengthRead ==
  ASSUME NEW v, IsLength(v), NEW r \in Seq(Element)
  PROVE  LET c == put_varint(Fresh, v).bytes
             s == c \o r
         IN  /\ Decoded(s) = v /\ SubSeq(s, LastGroup(s) + 1, Len(s)) = r
             /\ Coded(c) /\ Len(c) = varint_size(v)
<1> DEFINE c == put_varint(Fresh, v).bytes
           s == c \o r
<1>1. Spelled(v, c)
  BY VarintBytes, SMT DEF IsLength
<1>2. Coded(c) /\ Len(c) = varint_size(v) /\ Base128(c) = v
  BY <1>1, LengthSpelled, Zenon
<1> HIDE DEF c
<1>3. SubSeq(s, 1, LastGroup(s)) = c /\ SubSeq(s, LastGroup(s) + 1, Len(s)) = r
  BY <1>2, GroupsEnd, Zenon
<1>4. Decoded(s) = v
  BY <1>2, <1>3, Zenon DEF Decoded, Base128
<1> QED BY <1>2, <1>3, <1>4, Zenon DEF c
-----------------------------------------------------------------------------
(* The bytes of a packet, and what the broker hears when it reads them.    *)

\* What a packet is on the connection: its type, its length, its body.
PacketBytes(m) == <<m.type>> \o (put_varint(Fresh, BodySize(m)).bytes \o Body(m))

\* The body of what can be said is short enough, and its type is a byte.
LEMMA SizeOfSayable ==
  ASSUME NEW m, Sayable(m)
  PROVE  BodySize(m) \in Nat /\ IsLength(BodySize(m)) /\ m.type \in uint8_t
<1>1. Body(m) \in Seq(Element) /\ Width(Body(m)) = BodySize(m)
  BY Said, Zenon
<1>2. BodySize(m) \in Nat
  BY <1>1, WidthMore, Zenon
<1>3. BodySize(m) < 268435456
  BY SMT DEF Sayable, Encodable, Power128
<1>4. m.type \in uint8_t
  <2>1. m.type \in {CONNECT, PUBLISH, SUBSCRIBE, UNSUBSCRIBE, PINGREQ, DISCONNECT}
    BY SMT DEF Sayable, IsMessage, IsConnectMessage, IsPublishMessage, IsRequestMessage, Signal
  <2> QED BY <2>1, SMT DEF CONNECT, PUBLISH, SUBSCRIBE, UNSUBSCRIBE, PINGREQ, DISCONNECT, uint8_t
<1> QED BY <1>2, <1>3, <1>4, SMT DEF IsLength

\* Bytes in sequence count one each.
LEMMA CodedCount ==
  ASSUME NEW c, Coded(c)
  PROVE  c \in Seq(Element) /\ Width(c) = Len(c)
<1>0. c \in Seq(uint8_t) /\ Len(c) \in 1 .. 4 /\ \A k \in 1 .. Len(c) : c[k] \in uint8_t
  BY DEF Coded
<1>1. CASE Len(c) = 1
  <2>1. c = <<c[1]>> /\ c[1] \in uint8_t
    BY <1>0, <1>1
  <2> QED BY <1>1, <2>1, BytesCount, Zenon
<1>2. CASE Len(c) = 2
  <2>1. c = <<c[1], c[2]>> /\ c[1] \in uint8_t /\ c[2] \in uint8_t
    BY <1>0, <1>2
  <2> QED BY <1>2, <2>1, BytesCount, Zenon
<1>3. CASE Len(c) = 3
  <2> DEFINE x == c[1]  y == c[2]  z == c[3]
  <2>1. c = <<x, y, z>> /\ x \in uint8_t /\ y \in uint8_t /\ z \in uint8_t
    BY <1>0, <1>3
  <2> HIDE DEF x, y, z
  <2>2. <<x, y, z>> \in Seq(Element) /\ Width(<<x, y, z>>) = 3
    BY <2>1, BytesCount
  <2> QED BY <1>3, <2>1, <2>2, Zenon
<1>4. CASE Len(c) = 4
  <2> DEFINE x == c[1]  y == c[2]  z == c[3]  u == c[4]
  <2>1. c = <<x, y, z, u>> /\ x \in uint8_t /\ y \in uint8_t /\ z \in uint8_t /\ u \in uint8_t
    BY <1>0, <1>4
  <2> HIDE DEF x, y, z, u
  <2>2. <<x, y, z, u>> \in Seq(Element) /\ Width(<<x, y, z, u>>) = 4
    BY <2>1, BytesCount
  <2> QED BY <1>4, <2>1, <2>2, Zenon
<1> QED BY <1>0, <1>1, <1>2, <1>3, <1>4

\* The packet before whatever follows it, as the broker takes it.
LEMMA PacketHeard ==
  ASSUME NEW m, Sayable(m), NEW r \in Seq(Element)
  PROVE  LET w    == PacketBytes(m) \o r
             s    == Tail(w)
             body == TakeBytes(SubSeq(s, LastGroup(s) + 1, Len(s)), Decoded(s))
         IN  /\ w # <<>> /\ w[1] = m.type
             /\ body.rest = r /\ body.value # NULL /\ body.value.bytes = Body(m)
<1> DEFINE h == <<m.type>>
           c == put_varint(Fresh, BodySize(m)).bytes
           b == Body(m)
           q == b \o r
           t == c \o q
           w == PacketBytes(m) \o r
           s == Tail(w)
<1>1. b \in Seq(Element) /\ Width(b) = BodySize(m) /\ IsLength(BodySize(m)) /\ m.type \in uint8_t
  BY Said, SizeOfSayable, Zenon
<1>2. h \in Seq(Element)
  BY <1>1, BytesCount, Zenon
<1> HIDE DEF b
<1>3. q \in Seq(Element)
  BY <1>1
<1>4. /\ Decoded(t) = BodySize(m) /\ SubSeq(t, LastGroup(t) + 1, Len(t)) = q
      /\ c \in Seq(Element)
  BY <1>1, <1>3, LengthRead, CodedCount, Zenon
<1> HIDE DEF c, q
<1>5. t \in Seq(Element) /\ c \o b \in Seq(Element)
  BY <1>1, <1>3, <1>4
<1>6. w = h \o t
  <2>1. (h \o (c \o b)) \o r = h \o ((c \o b) \o r)
    BY <1>2, <1>5, JoinAssociates
  <2>2. (c \o b) \o r = c \o (b \o r)
    BY <1>1, <1>4, JoinAssociates
  <2> QED BY <2>1, <2>2, Zenon DEF PacketBytes, b, c, q
<1> HIDE DEF t
<1>7. s = t /\ w[1] = m.type /\ w # <<>>
  <2> DEFINE x == <<m.type>> \o t
  <2>1. x[1] = m.type /\ SubSeq(x, 2, Len(x)) = t
    BY <1>5, AfterOne
  <2>2. x \in Seq(Element) /\ x # <<>>
    BY <1>2, <1>5
  <2> HIDE DEF x
  <2>3. Tail(x) = SubSeq(x, 2, Len(x))
    BY <2>2
  <2>4. w = x
    BY <1>6, Zenon DEF x
  <2> HIDE DEF w
  <2> QED BY <2>1, <2>2, <2>3, <2>4, Zenon
<1> HIDE DEF s, w
<1> DEFINE body == TakeBytes(SubSeq(s, LastGroup(s) + 1, Len(s)), Decoded(s))
<1>8. body = [value |-> [bytes |-> b, len |-> Width(b)], rest |-> r]
  <2>1. TakeBytes(b \o r, Width(b)) = [value |-> [bytes |-> b, len |-> Width(b)], rest |-> r]
    BY <1>1, CutHere, Zenon
  <2> QED BY <1>1, <1>4, <1>7, <2>1, Zenon DEF q
<1>9. [bytes |-> b, len |-> Width(b)] # NULL
  <2>1. [bytes |-> b, len |-> Width(b)] \in [bytes : Seq(Element), len : Nat]
    BY <1>1, WidthMore
  <2> QED BY <2>1, TextAssumption, Zenon DEF TextAssumption
<1> HIDE DEF body
<1>10. body.rest = r /\ body.value # NULL /\ body.value.bytes = b
  BY <1>8, <1>9
<1> QED BY <1>7, <1>10, Zenon DEF body, s, w, b

\* A packet counts as many bytes as its size says.
LEMMA PacketCounts ==
  ASSUME NEW m, Sayable(m)
  PROVE  PacketBytes(m) \in Seq(Element) /\ Width(PacketBytes(m)) = PacketSize(m)
<1> DEFINE h == <<m.type>>
           c == put_varint(Fresh, BodySize(m)).bytes
           b == Body(m)
<1>1. /\ b \in Seq(Element) /\ Width(b) = BodySize(m) /\ IsLength(BodySize(m))
      /\ m.type \in uint8_t /\ BodySize(m) \in Nat
  BY Said, SizeOfSayable, Zenon
<1>2. h \in Seq(Element) /\ Width(h) = 1
  BY <1>1, BytesCount, Zenon
<1>3. c \in Seq(Element) /\ Width(c) = varint_size(BodySize(m)) /\ Width(c) \in Nat
  <2>1. <<>> \in Seq(Element)
    OBVIOUS
  <2>2. Coded(c) /\ Len(c) = varint_size(BodySize(m))
    BY <1>1, <2>1, LengthRead, Zenon
  <2> HIDE DEF c
  <2>3. c \in Seq(Element) /\ Width(c) = Len(c)
    BY <2>2, CodedCount, Zenon
  <2> QED BY <2>2, <2>3, WidthMore, Zenon
<1>4. PacketSize(m) = 1 + varint_size(BodySize(m)) + BodySize(m)
  BY <1>1, SizeMeasured, SMT DEF IsLength
<1> HIDE DEF h, c, b
<1>5. c \o b \in Seq(Element) /\ Width(c \o b) = Width(c) + Width(b)
  <2>1. c \o b \in Seq(Element)
    BY <1>1, <1>3
  <2> QED BY <1>1, <1>3, <2>1, WidthJoin, Zenon
<1> DEFINE q == c \o b
<1>6. q \in Seq(Element) /\ Width(q) = Width(c) + Width(b)
  BY <1>5, Zenon
<1> HIDE DEF q
<1>7. h \o q \in Seq(Element) /\ Width(h \o q) = Width(h) + Width(q)
  <2>1. h \o q \in Seq(Element)
    BY <1>2, <1>6
  <2> QED BY <1>2, <1>6, <2>1, WidthJoin, Zenon
<1>8. PacketBytes(m) = h \o q
  BY Zenon DEF PacketBytes, h, q, c, b
<1>9. Width(h \o q) = PacketSize(m)
  BY <1>1, <1>2, <1>3, <1>4, <1>6, <1>7, SMT
<1> QED BY <1>7, <1>8, <1>9, Zenon
-----------------------------------------------------------------------------
(* What the builders write, put by put.                                    *)

\* A writer has written b.
Writes(w, b) == w.bytes = b /\ b \in Seq(Element) /\ w.off \in Nat

\* A fresh writer has written nothing.
LEMMA FreshWrites == Writes(Fresh, <<>>)
  BY DEF Writes, Fresh

\* What one put appends.
LEMMA WritesMore ==
  ASSUME NEW w, NEW b, Writes(w, b), NEW c \in Seq(Element), NEW n \in Nat,
         NEW x, x = [bytes |-> w.bytes \o c, off |-> w.off + n]
  PROVE  Writes(x, b \o c)
  BY DEF Writes

\* A byte.
LEMMA WritesByte ==
  ASSUME NEW w, NEW b, Writes(w, b), NEW v \in uint8_t
  PROVE  Writes(bs_put_u8(w, v), b \o <<v>>)
<1>1. v % 256 = v /\ Len(<<v>>) = 1
  BY DEF uint8_t
<1>2. <<v>> \in Seq(Element)
  BY BytesCount, Zenon
<1>3. bs_put_u8(w, v) = [bytes |-> w.bytes \o <<v>>, off |-> w.off + 1]
  BY <1>1 DEF bs_put_u8, Put
<1> QED BY <1>2, <1>3, WritesMore

\* Two bytes, the upper first.
LEMMA WritesHalf ==
  ASSUME NEW w, NEW b, Writes(w, b), NEW v \in Int
  PROVE  Writes(bs_put_u16_be(w, v), b \o Bytes2(v))
<1>1. Len(Bytes2(v)) = 2
  BY DEF Bytes2
<1>2. Bytes2(v) \in Seq(Element)
  BY HalfWord, Zenon
<1>3. bs_put_u16_be(w, v) = [bytes |-> w.bytes \o Bytes2(v), off |-> w.off + 2]
  BY <1>1, Zenon DEF bs_put_u16_be, Put
<1> QED BY <1>2, <1>3, WritesMore

\* A payload.
LEMMA WritesBytes ==
  ASSUME NEW w, NEW b, Writes(w, b), NEW s, IsText(s)
  PROVE  Writes(bs_put_bytes(w, s), b \o s.bytes)
<1>1. s.bytes \in Seq(Element) /\ s.len \in Nat
  BY TextIs, Zenon
<1>2. bs_put_bytes(w, s) = [bytes |-> w.bytes \o s.bytes, off |-> w.off + s.len]
  BY Zenon DEF bs_put_bytes
<1> QED BY <1>1, <1>2, WritesMore, Zenon

\* A string with its length before it.
LEMMA WritesStr ==
  ASSUME NEW w, NEW b, Writes(w, b), NEW s, IsText(s), s.len \in uint16_t
  PROVE  Writes(bs_put_str_u16_be(w, s), b \o Str(s))
<1>0. s.len % 65536 = s.len
  BY SMT DEF uint16_t
<1>1. s.len \in Int
  BY SMT DEF uint16_t
<1> DEFINE h == Bytes2(s.len)  t == s.bytes
<1>2. Writes(bs_put_u16_be(w, s.len), b \o h)
  BY <1>1, WritesHalf, Zenon
<1>3. Writes(bs_put_bytes(bs_put_u16_be(w, s.len), s), (b \o h) \o t)
  BY <1>2, WritesBytes, Zenon
<1>4. b \in Seq(Element) /\ h \in Seq(Element) /\ t \in Seq(Element)
  BY <1>1, HalfWord, TextIs, Zenon DEF Writes
<1>5. bs_put_str_u16_be(w, s) = bs_put_bytes(bs_put_u16_be(w, s.len), s)
  BY <1>0, SMT DEF bs_put_str_u16_be
<1>6. Str(s) = h \o t
  BY Zenon DEF Str
<1> HIDE DEF h, t
<1>7. (b \o h) \o t = b \o (h \o t)
  BY <1>4, JoinAssociates
<1> QED BY <1>3, <1>5, <1>6, <1>7, Zenon

\* A string that may be missing.
LEMMA WritesIf ==
  ASSUME NEW w, NEW b, Writes(w, b), NEW s, Short(s)
  PROVE  Writes(PutIfGiven(w, s), b \o StrIf(s))
<1>1. CASE s = NULL
  <2>1. PutIfGiven(w, s) = w /\ StrIf(s) = <<>>
    BY <1>1, Zenon DEF PutIfGiven, StrIf
  <2>2. b \o <<>> = b
    BY DEF Writes
  <2> QED BY <2>1, <2>2, Zenon
<1>2. CASE s # NULL
  <2>1. IsText(s) /\ s.len \in uint16_t
    BY <1>2, Zenon DEF Short, TextOrNull
  <2>2. PutIfGiven(w, s) = bs_put_str_u16_be(w, s) /\ StrIf(s) = Str(s)
    BY <1>2, Zenon DEF PutIfGiven, StrIf
  <2> QED BY <2>1, <2>2, WritesStr, Zenon
<1> QED BY <1>1, <1>2, Zenon

\* What Packet returns beside a number: nothing, or the packet.
LEMMA PacketWrites ==
  ASSUME NEW buf \in Nat, NEW m, m.type \in uint8_t,
         BodySize(m) \in Nat, BodySize(m) < UInt32, NEW body, Writes(body, Body(m))
  PROVE  LET r == Packet(buf, m.type, BodySize(m), body)
         IN  r = Refused \/ (r.packet = PacketBytes(m) /\ r.ret # 0)
<1> DEFINE n == BodySize(m)
           h == <<m.type>>
           g == [k \in 1 .. Turns(n) |-> Group(n, k)]
           header == put_varint(bs_put_u8(Fresh, m.type), n)
           r == Packet(buf, m.type, n, body)
<1>1. n % SizeT = n /\ n % UInt32 = n
  BY MqttAssumption, SMT DEF MqttAssumption
<1> SUFFICES ASSUME r # Refused PROVE r.packet = PacketBytes(m) /\ r.ret # 0
  BY Zenon
<1>2. varint_size(n) # 0 /\ r = [ret |-> header.off + body.off, packet |-> header.bytes \o body.bytes]
  <2>1. ~ (\/ varint_size(n) = 0 \/ (1 + varint_size(n) + n) % SizeT > buf)
    BY <1>1, Zenon DEF Packet
  <2> QED BY <1>1, <2>1, Zenon DEF Packet
<1>3. IsLength(n)
  BY <1>2, SMT DEF varint_size, IsLength
<1>4. ~ (Shifted(n, 4) > 0) /\ Turns(n) \in Nat
  BY <1>3, Shifts, SMT DEF IsLength, Turns
<1>5. h \in Seq(Element) /\ Len(h) = 1 /\ m.type % 256 = m.type /\ <<>> \o h = h
  <2>1. h \in Seq(Element)
    BY BytesCount, Zenon
  <2>2. m.type % 256 = m.type
    BY DEF uint8_t
  <2> QED BY <2>1, <2>2
<1>6. bs_put_u8(Fresh, m.type) = [bytes |-> h, off |-> 1]
  <2>1. 0 + 1 = 1
    OBVIOUS
  <2> QED BY <1>5, <2>1, Zenon DEF bs_put_u8, Put, Fresh
<1>7. Len(g) \in Nat /\ <<>> \o g = g
  BY <1>4
<1>8. header = [bytes |-> h \o g, off |-> 1 + Len(g)] /\ put_varint(Fresh, n).bytes = g
  <2> DEFINE x == bs_put_u8(Fresh, m.type)
  <2>1. header = Put(x, g) /\ put_varint(Fresh, n) = Put(Fresh, g)
    BY <1>4, Zenon DEF put_varint
  <2>2. x.bytes = h /\ x.off = 1
    <3> HIDE DEF h
    <3> QED BY <1>6
  <2>3. Put(Fresh, g).bytes = g
    BY <1>7, Zenon DEF Put, Fresh
  <2> HIDE DEF header, g, h, x
  <2>4. header = [bytes |-> h \o g, off |-> 1 + Len(g)]
    BY <2>1, <2>2, Zenon DEF Put
  <2> QED BY <2>1, <2>3, <2>4, Zenon
<1>9. g \in Seq(Element)
  <2>1. <<>> \in Seq(Element)
    OBVIOUS
  <2> HIDE DEF g
  <2> QED BY <1>3, <1>8, <2>1, LengthRead, CodedCount, Zenon
<1>10. Body(m) \in Seq(Element) /\ body.bytes = Body(m) /\ body.off \in Nat
  BY Zenon DEF Writes
<1> DEFINE b == Body(m)
<1> HIDE DEF g, h, b, header
<1>11. header.off + body.off # 0
  BY <1>7, <1>8, <1>10
<1>12. (h \o g) \o b = h \o (g \o b)
  <2>1. b \in Seq(Element)
    BY <1>10, Zenon DEF b
  <2>2. h \in Seq(Element)
    BY <1>5, Zenon
  <2> QED BY <1>9, <2>1, <2>2, MemoryJoins, Zenon
<1>13. header.bytes \o body.bytes = PacketBytes(m)
  <2>1. header.bytes = h \o g
    BY <1>8, Zenon
  <2> QED BY <1>8, <1>10, <1>12, <2>1, Zenon DEF PacketBytes, h, b
<1> HIDE DEF n, r
<1>14. r.packet = header.bytes \o body.bytes /\ r.ret = header.off + body.off
  BY <1>2
<1> QED BY <1>11, <1>13, <1>14, Zenon

\* What a call of a builder may come to: nothing is written, or the packet.
Understood(m, r) == r = Refused \/ (Sayable(m) /\ r.packet = PacketBytes(m)
                                    /\ r.ret = PacketSize(m) /\ r.ret # 0)

\* What is written, and the answer: together they make the packet.
LEMMA AnsweredIsUnderstood ==
  ASSUME NEW m, IsMessage(m), NEW buf, NEW r, r.ret = Answer(m, buf),
         r = Refused \/ (r.packet = PacketBytes(m) /\ r.ret # 0)
  PROVE  Understood(m, r)
  BY Zenon DEF Answer, Understood, Sayable

\* A string that a builder does not refuse.
LEMMA GivenIsShort ==
  ASSUME NEW s, TextOrNull(s), s # NULL, ~ TooLong(s)
  PROVE  IsText(s) /\ s.len \in uint16_t /\ s.len \in Nat
<1>1. IsText(s) /\ s.len \in Nat
  BY TextIs, Zenon DEF TextOrNull
<1> QED BY <1>1, SMT DEF TooLong, uint16_t

\* mqtt_build_subscribe writes the packet that the message is, or nothing.
LEMMA SubscribeUnderstood ==
  ASSUME NEW s, IsRequest(s), TextOrNull(s.topic), NEW buf, IsBuffer(buf)
  PROVE  Understood(Request(SUBSCRIBE, s), mqtt_build_subscribe(buf, s.id, s.topic))
<1> DEFINE m == Request(SUBSCRIBE, s)
           r == mqtt_build_subscribe(buf, s.id, s.topic)
           body == bs_put_u8(bs_put_str_u16_be(bs_put_u16_be(Fresh, s.id), s.topic), 0)
<1>1. m.type = SUBSCRIBE /\ m.topic = s.topic /\ m.id = s.id
      /\ m = [type |-> SUBSCRIBE, id |-> s.id, topic |-> s.topic]
  BY DEF Request
<1>2. r.ret = Answer(m, buf)
  BY SubscribeAnswers, MqttAssumption
<1> SUFFICES ASSUME r # Refused PROVE Understood(m, r)
  BY Zenon DEF Understood
<1>3. ~ (buf = NULL \/ Missing(s.topic) \/ s.id = 0 \/ TooLong(s.topic))
  BY Zenon DEF mqtt_build_subscribe
<1>4. buf \in Nat /\ s.topic # NULL /\ s.id \in uint16_t
  BY <1>3, Zenon DEF IsBuffer, Missing, IsRequest
<1>5. IsText(s.topic) /\ s.topic.len \in uint16_t /\ s.topic.len \in Nat
  BY <1>3, <1>4, GivenIsShort, Zenon
<1>6. r = Packet(buf, SUBSCRIBE, 2 + 2 + s.topic.len + 1, body)
  BY <1>3, Zenon DEF mqtt_build_subscribe
<1> HIDE DEF m, r, body
<1>7. /\ BodySize(m) = 5 + s.topic.len /\ 2 + 2 + s.topic.len + 1 = 5 + s.topic.len
      /\ BodySize(m) \in Nat /\ BodySize(m) < UInt32
  <2>1. BodySize(m) = 5 + s.topic.len
    BY <1>1, BodySizeOf
  <2>2. s.topic.len <= 65535
    BY <1>5, SMT DEF uint16_t
  <2> QED BY <1>5, <2>1, <2>2, MqttAssumption, SMT DEF MqttAssumption
<1>8. Writes(body, Body(m))
  <2> DEFINE i == Bytes2(s.id)  t == Str(s.topic)
  <2>1. s.id \in Int /\ 0 \in uint8_t
    BY <1>4 DEF uint16_t, uint8_t
  <2>2. Writes(body, ((<<>> \o i) \o t) \o <<0>>)
    BY <1>5, <2>1, FreshWrites, WritesHalf, WritesStr, WritesByte, Zenon DEF body
  <2>3. i \in Seq(Element) /\ t \in Seq(Element) /\ <<0>> \in Seq(Element)
    BY <1>5, <2>1, HalfWord, StrIs, BytesCount, Zenon
  <2>4. Body(m) = i \o (t \o <<0>>)
    BY <1>1, BodyIs, Zenon
  <2> HIDE DEF i, t
  <2>5. <<>> \o i = i
    BY <2>3
  <2>6. (i \o t) \o <<0>> = i \o (t \o <<0>>)
    BY <2>3, JoinAssociates
  <2> QED BY <2>2, <2>4, <2>5, <2>6, Zenon
<1>9. SUBSCRIBE \in uint8_t
  BY DEF SUBSCRIBE, uint8_t
<1>10. r = Refused \/ (r.packet = PacketBytes(m) /\ r.ret # 0)
  <2>1. r = Packet(buf, m.type, BodySize(m), body)
    BY <1>1, <1>6, <1>7, Zenon
  <2> QED BY <1>1, <1>4, <1>7, <1>8, <1>9, <2>1, PacketWrites, Zenon
<1>11. IsMessage(m)
  BY <1>1, <1>4, <1>5, Zenon DEF IsMessage, IsRequestMessage
<1> QED BY <1>2, <1>10, <1>11, AnsweredIsUnderstood, Zenon

\* mqtt_build_unsubscribe writes the packet that the message is, or nothing.
LEMMA UnsubscribeUnderstood ==
  ASSUME NEW s, IsRequest(s), TextOrNull(s.topic), NEW buf, IsBuffer(buf)
  PROVE  Understood(Request(UNSUBSCRIBE, s), mqtt_build_unsubscribe(buf, s.id, s.topic))
<1> DEFINE m == Request(UNSUBSCRIBE, s)
           r == mqtt_build_unsubscribe(buf, s.id, s.topic)
           body == bs_put_str_u16_be(bs_put_u16_be(Fresh, s.id), s.topic)
<1>1. m.type = UNSUBSCRIBE /\ m.topic = s.topic /\ m.id = s.id
      /\ m = [type |-> UNSUBSCRIBE, id |-> s.id, topic |-> s.topic]
  BY DEF Request
<1>2. r.ret = Answer(m, buf)
  BY UnsubscribeAnswers, MqttAssumption
<1> SUFFICES ASSUME r # Refused PROVE Understood(m, r)
  BY Zenon DEF Understood
<1>3. ~ (buf = NULL \/ Missing(s.topic) \/ s.id = 0 \/ TooLong(s.topic))
  BY Zenon DEF mqtt_build_unsubscribe
<1>4. buf \in Nat /\ s.topic # NULL /\ s.id \in uint16_t
  BY <1>3, Zenon DEF IsBuffer, Missing, IsRequest
<1>5. IsText(s.topic) /\ s.topic.len \in uint16_t /\ s.topic.len \in Nat
  BY <1>3, <1>4, GivenIsShort, Zenon
<1>6. r = Packet(buf, UNSUBSCRIBE, 2 + 2 + s.topic.len, body)
  BY <1>3, Zenon DEF mqtt_build_unsubscribe
<1> HIDE DEF m, r, body
<1>7. /\ BodySize(m) = 4 + s.topic.len /\ 2 + 2 + s.topic.len = 4 + s.topic.len
      /\ BodySize(m) \in Nat /\ BodySize(m) < UInt32
  <2>1. BodySize(m) = 4 + s.topic.len
    BY <1>1, BodySizeOf
  <2>2. s.topic.len <= 65535
    BY <1>5, SMT DEF uint16_t
  <2> QED BY <1>5, <2>1, <2>2, MqttAssumption, SMT DEF MqttAssumption
<1>8. Writes(body, Body(m))
  <2> DEFINE i == Bytes2(s.id)  t == Str(s.topic)
  <2>1. s.id \in Int
    BY <1>4 DEF uint16_t
  <2>2. Writes(body, (<<>> \o i) \o t)
    BY <1>5, <2>1, FreshWrites, WritesHalf, WritesStr, Zenon DEF body
  <2>3. i \in Seq(Element) /\ t \in Seq(Element)
    BY <1>5, <2>1, HalfWord, StrIs, Zenon
  <2>4. Body(m) = i \o (t \o <<>>)
    BY <1>1, BodyIs, Zenon
  <2> HIDE DEF i, t
  <2>5. <<>> \o i = i
    BY <2>3
  <2>6. t \o <<>> = t
    BY <2>3
  <2> QED BY <2>2, <2>4, <2>5, <2>6, Zenon
<1>9. UNSUBSCRIBE \in uint8_t
  BY DEF UNSUBSCRIBE, uint8_t
<1>10. r = Refused \/ (r.packet = PacketBytes(m) /\ r.ret # 0)
  <2>1. r = Packet(buf, m.type, BodySize(m), body)
    BY <1>1, <1>6, <1>7, Zenon
  <2> QED BY <1>1, <1>4, <1>7, <1>8, <1>9, <2>1, PacketWrites, Zenon
<1>11. IsMessage(m)
  BY <1>1, <1>4, <1>5, Zenon DEF IsMessage, IsRequestMessage
<1> QED BY <1>2, <1>10, <1>11, AnsweredIsUnderstood, Zenon

\* mqtt_build_publish writes the packet that the message is, or nothing.
LEMMA PublishUnderstood ==
  ASSUME NEW p, IsPublish(p), TextOrNull(p.topic), TextOrNull(p.payload), NEW buf, IsBuffer(buf)
  PROVE  Understood(Publish(p), mqtt_build_publish(buf, p.topic, p.payload, p.len))
<1> DEFINE m == Publish(p)
           r == mqtt_build_publish(buf, p.topic, p.payload, p.len)
           text == bs_put_str_u16_be(Fresh, p.topic)
           body == IF p.len = 0 THEN text ELSE bs_put_bytes(text, p.payload)
<1>1. /\ m = [type |-> PUBLISH, topic |-> p.topic, payload |-> m.payload]
      /\ m.type = PUBLISH /\ m.topic = p.topic
      /\ m.payload = IF p.len = 0 THEN Memory(<<>>) ELSE p.payload
  BY DEF Publish
<1>2. r.ret = Answer(m, buf)
  BY PublishAnswers, MqttAssumption, Arguments
<1> SUFFICES ASSUME r # Refused PROVE Understood(m, r)
  BY Zenon DEF Understood
<1>3. ~ (buf = NULL \/ Missing(p.topic) \/ (p.payload = NULL /\ p.len > 0)) /\ ~ TooLong(p.topic)
  BY Zenon DEF mqtt_build_publish
<1>4. buf \in Nat /\ p.topic # NULL /\ p.len \in Nat
  BY <1>3, SMT DEF IsBuffer, Missing, IsPublish
<1>5. IsText(p.topic) /\ p.topic.len \in uint16_t /\ p.topic.len \in Nat
  BY <1>3, <1>4, GivenIsShort, Zenon
<1>6. r = Packet(buf, PUBLISH, 2 + p.topic.len + p.len, body)
  BY <1>3, Zenon DEF mqtt_build_publish
<1>7. IsText(m.payload) /\ m.payload.len = p.len
  <2>1. CASE p.len = 0
    <3>1. m.payload = [bytes |-> <<>>, len |-> 0]
      BY <1>1, <2>1 DEF Memory
    <3>2. <<>> \in Seq(Element)
      OBVIOUS
    <3> HIDE DEF m
    <3>3. m.payload \in [bytes : Seq(Element), len : Nat] /\ m.payload.len = 0 /\ m.payload.bytes = <<>>
      BY <3>1, <3>2
    <3> QED BY <2>1, <3>3, WidthNone, Zenon DEF IsText
  <2>2. CASE p.len # 0
    <3>1. p.len > 0
      BY <1>4, <2>2
    <3>2. p.payload # NULL /\ p.len = p.payload.len
      BY <1>3, <3>1, SMT DEF IsPublish
    <3> QED BY <1>1, <2>2, <3>2, Zenon DEF TextOrNull
  <2> QED BY <2>1, <2>2
<1>8. Writes(body, Body(m))
  <2> DEFINE t == Str(p.topic)
  <2>1. Writes(text, <<>> \o t) /\ t \in Seq(Element)
    BY <1>5, FreshWrites, WritesStr, StrIs, Zenon
  <2>2. Body(m) = t \o m.payload.bytes
    BY <1>1, BodyIs, Zenon
  <2>3. <<>> \o t = t /\ t \o <<>> = t
    <3> HIDE DEF t
    <3> QED BY <2>1
  <2>4. Writes(text, t)
    BY <2>1, <2>3, Zenon
  <2>5. CASE p.len = 0
    <3>1. m.payload.bytes = <<>>
      BY <1>1, <2>5 DEF Memory
    <3> QED BY <2>2, <2>3, <2>4, <2>5, <3>1, Zenon
  <2>6. CASE p.len # 0
    <3>1. m.payload = p.payload
      BY <1>1, <2>6, Zenon
    <3>2. Writes(bs_put_bytes(text, p.payload), t \o p.payload.bytes)
      BY <1>7, <2>4, <3>1, WritesBytes, Zenon
    <3> QED BY <2>2, <2>6, <3>1, <3>2, Zenon
  <2> QED BY <2>5, <2>6, Zenon
<1> HIDE DEF m, r, body
<1>9. /\ BodySize(m) = 2 + p.topic.len + p.len
      /\ BodySize(m) \in Nat /\ BodySize(m) < UInt32
  <2>1. BodySize(m) = 2 + p.topic.len + p.len
    BY <1>1, <1>7, BodySizeOf
  <2>2. p.topic.len <= 65535
    BY <1>5, SMT DEF uint16_t
  <2>3. 65537 + p.len < UInt32
    BY DEF IsPublish
  <2> QED BY <1>4, <1>5, <2>1, <2>2, <2>3, MqttAssumption, SMT DEF MqttAssumption
<1>10. PUBLISH \in uint8_t
  BY DEF PUBLISH, uint8_t
<1>11. r = Refused \/ (r.packet = PacketBytes(m) /\ r.ret # 0)
  <2>1. r = Packet(buf, m.type, BodySize(m), body)
    BY <1>1, <1>6, <1>9, Zenon
  <2> QED BY <1>1, <1>4, <1>8, <1>9, <1>10, <2>1, PacketWrites, Zenon
<1>12. IsMessage(m)
  BY <1>1, <1>5, <1>7, Zenon DEF IsMessage, IsPublishMessage
<1> QED BY <1>2, <1>11, <1>12, AnsweredIsUnderstood, Zenon

\* The four bytes after the name of the protocol, as they are put.
LEMMA WritesHead ==
  ASSUME NEW w, NEW b, Writes(w, b), NEW f \in uint8_t
  PROVE  Writes(bs_put_u16_be(bs_put_u8(bs_put_u8(w, 4), f), KEEPALIVE_S),
                b \o <<4, f, 0, KEEPALIVE_S>>)
<1>1. 4 \in uint8_t /\ KEEPALIVE_S \in Int
  BY DEF uint8_t, KEEPALIVE_S
<1>2. Writes(bs_put_u16_be(bs_put_u8(bs_put_u8(w, 4), f), KEEPALIVE_S),
             ((b \o <<4>>) \o <<f>>) \o Bytes2(KEEPALIVE_S))
  BY <1>1, WritesByte, WritesHalf, Zenon
<1>3. ((b \o <<4>>) \o <<f>>) \o <<0, KEEPALIVE_S>> = b \o <<4, f, 0, KEEPALIVE_S>>
  <2> DEFINE k == KEEPALIVE_S
  <2> HIDE DEF k
  <2>1. b \in Seq(Element)
    BY DEF Writes
  <2> DEFINE x == ((b \o <<4>>) \o <<f>>) \o <<0, k>>
             y == b \o <<4, f, 0, k>>
  <2>2. b \o <<4>> = Append(b, 4)
    BY <2>1
  <2>3. (b \o <<4>>) \o <<f>> = b \o <<4, f>>
    BY <2>1
  <2>4. (b \o <<4, f>>) \o <<0, k>> = b \o <<4, f, 0, k>>
    BY <2>1
  <2> QED BY <2>3, <2>4, Zenon DEF k
<1>4. Bytes2(KEEPALIVE_S) = <<0, KEEPALIVE_S>>
  BY DEF Bytes2, KEEPALIVE_S
<1> QED BY <1>2, <1>3, <1>4, Zenon

\* mqtt_build_connect writes the packet that the message is, or nothing.
LEMMA ConnectUnderstood ==
  ASSUME NEW a, IsConnect(a), TextOrNull(a.client), TextOrNull(a.user), TextOrNull(a.pass),
         NEW buf, IsBuffer(buf)
  PROVE  Understood(Connect(a), mqtt_build_connect(buf, a.client, a.user, a.pass))
<1> DEFINE m == Connect(a)
           r == mqtt_build_connect(buf, a.client, a.user, a.pass)
           user == IF Missing(a.user) THEN NULL ELSE a.user
           pass == IF user = NULL THEN NULL ELSE a.pass
           f == Flags(user, pass)
           head == bs_put_u16_be(
                     bs_put_u8(bs_put_u8(bs_put_str_u16_be(Fresh, Memory(<<77, 81, 84, 84>>)), 4), f),
                     KEEPALIVE_S)
           named == bs_put_str_u16_be(head, a.client)
           body == PutIfGiven(PutIfGiven(named, user), pass)
<1>1. /\ m.type = CONNECT /\ m.client = a.client /\ m.user = user /\ m.pass = pass
      /\ m = [type |-> CONNECT, client |-> m.client, user |-> m.user, pass |-> m.pass]
      /\ user = NULL => pass = NULL
  BY DEF Connect, Missing
<1>2. r.ret = Answer(m, buf)
  BY ConnectAnswers
<1> SUFFICES ASSUME r # Refused PROVE Understood(m, r)
  BY Zenon DEF Understood
<1>3. ~ (\/ buf = NULL \/ Missing(a.client)
         \/ \E s \in {a.client, user, pass} \ {NULL} : TooLong(s))
  BY Zenon DEF mqtt_build_connect
<1>4. buf \in Nat /\ a.client # NULL
  BY <1>3, Zenon DEF IsBuffer, Missing
<1>5. IsText(a.client) /\ a.client.len \in uint16_t /\ a.client.len \in Nat
  BY <1>3, <1>4, GivenIsShort, Zenon
<1>6. TextOrNull(user) /\ TextOrNull(pass)
  BY Zenon DEF TextOrNull
<1>7. ASSUME NEW s, s \in {user, pass}
      PROVE  Short(s)
  <2>1. TextOrNull(s)
    BY <1>6, <1>7, Zenon
  <2>2. s # NULL => ~ TooLong(s)
    <3> HIDE DEF user, pass
    <3> QED BY <1>3, <1>7, Zenon
  <2> QED BY <2>1, <2>2, GivenIsShort, Zenon DEF Short
<1>8. Short(user) /\ Short(pass)
  BY <1>7, Zenon
<1>9. r = Packet(buf, CONNECT, 12 + a.client.len + LengthIfGiven(user) + LengthIfGiven(pass), body)
  BY <1>3, Zenon DEF mqtt_build_connect
<1> HIDE DEF m, r, user, pass
<1>10. f \in uint8_t
  <2>1. user = NULL => pass = NULL
    BY <1>1, Zenon
  <2> QED BY <2>1, FlagsSay
<1>11. ASSUME NEW s, Short(s) PROVE LengthIfGiven(s) \in Nat /\ LengthIfGiven(s) <= 65537
  <2>1. CASE s = NULL
    BY <2>1, SMT DEF LengthIfGiven
  <2>2. CASE s # NULL
    BY <1>11, <2>2, SMT DEF LengthIfGiven, Short, uint16_t
  <2> QED BY <2>1, <2>2
<1>12. /\ BodySize(m) = 12 + a.client.len + LengthIfGiven(user) + LengthIfGiven(pass)
       /\ BodySize(m) \in Nat /\ BodySize(m) < UInt32
  <2> DEFINE x == LengthIfGiven(user)  y == LengthIfGiven(pass)
  <2>1. BodySize(m) = 12 + a.client.len + x + y
    BY <1>1, BodySizeOf, Zenon
  <2>2. a.client.len \in Nat /\ a.client.len <= 65535
    BY <1>5, SMT DEF uint16_t
  <2>3. x \in Nat /\ x <= 65537 /\ y \in Nat /\ y <= 65537
    BY <1>8, <1>11
  <2> HIDE DEF x, y
  <2>4. BodySize(m) \in Nat /\ BodySize(m) < UInt32
    BY <2>1, <2>2, <2>3, MqttAssumption, SMT DEF MqttAssumption
  <2> QED BY <2>1, <2>4, Zenon DEF x, y
<1>13. Writes(body, Body(m))
  <2> DEFINE n == Str(Protocol)
             h == <<4, f, 0, KEEPALIVE_S>>
             c == Str(a.client)
             u == StrIf(user)
             p == StrIf(pass)
  <2>1. Writes(bs_put_str_u16_be(Fresh, Memory(<<77, 81, 84, 84>>)), <<>> \o n) /\ n \in Seq(Element)
    BY FreshWrites, WritesStr, StrIs, ProtocolIs, Zenon DEF Protocol
  <2>2. <<>> \o n = n
    <3> HIDE DEF n
    <3> QED BY <2>1
  <2>3. Writes(head, n \o h)
    BY <1>10, <2>1, <2>2, WritesHead, Zenon
  <2>4. Writes(named, (n \o h) \o c)
    BY <1>5, <2>3, WritesStr, Zenon
  <2>5. Writes(body, (((n \o h) \o c) \o u) \o p)
    BY <1>8, <2>4, WritesIf, Zenon
  <2>6. <<>> \in Seq(Element)
    OBVIOUS
  <2>7. h \in Seq(Element)
    BY <1>10, <2>6, HeadIs, Zenon
  <2>8. c \in Seq(Element) /\ u \in Seq(Element) /\ p \in Seq(Element)
    BY <1>5, <1>8, <2>6, StrIs, IfRead, Zenon
  <2>9. Body(m) = n \o (h \o (c \o (u \o p)))
    BY <1>1, BodyIs, Zenon
  <2> DEFINE nh == n \o h
             nhc == nh \o c
             up == u \o p
             cup == c \o up
  <2> HIDE DEF n, h, c, u, p, body
  <2>10. nh \in Seq(Element) /\ up \in Seq(Element)
    BY <2>1, <2>7, <2>8
  <2> HIDE DEF nh, up
  <2>11. nhc \in Seq(Element) /\ cup \in Seq(Element)
    BY <2>8, <2>10
  <2> HIDE DEF nhc, cup
  <2>12. (nhc \o u) \o p = nhc \o up
    BY <2>8, <2>11, JoinAssociates DEF up
  <2>13. nhc \o up = nh \o cup
    <3>1. (nh \o c) \o up = nh \o (c \o up)
      <4>1. c \in Seq(Element)
        BY <2>8, Zenon
      <4> QED BY <2>10, <4>1, MemoryJoins, Zenon
    <3> QED BY <3>1, Zenon DEF nhc, cup
  <2>14. nh \o cup = n \o (h \o cup)
    <3>1. n \in Seq(Element)
      BY <2>1, Zenon
    <3> QED BY <2>7, <2>11, <3>1, JoinAssociates DEF nh
  <2> QED BY <2>5, <2>9, <2>12, <2>13, <2>14, Zenon DEF nh, nhc, up, cup
<1> HIDE DEF body
<1>14. CONNECT \in uint8_t
  BY DEF CONNECT, uint8_t
<1>15. r = Refused \/ (r.packet = PacketBytes(m) /\ r.ret # 0)
  <2>1. r = Packet(buf, m.type, BodySize(m), body)
    BY <1>1, <1>9, <1>12, Zenon
  <2> QED BY <1>1, <1>4, <1>12, <1>13, <1>14, <2>1, PacketWrites, Zenon
<1>16. IsMessage(m)
  BY <1>1, <1>5, <1>6, Zenon DEF IsMessage, IsConnectMessage
<1> QED BY <1>2, <1>15, <1>16, AnsweredIsUnderstood, Zenon DEF m, r

\* The two packets that are but a type and a length of zero.
LEMMA SignalUnderstood ==
  ASSUME NEW buf, IsBuffer(buf)
  PROVE  /\ Understood(Signal(PINGREQ), mqtt_build_pingreq(buf))
         /\ Understood(Signal(DISCONNECT), mqtt_build_disconnect(buf))
<1>1. ASSUME NEW type \in {PINGREQ, DISCONNECT}, TwoBytes(buf, type).ret = Answer(Signal(type), buf)
      PROVE  Understood(Signal(type), TwoBytes(buf, type))
  <2> DEFINE m == Signal(type)
             r == TwoBytes(buf, type)
  <2>1. m.type = type
    BY DEF Signal
  <2>2. Body(m) = <<>> /\ BodySize(m) = 0
    BY <1>1, <2>1, BodyIs, BodySizeOf, Zenon
  <2>3. put_varint(Fresh, 0).bytes = <<0>>
    <3>1. Shifted(0, 4) = 0 /\ Shifted(0, 1) = 0 /\ Shifted(0, 0) = 0
      BY DEF Shifted
    <3>2. Turns(0) = 1
      BY <3>1, Zenon DEF Turns
    <3>3. Group(0, 1) = 0
      BY <3>1 DEF Group
    <3>4. [k \in 1 .. 1 |-> Group(0, k)] = <<0>>
      BY <3>3
    <3>5. put_varint(Fresh, 0) = Put(Fresh, <<0>>)
      <4>1. ~ (0 > 0)
        OBVIOUS
      <4> QED BY <3>1, <3>2, <3>4, <4>1, Zenon DEF put_varint
    <3>6. <<>> \o <<0>> = <<0>>
      OBVIOUS
    <3> QED BY <3>5, <3>6 DEF Put, Fresh
  <2>4. PacketBytes(m) = <<type, 0>>
    <3>1. <<0>> \o <<>> = <<0>>
      OBVIOUS
    <3>2. <<type>> \o <<0>> = <<type, 0>>
      <4>1. \A s \in Seq(Nat) : s \o <<0>> = Append(s, 0)
        OBVIOUS
      <4>2. <<type>> \in Seq(Nat) /\ type \in Nat /\ 0 \in Nat
        BY <1>1 DEF PINGREQ, DISCONNECT
      <4>3. Append(<<type>>, 0) = <<type, 0>>
        BY <4>2, OneMore, Zenon
      <4> QED BY <4>1, <4>2, <4>3, Zenon
    <3> QED BY <2>1, <2>2, <2>3, <3>1, <3>2, Zenon DEF PacketBytes
  <2>5. r = Refused \/ r = [ret |-> 2, packet |-> <<type, 0>>]
    BY Zenon DEF TwoBytes
  <2>6. r = Refused \/ (r.packet = PacketBytes(m) /\ r.ret # 0)
    <3>1. CASE r = [ret |-> 2, packet |-> <<type, 0>>]
      <4>1. r.packet = <<type, 0>> /\ r.ret = 2 /\ 2 # 0
        BY <3>1
      <4> QED BY <2>4, <4>1, Zenon
    <3> QED BY <2>5, <3>1
  <2>7. IsMessage(m)
    BY <1>1, Zenon DEF IsMessage
  <2> QED BY <1>1, <2>6, <2>7, AnsweredIsUnderstood, Zenon
<1>2. /\ TwoBytes(buf, PINGREQ).ret = Answer(Signal(PINGREQ), buf)
      /\ TwoBytes(buf, DISCONNECT).ret = Answer(Signal(DISCONNECT), buf)
  BY SignalAnswers, Zenon DEF mqtt_build_pingreq, mqtt_build_disconnect
<1> QED BY <1>1, <1>2, Zenon DEF mqtt_build_pingreq, mqtt_build_disconnect
-----------------------------------------------------------------------------
(* The connection: at every moment its bytes are those of the packets that *)
(* the broker has not read, one after the other.                           *)

\* What the client may send.
Packets == UNION {{Connect(a) : a \in Connects}, {Publish(p) : p \in Publications},
                  {Publish(Measured(t, v)) : t \in Topics, v \in Measurements},
                  {Request(type, s) : type \in {SUBSCRIBE, UNSUBSCRIBE}, s \in Subscriptions},
                  {Signal(PINGREQ), Signal(DISCONNECT)}}
Entries == [packet : Packets, measured : Measurements \cup {NULL}]

\* rest[i] is what follows the i-th packet.
Streams(w, s) ==
  \E rest \in [0 .. Len(s) -> Seq(Element)] :
    /\ rest[0] = w /\ rest[Len(s)] = <<>>
    /\ \A i \in 1 .. Len(s) : rest[i - 1] = PacketBytes(s[i].packet) \o rest[i]

\* What was measured is the payload of its packet.
Carries(e) == e.measured # NULL => /\ IsMeasurement(e.measured)
                                   /\ e.packet.payload.bytes = Written(e.measured).bytes

Proper(s) == \A i \in 1 .. Len(s) : Sayable(s[i].packet) /\ Carries(s[i])

\* A packet more, at the end.
LEMMA StreamGrows ==
  ASSUME NEW s \in Seq(Entries), NEW w, Streams(w, s), Proper(s),
         NEW e \in Entries, Sayable(e.packet), Carries(e)
  PROVE  Streams(w \o PacketBytes(e.packet), Append(s, e)) /\ Proper(Append(s, e))
<1> DEFINE n == Len(s)
           p == PacketBytes(e.packet)
           t == Append(s, e)
<1>1. n \in Nat /\ Len(t) = n + 1 /\ t[n + 1] = e /\ \A i \in 1 .. n : t[i] = s[i]
  OBVIOUS
<1>2. p \in Seq(Element)
  BY PacketCounts, Zenon
<1>3. PICK rest \in [0 .. n -> Seq(Element)] :
        /\ rest[0] = w /\ rest[n] = <<>>
        /\ \A i \in 1 .. n : rest[i - 1] = PacketBytes(s[i].packet) \o rest[i]
  BY Zenon DEF Streams
<1>4. \A i \in 1 .. n : PacketBytes(s[i].packet) \in Seq(Element)
  BY PacketCounts, Zenon DEF Proper
<1> HIDE DEF n, p, t
<1> DEFINE more == [i \in 0 .. n + 1 |-> IF i = n + 1 THEN <<>> ELSE rest[i] \o p]
<1>5. \A i \in 0 .. n : rest[i] \in Seq(Element) /\ more[i] = rest[i] \o p
  BY <1>1, <1>3, SMTT(40)
<1>6. more[n + 1] = <<>> /\ <<>> \o p = p /\ p \o <<>> = p
  BY <1>1, <1>2
<1>7. more \in [0 .. n + 1 -> Seq(Element)]
  <2>1. \A i \in 0 .. n : rest[i] \o p \in Seq(Element)
    BY <1>2, <1>5
  <2>2. \A i \in 0 .. n + 1 : i # n + 1 => i \in 0 .. n
    BY <1>1
  <2>3. <<>> \in Seq(Element)
    OBVIOUS
  <2> QED BY <2>1, <2>2, <2>3, Zenon
<1>8. ASSUME NEW i \in 1 .. n + 1
      PROVE  more[i - 1] = PacketBytes(t[i].packet) \o more[i]
  <2>1. CASE i = n + 1
    <3>1. i - 1 = n /\ n \in 0 .. n
      BY <1>1, <2>1
    <3> HIDE DEF more
    <3>2. more[i - 1] = <<>> \o p
      BY <1>3, <1>5, <3>1, Zenon
    <3>3. PacketBytes(t[i].packet) = p
      BY <1>1, <2>1, Zenon DEF p
    <3> QED BY <1>6, <2>1, <3>2, <3>3, Zenon
  <2>2. CASE i # n + 1
    <3>1. i \in 1 .. n /\ i \in 0 .. n /\ i - 1 \in 0 .. n
      BY <1>1, <2>2
    <3> DEFINE x == PacketBytes(s[i].packet)
               y == rest[i]
    <3>2. rest[i - 1] = x \o y /\ x \in Seq(Element) /\ y \in Seq(Element)
      BY <1>3, <1>4, <1>5, <3>1, Zenon
    <3>3. PacketBytes(t[i].packet) = x
      BY <1>1, <3>1, Zenon
    <3>4. more[i - 1] = rest[i - 1] \o p /\ more[i] = y \o p
      BY <1>5, <3>1, Zenon
    <3> HIDE DEF x, y, more
    <3>5. (x \o y) \o p = x \o (y \o p)
      BY <1>2, <3>2, JoinAssociates, SMTT(40)
    <3> QED BY <3>2, <3>3, <3>4, <3>5, Zenon
  <2> QED BY <2>1, <2>2
<1>9. Streams(w \o p, t)
  <2>1. 0 \in 0 .. n
    BY <1>1
  <2>2. more[0] = w \o p
    BY <1>3, <1>5, <2>1, Zenon
  <2> HIDE DEF more
  <2> QED BY <1>1, <1>6, <1>7, <1>8, <2>2, Zenon DEF Streams
<1>10. Proper(t)
  <2> SUFFICES ASSUME NEW i \in 1 .. n + 1 PROVE Sayable(t[i].packet) /\ Carries(t[i])
    BY <1>1, Zenon DEF Proper
  <2>1. i = n + 1 \/ i \in 1 .. n
    BY <1>1
  <2> QED BY <1>1, <2>1, Zenon DEF Proper, n
<1> QED BY <1>9, <1>10, Zenon DEF p, t

\* A packet less, at the front.
LEMMA StreamShrinks ==
  ASSUME NEW s \in Seq(Entries), s # <<>>, NEW w, Streams(w, s), Proper(s)
  PROVE  /\ \E r \in Seq(Element) : w = PacketBytes(s[1].packet) \o r /\ Streams(r, Tail(s))
         /\ Proper(Tail(s)) /\ Head(s) = s[1] /\ Sayable(s[1].packet) /\ Carries(s[1])
<1> DEFINE n == Len(s)
           t == Tail(s)
<1>1. /\ n \in Nat /\ n >= 1 /\ Len(t) = n - 1 /\ Head(s) = s[1]
      /\ \A i \in 1 .. n - 1 : t[i] = s[i + 1]
  OBVIOUS
<1>2. PICK rest \in [0 .. n -> Seq(Element)] :
        /\ rest[0] = w /\ rest[n] = <<>>
        /\ \A i \in 1 .. n : rest[i - 1] = PacketBytes(s[i].packet) \o rest[i]
  BY Zenon DEF Streams
<1> DEFINE less == [i \in 0 .. n - 1 |-> rest[i + 1]]
<1> HIDE DEF n, t
<1>3. less \in [0 .. n - 1 -> Seq(Element)] /\ less[0] = rest[1] /\ less[n - 1] = <<>>
      /\ rest[1] \in Seq(Element)
  BY <1>1, <1>2
<1>4. ASSUME NEW i \in 1 .. n - 1
      PROVE  less[i - 1] = PacketBytes(t[i].packet) \o less[i]
  <2>1. i \in 0 .. n - 1 /\ i - 1 \in 0 .. n - 1 /\ i + 1 \in 1 .. n /\ (i + 1) - 1 = i /\ (i - 1) + 1 = i
    BY <1>1
  <2>2. rest[i] = PacketBytes(s[i + 1].packet) \o rest[i + 1]
    BY <1>2, <2>1, Zenon
  <2>3. less[i - 1] = rest[i] /\ less[i] = rest[i + 1]
    BY <2>1, Zenon
  <2>4. t[i] = s[i + 1]
    BY <1>1
  <2> HIDE DEF less
  <2> QED BY <2>2, <2>3, <2>4, Zenon
<1>5. Streams(rest[1], t)
  <2> HIDE DEF less
  <2> QED BY <1>1, <1>3, <1>4, Zenon DEF Streams
<1>6. w = PacketBytes(s[1].packet) \o rest[1]
  <2>1. 1 \in 1 .. n /\ 1 - 1 = 0
    BY <1>1
  <2> QED BY <1>2, <2>1, Zenon
<1>7. Proper(t)
  <2> SUFFICES ASSUME NEW i \in 1 .. n - 1 PROVE Sayable(t[i].packet) /\ Carries(t[i])
    BY <1>1, Zenon DEF Proper
  <2>1. i + 1 \in 1 .. n /\ t[i] = s[i + 1]
    BY <1>1
  <2> QED BY <2>1, Zenon DEF Proper, n
<1>8. Sayable(s[1].packet) /\ Carries(s[1])
  <2>1. 1 \in 1 .. n
    BY <1>1
  <2> QED BY <2>1, Zenon DEF Proper, n
<1> QED BY <1>1, <1>3, <1>5, <1>6, <1>7, <1>8, Zenon DEF t

\* The inductive invariant.
LinkInv == /\ sent \in Seq(Entries) /\ wire \in Seq(Element)
           /\ Streams(wire, sent) /\ Proper(sent)
           /\ last # NULL => last.wrote = last.ret
           /\ read # NULL => read.heard = read.meant.packet /\ Carries(read.meant)

\* The arguments and the buffer of a call are what the lemmas are about.
LEMMA EveryText ==
  /\ \A c \in Connects : TextOrNull(c.client) /\ TextOrNull(c.user) /\ TextOrNull(c.pass)
  /\ \A p \in Publications : TextOrNull(p.topic) /\ TextOrNull(p.payload)
  /\ \A s \in Subscriptions : TextOrNull(s.topic)
  /\ \A t \in Topics : IsText(t)
  BY TextAssumption, Zenon DEF TextAssumption

\* Nothing is carried where nothing was measured.
LEMMA NothingCarried == \A m : Carries([packet |-> m, measured |-> NULL])
  BY DEF Carries

\* A measurement is published as it was written.
LEMMA MeasuredUnderstood ==
  ASSUME NEW t \in Topics, NEW v \in Measurements, Encodable(Publish(Measured(t, v)))
  PROVE  LET p == Measured(t, v)
             m == Publish(p)
         IN  /\ Understood(m, mqtt_build_publish(PacketSize(m), p.topic, p.payload, p.len))
             /\ Carries([packet |-> m, measured |-> v])
<1> DEFINE p == Measured(t, v)
           m == Publish(p)
           w == Written(v)
<1>1. IsMeasurement(v) /\ Filled(w)
  BY MeasurementAssumption, MeasurementFills, Zenon DEF MeasurementAssumption
<1>2. p.topic = t /\ p.payload = [bytes |-> w.bytes, len |-> w.off] /\ p.len = w.off
  BY DEF Measured
<1>3. IsText(p.payload) /\ p.payload.bytes = w.bytes
  BY <1>1, <1>2 DEF IsText, Filled
<1>4. IsText(p.topic)
  BY <1>2, EveryText, Zenon
<1>5. IsPublish(p) /\ IsBuffer(PacketSize(m))
  BY MeasuredIsPublish DEF IsBuffer
<1>6. Understood(m, mqtt_build_publish(PacketSize(m), p.topic, p.payload, p.len))
  BY <1>3, <1>4, <1>5, PublishUnderstood, Zenon DEF TextOrNull
<1>7. m.payload.bytes = w.bytes
  <2>1. m.payload = IF p.len = 0 THEN Memory(<<>>) ELSE p.payload
    BY DEF Publish
  <2>2. CASE p.len = 0
    <3>1. w.bytes = <<>>
      <4>1. w.bytes \in Seq(Element) /\ Width(w.bytes) = 0
        BY <1>1, <1>2, <2>2, Zenon DEF Filled
      <4>2. w.bytes # <<>> => Width(w.bytes) >= 1
        BY <4>1, SomethingCounts, Zenon
      <4> QED BY <4>1, <4>2
    <3> QED BY <2>1, <2>2, <3>1 DEF Memory
  <2>3. CASE p.len # 0
    BY <1>3, <2>1, <2>3, Zenon
  <2> QED BY <2>2, <2>3
<1> HIDE DEF m, w
<1>8. Carries([packet |-> m, measured |-> v])
  BY <1>1, <1>7, Zenon DEF Carries, w
<1> QED BY <1>6, <1>8, Zenon DEF m

\* Whatever a builder returns, the connection stays a row of packets.
LEMMA SendKeeps ==
  ASSUME LinkInv, NEW m \in Packets, NEW v \in Measurements \cup {NULL}, NEW buf, NEW r,
         Sends(m, v, buf, r), Understood(m, r), Carries([packet |-> m, measured |-> v])
  PROVE  LinkInv'
<1> DEFINE e == [packet |-> m, measured |-> v]
<1>1. /\ last' = [packet |-> m, buf |-> buf, ret |-> r.ret, wrote |-> Width(r.packet)]
      /\ wire' = wire \o r.packet
      /\ sent' = IF r.ret = 0 THEN sent ELSE Append(sent, e)
      /\ read' = NULL
  BY Zenon DEF Sends
<1>2. last'.wrote = Width(r.packet) /\ last'.ret = r.ret
  BY <1>1
<1>3. e \in Entries /\ e.packet = m
  BY DEF Entries
<1>4. wire \in Seq(Element) /\ sent \in Seq(Entries) /\ Streams(wire, sent) /\ Proper(sent)
  BY Zenon DEF LinkInv
<1> HIDE DEF e
<1>5. CASE r = Refused
  <2>1. r.ret = 0 /\ r.packet = <<>>
    BY <1>5 DEF Refused
  <2>2. wire' = wire
    BY <1>1, <1>4, <2>1
  <2>3. sent' = sent
    BY <1>1, <2>1, Zenon
  <2>4. last'.wrote = last'.ret
    BY <1>2, <2>1, WidthNone, Zenon
  <2> QED BY <1>1, <1>4, <2>2, <2>3, <2>4, Zenon DEF LinkInv
<1>6. CASE r # Refused
  <2>1. Sayable(m) /\ r.packet = PacketBytes(m) /\ r.ret = PacketSize(m) /\ r.ret # 0
    BY <1>6, Zenon DEF Understood
  <2>2. PacketBytes(m) \in Seq(Element) /\ Width(PacketBytes(m)) = PacketSize(m)
    BY <2>1, PacketCounts, Zenon
  <2>3. wire' = wire \o PacketBytes(m) /\ sent' = Append(sent, e)
    BY <1>1, <2>1, Zenon
  <2>4. Streams(wire', sent') /\ Proper(sent')
    BY <1>3, <1>4, <2>1, <2>3, StreamGrows, Zenon DEF e
  <2>5. wire' \in Seq(Element) /\ sent' \in Seq(Entries)
    BY <1>3, <1>4, <2>2, <2>3
  <2>6. last'.wrote = last'.ret
    BY <1>2, <2>1, <2>2, Zenon
  <2> QED BY <1>1, <2>4, <2>5, <2>6, Zenon DEF LinkInv
<1> QED BY <1>5, <1>6

\* The broker takes the first packet, whole and alone.
LEMMA ReadKeeps ==
  ASSUME LinkInv, BrokerReads
  PROVE  LinkInv'
<1>1. /\ wire \in Seq(Element) /\ sent \in Seq(Entries) /\ sent # <<>>
      /\ Streams(wire, sent) /\ Proper(sent)
  BY Zenon DEF LinkInv, BrokerReads
<1> DEFINE e == sent[1]
           m == e.packet
<1>2. /\ \E r \in Seq(Element) : wire = PacketBytes(m) \o r /\ Streams(r, Tail(sent))
      /\ Proper(Tail(sent)) /\ Head(sent) = e /\ Sayable(m) /\ Carries(e)
  BY <1>1, StreamShrinks, Zenon
<1>3. PICK r \in Seq(Element) : wire = PacketBytes(m) \o r /\ Streams(r, Tail(sent))
  BY <1>2
<1> HIDE DEF e, m
<1> DEFINE s == Tail(wire)
           body == TakeBytes(SubSeq(s, LastGroup(s) + 1, Len(s)), Decoded(s))
<1>4. /\ wire[1] = m.type /\ body.rest = r /\ body.value # NULL /\ body.value.bytes = Body(m)
  BY <1>2, <1>3, PacketHeard, Zenon
<1>5. /\ read' = [heard |-> IF body.value = NULL THEN NULL ELSE Parse(wire[1], body.value.bytes),
                  meant |-> Head(sent)]
      /\ wire' = body.rest /\ sent' = Tail(sent) /\ last' = NULL
  BY Zenon DEF BrokerReads
<1> HIDE DEF body
<1>6. Parse(m.type, Body(m)) = m
  BY <1>2, Said, Zenon
<1>7. read' = [heard |-> m, meant |-> e]
  BY <1>2, <1>4, <1>5, <1>6, Zenon
<1>8. read'.heard = read'.meant.packet /\ Carries(read'.meant)
  <2>1. read'.heard = m /\ read'.meant = e
    BY <1>7
  <2> QED BY <1>2, <2>1, Zenon DEF m
<1>9. wire' = r /\ wire' \in Seq(Element)
  BY <1>3, <1>4, <1>5, Zenon
<1>10. sent' \in Seq(Entries)
  BY <1>1, <1>5
<1> QED BY <1>2, <1>3, <1>5, <1>8, <1>9, <1>10, Zenon DEF LinkInv

\* The connection never carries anything but the packets that were returned to
\* the client, whole and in order, and the broker has read the last one it took
\* as it was meant.
THEOREM LinkInvariant == LinkSpec => []LinkInv
<1>1. LinkInit => LinkInv
  <2> SUFFICES ASSUME LinkInit PROVE LinkInv
    OBVIOUS
  <2>1. last = NULL /\ wire = <<>> /\ sent = <<>> /\ read = NULL
    BY DEF LinkInit
  <2>2. Len(sent) = 0 /\ sent \in Seq(Entries) /\ wire \in Seq(Element)
    BY <2>1
  <2>3. Streams(wire, sent)
    <3> DEFINE rest == [i \in 0 .. 0 |-> <<>>]
    <3>1. <<>> \in Seq(Element)
      OBVIOUS
    <3>2. rest \in [0 .. 0 -> Seq(Element)] /\ rest[0] = <<>> /\ 1 .. 0 = {}
      BY <3>1
    <3> HIDE DEF rest
    <3> QED BY <2>1, <2>2, <3>2, Zenon DEF Streams
  <2>4. Proper(sent)
    <3>1. 1 .. 0 = {}
      OBVIOUS
    <3> QED BY <2>2, <3>1, Zenon DEF Proper
  <2> QED BY <2>1, <2>2, <2>3, <2>4, Zenon DEF LinkInv
<1>2. ASSUME LinkInv, [LinkNext]_vars PROVE LinkInv'
  <2>1. CASE SendConnect
    <3>1. PICK c \in Connects : \E buf \in Buffers(Connect(c)) :
            Sends(Connect(c), NULL, buf, mqtt_build_connect(buf, c.client, c.user, c.pass))
      BY <2>1 DEF SendConnect
    <3>2. PICK buf \in Buffers(Connect(c)) :
            Sends(Connect(c), NULL, buf, mqtt_build_connect(buf, c.client, c.user, c.pass))
      BY <3>1
    <3>3. IsConnect(c) /\ Connect(c) \in Packets
      BY Arguments DEF Packets
    <3>4. IsBuffer(buf)
      BY <3>3, MqttAssumption, BodySizes, BuffersAreSizes
    <3> QED BY <1>2, <3>2, <3>3, <3>4, EveryText, ConnectUnderstood, NothingCarried, SendKeeps, Zenon
  <2>2. CASE SendPublish
    <3>1. PICK p \in Publications : \E buf \in Buffers(Publish(p)) :
            Sends(Publish(p), NULL, buf, mqtt_build_publish(buf, p.topic, p.payload, p.len))
      BY <2>2 DEF SendPublish
    <3>2. PICK buf \in Buffers(Publish(p)) :
            Sends(Publish(p), NULL, buf, mqtt_build_publish(buf, p.topic, p.payload, p.len))
      BY <3>1
    <3>3. IsPublish(p) /\ Publish(p) \in Packets
      BY Arguments DEF Packets
    <3>4. IsBuffer(buf)
      BY <3>3, MqttAssumption, BodySizes, BuffersAreSizes
    <3> QED BY <1>2, <3>2, <3>3, <3>4, EveryText, PublishUnderstood, NothingCarried, SendKeeps, Zenon
  <2>3. CASE SendMeasurement
    <3>1. PICK t \in Topics, v \in Measurements :
            LET q == Measured(t, v)
            IN  /\ Encodable(Publish(q))
                /\ Sends(Publish(q), v, PacketSize(Publish(q)),
                         mqtt_build_publish(PacketSize(Publish(q)), q.topic, q.payload, q.len))
      BY <2>3, Zenon DEF SendMeasurement
    <3>2. Publish(Measured(t, v)) \in Packets
      BY DEF Packets
    <3> QED BY <1>2, <3>1, <3>2, MeasuredUnderstood, SendKeeps, Zenon
  <2>4. CASE SendSubscribe
    <3>1. PICK s \in Subscriptions : \E buf \in Buffers(Request(SUBSCRIBE, s)) :
            Sends(Request(SUBSCRIBE, s), NULL, buf, mqtt_build_subscribe(buf, s.id, s.topic))
      BY <2>4 DEF SendSubscribe
    <3>2. PICK buf \in Buffers(Request(SUBSCRIBE, s)) :
            Sends(Request(SUBSCRIBE, s), NULL, buf, mqtt_build_subscribe(buf, s.id, s.topic))
      BY <3>1
    <3>3. IsRequest(s) /\ Request(SUBSCRIBE, s) \in Packets
      BY Arguments DEF Packets
    <3>4. IsBuffer(buf)
      BY <3>3, MqttAssumption, BodySizes, BuffersAreSizes
    <3> QED BY <1>2, <3>2, <3>3, <3>4, EveryText, SubscribeUnderstood, NothingCarried, SendKeeps, Zenon
  <2>5. CASE SendUnsubscribe
    <3>1. PICK s \in Subscriptions : \E buf \in Buffers(Request(UNSUBSCRIBE, s)) :
            Sends(Request(UNSUBSCRIBE, s), NULL, buf, mqtt_build_unsubscribe(buf, s.id, s.topic))
      BY <2>5 DEF SendUnsubscribe
    <3>2. PICK buf \in Buffers(Request(UNSUBSCRIBE, s)) :
            Sends(Request(UNSUBSCRIBE, s), NULL, buf, mqtt_build_unsubscribe(buf, s.id, s.topic))
      BY <3>1
    <3>3. IsRequest(s) /\ Request(UNSUBSCRIBE, s) \in Packets
      BY Arguments DEF Packets
    <3>4. IsBuffer(buf)
      BY <3>3, MqttAssumption, BodySizes, BuffersAreSizes
    <3> QED BY <1>2, <3>2, <3>3, <3>4, EveryText, UnsubscribeUnderstood, NothingCarried, SendKeeps, Zenon
  <2>6. CASE SendPingreq
    <3>1. PICK buf \in Buffers(Signal(PINGREQ)) :
            Sends(Signal(PINGREQ), NULL, buf, mqtt_build_pingreq(buf))
      BY <2>6 DEF SendPingreq
    <3>2. IsBuffer(buf) /\ Signal(PINGREQ) \in Packets
      BY MqttAssumption, BodySizes, BuffersAreSizes DEF Packets
    <3> QED BY <1>2, <3>1, <3>2, SignalUnderstood, NothingCarried, SendKeeps, Zenon
  <2>7. CASE SendDisconnect
    <3>1. PICK buf \in Buffers(Signal(DISCONNECT)) :
            Sends(Signal(DISCONNECT), NULL, buf, mqtt_build_disconnect(buf))
      BY <2>7 DEF SendDisconnect
    <3>2. IsBuffer(buf) /\ Signal(DISCONNECT) \in Packets
      BY MqttAssumption, BodySizes, BuffersAreSizes DEF Packets
    <3> QED BY <1>2, <3>1, <3>2, SignalUnderstood, NothingCarried, SendKeeps, Zenon
  <2>8. CASE BrokerReads
    BY <1>2, <2>8, ReadKeeps
  <2>9. CASE UNCHANGED vars
    BY <1>2, <2>9, Zenon DEF vars, LinkInv
  <2> QED BY <1>2, <2>1, <2>2, <2>3, <2>4, <2>5, <2>6, <2>7, <2>8, <2>9 DEF LinkNext
<1> QED BY <1>1, <1>2, PTL DEF LinkSpec

\* Every packet that a builder returned is understood as it was meant, for any
\* arguments, buffers and order of the calls: the broker cuts the stream where
\* the builder ended the packet and finds the fields that the call was given.
THEOREM BrokerTheorem == LinkSpec => []BrokerHears
<1>1. LinkInv => BrokerHears
  <2> SUFFICES ASSUME LinkInv, sent = <<>> PROVE wire = <<>>
    BY Zenon DEF LinkInv, BrokerHears
  <2>1. Len(sent) = 0
    OBVIOUS
  <2> QED BY <2>1, Zenon DEF LinkInv, Streams
<1> QED BY <1>1, LinkInvariant, PTL

\* A published measurement, an integer of any width and byte order or a string, has
\* its bytes in the order that the name of its format promises, and is what the
\* reader of the format gets from the payload, with nothing left over.
THEOREM ArrivesTheorem == LinkSpec => []MeasurementArrives
<1>1. LinkInv => MeasurementArrives
  <2> SUFFICES ASSUME LinkInv, read # NULL, read.meant.measured # NULL
               PROVE  /\ read.heard.payload.bytes = OnTheWire(read.meant.measured)
                      /\ Read(read.meant.measured.format, read.heard.payload.bytes)
                           = Get(read.meant.measured.value, <<>>, 0)
    BY Zenon DEF MeasurementArrives
  <2>1. /\ read.heard = read.meant.packet /\ IsMeasurement(read.meant.measured)
        /\ read.meant.packet.payload.bytes = Written(read.meant.measured).bytes
    BY Zenon DEF LinkInv, Carries
  <2> QED BY <2>1, MeasurementRead, MeasurementOrdered, Zenon
<1> QED BY <1>1, LinkInvariant, PTL
=============================================================================
