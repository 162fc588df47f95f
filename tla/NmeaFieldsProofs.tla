-------------------------- MODULE NmeaFieldsProofs --------------------------
(***************************************************************************)
(* The fields of every body, and what the decoders read.  Each number      *)
(* below the number of field ends names one field, which lies inside the   *)
(* body, between a comma or the start and a comma or the end, and has no   *)
(* comma.  A body put together from fields has these fields; each text of  *)
(* a number, an angle, a time or a date is read as what it was made of;    *)
(* and so each snapshot is what the last message of its type meant.        *)
(***************************************************************************)
EXTENDS NmeaFix, Induction, FiniteSetTheorems, TLAPS

\* The ends before one, and how many there are.
Before(bs, i) == {j \in Ends(bs) : j < i}
Rank(bs)      == [i \in Ends(bs) |-> Cardinality(Before(bs, i))]

IsEnd(bs, i) == i = Len(bs) + 1 \/ bs[i] = ","

LEMMA EndIs ==
  ASSUME NEW S, NEW bs \in Seq(S), NEW i
  PROVE  i \in Ends(bs) <=> i \in Int /\ 1 <= i /\ i <= Len(bs) + 1 /\ IsEnd(bs, i)
<1>1. i \in Ends(bs) <=> i \in 1 .. Len(bs) + 1 /\ IsEnd(bs, i) BY Zenon DEF Ends, IsEnd
<1>2. i \in 1 .. Len(bs) + 1 <=> i \in Int /\ 1 <= i /\ i <= Len(bs) + 1 BY SMT
<1> QED BY <1>1, <1>2, Zenon

LEMMA EndsFinite ==
  ASSUME NEW S, NEW bs \in Seq(S)
  PROVE  /\ Ends(bs) \subseteq 1 .. Len(bs) + 1
         /\ IsFiniteSet(Ends(bs)) /\ Cardinality(Ends(bs)) \in Nat
         /\ \A i : /\ Before(bs, i) \subseteq Ends(bs)
                   /\ IsFiniteSet(Before(bs, i)) /\ Cardinality(Before(bs, i)) \in Nat
<1>1. Ends(bs) \subseteq 1 .. Len(bs) + 1 BY Zenon DEF Ends
<1>2. IsFiniteSet(1 .. Len(bs) + 1) BY FS_Interval, SMT
<1>3. IsFiniteSet(Ends(bs)) BY <1>1, <1>2, FS_Subset
<1>4. \A i : Before(bs, i) \subseteq Ends(bs) BY DEF Before
<1>5. \A i : IsFiniteSet(Before(bs, i)) BY <1>3, <1>4, FS_Subset
<1> QED BY <1>1, <1>3, <1>4, <1>5, FS_CardinalityType

\* More ends precede a later one.
LEMMA RankGrows ==
  ASSUME NEW S, NEW bs \in Seq(S), NEW i \in Ends(bs), NEW j \in Ends(bs), i < j
  PROVE  Rank(bs)[i] < Rank(bs)[j]
<1>1. i \in Int /\ j \in Int BY EndsFinite, SMT
<1>2. Before(bs, i) \subseteq Before(bs, j) BY <1>1, EndsFinite, SMT DEF Before
<1>3. i \in Before(bs, j) /\ i \notin Before(bs, i) BY <1>1 DEF Before
<1>4. Cardinality(Before(bs, i)) <= Cardinality(Before(bs, j))
  BY <1>2, EndsFinite, FS_Subset
<1>5. Cardinality(Before(bs, i)) # Cardinality(Before(bs, j))
  BY <1>2, <1>3, EndsFinite, FS_Subset
<1> QED BY <1>4, <1>5, EndsFinite, SMT DEF Rank

\* Every number below the number of ends is the rank of one.
LEMMA RankIsOnto ==
  ASSUME NEW S, NEW bs \in Seq(S)
  PROVE  \A k \in 0 .. Cardinality(Ends(bs)) - 1 : \E i \in Ends(bs) : Rank(bs)[i] = k
<1> DEFINE n == Cardinality(Ends(bs))
           T == 0 .. n - 1
<1>1. n \in Nat BY EndsFinite
<1>2. IsFiniteSet(T) /\ Cardinality(T) = n
  <2> HIDE DEF n
  <2>1. 0 \in Int /\ n - 1 \in Int BY <1>1, SMT
  <2>2. IsFiniteSet(T) /\ Cardinality(T) = IF 0 > n - 1 THEN 0 ELSE n - 1 - 0 + 1
    BY <2>1, FS_Interval, Zenon
  <2> QED BY <1>1, <2>2, SMT
<1>3. ASSUME NEW i \in Ends(bs) PROVE Rank(bs)[i] \in T
  <2>1. Before(bs, i) \subseteq Ends(bs) /\ i \in Ends(bs) \ Before(bs, i)
    BY EndsFinite, SMT DEF Before
  <2>2. Cardinality(Before(bs, i)) <= n BY <2>1, EndsFinite, FS_Subset
  <2>3. Cardinality(Before(bs, i)) # n BY <2>1, EndsFinite, FS_Subset
  <2> QED BY <1>1, <2>2, <2>3, EndsFinite, SMT DEF Rank
<1>4. ASSUME NEW i \in Ends(bs), NEW j \in Ends(bs), Rank(bs)[i] = Rank(bs)[j]
      PROVE  i = j
  <2>1. i \in Int /\ j \in Int BY EndsFinite, SMT
  <2>2. Rank(bs)[i] \in Int BY <1>3, <1>1, SMT
  <2>3. ~ (i < j) /\ ~ (j < i) BY <1>4, <2>2, RankGrows, SMT
  <2> QED BY <2>1, <2>3, SMT
<1>5. Rank(bs) \in Injection(Ends(bs), T)
  BY <1>3, <1>4 DEF Rank, Injection, IsInjective
<1>6. Rank(bs) \in Surjection(Ends(bs), T)
  BY <1>2, <1>5, FS_Injection
<1> QED BY <1>6 DEF Surjection

\* The field of each number below the number of ends, and of no other, is there.
LEMMA EndsCounted ==
  ASSUME NEW S, NEW bs \in Seq(S), NEW k \in Nat
  PROVE  /\ EndsOf(bs, k) # {} <=> k < Cardinality(Ends(bs))
         /\ \A i \in EndsOf(bs, k) : i \in Ends(bs) /\ Rank(bs)[i] = k
<1>1. EndsOf(bs, k) = {i \in Ends(bs) : Rank(bs)[i] = k}
  BY DEF EndsOf, Rank, Before
<1>2. ASSUME NEW i \in Ends(bs), Rank(bs)[i] = k PROVE k < Cardinality(Ends(bs))
  <2>1. Before(bs, i) \subseteq Ends(bs) /\ i \in Ends(bs) \ Before(bs, i)
    BY EndsFinite, SMT DEF Before
  <2>2. Cardinality(Before(bs, i)) <= Cardinality(Ends(bs)) BY <2>1, EndsFinite, FS_Subset
  <2>3. Cardinality(Before(bs, i)) # Cardinality(Ends(bs)) BY <2>1, EndsFinite, FS_Subset
  <2> QED BY <1>2, <2>2, <2>3, EndsFinite, SMT DEF Rank
<1>3. k < Cardinality(Ends(bs)) => k \in 0 .. Cardinality(Ends(bs)) - 1
  BY EndsFinite, SMT
<1> QED BY <1>1, <1>2, <1>3, RankIsOnto

\* A number below the number of commas plus one names a field of the body: it
\* lies inside it, has no comma, and commas or the ends of the body enclose it.
\* Any other number names none (nmea.c:45-67).
THEOREM FieldTheorem ==
  ASSUME NEW S, NEW bs \in Seq(S), NULL \notin Seq(S), NEW k \in Nat
  PROVE  LET a == StartOf(bs, k)  b == EndOf(bs, k)
         IN  IF k >= Cardinality(Ends(bs)) THEN field_at(bs, k) = NULL
             ELSE /\ a \in 1 .. b /\ b \in 1 .. Len(bs) + 1
                  /\ a = 1 \/ bs[a - 1] = ","
                  /\ b = Len(bs) + 1 \/ bs[b] = ","
                  /\ field_at(bs, k) = SubSeq(bs, a, b - 1)
                  /\ \A i \in a .. b - 1 : bs[i] # ","
<1> DEFINE a == StartOf(bs, k)  b == EndOf(bs, k)
<1>1. CASE k >= Cardinality(Ends(bs))
  <2>1. EndsOf(bs, k) = {} BY <1>1, EndsCounted, EndsFinite, SMT
  <2> QED BY <1>1, <2>1 DEF field_at
<1>2. ASSUME k < Cardinality(Ends(bs))
      PROVE  /\ a \in 1 .. b /\ b \in 1 .. Len(bs) + 1
             /\ a = 1 \/ bs[a - 1] = ","
             /\ b = Len(bs) + 1 \/ bs[b] = ","
             /\ field_at(bs, k) = SubSeq(bs, a, b - 1)
             /\ \A i \in a .. b - 1 : bs[i] # ","
  <2>1. EndsOf(bs, k) # {} BY <1>2, EndsCounted
  <2>2. b \in Ends(bs) /\ Rank(bs)[b] = k BY <2>1, EndsCounted DEF EndOf
  <2>3. field_at(bs, k) = SubSeq(bs, a, b - 1) BY <2>1 DEF field_at
  <2>4. \A i \in Ends(bs) : Rank(bs)[i] \in Nat BY EndsFinite DEF Rank
  <2> DEFINE c == EndOf(bs, k - 1)
  <2>5. k = 0 => a = 1 BY DEF StartOf
  <2>6. k # 0 => c \in Ends(bs) /\ Rank(bs)[c] = k - 1 /\ a = c + 1
    <3> SUFFICES ASSUME k # 0 PROVE c \in Ends(bs) /\ Rank(bs)[c] = k - 1 /\ a = c + 1
      OBVIOUS
    <3>1. k - 1 \in Nat /\ k - 1 < Cardinality(Ends(bs)) BY <1>2, EndsFinite, SMT
    <3>2. EndsOf(bs, k - 1) # {} BY <3>1, EndsCounted
    <3> QED BY <3>1, <3>2, EndsCounted DEF EndOf, StartOf
  <2> HIDE DEF a, b, c
  <2>7. b \in Int /\ 1 <= b /\ b <= Len(bs) + 1 /\ IsEnd(bs, b) BY <2>2, EndIs, Zenon
  <2>8. ASSUME k # 0 PROVE c \in Int /\ 1 <= c /\ c < b /\ c # Len(bs) + 1
    <3>1. c \in Int /\ 1 <= c /\ c <= Len(bs) + 1 BY <2>6, <2>8, EndIs, Zenon
    <3>2. b # c BY <2>2, <2>6, <2>8, SMT
    <3>3. ~ (b < c) BY <2>2, <2>6, <2>8, RankGrows, SMT
    <3>4. c < b BY <2>7, <3>1, <3>2, <3>3, SMT
    <3>5. c # Len(bs) + 1 BY <2>7, <3>1, <3>4, SMT
    <3> QED BY <3>1, <3>4, <3>5
  <2>9. a \in 1 .. b /\ b \in 1 .. Len(bs) + 1
    <3>1. CASE k = 0 BY <3>1, <2>5, <2>7, SMT
    <3>2. CASE k # 0
      <4>1. c \in Int /\ 1 <= c /\ c < b /\ a = c + 1 BY <3>2, <2>6, <2>8
      <4> QED BY <4>1, <2>7, SMT
    <3> QED BY <3>1, <3>2
  <2>10. a = 1 \/ bs[a - 1] = ","
    <3>1. CASE k = 0 BY <3>1, <2>5
    <3>2. CASE k # 0
      <4>1. c \in Ends(bs) /\ c \in Int /\ a = c + 1 /\ c # Len(bs) + 1 BY <3>2, <2>6, <2>8
      <4>2. bs[c] = "," BY <4>1, EndIs, Zenon DEF IsEnd
      <4>3. a - 1 = c BY <4>1, SMT
      <4> QED BY <4>2, <4>3, Zenon
    <3> QED BY <3>1, <3>2, Zenon
  <2>11. ASSUME NEW i \in a .. b - 1, bs[i] = "," PROVE FALSE
    <3>1. i \in Int /\ 1 <= i /\ i < b /\ i <= Len(bs) + 1 BY <2>7, <2>9, SMT
    <3>2. IsEnd(bs, i) BY <2>11, Zenon DEF IsEnd
    <3>3. i \in Ends(bs) BY <3>1, <3>2, EndIs, Zenon
    <3>4. Rank(bs)[i] \in Nat BY <3>3, <2>4
    <3>5. Rank(bs)[i] < k BY <3>1, <3>3, <2>2, RankGrows
    <3>6. CASE k = 0 BY <3>4, <3>5, <3>6, SMT
    <3>7. CASE k # 0
      <4>1. c \in Int /\ a = c + 1 /\ c \in Ends(bs) /\ Rank(bs)[c] = k - 1
        BY <3>7, <2>6, <2>8
      <4>2. c < i BY <4>1, <2>7, <3>1, SMT
      <4>3. k - 1 < Rank(bs)[i] BY <4>1, <4>2, <3>3, RankGrows
      <4> QED BY <3>4, <3>5, <4>3, SMT
    <3> QED BY <3>6, <3>7
  <2> QED BY <2>3, <2>7, <2>9, <2>10, <2>11, Zenon DEF IsEnd
<1>3. k >= Cardinality(Ends(bs)) \/ k < Cardinality(Ends(bs)) BY EndsFinite, SMT
<1>4. ~ (k >= Cardinality(Ends(bs)) /\ k < Cardinality(Ends(bs))) BY EndsFinite, SMT
<1> QED BY <1>1, <1>2, <1>3, <1>4, Zenon
-----------------------------------------------------------------------------
(* The body put together again from its fields.                            *)

\* Where the commas are.
Commas(bs) == {i \in DOMAIN bs : bs[i] = ","}

Comma == ","

LEMMA CommasCounted ==
  ASSUME NEW S, NEW bs \in Seq(S)
  PROVE  /\ IsFiniteSet(Commas(bs)) /\ Cardinality(Commas(bs)) \in Nat
         /\ Cardinality(Ends(bs)) = Cardinality(Commas(bs)) + 1
         /\ Len(bs) + 1 \in Ends(bs)
         /\ Rank(bs)[Len(bs) + 1] = Cardinality(Commas(bs))
<1> DEFINE last == Len(bs) + 1
<1>1. DOMAIN bs = 1 .. Len(bs) /\ Len(bs) \in Nat
  OBVIOUS
<1>2. Ends(bs) = Commas(bs) \cup {last} /\ last \notin Commas(bs)
  <2>1. \A i : i \in 1 .. last <=> i \in 1 .. Len(bs) \/ i = last
    BY <1>1
  <2>2. last \notin 1 .. Len(bs)
    BY <1>1
  <2> HIDE DEF last
  <2>3. Ends(bs) = {i \in 1 .. last : i = last \/ bs[i] = Comma}
    BY Zenon DEF last, Ends, Comma
  <2>4. Commas(bs) = {i \in 1 .. Len(bs) : bs[i] = Comma}
    BY <1>1, Zenon DEF Commas, Comma
  <2> QED BY <2>1, <2>2, <2>3, <2>4
<1>3. IsFiniteSet(Commas(bs)) /\ Cardinality(Commas(bs)) \in Nat
  BY <1>2, EndsFinite, FS_Subset, FS_CardinalityType
<1>4. Cardinality(Ends(bs)) = Cardinality(Commas(bs)) + 1
  BY <1>2, <1>3, FS_AddElement
<1>5. Before(bs, last) = Commas(bs)
  <2>1. \A i \in Commas(bs) : i < last
    <3>1. Commas(bs) \subseteq 1 .. Len(bs)
      BY <1>1, Zenon DEF Commas
    <3> QED BY <1>1, <3>1
  <2>2. ~ (last < last)
    BY <1>1
  <2> QED BY <1>2, <2>1, <2>2 DEF Before
<1> QED BY <1>2, <1>3, <1>4, <1>5 DEF Rank

\* A sequence cut at one of its elements.
LEMMA Cut ==
  ASSUME NEW S, NEW bs \in Seq(S), NEW c \in 1 .. Len(bs), NEW d \in c .. Len(bs)
  PROVE  SubSeq(bs, 1, c - 1) \o <<bs[c]>> \o SubSeq(bs, c + 1, d) = SubSeq(bs, 1, d)
  OBVIOUS

\* The last field ends where the body does.
LEMMA LastEnd ==
  ASSUME NEW S, NEW bs \in Seq(S)
  PROVE  EndOf(bs, Cardinality(Commas(bs))) = Len(bs) + 1
<1> DEFINE n == Cardinality(Commas(bs))
           e == EndOf(bs, n)
           last == Len(bs) + 1
<1>1. n \in Nat /\ last \in Ends(bs) /\ Rank(bs)[last] = n
  BY CommasCounted
<1>2. EndsOf(bs, n) # {}
  BY <1>1, CommasCounted, EndsCounted
<1>3. e \in Ends(bs) /\ Rank(bs)[e] = n
  BY <1>1, <1>2, EndsCounted DEF EndOf
<1>4. e \in Int /\ last \in Int
  BY <1>1, <1>3, EndsFinite
<1> HIDE DEF e, last, n
<1>5. ~ (e < last) /\ ~ (last < e)
  BY <1>1, <1>3, RankGrows
<1> QED BY <1>4, <1>5 DEF e, last, n

\* The field ends that the fields are cut at, in order, and what lies before one.
Upto(bs, k) == SubSeq(bs, 1, EndOf(bs, k) - 1)

\* One field more, as the fold adds it.
WithField(bs, s, k) == s \o <<Comma>> \o field_at(bs, k)

LEMMA FieldsInOrder ==
  ASSUME NEW S, NEW bs \in Seq(S), NULL \notin Seq(S)
  PROVE  LET n == Cardinality(Commas(bs))
         IN  /\ \A k \in 0 .. n : field_at(bs, k) \in Seq(S) /\ Comma \notin Range(field_at(bs, k))
             /\ \A k \in Nat : k > n => field_at(bs, k) = NULL
             /\ field_at(bs, 0) = Upto(bs, 0)
             /\ \A k \in 1 .. n : WithField(bs, Upto(bs, k - 1), k) = Upto(bs, k)
             /\ Upto(bs, n) = bs
<1> DEFINE n == Cardinality(Commas(bs))
           a(k) == StartOf(bs, k)
           e(k) == EndOf(bs, k)
           f(k) == field_at(bs, k)
<1>0. n \in Nat /\ Cardinality(Ends(bs)) = n + 1 /\ Len(bs) \in Nat
  BY CommasCounted
<1> HIDE DEF n
<1>1. \A k \in Nat : k > n => f(k) = NULL
  <2> TAKE k \in Nat
  <2>1. k > n => k >= Cardinality(Ends(bs))
    BY <1>0
  <2> QED BY <2>1, FieldTheorem
<1>2. ASSUME NEW k \in 0 .. n
      PROVE  /\ a(k) \in 1 .. e(k) /\ e(k) \in 1 .. Len(bs) + 1
             /\ a(k) = 1 \/ bs[a(k) - 1] = Comma
             /\ f(k) = SubSeq(bs, a(k), e(k) - 1)
             /\ \A i \in a(k) .. e(k) - 1 : bs[i] # Comma
  <2>1. k \in Nat /\ ~ (k >= Cardinality(Ends(bs)))
    BY <1>0
  <2> QED BY <2>1, FieldTheorem, Zenon DEF Comma
<1>3. a(0) = 1 /\ \A k \in 1 .. n : a(k) = e(k - 1) + 1
  BY <1>0 DEF StartOf
<1> HIDE DEF a, e, f
<1>4. ASSUME NEW k \in 0 .. n
      PROVE  f(k) \in Seq(S) /\ Comma \notin Range(f(k))
  <2>1. /\ a(k) \in Nat /\ a(k) >= 1 /\ e(k) \in Nat /\ e(k) - 1 <= Len(bs) /\ a(k) <= e(k)
        /\ f(k) = SubSeq(bs, a(k), e(k) - 1)
    BY <1>0, <1>2
  <2>2. /\ f(k) \in Seq(S) /\ Len(f(k)) = e(k) - a(k)
        /\ \A i \in 1 .. Len(f(k)) : f(k)[i] = bs[a(k) + i - 1]
    BY <2>1
  <2>3. \A i \in 1 .. Len(f(k)) : a(k) + i - 1 \in a(k) .. e(k) - 1
    BY <2>1, <2>2
  <2>4. \A i \in DOMAIN f(k) : f(k)[i] # Comma
    BY <1>2, <2>2, <2>3, SMTT(40)
  <2> QED BY <2>2, <2>4 DEF Range
<1>5. f(0) = Upto(bs, 0)
  <2>1. 0 \in 0 .. n
    BY <1>0
  <2>2. f(0) = SubSeq(bs, 1, e(0) - 1)
    BY <1>2, <1>3, <2>1
  <2> QED BY <2>2, Zenon DEF Upto, e
<1>6. ASSUME NEW k \in 1 .. n
      PROVE  WithField(bs, Upto(bs, k - 1), k) = Upto(bs, k)
  <2>1. k \in 0 .. n /\ k - 1 \in 0 .. n
    BY <1>0
  <2> DEFINE c == e(k - 1)
             d == e(k)
  <2>2. /\ a(k) = c + 1 /\ c \in Nat /\ c >= 1 /\ c <= Len(bs) + 1
        /\ d \in Nat /\ d <= Len(bs) + 1 /\ c + 1 <= d
    BY <1>0, <1>2, <1>3, <2>1, SMTT(40)
  <2>3. bs[c] = Comma
    <3>1. a(k) # 1 /\ a(k) - 1 = c
      BY <2>2
    <3> QED BY <1>2, <2>1, <3>1
  <2>4. Upto(bs, k - 1) = SubSeq(bs, 1, c - 1) /\ Upto(bs, k) = SubSeq(bs, 1, d - 1)
    BY Zenon DEF Upto, e
  <2>5. f(k) = SubSeq(bs, c + 1, d - 1)
    BY <1>2, <2>1, <2>2
  <2> HIDE DEF c, d
  <2>6. SubSeq(bs, 1, c - 1) \o <<bs[c]>> \o SubSeq(bs, c + 1, d - 1) = SubSeq(bs, 1, d - 1)
    BY <2>2, Cut
  <2> QED BY <2>3, <2>4, <2>5, <2>6, Zenon DEF WithField, f
<1>7. Upto(bs, n) = bs
  <2>1. e(n) = Len(bs) + 1
    BY LastEnd DEF e, n
  <2>2. Upto(bs, n) = SubSeq(bs, 1, e(n) - 1)
    BY Zenon DEF Upto, e
  <2>3. SubSeq(bs, 1, Len(bs)) = bs
    BY <1>0
  <2>4. e(n) - 1 = Len(bs)
    BY <1>0, <2>1
  <2> QED BY <2>2, <2>3, <2>4
<1> QED BY <1>1, <1>4, <1>5, <1>6, <1>7 DEF n, f

\* The function that the fold over the fields recurses with.
Rebuilds(g, bs, n) ==
  g = [s \in SUBSET (1 .. n) |-> IF s = {} THEN field_at(bs, 0) ELSE WithField(bs, g[s \ {Max(s)}], Max(s))]

\* However a body is cut by commas, its fields make it again.
LEMMA FieldsRebuild ==
  ASSUME NEW S, NEW bs \in Seq(S), NULL \notin Seq(S),
         NEW n \in Nat, n = Cardinality(Commas(bs))
  PROVE  bs = FoldLeft(LAMBDA s, k : s \o <<",">> \o field_at(bs, k), field_at(bs, 0), [k \in 1 .. n |-> k])
<1> DEFINE q == [k \in 1 .. n |-> k]
           whole == FoldLeft(LAMBDA s, k : WithField(bs, s, k), field_at(bs, 0), q)
           Folding(g) == g = [s \in SUBSET DOMAIN q |-> IF s = {} THEN field_at(bs, 0)
                                ELSE WithField(bs, g[s \ {Max(s)}], q[Max(s)])]
           g0 == CHOOSE g : Rebuilds(g, bs, n)
<1>1. DOMAIN q = 1 .. n /\ \A k \in 1 .. n : q[k] = k
  OBVIOUS
<1>2. whole = (CHOOSE g : Folding(g))[DOMAIN q]
  BY Zenon DEF FoldLeft, MapThenFoldSet
<1>3. \A s \in SUBSET (1 .. n) : s # {} => q[Max(s)] = Max(s)
  BY MaxIs, <1>1
<1> HIDE DEF q
<1>4. \A g : Folding(g) <=> Rebuilds(g, bs, n)
  BY <1>1, <1>3, Zenon DEF Rebuilds
<1>5. whole = g0[1 .. n]
  BY <1>1, <1>2, <1>4, Zenon
<1>6. \E g : Rebuilds(g, bs, n)
  <2> DEFINE F == [k \in 1 .. n |-> [v \in Seq(S) |-> WithField(bs, v, k)]]
  <2>1. \A k \in 0 .. n : field_at(bs, k) \in Seq(S)
    BY FieldsInOrder
  <2>2. field_at(bs, 0) \in Seq(S) /\ \A k \in 1 .. n : field_at(bs, k) \in Seq(S)
    BY <2>1
  <2>3. ASSUME NEW k \in 1 .. n, NEW v \in Seq(S) PROVE WithField(bs, v, k) \in Seq(S)
    <3>1. Commas(bs) # {}
      <4>1. n # 0
        OBVIOUS
      <4> QED BY <4>1, FS_EmptySet
    <3>2. Comma \in S
      <4>1. Commas(bs) = {i \in DOMAIN bs : bs[i] = Comma}
        BY Zenon DEF Commas, Comma
      <4>2. \A i \in DOMAIN bs : bs[i] \in S
        OBVIOUS
      <4> QED BY <3>1, <4>1, <4>2
    <3> QED BY <2>2, <3>2 DEF WithField
  <2>4. \A k \in 1 .. n : \A v \in Seq(S) : F[k][v] = WithField(bs, v, k) /\ F[k][v] \in Seq(S)
    BY <2>3
  <2> HIDE DEF F
  <2>5. PICK g \in [SUBSET (1 .. n) -> Seq(S)] :
          \A s \in SUBSET (1 .. n) : g[s] = IF s = {} THEN field_at(bs, 0) ELSE F[Max(s)][g[s \ {Max(s)}]]
    <3> DEFINE V == Seq(S)
               b == field_at(bs, 0)
    <3>1. b \in V /\ Keeps(F, 1 .. n, V)
      BY <2>2, <2>4 DEF Keeps
    <3> HIDE DEF V, b
    <3>2. \E g \in [SUBSET (1 .. n) -> V] : FoldsLeft(g, n, F, b)
      BY <3>1, FoldLeftExists
    <3> QED BY <3>2, Zenon DEF V, b, FoldsLeft
  <2>6. \A s \in SUBSET (1 .. n) : s # {} => Max(s) \in 1 .. n /\ s \ {Max(s)} \in SUBSET (1 .. n)
    BY MaxIs
  <2>7. \A s \in SUBSET (1 .. n) :
          g[s] = IF s = {} THEN field_at(bs, 0) ELSE WithField(bs, g[s \ {Max(s)}], Max(s))
    BY <2>4, <2>5, <2>6
  <2> QED BY <2>7 DEF Rebuilds
<1>7. Rebuilds(g0, bs, n)
  BY <1>6
<1> HIDE DEF g0
<1> DEFINE T == {k \in Nat : k <= n => g0[1 .. k] = Upto(bs, k)}
<1>8. 0 \in T
  <2>1. 1 .. 0 = {} /\ {} \in SUBSET (1 .. n)
    OBVIOUS
  <2>2. g0[1 .. 0] = field_at(bs, 0)
    BY <1>7, <2>1 DEF Rebuilds
  <2> QED BY <2>2, FieldsInOrder
<1>9. ASSUME NEW k \in Nat, k \in T PROVE k + 1 \in T
  <2> SUFFICES ASSUME k + 1 <= n PROVE g0[1 .. k + 1] = Upto(bs, k + 1)
    OBVIOUS
  <2>1. k + 1 \in 1 .. n /\ (k + 1) - 1 = k
    OBVIOUS
  <2>2. 1 .. k + 1 \in SUBSET (1 .. n)
    OBVIOUS
  <2>3. Max(1 .. k + 1) = k + 1 /\ (1 .. k + 1) \ {k + 1} = 1 .. k /\ (1 .. k + 1) # {}
    BY <2>1, MaxIs
  <2>4. g0[1 .. k + 1] = WithField(bs, g0[1 .. k], k + 1)
    BY <1>7, <2>2, <2>3 DEF Rebuilds
  <2>5. g0[1 .. k] = Upto(bs, (k + 1) - 1)
    BY <1>9, <2>1
  <2>6. WithField(bs, Upto(bs, (k + 1) - 1), k + 1) = Upto(bs, k + 1)
    BY <2>1, FieldsInOrder
  <2> QED BY <2>4, <2>5, <2>6
<1>10. g0[1 .. n] = bs
  <2> HIDE DEF T
  <2>1. n \in T
    BY <1>8, <1>9, InductionOnSets
  <2>2. g0[1 .. n] = Upto(bs, n)
    BY <2>1 DEF T
  <2> QED BY <2>2, FieldsInOrder
<1>11. whole = bs
  BY <1>5, <1>10
<1> QED BY <1>11, Zenon DEF WithField, Comma, q

\* The bytes of a line are characters, as the messages and bodies are.
FixInv == line \in Seq(STRING)

LEMMA FixInvInit == FixInit => FixInv
  BY DEF FixInit, Init, FixInv

LEMMA FixInvNext == FixAssumption /\ FixInv /\ [FixNext]_fixVars => FixInv'
<1> SUFFICES ASSUME FixAssumption, FixInv, [FixNext]_fixVars PROVE line' \in Seq(STRING)
  BY DEF FixInv
<1> USE DEF FixInv
<1>1. CASE Receive
  BY <1>1 DEF Receive, Verify, FixAssumption
<1>2. CASE ReceiveOdd
  BY <1>2 DEF ReceiveOdd, Verify, FixAssumption
<1>3. CASE Dispatch
  BY <1>3 DEF Dispatch, reset_state
<1>4. CASE Restart
  BY <1>4 DEF Restart, nmea_init, reset_state
<1>5. CASE UNCHANGED fixVars
  BY <1>5 DEF fixVars, vars, parser
<1> QED BY <1>1, <1>2, <1>3, <1>4, <1>5, Zenon DEF FixNext

LEMMA FieldsSplit == FixAssumption /\ FixInv => FieldsAreSplit
<1> SUFFICES ASSUME FixAssumption, FixInv PROVE FieldsAreSplit
  OBVIOUS
<1> DEFINE n == Cardinality(Commas(line))
<1>1. line \in Seq(STRING) /\ NULL \notin Seq(STRING)
  BY Zenon DEF FixInv, FixAssumption
<1>2. n \in Nat
  BY <1>1, CommasCounted
<1>3. /\ \A k \in 0 .. n : field_at(line, k) \in Seq(STRING) /\ Comma \notin Range(field_at(line, k))
      /\ \A k \in Nat : k > n => field_at(line, k) = NULL
  BY <1>1, FieldsInOrder, Zenon
<1>4. n = Cardinality({i \in DOMAIN line : line[i] = ","})
  BY Zenon DEF Commas
<1> HIDE DEF n
<1>5. line = FoldLeft(LAMBDA s, k : s \o <<",">> \o field_at(line, k), field_at(line, 0), [k \in 1 .. n |-> k])
  BY <1>1, <1>2, FieldsRebuild, Zenon DEF n
<1>6. \A k \in 0 .. n : field_at(line, k) # NULL
  BY <1>1, <1>3, Zenon
<1>7. \A k \in n + 1 .. n + 2 : field_at(line, k) = NULL
  <2>1. \A k \in n + 1 .. n + 2 : k \in Nat /\ k > n
    BY <1>2
  <2> QED BY <1>3, <2>1, Zenon
<1> QED BY <1>3, <1>4, <1>5, <1>6, <1>7, Zenon DEF FieldsAreSplit, Comma

\* However a body is cut by commas, field_at finds each of its fields and
\* nothing past the last, and the fields make the body again (nmea.c:45-67).
THEOREM SplitTheorem == FixSpec => []FieldsAreSplit
<1>1. FixInit => FixInv
  BY FixInvInit
<1>2. FixInv /\ [FixNext]_fixVars => FixInv'
  BY FixInvNext, FixAssumption
<1>3. FixInv => FieldsAreSplit
  BY FieldsSplit, FixAssumption
<1> QED BY <1>1, <1>2, <1>3, PTL DEF FixSpec
-----------------------------------------------------------------------------
(* Digits, and the numbers that they are read as.                          *)

Figures   == Range(Digit)
Figure(c) == (CHOOSE k \in 1 .. 10 : Digit[k] = c) - 1

\* A digit is the character of its number, and neither a comma nor a point nor a sign.
LEMMA FigureRead ==
  /\ \A d \in 0 .. 9 : Digit[d + 1] \in Figures /\ Figure(Digit[d + 1]) = d
  /\ \A c \in Figures : /\ Figure(c) \in 0 .. 9 /\ Digit[Figure(c) + 1] = c
                        /\ c # "," /\ c # "." /\ c # "-" /\ c # "+" /\ c \notin Blank
<1>1. \A j, k \in 1 .. 10 : Digit[j] = Digit[k] <=> j = k
  BY DEF Digit
<1>2. DOMAIN Digit = 1 .. 10
  BY DEF Digit
<1>3. /\ \A k \in 1 .. 10 : Digit[k] # ","
      /\ \A k \in 1 .. 10 : Digit[k] # "."
      /\ \A k \in 1 .. 10 : Digit[k] # "-"
      /\ \A k \in 1 .. 10 : Digit[k] # "+"
      /\ \A k \in 1 .. 10 : Digit[k] \notin Blank
  BY DEF Digit, Blank
<1> HIDE DEF Digit
<1>4. \A c : c \in Figures <=> \E k \in 1 .. 10 : Digit[k] = c
  BY <1>2 DEF Figures, Range
<1>5. ASSUME NEW k \in 1 .. 10 PROVE Figure(Digit[k]) = k - 1
  BY <1>1 DEF Figure
<1>6. ASSUME NEW d \in 0 .. 9 PROVE Digit[d + 1] \in Figures /\ Figure(Digit[d + 1]) = d
  <2>1. d + 1 \in 1 .. 10 /\ (d + 1) - 1 = d
    OBVIOUS
  <2> QED BY <1>4, <1>5, <2>1
<1>7. ASSUME NEW c \in Figures
      PROVE  /\ Figure(c) \in 0 .. 9 /\ Digit[Figure(c) + 1] = c
             /\ c # "," /\ c # "." /\ c # "-" /\ c # "+" /\ c \notin Blank
  <2>1. PICK k \in 1 .. 10 : Digit[k] = c
    BY <1>4
  <2>2. Figure(c) = k - 1
    BY <1>5, <2>1
  <2>3. k - 1 \in 0 .. 9 /\ (k - 1) + 1 = k
    OBVIOUS
  <2> QED BY <1>3, <2>1, <2>2, <2>3, Zenon
<1> QED BY <1>6, <1>7, Zenon

\* The recursive function inside the fold over digits.
Counts(g, ds) == g = [s \in SUBSET DOMAIN ds |->
                        IF s = {} THEN 0 ELSE 10 * g[s \ {Max(s)}] + Figure(ds[Max(s)])]

\* A number is read digit by digit.
LEMMA ValueSteps ==
  ASSUME NEW n \in Nat, NEW ds, DOMAIN ds = 1 .. n, \A k \in 1 .. n : ds[k] \in Figures
  PROVE  \E v \in [0 .. n -> Nat] : /\ v[0] = 0 /\ v[n] = Value(ds)
                                    /\ \A k \in 1 .. n : v[k] = 10 * v[k - 1] + Figure(ds[k])
<1> DEFINE g0 == CHOOSE g : Counts(g, ds)
           w  == [k \in 1 .. n |-> Figure(ds[k])]
           F  == [k \in 1 .. n |-> [x \in Nat |-> 10 * x + w[k]]]
<1>1. Value(ds) = g0[1 .. n]
  <2>1. Value(ds) = FoldLeft(LAMBDA x, d : 10 * x + Figure(d), 0, ds)
    BY DEF Value, Figure
  <2>2. FoldLeft(LAMBDA x, d : 10 * x + Figure(d), 0, ds) = g0[DOMAIN ds]
    BY Zenon DEF FoldLeft, MapThenFoldSet, Counts
  <2> QED BY <2>1, <2>2, Zenon
<1>2. ASSUME NEW k \in 1 .. n PROVE w[k] \in Nat /\ w[k] = Figure(ds[k])
  <2>1. ds[k] \in Figures /\ w[k] = Figure(ds[k])
    OBVIOUS
  <2>2. Figure(ds[k]) \in 0 .. 9
    BY <2>1, FigureRead
  <2> QED BY <2>1, <2>2
<1> HIDE DEF w
<1>3. Keeps(F, 1 .. n, Nat) /\ \A k \in 1 .. n : \A x \in Nat : F[k][x] = 10 * x + w[k]
  BY <1>2 DEF Keeps
<1> HIDE DEF F
<1>4. PICK g \in [SUBSET (1 .. n) -> Nat] : FoldsLeft(g, n, F, 0)
  <2> DEFINE V == Nat
             b == 0
  <2>1. b \in V /\ Keeps(F, 1 .. n, V)
    BY <1>3
  <2> HIDE DEF V, b
  <2>2. \E g \in [SUBSET (1 .. n) -> V] : FoldsLeft(g, n, F, b)
    BY <2>1, FoldLeftExists
  <2> QED BY <2>2 DEF V, b
<1>5. \A s \in SUBSET (1 .. n) : s # {} => Max(s) \in 1 .. n /\ s \ {Max(s)} \in SUBSET (1 .. n)
  BY MaxIs
<1>6. Counts(g, ds)
  <2>1. \A s \in SUBSET (1 .. n) :
          g[s] = IF s = {} THEN 0 ELSE 10 * g[s \ {Max(s)}] + w[Max(s)]
    BY <1>3, <1>4, <1>5 DEF FoldsLeft
  <2>2. \A s \in SUBSET (1 .. n) : s # {} => w[Max(s)] = Figure(ds[Max(s)])
    BY <1>2, <1>5, Zenon
  <2>3. \A s \in SUBSET (1 .. n) :
          g[s] = IF s = {} THEN 0 ELSE 10 * g[s \ {Max(s)}] + Figure(ds[Max(s)])
    BY <2>1, <2>2, Zenon
  <2>4. g = [s \in SUBSET (1 .. n) |-> g[s]]
    OBVIOUS
  <2> QED BY <2>3, <2>4, Zenon DEF Counts
<1>7. Counts(g0, ds)
  BY <1>6, Zenon
<1> HIDE DEF g0
<1>8. g0[1 .. 0] = 0
  <2>1. 1 .. 0 = {} /\ {} \in SUBSET (1 .. n)
    OBVIOUS
  <2> QED BY <1>7, <2>1 DEF Counts
<1>9. ASSUME NEW k \in 1 .. n PROVE g0[1 .. k] = 10 * g0[1 .. k - 1] + w[k]
  <2>1. 1 .. k \in SUBSET (1 .. n)
    OBVIOUS
  <2>2. Max(1 .. k) = k /\ (1 .. k) \ {k} = 1 .. k - 1 /\ (1 .. k) # {}
    BY MaxIs
  <2>3. g0[1 .. k] = 10 * g0[1 .. k - 1] + Figure(ds[k])
    BY <1>7, <2>1, <2>2 DEF Counts
  <2> QED BY <1>2, <2>3, Zenon
\* Whatever counts so has naturals, by induction on the number of digits.
<1> DEFINE T == {k \in Nat : k <= n => g0[1 .. k] \in Nat}
<1>10. \A k \in Nat : k <= n => g0[1 .. k] \in Nat
  <2>1. 0 \in T
    BY <1>8
  <2>2. ASSUME NEW k \in Nat, k \in T PROVE k + 1 \in T
    <3> SUFFICES ASSUME k + 1 <= n PROVE g0[1 .. k + 1] \in Nat
      OBVIOUS
    <3>1. k + 1 \in 1 .. n /\ (k + 1) - 1 = k /\ g0[1 .. k] \in Nat
      BY <2>2
    <3>2. g0[1 .. k + 1] = 10 * g0[1 .. k] + w[k + 1] /\ w[k + 1] \in Nat
      BY <1>2, <1>9, <3>1
    <3> QED BY <3>1, <3>2
  <2> HIDE DEF T
  <2>3. Nat \subseteq T
    BY <2>1, <2>2, InductionOnSets
  <2> QED BY <2>3 DEF T
<1> DEFINE v == [k \in 0 .. n |-> g0[1 .. k]]
<1>11. v \in [0 .. n -> Nat] /\ v[0] = 0 /\ v[n] = Value(ds)
  BY <1>1, <1>8, <1>10
<1>12. ASSUME NEW k \in 1 .. n PROVE v[k] = 10 * v[k - 1] + Figure(ds[k])
  <2>1. k \in 0 .. n /\ k - 1 \in 0 .. n
    OBVIOUS
  <2>2. v[k] = g0[1 .. k] /\ v[k - 1] = g0[1 .. k - 1]
    BY <2>1
  <2> QED BY <1>2, <1>9, <2>2, Zenon
<1> HIDE DEF v
<1> QED BY <1>11, <1>12

\* Numerals of one, two, three and five digits.
LEMMA ValueOfFew ==
  ASSUME NEW n \in Nat, NEW ds, DOMAIN ds = 1 .. n, \A k \in 1 .. n : ds[k] \in Figures,
         NEW f, f = [k \in 1 .. n |-> Figure(ds[k])]
  PROVE  /\ f \in [1 .. n -> 0 .. 9]
         /\ n = 0 => Value(ds) = 0
         /\ n = 1 => Value(ds) = f[1]
         /\ n = 2 => Value(ds) = 10 * f[1] + f[2]
         /\ n = 3 => Value(ds) = 10 * (10 * f[1] + f[2]) + f[3]
         /\ n = 5 => Value(ds) = 10 * (10 * (10 * (10 * f[1] + f[2]) + f[3]) + f[4]) + f[5]
<1>1. PICK v \in [0 .. n -> Nat] : /\ v[0] = 0 /\ v[n] = Value(ds)
                                   /\ \A k \in 1 .. n : v[k] = 10 * v[k - 1] + Figure(ds[k])
  BY ValueSteps
<1>2. \A k \in 1 .. n : f[k] \in 0 .. 9 /\ v[k] = 10 * v[k - 1] + f[k]
  BY <1>1, FigureRead
<1>3. \A k \in 1 .. n : f[k] \in 0 .. 9
  BY <1>2
<1>4. n >= 1 => v[1] = f[1]
  <2> SUFFICES ASSUME n >= 1 PROVE v[1] = f[1]
    OBVIOUS
  <2>1. 1 \in 1 .. n /\ v[1 - 1] = 0
    BY <1>1
  <2>2. f[1] \in 0 .. 9 /\ v[1] = 10 * v[1 - 1] + f[1]
    BY <1>2, <2>1
  <2> QED BY <2>1, <2>2
<1>5. n >= 2 => v[2] = 10 * v[1] + f[2]
  BY <1>2
<1>6. n >= 3 => v[3] = 10 * v[2] + f[3]
  BY <1>2
<1>7. n >= 5 => v[4] = 10 * v[3] + f[4] /\ v[5] = 10 * v[4] + f[5]
  BY <1>2, SMTT(40)
<1>8. f \in [1 .. n -> 0 .. 9]
  BY <1>3
<1>9. /\ n = 0 => Value(ds) = 0
      /\ n = 1 => Value(ds) = f[1]
      /\ n = 2 => Value(ds) = 10 * f[1] + f[2]
      /\ n = 3 => Value(ds) = 10 * (10 * f[1] + f[2]) + f[3]
  BY <1>1, <1>4, <1>5, <1>6, SMTT(40)
<1>10. n = 5 => Value(ds) = 10 * (10 * (10 * (10 * f[1] + f[2]) + f[3]) + f[4]) + f[5]
  <2> SUFFICES ASSUME n = 5 PROVE v[5] = 10 * (10 * (10 * (10 * f[1] + f[2]) + f[3]) + f[4]) + f[5]
    BY <1>1
  <2>1. v[1] = f[1] /\ v[2] = 10 * f[1] + f[2]
    BY <1>4, <1>5
  <2>2. v[3] = 10 * (10 * f[1] + f[2]) + f[3]
    BY <1>6, <2>1
  <2>3. v[4] = 10 * (10 * (10 * f[1] + f[2]) + f[3]) + f[4]
    BY <1>7, <2>2
  <2> QED BY <1>7, <2>3
<1> QED BY <1>8, <1>9, <1>10

\* Dividing by ten takes the last digit off.
LEMMA DivideByTen ==
  /\ \A n \in Nat : n \div 10 \in Nat /\ n % 10 \in 0 .. 9 /\ n = 10 * (n \div 10) + (n % 10)
  /\ \A n \in Nat : n \div 100 = (n \div 10) \div 10
  /\ \A n \in Nat : n \div 1000 = (n \div 100) \div 10
  /\ \A n \in Nat : n \div 10000 = (n \div 1000) \div 10
  OBVIOUS

\* The digits of a number, each from its power of ten.
Power == <<1, 10, 100, 1000, 10000>>

LEMMA DigitAt ==
  ASSUME NEW n \in Nat, NEW w \in 1 .. 5
  PROVE  /\ DOMAIN Digits(n, w) = 1 .. w /\ Digits(n, w) \in Seq(Figures) /\ Len(Digits(n, w)) = w
         /\ \A k \in 1 .. w : /\ Digits(n, w)[k] \in Figures
                              /\ Figure(Digits(n, w)[k]) = (n \div Power[w - k + 1]) % 10
<1> DEFINE d(k) == (n \div Power[w - k + 1]) % 10
<1>2. ASSUME NEW e \in 0 .. 4 PROVE 10^e = Power[e + 1] /\ Power[e + 1] \in Nat \ {0}
  <2>1. e = 0 \/ e = 1 \/ e = 2 \/ e = 3 \/ e = 4
    OBVIOUS
  <2>2. Power[1] = 1 /\ Power[2] = 10 /\ Power[3] = 100 /\ Power[4] = 1000 /\ Power[5] = 10000
    BY DEF Power
  <2> HIDE DEF Power
  <2>4. 10^e = Power[e + 1]
    <3>1. CASE e = 0 BY <2>2, <3>1, SMT
    <3>2. CASE e = 1 BY <2>2, <3>2, SMT
    <3>3. CASE e = 2 BY <2>2, <3>3, SMT
    <3>4. CASE e = 3 BY <2>2, <3>4, SMT
    <3>5. CASE e = 4 BY <2>2, <3>5, SMT
    <3> QED BY <2>1, <3>1, <3>2, <3>3, <3>4, <3>5, Zenon
  <2>5. Power[e + 1] \in Nat \ {0}
    BY <2>1, <2>2
  <2> QED BY <2>4, <2>5
<1> HIDE DEF Power
<1>3. ASSUME NEW k \in 1 .. w
      PROVE  d(k) \in 0 .. 9 /\ Digits(n, w)[k] = Digit[d(k) + 1]
  <2>1. w - k \in 0 .. 4
    OBVIOUS
  <2>2. 10^(w - k) = Power[w - k + 1] /\ Power[w - k + 1] \in Nat \ {0}
    BY <1>2, <2>1
  <2>3. d(k) \in 0 .. 9
    BY <2>2
  <2>4. Digits(n, w)[k] = Digit[((n \div 10^(w - k)) % 10) + 1]
    BY Zenon DEF Digits
  <2> QED BY <2>2, <2>3, <2>4, Zenon
<1> HIDE DEF d
<1>4. ASSUME NEW k \in 1 .. w
      PROVE  Digits(n, w)[k] \in Figures /\ Figure(Digits(n, w)[k]) = d(k)
  BY <1>3, FigureRead
<1>5. Digits(n, w) = [k \in 1 .. w |-> Digits(n, w)[k]]
  BY DEF Digits
<1> QED BY <1>4, <1>5 DEF d

\* A number is read back from its digits, when they are enough.
LEMMA DigitsRead ==
  ASSUME NEW n \in Nat
  PROVE  /\ n < 10    => Value(Digits(n, 1)) = n
         /\ n < 100   => Value(Digits(n, 2)) = n
         /\ n < 1000  => Value(Digits(n, 3)) = n
         /\ n < 100000 => Value(Digits(n, 5)) = n
<1> DEFINE a == n \div 10
           b == n \div 100
           c == n \div 1000
           d == n \div 10000
           f(w) == [k \in 1 .. w |-> Figure(Digits(n, w)[k])]
<1>1. Power[1] = 1 /\ Power[2] = 10 /\ Power[3] = 100 /\ Power[4] = 1000 /\ Power[5] = 10000
  BY DEF Power
<1>2. n \div 1 = n
  OBVIOUS
<1>3. /\ a \in Nat /\ b \in Nat /\ c \in Nat /\ d \in Nat
      /\ n = 10 * a + (n % 10) /\ a = 10 * b + (a % 10) /\ b = 10 * c + (b % 10) /\ c = 10 * d + (c % 10)
      /\ n % 10 \in 0 .. 9 /\ a % 10 \in 0 .. 9 /\ b % 10 \in 0 .. 9 /\ c % 10 \in 0 .. 9
  BY DivideByTen
<1>4. \A w \in 1 .. 5 : \A k \in 1 .. w : f(w)[k] = (n \div Power[w - k + 1]) % 10
  BY DigitAt
<1> HIDE DEF Power, a, b, c, d, f
<1>5. f(1)[1] = n % 10 /\ f(2)[1] = a % 10 /\ f(2)[2] = n % 10
  BY <1>1, <1>2, <1>4 DEF a
<1>6. f(3)[1] = b % 10 /\ f(3)[2] = a % 10 /\ f(3)[3] = n % 10
  BY <1>1, <1>2, <1>4 DEF a, b
<1>7. f(5)[1] = d % 10 /\ f(5)[2] = c % 10 /\ f(5)[3] = b % 10 /\ f(5)[4] = a % 10 /\ f(5)[5] = n % 10
  BY <1>1, <1>2, <1>4 DEF a, b, c, d
<1>8. /\ Value(Digits(n, 1)) = f(1)[1]
      /\ Value(Digits(n, 2)) = 10 * f(2)[1] + f(2)[2]
      /\ Value(Digits(n, 3)) = 10 * (10 * f(3)[1] + f(3)[2]) + f(3)[3]
      /\ Value(Digits(n, 5)) = 10 * (10 * (10 * (10 * f(5)[1] + f(5)[2]) + f(5)[3]) + f(5)[4]) + f(5)[5]
  <2>1. ASSUME NEW w \in 1 .. 5
        PROVE  DOMAIN Digits(n, w) = 1 .. w /\ \A k \in 1 .. w : Digits(n, w)[k] \in Figures
    BY DigitAt
  <2> USE DEF f
  <2>2. 1 \in 1 .. 5 /\ 2 \in 1 .. 5 /\ 3 \in 1 .. 5 /\ 5 \in 1 .. 5 /\ 1 \in Nat /\ 2 \in Nat /\ 3 \in Nat /\ 5 \in Nat
    OBVIOUS
  <2>3. Value(Digits(n, 1)) = f(1)[1]
    BY <2>1, <2>2, ValueOfFew, Zenon
  <2>4. Value(Digits(n, 2)) = 10 * f(2)[1] + f(2)[2]
    BY <2>1, <2>2, ValueOfFew, Zenon
  <2>5. Value(Digits(n, 3)) = 10 * (10 * f(3)[1] + f(3)[2]) + f(3)[3]
    BY <2>1, <2>2, ValueOfFew, Zenon
  <2>6. Value(Digits(n, 5)) = 10 * (10 * (10 * (10 * f(5)[1] + f(5)[2]) + f(5)[3]) + f(5)[4]) + f(5)[5]
    BY <2>1, <2>2, ValueOfFew, Zenon
  <2> QED BY <2>3, <2>4, <2>5, <2>6
<1>9. n < 10 => n % 10 = n
  OBVIOUS
<1>10. n < 100 => a % 10 = a
  BY <1>3 DEF a
<1>11. n < 1000 => b % 10 = b
  BY <1>3 DEF b
<1>12. n < 100000 => d % 10 = d
  BY <1>3 DEF d
<1>13. n < 10 => Value(Digits(n, 1)) = n
  BY <1>5, <1>8, <1>9
<1>14. n < 100 => Value(Digits(n, 2)) = n
  BY <1>3, <1>5, <1>8, <1>10
<1>15. n < 1000 => Value(Digits(n, 3)) = n
  BY <1>3, <1>6, <1>8, <1>11
<1>16. n < 100000 => Value(Digits(n, 5)) = n
  BY <1>3, <1>7, <1>8, <1>12
<1> QED BY <1>13, <1>14, <1>15, <1>16

\* Where the digits that a text begins with end, and what follows them.
LEMMA LeadingRead ==
  ASSUME NEW S, NEW ds \in Seq(Figures), ds \in Seq(S), NEW rest \in Seq(S),
         rest = <<>> \/ rest[1] \notin Figures
  PROVE  /\ Leading(ds \o rest) = ds
         /\ After(ds \o rest, Len(ds)) = rest
<1> DEFINE s == ds \o rest
           n == Len(ds)
           K == {k \in 0 .. Len(s) : \A j \in 1 .. k : s[j] \in Figures}
<1>1. s \in Seq(S) /\ n \in Nat /\ Len(rest) \in Nat /\ Len(s) = n + Len(rest)
  OBVIOUS
<1>2. \A j \in 1 .. n : s[j] = ds[j] /\ s[j] \in Figures
  OBVIOUS
<1>3. rest # <<>> => s[n + 1] = rest[1] /\ n + 1 \in 1 .. Len(s)
  OBVIOUS
<1>4. rest = <<>> => Len(s) = n
  OBVIOUS
<1>5. SubSeq(s, 1, n) = ds /\ SubSeq(s, n + 1, Len(s)) = rest
  OBVIOUS
<1>6. Leading(s) = SubSeq(s, 1, Max(K))
  BY Zenon DEF Leading, Figures
<1> HIDE DEF s, n
<1>7. n \in K
  BY <1>1, <1>2
<1>8. \A k \in K : k \in Nat /\ n >= k
  <2> SUFFICES ASSUME NEW k \in K, n < k PROVE FALSE
    BY <1>1
  <2>1. k \in 0 .. Len(s) /\ \A j \in 1 .. k : s[j] \in Figures
    OBVIOUS
  <2>2. n + 1 \in 1 .. k /\ rest # <<>>
    BY <1>1, <1>4, <2>1
  <2> QED BY <1>3, <2>1, <2>2
<1> HIDE DEF K
<1>9. Max(K) = n
  <2>1. Max(K) \in K /\ \A y \in K : Max(K) >= y
    BY <1>7, <1>8 DEF Max
  <2> HIDE DEF Max
  <2>2. Max(K) \in Nat /\ Max(K) >= n /\ n >= Max(K)
    BY <1>7, <1>8, <2>1
  <2> QED BY <1>1, <2>2
<1> QED BY <1>5, <1>6, <1>9 DEF s, n, After

\* The characters that numbers are written with; none of them is a comma.
Chars == Figures \cup {".", "-"}

LEMMA CharsAreNoCommas == "," \notin Chars /\ "." \in Chars /\ "-" \in Chars /\ Figures \subseteq Chars
                            /\ "." \notin Figures /\ "-" \notin Figures
<1>1. "," \notin Figures /\ "." \notin Figures /\ "-" \notin Figures
  BY FigureRead, Zenon
<1>2. "," # "." /\ "," # "-"
  OBVIOUS
<1> QED BY <1>1, <1>2, Zenon DEF Chars

\* A text of these characters has no white space before it.
LEMMA TrimmedRead ==
  ASSUME NEW s \in Seq(Chars)
  PROVE  Trimmed(s) = s
<1> DEFINE K == {k \in 0 .. Len(s) : \A j \in 1 .. k : s[j] \in Blank}
           blanks == Blank
<1>1. \A c \in Chars : c \notin blanks
  <2>1. "." \notin blanks /\ "-" \notin blanks
    BY DEF Blank
  <2> QED BY <2>1, FigureRead, Zenon DEF Chars
<1> HIDE DEF blanks
<1>2. K = {0}
  <2>1. K = {k \in 0 .. Len(s) : \A j \in 1 .. k : s[j] \in blanks}
    BY DEF blanks
  <2>2. ASSUME NEW k \in 0 .. Len(s), k # 0 PROVE 1 \in 1 .. k /\ s[1] \in Chars
    BY <2>2
  <2>3. \A k \in 0 .. Len(s) : (\A j \in 1 .. k : s[j] \in blanks) <=> k = 0
    BY <1>1, <2>2
  <2> QED BY <2>1, <2>3
<1>3. Max({0}) = 0
  BY DEF Max
<1>4. Trimmed(s) = After(s, Max(K))
  BY Zenon DEF Trimmed
<1>5. After(s, 0) = s
  BY DEF After
<1> QED BY <1>2, <1>3, <1>4, <1>5, Zenon

\* A text that begins with a digit, or is empty, has no sign.
LEMMA SignlessRead ==
  ASSUME NEW s \in Seq(Chars), s # <<>> => s[1] \in Figures
  PROVE  strtod(s) = Decimal(s) /\ atoi(s) = Value(Leading(s))
<1>1. Trimmed(s) = s
  BY TrimmedRead
<1>2. "+" \notin Figures /\ "-" \notin Figures
  BY FigureRead, Zenon
<1>3. ~Negated(s) /\ Unsigned(s) = s
  BY <1>2, Zenon DEF Negated, Unsigned
<1> QED BY <1>1, <1>3, Zenon DEF strtod, atoi

\* A minus before a text.
LEMMA MinusRead ==
  ASSUME NEW s \in Seq(Chars), s # <<>>, s[1] = "-"
  PROVE  strtod(s) = -Decimal(After(s, 1))
<1>1. Trimmed(s) = s
  BY TrimmedRead
<1>2. Negated(s) /\ Unsigned(s) = After(s, 1)
  BY Zenon DEF Negated, Unsigned
<1> QED BY <1>1, <1>2, Zenon DEF strtod

\* A point, and one digit or five, are tenths or hundred thousandths.
LEMMA FractionRead ==
  ASSUME NEW fs \in Seq(Figures)
  PROVE  /\ Len(fs) = 1 => Fraction(<<".">> \o fs) = (Scale \div 10) * Value(fs)
         /\ Len(fs) = 5 => Fraction(<<".">> \o fs) = Value(fs)
<1> DEFINE dot == "."
           zero == "0"
           s == <<dot>> \o fs
           g(k) == IF k <= Len(fs) THEN fs[k] ELSE zero
           ds == [k \in 1 .. 5 |-> g(k)]
<1>0. dot \in Chars /\ Figures \subseteq Chars
  BY CharsAreNoCommas, Zenon
<1>1. dot \in Chars /\ fs \in Seq(Chars) /\ zero \in Figures /\ Figure(zero) = 0
  <2>1. zero = Digit[0 + 1]
    BY DEF Digit
  <2>2. 0 \in 0 .. 9
    OBVIOUS
  <2>3. zero \in Figures /\ Figure(zero) = 0
    BY <2>1, <2>2, FigureRead, Zenon
  <2>4. fs \in Seq(Chars)
    BY <1>0
  <2> QED BY <1>0, <2>3, <2>4, Zenon
<1>2. Fraction(s) = Value([k \in 1 .. 5 |-> IF k <= Len(Leading(After(s, 1))) THEN Leading(After(s, 1))[k] ELSE zero])
  <2>1. s # <<>> /\ s[1] = dot
    <3> HIDE DEF dot
    <3> QED BY <1>1
  <2> QED BY <2>1, Zenon DEF Fraction
<1> HIDE DEF dot, zero
<1>3. Leading(After(s, 1)) = fs
  <2>1. After(s, 1) = fs
    BY <1>1 DEF After
  <2>2. fs \o <<>> = fs
    OBVIOUS
  <2>3. Leading(fs \o <<>>) = fs
    <3>1. <<>> \in Seq(Chars) /\ fs \in Seq(Chars) /\ (<<>> = <<>> \/ <<>>[1] \notin Figures)
      BY <1>1
    <3> QED BY <3>1, LeadingRead
  <2> QED BY <2>1, <2>2, <2>3, Zenon
<1>4. Fraction(s) = Value(ds)
  BY <1>2, <1>3, Zenon
<1>5. ASSUME Len(fs) = 5 PROVE Fraction(s) = Value(fs)
  <2>1. ds = fs
    BY <1>5
  <2> QED BY <1>4, <2>1, Zenon
<1>6. ASSUME Len(fs) = 1 PROVE Fraction(s) = (Scale \div 10) * Value(fs)
  <2> DEFINE f == [k \in 1 .. 5 |-> Figure(ds[k])]
             h == [k \in 1 .. 1 |-> Figure(fs[k])]
  <2>1. DOMAIN ds = 1 .. 5 /\ \A k \in 1 .. 5 : ds[k] \in Figures
    BY <1>1, <1>6
  <2>2. Value(ds) = 10 * (10 * (10 * (10 * f[1] + f[2]) + f[3]) + f[4]) + f[5] /\ f \in [1 .. 5 -> 0 .. 9]
    <3> DEFINE five == 5
    <3>1. five \in Nat
      OBVIOUS
    <3> HIDE DEF ds
    <3> QED BY <2>1, ValueOfFew
  <2>3. DOMAIN fs = 1 .. 1 /\ \A k \in 1 .. 1 : fs[k] \in Figures
    BY <1>6
  <2>4. Value(fs) = h[1]
    BY <2>3, ValueOfFew
  <2>5. f[1] = h[1] /\ f[2] = 0 /\ f[3] = 0 /\ f[4] = 0 /\ f[5] = 0
    BY <1>1, <1>6
  <2> HIDE DEF f, h
  <2>6. f[1] \in 0 .. 9
    BY <2>2
  <2> QED BY <1>4, <2>2, <2>4, <2>5, <2>6, SMTT(40) DEF Scale
<1> QED BY <1>5, <1>6 DEF dot

\* Zeros before a number change nothing.
LEMMA ZerosRead ==
  ASSUME NEW p \in Nat, NEW ds \in Seq(Figures)
  PROVE  /\ Zeros(p) \o ds \in Seq(Figures) /\ Len(Zeros(p) \o ds) = p + Len(ds)
         /\ Value(Zeros(p) \o ds) = Value(ds)
<1> DEFINE zero == "0"
           zs == Zeros(p)
           n  == Len(ds)
           s  == zs \o ds
<1>1. zero \in Figures /\ Figure(zero) = 0
  <2>1. zero = Digit[0 + 1]
    BY DEF Digit
  <2>2. 0 \in 0 .. 9
    OBVIOUS
  <2> QED BY <2>1, <2>2, FigureRead, Zenon
<1>2. zs = [k \in 1 .. p |-> zero]
  BY Zenon DEF Zeros
<1> HIDE DEF zero, zs
<1>3. zs \in Seq(Figures) /\ Len(zs) = p /\ \A k \in 1 .. p : zs[k] = zero
  BY <1>1, <1>2
<1>4. /\ s \in Seq(Figures) /\ n \in Nat /\ Len(s) = p + n
      /\ \A k \in 1 .. p : s[k] = zero
      /\ \A k \in 1 .. n : s[p + k] = ds[k]
  BY <1>3
<1>5. PICK v \in [0 .. p + n -> Nat] : /\ v[0] = 0 /\ v[p + n] = Value(s)
                                       /\ \A k \in 1 .. p + n : v[k] = 10 * v[k - 1] + Figure(s[k])
  <2>1. p + n \in Nat /\ DOMAIN s = 1 .. p + n /\ \A k \in 1 .. p + n : s[k] \in Figures
    BY <1>4
  <2> HIDE DEF s, n
  <2> QED BY <2>1, ValueSteps
<1>6. PICK u \in [0 .. n -> Nat] : /\ u[0] = 0 /\ u[n] = Value(ds)
                                   /\ \A k \in 1 .. n : u[k] = 10 * u[k - 1] + Figure(ds[k])
  <2>1. n \in Nat /\ DOMAIN ds = 1 .. n /\ \A k \in 1 .. n : ds[k] \in Figures
    OBVIOUS
  <2> HIDE DEF n
  <2> QED BY <2>1, ValueSteps
<1> HIDE DEF s, n
<1>7. v[p] = 0
  <2> DEFINE T == {k \in Nat : k <= p => v[k] = 0}
  <2>1. 0 \in T
    BY <1>5
  <2>2. ASSUME NEW k \in Nat, k \in T PROVE k + 1 \in T
    <3> SUFFICES ASSUME k + 1 <= p PROVE v[k + 1] = 0
      OBVIOUS
    <3>1. k + 1 \in 1 .. p /\ k + 1 \in 1 .. p + n /\ (k + 1) - 1 = k /\ v[k] = 0
      BY <1>4, <2>2
    <3>2. Figure(s[k + 1]) = 0
      BY <1>1, <1>4, <3>1
    <3>3. v[k + 1] = 10 * v[k] + Figure(s[k + 1])
      BY <1>5, <3>1
    <3> QED BY <3>1, <3>2, <3>3
  <2> HIDE DEF T
  <2>3. p \in T
    BY <2>1, <2>2, InductionOnSets
  <2> QED BY <2>3 DEF T
<1>8. v[p + n] = u[n]
  <2> DEFINE T == {k \in Nat : k <= n => v[p + k] = u[k]}
  <2>1. 0 \in T
    BY <1>6, <1>7
  <2>2. ASSUME NEW k \in Nat, k \in T PROVE k + 1 \in T
    <3> SUFFICES ASSUME k + 1 <= n PROVE v[p + (k + 1)] = u[k + 1]
      OBVIOUS
    <3>1. /\ k + 1 \in 1 .. n /\ p + (k + 1) \in 1 .. p + n /\ (k + 1) - 1 = k
          /\ (p + (k + 1)) - 1 = p + k /\ v[p + k] = u[k]
      BY <1>4, <2>2
    <3>2. s[p + (k + 1)] = ds[k + 1]
      BY <1>4, <3>1
    <3>3. v[p + (k + 1)] = 10 * v[p + k] + Figure(s[p + (k + 1)])
      BY <1>5, <3>1
    <3>4. u[k + 1] = 10 * u[k] + Figure(ds[k + 1])
      BY <1>6, <3>1
    <3> QED BY <3>1, <3>2, <3>3, <3>4
  <2> HIDE DEF T
  <2>3. n \in T
    BY <1>4, <2>1, <2>2, InductionOnSets
  <2>4. n <= n
    BY <1>4
  <2> QED BY <2>3, <2>4 DEF T
<1> QED BY <1>4, <1>5, <1>6, <1>8 DEF s, n, zs

\* A point between digits: what is before it and after it.
LEMMA DecimalRead ==
  ASSUME NEW ds \in Seq(Figures), NEW fs \in Seq(Figures), Len(fs) \in {1, 5}
  PROVE  /\ ds \o <<".">> \o fs \in Seq(Chars) /\ Len(ds \o <<".">> \o fs) = Len(ds) + 1 + Len(fs)
         /\ Decimal(ds \o <<".">> \o fs) = Scale * Value(ds) + (IF Len(fs) = 5 THEN 1 ELSE Scale \div 10) * Value(fs)
         /\ Len(ds) # 0 => strtod(ds \o <<".">> \o fs) = Decimal(ds \o <<".">> \o fs)
<1> DEFINE dot == "."
           rest == <<dot>> \o fs
           s == ds \o <<dot>> \o fs
<1>1. Figures \subseteq Chars /\ dot \in Chars /\ dot \notin Figures
  BY CharsAreNoCommas, Zenon
<1>2. /\ Len(fs) = 1 => Fraction(rest) = (Scale \div 10) * Value(fs)
      /\ Len(fs) = 5 => Fraction(rest) = Value(fs)
  BY FractionRead
<1> HIDE DEF dot
<1>5. ds \in Seq(Chars) /\ fs \in Seq(Chars) /\ rest \in Seq(Chars) /\ rest[1] = dot /\ s = ds \o rest
  BY <1>1
<1>6. s \in Seq(Chars) /\ Len(s) = Len(ds) + 1 + Len(fs)
  BY <1>1
<1>7. Leading(s) = ds /\ After(s, Len(ds)) = rest
  <2> HIDE DEF s, rest
  <2> QED BY <1>1, <1>5, LeadingRead
<1>8. Decimal(s) = Scale * Value(ds) + Fraction(rest)
  BY <1>7, Zenon DEF Decimal
<1>9. Len(ds) # 0 => s[1] \in Figures /\ s # <<>>
  BY <1>5, <1>6
<1>10. Len(ds) # 0 => strtod(s) = Decimal(s)
  BY <1>6, <1>9, SignlessRead, Zenon
<1>11. Value(fs) \in Nat
  <2>1. DOMAIN fs = 1 .. Len(fs) /\ Len(fs) \in Nat /\ \A k \in 1 .. Len(fs) : fs[k] \in Figures
    OBVIOUS
  <2>2. \E v \in [0 .. Len(fs) -> Nat] : v[Len(fs)] = Value(fs)
    BY <2>1, ValueSteps, Zenon
  <2>3. Len(fs) \in 0 .. Len(fs)
    BY <2>1
  <2> QED BY <2>2, <2>3
<1>12. Fraction(rest) = (IF Len(fs) = 5 THEN 1 ELSE Scale \div 10) * Value(fs)
  <2> HIDE DEF rest
  <2> QED BY <1>2, <1>11 DEF Scale
<1>13. Decimal(s) = Scale * Value(ds) + (IF Len(fs) = 5 THEN 1 ELSE Scale \div 10) * Value(fs)
  <2> HIDE DEF s, rest
  <2> QED BY <1>8, <1>12
<1> HIDE DEF s
<1>14. s = ds \o <<".">> \o fs
  BY DEF s, dot
<1> QED BY <1>6, <1>10, <1>13, <1>14, Zenon

\* Each width that the messages have.
LEMMA DigitsOf ==
  ASSUME NEW n \in Nat
  PROVE  /\ Digits(n, 1) \in Seq(Figures) /\ Len(Digits(n, 1)) = 1
         /\ Digits(n, 2) \in Seq(Figures) /\ Len(Digits(n, 2)) = 2
         /\ Digits(n, 3) \in Seq(Figures) /\ Len(Digits(n, 3)) = 3
         /\ Digits(n, 5) \in Seq(Figures) /\ Len(Digits(n, 5)) = 5
<1>1. 1 \in 1 .. 5 /\ 2 \in 1 .. 5 /\ 3 \in 1 .. 5 /\ 5 \in 1 .. 5
  OBVIOUS
<1> QED BY <1>1, DigitAt, Zenon

\* A text of digits alone, and the empty text.
LEMMA NumeralRead ==
  ASSUME NEW ds \in Seq(Figures)
  PROVE  /\ Leading(ds) = ds /\ After(ds, Len(ds)) = <<>>
         /\ atoi(ds) = Value(ds)
<1> DEFINE none == <<>>
<1>1. none \in Seq(Figures) /\ ds \o none = ds
  OBVIOUS
<1>2. Leading(ds \o none) = ds /\ After(ds \o none, Len(ds)) = none
  <2> HIDE DEF none
  <2>1. none = <<>>
    BY DEF none
  <2> QED BY <1>1, <2>1, LeadingRead
<1>3. ds \in Seq(Chars) /\ (ds # none => ds[1] \in Figures)
  <2>1. Figures \subseteq Chars
    BY CharsAreNoCommas, Zenon
  <2>2. ds \in Seq(Chars)
    BY <2>1
  <2>3. ds # none => ds[1] \in Figures
    OBVIOUS
  <2> QED BY <2>2, <2>3
<1>4. Leading(ds) = ds
  BY <1>1, <1>2, Zenon
<1>5. atoi(ds) = Value(ds)
  BY <1>3, <1>4, SignlessRead, Zenon
<1> QED BY <1>1, <1>2, <1>4, <1>5, Zenon

LEMMA NothingRead == strtod(<<>>) = 0
<1> DEFINE none == <<>>
           zero == "0"
<1>1. none \in Seq(Figures) /\ Len(none) = 0 /\ DOMAIN none = 1 .. 0
  OBVIOUS
<1>2. Leading(none) = none /\ After(none, Len(none)) = none
  BY <1>1, NumeralRead
<1>3. none \in Seq(Chars)
  OBVIOUS
<1>4. zero \in Figures /\ Figure(zero) = 0
  <2>1. zero = Digit[0 + 1]
    BY DEF Digit
  <2>2. 0 \in 0 .. 9
    OBVIOUS
  <2> QED BY <2>1, <2>2, FigureRead, Zenon
<1>5. Fraction(none) = Value([k \in 1 .. 5 |-> IF k <= Len(none) THEN none[k] ELSE zero])
  BY Zenon DEF Fraction
<1> HIDE DEF none, zero
<1>6. Value(none) = 0
  <2>1. 0 \in Nat
    OBVIOUS
  <2>2. \A k \in 1 .. 0 : none[k] \in Figures
    OBVIOUS
  <2> QED BY <1>1, <2>1, <2>2, ValueOfFew
<1>7. Fraction(none) = 0
  <2> DEFINE ds == [k \in 1 .. 5 |-> IF k <= Len(none) THEN none[k] ELSE zero]
             f  == [k \in 1 .. 5 |-> Figure(ds[k])]
  <2>1. \A k \in 1 .. 5 : ds[k] = zero
    BY <1>1
  <2>2. DOMAIN ds = 1 .. 5
    OBVIOUS
  <2> HIDE DEF ds
  <2>3. \A k \in 1 .. 5 : ds[k] \in Figures
    BY <1>4, <2>1
  <2>4. Value(ds) = 10 * (10 * (10 * (10 * f[1] + f[2]) + f[3]) + f[4]) + f[5]
    BY <2>2, <2>3, ValueOfFew
  <2>5. f[1] = 0 /\ f[2] = 0 /\ f[3] = 0 /\ f[4] = 0 /\ f[5] = 0
    BY <1>4, <2>1
  <2> HIDE DEF f
  <2>6. Value(ds) = 0
    BY <2>4, <2>5
  <2> QED BY <1>5, <2>6 DEF ds
<1>8. Decimal(none) = Scale * Value(Leading(none)) + Fraction(After(none, Len(Leading(none))))
  BY Zenon DEF Decimal
<1>9. Decimal(none) = 0
  BY <1>2, <1>6, <1>7, <1>8 DEF Scale
<1>10. strtod(none) = 0
  <2>1. none # <<>> => none[1] \in Figures
    BY DEF none
  <2> QED BY <1>3, <1>9, <2>1, SignlessRead, Zenon
<1> QED BY <1>10 DEF none

\* Digits, a point and one digit are so many tenths.
LEMMA PlainRead ==
  ASSUME NEW x \in Seq(Figures), Len(x) # 0, NEW y \in Seq(Figures), Len(y) = 1,
         NEW q \in Nat, Value(x) = q, NEW r \in Nat, Value(y) = r
  PROVE  /\ x \o <<".">> \o y \in Seq(Chars) /\ Len(x \o <<".">> \o y) = Len(x) + 1 + Len(y)
         /\ strtod(x \o <<".">> \o y) = Exact(10 * q + r) /\ Decimal(x \o <<".">> \o y) = Exact(10 * q + r)
<1> DEFINE s == x \o <<".">> \o y
<1>1. Len(y) \in {1, 5} /\ Len(y) # 5
  OBVIOUS
<1>2. /\ s \in Seq(Chars) /\ Len(s) = Len(x) + 1 + Len(y)
      /\ Decimal(s) = Scale * Value(x) + (IF Len(y) = 5 THEN 1 ELSE Scale \div 10) * Value(y)
      /\ strtod(s) = Decimal(s)
  BY <1>1, DecimalRead, Zenon
<1> HIDE DEF s
<1>3. Decimal(s) = Scale * q + (Scale \div 10) * r
  BY <1>1, <1>2
<1>4. Decimal(s) = Exact(10 * q + r)
  BY <1>3 DEF Exact, Scale
<1> QED BY <1>2, <1>4 DEF s

\* Whole and tenths of a number.
Whole(n) == Abs(n) \div 10
Tenth(n) == Abs(n) % 10

\* Numbers of up to three digits and a tenth.
Written == Within(9999)

LEMMA WithinIs ==
  ASSUME NEW r \in Nat
  PROVE  /\ \A n \in Within(r) : n \in Int /\ Abs(n) \in Nat /\ Abs(n) <= r
         /\ \A n \in 0 .. r : n \in Within(r) /\ n >= 0
  BY DEF Within, Abs

LEMMA WrittenIs == \A n \in Written : n \in Int /\ Abs(n) \in Nat /\ Abs(n) < 10000
<1> DEFINE r == 9999
<1>1. r \in Nat
  OBVIOUS
<1> HIDE DEF r
<1>2. \A n \in Within(r) : n \in Int /\ Abs(n) \in Nat /\ Abs(n) <= r
  BY <1>1, WithinIs
<1>3. \A n : n \in Nat /\ n <= r => n < 10000
  BY SMT DEF r
<1>4. Written = Within(r)
  BY SMT DEF Written, r
<1> QED BY <1>2, <1>3, <1>4

LEMMA FourDigitsAreWritten == \A n \in FourDigits : n \in Written /\ n >= 0
<1> DEFINE r == 9999
<1>1. r \in Nat
  OBVIOUS
<1> HIDE DEF r
<1>2. \A n \in 0 .. r : n \in Within(r) /\ n >= 0
  BY <1>1, WithinIs
<1>3. Written = Within(r) /\ FourDigits = 0 .. r
  BY SMTT(40) DEF Written, FourDigits, r
<1> QED BY <1>2, <1>3, SMTT(40)

LEMMA WholeAndTenth ==
  ASSUME NEW n \in Written
  PROVE  /\ Whole(n) \in Nat /\ Tenth(n) \in Nat /\ Abs(n) = 10 * Whole(n) + Tenth(n)
         /\ Digits(Whole(n), 3) \in Seq(Figures) /\ Len(Digits(Whole(n), 3)) = 3
         /\ Digits(Tenth(n), 1) \in Seq(Figures) /\ Len(Digits(Tenth(n), 1)) = 1
         /\ Value(Digits(Whole(n), 3)) = Whole(n) /\ Value(Digits(Tenth(n), 1)) = Tenth(n)
<1>1. Abs(n) \in Nat /\ Abs(n) < 10000
  BY WrittenIs, SMT
<1>2. Whole(n) \in Nat /\ Tenth(n) \in 0 .. 9 /\ Abs(n) = 10 * Whole(n) + Tenth(n)
  BY <1>1, DivideByTen DEF Whole, Tenth
<1>3. Whole(n) < 1000 /\ Tenth(n) < 10 /\ Tenth(n) \in Nat
  BY <1>1, <1>2
<1> QED BY <1>2, <1>3, DigitsOf, DigitsRead

\* The text of so many tenths, without a sign.
Plain(n) == Digits(Whole(n), 3) \o <<".">> \o Digits(Tenth(n), 1)

LEMMA TenthsAre ==
  ASSUME NEW n \in Written
  PROVE  /\ Plain(n) \in Seq(Chars) /\ Len(Plain(n)) = 5
         /\ strtod(Plain(n)) = Exact(Abs(n)) /\ Decimal(Plain(n)) = Exact(Abs(n))
         /\ n >= 0 => Tenths(n) = Plain(n)
         /\ n < 0  => Tenths(n) = <<"-">> \o Plain(n)
<1> DEFINE x == Digits(Whole(n), 3)
           y == Digits(Tenth(n), 1)
           p == <<".">>
           m == <<"-">>
<1>1. /\ Whole(n) \in Nat /\ Tenth(n) \in Nat /\ Abs(n) = 10 * Whole(n) + Tenth(n)
      /\ x \in Seq(Figures) /\ Len(x) = 3 /\ y \in Seq(Figures) /\ Len(y) = 1
      /\ Value(x) = Whole(n) /\ Value(y) = Tenth(n)
  BY WholeAndTenth
<1>2. Tenths(n) = (((IF n < 0 THEN m ELSE <<>>) \o x) \o p) \o y
  BY DEF Tenths, Whole, Tenth
<1>3. Plain(n) = (x \o p) \o y
  BY DEF Plain
<1> HIDE DEF x, y
<1>4. /\ (x \o p) \o y \in Seq(Chars) /\ Len((x \o p) \o y) = Len(x) + 1 + Len(y)
      /\ strtod((x \o p) \o y) = Exact(10 * Whole(n) + Tenth(n))
      /\ Decimal((x \o p) \o y) = Exact(10 * Whole(n) + Tenth(n))
  <2>1. Len(x) # 0
    BY <1>1
  <2> QED BY <1>1, <2>1, PlainRead
<1>5. x \in Seq(Chars) /\ y \in Seq(Chars) /\ p \in Seq(Chars) /\ m \in Seq(Chars)
  <2>1. Figures \subseteq Chars /\ "." \in Chars /\ "-" \in Chars
    BY CharsAreNoCommas, Zenon
  <2> QED BY <1>1, <2>1
<1> HIDE DEF p, m
<1>6. <<>> \o x = x
  BY <1>1
<1>7. ((m \o x) \o p) \o y = m \o ((x \o p) \o y)
  BY <1>5
<1>8. n >= 0 => Tenths(n) = Plain(n)
  <2>1. n >= 0 => ~(n < 0)
    BY WrittenIs, SMT
  <2> QED BY <1>2, <1>3, <1>6, <2>1
<1>9. n < 0 => Tenths(n) = m \o Plain(n)
  BY <1>2, <1>3, <1>7
<1>10. Plain(n) \in Seq(Chars) /\ Len(Plain(n)) = 5
  BY <1>1, <1>3, <1>4
<1>11. strtod(Plain(n)) = Exact(Abs(n)) /\ Decimal(Plain(n)) = Exact(Abs(n))
  BY <1>1, <1>3, <1>4
<1> QED BY <1>8, <1>9, <1>10, <1>11 DEF m

\* A number of up to 9999 tenths is read as what was written, with its sign: it fits
\* in the buffer that field_to_double copies it to (nmea.c:67-80).
THEOREM TenthsRead ==
  ASSUME NEW n \in Written
  PROVE  /\ Tenths(n) \in Seq(Chars) /\ Tenths(n) # <<>>
         /\ field_to_double(Tenths(n)) = Exact(n)
<1> DEFINE m == <<"-">>
           s == Plain(n)
           t == m \o s
<1>1. /\ s \in Seq(Chars) /\ Len(s) = 5
      /\ strtod(s) = Exact(Abs(n)) /\ Decimal(s) = Exact(Abs(n))
      /\ n >= 0 => Tenths(n) = s
      /\ n < 0  => Tenths(n) = t
  BY TenthsAre
<1>2. m \in Seq(Chars) /\ Len(m) = 1
  <2>1. "-" \in Chars
    BY CharsAreNoCommas, Zenon
  <2> QED BY <2>1
<1>3. n \in Int /\ (n >= 0 => Abs(n) = n) /\ (n < 0 => Abs(n) = -n) /\ (n >= 0 \/ n < 0)
  BY WrittenIs, SMT DEF Abs
<1>4. field_copy(s, 24) = s
  BY <1>1 DEF field_copy
<1> HIDE DEF s
<1>5. /\ t \in Seq(Chars) /\ Len(t) = 6 /\ t # <<>> /\ t[1] = "-" /\ After(t, 1) = s
  <2> DEFINE minus == "-"
  <2>0. t = <<minus>> \o s /\ minus \in Chars
    BY CharsAreNoCommas, Zenon
  <2> HIDE DEF minus, t
  <2>1. t \in Seq(Chars) /\ Len(t) = 1 + Len(s) /\ t[1] = minus
    <3>1. <<minus>> \o s \in Seq(Chars) /\ (<<minus>> \o s)[1] = minus
      BY <1>1, <2>0
    <3>2. Len(<<minus>> \o s) = 1 + Len(s)
      <4>1. s \in Seq(Chars) /\ minus \in Chars
        BY <1>1, <2>0
      <4> QED BY <4>1
    <3> QED BY <2>0, <3>1, <3>2
  <2>5. Len(t) = 6
    BY <1>1, <2>1
  <2>2. SubSeq(t, 2, 6) = s
    BY <1>1, <2>0
  <2>3. After(t, 1) = s
    BY <2>5, <2>2 DEF After
  <2>4. t # <<>>
    BY <2>5
  <2> QED BY <2>5, <2>1, <2>3, <2>4 DEF minus
<1>6. field_copy(t, 24) = t
  BY <1>5 DEF field_copy
<1>7. CASE n >= 0
  <2>1. field_to_double(s) = Exact(n)
    BY <1>1, <1>3, <1>4, <1>7, Zenon DEF field_to_double
  <2>2. s # <<>>
    <3>1. Len(s) # Len(<<>>)
      BY <1>1
    <3> QED BY <3>1, Zenon
  <2> QED BY <1>1, <1>7, <2>1, <2>2
<1>8. CASE n < 0
  <2> HIDE DEF t
  <2>1. strtod(t) = -Decimal(After(t, 1))
    BY <1>5, MinusRead, Zenon
  <2>2. field_to_double(t) = -Exact(Abs(n))
    BY <1>1, <1>5, <1>6, <2>1, Zenon DEF field_to_double
  <2>3. -Exact(Abs(n)) = Exact(n)
    BY <1>3, <1>8 DEF Exact, Scale
  <2> QED BY <1>1, <1>5, <1>8, <2>2, <2>3
<1> QED BY <1>3, <1>7, <1>8

\* Zeros before them change nothing until the text is longer than the buffer.
LEMMA PaddedRead ==
  ASSUME NEW n \in Written, n >= 0, NEW p \in Nat
  PROVE  /\ Zeros(p) \o Tenths(n) \in Seq(Chars) /\ Zeros(p) \o Tenths(n) # <<>>
         /\ field_to_double(Zeros(p) \o Tenths(n)) = IF p + 5 > 23 THEN 0 ELSE Exact(n)
<1> DEFINE zs == Zeros(p)
           x == Digits(Whole(n), 3)
           y == Digits(Tenth(n), 1)
           d == <<".">>
           s == ((zs \o x) \o d) \o y
<1>1. Tenths(n) = (x \o d) \o y
  BY TenthsAre DEF Plain
<1>2. /\ Whole(n) \in Nat /\ Tenth(n) \in Nat /\ Abs(n) = 10 * Whole(n) + Tenth(n)
      /\ x \in Seq(Figures) /\ Len(x) = 3 /\ y \in Seq(Figures) /\ Len(y) = 1
      /\ Value(x) = Whole(n) /\ Value(y) = Tenth(n)
  BY WholeAndTenth
<1> HIDE DEF x, y
<1>4. zs \o x \in Seq(Figures) /\ Len(zs \o x) = p + 3 /\ Value(zs \o x) = Whole(n)
  BY <1>2, ZerosRead
<1>5. zs \in Seq(Figures)
  <2> DEFINE zero == "0"
  <2>1. zero \in Figures
    <3>1. zero = Digit[0 + 1]
      BY DEF Digit
    <3>2. 0 \in 0 .. 9
      OBVIOUS
    <3> QED BY <3>1, <3>2, FigureRead, Zenon
  <2>2. zs = [k \in 1 .. p |-> zero]
    BY Zenon DEF Zeros
  <2> HIDE DEF zero, zs
  <2> QED BY <2>1, <2>2
<1>6. Figures \subseteq Chars /\ "." \in Chars
  BY CharsAreNoCommas, Zenon
<1>7. d \in Seq(Chars)
  BY <1>6
<1> HIDE DEF zs, d
<1>8. zs \in Seq(Chars) /\ x \in Seq(Chars) /\ y \in Seq(Chars)
  BY <1>2, <1>5, <1>6
<1>9. zs \o Tenths(n) = s
  <2>1. zs \o ((x \o d) \o y) = ((zs \o x) \o d) \o y
    BY <1>7, <1>8
  <2> QED BY <1>1, <2>1, Zenon
<1>10. s \in Seq(Chars) /\ Len(s) = p + 5 /\ strtod(s) = Exact(Abs(n))
  <2> DEFINE z == zs \o x
  <2>1. z \in Seq(Figures) /\ Len(z) = p + 3 /\ Len(z) # 0 /\ Value(z) = Whole(n)
    <3> HIDE DEF z
    <3>1. z \in Seq(Figures) /\ Len(z) = p + 3 /\ Value(z) = Whole(n)
      BY <1>4, Zenon DEF z
    <3> QED BY <3>1
  <2> HIDE DEF z
  <2>2. /\ (z \o d) \o y \in Seq(Chars) /\ Len((z \o d) \o y) = Len(z) + 1 + Len(y)
        /\ strtod((z \o d) \o y) = Exact(10 * Whole(n) + Tenth(n))
    <3> USE DEF d
    <3>1. y \in Seq(Figures) /\ Len(y) = 1 /\ Whole(n) \in Nat /\ Tenth(n) \in Nat /\ Value(y) = Tenth(n)
      BY <1>2
    <3>2. (z \o d) \o y \in Seq(Chars)
      BY <2>1, <3>1, PlainRead
    <3>3. Len((z \o d) \o y) = Len(z) + 1 + Len(y)
      BY <2>1, <3>1, PlainRead
    <3>4. strtod((z \o d) \o y) = Exact(10 * Whole(n) + Tenth(n))
      BY <2>1, <3>1, PlainRead
    <3> QED BY <3>2, <3>3, <3>4
  <2>3. Len((z \o d) \o y) = p + 5
    BY <1>2, <2>1, <2>2
  <2> QED BY <1>2, <2>2, <2>3, Zenon DEF z
<1> HIDE DEF s
<1>11. Abs(n) = n
  BY WrittenIs, SMT DEF Abs
<1>12. s # <<>>
  <2>1. Len(s) # Len(<<>>)
    BY <1>10
  <2> QED BY <2>1, Zenon
<1>13. field_to_double(s) = IF p + 5 > 23 THEN 0 ELSE Exact(n)
  <2>1. CASE p + 5 > 23
    <3>1. field_copy(s, 24) = <<>>
      BY <1>10, <2>1 DEF field_copy
    <3> QED BY <2>1, <3>1, NothingRead DEF field_to_double
  <2>2. CASE ~(p + 5 > 23)
    <3>1. field_copy(s, 24) = s
      BY <1>10, <2>2 DEF field_copy
    <3> QED BY <1>10, <1>11, <2>2, <3>1 DEF field_to_double
  <2> QED BY <2>1, <2>2
<1> QED BY <1>9, <1>10, <1>12, <1>13 DEF zs

\* Two texts one after the other, and what they are cut into again.
LEMMA JoinedAt ==
  ASSUME NEW a \in Seq(Chars), NEW b \in Seq(Chars)
  PROVE  /\ a \o b \in Seq(Chars) /\ Len(a \o b) = Len(a) + Len(b)
         /\ DOMAIN (a \o b) = 1 .. Len(a) + Len(b)
         /\ \A i \in 1 .. Len(a) : (a \o b)[i] = a[i]
         /\ \A i \in 1 .. Len(b) : (a \o b)[Len(a) + i] = b[i]
         /\ SubSeq(a \o b, 1, Len(a)) = a /\ After(a \o b, Len(a)) = b
<1> DEFINE m == Len(a)
           n == Len(b)
<1>1. m \in Nat /\ n \in Nat /\ a \o b \in Seq(Chars) /\ Len(a \o b) = m + n
  OBVIOUS
<1>2. DOMAIN (a \o b) = 1 .. m + n
  BY <1>1
<1>3. (\A i \in 1 .. m : (a \o b)[i] = a[i]) /\ \A i \in 1 .. n : (a \o b)[m + i] = b[i]
  OBVIOUS
<1>4. SubSeq(a \o b, 1, m) = a /\ SubSeq(a \o b, m + 1, m + n) = b
  OBVIOUS
<1> QED BY <1>1, <1>2, <1>3, <1>4 DEF After

LEMMA TwoNumerals ==
  ASSUME NEW x \in Seq(Figures), NEW y \in Seq(Figures)
  PROVE  x \o y \in Seq(Figures) /\ Len(x \o y) = Len(x) + Len(y)
  OBVIOUS

LEMMA FiguresAt ==
  ASSUME NEW ds \in Seq(Figures), NEW n, n = Len(ds)
  PROVE  /\ ds \in Seq(Chars) /\ DOMAIN ds = 1 .. n /\ n \in Nat
         /\ \A i \in 1 .. n : ds[i] \in Figures /\ ds[i] # "," /\ ds[i] # "."
         /\ atoi(ds) = Value(ds) /\ Value(ds) \in Nat
<1>1. DOMAIN ds = 1 .. n /\ n \in Nat /\ \A i \in 1 .. n : ds[i] \in Figures
  OBVIOUS
<1>2. Value(ds) \in Nat
  <2>1. PICK v \in [0 .. n -> Nat] : v[n] = Value(ds)
    BY <1>1, ValueSteps, Zenon
  <2>2. n \in 0 .. n
    BY <1>1
  <2> QED BY <2>1, <2>2
<1>3. ds \in Seq(Chars)
  <2>1. Figures \subseteq Chars
    BY CharsAreNoCommas, Zenon
  <2> QED BY <2>1
<1>4. atoi(ds) = Value(ds)
  BY NumeralRead
<1> QED BY <1>1, <1>2, <1>3, <1>4, FigureRead, Zenon

LEMMA CutAfter ==
  ASSUME NEW x \in Seq(Figures), NEW y \in Seq(Figures), NEW z \in Seq(Figures), NEW p \in Seq(Chars)
  PROVE  LET s == ((x \o y) \o p) \o z
         IN  SubSeq(s, 1, Len(x)) = x /\ After(s, Len(x)) = (y \o p) \o z
<1> DEFINE t == (y \o p) \o z
<1>1. x \in Seq(Chars) /\ y \in Seq(Chars) /\ z \in Seq(Chars)
  BY FiguresAt, Zenon
<1>2. ((x \o y) \o p) \o z = x \o t /\ t \in Seq(Chars)
  BY <1>1, SMTT(40)
<1> HIDE DEF t
<1>3. SubSeq(x \o t, 1, Len(x)) = x /\ After(x \o t, Len(x)) = t
  BY <1>1, <1>2, JoinedAt, Zenon
<1> QED BY <1>2, <1>3, Zenon DEF t

\* The only point of a text of degrees, minutes and the fraction of a minute.
LEMMA PointOf ==
  ASSUME NEW xy \in Seq(Figures), NEW z \in Seq(Figures), NEW m, m = Len(xy)
  PROVE  LET s == (xy \o <<".">>) \o z
         IN  s \in Seq(Chars) /\ Len(s) = m + 1 + Len(z) /\ {i \in DOMAIN s : s[i] = "."} = {m + 1}
<1> DEFINE dot == "."
           p == <<dot>>
           s == (xy \o p) \o z
           n == Len(z)
<1>1. dot \in Chars
  BY CharsAreNoCommas, Zenon
<1>2. /\ xy \in Seq(Chars) /\ z \in Seq(Chars) /\ m \in Nat /\ n \in Nat
      /\ \A i \in 1 .. m : xy[i] # dot
      /\ \A i \in 1 .. n : z[i] # dot
  <2>1. n = Len(z)
    OBVIOUS
  <2> QED BY <2>1, FiguresAt, Zenon
<1> HIDE DEF dot, n
<1>3. p \in Seq(Chars) /\ Len(p) = 1 /\ p[1] = dot
  BY <1>1
<1> HIDE DEF p
<1> DEFINE u == xy \o p
<1>4. /\ u \in Seq(Chars) /\ Len(u) = m + 1
      /\ \A i \in 1 .. m : u[i] = xy[i]
      /\ \A i \in 1 .. 1 : u[m + i] = p[i]
  <2>1. /\ u \in Seq(Chars) /\ Len(u) = Len(xy) + Len(p)
        /\ \A i \in 1 .. Len(xy) : u[i] = xy[i]
        /\ \A i \in 1 .. Len(p) : u[Len(xy) + i] = p[i]
    BY <1>2, <1>3, JoinedAt, Zenon
  <2> HIDE DEF u
  <2> QED BY <1>3, <2>1
<1> HIDE DEF u
<1>5. /\ u \o z \in Seq(Chars) /\ Len(u \o z) = (m + 1) + n /\ DOMAIN (u \o z) = 1 .. (m + 1) + n
      /\ \A i \in 1 .. m + 1 : (u \o z)[i] = u[i]
      /\ \A i \in 1 .. n : (u \o z)[(m + 1) + i] = z[i]
  <2>1. /\ u \o z \in Seq(Chars) /\ Len(u \o z) = Len(u) + Len(z)
        /\ DOMAIN (u \o z) = 1 .. Len(u) + Len(z)
        /\ \A i \in 1 .. Len(u) : (u \o z)[i] = u[i]
        /\ \A i \in 1 .. Len(z) : (u \o z)[Len(u) + i] = z[i]
    BY <1>2, <1>4, JoinedAt, Zenon
  <2> QED BY <1>4, <2>1, Zenon DEF n
<1>6. s = u \o z
  BY DEF u
<1> HIDE DEF s
<1>7. Len(s) = m + 1 + n /\ DOMAIN s = 1 .. m + 1 + n /\ s \in Seq(Chars)
  BY <1>2, <1>5, <1>6
<1>8. ASSUME NEW i \in 1 .. m + 1 + n PROVE s[i] = dot <=> i = m + 1
  <2>1. CASE i \in 1 .. m
    <3>1. i \in 1 .. m + 1 /\ i # m + 1
      BY <1>2, <2>1
    <3> QED BY <1>2, <1>4, <1>5, <1>6, <2>1, <3>1, Zenon
  <2>2. CASE i = m + 1
    <3>1. i \in 1 .. m + 1 /\ 1 \in 1 .. 1
      BY <1>2, <2>2
    <3> QED BY <1>3, <1>4, <1>5, <1>6, <2>2, <3>1, Zenon
  <2>3. CASE i \in m + 2 .. m + 1 + n
    <3>1. i - (m + 1) \in 1 .. n /\ (m + 1) + (i - (m + 1)) = i /\ i # m + 1
      BY <1>2, <2>3
    <3>2. s[i] = z[i - (m + 1)]
      BY <1>5, <1>6, <3>1, Zenon
    <3> QED BY <1>2, <3>1, <3>2, Zenon
  <2>4. i \in 1 .. m \/ i = m + 1 \/ i \in m + 2 .. m + 1 + n
    BY <1>2
  <2> QED BY <2>1, <2>2, <2>3, <2>4
<1>9. m + 1 \in 1 .. m + 1 + n
  BY <1>2
<1>10. {i \in DOMAIN s : s[i] = dot} = {m + 1}
  BY <1>7, <1>8, <1>9, Zenon
<1> QED BY <1>7, <1>10, Zenon DEF s, p, dot, n

\* Degrees and minutes: the degrees are the digits up to two before the point.
LEMMA DmmRead ==
  ASSUME NEW w \in 2 .. 3, NEW x \in Seq(Figures), Len(x) = w, NEW y \in Seq(Figures), Len(y) = 2,
         NEW z \in Seq(Figures), Len(z) = 5
  PROVE  /\ ((x \o y) \o <<".">>) \o z \in Seq(Chars) /\ Len(((x \o y) \o <<".">>) \o z) = w + 8
         /\ parse_dmm(((x \o y) \o <<".">>) \o z) = 60 * Scale * Value(x) + (Scale * Value(y) + Value(z))
<1> DEFINE p == <<".">>
           xy == x \o y
           s == (xy \o p) \o z
           t == (y \o p) \o z
           dots == {i \in DOMAIN s : s[i] = "."}
<1>1. w \in Nat /\ 2 <= w /\ w <= 3
  OBVIOUS
<1>2. xy \in Seq(Figures) /\ Len(xy) = w + 2
  <2>1. xy \in Seq(Figures) /\ Len(xy) = Len(x) + Len(y)
    BY TwoNumerals, Zenon
  <2> HIDE DEF xy
  <2> QED BY <2>1
<1> HIDE DEF xy
<1>3. s \in Seq(Chars) /\ Len(s) = (w + 2) + 1 + Len(z) /\ dots = {(w + 2) + 1}
  <2> DEFINE m == w + 2
  <2>1. m = Len(xy)
    BY <1>2
  <2> HIDE DEF m
  <2>2. s \in Seq(Chars) /\ Len(s) = m + 1 + Len(z) /\ dots = {m + 1}
    BY <1>2, <2>1, PointOf, ZenonT(60)
  <2> QED BY <2>2, Zenon DEF m
<1>4. /\ t \in Seq(Chars) /\ Len(t) = Len(y) + 1 + Len(z)
      /\ Decimal(t) = Scale * Value(y) + (IF Len(z) = 5 THEN 1 ELSE Scale \div 10) * Value(z)
      /\ strtod(t) = Decimal(t)
  <2>1. Len(z) \in {1, 5} /\ Len(y) # 0
    OBVIOUS
  <2> QED BY <2>1, DecimalRead, Zenon
<1>5. x \in Seq(Chars) /\ y \in Seq(Chars) /\ z \in Seq(Chars) /\ atoi(x) = Value(x)
      /\ Value(y) \in Nat /\ Value(z) \in Nat
  BY FiguresAt, Zenon
<1>6. p \in Seq(Chars)
  <2>1. "." \in Chars
    BY CharsAreNoCommas, Zenon
  <2> QED BY <2>1
<1> HIDE DEF p
<1>7. SubSeq(s, 1, w) = x /\ After(s, w) = t
  <2>1. SubSeq(s, 1, Len(x)) = x /\ After(s, Len(x)) = t
    BY <1>6, CutAfter, Zenon DEF xy
  <2>2. Len(x) = w
    OBVIOUS
  <2> QED BY <2>1, <2>2, Zenon
<1> HIDE DEF t
<1> HIDE DEF s, dots
<1>9. Len(s) = w + 8 /\ dots = {w + 3} /\ Len(t) = 8
  BY <1>1, <1>3, <1>4
<1>10. Min({w + 3}) = w + 3
  BY <1>1 DEF Min
<1>11. parse_dmm(s) = 60 * Scale * atoi(SubSeq(s, 1, w)) + field_to_double(After(s, w))
  <2> DEFINE at == IF dots = {} THEN Len(s) ELSE Min(dots) - 1
  <2>1. parse_dmm(s) = IF Len(s) < 3 \/ at < 2 \/ at - 2 >= 8 THEN 0
                       ELSE 60 * Scale * atoi(SubSeq(s, 1, at - 2)) + field_to_double(After(s, at - 2))
    BY DEF parse_dmm, dots
  <2>2. at = w + 2
    <3>1. dots # {} /\ Min(dots) = w + 3
      BY <1>9, <1>10, Zenon
    <3> QED BY <1>1, <3>1
  <2>3. at - 2 = w /\ ~(Len(s) < 3) /\ ~(at < 2) /\ ~(at - 2 >= 8)
    BY <1>1, <1>9, <2>2
  <2> HIDE DEF at
  <2> QED BY <2>1, <2>3
<1>12. field_to_double(t) = Scale * Value(y) + Value(z)
  <2>1. field_to_double(t) = strtod(t)
    BY <1>9 DEF field_to_double, field_copy
  <2> QED BY <1>4, <1>5, <2>1
<1>13. parse_dmm(s) = 60 * Scale * Value(x) + (Scale * Value(y) + Value(z))
  BY <1>5, <1>7, <1>11, <1>12, Zenon
<1> QED BY <1>3, <1>9, <1>13, Zenon DEF s, xy, p

\* Two digits each, three times.
InPairs(s, a, b, c, rest) ==
  /\ s \in Seq(Chars) /\ Len(s) = 6 + Len(rest)
  /\ SubSeq(s, 1, 2) = a /\ SubSeq(s, 3, 4) = b /\ SubSeq(s, 5, 6) = c

LEMMA ThreePairs ==
  ASSUME NEW a \in Seq(Chars), NEW b \in Seq(Chars), NEW c \in Seq(Chars), NEW rest \in Seq(Chars),
         Len(a) = 2, Len(b) = 2, Len(c) = 2
  PROVE  InPairs(((a \o b) \o c) \o rest, a, b, c, rest)
<1> DEFINE u == a \o b
           v == u \o c
           t == v \o rest
<1>1. t = ((a \o b) \o c) \o rest
  OBVIOUS
<1>2. /\ u \in Seq(Chars) /\ Len(u) = Len(a) + Len(b)
      /\ \A i \in 1 .. Len(a) : u[i] = a[i]
      /\ \A i \in 1 .. Len(b) : u[Len(a) + i] = b[i]
  BY JoinedAt, Zenon
<1> HIDE DEF u
<1>3. /\ v \in Seq(Chars) /\ Len(v) = Len(u) + Len(c)
      /\ \A i \in 1 .. Len(u) : v[i] = u[i]
      /\ \A i \in 1 .. Len(c) : v[Len(u) + i] = c[i]
  BY <1>2, JoinedAt, Zenon
<1> HIDE DEF v
<1>4. /\ t \in Seq(Chars) /\ Len(t) = Len(v) + Len(rest)
      /\ \A i \in 1 .. Len(v) : t[i] = v[i]
  BY <1>3, JoinedAt, Zenon
<1> HIDE DEF t
<1>5. Len(u) = 4 /\ u[1] = a[1] /\ u[2] = a[2] /\ u[3] = b[1] /\ u[4] = b[2]
  BY <1>2
<1>6. Len(v) = 6 /\ v[1] = a[1] /\ v[2] = a[2] /\ v[3] = b[1] /\ v[4] = b[2] /\ v[5] = c[1] /\ v[6] = c[2]
  BY <1>3, <1>5
<1>7. /\ Len(t) = 6 + Len(rest) /\ Len(rest) \in Nat
      /\ t[1] = a[1] /\ t[2] = a[2] /\ t[3] = b[1] /\ t[4] = b[2] /\ t[5] = c[1] /\ t[6] = c[2]
  BY <1>4, <1>6
<1>8. SubSeq(t, 1, 2) = a
  BY <1>4, <1>7
<1>9. SubSeq(t, 3, 4) = b
  BY <1>4, <1>7
<1>10. SubSeq(t, 5, 6) = c
  BY <1>4, <1>7
<1> QED BY <1>1, <1>4, <1>7, <1>8, <1>9, <1>10, Zenon DEF InPairs

\* Times, dates and numbers of satellites.
LEMMA PairRead ==
  ASSUME NEW n \in TwoDigits
  PROVE  /\ Digits(n, 2) \in Seq(Chars) /\ Len(Digits(n, 2)) = 2
         /\ atoi(Digits(n, 2)) = n /\ n % 256 = n
<1>1. n \in Nat /\ n < 100 /\ n % 256 = n
  BY DEF TwoDigits
<1>2. Value(Digits(n, 2)) = n
  BY <1>1, DigitsRead
<1>3. Digits(n, 2) \in Seq(Figures) /\ Len(Digits(n, 2)) = 2
  BY <1>1, DigitsOf, Zenon
<1>4. Digits(n, 2) \in Seq(Chars) /\ atoi(Digits(n, 2)) = Value(Digits(n, 2))
  BY <1>3, FiguresAt, Zenon
<1> QED BY <1>1, <1>2, <1>3, <1>4, Zenon

ReadInPairs(s, x, y, z) ==
  s \in Seq(Chars) /\ Len(s) >= 6 /\ Two(s, 1) = x /\ Two(s, 3) = y /\ Two(s, 5) = z

LEMMA TripleRead ==
  ASSUME NEW x \in TwoDigits, NEW y \in TwoDigits, NEW z \in TwoDigits, NEW rest \in Seq(Chars)
  PROVE  ReadInPairs(Triple(x, y, z) \o rest, x, y, z)
<1> DEFINE a == Digits(x, 2)
           b == Digits(y, 2)
           c == Digits(z, 2)
           s == ((a \o b) \o c) \o rest
<1>1. /\ a \in Seq(Chars) /\ Len(a) = 2 /\ atoi(a) = x /\ x % 256 = x
      /\ b \in Seq(Chars) /\ Len(b) = 2 /\ atoi(b) = y /\ y % 256 = y
      /\ c \in Seq(Chars) /\ Len(c) = 2 /\ atoi(c) = z /\ z % 256 = z
  BY PairRead
<1>2. s = Triple(x, y, z) \o rest
  BY Zenon DEF Triple
<1> HIDE DEF a, b, c, s
<1>3. /\ s \in Seq(Chars) /\ Len(s) = 6 + Len(rest)
      /\ SubSeq(s, 1, 2) = a /\ SubSeq(s, 3, 4) = b /\ SubSeq(s, 5, 6) = c
  <2>1. InPairs(s, a, b, c, rest)
    BY <1>1, ThreePairs, Zenon DEF s
  <2> QED BY <2>1, Zenon DEF InPairs
<1>4. Len(s) >= 6
  BY <1>3
<1>5. Two(s, 1) = x /\ Two(s, 3) = y /\ Two(s, 5) = z
  <2>1. 1 + 1 = 2 /\ 3 + 1 = 4 /\ 5 + 1 = 6
    OBVIOUS
  <2>2. /\ Two(s, 1) = atoi(SubSeq(s, 1, 2)) % 256
        /\ Two(s, 3) = atoi(SubSeq(s, 3, 4)) % 256
        /\ Two(s, 5) = atoi(SubSeq(s, 5, 6)) % 256
    BY <2>1 DEF Two
  <2> QED BY <1>1, <1>3, <2>2
<1> QED BY <1>2, <1>3, <1>4, <1>5, Zenon DEF ReadInPairs

LEMMA TimeRead ==
  ASSUME NEW t \in [h : TwoDigits, m : TwoDigits, s : TwoDigits]
  PROVE  LET s == Triple(t.h, t.m, t.s) \o <<".", "0", "0">>
         IN  s \in Seq(Chars) /\ s # <<>> /\ parse_hms(s) = t
<1> DEFINE rest == <<".", "0", "0">>
           s == Triple(t.h, t.m, t.s) \o rest
<1>1. t.h \in TwoDigits /\ t.m \in TwoDigits /\ t.s \in TwoDigits /\ t = [h |-> t.h, m |-> t.m, s |-> t.s]
  OBVIOUS
<1>2. rest \in Seq(Chars)
  <2> DEFINE dot == "."
             zero == "0"
  <2>1. zero = Digit[0 + 1]
    BY DEF Digit
  <2>2. 0 \in 0 .. 9
    OBVIOUS
  <2>3. zero \in Chars /\ dot \in Chars
    BY <2>1, <2>2, FigureRead, CharsAreNoCommas, Zenon
  <2>4. rest = <<dot, zero, zero>>
    OBVIOUS
  <2> HIDE DEF dot, zero, rest
  <2> QED BY <2>3, <2>4
<1> HIDE DEF rest
<1>3. s \in Seq(Chars) /\ Len(s) >= 6 /\ Two(s, 1) = t.h /\ Two(s, 3) = t.m /\ Two(s, 5) = t.s
  <2>1. ReadInPairs(s, t.h, t.m, t.s)
    BY <1>1, <1>2, TripleRead, Zenon
  <2> QED BY <2>1, Zenon DEF ReadInPairs
<1> HIDE DEF s
<1>4. parse_hms(s) = t /\ s # <<>>
  <2>1. ~(Len(s) < 6) /\ s # <<>>
    BY <1>3
  <2> QED BY <1>1, <1>3, <2>1, Zenon DEF parse_hms
<1> QED BY <1>3, <1>4, Zenon DEF s, rest

LEMMA DateRead ==
  ASSUME NEW t \in [d : TwoDigits, m : TwoDigits, y : TwoDigits]
  PROVE  LET s == Triple(t.d, t.m, t.y)
         IN  s \in Seq(Chars) /\ s # <<>> /\ parse_dmy(s) = t
<1> DEFINE none == <<>>
           s == Triple(t.d, t.m, t.y)
           u == s \o none
<1>1. t.d \in TwoDigits /\ t.m \in TwoDigits /\ t.y \in TwoDigits /\ t = [d |-> t.d, m |-> t.m, y |-> t.y]
  OBVIOUS
<1>2. none \in Seq(Chars)
  OBVIOUS
<1> HIDE DEF none
<1>3. u \in Seq(Chars) /\ Len(u) >= 6 /\ Two(u, 1) = t.d /\ Two(u, 3) = t.m /\ Two(u, 5) = t.y
  <2>1. ReadInPairs(u, t.d, t.m, t.y)
    BY <1>1, <1>2, TripleRead, Zenon
  <2> QED BY <2>1, Zenon DEF ReadInPairs
<1>4. s \in Seq(Chars)
  <2> DEFINE a == Digits(t.d, 2)
             b == Digits(t.m, 2)
             c == Digits(t.y, 2)
  <2>1. a \in Seq(Chars) /\ b \in Seq(Chars) /\ c \in Seq(Chars)
    BY <1>1, PairRead, Zenon
  <2>2. s = (a \o b) \o c
    BY Zenon DEF Triple
  <2> HIDE DEF a, b, c, s
  <2> QED BY <2>1, <2>2
<1>5. u = s
  <2> HIDE DEF s
  <2> QED BY <1>4 DEF none
<1> HIDE DEF s, u
<1>6. ~(Len(s) < 6) /\ s # <<>>
  BY <1>3, <1>4, <1>5
<1> QED BY <1>1, <1>3, <1>4, <1>5, <1>6, Zenon DEF parse_dmy, s

LEMMA SatsRead ==
  ASSUME NEW n \in TwoDigits
  PROVE  Digits(n, 2) \in Seq(Chars) /\ Digits(n, 2) # <<>> /\ field_to_int(Digits(n, 2)) % 256 = n
<1> DEFINE s == Digits(n, 2)
<1>1. s \in Seq(Chars) /\ Len(s) = 2 /\ atoi(s) = n /\ n % 256 = n
  BY PairRead
<1> HIDE DEF s
<1>2. s # <<>> /\ field_copy(s, 12) = s
  BY <1>1, SMTT(40) DEF field_copy
<1>3. field_to_int(s) % 256 = n
  BY <1>1, <1>2 DEF field_to_int
<1> QED BY <1>1, <1>2, <1>3, Zenon DEF s

\* Angles: degrees up to what their digits can hold, minutes, and their fraction.
Degrees(a)  == Abs(a) \div (60 * Scale)
Minutes(a)  == (Abs(a) \div Scale) % 60
OfMinute(a) == Abs(a) % Scale

Latitude  == Within(90 * 60 * Scale)
Longitude == Within(180 * 60 * Scale)

LEMMA AnglesAre ==
  /\ \A a \in Latitude  : a \in Int /\ Abs(a) <= 540000000
  /\ \A a \in Longitude : a \in Int /\ Abs(a) <= 1080000000
<1> DEFINE q == 540000000
           h == 1080000000
<1>1. q \in Nat /\ h \in Nat
  BY SMT
<1>2. 90 * 60 * Scale = q /\ 180 * 60 * Scale = h
  BY SMT DEF Scale
<1> HIDE DEF q, h
<1>3. (\A a \in Within(q) : a \in Int /\ Abs(a) <= q) /\ \A a \in Within(h) : a \in Int /\ Abs(a) <= h
  BY <1>1, WithinIs
<1> QED BY <1>2, <1>3, SMT DEF Latitude, Longitude, q, h

LEMMA SplitAngle ==
  ASSUME NEW n \in Nat, NEW d, d = n \div 6000000, NEW m, m = (n \div 100000) % 60, NEW f, f = n % 100000
  PROVE  /\ d \in Nat /\ m \in Nat /\ m < 60 /\ f \in Nat /\ f < 100000
         /\ n = 6000000 * d + (100000 * m + f)
<1> DEFINE q == n \div 100000
<1>1. q \in Nat /\ n = 100000 * q + f /\ f \in Nat /\ f < 100000
  BY SMT
<1>2. d = q \div 60
  BY SMT
<1>3. m = q % 60
  OBVIOUS
<1> HIDE DEF q
<1>4. q = 60 * d + m /\ m \in Nat /\ m < 60 /\ d \in Nat
  BY <1>1, <1>2, <1>3, SMT
<1> QED BY <1>1, <1>4, SMT

\* How many degrees two digits and three have to hold.
LEMMA DegreesFit ==
  ASSUME NEW n \in Nat, NEW d \in Nat, NEW r \in Nat, n = 6000000 * d + r
  PROVE  (n <= 540000000 => d < 100) /\ (n <= 1080000000 => d < 1000)
  BY SMT

LEMMA AngleParts ==
  ASSUME NEW a \in Int
  PROVE  /\ Degrees(a) \in Nat /\ Minutes(a) \in Nat /\ OfMinute(a) \in Nat
         /\ Abs(a) = 60 * Scale * Degrees(a) + (Scale * Minutes(a) + OfMinute(a))
         /\ a \in Latitude  => Value(Digits(Degrees(a), 2)) = Degrees(a)
         /\ a \in Longitude => Value(Digits(Degrees(a), 3)) = Degrees(a)
         /\ Value(Digits(Minutes(a), 2)) = Minutes(a)
         /\ Value(Digits(OfMinute(a), 5)) = OfMinute(a)
<1> DEFINE n == Abs(a)
           d == Degrees(a)
           m == Minutes(a)
           f == OfMinute(a)
<1>1. n \in Nat
  BY SMT DEF Abs
<1>2. d = n \div 6000000 /\ m = (n \div 100000) % 60 /\ f = n % 100000
  BY SMT DEF Degrees, Minutes, OfMinute, Scale
<1>3. (a \in Latitude => n <= 540000000) /\ (a \in Longitude => n <= 1080000000)
  BY AnglesAre, SMT DEF n
<1> HIDE DEF n, d, m, f
<1>4. /\ d \in Nat /\ m \in Nat /\ m < 60 /\ f \in Nat /\ f < 100000
      /\ n = 6000000 * d + (100000 * m + f)
  BY <1>1, <1>2, SplitAngle, SMT
<1>5. (n <= 540000000 => d < 100) /\ (n <= 1080000000 => d < 1000)
  <2> DEFINE r == 100000 * m + f
  <2>1. r \in Nat
    BY <1>4, SMT
  <2>2. n = 6000000 * d + r
    BY <1>4, SMT
  <2> HIDE DEF r
  <2> QED BY <1>1, <1>4, <2>1, <2>2, DegreesFit, SMT
<1>6. m < 100
  BY <1>4, SMT
<1>7. /\ a \in Latitude  => Value(Digits(d, 2)) = d
      /\ a \in Longitude => Value(Digits(d, 3)) = d
  BY <1>3, <1>4, <1>5, DigitsRead, SMT
<1>8. Value(Digits(m, 2)) = m /\ Value(Digits(f, 5)) = f
  BY <1>4, <1>6, DigitsRead, SMT
<1>9. n = 60 * Scale * d + (Scale * m + f)
  BY <1>4, SMT DEF Scale
<1>10. d \in Nat /\ m \in Nat /\ f \in Nat
  BY <1>4, SMT
<1> QED BY <1>7, <1>8, <1>9, <1>10, Zenon DEF n, d, m, f

\* parse_dmm reads an angle of up to 90 or 180 degrees, to the fifth digit of its
\* minutes, as the angle that was written (nmea.c:93-112).
THEOREM AngleRead ==
  ASSUME NEW a \in Int, NEW w, (w = 2 /\ a \in Latitude) \/ (w = 3 /\ a \in Longitude)
  PROVE  Dmm(a, w) \in Seq(Chars) /\ Dmm(a, w) # <<>> /\ parse_dmm(Dmm(a, w)) = Abs(a)
<1> DEFINE x == Digits(Degrees(a), w)
           y == Digits(Minutes(a), 2)
           z == Digits(OfMinute(a), 5)
           s == ((x \o y) \o <<".">>) \o z
<1>1. /\ Degrees(a) \in Nat /\ Minutes(a) \in Nat /\ OfMinute(a) \in Nat
      /\ Abs(a) = 60 * Scale * Degrees(a) + (Scale * Minutes(a) + OfMinute(a))
      /\ Value(x) = Degrees(a) /\ Value(y) = Minutes(a) /\ Value(z) = OfMinute(a)
  <2>1. /\ Degrees(a) \in Nat /\ Minutes(a) \in Nat /\ OfMinute(a) \in Nat
        /\ Abs(a) = 60 * Scale * Degrees(a) + (Scale * Minutes(a) + OfMinute(a))
        /\ Value(y) = Minutes(a) /\ Value(z) = OfMinute(a)
        /\ (w = 2 /\ a \in Latitude) \/ (w = 3 /\ a \in Longitude) => Value(x) = Degrees(a)
    BY AngleParts, Zenon
  <2> QED BY <2>1
<1>2. w = 2 \/ w = 3
  OBVIOUS
<1>3. x \in Seq(Figures) /\ Len(x) = w
  <2>1. CASE w = 2
    BY <1>1, <2>1, DigitsOf
  <2>2. CASE w = 3
    BY <1>1, <2>2, DigitsOf
  <2> QED BY <1>2, <2>1, <2>2
<1>4. y \in Seq(Figures) /\ Len(y) = 2 /\ z \in Seq(Figures) /\ Len(z) = 5
  BY <1>1, DigitsOf, Zenon
<1>5. s = Dmm(a, w)
  BY Zenon DEF Dmm, Degrees, Minutes, OfMinute
<1> HIDE DEF x, y, z
<1>6. w \in 2 .. 3
  BY <1>2
<1>7. /\ s \in Seq(Chars) /\ Len(s) = w + 8
      /\ parse_dmm(s) = 60 * Scale * Value(x) + (Scale * Value(y) + Value(z))
  BY <1>3, <1>4, <1>6, DmmRead, ZenonT(60)
<1> HIDE DEF s
<1>8. s # <<>>
  BY <1>6, <1>7
<1> QED BY <1>1, <1>5, <1>7, <1>8, Zenon
-----------------------------------------------------------------------------
(* The fields of a body that is put together from them.                    *)

\* A text, a character and another text, and where each character comes from.
Appended(S, s, c, f, t) ==
  /\ t \in Seq(S) /\ Len(t) = Len(s) + 1 + Len(f) /\ Len(s) \in Nat /\ Len(f) \in Nat
  /\ DOMAIN t = 1 .. Len(t)
  /\ \A i \in 1 .. Len(s) : t[i] = s[i]
  /\ t[Len(s) + 1] = c
  /\ \A i \in 1 .. Len(f) : t[Len(s) + 1 + i] = f[i]

LEMMA ThreeTexts ==
  ASSUME NEW S, NEW s \in Seq(S), NEW c \in S, NEW f \in Seq(S)
  PROVE  Appended(S, s, c, f, (s \o <<c>>) \o f)
<1> DEFINE p == <<c>>
           u == Join(s, p)
           t == Join(u, f)
           m == Len(s)
           n == m + 1
<1>1. p \in Seq(S) /\ Len(p) = 1 /\ p[1] = c /\ m \in Nat /\ Len(f) \in Nat
  OBVIOUS
<1>2. t = (s \o p) \o f
  BY DEF Join
<1> HIDE DEF p
<1>3. u \in Seq(S) /\ Len(u) = m + Len(p)
  BY <1>1, JoinAt, Zenon
<1>4. (\A i \in 1 .. m : u[i] = s[i]) /\ \A i \in 1 .. Len(p) : u[m + i] = p[i]
  <2>1. \A i \in 1 .. m : u[i] = s[i]
    BY <1>1, JoinLeft
  <2>2. \A i \in 1 .. Len(p) : u[m + i] = p[i]
    BY <1>1, JoinRight
  <2> QED BY <2>1, <2>2
<1> HIDE DEF u, m
<1>5. Len(u) = n /\ u[n] = c /\ n \in Nat /\ \A i \in 1 .. m : i \in 1 .. n
  <2>1. 1 \in 1 .. Len(p)
    BY <1>1
  <2> QED BY <1>1, <1>3, <1>4, <2>1
<1>6. t \in Seq(S) /\ Len(t) = Len(u) + Len(f)
  BY <1>3, JoinAt, Zenon
<1>7. (\A i \in 1 .. Len(u) : t[i] = u[i]) /\ \A i \in 1 .. Len(f) : t[Len(u) + i] = f[i]
  <2>1. \A i \in 1 .. Len(u) : t[i] = u[i]
    BY <1>3, JoinLeft
  <2>2. \A i \in 1 .. Len(f) : t[Len(u) + i] = f[i]
    BY <1>3, JoinRight
  <2> QED BY <2>1, <2>2
<1> HIDE DEF t
<1>8. DOMAIN t = 1 .. Len(t) /\ n \in 1 .. n
  <2>1. DOMAIN t = 1 .. Len(t)
    BY <1>6
  <2>2. n \in 1 .. n
    BY <1>1
  <2> QED BY <2>1, <2>2
<1>9. Appended(S, s, c, f, t)
  <2>1. m = Len(s)
    BY DEF m
  <2> HIDE DEF n
  <2>2. (\A i \in 1 .. m : t[i] = s[i]) /\ t[n] = c
    BY <1>4, <1>5, <1>7, <1>8, Zenon
  <2> QED BY <1>1, <1>5, <1>6, <1>7, <1>8, <2>1, <2>2, Zenon DEF Appended, n
<1> QED BY <1>2, <1>9, Zenon DEF p

\* A field more.
Added(s, f) == (s \o <<Comma>>) \o f

\* Where a character is when it may be in either of two texts around a comma.
LEMMA Between ==
  \A l, m \in Nat : \A i \in Int :
    i <= m + 1 => (i <= l + 1 /\ i # l + 1) \/ i = l + 1 \/ (l + 1 < i /\ i < m + 1) \/ i = m + 1
  OBVIOUS

\* Two texts that begin alike.
LEMMA SameStart ==
  ASSUME NEW S, NEW s \in Seq(S), NEW t \in Seq(S), Len(s) <= Len(t),
         \A i \in 1 .. Len(s) : t[i] = s[i], NEW a \in Nat, 1 <= a, NEW b \in Int, b <= Len(s)
  PROVE  SubSeq(t, a, b) = SubSeq(s, a, b)
  OBVIOUS

\* A comma and a field more: the fields before it stay, and it is the next.
NextField(S, s, f, t, n) ==
  /\ t \in Seq(S) /\ Cardinality(Commas(t)) = n + 1
  /\ \A k \in 0 .. n : field_at(t, k) = field_at(s, k)
  /\ field_at(t, n + 1) = f

LEMMA AppendField ==
  ASSUME NEW S, NEW s \in Seq(S), Comma \in S, NEW f \in Seq(S),
         \A i \in DOMAIN f : f[i] # Comma,
         NEW t, t = Added(s, f), NEW n, n = Cardinality(Commas(s))
  PROVE  NextField(S, s, f, t, n)
<1> DEFINE last == Len(t) + 1
<1>1. /\ t \in Seq(S) /\ Len(t) = Len(s) + 1 + Len(f) /\ Len(s) \in Nat /\ Len(f) \in Nat
      /\ DOMAIN t = 1 .. Len(t)
      /\ \A i \in 1 .. Len(s) : t[i] = s[i]
      /\ t[Len(s) + 1] = Comma
      /\ \A i \in 1 .. Len(f) : t[Len(s) + 1 + i] = f[i]
  <2>1. Appended(S, s, Comma, f, t)
    BY ThreeTexts DEF Added
  <2> QED BY <2>1, Zenon DEF Appended
<1>2. n \in Nat /\ Cardinality(Ends(s)) = n + 1 /\ Cardinality(Ends(t)) = Cardinality(Commas(t)) + 1
      /\ Cardinality(Commas(t)) \in Nat
  BY <1>1, CommasCounted
<1>3. DOMAIN f = 1 .. Len(f)
  OBVIOUS
<1>4. Ends(t) = Ends(s) \cup {last} /\ last \notin Ends(s) /\ \A i \in Ends(s) : i < last
  <2>1. ASSUME NEW i PROVE i \in Ends(t) <=> i \in Ends(s) \/ i = last
    <3> DEFINE In(x, m) == x \in Int /\ 1 <= x /\ x <= m + 1
    <3>1. i \in Ends(t) <=> In(i, Len(t)) /\ (i = last \/ t[i] = Comma)
      BY <1>1, EndIs, Zenon DEF IsEnd, Comma
    <3>2. i \in Ends(s) <=> In(i, Len(s)) /\ (i = Len(s) + 1 \/ s[i] = Comma)
      BY EndIs, Zenon DEF IsEnd, Comma
    <3>3. CASE In(i, Len(s)) /\ i # Len(s) + 1
      <4>1. i \in 1 .. Len(s) /\ In(i, Len(t)) /\ i # last
        BY <1>1, <3>3
      <4> QED BY <1>1, <3>1, <3>2, <3>3, <4>1, Zenon
    <3>4. CASE i = Len(s) + 1
      <4>1. In(i, Len(s)) /\ In(i, Len(t))
        BY <1>1, <3>4
      <4> QED BY <1>1, <3>1, <3>2, <3>4, <4>1, Zenon
    <3>5. CASE i \in Int /\ Len(s) + 1 < i /\ i < last
      <4>1. i - (Len(s) + 1) \in 1 .. Len(f) /\ Len(s) + 1 + (i - (Len(s) + 1)) = i /\ i # last
            /\ ~In(i, Len(s))
        BY <1>1, <3>5
      <4>2. t[i] # Comma
        BY <1>1, <1>3, <4>1, Zenon
      <4> QED BY <3>1, <3>2, <4>1, <4>2, Zenon
    <3>6. CASE i = last
      <4>1. In(i, Len(t))
        BY <1>1, <3>6
      <4> QED BY <3>1, <3>6, <4>1, Zenon
    <3>7. CASE ~In(i, Len(t))
      <4>1. ~In(i, Len(s)) /\ i # last
        BY <1>1, <3>7
      <4> QED BY <3>1, <3>2, <3>7, <4>1, Zenon
    <3>8. In(i, Len(t)) => (In(i, Len(s)) /\ i # Len(s) + 1) \/ i = Len(s) + 1
                           \/ (i \in Int /\ Len(s) + 1 < i /\ i < last) \/ i = last
      <4>1. Len(s) \in Nat /\ Len(t) \in Nat
        BY <1>1
      <4> QED BY <4>1, Between, Zenon DEF last
    <3> HIDE DEF In
    <3> QED BY <3>3, <3>4, <3>5, <3>6, <3>7, <3>8, Zenon
  <2>2. Ends(s) \subseteq 1 .. Len(s) + 1
    BY EndsFinite
  <2>3. last \notin Ends(s) /\ \A i \in Ends(s) : i < last
    BY <1>1, <2>2
  <2> QED BY <2>1, <2>3, Zenon
<1> HIDE DEF last
<1>5. \A i \in Ends(s) : Before(t, i) = Before(s, i)
  <2>1. Ends(s) \subseteq 1 .. Len(s) + 1
    BY EndsFinite
  <2>2. \A i \in Ends(s) : ~(last < i)
    <3>1. last \in Int
      BY <1>1 DEF last
    <3> QED BY <1>1, <1>4, <2>1, <3>1
  <2> QED BY <1>4, <2>2 DEF Before
<1>6. Cardinality(Commas(t)) = n + 1
  <2>1. Cardinality(Ends(t)) = Cardinality(Ends(s)) + 1
    BY <1>4, EndsFinite, FS_AddElement
  <2> QED BY <1>2, <2>1
<1>7. Rank(t)[last] = n + 1 /\ last \in Ends(t)
  BY <1>1, <1>6, CommasCounted DEF last
<1>8. ASSUME NEW k \in 0 .. n PROVE EndsOf(t, k) = EndsOf(s, k) /\ EndsOf(s, k) # {}
  <2>1. EndsOf(t, k) = {i \in Ends(t) : Cardinality(Before(t, i)) = k}
        /\ EndsOf(s, k) = {i \in Ends(s) : Cardinality(Before(s, i)) = k}
    BY DEF EndsOf, Before
  <2>2. Cardinality(Before(t, last)) # k
    <3>1. Cardinality(Before(t, last)) = n + 1
      BY <1>7 DEF Rank
    <3> QED BY <1>2, <3>1
  <2>3. k \in Nat /\ k < Cardinality(Ends(s))
    BY <1>2
  <2> QED BY <1>4, <1>5, <2>1, <2>2, <2>3, EndsCounted
<1>9. \A k \in 0 .. n : EndOf(t, k) = EndOf(s, k) /\ EndOf(s, k) \in 1 .. Len(s) + 1
  <2> TAKE k \in 0 .. n
  <2>1. EndOf(s, k) \in EndsOf(s, k)
    BY <1>8 DEF EndOf
  <2>2. EndOf(s, k) \in Ends(s)
    BY <2>1, Zenon DEF EndsOf
  <2>3. EndOf(t, k) = EndOf(s, k)
    BY <1>8, Zenon DEF EndOf
  <2> QED BY <2>2, <2>3, EndsFinite
<1>10. ASSUME NEW k \in 0 .. n PROVE field_at(t, k) = field_at(s, k)
  <2>1. StartOf(t, k) = StartOf(s, k)
    <3>1. CASE k = 0
      BY <3>1, Zenon DEF StartOf
    <3>2. CASE k # 0
      <4>1. k - 1 \in 0 .. n
        BY <1>2, <3>2
      <4> QED BY <1>9, <3>2, <4>1, Zenon DEF StartOf
    <3> QED BY <3>1, <3>2
  <2> DEFINE a == StartOf(s, k)
             b == EndOf(s, k) - 1
  <2>2. a \in Int /\ 1 <= a
    <3>1. CASE k = 0
      BY <3>1 DEF StartOf
    <3>2. CASE k # 0
      <4>1. k - 1 \in 0 .. n
        BY <1>2, <3>2
      <4>2. EndOf(s, k - 1) \in 1 .. Len(s) + 1 /\ a = EndOf(s, k - 1) + 1
        BY <1>9, <3>2, <4>1, Zenon DEF StartOf
      <4> QED BY <1>1, <4>2
    <3> QED BY <3>1, <3>2
  <2>3. b \in Int /\ b <= Len(s)
    BY <1>1, <1>9
  <2>4. field_at(t, k) = SubSeq(t, a, b) /\ field_at(s, k) = SubSeq(s, a, b)
    BY <1>8, <1>9, <2>1, Zenon DEF field_at
  <2> HIDE DEF a, b
  <2>5. SubSeq(t, a, b) = SubSeq(s, a, b)
    <3>1. Len(s) <= Len(t) /\ a \in Nat
      BY <1>1, <2>2
    <3> QED BY <1>1, <2>2, <2>3, <3>1, SameStart, Zenon
  <2> QED BY <2>4, <2>5, Zenon
<1>11. field_at(t, n + 1) = f
  <2>1. EndOf(t, n + 1) = last
    BY <1>1, <1>6, LastEnd, Zenon DEF last
  <2>2. EndsOf(t, n + 1) # {}
    <3>1. n + 1 \in Nat /\ n + 1 < Cardinality(Ends(t))
      BY <1>2, <1>6
    <3> QED BY <1>1, <3>1, EndsCounted, Zenon
  <2>3. StartOf(t, n + 1) = Len(s) + 2
    <3>1. n \in 0 .. n /\ n + 1 # 0 /\ (n + 1) - 1 = n
      BY <1>2
    <3>2. StartOf(t, n + 1) = EndOf(s, n) + 1
      BY <1>9, <3>1 DEF StartOf
    <3>3. EndOf(s, n) = Len(s) + 1
      BY LastEnd, Zenon
    <3> QED BY <1>1, <3>2, <3>3
  <2>4. field_at(t, n + 1) = SubSeq(t, Len(s) + 2, last - 1)
    BY <2>1, <2>2, <2>3, Zenon DEF field_at
  <2>5. last - 1 = Len(s) + 1 + Len(f)
    BY <1>1 DEF last
  <2>6. SubSeq(t, Len(s) + 2, Len(s) + 1 + Len(f)) = f
    BY <1>1
  <2> QED BY <2>4, <2>5, <2>6
<1> QED BY <1>1, <1>6, <1>10, <1>11, Zenon DEF NextField

\* The fold that puts a body together.
Built(tag, F)   == FoldLeft(LAMBDA s, f : Added(s, f), tag, F)
Builds(g, tag, F) == g = [s \in SUBSET DOMAIN F |->
                            IF s = {} THEN tag ELSE Added(g[s \ {Max(s)}], F[Max(s)])]

LEMMA NextIn == \A k, n \in Nat : k + 1 <= n => k + 1 \in 1 .. n /\ k \in 0 .. n /\ (k + 1) - 1 = k /\ k <= n
  OBVIOUS

\* A tag and n fields.
Parts(S, tag, F, n) == /\ Comma \in S /\ tag \in Seq(S) /\ n \in Nat
                       /\ DOMAIN F = 1 .. n /\ \A k \in 1 .. n : F[k] \in Seq(S)

InSteps(v, tag, F, n) == /\ v[0] = tag /\ v[n] = Built(tag, F)
                         /\ \A k \in 1 .. n : v[k] = Added(v[k - 1], F[k])

LEMMA BuiltInSteps ==
  ASSUME NEW S, NEW tag, NEW n, NEW F, Parts(S, tag, F, n)
  PROVE  \E v \in [0 .. n -> Seq(S)] : InSteps(v, tag, F, n)
<1> DEFINE V == Seq(S)
           g0 == CHOOSE g : Builds(g, tag, F)
           G  == [k \in 1 .. n |-> [x \in V |-> Added(x, F[k])]]
<1>0. Comma \in S /\ tag \in Seq(S) /\ n \in Nat /\ DOMAIN F = 1 .. n /\ \A k \in 1 .. n : F[k] \in Seq(S)
  BY Zenon DEF Parts
<1>nat. n \in Nat
  BY <1>0
<1>1. Built(tag, F) = g0[1 .. n]
  BY <1>0, Zenon DEF Built, FoldLeft, MapThenFoldSet, Builds
<1>2. ASSUME NEW k \in 1 .. n, NEW x \in V PROVE Added(x, F[k]) \in V
  BY <1>0 DEF Added
<1>3. tag \in V
  BY <1>0
<1> HIDE DEF V
<1>4. Keeps(G, 1 .. n, V) /\ \A k \in 1 .. n : \A x \in V : G[k][x] = Added(x, F[k])
  BY <1>2 DEF Keeps
<1> HIDE DEF G
<1>5. PICK g \in [SUBSET (1 .. n) -> V] : FoldsLeft(g, n, G, tag)
  BY <1>0, <1>3, <1>4, FoldLeftExists
<1>6. \A s \in SUBSET (1 .. n) : s # {} => Max(s) \in 1 .. n /\ s \ {Max(s)} \in SUBSET (1 .. n)
  BY <1>0, MaxIs
<1>7. Builds(g, tag, F)
  <2>1. \A s \in SUBSET (1 .. n) :
          g[s] = IF s = {} THEN tag ELSE Added(g[s \ {Max(s)}], F[Max(s)])
    BY <1>4, <1>5, <1>6 DEF FoldsLeft
  <2>2. g = [s \in SUBSET (1 .. n) |-> g[s]]
    OBVIOUS
  <2> QED BY <1>0, <2>1, <2>2, Zenon DEF Builds
<1>8. Builds(g0, tag, F)
  BY <1>7, Zenon
<1> HIDE DEF g0
<1>9. g0[1 .. 0] = tag
  <2>1. 1 .. 0 = {} /\ {} \in SUBSET (1 .. n)
    OBVIOUS
  <2> QED BY <1>0, <1>8, <2>1 DEF Builds
<1>10. ASSUME NEW k \in 1 .. n PROVE g0[1 .. k] = Added(g0[1 .. k - 1], F[k])
  <2>1. 1 .. k \in SUBSET (1 .. n)
    BY <1>nat
  <2>2. Max(1 .. k) = k /\ (1 .. k) \ {k} = 1 .. k - 1 /\ (1 .. k) # {}
    BY <1>0, MaxIs
  <2> QED BY <1>0, <1>8, <2>1, <2>2 DEF Builds
<1> DEFINE T == {k \in Nat : k <= n => g0[1 .. k] \in V}
<1>11. \A k \in Nat : k <= n => g0[1 .. k] \in V
  <2>1. 0 \in T
    BY <1>3, <1>9
  <2>2. ASSUME NEW k \in Nat, k \in T PROVE k + 1 \in T
    <3> SUFFICES ASSUME k + 1 <= n PROVE g0[1 .. k + 1] \in V
      OBVIOUS
    <3>0. k + 1 \in 1 .. n /\ (k + 1) - 1 = k /\ k <= n
      BY <1>0, NextIn, Zenon
    <3>1. g0[1 .. k] \in V
      BY <2>2, <3>0, Zenon
    <3>2. g0[1 .. k + 1] = Added(g0[1 .. k], F[k + 1])
      BY <1>10, <3>0, Zenon
    <3>3. Added(g0[1 .. k], F[k + 1]) \in V
      BY <1>2, <3>0, <3>1, Zenon
    <3> QED BY <3>2, <3>3
  <2> HIDE DEF T
  <2>3. Nat \subseteq T
    BY <2>1, <2>2, InductionOnSets
  <2> QED BY <2>3 DEF T
<1> DEFINE v == [k \in 0 .. n |-> g0[1 .. k]]
<1>12. v \in [0 .. n -> V] /\ v[0] = tag /\ v[n] = Built(tag, F)
  BY <1>0, <1>1, <1>9, <1>11
<1>13. ASSUME NEW k \in 1 .. n PROVE v[k] = Added(v[k - 1], F[k])
  <2>1. k \in 0 .. n /\ k - 1 \in 0 .. n
    BY <1>nat
  <2>2. v[k] = g0[1 .. k] /\ v[k - 1] = g0[1 .. k - 1]
    BY <2>1
  <2> QED BY <1>10, <2>2, Zenon
<1> HIDE DEF v
<1> QED BY <1>12, <1>13, Zenon DEF V, InSteps

\* A body that is put together from a tag and fields without commas has these
\* fields and no more, and begins with the tag and a comma.
HasFields(bs, tag, F, n) ==
  /\ Cardinality(Commas(bs)) = n
  /\ \A k \in 1 .. n : field_at(bs, k) = F[k]
  /\ Len(tag) <= Len(bs) /\ \A i \in 1 .. Len(tag) : bs[i] = tag[i]
  /\ n # 0 => Len(tag) + 1 <= Len(bs) /\ bs[Len(tag) + 1] = Comma

LEMMA BuiltHasFields ==
  ASSUME NEW S, NEW tag, NEW n, NEW F, Parts(S, tag, F, n),
         \A i \in 1 .. Len(tag) : tag[i] # Comma,
         \A k \in 1 .. n : \A i \in DOMAIN F[k] : F[k][i] # Comma
  PROVE  Built(tag, F) \in Seq(S) /\ HasFields(Built(tag, F), tag, F, n)
<1>0. Comma \in S /\ tag \in Seq(S) /\ n \in Nat /\ DOMAIN F = 1 .. n /\ \A k \in 1 .. n : F[k] \in Seq(S)
  BY Zenon DEF Parts
<1>1. PICK v \in [0 .. n -> Seq(S)] : /\ v[0] = tag /\ v[n] = Built(tag, F)
                                      /\ \A k \in 1 .. n : v[k] = Added(v[k - 1], F[k])
  <2>1. PICK v \in [0 .. n -> Seq(S)] : InSteps(v, tag, F, n)
    BY BuiltInSteps, Zenon
  <2> QED BY <2>1, Zenon DEF InSteps
<1> DEFINE T == {k \in Nat : k <= n => HasFields(v[k], tag, F, k)}
<1>2. 0 \in T
  <2>1. Commas(tag) = {}
    <3>1. DOMAIN tag = 1 .. Len(tag)
      BY <1>0
    <3> QED BY <3>1, Zenon DEF Commas, Comma
  <2>2. Cardinality(Commas(tag)) = 0
    BY <2>1, FS_EmptySet
  <2>3. HasFields(tag, tag, F, 0)
    <3>1. Len(tag) <= Len(tag) /\ \A k \in 1 .. 0 : field_at(tag, k) = F[k]
      BY <1>0
    <3> QED BY <2>2, <3>1, Zenon DEF HasFields
  <2> QED BY <1>0, <1>1, <2>3
<1>3. ASSUME NEW k \in Nat, k \in T PROVE k + 1 \in T
  <2> SUFFICES ASSUME k + 1 <= n PROVE HasFields(v[k + 1], tag, F, k + 1)
    OBVIOUS
  <2> DEFINE s == v[k]
             f == F[k + 1]
             t == Added(s, f)
  <2>1. k + 1 \in 1 .. n /\ k \in 0 .. n /\ (k + 1) - 1 = k
    BY <1>0, NextIn, Zenon
  <2>2. v[k + 1] = t
    BY <1>1, <2>1
  <2>3. HasFields(s, tag, F, k)
    <3>1. k <= n
      BY <1>0, NextIn, Zenon
    <3> QED BY <1>3, <3>1, Zenon
  <2>4. s \in Seq(S) /\ f \in Seq(S) /\ \A i \in DOMAIN f : f[i] # Comma
    BY <1>0, <1>1, <2>1
  <2> HIDE DEF s, f, T
  <2>5. k = Cardinality(Commas(s)) /\ t = Added(s, f)
    BY <2>3, Zenon DEF HasFields
  <2> HIDE DEF t
  <2>comma. Comma \in S
    BY <1>0
  <2>6. /\ t \in Seq(S) /\ Cardinality(Commas(t)) = k + 1
        /\ \A j \in 0 .. k : field_at(t, j) = field_at(s, j)
        /\ field_at(t, k + 1) = f
    <3>1. NextField(S, s, f, t, k)
      BY <2>4, <2>5, <2>comma, AppendField, Zenon
    <3> QED BY <3>1, Zenon DEF NextField
  <2>7. Appended(S, s, Comma, f, t)
    BY <2>4, <2>5, <2>comma, ThreeTexts DEF Added
  <2>8. ASSUME NEW j \in 1 .. k + 1 PROVE field_at(t, j) = F[j]
    <3>1. CASE j = k + 1
      BY <2>6, <3>1, Zenon DEF f
    <3>2. CASE j # k + 1
      <4>1. j \in 0 .. k /\ j \in 1 .. k
        BY <3>2
      <4> QED BY <2>3, <2>6, <4>1, Zenon DEF HasFields
    <3> QED BY <3>1, <3>2
  <2>9. /\ Len(tag) <= Len(s) /\ \A i \in 1 .. Len(tag) : s[i] = tag[i]
        /\ k # 0 => Len(tag) + 1 <= Len(s) /\ s[Len(tag) + 1] = Comma
    BY <2>3, Zenon DEF HasFields
  <2>10. /\ Len(t) = Len(s) + 1 + Len(f) /\ Len(s) \in Nat /\ Len(f) \in Nat /\ Len(tag) \in Nat
         /\ \A i \in 1 .. Len(s) : t[i] = s[i]
         /\ t[Len(s) + 1] = Comma
    <3>1. Len(tag) \in Nat
      BY <1>0
    <3> QED BY <2>7, <3>1, Zenon DEF Appended
  <2>11. Len(tag) <= Len(t) /\ \A i \in 1 .. Len(tag) : t[i] = tag[i]
    <3>1. Len(tag) <= Len(t) /\ \A i \in 1 .. Len(tag) : i \in 1 .. Len(s)
      BY <2>9, <2>10
    <3> QED BY <2>9, <2>10, <3>1, Zenon
  <2>12. Len(tag) + 1 <= Len(t) /\ t[Len(tag) + 1] = Comma
    <3>1. CASE k = 0
      <4>1. s = tag
        BY <1>1, <3>1, Zenon DEF s
      <4>2. Len(s) + 1 <= Len(t)
        BY <2>10
      <4> QED BY <2>10, <4>1, <4>2, Zenon
    <3>2. CASE k # 0
      <4>1. Len(tag) + 1 <= Len(t) /\ Len(tag) + 1 \in 1 .. Len(s)
        BY <2>9, <2>10, <3>2
      <4> QED BY <2>9, <2>10, <3>2, <4>1, Zenon
    <3> QED BY <3>1, <3>2
  <2>13. HasFields(t, tag, F, k + 1)
    BY <2>6, <2>8, <2>11, <2>12, Zenon DEF HasFields
  <2> QED BY <2>2, <2>13, Zenon
<1> HIDE DEF T
<1>4. n \in T
  BY <1>0, <1>2, <1>3, InductionOnSets
<1>5. n <= n /\ n \in 0 .. n
  BY <1>0
<1> QED BY <1>1, <1>4, <1>5 DEF T

\* What is not there is not found.
LEMMA NoMoreFields ==
  ASSUME NEW S, NEW bs \in Seq(S), NEW k \in Nat, k > Cardinality(Commas(bs))
  PROVE  field_at(bs, k) = NULL
<1>1. ~(k < Cardinality(Ends(bs)))
  BY CommasCounted
<1>2. EndsOf(bs, k) = {}
  BY <1>1, EndsCounted, Zenon
<1> QED BY <1>2, Zenon DEF field_at
-----------------------------------------------------------------------------
(* The fields of a message, and what each of them is read as.              *)

\* The characters of a body; a field has no comma among them.
Symbols == STRING \cup Chars \cup {"S", "N", "W", "E", "A", "M", "R", "C", "G", ","}
Texts   == {f \in Seq(Symbols) : \A i \in DOMAIN f : f[i] # Comma}

LEMMA SymbolsAre ==
  /\ Chars \subseteq Symbols \ {Comma} /\ Character \subseteq Symbols \ {Comma} /\ Comma \in Symbols
  /\ {"S", "N", "W", "E", "A", "M", "R", "C", "G"} \subseteq Symbols \ {Comma}
<1>1. /\ "S" # "," /\ "N" # "," /\ "W" # "," /\ "E" # "," /\ "A" # ","
      /\ "M" # "," /\ "R" # "," /\ "C" # "," /\ "G" # ","
  BY Zenon
<1>2. {"S", "N", "W", "E", "A", "M", "R", "C", "G"} \subseteq Symbols \ {Comma}
  BY <1>1, Zenon DEF Symbols, Comma
<1>3. Chars \subseteq Symbols \ {Comma}
  BY CharsAreNoCommas, Zenon DEF Symbols, Comma
<1> QED BY <1>2, <1>3, Zenon DEF Symbols, Comma, Character

LEMMA TextsAre ==
  /\ \A f \in Seq(Chars) : f \in Texts
  /\ \A c \in Symbols \ {Comma} : <<c>> \in Texts /\ <<c>> # <<>> /\ <<c>>[1] = c
  /\ <<>> \in Texts
<1>1. ASSUME NEW f \in Seq(Chars) PROVE f \in Texts
  <2>1. \A i \in DOMAIN f : f[i] \in Chars
    OBVIOUS
  <2>2. f \in Seq(Symbols)
    <3>1. Chars \subseteq Symbols
      BY SymbolsAre, Zenon
    <3> QED BY <3>1
  <2>3. \A i \in DOMAIN f : f[i] # Comma
    BY <2>1, SymbolsAre, Zenon
  <2> QED BY <2>2, <2>3, Zenon DEF Texts
<1>2. ASSUME NEW c \in Symbols \ {Comma} PROVE <<c>> \in Texts /\ <<c>> # <<>> /\ <<c>>[1] = c
  <2> DEFINE f == <<c>>
  <2>1. f \in Seq(Symbols) /\ DOMAIN f = {1} /\ f[1] = c /\ f # <<>>
    OBVIOUS
  <2> HIDE DEF f
  <2>2. f \in Texts
    BY <2>1, Zenon DEF Texts
  <2> QED BY <2>1, <2>2 DEF f
<1>3. <<>> \in Texts
  <2> DEFINE f == <<>>
  <2>1. f \in Seq(Symbols) /\ DOMAIN f = {}
    OBVIOUS
  <2> HIDE DEF f
  <2>2. f \in Texts
    BY <2>1, Zenon DEF Texts
  <2> QED BY <2>2 DEF f
<1> QED BY <1>1, <1>2, <1>3, Zenon

\* What a message is made of.
LEMMA MessageIs ==
  ASSUME NEW m \in Message
  PROVE  /\ m.type \in Type /\ m.talker \in [1 .. 2 -> Character] /\ m.pad \in Nat
         /\ m.fix.time \in [h : TwoDigits, m : TwoDigits, s : TwoDigits]
         /\ m.fix.date \in [d : TwoDigits, m : TwoDigits, y : TwoDigits]
         /\ m.fix.lat \in Latitude /\ m.fix.lon \in Longitude /\ m.fix.alt \in Written
         /\ m.fix.speed \in FourDigits /\ m.fix.course \in FourDigits /\ m.fix.dop \in FourDigits
         /\ m.fix.sats \in TwoDigits
         /\ m.fix.valid \in Character /\ m.fix.quality \in Character
         /\ m.fix.mode \in Character /\ m.fix.dim \in Character
         /\ "odd" \notin DOMAIN m
<1>1. /\ m.type \in Type /\ m.talker \in [1 .. 2 -> Character] /\ m.pad \in Nat /\ m.fix \in Fix
      /\ DOMAIN m = {"type", "talker", "fix", "lacks", "pad"}
  BY DEF Message
<1>2. "odd" \notin {"type", "talker", "fix", "lacks", "pad"}
  OBVIOUS
<1>3. Fix = [time : [h : TwoDigits, m : TwoDigits, s : TwoDigits],
             date : [d : TwoDigits, m : TwoDigits, y : TwoDigits],
             lat : Latitude, lon : Longitude,
             speed : FourDigits, course : FourDigits, dop : FourDigits, alt : Written, sats : TwoDigits,
             valid : Character, quality : Character, mode : Character, dim : Character]
  BY DEF Fix, Latitude, Longitude, Written
<1>4. /\ m.fix.time \in [h : TwoDigits, m : TwoDigits, s : TwoDigits]
      /\ m.fix.date \in [d : TwoDigits, m : TwoDigits, y : TwoDigits]
      /\ m.fix.lat \in Latitude /\ m.fix.lon \in Longitude /\ m.fix.alt \in Written
      /\ m.fix.speed \in FourDigits /\ m.fix.course \in FourDigits /\ m.fix.dop \in FourDigits
      /\ m.fix.sats \in TwoDigits
      /\ m.fix.valid \in Character /\ m.fix.quality \in Character
      /\ m.fix.mode \in Character /\ m.fix.dim \in Character
  BY <1>1, <1>3
<1> QED BY <1>1, <1>2, <1>4, Zenon

\* The text of a part of a message, or none.
Unsaid(m, part, text) == IF part \in m.lacks THEN <<>> ELSE text

TimeText(m)   == Unsaid(m, "time", Triple(m.fix.time.h, m.fix.time.m, m.fix.time.s) \o <<".", "0", "0">>)
DateText(m)   == Unsaid(m, "date", Triple(m.fix.date.d, m.fix.date.m, m.fix.date.y))
LatText(m)    == Unsaid(m, "position", Dmm(m.fix.lat, 2))
NsText(m)     == Unsaid(m, "position", <<IF m.fix.lat < 0 THEN "S" ELSE "N">>)
LonText(m)    == Unsaid(m, "position", Dmm(m.fix.lon, 3))
EwText(m)     == Unsaid(m, "position", <<IF m.fix.lon < 0 THEN "W" ELSE "E">>)
SpeedText(m)  == Unsaid(m, "speed", Zeros(m.pad) \o Tenths(m.fix.speed))
CourseText(m) == Unsaid(m, "course", Tenths(m.fix.course))
DopText(m)    == Unsaid(m, "dop", Tenths(m.fix.dop))
AltText(m)    == Unsaid(m, "altitude", Tenths(m.fix.alt))
SatsText(m)   == Unsaid(m, "sats", Digits(m.fix.sats, 2))

\* How a field is read, and one that is empty.
ReadTime(f)   == IF f = <<>> THEN NoTime ELSE parse_hms(f)
ReadDate(f)   == IF f = <<>> THEN NoDate ELSE parse_dmy(f)
ReadNumber(f) == IF f = <<>> THEN 0 ELSE field_to_double(f)
ReadCount(f)  == (IF f = <<>> THEN 0 ELSE field_to_int(f)) % 256
ReadChar(f)   == IF f = <<>> THEN "" ELSE f[1]
ReadAngle(f, side, negative) == LET a == IF f = <<>> THEN 0 ELSE parse_dmm(f)
                                IN  IF ReadChar(side) \in negative THEN -a ELSE a

LEMMA TimeAndDateSaid ==
  ASSUME NEW m \in Message
  PROVE  /\ TimeText(m) \in Texts /\ ReadTime(TimeText(m)) = Unless(m, "time", NoTime, m.fix.time)
         /\ DateText(m) \in Texts /\ ReadDate(DateText(m)) = Unless(m, "date", NoDate, m.fix.date)
<1> DEFINE s == Triple(m.fix.time.h, m.fix.time.m, m.fix.time.s) \o <<".", "0", "0">>
           t == Triple(m.fix.date.d, m.fix.date.m, m.fix.date.y)
<1>1. /\ m.fix.time \in [h : TwoDigits, m : TwoDigits, s : TwoDigits]
      /\ m.fix.date \in [d : TwoDigits, m : TwoDigits, y : TwoDigits]
  BY MessageIs, Zenon
<1>2. s \in Seq(Chars) /\ s # <<>> /\ parse_hms(s) = m.fix.time
  BY <1>1, TimeRead, Zenon
<1>3. t \in Seq(Chars) /\ t # <<>> /\ parse_dmy(t) = m.fix.date
  BY <1>1, DateRead, Zenon
<1>4. TimeText(m) = (IF "time" \in m.lacks THEN <<>> ELSE s) /\ DateText(m) = (IF "date" \in m.lacks THEN <<>> ELSE t)
  BY Zenon DEF TimeText, DateText, Unsaid
<1> HIDE DEF s, t
<1>5. TimeText(m) \in Texts /\ DateText(m) \in Texts
  BY <1>2, <1>3, <1>4, TextsAre, Zenon
<1>6. ReadTime(TimeText(m)) = Unless(m, "time", NoTime, m.fix.time)
  BY <1>2, <1>4, Zenon DEF ReadTime, Unless
<1>7. ReadDate(DateText(m)) = Unless(m, "date", NoDate, m.fix.date)
  BY <1>3, <1>4, Zenon DEF ReadDate, Unless
<1> QED BY <1>5, <1>6, <1>7

LEMMA NumbersSaid ==
  ASSUME NEW m \in Message
  PROVE  /\ SpeedText(m) \in Texts
         /\ ReadNumber(SpeedText(m)) = IF m.pad + 5 > 23 THEN 0 ELSE Unless(m, "speed", 0, Exact(m.fix.speed))
         /\ CourseText(m) \in Texts /\ ReadNumber(CourseText(m)) = Unless(m, "course", 0, Exact(m.fix.course))
         /\ DopText(m) \in Texts /\ ReadNumber(DopText(m)) = Unless(m, "dop", 0, Exact(m.fix.dop))
         /\ AltText(m) \in Texts /\ ReadNumber(AltText(m)) = Unless(m, "altitude", 0, Exact(m.fix.alt))
<1>1. /\ m.fix.speed \in Written /\ m.fix.speed >= 0 /\ m.pad \in Nat
      /\ m.fix.course \in Written /\ m.fix.dop \in Written /\ m.fix.alt \in Written
  BY FourDigitsAreWritten, MessageIs, Zenon
<1> DEFINE long == m.pad + 5 > 23
           speed == Zeros(m.pad) \o Tenths(m.fix.speed)
<1>2. /\ speed \in Seq(Chars) /\ speed # <<>>
      /\ field_to_double(speed) = IF long THEN 0 ELSE Exact(m.fix.speed)
  BY <1>1, PaddedRead, Zenon
<1> HIDE DEF long
<1>3. SpeedText(m) \in Texts /\ ReadNumber(SpeedText(m)) = IF long THEN 0 ELSE Unless(m, "speed", 0, Exact(m.fix.speed))
  <2>1. SpeedText(m) = IF "speed" \in m.lacks THEN <<>> ELSE speed
    BY Zenon DEF SpeedText, Unsaid
  <2> HIDE DEF speed
  <2>2. SpeedText(m) \in Texts
    BY <1>2, <2>1, TextsAre, Zenon
  <2>3. ReadNumber(SpeedText(m)) = IF "speed" \in m.lacks THEN 0 ELSE field_to_double(speed)
    BY <1>2, <2>1, Zenon DEF ReadNumber
  <2> QED BY <1>2, <2>2, <2>3, Zenon DEF Unless
<1>4. ASSUME NEW n \in Written, NEW part
      PROVE  /\ Unsaid(m, part, Tenths(n)) \in Texts
             /\ ReadNumber(Unsaid(m, part, Tenths(n))) = Unless(m, part, 0, Exact(n))
  <2>1. Tenths(n) \in Seq(Chars) /\ Tenths(n) # <<>> /\ field_to_double(Tenths(n)) = Exact(n)
    BY TenthsRead, Zenon
  <2>2. Unsaid(m, part, Tenths(n)) \in Texts
    BY <2>1, TextsAre, Zenon DEF Unsaid
  <2> QED BY <2>1, <2>2, Zenon DEF Unsaid, Unless, ReadNumber
<1>5. CourseText(m) \in Texts /\ ReadNumber(CourseText(m)) = Unless(m, "course", 0, Exact(m.fix.course))
  BY <1>1, <1>4, Zenon DEF CourseText
<1>6. DopText(m) \in Texts /\ ReadNumber(DopText(m)) = Unless(m, "dop", 0, Exact(m.fix.dop))
  BY <1>1, <1>4, Zenon DEF DopText
<1>7. AltText(m) \in Texts /\ ReadNumber(AltText(m)) = Unless(m, "altitude", 0, Exact(m.fix.alt))
  BY <1>1, <1>4, Zenon DEF AltText
<1> QED BY <1>3, <1>5, <1>6, <1>7 DEF long

LEMMA SatsSaid ==
  ASSUME NEW m \in Message
  PROVE  SatsText(m) \in Texts /\ ReadCount(SatsText(m)) = Unless(m, "sats", 0, m.fix.sats)
<1> DEFINE s == Digits(m.fix.sats, 2)
           k == 256
<1>1. s \in Seq(Chars) /\ s # <<>> /\ field_to_int(s) % k = m.fix.sats
  <2>1. m.fix.sats \in TwoDigits
    BY MessageIs, Zenon
  <2> QED BY <2>1, SatsRead
<1>2. SatsText(m) = IF "sats" \in m.lacks THEN <<>> ELSE s
  BY Zenon DEF SatsText, Unsaid
<1>3. \A f : ReadCount(f) = (IF f = <<>> THEN 0 ELSE field_to_int(f)) % k
  BY DEF ReadCount
<1>4. 0 % k = 0
  OBVIOUS
<1> HIDE DEF s, k
<1>5. SatsText(m) \in Texts
  BY <1>1, <1>2, TextsAre, Zenon
<1>6. ReadCount(SatsText(m)) = Unless(m, "sats", 0, m.fix.sats)
  <2>1. CASE "sats" \in m.lacks
    <3>1. ReadCount(SatsText(m)) = 0 % k
      BY <1>2, <1>3, <2>1, Zenon
    <3> QED BY <1>4, <2>1, <3>1, Zenon DEF Unless
  <2>2. CASE "sats" \notin m.lacks
    <3>1. ReadCount(SatsText(m)) = field_to_int(s) % k
      BY <1>1, <1>2, <1>3, <2>2, Zenon
    <3> QED BY <1>1, <2>2, <3>1, Zenon DEF Unless
  <2> QED BY <2>1, <2>2
<1> QED BY <1>5, <1>6

\* A hemisphere, and the angle with its sign.
Said(m, f, g, a, minus, plus, negative) ==
  /\ f \in Texts /\ g \in Texts
  /\ ReadAngle(f, g, negative) = Unless(m, "position", 0, a)
  /\ ReadChar(g) = Sign(m, a, minus, plus)

LEMMA Signs == \A a \in Int : (a < 0 => -Abs(a) = a) /\ (~(a < 0) => Abs(a) = a)
  BY DEF Abs

LEMMA NoSign == -0 = 0
<1>1. \A a, b \in Int : a + b = b => -a = a
  OBVIOUS
<1>2. 0 \in Int /\ 1 \in Int /\ 0 + 1 = 1
  OBVIOUS
<1> QED BY <1>1, <1>2, Zenon

LEMMA SideSaid ==
  ASSUME NEW m, NEW a \in Int, NEW minus \in Symbols \ {Comma}, NEW plus \in Symbols \ {Comma},
         NEW negative, minus \in negative, plus \notin negative, "" \notin negative,
         NEW w, Dmm(a, w) \in Seq(Chars) /\ Dmm(a, w) # <<>> /\ parse_dmm(Dmm(a, w)) = Abs(a)
  PROVE  Said(m, Unsaid(m, "position", Dmm(a, w)), Unsaid(m, "position", <<IF a < 0 THEN minus ELSE plus>>),
              a, minus, plus, negative)
<1> DEFINE c == IF a < 0 THEN minus ELSE plus
           f == Unsaid(m, "position", Dmm(a, w))
           g == Unsaid(m, "position", <<c>>)
<1>1. c \in Symbols \ {Comma}
  OBVIOUS
<1>2. <<c>> \in Texts /\ <<c>> # <<>> /\ <<c>>[1] = c
  BY <1>1, TextsAre, Zenon
<1>3. (a < 0 => -Abs(a) = a) /\ (~(a < 0) => Abs(a) = a) /\ -0 = 0
  BY Signs, NoSign, Zenon
<1>4. (a < 0 => c = minus) /\ (~(a < 0) => c = plus)
  OBVIOUS
<1> HIDE DEF c
<1>5. CASE "position" \in m.lacks
  <2>1. f = <<>> /\ g = <<>>
    BY <1>5, Zenon DEF Unsaid
  <2>2. ReadChar(g) = ""
    BY <2>1, Zenon DEF ReadChar
  <2>3. ReadAngle(f, g, negative) = 0
    BY <2>1, <2>2, Zenon DEF ReadAngle
  <2>4. Unless(m, "position", 0, a) = 0 /\ Sign(m, a, minus, plus) = ""
    BY <1>5, Zenon DEF Unless, Sign
  <2>5. f \in Texts /\ g \in Texts
    BY <2>1, TextsAre, Zenon
  <2> QED BY <2>2, <2>3, <2>4, <2>5, Zenon DEF Said, c
<1>6. CASE "position" \notin m.lacks
  <2>1. f = Dmm(a, w) /\ g = <<c>>
    BY <1>6, Zenon DEF Unsaid
  <2>2. ReadChar(g) = c
    BY <1>2, <2>1, Zenon DEF ReadChar
  <2>3. ReadAngle(f, g, negative) = IF c \in negative THEN -Abs(a) ELSE Abs(a)
    BY <2>1, <2>2, Zenon DEF ReadAngle
  <2>4. ReadAngle(f, g, negative) = a
    BY <1>3, <1>4, <2>3, Zenon
  <2>5. Unless(m, "position", 0, a) = a /\ Sign(m, a, minus, plus) = c
    BY <1>6, Zenon DEF Unless, Sign, c
  <2>6. f \in Texts /\ g \in Texts
    BY <1>2, <2>1, TextsAre, Zenon
  <2> QED BY <2>2, <2>4, <2>5, <2>6, Zenon DEF Said, c
<1> QED BY <1>5, <1>6

LEMMA PositionSaid ==
  ASSUME NEW m \in Message
  PROVE  /\ LatText(m) \in Texts /\ NsText(m) \in Texts /\ LonText(m) \in Texts /\ EwText(m) \in Texts
         /\ ReadAngle(LatText(m), NsText(m), {"S", "s"}) = Unless(m, "position", 0, m.fix.lat)
         /\ ReadAngle(LonText(m), EwText(m), {"W", "w"}) = Unless(m, "position", 0, m.fix.lon)
         /\ ReadChar(NsText(m)) = Sign(m, m.fix.lat, "S", "N")
         /\ ReadChar(EwText(m)) = Sign(m, m.fix.lon, "W", "E")
<1>1. m.fix.lat \in Int /\ m.fix.lat \in Latitude /\ m.fix.lon \in Int /\ m.fix.lon \in Longitude
  <2>1. (\A a \in Latitude : a \in Int) /\ \A a \in Longitude : a \in Int
    BY AnglesAre, SMT
  <2> QED BY <2>1, MessageIs, Zenon
<1>2. /\ "N" \notin {"S", "s"} /\ "" \notin {"S", "s"} /\ "S" \in {"S", "s"}
      /\ "E" \notin {"W", "w"} /\ "" \notin {"W", "w"} /\ "W" \in {"W", "w"}
  BY Zenon
<1>3. {"S", "N", "W", "E"} \subseteq Symbols \ {Comma}
  BY SymbolsAre, Zenon
<1> DEFINE lat == m.fix.lat
           lon == m.fix.lon
<1>4. Dmm(lat, 2) \in Seq(Chars) /\ Dmm(lat, 2) # <<>> /\ parse_dmm(Dmm(lat, 2)) = Abs(lat)
  BY <1>1, AngleRead
<1>5. Dmm(lon, 3) \in Seq(Chars) /\ Dmm(lon, 3) # <<>> /\ parse_dmm(Dmm(lon, 3)) = Abs(lon)
  BY <1>1, AngleRead
<1> HIDE DEF lat, lon
<1>6. /\ LatText(m) \in Texts /\ NsText(m) \in Texts
      /\ ReadAngle(LatText(m), NsText(m), {"S", "s"}) = Unless(m, "position", 0, lat)
      /\ ReadChar(NsText(m)) = Sign(m, lat, "S", "N")
  <2>1. lat \in Int /\ "S" \in Symbols \ {Comma} /\ "N" \in Symbols \ {Comma}
    BY <1>1, <1>3, Zenon DEF lat
  <2>2. Said(m, Unsaid(m, "position", Dmm(lat, 2)), Unsaid(m, "position", <<IF lat < 0 THEN "S" ELSE "N">>),
             lat, "S", "N", {"S", "s"})
    BY <1>2, <1>4, <2>1, SideSaid, Zenon
  <2> QED BY <2>2, Zenon DEF Said, LatText, NsText, lat
<1>7. /\ LonText(m) \in Texts /\ EwText(m) \in Texts
      /\ ReadAngle(LonText(m), EwText(m), {"W", "w"}) = Unless(m, "position", 0, lon)
      /\ ReadChar(EwText(m)) = Sign(m, lon, "W", "E")
  <2>1. lon \in Int /\ "W" \in Symbols \ {Comma} /\ "E" \in Symbols \ {Comma}
    BY <1>1, <1>3, Zenon DEF lon
  <2>2. Said(m, Unsaid(m, "position", Dmm(lon, 3)), Unsaid(m, "position", <<IF lon < 0 THEN "W" ELSE "E">>),
             lon, "W", "E", {"W", "w"})
    BY <1>2, <1>5, <2>1, SideSaid, Zenon
  <2> QED BY <2>2, Zenon DEF Said, LonText, EwText, lon
<1> QED BY <1>6, <1>7 DEF lat, lon

\* The id of a type, after the two characters of the talker.
Letters(type) == CASE type = "RMC" -> <<"R", "M", "C">>
                   [] type = "GGA" -> <<"G", "G", "A">>
                   [] type = "GSA" -> <<"G", "S", "A">>

LEMMA LettersAre ==
  ASSUME NEW type \in Type
  PROVE  /\ \E a, b, c \in Symbols \ {Comma} : Letters(type) = <<a, b, c>>
         /\ type = "RMC" => Letters(type) = <<"R", "M", "C">>
         /\ type = "GGA" => Letters(type) = <<"G", "G", "A">>
         /\ type = "GSA" => Letters(type) = <<"G", "S", "A">>
<1>1. /\ type = "RMC" => Letters(type) = <<"R", "M", "C">>
      /\ type = "GGA" => Letters(type) = <<"G", "G", "A">>
      /\ type = "GSA" => Letters(type) = <<"G", "S", "A">>
  BY Zenon DEF Letters
<1>2. type = "RMC" \/ type = "GGA" \/ type = "GSA"
  BY Zenon DEF Type
<1>3. /\ "R" \in Symbols \ {Comma} /\ "M" \in Symbols \ {Comma} /\ "C" \in Symbols \ {Comma}
      /\ "G" \in Symbols \ {Comma} /\ "A" \in Symbols \ {Comma} /\ "S" \in Symbols \ {Comma}
  BY SymbolsAre, Zenon
<1> QED BY <1>1, <1>2, <1>3, Zenon

LEMMA Suffix ==
  ASSUME NEW S, NEW k \in Seq(S), NEW r \in Seq(S)
  PROVE  SubSeq(k \o r, Len(k) + 1, Len(k) + Len(r)) = r /\ Len(k \o r) = Len(k) + Len(r)
  OBVIOUS

LEMMA FunctionIsSeq ==
  ASSUME NEW S, NEW n \in Nat, NEW k \in [1 .. n -> S]
  PROVE  k \in Seq(S) /\ Len(k) = n
<1>1. k \in Seq(S)
  OBVIOUS
<1>2. DOMAIN k = 1 .. n /\ DOMAIN k = 1 .. Len(k) /\ Len(k) \in Nat
  BY <1>1
<1> QED BY <1>1, <1>2

\* Two characters of a talker and three of a type.
IsTag(tag, letters) == /\ tag \in Seq(Symbols) /\ Len(tag) = 5 /\ SubSeq(tag, 3, 5) = letters
                       /\ \A i \in 1 .. Len(tag) : tag[i] # Comma

LEMMA TwoAndThree ==
  ASSUME NEW k \in [1 .. 2 -> Symbols \ {Comma}], NEW a \in Symbols \ {Comma},
         NEW b \in Symbols \ {Comma}, NEW c \in Symbols \ {Comma}
  PROVE  IsTag(k \o <<a, b, c>>, <<a, b, c>>)
<1> DEFINE r == <<a, b, c>>
           T == Symbols \ {Comma}
           t == k \o r
<1>1. r \in Seq(T) /\ Len(r) = 3
  OBVIOUS
<1>2. k \in Seq(T) /\ Len(k) = 2
  <2>1. 2 \in Nat
    OBVIOUS
  <2> QED BY <2>1, FunctionIsSeq, Zenon
<1>3. T \subseteq Symbols /\ \A x \in T : x # Comma
  OBVIOUS
<1> HIDE DEF r, T
<1>4. Len(k) + 1 = 3 /\ Len(k) + Len(r) = 5
  BY <1>1, <1>2
<1>5. SubSeq(t, 3, 5) = r /\ Len(t) = 5
  BY <1>1, <1>2, <1>4, Suffix, ZenonT(60)
<1>6. t \in Seq(T)
  BY <1>1, <1>2
<1> HIDE DEF t
<1>7. \A i \in 1 .. Len(t) : t[i] \in T
  BY <1>6
<1>8. t \in Seq(Symbols)
  BY <1>3, <1>6
<1> QED BY <1>3, <1>5, <1>7, <1>8, Zenon DEF IsTag, t, r

LEMMA TagIs ==
  ASSUME NEW m \in Message
  PROVE  IsTag(Tag(m.talker, m.type), Letters(m.type))
<1>1. m.type \in Type /\ m.talker \in [1 .. 2 -> Character]
  BY MessageIs, Zenon
<1>2. Tag(m.talker, m.type) = m.talker \o Letters(m.type)
  BY Zenon DEF Tag, Letters
<1>3. PICK a, b, c \in Symbols \ {Comma} : Letters(m.type) = <<a, b, c>>
  BY <1>1, LettersAre
<1> DEFINE k == m.talker
<1>4. k \in [1 .. 2 -> Symbols \ {Comma}]
  BY <1>1, SymbolsAre
<1> HIDE DEF k
<1>5. IsTag(k \o <<a, b, c>>, <<a, b, c>>)
  BY <1>4, TwoAndThree, Zenon
<1> QED BY <1>2, <1>3, <1>5, Zenon DEF k

\* A body is put together from its tag and its fields, and its type is found in it.
LEMMA BodyIsBuilt == \A m : BodyOf(m) = Built(Tag(m.talker, m.type), FieldsOf(m))
  BY Zenon DEF BodyOf, Built, Added, Comma

Fielded(F, n) == n \in Nat \ {0} /\ DOMAIN F = 1 .. n /\ \A k \in 1 .. n : F[k] \in Texts

\* The fields of a body are F and no more.
Holds(bs, F, n) == /\ Cardinality(Commas(bs)) = n
                   /\ \A k \in 1 .. n : field_at(bs, k) = F[k]
                   /\ \A k \in Nat : k > n => field_at(bs, k) = NULL

LEMMA TypeFound ==
  ASSUME NEW S, NEW bs \in Seq(S), NEW tag \in Seq(S), NEW type \in Type,
         Len(tag) = 5, 6 <= Len(bs), bs[6] = Comma, \A i \in 1 .. 5 : bs[i] = tag[i],
         SubSeq(tag, 3, 5) = Letters(type)
  PROVE  TypeOf(bs) = type
<1>1. SubSeq(bs, 3, 5) = Letters(type)
  BY SameStart
<1>2. ~(Len(bs) < 6) /\ bs[6] = ","
  <2>1. Len(bs) \in Nat
    OBVIOUS
  <2>2. ~(Len(bs) < 6)
    BY <2>1
  <2> QED BY <2>2, Zenon DEF Comma
<1>3. <<"R", "M", "C">> # <<"G", "G", "A">> /\ <<"R", "M", "C">> # <<"G", "S", "A">>
      /\ <<"G", "G", "A">> # <<"G", "S", "A">>
  OBVIOUS
<1>4. type = "RMC" \/ type = "GGA" \/ type = "GSA"
  BY Zenon DEF Type
<1> QED BY <1>1, <1>2, <1>3, <1>4, LettersAre, Zenon DEF TypeOf

LEMMA BodyHolds ==
  ASSUME NEW m \in Message, NEW n, Fielded(FieldsOf(m), n)
  PROVE  TypeOf(BodyOf(m)) = m.type /\ Holds(BodyOf(m), FieldsOf(m), n)
<1> DEFINE tag == Tag(m.talker, m.type)
           F   == FieldsOf(m)
           bs  == BodyOf(m)
<1>1. /\ tag \in Seq(Symbols) /\ Len(tag) = 5 /\ (\A i \in 1 .. Len(tag) : tag[i] # Comma)
      /\ SubSeq(tag, 3, 5) = Letters(m.type)
  BY TagIs, Zenon DEF IsTag
<1>2. bs = Built(tag, F)
  BY BodyIsBuilt, Zenon
<1>3. Comma \in Symbols /\ m.type \in Type
  BY SymbolsAre, MessageIs, Zenon
<1> HIDE DEF tag, F, bs
<1>4. /\ n \in Nat /\ n # 0 /\ DOMAIN F = 1 .. n
      /\ \A k \in 1 .. n : F[k] \in Seq(Symbols) /\ \A i \in DOMAIN F[k] : F[k][i] # Comma
  BY Zenon DEF Fielded, Texts, F
<1>5. Parts(Symbols, tag, F, n)
  BY <1>1, <1>3, <1>4, Zenon DEF Parts
<1>6. bs \in Seq(Symbols) /\ HasFields(bs, tag, F, n)
  BY <1>1, <1>2, <1>4, <1>5, BuiltHasFields, Zenon
<1>7. Cardinality(Commas(bs)) = n /\ \A k \in 1 .. n : field_at(bs, k) = F[k]
  BY <1>6, Zenon DEF HasFields
<1>8. \A k \in Nat : k > n => field_at(bs, k) = NULL
  BY <1>6, <1>7, NoMoreFields, Zenon
<1>9. Len(tag) + 1 <= Len(bs) /\ bs[Len(tag) + 1] = Comma /\ \A i \in 1 .. Len(tag) : bs[i] = tag[i]
  BY <1>4, <1>6, Zenon DEF HasFields
<1>10. 6 <= Len(bs) /\ bs[6] = Comma /\ \A i \in 1 .. 5 : bs[i] = tag[i]
  BY <1>1, <1>9
<1>11. TypeOf(bs) = m.type
  BY <1>1, <1>3, <1>6, <1>10, TypeFound
<1> QED BY <1>7, <1>8, <1>11, Zenon DEF Holds, bs, F

ModeFields(m) == IF "mode" \in m.lacks THEN <<>> ELSE <<<<m.fix.mode>>>>
Satellites(m) == [k \in 1 .. 12 |-> IF k <= m.fix.sats THEN Digits(k, 2) ELSE <<>>]

LEMMA FieldsOfRmc ==
  ASSUME NEW m, m.type = "RMC"
  PROVE  FieldsOf(m) = <<TimeText(m), <<m.fix.valid>>>> \o <<LatText(m), NsText(m), LonText(m), EwText(m)>>
                         \o <<SpeedText(m), CourseText(m), DateText(m), <<>>, <<>>>> \o ModeFields(m)
  BY Zenon DEF FieldsOf, TimeText, LatText, NsText, LonText, EwText, SpeedText, CourseText, DateText,
               Unsaid, ModeFields

LEMMA FieldsOfGga ==
  ASSUME NEW m, m.type = "GGA"
  PROVE  FieldsOf(m) = <<TimeText(m)>> \o <<LatText(m), NsText(m), LonText(m), EwText(m)>>
                         \o <<<<m.fix.quality>>, SatsText(m), DopText(m), AltText(m),
                              <<"M">>, Tenths(4), <<"M">>, <<>>, <<>>>>
  BY Zenon DEF FieldsOf, TimeText, LatText, NsText, LonText, EwText, SatsText, DopText, AltText, Unsaid

LEMMA FieldsOfGsa ==
  ASSUME NEW m, m.type = "GSA"
  PROVE  FieldsOf(m) = <<<<"A">>, <<m.fix.dim>>>> \o Satellites(m) \o <<DopText(m), DopText(m), DopText(m)>>
  BY Zenon DEF FieldsOf, DopText, Unsaid, Satellites

\* Where the fields of the three lists are.
RmcPlaced(T, F, a1, a2, a3, a4, a5, a6, a7, a8, a9) ==
  /\ F \in Seq(T) /\ Len(F) = 11
  /\ F[1] = a1 /\ F[2] = a2 /\ F[3] = a3 /\ F[4] = a4 /\ F[5] = a5 /\ F[6] = a6
  /\ F[7] = a7 /\ F[8] = a8 /\ F[9] = a9

GgaPlaced(T, F, a1, a2, a3, a4, a5, a6, a7, a8, a9) ==
  /\ F \in Seq(T) /\ Len(F) = 14
  /\ F[1] = a1 /\ F[2] = a2 /\ F[3] = a3 /\ F[4] = a4 /\ F[5] = a5
  /\ F[6] = a6 /\ F[7] = a7 /\ F[8] = a8 /\ F[9] = a9

GsaPlaced(T, F, a, b, d) == /\ F \in Seq(T) /\ Len(F) = 17
                            /\ F[1] = a /\ F[2] = b /\ F[15] = d /\ F[16] = d /\ F[17] = d

LEMMA RmcPlaces ==
  ASSUME NEW T, NEW a1 \in T, NEW a2 \in T, NEW a3 \in T, NEW a4 \in T, NEW a5 \in T, NEW a6 \in T,
         NEW a7 \in T, NEW a8 \in T, NEW a9 \in T, NEW a10 \in T, NEW a11 \in T,
         NEW F, F = <<a1, a2>> \o <<a3, a4, a5, a6>> \o <<a7, a8, a9, a10, a11>>
  PROVE  RmcPlaced(T, F, a1, a2, a3, a4, a5, a6, a7, a8, a9)
<1>1. F \in Seq(T)
  OBVIOUS
<1>2. Len(F) = 11
  OBVIOUS
<1>3. F[1] = a1 /\ F[2] = a2 /\ F[3] = a3 /\ F[4] = a4 /\ F[5] = a5 /\ F[6] = a6
  OBVIOUS
<1>4. F[7] = a7 /\ F[8] = a8 /\ F[9] = a9
  OBVIOUS
<1> QED BY <1>1, <1>2, <1>3, <1>4, Zenon DEF RmcPlaced

LEMMA GgaPlaces ==
  ASSUME NEW T, NEW a1 \in T, NEW a2 \in T, NEW a3 \in T, NEW a4 \in T, NEW a5 \in T, NEW a6 \in T,
         NEW a7 \in T, NEW a8 \in T, NEW a9 \in T, NEW a10 \in T, NEW a11 \in T, NEW a12 \in T, NEW a13 \in T,
         NEW F, F = <<a1>> \o <<a2, a3, a4, a5>> \o <<a6, a7, a8, a9, a10, a11, a12, a13, a13>>
  PROVE  GgaPlaced(T, F, a1, a2, a3, a4, a5, a6, a7, a8, a9)
<1>1. F \in Seq(T)
  OBVIOUS
<1>2. Len(F) = 14
  OBVIOUS
<1>3. F[1] = a1 /\ F[2] = a2 /\ F[3] = a3 /\ F[4] = a4 /\ F[5] = a5
  OBVIOUS
<1>4. F[6] = a6 /\ F[7] = a7 /\ F[8] = a8 /\ F[9] = a9
  OBVIOUS
<1> QED BY <1>1, <1>2, <1>3, <1>4, Zenon DEF GgaPlaced

\* One list after another.
Follows(S, a, m, b, n, t) == /\ t \in Seq(S) /\ Len(t) = m + n
                             /\ \A i \in 1 .. m : t[i] = a[i]
                             /\ \A i \in 1 .. n : t[m + i] = b[i]

LEMMA Following ==
  ASSUME NEW S, NEW a \in Seq(S), NEW b \in Seq(S), NEW m, m = Len(a), NEW n, n = Len(b)
  PROVE  Follows(S, a, m, b, n, a \o b)
<1>1. a \o b \in Seq(S) /\ Len(a \o b) = m + n
  OBVIOUS
<1>2. \A i \in 1 .. m : (a \o b)[i] = a[i]
  OBVIOUS
<1>3. \A i \in 1 .. n : (a \o b)[m + i] = b[i]
  OBVIOUS
<1> QED BY <1>1, <1>2, <1>3, Zenon DEF Follows

LEMMA GsaPlaces ==
  ASSUME NEW T, NEW a \in T, NEW b \in T, NEW s \in Seq(T), Len(s) = 12, NEW d \in T,
         NEW F, F = <<a, b>> \o s \o <<d, d, d>>
  PROVE  GsaPlaced(T, F, a, b, d)
<1> DEFINE p == <<a, b>>
           q == <<d, d, d>>
           u == p \o s
<1>1. p \in Seq(T) /\ 2 = Len(p) /\ p[1] = a /\ p[2] = b
  OBVIOUS
<1>2. q \in Seq(T) /\ 3 = Len(q) /\ q[1] = d /\ q[2] = d /\ q[3] = d
  OBVIOUS
<1>3. F = u \o q /\ 12 = Len(s)
  OBVIOUS
<1> HIDE DEF p, q
<1>4. Follows(T, p, 2, s, 12, u)
  BY <1>1, <1>3, Following, Zenon
<1>5. u \in Seq(T) /\ 14 = Len(u) /\ u[1] = p[1] /\ u[2] = p[2]
  <2> HIDE DEF u
  <2>1. u \in Seq(T) /\ Len(u) = 2 + 12 /\ \A i \in 1 .. 2 : u[i] = p[i]
    BY <1>4, Zenon DEF Follows
  <2>2. 2 + 12 = 14 /\ 1 \in 1 .. 2 /\ 2 \in 1 .. 2
    OBVIOUS
  <2> QED BY <2>1, <2>2, Zenon
<1> HIDE DEF u
<1>6. Follows(T, u, 14, q, 3, F)
  BY <1>2, <1>3, <1>5, Following, Zenon
<1>7. /\ F \in Seq(T) /\ Len(F) = 14 + 3
      /\ \A i \in 1 .. 14 : F[i] = u[i]
      /\ \A i \in 1 .. 3 : F[14 + i] = q[i]
  BY <1>6, Zenon DEF Follows
<1>8. /\ 14 + 3 = 17 /\ 1 \in 1 .. 14 /\ 2 \in 1 .. 14 /\ 1 \in 1 .. 3 /\ 2 \in 1 .. 3 /\ 3 \in 1 .. 3
      /\ 14 + 1 = 15 /\ 14 + 2 = 16
  OBVIOUS
<1> QED BY <1>1, <1>2, <1>5, <1>7, <1>8, ZenonT(60) DEF GsaPlaced

\* The other fields are texts, too.
LEMMA OthersSaid ==
  ASSUME NEW m \in Message
  PROVE  /\ <<m.fix.valid>> \in Texts /\ <<m.fix.quality>> \in Texts /\ <<m.fix.mode>> \in Texts
         /\ <<m.fix.dim>> \in Texts /\ <<"M">> \in Texts /\ <<"A">> \in Texts /\ <<>> \in Texts
         /\ Tenths(4) \in Texts
         /\ Satellites(m) \in Seq(Texts) /\ Len(Satellites(m)) = 12
<1>1. /\ m.fix.valid \in Symbols \ {Comma} /\ m.fix.quality \in Symbols \ {Comma}
      /\ m.fix.mode \in Symbols \ {Comma} /\ m.fix.dim \in Symbols \ {Comma}
  BY MessageIs, SymbolsAre, Zenon
<1>2. "M" \in Symbols \ {Comma} /\ "A" \in Symbols \ {Comma}
  BY SymbolsAre, Zenon
<1>3. /\ <<m.fix.valid>> \in Texts /\ <<m.fix.quality>> \in Texts /\ <<m.fix.mode>> \in Texts
      /\ <<m.fix.dim>> \in Texts /\ <<"M">> \in Texts /\ <<"A">> \in Texts /\ <<>> \in Texts
  BY <1>1, <1>2, TextsAre, Zenon
<1>4. Tenths(4) \in Texts
  <2>1. 4 \in FourDigits
    BY SMT DEF FourDigits
  <2>2. 4 \in Written
    BY <2>1, FourDigitsAreWritten, Zenon
  <2> DEFINE n == 4
  <2> HIDE DEF n
  <2>3. Tenths(n) \in Seq(Chars)
    BY <2>2, TenthsRead, Zenon DEF n
  <2> QED BY <2>3, TextsAre, Zenon DEF n
<1>5. \A k \in 1 .. 12 : k \in Nat
  OBVIOUS
<1>6. \A k \in 1 .. 12 : Digits(k, 2) \in Texts
  <2>1. \A k \in Nat : Digits(k, 2) \in Seq(Figures)
    BY DigitsOf, Zenon
  <2>2. \A s \in Seq(Figures) : s \in Seq(Chars)
    <3>1. Figures \subseteq Chars
      BY CharsAreNoCommas, Zenon
    <3> QED BY <3>1
  <2> QED BY <1>5, <2>1, <2>2, TextsAre, Zenon
<1> DEFINE n == 12
<1>7. n \in Nat
  OBVIOUS
<1>8. \A k \in 1 .. n : (IF k <= m.fix.sats THEN Digits(k, 2) ELSE <<>>) \in Texts
  BY <1>3, <1>6, Zenon
<1>9. Satellites(m) = [k \in 1 .. n |-> IF k <= m.fix.sats THEN Digits(k, 2) ELSE <<>>]
  BY Zenon DEF Satellites
<1>10. Satellites(m) \in [1 .. n -> Texts]
  <2> HIDE DEF n
  <2> QED BY <1>8, <1>9
<1>11. Satellites(m) \in Seq(Texts) /\ Len(Satellites(m)) = n
  <2> HIDE DEF n
  <2> QED BY <1>7, <1>10, FunctionIsSeq, Zenon
<1> QED BY <1>3, <1>4, <1>11, Zenon

LEMMA ListFielded ==
  ASSUME NEW F \in Seq(Texts), NEW n \in Nat, n # 0, Len(F) = n
  PROVE  Fielded(F, n)
<1>1. DOMAIN F = 1 .. n /\ \A k \in 1 .. n : F[k] \in Texts
  OBVIOUS
<1> QED BY <1>1, Zenon DEF Fielded

\* The fields of a position sentence.
RmcFields(m, F) ==
  /\ F[1] = TimeText(m) /\ F[2] = <<m.fix.valid>>
  /\ F[3] = LatText(m) /\ F[4] = NsText(m) /\ F[5] = LonText(m) /\ F[6] = EwText(m)
  /\ F[7] = SpeedText(m) /\ F[8] = CourseText(m) /\ F[9] = DateText(m)

LEMMA RmcListed ==
  ASSUME NEW m \in Message, m.type = "RMC"
  PROVE  /\ RmcFields(m, FieldsOf(m))
         /\ "mode" \in m.lacks => Fielded(FieldsOf(m), 11)
         /\ "mode" \notin m.lacks => Fielded(FieldsOf(m), 12) /\ FieldsOf(m)[12] = <<m.fix.mode>>
<1> DEFINE G == <<TimeText(m), <<m.fix.valid>>>> \o <<LatText(m), NsText(m), LonText(m), EwText(m)>>
                  \o <<SpeedText(m), CourseText(m), DateText(m), <<>>, <<>>>>
           F == FieldsOf(m)
           p == <<<<m.fix.mode>>>>
<1>1. F = G \o ModeFields(m)
  BY FieldsOfRmc, Zenon
<1>2. /\ TimeText(m) \in Texts /\ <<m.fix.valid>> \in Texts
      /\ LatText(m) \in Texts /\ NsText(m) \in Texts /\ LonText(m) \in Texts /\ EwText(m) \in Texts
      /\ SpeedText(m) \in Texts /\ CourseText(m) \in Texts /\ DateText(m) \in Texts /\ <<>> \in Texts
      /\ <<m.fix.mode>> \in Texts
  BY TimeAndDateSaid, PositionSaid, NumbersSaid, OthersSaid, Zenon
<1>3. G \in Seq(Texts) /\ Len(G) = 11 /\ RmcFields(m, G)
  <2>1. RmcPlaced(Texts, G, TimeText(m), <<m.fix.valid>>, LatText(m), NsText(m), LonText(m), EwText(m),
                  SpeedText(m), CourseText(m), DateText(m))
    BY <1>2, RmcPlaces, Zenon
  <2> HIDE DEF G
  <2> QED BY <2>1, Zenon DEF RmcPlaced, RmcFields
<1> HIDE DEF G, F
<1>4. CASE "mode" \in m.lacks
  <2>1. F = G \o <<>>
    BY <1>1, <1>4, Zenon DEF ModeFields
  <2>2. F = G
    BY <1>3, <2>1
  <2>3. 11 \in Nat /\ 11 # 0
    OBVIOUS
  <2>4. Fielded(F, 11)
    BY <1>3, <2>2, <2>3, ListFielded, Zenon
  <2> QED BY <1>3, <1>4, <2>2, <2>4, Zenon DEF F
<1>5. CASE "mode" \notin m.lacks
  <2>1. F = G \o p
    BY <1>1, <1>5, Zenon DEF ModeFields
  <2>2. p \in Seq(Texts) /\ Len(p) = 1 /\ p[1] = <<m.fix.mode>>
    BY <1>2
  <2> HIDE DEF p
  <2>3. Follows(Texts, G, 11, p, 1, F)
    BY <1>3, <2>1, <2>2, Following, Zenon
  <2>4. /\ F \in Seq(Texts) /\ Len(F) = 11 + 1
        /\ \A i \in 1 .. 11 : F[i] = G[i]
        /\ \A i \in 1 .. 1 : F[11 + i] = p[i]
    BY <2>3, Zenon DEF Follows
  <2>5. 11 + 1 = 12 /\ 12 \in Nat /\ 12 # 0 /\ 1 \in 1 .. 1
    OBVIOUS
  <2>6. Fielded(F, 12) /\ F[12] = <<m.fix.mode>>
    BY <2>2, <2>4, <2>5, ListFielded, Zenon
  <2>7. /\ 1 \in 1 .. 11 /\ 2 \in 1 .. 11 /\ 3 \in 1 .. 11 /\ 4 \in 1 .. 11 /\ 5 \in 1 .. 11
        /\ 6 \in 1 .. 11 /\ 7 \in 1 .. 11 /\ 8 \in 1 .. 11 /\ 9 \in 1 .. 11
    OBVIOUS
  <2>8. RmcFields(m, F)
    BY <1>3, <2>4, <2>7, Zenon DEF RmcFields
  <2> QED BY <1>5, <2>6, <2>8, Zenon DEF F
<1> QED BY <1>4, <1>5

GgaFields(m, F) ==
  /\ F[1] = TimeText(m)
  /\ F[2] = LatText(m) /\ F[3] = NsText(m) /\ F[4] = LonText(m) /\ F[5] = EwText(m)
  /\ F[6] = <<m.fix.quality>> /\ F[7] = SatsText(m) /\ F[8] = DopText(m) /\ F[9] = AltText(m)

LEMMA GgaListed ==
  ASSUME NEW m \in Message, m.type = "GGA"
  PROVE  GgaFields(m, FieldsOf(m)) /\ Fielded(FieldsOf(m), 14)
<1> DEFINE F == FieldsOf(m)
<1>1. F = <<TimeText(m)>> \o <<LatText(m), NsText(m), LonText(m), EwText(m)>>
            \o <<<<m.fix.quality>>, SatsText(m), DopText(m), AltText(m),
                 <<"M">>, Tenths(4), <<"M">>, <<>>, <<>>>>
  BY FieldsOfGga, Zenon
<1>2. /\ TimeText(m) \in Texts /\ LatText(m) \in Texts /\ NsText(m) \in Texts
      /\ LonText(m) \in Texts /\ EwText(m) \in Texts /\ <<m.fix.quality>> \in Texts
      /\ SatsText(m) \in Texts /\ DopText(m) \in Texts /\ AltText(m) \in Texts
      /\ <<"M">> \in Texts /\ Tenths(4) \in Texts /\ <<>> \in Texts
  BY TimeAndDateSaid, PositionSaid, NumbersSaid, SatsSaid, OthersSaid, Zenon
<1> HIDE DEF F
<1>3. F \in Seq(Texts) /\ Len(F) = 14 /\ GgaFields(m, F)
  <2>1. GgaPlaced(Texts, F, TimeText(m), LatText(m), NsText(m), LonText(m), EwText(m),
                  <<m.fix.quality>>, SatsText(m), DopText(m), AltText(m))
    BY <1>1, <1>2, GgaPlaces, Zenon
  <2> QED BY <2>1, Zenon DEF GgaPlaced, GgaFields
<1>4. 14 \in Nat /\ 14 # 0
  OBVIOUS
<1> QED BY <1>3, <1>4, ListFielded, Zenon DEF F

GsaFields(m, F) == /\ F[1] = <<"A">> /\ F[2] = <<m.fix.dim>>
                   /\ F[15] = DopText(m) /\ F[16] = DopText(m) /\ F[17] = DopText(m)

LEMMA GsaListed ==
  ASSUME NEW m \in Message, m.type = "GSA"
  PROVE  GsaFields(m, FieldsOf(m)) /\ Fielded(FieldsOf(m), 17)
<1> DEFINE F == FieldsOf(m)
<1>1. F = <<<<"A">>, <<m.fix.dim>>>> \o Satellites(m) \o <<DopText(m), DopText(m), DopText(m)>>
  BY FieldsOfGsa, Zenon
<1>2. <<"A">> \in Texts /\ <<m.fix.dim>> \in Texts /\ DopText(m) \in Texts
  BY NumbersSaid, OthersSaid, Zenon
<1>3. Satellites(m) \in Seq(Texts) /\ Len(Satellites(m)) = 12
  BY OthersSaid, Zenon
<1> HIDE DEF F
<1>4. F \in Seq(Texts) /\ Len(F) = 17 /\ GsaFields(m, F)
  <2>1. GsaPlaced(Texts, F, <<"A">>, <<m.fix.dim>>, DopText(m))
    BY <1>1, <1>2, <1>3, GsaPlaces, Zenon
  <2> QED BY <2>1, Zenon DEF GsaPlaced, GsaFields
<1>5. 17 \in Nat /\ 17 # 0
  OBVIOUS
<1> QED BY <1>4, <1>5, ListFielded, Zenon DEF F

\* What the decoders make of a field that is there, and of one that is not.
ReadAs(bs, k, f) ==
  /\ Parsed(bs, k, parse_hms, NoTime) = ReadTime(f)
  /\ Parsed(bs, k, parse_dmy, NoDate) = ReadDate(f)
  /\ Number(bs, k) = ReadNumber(f)
  /\ Parsed(bs, k, field_to_int, 0) = (IF f = <<>> THEN 0 ELSE field_to_int(f))
  /\ Char(bs, k) = ReadChar(f)
  /\ Parsed(bs, k, parse_dmm, 0) = (IF f = <<>> THEN 0 ELSE parse_dmm(f))

LEMMA FieldRead ==
  ASSUME NEW bs, NEW k, NEW f, field_at(bs, k) = f, f # NULL
  PROVE  ReadAs(bs, k, f)
<1>1. Given(bs, k) <=> f # <<>>
  BY Zenon DEF Given
<1>2. Parsed(bs, k, parse_hms, NoTime) = ReadTime(f)
  BY <1>1, Zenon DEF Parsed, ReadTime
<1>3. Parsed(bs, k, parse_dmy, NoDate) = ReadDate(f)
  BY <1>1, Zenon DEF Parsed, ReadDate
<1>4. Number(bs, k) = ReadNumber(f)
  BY <1>1, Zenon DEF Parsed, Number, ReadNumber
<1>5. Parsed(bs, k, field_to_int, 0) = (IF f = <<>> THEN 0 ELSE field_to_int(f))
  BY <1>1, Zenon DEF Parsed
<1>6. Char(bs, k) = ReadChar(f)
  BY <1>1, Zenon DEF Parsed, Char, First, ReadChar
<1>7. Parsed(bs, k, parse_dmm, 0) = (IF f = <<>> THEN 0 ELSE parse_dmm(f))
  BY <1>1, Zenon DEF Parsed
<1> QED BY <1>2, <1>3, <1>4, <1>5, <1>6, <1>7, Zenon DEF ReadAs

LEMMA CountRead ==
  ASSUME NEW bs, NEW k, NEW f, ReadAs(bs, k, f)
  PROVE  Parsed(bs, k, field_to_int, 0) % 256 = ReadCount(f)
<1>1. Parsed(bs, k, field_to_int, 0) = (IF f = <<>> THEN 0 ELSE field_to_int(f))
  BY Zenon DEF ReadAs
<1> DEFINE n == 256
<1>2. ReadCount(f) = (IF f = <<>> THEN 0 ELSE field_to_int(f)) % n
  BY DEF ReadCount
<1> HIDE DEF n
<1>3. Parsed(bs, k, field_to_int, 0) % n = ReadCount(f)
  BY <1>1, <1>2, Zenon
<1> QED BY <1>3 DEF n

AngleAs(bs, k, f, g) == \A negative : Angle(bs, k, negative) = ReadAngle(f, g, negative)

LEMMA AngleIsRead ==
  ASSUME NEW bs, NEW k, NEW f, NEW g, ReadAs(bs, k, f), ReadAs(bs, k + 1, g)
  PROVE  AngleAs(bs, k, f, g)
  BY Zenon DEF Angle, ReadAngle, ReadAs, AngleAs

LEMMA AbsentRead ==
  ASSUME NEW bs, NEW k, field_at(bs, k) = NULL
  PROVE  ~Given(bs, k)
  BY Zenon DEF Given

\* The decoders on the bodies of the three types.
Legible(bs, F, n) == /\ \A k \in 1 .. n : field_at(bs, k) = F[k] /\ F[k] # NULL
                     /\ \A k \in Nat : k > n => field_at(bs, k) = NULL

\* A character that is always said.
LEMMA CharSaid ==
  ASSUME NEW c \in Character
  PROVE  ReadChar(<<c>>) = c
<1>1. <<c>> # <<>> /\ <<c>>[1] = c
  BY TextsAre, SymbolsAre, Zenon
<1> QED BY <1>1, Zenon DEF ReadChar

LEMMA RmcRead ==
  ASSUME NEW m \in Message, m.type = "RMC", NEW bs,
         Legible(bs, FieldsOf(m), IF "mode" \in m.lacks THEN 11 ELSE 12)
  PROVE  decode_rmc(bs) = Meant(m)
<1> DEFINE F == FieldsOf(m)
           n == IF "mode" \in m.lacks THEN 11 ELSE 12
           x == m.fix
<1>1. \A k \in 1 .. 9 : ReadAs(bs, k, F[k])
  <2>1. \A k \in 1 .. 9 : k \in 1 .. n
    OBVIOUS
  <2>2. \A k \in 1 .. 9 : field_at(bs, k) = F[k] /\ F[k] # NULL
    BY <2>1, Zenon DEF Legible
  <2> QED BY <2>2, FieldRead, Zenon
<1>2. /\ 1 \in 1 .. 9 /\ 2 \in 1 .. 9 /\ 3 \in 1 .. 9 /\ 4 \in 1 .. 9 /\ 5 \in 1 .. 9
      /\ 6 \in 1 .. 9 /\ 7 \in 1 .. 9 /\ 8 \in 1 .. 9 /\ 9 \in 1 .. 9
      /\ 4 = 3 + 1 /\ 6 = 5 + 1
  OBVIOUS
<1>3. RmcFields(m, F) /\ x.valid \in Character
  BY RmcListed, MessageIs, Zenon
<1>4. /\ ReadAs(bs, 1, TimeText(m)) /\ ReadAs(bs, 2, <<x.valid>>)
      /\ ReadAs(bs, 3, LatText(m)) /\ ReadAs(bs, 4, NsText(m))
      /\ ReadAs(bs, 5, LonText(m)) /\ ReadAs(bs, 6, EwText(m))
      /\ ReadAs(bs, 7, SpeedText(m)) /\ ReadAs(bs, 8, CourseText(m)) /\ ReadAs(bs, 9, DateText(m))
  BY <1>1, <1>2, <1>3, Zenon DEF RmcFields
<1>5. Parsed(bs, 1, parse_hms, NoTime) = Unless(m, "time", NoTime, x.time)
  BY <1>4, TimeAndDateSaid, Zenon DEF ReadAs
<1>6. Char(bs, 2) = x.valid
  BY <1>3, <1>4, CharSaid, Zenon DEF ReadAs
<1>7. /\ Angle(bs, 3, {"S", "s"}) = Unless(m, "position", 0, x.lat)
      /\ Char(bs, 4) = Sign(m, x.lat, "S", "N")
  <2>1. Angle(bs, 3, {"S", "s"}) = ReadAngle(LatText(m), NsText(m), {"S", "s"})
    <3>1. ReadAs(bs, 3, LatText(m)) /\ ReadAs(bs, 3 + 1, NsText(m))
      BY <1>2, <1>4, Zenon
    <3>2. AngleAs(bs, 3, LatText(m), NsText(m))
      BY <3>1, AngleIsRead, Zenon
    <3> QED BY <3>2, Zenon DEF AngleAs
  <2>2. Char(bs, 4) = ReadChar(NsText(m))
    BY <1>4, Zenon DEF ReadAs
  <2> QED BY <2>1, <2>2, PositionSaid, Zenon
<1>8. /\ Angle(bs, 5, {"W", "w"}) = Unless(m, "position", 0, x.lon)
      /\ Char(bs, 6) = Sign(m, x.lon, "W", "E")
  <2>1. Angle(bs, 5, {"W", "w"}) = ReadAngle(LonText(m), EwText(m), {"W", "w"})
    <3>1. ReadAs(bs, 5, LonText(m)) /\ ReadAs(bs, 5 + 1, EwText(m))
      BY <1>2, <1>4, Zenon
    <3>2. AngleAs(bs, 5, LonText(m), EwText(m))
      BY <3>1, AngleIsRead, Zenon
    <3> QED BY <3>2, Zenon DEF AngleAs
  <2>2. Char(bs, 6) = ReadChar(EwText(m))
    BY <1>4, Zenon DEF ReadAs
  <2> QED BY <2>1, <2>2, PositionSaid, Zenon
<1>9. /\ Number(bs, 7) = IF m.pad + 5 > 23 THEN 0 ELSE Unless(m, "speed", 0, Exact(x.speed))
      /\ Number(bs, 8) = Unless(m, "course", 0, Exact(x.course))
  <2>1. Number(bs, 7) = ReadNumber(SpeedText(m)) /\ Number(bs, 8) = ReadNumber(CourseText(m))
    BY <1>4, Zenon DEF ReadAs
  <2> QED BY <2>1, NumbersSaid, Zenon
<1>10. Parsed(bs, 9, parse_dmy, NoDate) = Unless(m, "date", NoDate, x.date)
  BY <1>4, TimeAndDateSaid, Zenon DEF ReadAs
<1>11. Char(bs, 12) = Unless(m, "mode", "", x.mode)
  <2>1. CASE "mode" \in m.lacks
    <3>1. 12 \in Nat /\ 12 > 11
      OBVIOUS
    <3>2. field_at(bs, 12) = NULL
      BY <2>1, <3>1, Zenon DEF Legible
    <3>3. ~Given(bs, 12)
      BY <3>2, AbsentRead, Zenon
    <3>4. Char(bs, 12) = ""
      BY <3>3, Zenon DEF Char, Parsed
    <3> QED BY <2>1, <3>4, Zenon DEF Unless
  <2>2. CASE "mode" \notin m.lacks
    <3>1. 12 \in 1 .. 12
      OBVIOUS
    <3>2. field_at(bs, 12) = F[12] /\ F[12] # NULL /\ F[12] = <<x.mode>> /\ x.mode \in Character
      BY <2>2, <3>1, RmcListed, MessageIs, Zenon DEF Legible
    <3>3. ReadAs(bs, 12, <<x.mode>>)
      BY <3>2, FieldRead, Zenon
    <3> QED BY <2>2, <3>2, <3>3, CharSaid, Zenon DEF Unless, ReadAs
  <2> QED BY <2>1, <2>2
<1> QED BY <1>5, <1>6, <1>7, <1>8, <1>9, <1>10, <1>11, Zenon DEF decode_rmc, Meant

LEMMA GgaRead ==
  ASSUME NEW m \in Message, m.type = "GGA", NEW bs, Legible(bs, FieldsOf(m), 14)
  PROVE  decode_gga(bs) = Meant(m)
<1> DEFINE F == FieldsOf(m)
           x == m.fix
<1>1. \A k \in 1 .. 9 : ReadAs(bs, k, F[k])
  <2>1. \A k \in 1 .. 9 : k \in 1 .. 14
    OBVIOUS
  <2>2. \A k \in 1 .. 9 : field_at(bs, k) = F[k] /\ F[k] # NULL
    BY <2>1, Zenon DEF Legible
  <2> QED BY <2>2, FieldRead, Zenon
<1>2. /\ 1 \in 1 .. 9 /\ 2 \in 1 .. 9 /\ 3 \in 1 .. 9 /\ 4 \in 1 .. 9 /\ 5 \in 1 .. 9
      /\ 6 \in 1 .. 9 /\ 7 \in 1 .. 9 /\ 8 \in 1 .. 9 /\ 9 \in 1 .. 9
      /\ 3 = 2 + 1 /\ 5 = 4 + 1
  OBVIOUS
<1>3. GgaFields(m, F) /\ x.quality \in Character
  BY GgaListed, MessageIs, Zenon
<1>4. /\ ReadAs(bs, 1, TimeText(m))
      /\ ReadAs(bs, 2, LatText(m)) /\ ReadAs(bs, 3, NsText(m))
      /\ ReadAs(bs, 4, LonText(m)) /\ ReadAs(bs, 5, EwText(m))
      /\ ReadAs(bs, 6, <<x.quality>>) /\ ReadAs(bs, 7, SatsText(m))
      /\ ReadAs(bs, 8, DopText(m)) /\ ReadAs(bs, 9, AltText(m))
  BY <1>1, <1>2, <1>3, Zenon DEF GgaFields
<1>5. Parsed(bs, 1, parse_hms, NoTime) = Unless(m, "time", NoTime, x.time)
  BY <1>4, TimeAndDateSaid, Zenon DEF ReadAs
<1>6. /\ Angle(bs, 2, {"S", "s"}) = Unless(m, "position", 0, x.lat)
      /\ Char(bs, 3) = Sign(m, x.lat, "S", "N")
  <2>1. Angle(bs, 2, {"S", "s"}) = ReadAngle(LatText(m), NsText(m), {"S", "s"})
    <3>1. ReadAs(bs, 2, LatText(m)) /\ ReadAs(bs, 2 + 1, NsText(m))
      BY <1>2, <1>4, Zenon
    <3>2. AngleAs(bs, 2, LatText(m), NsText(m))
      BY <3>1, AngleIsRead, Zenon
    <3> QED BY <3>2, Zenon DEF AngleAs
  <2>2. Char(bs, 3) = ReadChar(NsText(m))
    BY <1>4, Zenon DEF ReadAs
  <2> QED BY <2>1, <2>2, PositionSaid, Zenon
<1>7. /\ Angle(bs, 4, {"W", "w"}) = Unless(m, "position", 0, x.lon)
      /\ Char(bs, 5) = Sign(m, x.lon, "W", "E")
  <2>1. Angle(bs, 4, {"W", "w"}) = ReadAngle(LonText(m), EwText(m), {"W", "w"})
    <3>1. ReadAs(bs, 4, LonText(m)) /\ ReadAs(bs, 4 + 1, EwText(m))
      BY <1>2, <1>4, Zenon
    <3>2. AngleAs(bs, 4, LonText(m), EwText(m))
      BY <3>1, AngleIsRead, Zenon
    <3> QED BY <3>2, Zenon DEF AngleAs
  <2>2. Char(bs, 5) = ReadChar(EwText(m))
    BY <1>4, Zenon DEF ReadAs
  <2> QED BY <2>1, <2>2, PositionSaid, Zenon
<1>8. Char(bs, 6) = x.quality
  BY <1>3, <1>4, CharSaid, Zenon DEF ReadAs
<1> DEFINE sats == Parsed(bs, 7, field_to_int, 0) % 256
<1>9. sats = Unless(m, "sats", 0, x.sats)
  <2>1. sats = ReadCount(SatsText(m))
    BY <1>4, CountRead
  <2> HIDE DEF sats
  <2> QED BY <2>1, SatsSaid, Zenon
<1>10. /\ Number(bs, 8) = Unless(m, "dop", 0, Exact(x.dop))
       /\ Number(bs, 9) = Unless(m, "altitude", 0, Exact(x.alt))
  <2>1. Number(bs, 8) = ReadNumber(DopText(m)) /\ Number(bs, 9) = ReadNumber(AltText(m))
    BY <1>4, Zenon DEF ReadAs
  <2> QED BY <2>1, NumbersSaid, Zenon
<1>11. decode_gga(bs) = [time |-> Parsed(bs, 1, parse_hms, NoTime),
                         lat_deg |-> Angle(bs, 2, {"S", "s"}), ns |-> Char(bs, 3),
                         lon_deg |-> Angle(bs, 4, {"W", "w"}), ew |-> Char(bs, 5),
                         fix_status |-> Char(bs, 6), sats_used |-> sats,
                         hdop |-> Number(bs, 8), altitude_m |-> Number(bs, 9)]
  BY SMT DEF decode_gga
<1> HIDE DEF sats
<1> QED BY <1>5, <1>6, <1>7, <1>8, <1>9, <1>10, <1>11, Zenon DEF Meant

LEMMA GsaRead ==
  ASSUME NEW m \in Message, m.type = "GSA", NEW bs, Legible(bs, FieldsOf(m), 17)
  PROVE  decode_gsa(bs) = Meant(m)
<1> DEFINE F == FieldsOf(m)
           x == m.fix
<1>1. \A k \in 1 .. 17 : ReadAs(bs, k, F[k])
  <2>1. \A k \in 1 .. 17 : field_at(bs, k) = F[k] /\ F[k] # NULL
    BY Zenon DEF Legible
  <2> QED BY <2>1, FieldRead, Zenon
<1>2. 1 \in 1 .. 17 /\ 2 \in 1 .. 17 /\ 15 \in 1 .. 17 /\ 16 \in 1 .. 17 /\ 17 \in 1 .. 17
  OBVIOUS
<1>3. GsaFields(m, F) /\ x.dim \in Character
  BY GsaListed, MessageIs, Zenon
<1>4. /\ ReadAs(bs, 1, <<"A">>) /\ ReadAs(bs, 2, <<x.dim>>)
      /\ ReadAs(bs, 15, DopText(m)) /\ ReadAs(bs, 16, DopText(m)) /\ ReadAs(bs, 17, DopText(m))
  BY <1>1, <1>2, <1>3, Zenon DEF GsaFields
<1>5. Char(bs, 1) = "A"
  <2>1. <<"A">> # <<>> /\ <<"A">>[1] = "A"
    BY TextsAre, SymbolsAre, Zenon
  <2> QED BY <1>4, <2>1, Zenon DEF ReadAs, ReadChar
<1>6. Char(bs, 2) = x.dim
  BY <1>3, <1>4, CharSaid, Zenon DEF ReadAs
<1>7. /\ Number(bs, 15) = ReadNumber(DopText(m)) /\ Number(bs, 16) = ReadNumber(DopText(m))
      /\ Number(bs, 17) = ReadNumber(DopText(m))
  BY <1>4, Zenon DEF ReadAs
<1>8. ReadNumber(DopText(m)) = Unless(m, "dop", 0, Exact(x.dop))
  BY NumbersSaid, Zenon
<1> QED BY <1>5, <1>6, <1>7, <1>8, Zenon DEF decode_gsa, Meant

\* How many fields a message has.
Count(m) == CASE m.type = "RMC" -> IF "mode" \in m.lacks THEN 11 ELSE 12
              [] m.type = "GGA" -> 14
              [] m.type = "GSA" -> 17

LEMMA FieldsListed ==
  ASSUME NEW m \in Message
  PROVE  Fielded(FieldsOf(m), Count(m))
<1>1. m.type = "RMC" \/ m.type = "GGA" \/ m.type = "GSA"
  BY MessageIs, Zenon DEF Type
<1>2. CASE m.type = "RMC"
  BY <1>2, RmcListed, Zenon DEF Count
<1>3. CASE m.type = "GGA"
  BY <1>3, GgaListed, Zenon DEF Count
<1>4. CASE m.type = "GSA"
  BY <1>4, GsaListed, Zenon DEF Count
<1> QED BY <1>1, <1>2, <1>3, <1>4

\* dispatch_line finds the type of the body of a message, and field_at its fields,
\* the last included, and nothing past it (nmea.c:45-67, 270-295).
THEOREM MessageLegible ==
  ASSUME FixAssumption, NEW m \in Messages
  PROVE  /\ m \in Message /\ TypeOf(BodyOf(m)) = m.type
         /\ Legible(BodyOf(m), FieldsOf(m), Count(m))
<1> DEFINE bs == BodyOf(m)
           F  == FieldsOf(m)
           n  == Count(m)
<1>1. m \in Message /\ bs \in Seq(STRING) /\ NULL \notin Seq(STRING)
  BY Zenon DEF FixAssumption
<1>2. Fielded(F, n)
  BY <1>1, FieldsListed, Zenon
<1>3. TypeOf(bs) = m.type /\ Holds(bs, F, n)
  BY <1>1, <1>2, BodyHolds, Zenon
<1>4. n \in Nat
  BY <1>2, Zenon DEF Fielded
<1> HIDE DEF bs, F, n
<1>5. \A k \in 1 .. n : field_at(bs, k) # NULL
  <2>1. \A k \in 0 .. n : field_at(bs, k) \in Seq(STRING)
    BY <1>1, <1>3, FieldsInOrder, Zenon DEF Holds
  <2>2. \A k \in 1 .. n : k \in 0 .. n
    BY <1>4
  <2> QED BY <1>1, <2>1, <2>2, Zenon
<1>6. Legible(bs, F, n)
  BY <1>3, <1>5, Zenon DEF Holds, Legible
<1> QED BY <1>1, <1>3, <1>6, Zenon DEF bs, F, n

\* What a decoder makes of the body of a message is what was meant.
LEMMA MessageRead ==
  ASSUME FixAssumption, NEW m \in Messages, NEW t \in Type, m.type = t
  PROVE  Decoded(t, BodyOf(m)) = Meant(m)
<1>1. m \in Message /\ Legible(BodyOf(m), FieldsOf(m), Count(m))
  BY MessageLegible, Zenon
<1>2. CASE t = "RMC"
  <2>1. Count(m) = IF "mode" \in m.lacks THEN 11 ELSE 12
    BY <1>2, Zenon DEF Count
  <2>2. decode_rmc(BodyOf(m)) = Meant(m)
    BY <1>1, <1>2, <2>1, RmcRead, Zenon
  <2> QED BY <1>2, <2>2, Zenon DEF Decoded
<1>3. CASE t = "GGA"
  <2>1. Count(m) = 14
    BY <1>3, Zenon DEF Count
  <2>2. decode_gga(BodyOf(m)) = Meant(m)
    BY <1>1, <1>3, <2>1, GgaRead, Zenon
  <2> QED BY <1>3, <2>2, Zenon DEF Decoded
<1>4. CASE t = "GSA"
  <2>1. Count(m) = 17
    BY <1>4, Zenon DEF Count
  <2>2. decode_gsa(BodyOf(m)) = Meant(m)
    BY <1>1, <1>4, <2>1, GsaRead, Zenon
  <2> QED BY <1>4, <2>2, Zenon DEF Decoded
<1> QED BY <1>2, <1>3, <1>4, Zenon DEF Type
-----------------------------------------------------------------------------
(* The snapshots and the messages that were dispatched.                    *)

\* A body is that of a message, or one that keeps to no standard.
Carried(m, bs) == \/ m \in Messages /\ bs = BodyOf(m)
                  \/ m = [type |-> TypeOf(bs), odd |-> TRUE]

\* A struct as it is after memset, or as it was decoded from the body of a message.
Cleared(t, m, x)      == m = NONE /\ x = Nothing(t)
DecodedOf(t, m, bs, x) == Carried(m, bs) /\ m.type = t /\ x = Decoded(t, bs)

\* Each struct is decoded from the body of the message that was the last of its type.
SentInv == /\ DOMAIN sent = Type /\ DOMAIN snapshot = Type /\ DOMAIN shown = Type
           /\ coming = NONE \/ Carried(coming, line)
           /\ \A t \in Type : \/ Cleared(t, sent[t], shown[t])
                              \/ DecodedOf(t, sent[t], snapshot[t], shown[t])

LEMMA TypesFound == \A bs : TypeOf(bs) \in Type \cup {NONE}
  BY Zenon DEF TypeOf, Type

LEMMA CarriedIs ==
  ASSUME FixAssumption, NEW m, NEW bs, Carried(m, bs)
  PROVE  m # NONE /\ m.type = TypeOf(bs)
<1>1. CASE m \in Messages /\ bs = BodyOf(m)
  <2>1. m # NONE
    BY <1>1, Zenon DEF FixAssumption
  <2>2. TypeOf(BodyOf(m)) = m.type
    BY <1>1, MessageLegible, Zenon
  <2> QED BY <1>1, <2>1, <2>2, Zenon
<1>2. CASE m = [type |-> TypeOf(bs), odd |-> TRUE]
  <2>1. m # NONE
    BY <1>2, TypesFound, Zenon DEF FixAssumption
  <2>2. m.type = TypeOf(bs)
    BY <1>2
  <2> QED BY <2>1, <2>2
<1> QED BY <1>1, <1>2, Zenon DEF Carried

LEMMA SentInvInit == FixInit => SentInv
  BY Zenon DEF FixInit, Init, SentInv, Cleared

LEMMA SentInvNext == FixAssumption /\ SentInv /\ [FixNext]_fixVars => SentInv'
<1> SUFFICES ASSUME FixAssumption, SentInv, [FixNext]_fixVars PROVE SentInv'
  OBVIOUS
<1>1. CASE Receive
  <2>1. PICK m \in Messages : Verify(m, BodyOf(m))
    BY <1>1, Zenon DEF Receive
  <2>2. coming' = m /\ line' = BodyOf(m) /\ UNCHANGED <<snapshot, shown, sent>>
    BY <2>1 DEF Verify
  <2>3. Carried(coming', line')
    BY <2>2, Zenon DEF Carried
  <2> QED BY <2>2, <2>3, Zenon DEF SentInv
<1>2. CASE ReceiveOdd
  <2>1. PICK bs \in Odd : Verify([type |-> TypeOf(bs), odd |-> TRUE], bs)
    BY <1>2, Zenon DEF ReceiveOdd
  <2>2. coming' = [type |-> TypeOf(bs), odd |-> TRUE] /\ line' = bs /\ UNCHANGED <<snapshot, shown, sent>>
    BY <2>1 DEF Verify
  <2>3. Carried(coming', line')
    BY <2>2, Zenon DEF Carried
  <2> QED BY <2>2, <2>3, Zenon DEF SentInv
<1>3. CASE Dispatch
  <2> DEFINE t == TypeOf(line)
  <2>1. /\ Carried(coming, line) /\ coming.type = t
        /\ coming' = NONE /\ sent' = (IF t = NONE THEN sent ELSE [sent EXCEPT ![t] = coming])
        /\ snapshot' = (IF t = NONE THEN snapshot ELSE [snapshot EXCEPT ![t] = line])
        /\ shown' = (IF t = NONE THEN shown ELSE [shown EXCEPT ![t] = Decoded(t, line)])
    <3>1. coming # NONE /\ dispatch_line /\ coming' = NONE
          /\ sent' = IF coming.type = NONE THEN sent ELSE [sent EXCEPT ![coming.type] = coming]
      BY <1>3, Zenon DEF Dispatch
    <3>2. Carried(coming, line)
      BY <3>1, Zenon DEF SentInv
    <3>3. coming.type = t
      BY <3>2, CarriedIs, Zenon
    <3>4. snapshot' = IF t = NONE THEN snapshot ELSE [snapshot EXCEPT ![t] = line]
      BY <3>1, Zenon DEF dispatch_line
    <3>5. shown' = IF t = NONE THEN shown ELSE [shown EXCEPT ![t] = Decoded(t, line)]
      BY <1>3, Zenon DEF Dispatch, Assign
    <3> QED BY <3>1, <3>2, <3>3, <3>4, <3>5, Zenon
  <2> HIDE DEF t
  <2>2. DOMAIN sent' = Type /\ DOMAIN snapshot' = Type /\ DOMAIN shown' = Type
    BY <2>1 DEF SentInv
  <2>3. ASSUME NEW u \in Type
        PROVE  \/ Cleared(u, sent'[u], shown'[u])
               \/ DecodedOf(u, sent'[u], snapshot'[u], shown'[u])
    <3>1. \/ Cleared(u, sent[u], shown[u])
          \/ DecodedOf(u, sent[u], snapshot[u], shown[u])
      BY Zenon DEF SentInv
    <3>2. CASE t # NONE /\ u = t
      <4>1. sent'[u] = coming /\ snapshot'[u] = line /\ shown'[u] = Decoded(u, line)
        BY <2>1, <3>2 DEF SentInv
      <4> QED BY <2>1, <3>2, <4>1, Zenon DEF DecodedOf
    <3>3. CASE ~(t # NONE /\ u = t)
      <4>1. sent'[u] = sent[u] /\ snapshot'[u] = snapshot[u] /\ shown'[u] = shown[u]
        BY <2>1, <3>3 DEF SentInv
      <4> QED BY <3>1, <4>1, Zenon
    <3> QED BY <3>2, <3>3
  <2> QED BY <2>1, <2>2, <2>3, Zenon DEF SentInv
<1>4. CASE Restart
  <2>1. /\ coming' = NONE /\ sent' = [t \in Type |-> NONE] /\ snapshot' = [t \in Type |-> <<>>]
        /\ shown' = [t \in Type |-> Nothing(t)]
    BY <1>4, Zenon DEF Restart, nmea_init
  <2> QED BY <2>1, Zenon DEF SentInv, Cleared
<1>5. CASE UNCHANGED fixVars
  <2>1. UNCHANGED <<coming, sent, line, snapshot, shown>>
    BY <1>5 DEF fixVars, vars, parser
  <2> QED BY <2>1, Zenon DEF SentInv, Carried, Cleared, DecodedOf
<1> QED BY <1>1, <1>2, <1>3, <1>4, <1>5, Zenon DEF FixNext

LEMMA SnapshotsRead == FixAssumption /\ SentInv => SnapshotIsLastFix
<1> SUFFICES ASSUME FixAssumption, SentInv PROVE SnapshotIsLastFix
  OBVIOUS
<1> SUFFICES ASSUME NEW t \in Type
             PROVE  IF sent[t] = NONE THEN shown[t] = Nothing(t)
                    ELSE "odd" \notin DOMAIN sent[t] => shown[t] = Meant(sent[t])
  BY Zenon DEF SnapshotIsLastFix
<1>1. CASE Cleared(t, sent[t], shown[t])
  BY <1>1, Zenon DEF Cleared
<1>2. CASE DecodedOf(t, sent[t], snapshot[t], shown[t])
  <2>1. Carried(sent[t], snapshot[t]) /\ sent[t].type = t /\ shown[t] = Decoded(t, snapshot[t])
    BY <1>2, Zenon DEF DecodedOf
  <2>2. sent[t] # NONE
    BY <2>1, CarriedIs, Zenon
  <2>3. ASSUME "odd" \notin DOMAIN sent[t] PROVE shown[t] = Meant(sent[t])
    <3>1. \A x : "odd" \in DOMAIN [type |-> x, odd |-> TRUE]
      OBVIOUS
    <3>2. sent[t] \in Messages /\ snapshot[t] = BodyOf(sent[t])
      BY <2>1, <2>3, <3>1, Zenon DEF Carried
    <3> QED BY <2>1, <3>2, MessageRead, Zenon
  <2> QED BY <2>2, <2>3, Zenon
<1> QED BY <1>1, <1>2, Zenon DEF SentInv

\* Each snapshot says what the last sentence of its type said, field for field,
\* with the sign of the hemisphere: what the receiver did not know is zero, and
\* not what an earlier sentence said, and a number too long for the buffer it
\* is copied to is 0 and never a part of it (nmea.c:72-264).
THEOREM SnapshotTheorem == FixSpec => []SnapshotIsLastFix
<1>1. FixInit => SentInv
  BY SentInvInit
<1>2. SentInv /\ [FixNext]_fixVars => SentInv'
  BY SentInvNext, FixAssumption
<1>3. SentInv => SnapshotIsLastFix
  BY SnapshotsRead, FixAssumption
<1> QED BY <1>1, <1>2, <1>3, PTL DEF FixSpec
=============================================================================
