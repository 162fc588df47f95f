----------------------------- MODULE Induction -----------------------------
(***************************************************************************)
(* Induction over the naturals, as a fact about sets rather than about a   *)
(* predicate, and what it gives for the recursive functions the models and *)
(* the community modules are written with.                                 *)
(***************************************************************************)
EXTENDS Integers, SequencesExt, SequenceTheorems, FiniteSetTheorems, WellFoundedInduction, TLAPS

\* The well-founded relation of the library, on naturals.
LEMMA LessThan == \A x, y \in Nat : <<y, x>> \in OpToRel(<, Nat) <=> y < x
  BY DEF OpToRel

\* Every set of naturals has a least element.
LEMMA LeastNumber ==
  ASSUME NEW T \in SUBSET Nat, T # {}
  PROVE  \E n \in T : \A m \in T : n <= m
<1> DEFINE R == OpToRel(<, Nat)
<1>1. IsWellFoundedOn(R, Nat)
  BY NatLessThanWellFounded
<1>2. \A x, y \in Nat : <<y, x>> \in R <=> y < x
  BY LessThan
<1> HIDE DEF R
<1>3. PICK n \in T : \A m \in T : ~ (<<m, n>> \in R)
  BY <1>1, WFMin
<1>4. \A m \in T : ~ (m < n)
  BY <1>2, <1>3
<1> QED BY <1>4

\* A set that holds 0, and with each number the next one, holds every natural.
LEMMA InductionOnSets ==
  ASSUME NEW S, 0 \in S, \A n \in Nat : n \in S => n + 1 \in S
  PROVE  Nat \subseteq S
<1> SUFFICES ASSUME Nat \ S # {} PROVE FALSE
  OBVIOUS
<1>1. PICK n \in Nat \ S : \A m \in Nat \ S : n <= m
  BY LeastNumber
<1>2. n # 0 /\ n - 1 \in Nat
  BY <1>1
<1>3. n - 1 \in S
  BY <1>1, <1>2
<1>4. (n - 1) + 1 = n
  BY <1>1
<1> QED BY <1>1, <1>2, <1>3, <1>4

\* The recursive function inside FlattenSeq, for a sequence of sequences.
Flattens(f, ss) == f = [i \in 1 .. Len(ss) |-> IF i = 1 THEN ss[i] ELSE f[i - 1] \o ss[i]]

\* The last element of a concatenation of prefixes.
LEMMA FlattenIsLast ==
  ASSUME NEW ss, Len(ss) # 0
  PROVE  FlattenSeq(ss) = (CHOOSE f : Flattens(f, ss))[Len(ss)]
  BY DEF FlattenSeq, Flattens

\* The recursion is well founded: there is such a function.
LEMMA FlattenExists ==
  ASSUME NEW ss, Len(ss) \in Nat
  PROVE  \E f : Flattens(f, ss)
<1> DEFINE Upto(f, n) == f = [i \in 1 .. n |-> IF i = 1 THEN ss[i] ELSE f[i - 1] \o ss[i]]
           S == {n \in Nat : \E f : Upto(f, n)}
<1>1. 0 \in S
  <2>1. Upto([i \in 1 .. 0 |-> ss[i]], 0)
    OBVIOUS
  <2> QED BY <2>1
<1>2. ASSUME NEW n \in Nat, n \in S
      PROVE  n + 1 \in S
  <2>1. PICK f : Upto(f, n)
    BY <1>2
  <2> DEFINE g == [i \in 1 .. n + 1 |-> IF i = n + 1 THEN IF i = 1 THEN ss[i] ELSE f[i - 1] \o ss[i]
                                                     ELSE f[i]]
  <2>2. \A i \in 1 .. n : f[i] = IF i = 1 THEN ss[i] ELSE f[i - 1] \o ss[i]
    BY <2>1
  <2>3. \A i \in 1 .. n + 1 : g[i] = IF i = 1 THEN ss[i] ELSE g[i - 1] \o ss[i]
    BY <2>2
  <2>4. g = [i \in 1 .. n + 1 |-> g[i]]
    OBVIOUS
  <2> HIDE DEF g
  <2>5. g = [i \in 1 .. n + 1 |-> IF i = 1 THEN ss[i] ELSE g[i - 1] \o ss[i]]
    BY <2>3, <2>4
  <2>6. Upto(g, n + 1)
    BY <2>5
  <2> HIDE DEF Upto
  <2> QED BY <2>6
<1> HIDE DEF S
<1>3. Len(ss) \in S
  BY <1>1, <1>2, InductionOnSets
<1> QED BY <1>3 DEF S, Flattens

\* One sequence after another, under a name of its own for the proofs.
Join(a, b) == a \o b

\* Where the elements of two sequences are after one is appended to the other.
LEMMA JoinAt ==
  ASSUME NEW S, NEW a \in Seq(S), NEW b \in Seq(S)
  PROVE  /\ Join(a, b) \in Seq(S) /\ Len(a) \in Nat /\ Len(b) \in Nat
         /\ Len(Join(a, b)) = Len(a) + Len(b)
         /\ \A i \in 1 .. Len(a) : Join(a, b)[i] = a[i]
         /\ \A j \in 1 .. Len(b) : Join(a, b)[Len(a) + j] = b[j]
<1>1. Len(a) \in Nat /\ Len(b) \in Nat
  OBVIOUS
<1>2. /\ Join(a, b) \in Seq(S) /\ Len(Join(a, b)) = Len(a) + Len(b)
      /\ \A i \in 1 .. Len(a) + Len(b) : Join(a, b)[i] = IF i <= Len(a) THEN a[i] ELSE b[i - Len(a)]
  BY ConcatProperties DEF Join
<1> DEFINE m == Len(a)
           n == Len(b)
<1> HIDE DEF m, n
<1>3. m \in Nat /\ n \in Nat /\ \A i \in 1 .. m + n : Join(a, b)[i] = IF i <= m THEN a[i] ELSE b[i - m]
  BY <1>1, <1>2 DEF m, n
<1>4. \A i \in 1 .. m : Join(a, b)[i] = a[i]
  BY <1>3
<1>5. \A j \in 1 .. n : Join(a, b)[m + j] = b[j]
  <2> TAKE j \in 1 .. n
  <2>1. m + j \in 1 .. m + n /\ ~(m + j <= m) /\ (m + j) - m = j
    BY <1>3
  <2> QED BY <1>3, <2>1
<1> QED BY <1>1, <1>2, <1>4, <1>5 DEF m, n

\* The left part of a concatenation.
LEMMA JoinLeft ==
  ASSUME NEW S, NEW a \in Seq(S), NEW b \in Seq(S)
  PROVE  \A i \in 1 .. Len(a) : Join(a, b)[i] = a[i]
  BY JoinAt

\* The right part of a concatenation.
LEMMA JoinRight ==
  ASSUME NEW S, NEW a \in Seq(S), NEW b \in Seq(S)
  PROVE  \A j \in 1 .. Len(b) : Join(a, b)[Len(a) + j] = b[j]
  BY JoinAt

\* The same for three.
LEMMA JoinThreeAt ==
  ASSUME NEW S, NEW a \in Seq(S), NEW b \in Seq(S), NEW c \in Seq(S),
         NEW m \in Nat, NEW n \in Nat, m = Len(a), n = m + Len(b)
  PROVE  /\ (a \o b) \o c \in Seq(S)
         /\ Len((a \o b) \o c) = n + Len(c)
         /\ \A i \in 1 .. m : ((a \o b) \o c)[i] = a[i]
         /\ \A j \in 1 .. Len(b) : ((a \o b) \o c)[m + j] = b[j]
         /\ \A j \in 1 .. Len(c) : ((a \o b) \o c)[n + j] = c[j]
<1> DEFINE d == Join(a, b)
           e == Join(d, c)
<1>1. d \in Seq(S) /\ Len(d) = n
  <2>1. d \in Seq(S)
    BY JoinAt
  <2>2. Len(d) = Len(a) + Len(b)
    BY JoinAt
  <2> QED BY <2>1, <2>2
<1>2. \A i \in 1 .. Len(a) : d[i] = a[i]
  BY JoinAt
<1>3. \A j \in 1 .. Len(b) : d[Len(a) + j] = b[j]
  BY JoinAt
<1>4. Len(b) \in Nat /\ Len(c) \in Nat
  OBVIOUS
<1>5. e = (a \o b) \o c
  BY DEF Join
<1> HIDE DEF d
<1>6. e \in Seq(S)
  BY <1>1, JoinAt
<1>7. Len(e) = Len(d) + Len(c)
  BY <1>1, JoinAt
<1>8. \A i \in 1 .. Len(d) : e[i] = d[i]
  BY <1>1, JoinLeft
<1>9. \A j \in 1 .. Len(c) : e[Len(d) + j] = c[j]
  BY <1>1, JoinRight
<1> HIDE DEF e
<1>10. \A i \in 1 .. m : i \in 1 .. n
  BY <1>4
<1>11. \A j \in 1 .. Len(b) : m + j \in 1 .. n
  BY <1>4
<1>12. \A i \in 1 .. m : e[i] = a[i]
  BY <1>1, <1>2, <1>8, <1>10, Zenon
<1>13. \A j \in 1 .. Len(b) : e[m + j] = b[j]
  BY <1>1, <1>3, <1>8, <1>11, Zenon
<1> QED BY <1>1, <1>5, <1>6, <1>7, <1>9, <1>12, <1>13, Zenon

\* The middle part of three.
LEMMA JoinThreeMiddle ==
  ASSUME NEW S, NEW a \in Seq(S), NEW b \in Seq(S), NEW c \in Seq(S),
         NEW m \in Nat, m = Len(a)
  PROVE  \A j \in 1 .. Len(b) : ((a \o b) \o c)[m + j] = b[j]
<1> DEFINE n == m + Len(b)
<1>1. n \in Nat /\ n = m + Len(b)
  OBVIOUS
<1> HIDE DEF n
<1> QED BY <1>1, JoinThreeAt

\* The last part of three.
LEMMA JoinThreeLast ==
  ASSUME NEW S, NEW a \in Seq(S), NEW b \in Seq(S), NEW c \in Seq(S),
         NEW n \in Nat, n = Len(a) + Len(b)
  PROVE  \A j \in 1 .. Len(c) : ((a \o b) \o c)[n + j] = c[j]
<1> DEFINE m == Len(a)
<1>1. m \in Nat /\ m = Len(a)
  OBVIOUS
<1> HIDE DEF m
<1> QED BY <1>1, JoinThreeAt

\* f[1], f[2], ... are the joins of more and more parts.
Joins(f, ss, N) == /\ N >= 1 => f[1] = ss[1]
                   /\ \A k \in 1 .. N : k + 1 \in 1 .. N => f[k + 1] = Join(f[k], ss[k + 1])

\* Each of them is a sequence, and begins with the one before it.
LEMMA JoinsGrow ==
  ASSUME NEW S, NEW N \in Nat, NEW ss, \A k \in 1 .. N : ss[k] \in Seq(S),
         NEW f, Joins(f, ss, N)
  PROVE  /\ \A k \in 1 .. N : f[k] \in Seq(S)
         /\ \A k \in 1 .. N : /\ Len(f[k]) <= Len(f[N])
                               /\ \A i \in 1 .. Len(f[k]) : f[N][i] = f[k][i]
<1>1. \A k \in 1 .. N : f[k] \in Seq(S)
  <2> DEFINE T == {k \in Nat : k \in 1 .. N => f[k] \in Seq(S)}
  <2>1. 0 \in T
    OBVIOUS
  <2>2. ASSUME NEW k \in Nat, k \in T PROVE k + 1 \in T
    <3> SUFFICES ASSUME k + 1 \in 1 .. N PROVE f[k + 1] \in Seq(S)
      OBVIOUS
    <3>1. CASE k = 0
      BY <3>1 DEF Joins
    <3>2. CASE k # 0
      <4>1. k \in 1 .. N
        BY <3>2
      <4>2. f[k + 1] = Join(f[k], ss[k + 1]) /\ f[k] \in Seq(S) /\ ss[k + 1] \in Seq(S)
        BY <2>2, <4>1 DEF Joins
      <4> QED BY <4>2, JoinAt
    <3> QED BY <3>1, <3>2
  <2>3. Nat \subseteq T
    <3> HIDE DEF T
    <3> QED BY <2>1, <2>2, InductionOnSets
  <2> QED BY <2>3
<1>2. ASSUME NEW k \in 1 .. N
      PROVE  Len(f[k]) <= Len(f[N]) /\ \A i \in 1 .. Len(f[k]) : f[N][i] = f[k][i]
  <2> DEFINE T == {m \in Nat : m \in k .. N => /\ Len(f[k]) <= Len(f[m])
                                               /\ \A i \in 1 .. Len(f[k]) : f[m][i] = f[k][i]}
  <2>0. f[k] \in Seq(S) /\ Len(f[k]) \in Nat
    BY <1>1
  <2>1. 0 \in T
    OBVIOUS
  <2>2. ASSUME NEW m \in Nat, m \in T PROVE m + 1 \in T
    <3> SUFFICES ASSUME m + 1 \in k .. N
                 PROVE  /\ Len(f[k]) <= Len(f[m + 1])
                        /\ \A i \in 1 .. Len(f[k]) : f[m + 1][i] = f[k][i]
      OBVIOUS
    <3>1. CASE m + 1 = k
      BY <2>0, <3>1
    <3>2. CASE m \in k .. N
      <4>0. m \in 1 .. N /\ m + 1 \in 1 .. N
        BY <3>2
      <4>1. f[m + 1] = Join(f[m], ss[m + 1]) /\ f[m] \in Seq(S) /\ ss[m + 1] \in Seq(S)
        BY <1>1, <4>0 DEF Joins
      <4>2. Len(f[k]) <= Len(f[m]) /\ \A i \in 1 .. Len(f[k]) : f[m][i] = f[k][i]
        BY <2>2, <3>2
      <4> HIDE DEF T
      <4>3. /\ Len(f[m]) \in Nat /\ Len(ss[m + 1]) \in Nat
            /\ Len(Join(f[m], ss[m + 1])) = Len(f[m]) + Len(ss[m + 1])
            /\ \A i \in 1 .. Len(f[m]) : Join(f[m], ss[m + 1])[i] = f[m][i]
        <5> DEFINE a == f[m]
                   b == ss[m + 1]
        <5>1. a \in Seq(S) /\ b \in Seq(S)
          BY <4>1
        <5> HIDE DEF a, b
        <5>2. /\ Len(a) \in Nat /\ Len(b) \in Nat
              /\ Len(Join(a, b)) = Len(a) + Len(b)
              /\ \A i \in 1 .. Len(a) : Join(a, b)[i] = a[i]
          BY <5>1, JoinAt
        <5> QED BY <5>2 DEF a, b
      <4>4. \A i \in 1 .. Len(f[k]) : i \in 1 .. Len(f[m])
        BY <2>0, <4>2, <4>3
      <4>5. Len(f[k]) <= Len(Join(f[m], ss[m + 1]))
        <5>1. \A x, y, z \in Nat : x <= y => x <= y + z
          OBVIOUS
        <5> QED BY <2>0, <4>2, <4>3, <5>1, Zenon
      <4> QED BY <4>1, <4>2, <4>3, <4>4, <4>5
    <3> QED BY <3>1, <3>2
  <2>3. Nat \subseteq T
    <3> HIDE DEF T
    <3> QED BY <2>1, <2>2, InductionOnSets
  <2> QED BY <2>3
<1> QED BY <1>1, <1>2

\* A concatenation holds each of its parts at an offset of its own, E[k - 1],
\* and nothing else.
LEMMA FlattenAt ==
  ASSUME NEW S, NEW ss \in Seq(Seq(S)), Len(ss) # 0
  PROVE  /\ FlattenSeq(ss) \in Seq(S)
         /\ \E E \in [0 .. Len(ss) -> Nat] :
              /\ E[0] = 0 /\ E[Len(ss)] = Len(FlattenSeq(ss))
              /\ \A k \in 1 .. Len(ss) :
                   /\ E[k] = E[k - 1] + Len(ss[k]) /\ E[k] <= Len(FlattenSeq(ss))
                   /\ \A j \in 1 .. Len(ss[k]) : FlattenSeq(ss)[E[k - 1] + j] = ss[k][j]
<1> DEFINE N == Len(ss)
           f == CHOOSE g : Flattens(g, ss)
           whole == FlattenSeq(ss)
<1>1. N \in Nat \ {0} /\ \A k \in 1 .. N : ss[k] \in Seq(S)
  OBVIOUS
<1>2. Flattens(f, ss)
  BY <1>1, FlattenExists
<1> HIDE DEF f
<1>3. Joins(f, ss, N)
  <2>1. \A k \in 1 .. N : f[k] = IF k = 1 THEN ss[k] ELSE f[k - 1] \o ss[k]
    BY <1>2 DEF Flattens
  <2> HIDE DEF N
  <2>2. ASSUME NEW k \in 1 .. N, k + 1 \in 1 .. N
        PROVE  f[k + 1] = Join(f[k], ss[k + 1])
    <3>1. k + 1 # 1 /\ (k + 1) - 1 = k
      OBVIOUS
    <3>2. f[k + 1] = f[(k + 1) - 1] \o ss[k + 1]
      BY <2>1, <2>2, <3>1, Zenon
    <3> QED BY <3>1, <3>2 DEF Join
  <2>3. f[1] = ss[1]
    BY <1>1, <2>1
  <2> QED BY <2>2, <2>3 DEF Joins
<1>4. whole = f[N]
  BY <1>1, <1>2, FlattenIsLast DEF f
<1> HIDE DEF N, whole
<1>5. /\ \A k \in 1 .. N : f[k] \in Seq(S)
      /\ \A k \in 1 .. N : /\ Len(f[k]) <= Len(f[N])
                            /\ \A i \in 1 .. Len(f[k]) : f[N][i] = f[k][i]
  <2>1. N \in Nat /\ \A k \in 1 .. N : ss[k] \in Seq(S)
    BY <1>1
  <2> QED BY <1>3, <2>1, JoinsGrow
<1> DEFINE E == [k \in 0 .. N |-> IF k = 0 THEN 0 ELSE Len(f[k])]
<1>6. E \in [0 .. N -> Nat] /\ E[0] = 0 /\ E[N] = Len(f[N]) /\ \A k \in 1 .. N : E[k] = Len(f[k])
  BY <1>1, <1>5
<1> HIDE DEF E
<1>7. ASSUME NEW k \in 1 .. N
      PROVE  /\ E[k] = E[k - 1] + Len(ss[k]) /\ E[k] <= Len(f[N])
             /\ \A j \in 1 .. Len(ss[k]) : f[N][E[k - 1] + j] = ss[k][j]
  <2>0. /\ ss[k] \in Seq(S) /\ Len(ss[k]) \in Nat /\ E[k] = Len(f[k]) /\ E[k - 1] \in Nat
        /\ Len(f[k]) <= Len(f[N])
    BY <1>1, <1>5, <1>6
  <2>1. E[k] = E[k - 1] + Len(ss[k]) /\ \A j \in 1 .. Len(ss[k]) : f[k][E[k - 1] + j] = ss[k][j]
    <3>1. CASE k = 1
      BY <1>1, <1>3, <1>6, <2>0, <3>1 DEF Joins
    <3>2. CASE k # 1
      <4>0. k - 1 \in 1 .. N /\ (k - 1) + 1 = k
        BY <1>1, <3>2
      <4>1. f[k] = Join(f[k - 1], ss[k])
        BY <1>3, <4>0 DEF Joins
      <4>2. f[k - 1] \in Seq(S) /\ E[k - 1] = Len(f[k - 1])
        BY <1>5, <1>6, <4>0
      <4>3. /\ Len(Join(f[k - 1], ss[k])) = Len(f[k - 1]) + Len(ss[k])
            /\ \A j \in 1 .. Len(ss[k]) : Join(f[k - 1], ss[k])[Len(f[k - 1]) + j] = ss[k][j]
        <5> DEFINE a == f[k - 1]
                   b == ss[k]
        <5>1. a \in Seq(S) /\ b \in Seq(S)
          BY <2>0, <4>2
        <5> HIDE DEF a, b
        <5>2. /\ Len(Join(a, b)) = Len(a) + Len(b)
              /\ \A j \in 1 .. Len(b) : Join(a, b)[Len(a) + j] = b[j]
          BY <5>1, JoinAt
        <5> QED BY <5>2 DEF a, b
      <4> QED BY <2>0, <4>1, <4>2, <4>3
    <3> QED BY <3>1, <3>2
  <2>2. \A j \in 1 .. Len(ss[k]) : E[k - 1] + j \in 1 .. Len(f[k])
    BY <2>0, <2>1
  <2>3. \A i \in 1 .. Len(f[k]) : f[N][i] = f[k][i]
    BY <1>5
  <2> QED BY <2>0, <2>1, <2>2, <2>3
<1>8. \A k \in 1 .. N :
        /\ E[k] = E[k - 1] + Len(ss[k]) /\ E[k] <= Len(whole)
        /\ \A j \in 1 .. Len(ss[k]) : whole[E[k - 1] + j] = ss[k][j]
  BY <1>4, <1>7
<1>9. whole \in Seq(S) /\ E[N] = Len(whole)
  BY <1>1, <1>4, <1>5, <1>6
<1>10. E \in [0 .. N -> Nat] /\ E[0] = 0
  BY <1>6
<1> QED BY <1>8, <1>9, <1>10 DEF N, whole

\* The recursive function inside the folds of the community modules: C chooses an element
\* of what is left, F combines the result for the rest with it, and b is for nothing.
Folds(g, D, C, F, b) == \A s \in SUBSET D : g[s] = IF s = {} THEN b ELSE F[C[s]][g[s \ {C[s]}]]
Chooses(C, D)  == \A s \in SUBSET D : s # {} => C[s] \in s
Keeps(F, D, V) == \A x \in D : \A v \in V : F[x][v] \in V

\* The recursion is well founded: there is such a function.
LEMMA FoldExists ==
  ASSUME NEW D, IsFiniteSet(D), NEW V, NEW b \in V,
         NEW C, Chooses(C, D), NEW F, Keeps(F, D, V)
  PROVE  \E g \in [SUBSET D -> V] : Folds(g, D, C, F, b)
<1> USE DEF Chooses, Keeps
<1> DEFINE Small(m) == {s \in SUBSET D : Cardinality(s) <= m}
           Good(g, m) == \A s \in Small(m) : g[s] = IF s = {} THEN b ELSE F[C[s]][g[s \ {C[s]}]]
           T == {m \in Nat : \E g \in [Small(m) -> V] : Good(g, m)}
<1>0. ASSUME NEW s \in SUBSET D
      PROVE  /\ Cardinality(s) \in Nat /\ Cardinality(s) <= Cardinality(D)
             /\ Cardinality(s) <= 0 => s = {}
             /\ s # {} => s \ {C[s]} \in SUBSET D /\ Cardinality(s \ {C[s]}) = Cardinality(s) - 1
  <2>1. IsFiniteSet(s) /\ Cardinality(s) \in Nat /\ Cardinality(s) <= Cardinality(D)
    BY FS_Subset, FS_CardinalityType
  <2>2. s = {} <=> Cardinality(s) = 0
    BY <2>1, FS_EmptySet
  <2>3. s # {} => s \ {C[s]} \in SUBSET D /\ Cardinality(s \ {C[s]}) = Cardinality(s) - 1
    BY <2>1, FS_RemoveElement
  <2> QED BY <2>1, <2>2, <2>3
<1>1. 0 \in T
  <2> DEFINE g == [s \in Small(0) |-> b]
  <2>1. ASSUME NEW s \in Small(0) PROVE s = {}
    <3>1. s \in SUBSET D /\ Cardinality(s) <= 0
      OBVIOUS
    <3> QED BY <1>0, <3>1
  <2>2. g \in [Small(0) -> V] /\ Good(g, 0)
    BY <2>1
  <2> QED BY <2>2
<1>2. ASSUME NEW m \in Nat, m \in T
      PROVE  m + 1 \in T
  <2>1. PICK g \in [Small(m) -> V] : Good(g, m)
    BY <1>2
  <2> DEFINE h == [s \in Small(m + 1) |-> IF s \in Small(m) THEN g[s] ELSE F[C[s]][g[s \ {C[s]}]]]
  <2>2. ASSUME NEW s \in Small(m + 1), s # {} PROVE s \ {C[s]} \in Small(m)
    <3>1. /\ s \ {C[s]} \in SUBSET D /\ Cardinality(s \ {C[s]}) = Cardinality(s) - 1
          /\ Cardinality(s) \in Nat /\ Cardinality(s) <= m + 1
      BY <1>0, <2>2
    <3> QED BY <3>1
  <2>3. ASSUME NEW s \in Small(m) PROVE s \in Small(m + 1)
    <3>1. s \in SUBSET D /\ Cardinality(s) \in Nat /\ Cardinality(s) <= m
      BY <1>0, <2>3
    <3> QED BY <3>1
  <2>4. {} \in Small(m)
    <3>1. Cardinality({}) = 0
      BY FS_EmptySet
    <3> QED BY <3>1
  <2>5. ASSUME NEW s \in Small(m + 1)
        PROVE  h[s] \in V /\ h[s] = IF s = {} THEN b ELSE F[C[s]][h[s \ {C[s]}]]
    <3>1. CASE s = {}
      BY <3>1, <2>1, <2>4
    <3>2. CASE s # {}
      <4>1. s \ {C[s]} \in Small(m) /\ s \ {C[s]} \in Small(m + 1) /\ C[s] \in D
        BY <3>2, <2>2, <2>3
      <4>2. h[s \ {C[s]}] = g[s \ {C[s]}] /\ g[s \ {C[s]}] \in V
        BY <4>1
      <4>3. h[s] = F[C[s]][g[s \ {C[s]}]]
        <5>1. CASE s \in Small(m)
          BY <5>1, <3>2, <2>1
        <5>2. CASE s \notin Small(m)
          BY <5>2
        <5> QED BY <5>1, <5>2
      <4> QED BY <3>2, <4>1, <4>2, <4>3
    <3> QED BY <3>1, <3>2
  <2>6. h \in [Small(m + 1) -> V]
    BY <2>5
  <2>7. Good(h, m + 1)
    BY <2>5
  <2> HIDE DEF h, Good, Small
  <2> QED BY <2>6, <2>7
<1>3. Cardinality(D) \in T
  <2> HIDE DEF T
  <2>1. Cardinality(D) \in Nat
    BY FS_CardinalityType
  <2> QED BY <1>1, <1>2, <2>1, InductionOnSets
<1>4. Small(Cardinality(D)) = SUBSET D
  BY <1>0
<1> QED BY <1>3, <1>4 DEF Folds

\* The one of a set of numbers that folds from the left choose: the largest.
LEMMA MaxIs ==
  ASSUME NEW n \in Nat
  PROVE /\ \A s \in SUBSET (1 .. n) : s # {} => Max(s) \in s /\ \A y \in s : y <= Max(s)
        /\ \A k \in 1 .. n : Max(1 .. k) = k /\ (1 .. k) \ {k} = 1 .. k - 1 /\ (1 .. k) # {}
<1>1. ASSUME NEW s \in SUBSET (1 .. n), s # {}
      PROVE \E x \in s : \A y \in s : x >= y
  <2> DEFINE T == {n - y : y \in s}
  <2>0. T \in SUBSET Nat /\ T # {}
    <3>1. \A y \in s : n - y \in Nat
      OBVIOUS
    <3> QED BY <1>1, <3>1
  <2>1. PICK z \in T : \A m \in T : z <= m
    <3> HIDE DEF T
    <3> QED BY <2>0, LeastNumber
  <2>2. PICK x \in s : z = n - x
    BY <2>1
  <2>3. \A y \in s : x >= y
    <3> TAKE y \in s
    <3>1. n - y \in T
      OBVIOUS
    <3>2. z <= n - y /\ x \in 1 .. n /\ y \in 1 .. n
      BY <2>1, <3>1
    <3> QED BY <2>2, <3>2
  <2> QED BY <2>3
<1>2. \A s \in SUBSET (1 .. n) : s # {} => Max(s) \in s /\ \A y \in s : y <= Max(s)
  BY <1>1 DEF Max
<1>3. ASSUME NEW k \in 1 .. n PROVE Max(1 .. k) = k /\ (1 .. k) \ {k} = 1 .. k - 1 /\ (1 .. k) # {}
  <2>1. 1 .. k \in SUBSET (1 .. n) /\ k \in 1 .. k
    OBVIOUS
  <2>2. Max(1 .. k) \in 1 .. k /\ k <= Max(1 .. k)
    BY <1>2, <2>1
  <2> HIDE DEF Max
  <2>3. Max(1 .. k) = k
    BY <2>2
  <2> QED BY <2>1, <2>3
<1> QED BY <1>2, <1>3

\* The function that a fold from the left over n elements recurses with.
FoldsLeft(g, n, F, b) ==
  \A s \in SUBSET (1 .. n) : g[s] = IF s = {} THEN b ELSE F[Max(s)][g[s \ {Max(s)}]]

\* There is such a function.
LEMMA FoldLeftExists ==
  ASSUME NEW n \in Nat, NEW V, NEW b \in V, NEW F, Keeps(F, 1 .. n, V)
  PROVE  \E g \in [SUBSET (1 .. n) -> V] : FoldsLeft(g, n, F, b)
<1> DEFINE C == [s \in SUBSET (1 .. n) |-> Max(s)]
<1>1. IsFiniteSet(1 .. n)
  BY FS_Interval
<1>2. Chooses(C, 1 .. n) /\ \A s \in SUBSET (1 .. n) : C[s] = Max(s)
  BY MaxIs DEF Chooses
<1> HIDE DEF C
<1>3. PICK g \in [SUBSET (1 .. n) -> V] : Folds(g, 1 .. n, C, F, b)
  BY <1>1, <1>2, FoldExists
<1>4. FoldsLeft(g, n, F, b)
  BY <1>2, <1>3 DEF Folds, FoldsLeft
<1> QED BY <1>4

\* The one of a set of numbers that folds from the right choose: the smallest.
LEMMA MinIs ==
  ASSUME NEW n \in Nat
  PROVE /\ \A s \in SUBSET (1 .. n) : s # {} => Min(s) \in s /\ \A y \in s : Min(s) <= y
        /\ \A k \in 1 .. n : Min(k .. n) = k /\ (k .. n) \ {k} = k + 1 .. n /\ (k .. n) # {}
<1>1. ASSUME NEW s \in SUBSET (1 .. n), s # {}
      PROVE \E x \in s : \A y \in s : x =< y
  <2>1. s \in SUBSET Nat
    OBVIOUS
  <2> QED BY <1>1, <2>1, LeastNumber
<1>2. \A s \in SUBSET (1 .. n) : s # {} => Min(s) \in s /\ \A y \in s : Min(s) <= y
  BY <1>1 DEF Min
<1>3. ASSUME NEW k \in 1 .. n PROVE Min(k .. n) = k /\ (k .. n) \ {k} = k + 1 .. n /\ (k .. n) # {}
  <2>1. k .. n \in SUBSET (1 .. n) /\ k \in k .. n
    OBVIOUS
  <2>2. Min(k .. n) \in k .. n /\ Min(k .. n) <= k
    BY <1>2, <2>1
  <2> HIDE DEF Min
  <2>3. Min(k .. n) = k
    BY <2>2
  <2> QED BY <2>1, <2>3
<1> QED BY <1>2, <1>3

\* The function that a fold from the right over n elements recurses with.
FoldsRight(g, n, F, b) ==
  \A s \in SUBSET (1 .. n) : g[s] = IF s = {} THEN b ELSE F[Min(s)][g[s \ {Min(s)}]]

\* There is such a function.
LEMMA FoldRightExists ==
  ASSUME NEW n \in Nat, NEW V, NEW b \in V, NEW F, Keeps(F, 1 .. n, V)
  PROVE  \E g \in [SUBSET (1 .. n) -> V] : FoldsRight(g, n, F, b)
<1> DEFINE C == [s \in SUBSET (1 .. n) |-> Min(s)]
<1>1. IsFiniteSet(1 .. n)
  BY FS_Interval
<1>2. Chooses(C, 1 .. n) /\ \A s \in SUBSET (1 .. n) : C[s] = Min(s)
  BY MinIs DEF Chooses
<1> HIDE DEF C
<1>3. PICK g \in [SUBSET (1 .. n) -> V] : Folds(g, 1 .. n, C, F, b)
  BY <1>1, <1>2, FoldExists
<1>4. FoldsRight(g, n, F, b)
  BY <1>2, <1>3 DEF Folds, FoldsRight
<1> QED BY <1>4

\* A sum over a set of indices, as FoldSeq takes it: whichever element is chosen.
Sums(g, n, w) ==
  \A s \in SUBSET (1 .. n) :
    g[s] = IF s = {} THEN 0 ELSE g[s \ {CHOOSE x \in s : TRUE}] + w[CHOOSE x \in s : TRUE]

\* There is the function that such a sum recurses with.
LEMMA SumExists ==
  ASSUME NEW n \in Nat, NEW w \in [1 .. n -> Nat]
  PROVE  \E g \in [SUBSET (1 .. n) -> Nat] : Sums(g, n, w)
<1> DEFINE C == [s \in SUBSET (1 .. n) |-> CHOOSE x \in s : TRUE]
           F == [x \in 1 .. n |-> [v \in Nat |-> v + w[x]]]
<1>1. IsFiniteSet(1 .. n)
  BY FS_Interval
<1>2. Chooses(C, 1 .. n) /\ \A s \in SUBSET (1 .. n) : C[s] = CHOOSE x \in s : TRUE
  BY DEF Chooses
<1>3. Keeps(F, 1 .. n, Nat) /\ \A x \in 1 .. n : \A v \in Nat : F[x][v] = v + w[x]
  BY DEF Keeps
<1> HIDE DEF C, F
<1>5. PICK g \in [SUBSET (1 .. n) -> Nat] : Folds(g, 1 .. n, C, F, 0)
  <2> DEFINE V == Nat
             D == 1 .. n
  <2>1. 0 \in V /\ Chooses(C, D) /\ Keeps(F, D, V) /\ IsFiniteSet(D)
    BY <1>1, <1>2, <1>3
  <2> HIDE DEF V, D
  <2>2. \E g \in [SUBSET D -> V] : Folds(g, D, C, F, 0)
    BY <2>1, FoldExists
  <2> QED BY <2>2 DEF V, D
<1>6. ASSUME NEW s \in SUBSET (1 .. n), s # {}
      PROVE  g[s] = g[s \ {CHOOSE x \in s : TRUE}] + w[CHOOSE x \in s : TRUE]
  <2>1. C[s] \in 1 .. n /\ s \ {C[s]} \in SUBSET (1 .. n)
    BY <1>2, <1>6 DEF Chooses
  <2>2. g[s] = F[C[s]][g[s \ {C[s]}]]
    BY <1>5, <1>6 DEF Folds
  <2>3. g[s \ {C[s]}] \in Nat
    BY <2>1
  <2>4. F[C[s]][g[s \ {C[s]}]] = g[s \ {C[s]}] + w[C[s]]
    BY <1>3, <2>1, <2>3
  <2> QED BY <1>2, <2>2, <2>4
<1>7. g[{}] = 0
  BY <1>5 DEF Folds
<1> QED BY <1>6, <1>7 DEF Sums

\* Whatever satisfies the recursion is a sum of naturals.
LEMMA SumStays ==
  ASSUME NEW n \in Nat, NEW w \in [1 .. n -> Nat], NEW g, Sums(g, n, w)
  PROVE  \A s \in SUBSET (1 .. n) : g[s] \in Nat
<1> DEFINE T == {m \in Nat : \A s \in SUBSET (1 .. n) : Cardinality(s) <= m => g[s] \in Nat}
<1>0. ASSUME NEW s \in SUBSET (1 .. n)
      PROVE  /\ Cardinality(s) \in Nat
             /\ Cardinality(s) <= 0 => s = {}
             /\ \A x \in s : s \ {x} \in SUBSET (1 .. n) /\ Cardinality(s \ {x}) = Cardinality(s) - 1
  <2>1. IsFiniteSet(1 .. n)
    BY FS_Interval
  <2>2. IsFiniteSet(s) /\ Cardinality(s) \in Nat
    BY <2>1, FS_Subset, FS_CardinalityType
  <2>3. Cardinality(s) <= 0 => s = {}
    BY <2>2, FS_EmptySet
  <2>4. ASSUME NEW x \in s PROVE Cardinality(s \ {x}) = Cardinality(s) - 1
    BY <2>2, FS_RemoveElement
  <2> QED BY <2>2, <2>3, <2>4
<1>1. g[{}] = 0
  <2>1. {} \in SUBSET (1 .. n)
    OBVIOUS
  <2> QED BY <2>1, Zenon DEF Sums
<1>2. 0 \in T
  <2> SUFFICES ASSUME NEW s \in SUBSET (1 .. n), Cardinality(s) <= 0 PROVE g[s] \in Nat
    OBVIOUS
  <2>1. s = {}
    BY <1>0
  <2> QED BY <1>1, <2>1
<1>3. ASSUME NEW m \in Nat, m \in T
      PROVE  m + 1 \in T
  <2> SUFFICES ASSUME NEW s \in SUBSET (1 .. n), Cardinality(s) <= m + 1 PROVE g[s] \in Nat
    OBVIOUS
  <2> DEFINE c == CHOOSE y \in s : TRUE
  <2>1. CASE s = {}
    BY <1>1, <2>1
  <2>2. CASE s # {}
    <3>1. c \in s /\ g[s] = g[s \ {c}] + w[c]
      BY <2>2 DEF Sums
    <3> HIDE DEF c
    <3>2. Cardinality(s) \in Nat /\ s \ {c} \in SUBSET (1 .. n) /\ Cardinality(s \ {c}) = Cardinality(s) - 1
      BY <1>0, <3>1
    <3>3. Cardinality(s \ {c}) <= m
      BY <3>2
    <3>4. g[s \ {c}] \in Nat
      BY <1>3, <3>2, <3>3
    <3>5. w[c] \in Nat
      BY <3>1
    <3> QED BY <3>1, <3>4, <3>5
  <2> QED BY <2>1, <2>2
<1>4. ASSUME NEW s \in SUBSET (1 .. n) PROVE g[s] \in Nat
  <2> HIDE DEF T
  <2>1. Cardinality(s) \in T
    BY <1>0, <1>2, <1>3, InductionOnSets
  <2>2. Cardinality(s) \in Nat
    BY <1>0
  <2>3. Cardinality(s) <= Cardinality(s)
    BY <2>2
  <2> QED BY <2>1, <2>3 DEF T
<1> QED BY <1>4

\* The order does not matter: any element can be taken off the sum.
LEMMA SumWithout ==
  ASSUME NEW n \in Nat, NEW w \in [1 .. n -> Nat],
         NEW g \in [SUBSET (1 .. n) -> Nat], Sums(g, n, w)
  PROVE  \A s \in SUBSET (1 .. n) : \A x \in s : g[s] = g[s \ {x}] + w[x]
<1> DEFINE Good(s) == \A x \in s : g[s] = g[s \ {x}] + w[x]
           T == {m \in Nat : \A s \in SUBSET (1 .. n) : Cardinality(s) <= m => Good(s)}
<1>0. ASSUME NEW s \in SUBSET (1 .. n), NEW x \in s
      PROVE  /\ Cardinality(s) \in Nat /\ Cardinality(s) # 0
             /\ s \ {x} \in SUBSET (1 .. n) /\ Cardinality(s \ {x}) = Cardinality(s) - 1
  <2>1. IsFiniteSet(1 .. n)
    BY FS_Interval
  <2>2. IsFiniteSet(s) /\ Cardinality(s) \in Nat
    BY <2>1, FS_Subset, FS_CardinalityType
  <2>3. Cardinality(s) # 0
    BY <2>2, FS_EmptySet
  <2>4. Cardinality(s \ {x}) = Cardinality(s) - 1
    BY <2>2, FS_RemoveElement
  <2> QED BY <2>2, <2>3, <2>4
<1>1. 0 \in T
  <2> SUFFICES ASSUME NEW s \in SUBSET (1 .. n), Cardinality(s) <= 0, NEW x \in s PROVE FALSE
    OBVIOUS
  <2>1. Cardinality(s) \in Nat /\ Cardinality(s) # 0
    BY <1>0
  <2> QED BY <2>1
<1>2. ASSUME NEW m \in Nat, m \in T
      PROVE  m + 1 \in T
  <2> SUFFICES ASSUME NEW s \in SUBSET (1 .. n), Cardinality(s) <= m + 1, NEW x \in s
               PROVE  g[s] = g[s \ {x}] + w[x]
    OBVIOUS
  <2> DEFINE c == CHOOSE y \in s : TRUE
  <2>1. c \in s
    OBVIOUS
  <2>2. g[s] = g[s \ {c}] + w[c]
    BY DEF Sums
  <2> HIDE DEF c
  <2>3. CASE c = x
    BY <2>2, <2>3
  <2>4. CASE c # x
    <3>1. s \ {c} \in SUBSET (1 .. n) /\ Cardinality(s \ {c}) <= m /\ x \in s \ {c}
      <4>1. Cardinality(s) \in Nat /\ Cardinality(s \ {c}) = Cardinality(s) - 1
        BY <1>0, <2>1
      <4>2. Cardinality(s \ {c}) <= m
        BY <4>1
      <4> QED BY <2>4, <4>2
    <3>2. s \ {x} \in SUBSET (1 .. n) /\ Cardinality(s \ {x}) <= m /\ c \in s \ {x}
      <4>1. Cardinality(s) \in Nat /\ Cardinality(s \ {x}) = Cardinality(s) - 1
        BY <1>0
      <4>2. Cardinality(s \ {x}) <= m
        BY <4>1
      <4> QED BY <2>1, <2>4, <4>2
    <3>3. g[s \ {c}] = g[(s \ {c}) \ {x}] + w[x]
      BY <1>2, <3>1
    <3>4. g[s \ {x}] = g[(s \ {x}) \ {c}] + w[c]
      BY <1>2, <3>2
    <3>5. (s \ {x}) \ {c} = (s \ {c}) \ {x}
      OBVIOUS
    <3>6. g[(s \ {c}) \ {x}] \in Nat /\ w[x] \in Nat /\ w[c] \in Nat
      BY <2>1
    <3> DEFINE a == g[(s \ {c}) \ {x}]
               p == w[x]
               q == w[c]
    <3>7. g[s] = (a + p) + q /\ g[s \ {x}] = a + q
      BY <2>2, <3>3, <3>4, <3>5, Zenon
    <3>8. a \in Nat /\ p \in Nat /\ q \in Nat
      BY <3>6
    <3> HIDE DEF a, q
    <3>9. (a + p) + q = (a + q) + p
      BY <3>8
    <3> QED BY <3>7, <3>9, Zenon
  <2> QED BY <2>3, <2>4
<1>3. ASSUME NEW s \in SUBSET (1 .. n)
      PROVE  Good(s)
  <2> SUFFICES ASSUME NEW x \in s PROVE g[s] = g[s \ {x}] + w[x]
    OBVIOUS
  <2> HIDE DEF T
  <2>1. Cardinality(s) \in T
    BY <1>0, <1>1, <1>2, InductionOnSets
  <2>2. Cardinality(s) <= Cardinality(s)
    <3>1. Cardinality(s) \in Nat
      BY <1>0
    <3> QED BY <3>1
  <2> QED BY <2>1, <2>2 DEF T
<1> QED BY <1>3

\* So the sum grows index by index.
LEMMA SumUpto ==
  ASSUME NEW n \in Nat, NEW w \in [1 .. n -> Nat],
         NEW g \in [SUBSET (1 .. n) -> Nat], Sums(g, n, w)
  PROVE  g[1 .. 0] = 0 /\ \A k \in 1 .. n : g[1 .. k] = g[1 .. k - 1] + w[k]
<1>1. g[1 .. 0] = 0
  <2>1. 1 .. 0 = {} /\ {} \in SUBSET (1 .. n)
    OBVIOUS
  <2> QED BY <2>1 DEF Sums
<1>2. ASSUME NEW k \in 1 .. n PROVE g[1 .. k] = g[1 .. k - 1] + w[k]
  <2>1. 1 .. k \in SUBSET (1 .. n) /\ k \in 1 .. k /\ (1 .. k) \ {k} = 1 .. k - 1
    OBVIOUS
  <2>2. \A s \in SUBSET (1 .. n) : \A x \in s : g[s] = g[s \ {x}] + w[x]
    BY SumWithout
  <2>3. g[1 .. k] = g[(1 .. k) \ {k}] + w[k]
    BY <2>1, <2>2, Zenon
  <2> QED BY <2>1, <2>3
<1> QED BY <1>1, <1>2
=============================================================================
