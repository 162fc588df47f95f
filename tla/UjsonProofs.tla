---------------------------- MODULE UjsonProofs ----------------------------
(***************************************************************************)
(* The parser for every table and slot size, and every byte stream.        *)
(*                                                                         *)
(*   1. Ujson: it writes inside its slots only, leaves each of them a C    *)
(*      string, shows nothing of an earlier object, and takes a number     *)
(*      from a numeral only.                                               *)
(*   2. UjsonStream: the bytes of an object on the line, and what a slot   *)
(*      holds after each of them.                                          *)
(*   3. One lemma per place the parser can be in as the next byte comes,   *)
(*      then the invariant of the line: an object is shown as it was sent, *)
(*      whenever it fits, or not at all.                                   *)
(***************************************************************************)
EXTENDS UjsonStream, Induction, TLAPS

IInv == SlotTypes /\ SlotReserved /\ SlotsTerminated /\ NothingStale

\* number is a table of MaxKV entries, whatever they hold.
NumberTable == number = [k \in Pair |-> number[k]]

\* A byte and a NUL after it leave a slot terminated, if there is room for both.
LEMMA AppendedSlot ==
  ASSUME NEW slot \in Slot, slot[StrMax - 1] = NUL,
         NEW c \in 0 .. StrMax - 1, c < StrMax - 1, NEW b \in Byte
  PROVE  Appended(slot, c, b) \in Slot /\ Appended(slot, c, b)[StrMax - 1] = NUL
  BY UjsonAssumption DEF Appended, Slot

\* What every accepted byte does to the raw capture.
LEMMA CaptureStep ==
  ASSUME IInv, NEW b \in Byte, NEW s, Accept(b, s)
  PROVE  /\ msg' \in [0 .. MsgMax - 1 -> Byte] /\ msg_ptr' \in 0 .. MsgMax - 1
         /\ msg'[msg_ptr'] = NUL
         /\ st' = s /\ ret' = 1
<1>1. /\ msg \in [0 .. MsgMax - 1 -> Byte] /\ msg_ptr \in 0 .. MsgMax - 1
      /\ msg[msg_ptr] = NUL /\ NUL \in Byte /\ MsgMax \in Nat
  BY UjsonAssumption DEF IInv, SlotTypes, SlotsTerminated
<1>2. CASE RoomInCapture
  BY <1>1, <1>2 DEF Accept, Captured, RoomInCapture, Appended
<1>3. CASE ~RoomInCapture
  BY <1>1, <1>3 DEF Accept, Captured
<1> QED BY <1>2, <1>3 DEF Accept

\* A cleared slot is terminated.
LEMMA BlankSlot == Blank \in Slot /\ Blank[StrMax - 1] = NUL
  BY UjsonAssumption DEF Blank, Slot

\* A reset establishes the invariant from anywhere.
LEMMA ResetIInv ==
  ASSUME Reset, on_message' \in BOOLEAN, ret' \in {0, 1}
  PROVE  IInv' /\ NumberTable'
<1>1. /\ st' = "start" /\ pair_count' = 0 /\ tok_ptr' = 0 /\ msg_ptr' = 0
      /\ key' = [k \in Pair |-> Blank] /\ value' = [k \in Pair |-> Blank]
      /\ number' = [k \in Pair |-> NONE]
      /\ msg' = [j \in 0 .. MsgMax - 1 |-> NUL]
  BY DEF Reset
<1>2. SlotTypes'
  BY <1>1, BlankSlot, UjsonAssumption DEF SlotTypes, State
<1>3. SlotReserved'
  BY <1>1 DEF SlotReserved, PairOpen
<1>4. SlotsTerminated'
  BY <1>1, BlankSlot, UjsonAssumption DEF SlotsTerminated
<1>5. NothingStale'
  BY <1>1 DEF NothingStale
<1>6. NumberTable'
  BY <1>1 DEF NumberTable
<1> QED BY <1>2, <1>3, <1>4, <1>5, <1>6 DEF IInv

\* A parser that ujson_init has just set up satisfies the invariant.
LEMMA InitIInv == Init => IInv /\ NumberTable
<1> SUFFICES ASSUME Init PROVE IInv /\ NumberTable
  OBVIOUS
<1>1. /\ st = "start" /\ pair_count = 0 /\ tok_ptr = 0 /\ msg_ptr = 0
      /\ key = [k \in Pair |-> Blank] /\ value = [k \in Pair |-> Blank]
      /\ number = [k \in Pair |-> NONE]
      /\ msg = [j \in 0 .. MsgMax - 1 |-> NUL] /\ on_message \in BOOLEAN /\ ret = 1
  BY DEF Init
<1>2. SlotTypes
  BY <1>1, BlankSlot, UjsonAssumption DEF SlotTypes, State
<1>3. SlotReserved
  BY <1>1 DEF SlotReserved, PairOpen
<1>4. SlotsTerminated
  BY <1>1, BlankSlot, UjsonAssumption DEF SlotsTerminated
<1>5. NothingStale
  BY <1>1 DEF NothingStale
<1>6. NumberTable
  BY <1>1 DEF NumberTable
<1> QED BY <1>2, <1>3, <1>4, <1>5, <1>6 DEF IInv

\* An accepted byte that leaves the pairs alone, between states that agree on
\* whether a pair is open or with a slot for the pair it opens.
LEMMA SkipIInv ==
  ASSUME IInv, NumberTable, NEW b \in Byte, NEW s \in State, Accept(b, s),
         UNCHANGED <<pair_count, key, value, number, on_message>>,
         tok_ptr' \in 0 .. StrMax - 1,
         s \in {"read_key", "wait_colon", "wait_dq_value", "read_value", "read_value_int"}
           => pair_count < MaxKV,
         PairOpen => s \in {"read_key", "wait_colon", "wait_dq_value", "read_value", "read_value_int"}
  PROVE  IInv' /\ NumberTable'
<1>1. /\ msg' \in [0 .. MsgMax - 1 -> Byte] /\ msg_ptr' \in 0 .. MsgMax - 1
      /\ msg'[msg_ptr'] = NUL /\ st' = s /\ ret' = 1
  BY CaptureStep
<1>2. SlotTypes'
  BY <1>1 DEF IInv, SlotTypes
<1>3. SlotReserved'
  BY <1>1 DEF SlotReserved, PairOpen
<1>4. SlotsTerminated'
  BY <1>1 DEF IInv, SlotsTerminated
<1>5. NothingStale'
  BY <1>1 DEF IInv, NothingStale, PairOpen
<1>6. NumberTable'
  BY DEF NumberTable
<1> QED BY <1>2, <1>3, <1>4, <1>5, <1>6 DEF IInv

\* An accepted byte of a value, from cursor c on.
LEMMA ValueIInv ==
  ASSUME IInv, NumberTable, NEW b \in Byte, NEW s \in {"read_value", "read_value_int"},
         Accept(b, s), NEW c \in 0 .. StrMax - 1, c < StrMax - 1, AppendValue(b, c),
         PairOpen, UNCHANGED on_message
  PROVE  IInv' /\ NumberTable'
<1>1. /\ msg' \in [0 .. MsgMax - 1 -> Byte] /\ msg_ptr' \in 0 .. MsgMax - 1
      /\ msg'[msg_ptr'] = NUL /\ st' = s /\ ret' = 1
  BY CaptureStep
<1>2. /\ pair_count \in Pair /\ value \in [Pair -> Slot] /\ value[pair_count][StrMax - 1] = NUL
  BY UjsonAssumption DEF IInv, SlotTypes, SlotReserved, SlotsTerminated, Pair
<1>3. /\ value' = [value EXCEPT ![pair_count] = Appended(value[pair_count], c, b)]
      /\ tok_ptr' = c + 1 /\ UNCHANGED <<pair_count, key, number>>
  BY DEF AppendValue
<1>4. /\ Appended(value[pair_count], c, b) \in Slot
      /\ Appended(value[pair_count], c, b)[StrMax - 1] = NUL
  BY <1>2, AppendedSlot
<1>5. SlotTypes'
  BY <1>1, <1>2, <1>3, <1>4, UjsonAssumption DEF IInv, SlotTypes, State
<1>6. SlotReserved'
  BY <1>3 DEF IInv, SlotReserved
<1>7. SlotsTerminated'
  BY <1>1, <1>2, <1>3, <1>4 DEF IInv, SlotsTerminated
<1>8. NothingStale'
  BY <1>1, <1>2, <1>3 DEF IInv, NothingStale, PairOpen, SlotTypes
<1>9. NumberTable'
  BY <1>3 DEF NumberTable
<1> QED BY <1>5, <1>6, <1>7, <1>8, <1>9 DEF IInv

\* The byte that completes a pair.
LEMMA CloseIInv ==
  ASSUME IInv, NumberTable, NEW b \in Byte,
         NEW s \in {"wait_dq_start", "wait_comma_or_end"}, Accept(b, s),
         PairOpen, pair_count' = pair_count + 1, number' = number \/ number' = Finalised,
         UNCHANGED <<tok_ptr, key, value, on_message>>
  PROVE  IInv' /\ NumberTable'
<1>1. /\ msg' \in [0 .. MsgMax - 1 -> Byte] /\ msg_ptr' \in 0 .. MsgMax - 1
      /\ msg'[msg_ptr'] = NUL /\ st' = s /\ ret' = 1
  BY CaptureStep
<1>2. pair_count \in Pair /\ pair_count + 1 \in 0 .. MaxKV
  BY UjsonAssumption DEF IInv, SlotTypes, SlotReserved, Pair
<1>3. SlotTypes'
  BY <1>1, <1>2 DEF IInv, SlotTypes, State
<1>4. SlotReserved'
  BY <1>1 DEF SlotReserved, PairOpen
<1>5. SlotsTerminated'
  BY <1>1 DEF IInv, SlotsTerminated
<1>6. NumberTable' /\ \A k \in Pair : k # pair_count => number'[k] = number[k]
  <2>1. CASE number' = number
    BY <2>1 DEF NumberTable
  <2>2. CASE number' = Finalised
    <3> DEFINE n == ToInt32(Strtol(CStr(value[pair_count])))
    <3>1. number' = [number EXCEPT ![pair_count] = n]
      BY <2>2 DEF Finalised
    <3> HIDE DEF n
    <3>2. number' = [k \in Pair |-> IF k = pair_count THEN n ELSE number[k]]
      BY <3>1 DEF NumberTable
    <3> QED BY <3>2 DEF NumberTable
  <2> QED BY <2>1, <2>2
<1>7. NothingStale'
  <2>1. ASSUME NEW k \in Pair, k > pair_count
        PROVE  key[k] = Blank /\ value[k] = Blank /\ number'[k] = NONE
    BY <1>2, <1>6, <2>1 DEF IInv, NothingStale, Pair
  <2>2. \A k \in Pair : k >= pair_count + 1 => k > pair_count
    BY <1>2, UjsonAssumption DEF Pair
  <2>3. \A k \in Pair : k > pair_count + 1 \/ k = pair_count + 1 => k >= pair_count + 1
    BY <1>2, UjsonAssumption DEF Pair
  <2> QED BY <2>1, <2>2, <2>3 DEF NothingStale
<1> QED BY <1>3, <1>4, <1>5, <1>6, <1>7 DEF IInv

\* Every byte preserves the invariant, in every state of the parser.
LEMMA FeedIInv ==
  ASSUME IInv, NumberTable, NEW b \in Byte, ujson_feed(b)
  PROVE  IInv' /\ NumberTable'
<1>0. /\ UNCHANGED on_message /\ on_message \in BOOLEAN
      /\ tok_ptr \in 0 .. StrMax - 1 /\ 0 \in 0 .. StrMax - 1 /\ st \in State
  BY UjsonAssumption DEF ujson_feed, IInv, SlotTypes
<1>1. ASSUME Reject
      PROVE  IInv' /\ NumberTable'
  BY <1>0, <1>1, ResetIInv DEF Reject
<1>2. ASSUME NEW numbers, NEW n, Complete(b, numbers, n)
      PROVE  IInv' /\ NumberTable'
  BY <1>0, <1>2, ResetIInv DEF Complete
<1>3. CASE FeedStart(b)
  BY <1>0, <1>3, SkipIInv DEF FeedStart, pairs, PairOpen, State
<1>4. CASE FeedKeyQuote(b)
  <2>1. CASE OpensKey(b) /\ Accept(b, "read_key") /\ tok_ptr' = 0
             /\ UNCHANGED <<pair_count, key, value, number>>
    BY <1>0, <1>4, <2>1, SkipIInv DEF FeedKeyQuote, OpensKey, PairOpen, State
  <2>2. CASE Accept(b, st) /\ UNCHANGED pairs
    BY <1>0, <1>4, <2>2, SkipIInv DEF FeedKeyQuote, pairs, PairOpen, State
  <2> QED BY <1>1, <1>4, <2>1, <2>2 DEF FeedKeyQuote
<1>5. CASE FeedKey(b)
  <2>0. PairOpen /\ pair_count < MaxKV
    BY <1>5 DEF FeedKey, PairOpen, IInv, SlotReserved
  <2>1. CASE Accept(b, "wait_colon") /\ UNCHANGED pairs
    BY <1>0, <2>0, <2>1, SkipIInv DEF pairs, State
  <2>2. CASE /\ RoomForToken
             /\ key' = [key EXCEPT ![pair_count] = Appended(key[pair_count], tok_ptr, b)]
             /\ tok_ptr' = tok_ptr + 1
             /\ Accept(b, st)
             /\ UNCHANGED <<pair_count, value, number>>
    <3>1. /\ msg' \in [0 .. MsgMax - 1 -> Byte] /\ msg_ptr' \in 0 .. MsgMax - 1
          /\ msg'[msg_ptr'] = NUL /\ st' = st /\ ret' = 1
      BY <2>2, CaptureStep
    <3>2. pair_count \in Pair /\ key \in [Pair -> Slot] /\ key[pair_count][StrMax - 1] = NUL
      BY <2>0, UjsonAssumption DEF IInv, SlotTypes, SlotsTerminated, Pair
    <3>3. /\ Appended(key[pair_count], tok_ptr, b) \in Slot
          /\ Appended(key[pair_count], tok_ptr, b)[StrMax - 1] = NUL
      BY <1>0, <2>2, <3>2, AppendedSlot DEF RoomForToken
    <3>4. SlotTypes'
      <4>1. key' \in [Pair -> Slot]
        BY <2>2, <3>2, <3>3
      <4>2. tok_ptr' \in 0 .. StrMax - 1
        BY <1>0, <2>2, UjsonAssumption DEF RoomForToken
      <4> QED BY <1>0, <2>2, <3>1, <4>1, <4>2 DEF IInv, SlotTypes
    <3>5. SlotReserved'
      BY <2>0, <2>2 DEF SlotReserved
    <3>6. SlotsTerminated'
      BY <2>2, <3>1, <3>2, <3>3 DEF IInv, SlotsTerminated
    <3>7. NothingStale'
      BY <2>0, <2>2, <3>1, <3>2 DEF IInv, NothingStale, PairOpen, SlotTypes
    <3>8. NumberTable'
      BY <2>2 DEF NumberTable
    <3> QED BY <3>4, <3>5, <3>6, <3>7, <3>8 DEF IInv
  <2> QED BY <1>1, <1>5, <2>1, <2>2 DEF FeedKey
<1>6. CASE FeedColon(b)
  <2>0. PairOpen /\ pair_count < MaxKV
    BY <1>6 DEF FeedColon, PairOpen, IInv, SlotReserved
  <2>1. CASE Accept(b, "wait_dq_value") /\ UNCHANGED pairs
    BY <1>0, <2>0, <2>1, SkipIInv DEF pairs, State
  <2>2. CASE Accept(b, st) /\ UNCHANGED pairs
    BY <1>0, <1>6, <2>0, <2>2, SkipIInv DEF FeedColon, pairs, State
  <2> QED BY <1>1, <1>6, <2>1, <2>2 DEF FeedColon
<1>7. CASE FeedValueStart(b)
  <2>0. PairOpen /\ pair_count < MaxKV
    BY <1>7 DEF FeedValueStart, PairOpen, IInv, SlotReserved
  <2>1. CASE Accept(b, "read_value") /\ tok_ptr' = 0 /\ UNCHANGED <<pair_count, key, value, number>>
    BY <1>0, <2>0, <2>1, SkipIInv DEF State
  <2>2. CASE StrMax > 1 /\ Accept(b, "read_value_int") /\ AppendValue(b, 0)
    <3>1. 0 < StrMax - 1
      BY <2>2, UjsonAssumption
    <3> QED BY <1>0, <2>0, <2>2, <3>1, ValueIInv
  <2>3. CASE Accept(b, st) /\ UNCHANGED pairs
    BY <1>0, <1>7, <2>0, <2>3, SkipIInv DEF FeedValueStart, pairs, State
  <2> QED BY <1>1, <1>7, <2>1, <2>2, <2>3 DEF FeedValueStart
<1>8. CASE FeedValue(b)
  <2>0. PairOpen
    BY <1>8 DEF FeedValue, PairOpen
  <2>1. CASE /\ Accept(b, "wait_comma_or_end")
             /\ pair_count' = pair_count + 1
             /\ UNCHANGED <<tok_ptr, key, value, number>>
    BY <1>0, <2>0, <2>1, CloseIInv
  <2>2. CASE RoomForToken /\ Accept(b, st) /\ AppendValue(b, tok_ptr)
    BY <1>0, <1>8, <2>0, <2>2, ValueIInv DEF FeedValue, RoomForToken
  <2> QED BY <1>1, <1>8, <2>1, <2>2 DEF FeedValue
<1>9. CASE FeedNumber(b)
  <2>0. PairOpen
    BY <1>9 DEF FeedNumber, PairOpen
  <2>1. CASE /\ Accept(b, IF b = "," THEN "wait_dq_start" ELSE "wait_comma_or_end")
             /\ number' = Finalised
             /\ pair_count' = pair_count + 1
             /\ UNCHANGED <<tok_ptr, key, value>>
    BY <1>0, <2>0, <2>1, CloseIInv
  <2>2. CASE RoomForToken /\ Accept(b, st) /\ AppendValue(b, tok_ptr)
    BY <1>0, <1>9, <2>0, <2>2, ValueIInv DEF FeedNumber, RoomForToken
  <2> QED BY <1>1, <1>2, <1>9, <2>1, <2>2 DEF FeedNumber
<1>10. CASE FeedCommaOrEnd(b)
  <2>1. CASE Accept(b, "wait_dq_start") /\ UNCHANGED pairs
    BY <1>0, <1>10, <2>1, SkipIInv DEF FeedCommaOrEnd, pairs, PairOpen, State
  <2>2. CASE Accept(b, st) /\ UNCHANGED pairs
    BY <1>0, <1>10, <2>2, SkipIInv DEF FeedCommaOrEnd, pairs, PairOpen, State
  <2> QED BY <1>1, <1>2, <1>10, <2>1, <2>2 DEF FeedCommaOrEnd
<1> QED BY <1>3, <1>4, <1>5, <1>6, <1>7, <1>8, <1>9, <1>10 DEF ujson_feed

\* So does every call.
LEMMA NextIInv == (IInv /\ NumberTable) /\ [Next]_vars => (IInv /\ NumberTable)'
<1> SUFFICES ASSUME IInv, NumberTable, [Next]_vars
             PROVE  IInv' /\ NumberTable'
  OBVIOUS
<1>0. on_message \in BOOLEAN
  BY DEF IInv, SlotTypes
<1>1. CASE ujson_reset
  BY <1>0, <1>1, ResetIInv DEF ujson_reset
<1>2. CASE ujson_init
  BY <1>2, ResetIInv DEF ujson_init
<1>3. CASE UNCHANGED vars
  BY <1>3 DEF vars, pairs, IInv, NumberTable, SlotTypes, SlotReserved, PairOpen, SlotsTerminated,
              NothingStale
<1> QED BY <1>1, <1>2, <1>3, FeedIInv DEF Next

\* The invariant holds in every reachable state.
LEMMA Invariance == Spec => []IInv
<1>1. IInv /\ NumberTable => IInv
  OBVIOUS
<1> QED BY <1>1, InitIInv, NextIInv, PTL DEF Spec

\* While a pair is open the table has a slot for it: the one test for room, when
\* the key opens, protects all later writes of the pair (ujson.c:100).
THEOREM ReservedTheorem == Spec => []SlotReserved
<1>1. IInv => SlotReserved
  BY DEF IInv
<1> QED BY <1>1, Invariance, PTL

\* Slots that no pair of this object has reached are blank: nothing of an
\* earlier object is left in them (ujson.c:60-73).
THEOREM StaleTheorem == Spec => []NothingStale
<1>1. IInv => NothingStale
  BY DEF IInv
<1> QED BY <1>1, Invariance, PTL

\* Whatever arrives, every write of the parser is inside the slot it is meant
\* for, every slot stays a C string, and no slot keeps bytes of an earlier
\* object.
THEOREM SlotTheorem == Spec => [](SlotReserved /\ SlotsTerminated /\ NothingStale)
<1>1. IInv => SlotReserved /\ SlotsTerminated /\ NothingStale
  BY DEF IInv
<1> QED BY <1>1, Invariance, PTL

\* The value of a digit, and the function that strtol's fold over the digits recurses with.
DigitValue(d)  == CHOOSE v \in 0 .. 9 : Digits[v + 1] = d
Counts(g, ds)  == g = [s \in SUBSET DOMAIN ds |->
                         IF s = {} THEN 0 ELSE 10 * g[s \ {Max(s)}] + DigitValue(ds[Max(s)])]

\* The digits of a numeral stand for an integer.
LEMMA DigitsCount ==
  ASSUME NEW m \in Nat, NEW ds, DOMAIN ds = 1 .. m, \A i \in 1 .. m : IsDigit(ds[i])
  PROVE  FoldLeft(LAMBDA acc, d : 10 * acc + DigitValue(d), 0, ds) \in Int
<1> DEFINE n  == FoldLeft(LAMBDA acc, d : 10 * acc + DigitValue(d), 0, ds)
           g0 == CHOOSE g : Counts(g, ds)
           w  == [i \in 1 .. m |-> DigitValue(ds[i])]
           F  == [i \in 1 .. m |-> [v \in Int |-> 10 * v + w[i]]]
<1>1. n = g0[DOMAIN ds]
  BY Zenon DEF FoldLeft, MapThenFoldSet, Counts
<1>2. ASSUME NEW i \in 1 .. m PROVE w[i] \in Int /\ w[i] = DigitValue(ds[i])
  <2>1. PICK d \in 1 .. 10 : Digits[d] = ds[i]
    BY Zenon DEF IsDigit
  <2>2. d - 1 \in 0 .. 9 /\ (d - 1) + 1 = d
    OBVIOUS
  <2>3. \E v \in 0 .. 9 : Digits[v + 1] = ds[i]
    BY <2>1, <2>2, Zenon
  <2>4. DigitValue(ds[i]) \in 0 .. 9
    BY <2>3, Zenon DEF DigitValue
  <2> QED BY <2>4
<1> HIDE DEF w
<1>3. Keeps(F, 1 .. m, Int) /\ \A i \in 1 .. m : \A v \in Int : F[i][v] = 10 * v + w[i]
  BY <1>2 DEF Keeps
<1> HIDE DEF F
<1>4. PICK g \in [SUBSET (1 .. m) -> Int] : FoldsLeft(g, m, F, 0)
  <2> DEFINE V == Int
             b == 0
  <2>1. b \in V /\ Keeps(F, 1 .. m, V)
    BY <1>3
  <2> HIDE DEF V, b
  <2>2. \E g \in [SUBSET (1 .. m) -> V] : FoldsLeft(g, m, F, b)
    BY <2>1, FoldLeftExists
  <2> QED BY <2>2 DEF V, b
<1>5. \A s \in SUBSET (1 .. m) : s # {} => Max(s) \in 1 .. m /\ s \ {Max(s)} \in SUBSET (1 .. m)
  BY MaxIs
<1>6. Counts(g, ds)
  <2>1. \A s \in SUBSET (1 .. m) :
          g[s] = IF s = {} THEN 0 ELSE 10 * g[s \ {Max(s)}] + w[Max(s)]
    BY <1>3, <1>4, <1>5 DEF FoldsLeft
  <2>2. \A s \in SUBSET (1 .. m) : s # {} => w[Max(s)] = DigitValue(ds[Max(s)])
    BY <1>2, <1>5, Zenon
  <2>3. \A s \in SUBSET (1 .. m) :
          g[s] = IF s = {} THEN 0 ELSE 10 * g[s \ {Max(s)}] + DigitValue(ds[Max(s)])
    BY <2>1, <2>2, Zenon
  <2>4. g = [s \in SUBSET (1 .. m) |-> g[s]]
    OBVIOUS
  <2> QED BY <2>3, <2>4, Zenon DEF Counts
<1>7. Counts(g0, ds)
  BY <1>6, Zenon
<1> HIDE DEF g0, n
\* Whatever counts so has integers, by induction on the number of digits.
<1> DEFINE T == {k \in Nat : k <= m => g0[1 .. k] \in Int}
<1>8. 0 \in T
  <2>1. 1 .. 0 = {} /\ {} \in SUBSET (1 .. m)
    OBVIOUS
  <2>2. g0[{}] = 0
    BY <1>7, <2>1 DEF Counts
  <2> QED BY <2>1, <2>2
<1>9. ASSUME NEW k \in Nat, k \in T PROVE k + 1 \in T
  <2> SUFFICES ASSUME k + 1 <= m PROVE g0[1 .. k + 1] \in Int
    OBVIOUS
  <2>1. k + 1 \in 1 .. m /\ 1 .. k + 1 \in SUBSET (1 .. m) /\ (k + 1) - 1 = k
    OBVIOUS
  <2>2. Max(1 .. k + 1) = k + 1 /\ (1 .. k + 1) \ {k + 1} = 1 .. k /\ (1 .. k + 1) # {}
    BY <2>1, MaxIs
  <2>3. g0[1 .. k + 1] = 10 * g0[1 .. k] + DigitValue(ds[k + 1])
    BY <1>7, <2>1, <2>2 DEF Counts
  <2>4. g0[1 .. k] \in Int
    BY <1>9, <2>1
  <2>5. DigitValue(ds[k + 1]) \in Int
    BY <1>2, <2>1
  <2> QED BY <2>3, <2>4, <2>5
<1>10. g0[1 .. m] \in Int
  <2> HIDE DEF T
  <2>1. m \in T
    BY <1>8, <1>9, InductionOnSets
  <2>2. m <= m
    OBVIOUS
  <2> QED BY <2>1, <2>2 DEF T
<1> QED BY <1>1, <1>10 DEF n

\* What a slot may hold when ujson_finalise_int is called: the text of a number, c bytes long.
IsNumeral(slot, c) == /\ c \in 1 .. StrMax - 1 /\ slot[c] = NUL
                      /\ OpensNumber(slot[0])
                      /\ \A j \in 1 .. c - 1 : IsDigit(slot[j])

\* The number that a slot with a numeral stands for is an integer, wherever its first NUL is.
LEMMA NumeralCounts ==
  ASSUME NEW slot \in Slot, NEW c, IsNumeral(slot, c)
  PROVE  ToInt32(Strtol(CStr(slot))) \in Int
<1> DEFINE First(n) == slot[n] = NUL /\ \A j \in 0 .. n - 1 : slot[j] # NUL
           len == CHOOSE n \in DOMAIN slot : First(n)
           text == CStr(slot)
<1>1. c \in 1 .. StrMax - 1 /\ DOMAIN slot = 0 .. StrMax - 1 /\ StrMax \in Nat
  BY UjsonAssumption DEF IsNumeral, Slot
<1>2. \E n \in DOMAIN slot : First(n) /\ n <= c
  <2> DEFINE Z == {n \in 0 .. c : slot[n] = NUL}
  <2>1. Z \in SUBSET Nat /\ Z # {}
    BY <1>1 DEF IsNumeral
  <2>2. PICK n \in Z : \A k \in Z : n <= k
    <3> HIDE DEF Z
    <3> QED BY <2>1, LeastNumber
  <2>3. n \in 0 .. c /\ slot[n] = NUL
    BY <2>2
  <2>4. ASSUME NEW j \in 0 .. n - 1 PROVE slot[j] # NUL
    BY <2>2, <2>3, <1>1
  <2> QED BY <1>1, <2>3, <2>4
<1>3. len \in 0 .. c
  <2>1. len \in DOMAIN slot /\ First(len)
    BY <1>2
  <2> HIDE DEF len
  <2> QED BY <1>1, <2>1 DEF IsNumeral
<1>4. text = [j \in 1 .. len |-> slot[j - 1]]
  BY DEF CStr
<1> HIDE DEF len, First
<1>5. text \in Seq(Byte) /\ Len(text) = len
  BY <1>1, <1>3, <1>4 DEF Slot
<1>6. \A j \in 2 .. len : IsDigit(text[j])
  <2> TAKE j \in 2 .. len
  <2>1. j - 1 \in 1 .. c - 1 /\ text[j] = slot[j - 1]
    BY <1>1, <1>3, <1>4
  <2> QED BY <2>1, Zenon DEF IsNumeral
<1>7. len # 0 => OpensNumber(text[1])
  <2>1. len # 0 => text[1] = slot[0]
    BY <1>3, <1>4
  <2> QED BY <2>1, Zenon DEF IsNumeral
<1> HIDE DEF text
<1> DEFINE negative == text # <<>> /\ Head(text) = "-"
           ds == IF negative THEN Tail(text) ELSE text
           n  == FoldLeft(LAMBDA acc, d : 10 * acc + DigitValue(d), 0, ds)
<1>8. \E m \in Nat : DOMAIN ds = 1 .. m /\ \A i \in 1 .. m : IsDigit(ds[i])
  <2>1. CASE negative
    <3> DEFINE rest == Tail(text)
    <3>1. ds = rest
      BY <2>1, Zenon
    <3>2. text # <<>>
      BY <2>1, Zenon
    <3>3. rest \in Seq(Byte) /\ Len(rest) = len - 1 /\ len - 1 \in Nat
          /\ \A i \in 1 .. len - 1 : rest[i] = text[i + 1]
      BY <1>5, <3>2
    <3>4. ASSUME NEW i \in 1 .. len - 1 PROVE IsDigit(rest[i])
      <4>1. i + 1 \in 2 .. len
        BY <1>3
      <4>2. rest[i] = text[i + 1]
        BY <3>3
      <4> QED BY <1>6, <4>1, <4>2, Zenon
    <3>5. DOMAIN rest = 1 .. len - 1
      BY <3>3
    <3> HIDE DEF rest, ds
    <3> QED BY <3>1, <3>3, <3>4, <3>5
  <2>2. CASE ~negative
    <3>1. ds = text
      BY <2>2, Zenon
    <3>2. DOMAIN text = 1 .. len /\ len \in Nat
      BY <1>3, <1>5
    <3>3. ASSUME NEW i \in 1 .. len PROVE IsDigit(text[i])
      <4>1. CASE i = 1
        <5>1. len # 0 /\ text # <<>> /\ Head(text) = text[1]
          BY <1>5
        <5>2. text[1] # "-"
          BY <2>2, <5>1, Zenon
        <5> QED BY <1>7, <4>1, <5>1, <5>2, Zenon DEF OpensNumber
      <4>2. CASE i # 1
        <5>1. i \in 2 .. len
          BY <4>2
        <5> QED BY <1>6, <5>1, Zenon
      <4> QED BY <4>1, <4>2
    <3> HIDE DEF ds
    <3> QED BY <3>1, <3>2, <3>3
  <2> QED BY <2>1, <2>2
<1>9. n \in Int
  <2> HIDE DEF ds
  <2> QED BY <1>8, DigitsCount
<1>10. Strtol(text) = IF negative THEN (IF n > LongHalf THEN -LongHalf ELSE -n)
                      ELSE (IF n >= LongHalf THEN LongHalf - 1 ELSE n)
  BY Zenon DEF Strtol, DigitValue
<1> HIDE DEF n, negative
<1>11. Strtol(text) \in Int
  BY <1>9, <1>10, UjsonAssumption
<1> QED BY <1>11, UjsonAssumption DEF ToInt32, text

\* While a number is read, its slot holds a numeral, and the table holds integers.
NumberSlot   == st = "read_value_int" => IsNumeral(value[pair_count], tok_ptr)
NumbersTyped == number \in [Pair -> Int \cup {NONE}]
NumInv       == NumberSlot /\ NumbersTyped

\* A byte and a NUL after it make a longer numeral of a numeral, or a first one.
LEMMA NumeralGrows ==
  ASSUME IInv, PairOpen, NEW b \in Byte, NEW c, AppendValue(b, c), c + 1 \in 1 .. StrMax - 1,
         \/ c = 0 /\ OpensNumber(b)
         \/ IsNumeral(value[pair_count], c) /\ IsDigit(b)
  PROVE  IsNumeral(value'[pair_count'], tok_ptr')
<1> DEFINE old == value[pair_count]
           new == value'[pair_count]
<1>1. pair_count' = pair_count /\ tok_ptr' = c + 1
  BY DEF AppendValue
<1>2. old \in Slot /\ new = Appended(old, c, b)
  <2>1. pair_count \in Pair /\ value \in [Pair -> Slot]
    BY UjsonAssumption DEF IInv, SlotTypes, SlotReserved, Pair
  <2>2. value' = [value EXCEPT ![pair_count] = Appended(value[pair_count], c, b)]
    BY DEF AppendValue
  <2> QED BY <2>1, <2>2
<1>3. c \in Nat /\ c + 1 \in 0 .. StrMax - 1 /\ c \in 0 .. StrMax - 1
  BY UjsonAssumption DEF IsNumeral
<1> HIDE DEF old, new
<1>4. new[c] = b /\ new[c + 1] = NUL /\ \A j \in 0 .. c - 1 : new[j] = old[j]
  <2>1. new = [[old EXCEPT ![c] = b] EXCEPT ![c + 1] = NUL]
    BY <1>2 DEF Appended
  <2>2. DOMAIN old = 0 .. StrMax - 1 /\ c + 1 # c
    BY <1>2, <1>3 DEF Slot
  <2>3. \A j \in 0 .. c - 1 : j \in 0 .. StrMax - 1 /\ j # c /\ j # c + 1
    BY <1>3, UjsonAssumption
  <2> QED BY <1>3, <2>1, <2>2, <2>3
<1>5. CASE c = 0 /\ OpensNumber(b)
  <2>1. 1 .. c + 1 - 1 = 1 .. c /\ 1 .. c = {}
    BY <1>5
  <2>2. \A j \in 1 .. c + 1 - 1 : IsDigit(new[j])
    BY <2>1
  <2>3. OpensNumber(new[0])
    BY <1>4, <1>5, Zenon
  <2> QED BY <1>1, <1>4, <2>2, <2>3 DEF IsNumeral, new
<1>6. CASE IsNumeral(old, c) /\ IsDigit(b)
  <2>1. c \in 1 .. StrMax - 1 /\ OpensNumber(old[0]) /\ \A j \in 1 .. c - 1 : IsDigit(old[j])
    BY <1>6 DEF IsNumeral
  <2>2. OpensNumber(new[0])
    <3>1. new[0] = old[0]
      BY <1>4, <2>1
    <3> QED BY <2>1, <3>1, Zenon
  <2>3. ASSUME NEW j \in 1 .. c + 1 - 1 PROVE IsDigit(new[j])
    <3>1. CASE j = c
      BY <1>4, <1>6, <3>1, Zenon
    <3>2. CASE j # c
      <4>1. j \in 0 .. c - 1 /\ j \in 1 .. c - 1
        BY <1>3, <3>2
      <4> QED BY <1>4, <2>1, <4>1, Zenon
    <3> QED BY <3>1, <3>2
  <2> QED BY <1>1, <1>4, <2>2, <2>3 DEF IsNumeral, new
<1> QED BY <1>5, <1>6 DEF old

\* A reset leaves no number.
LEMMA ResetNumInv == ASSUME Reset PROVE NumInv'
<1>1. st' = "start" /\ number' = [k \in Pair |-> NONE]
  BY DEF Reset
<1>2. st' # "read_value_int"
  BY <1>1
<1> QED BY <1>1, <1>2 DEF NumInv, NumberSlot, NumbersTyped

\* Every byte keeps the numbers numbers.
LEMMA FeedNumInv ==
  ASSUME IInv, NumInv, NEW b \in Byte, ujson_feed(b)
  PROVE  NumInv'
<1>1. ASSUME Reject PROVE NumInv'
  BY <1>1, ResetNumInv DEF Reject
<1>2. ASSUME NEW numbers, NEW n, Complete(b, numbers, n) PROVE NumInv'
  BY <1>2, ResetNumInv DEF Complete
<1>3. ASSUME NEW s, Accept(b, s), s # "read_value_int", UNCHANGED number PROVE NumInv'
  BY <1>3 DEF Accept, NumInv, NumberSlot, NumbersTyped
<1>4. ASSUME NEW s, Accept(b, s), s # "read_value_int", number' = Finalised, st = "read_value_int"
      PROVE  NumInv'
  <2> DEFINE i == ToInt32(Strtol(CStr(value[pair_count])))
  <2>1. value[pair_count] \in Slot /\ IsNumeral(value[pair_count], tok_ptr)
    <3>1. pair_count \in Pair
      BY <1>4, UjsonAssumption DEF IInv, SlotTypes, SlotReserved, PairOpen, Pair
    <3> QED BY <1>4, <3>1 DEF IInv, SlotTypes, NumInv, NumberSlot
  <2>2. i \in Int
    BY <2>1, NumeralCounts
  <2>3. number' = [number EXCEPT ![pair_count] = i]
    BY <1>4 DEF Finalised
  <2> HIDE DEF i
  <2>4. NumbersTyped'
    BY <2>2, <2>3 DEF NumInv, NumbersTyped
  <2>5. st' # "read_value_int"
    BY <1>4 DEF Accept
  <2> QED BY <2>4, <2>5 DEF NumInv, NumberSlot
<1>5. ASSUME NEW c, Accept(b, "read_value_int"), AppendValue(b, c), c + 1 \in 1 .. StrMax - 1, PairOpen,
             \/ c = 0 /\ OpensNumber(b)
             \/ IsNumeral(value[pair_count], c) /\ IsDigit(b)
      PROVE  NumInv'
  <2>1. IsNumeral(value'[pair_count'], tok_ptr')
    BY <1>5, NumeralGrows
  <2>2. number' = number
    BY <1>5 DEF AppendValue
  <2> QED BY <2>1, <2>2 DEF NumInv, NumberSlot, NumbersTyped
<1>6. CASE FeedStart(b)
  BY <1>3, <1>6 DEF FeedStart, pairs
<1>7. CASE FeedKeyQuote(b)
  BY <1>1, <1>3, <1>7 DEF FeedKeyQuote, pairs
<1>8. CASE FeedKey(b)
  BY <1>1, <1>3, <1>8 DEF FeedKey, pairs
<1>9. CASE FeedColon(b)
  BY <1>1, <1>3, <1>9 DEF FeedColon, pairs
<1>10. CASE FeedValueStart(b)
  <2>1. CASE OpensNumber(b) /\ StrMax > 1 /\ Accept(b, "read_value_int") /\ AppendValue(b, 0)
    <3>1. PairOpen
      BY <1>10 DEF FeedValueStart, PairOpen
    <3>2. 0 + 1 \in 1 .. StrMax - 1
      BY <2>1, UjsonAssumption
    <3> QED BY <1>5, <2>1, <3>1, <3>2
  <2> QED BY <1>1, <1>3, <1>10, <2>1 DEF FeedValueStart, pairs
<1>11. CASE FeedValue(b)
  BY <1>1, <1>3, <1>11 DEF FeedValue, AppendValue
<1>12. CASE FeedNumber(b)
  <2>1. CASE IsDigit(b) /\ RoomForToken /\ Accept(b, st) /\ AppendValue(b, tok_ptr)
    <3>1. PairOpen /\ st = "read_value_int"
      BY <1>12 DEF FeedNumber, PairOpen
    <3>4. tok_ptr + 1 \in 1 .. StrMax - 1
      BY <2>1, UjsonAssumption DEF RoomForToken, IInv, SlotTypes
    <3>2. IsNumeral(value[pair_count], tok_ptr)
      BY <3>1 DEF NumInv, NumberSlot
    <3>3. Accept(b, "read_value_int")
      BY <2>1, <3>1
    <3> QED BY <1>5, <2>1, <3>1, <3>2, <3>3, <3>4
  <2> QED BY <1>1, <1>2, <1>4, <1>12, <2>1 DEF FeedNumber
<1>13. CASE FeedCommaOrEnd(b)
  BY <1>1, <1>2, <1>3, <1>13 DEF FeedCommaOrEnd, pairs
<1> QED BY <1>6, <1>7, <1>8, <1>9, <1>10, <1>11, <1>12, <1>13 DEF ujson_feed

\* Whatever arrives, the cursors index their arrays, and every number the parser
\* keeps is one: ujson_finalise_int is called on a numeral only (ujson.c:40).
THEOREM TypeTheorem == Spec => []TypeOK
<1> DEFINE Inv == IInv /\ NumberTable /\ NumInv
<1>1. Init => Inv
  <2> SUFFICES ASSUME Init PROVE NumInv
    BY InitIInv
  <2>1. st # "read_value_int" /\ number = [k \in Pair |-> NONE]
    BY DEF Init
  <2> QED BY <2>1 DEF NumInv, NumberSlot, NumbersTyped
<1>2. Inv /\ [Next]_vars => Inv'
  <2> SUFFICES ASSUME IInv, NumInv, [Next]_vars PROVE NumInv'
    BY NextIInv
  <2>1. CASE ujson_reset \/ ujson_init
    BY <2>1, ResetNumInv DEF ujson_reset, ujson_init
  <2>2. CASE UNCHANGED vars
    BY <2>2 DEF vars, pairs, NumInv, NumberSlot, NumbersTyped
  <2> QED BY <2>1, <2>2, FeedNumInv DEF Next
<1>3. Inv => TypeOK
  BY DEF IInv, NumInv, NumbersTyped, TypeOK
<1> QED BY <1>1, <1>2, <1>3, PTL DEF Spec
-----------------------------------------------------------------------------
\* 2. The bytes of an object on the line.

(***************************************************************************)
(* The parser at the end of a line.  What the sender still has to send     *)
(* says where in the object the parser is, and what its slots must hold.   *)
(***************************************************************************)
\* The structural bytes, by name: the provers read some of the literals badly.
Dq    == "\""
Open  == "{"
Close == "}"
Comma == ","
Colon == ":"

\* A byte of an object after its opening brace.
Inner == Byte \ {Open}
Item  == [b : Inner, gap : BOOLEAN]

C(b, gap) == [b |-> b, gap |-> gap]

Members == [key : Seq(KeyByte), text : Seq(TextByte), number : Int \cup {NONE}]

\* The structural bytes are bytes, and only one of them opens an object.
LEMMA Structure == Dq \in Inner /\ Close \in Inner /\ Comma \in Inner /\ Colon \in Inner
<1>1. Structural \subseteq Byte
  BY StreamAssumption
<1> QED BY <1>1, Zenon DEF Structural, Inner, Dq, Open, Close, Comma, Colon

\* A byte that may follow white space.
LEMMA TokenAt ==
  ASSUME NEW b \in Inner
  PROVE  Token(b) \in Seq(Item) /\ Len(Token(b)) = 1 /\ Token(b)[1] = C(b, TRUE)
  BY DEF Token, Item, C

\* Bytes inside a string or a number.
LEMMA WithinAt ==
  ASSUME NEW bs \in Seq(Inner)
  PROVE  /\ Within(bs) \in Seq(Item) /\ Len(Within(bs)) = Len(bs)
         /\ \A j \in 1 .. Len(bs) : Within(bs)[j] = C(bs[j], FALSE)
  BY DEF Within, Item, C

\* A string: its opening quote, its bytes, its closing quote.
LEMMA QuotedAt ==
  ASSUME NEW bs \in Seq(Inner)
  PROVE  /\ Quoted(bs) \in Seq(Item) /\ Len(bs) \in Nat /\ Len(Quoted(bs)) = Len(bs) + 2
         /\ Quoted(bs)[1] = C(Dq, TRUE)
         /\ \A j \in 1 .. Len(bs) : Quoted(bs)[1 + j] = C(bs[j], FALSE)
         /\ Quoted(bs)[Len(bs) + 2] = C(Dq, FALSE)
<1> DEFINE q == Append(bs, Dq)
           w == Within(q)
           t == Token(Dq)
           z == Join(t, w)
           n == Len(bs)
<1>0. Dq \in Inner
  BY Structure
<1>1. /\ q \in Seq(Inner) /\ Len(q) = n + 1 /\ n \in Nat
      /\ \A j \in 1 .. n : q[j] = bs[j]
      /\ q[n + 1] = Dq
  BY <1>0, AppendProperties
<1> HIDE DEF q
<1>2. w \in Seq(Item) /\ Len(w) = Len(q) /\ \A j \in 1 .. Len(q) : w[j] = C(q[j], FALSE)
  BY <1>1, WithinAt
<1>3. t \in Seq(Item) /\ Len(t) = 1 /\ t[1] = C(Dq, TRUE)
  BY <1>0, TokenAt
<1> HIDE DEF w, t, n
<1>4. /\ z \in Seq(Item) /\ Len(z) = Len(t) + Len(w)
      /\ \A i \in 1 .. Len(t) : z[i] = t[i]
      /\ \A j \in 1 .. Len(w) : z[Len(t) + j] = w[j]
  <2>1. t \in Seq(Item) /\ w \in Seq(Item)
    BY <1>2, <1>3
  <2>2. Join(t, w) \in Seq(Item) /\ Len(Join(t, w)) = Len(t) + Len(w)
    BY <2>1, JoinAt
  <2>3. \A i \in 1 .. Len(t) : Join(t, w)[i] = t[i]
    BY <2>1, JoinLeft
  <2>4. \A j \in 1 .. Len(w) : Join(t, w)[Len(t) + j] = w[j]
    BY <2>1, JoinRight
  <2> QED BY <2>2, <2>3, <2>4
<1>5. Quoted(bs) = z
  BY DEF Quoted, q, w, t, Dq, Join
<1> HIDE DEF z
<1>6. n \in Nat /\ Len(w) = n + 1 /\ \A j \in 1 .. n : w[j] = C(bs[j], FALSE)
  <2>1. \A j \in 1 .. n : j \in 1 .. n + 1
    BY <1>1
  <2> QED BY <1>1, <1>2, <2>1, Zenon
<1>7. w[n + 1] = C(Dq, FALSE)
  <2>1. n + 1 \in 1 .. n + 1
    BY <1>1
  <2> QED BY <1>1, <1>2, <2>1, Zenon
<1>8. z[1] = C(Dq, TRUE)
  <2>1. 1 \in 1 .. 1
    OBVIOUS
  <2> QED BY <1>3, <1>4, <2>1, Zenon
<1>9. \A j \in 1 .. n + 1 : z[1 + j] = w[j]
  BY <1>3, <1>4, <1>6, Zenon
<1>10. Len(z) = n + 2
  <2>1. 1 + (n + 1) = n + 2
    BY <1>6
  <2> QED BY <1>3, <1>4, <1>6, <2>1, Zenon
<1>11. z[n + 2] = C(Dq, FALSE)
  <2>1. n + 1 \in 1 .. n + 1 /\ 1 + (n + 1) = n + 2
    BY <1>6
  <2>2. z[1 + (n + 1)] = w[n + 1]
    BY <1>9, <2>1, Zenon
  <2> QED BY <1>7, <2>1, <2>2, Zenon
<1>12. \A j \in 1 .. n : z[1 + j] = C(bs[j], FALSE)
  <2>1. \A j \in 1 .. n : j \in 1 .. n + 1
    BY <1>6
  <2> QED BY <1>6, <1>9, <2>1, Zenon
<1> QED BY <1>4, <1>5, <1>6, <1>8, <1>10, <1>11, <1>12, Zenon DEF n

\* A value: the bytes of a number, of which only the first may follow white
\* space, or a string.
Rest(m) == IF m.number # NONE THEN Token(Head(m.text)) \o Within(Tail(m.text)) ELSE Quoted(m.text)

\* The bytes of a number, on the line.
LEMMA NumberAt ==
  ASSUME NEW text \in Seq(Inner), text # <<>>
  PROVE  \E r \in Seq(Item) : /\ r = Token(Head(text)) \o Within(Tail(text))
                              /\ Len(r) = Len(text) /\ r[1] = C(text[1], TRUE)
                              /\ \A j \in 2 .. Len(text) : r[j] = C(text[j], FALSE)
<1> DEFINE t == Token(Head(text))
           l == Tail(text)
           w == Within(l)
           n == Len(text)
<1>1. Head(text) \in Inner /\ Head(text) = text[1] /\ n \in Nat /\ n # 0
  OBVIOUS
<1>2. l \in Seq(Inner) /\ Len(l) = n - 1 /\ \A j \in 1 .. n - 1 : l[j] = text[j + 1]
  BY HeadTailProperties
<1> HIDE DEF l
<1>3. w \in Seq(Item) /\ Len(w) = Len(l)
  BY <1>2, WithinAt
<1>4. \A j \in 1 .. Len(l) : w[j] = C(l[j], FALSE)
  BY <1>2, WithinAt
<1>5. t \in Seq(Item) /\ Len(t) = 1 /\ t[1] = C(Head(text), TRUE)
  BY <1>1, TokenAt
<1> HIDE DEF w, t, n
<1>6. Join(t, w) \in Seq(Item) /\ Len(Join(t, w)) = Len(t) + Len(w)
  BY <1>3, <1>5, JoinAt
<1>7. \A i \in 1 .. Len(t) : Join(t, w)[i] = t[i]
  BY <1>3, <1>5, JoinLeft
<1>8. \A j \in 1 .. Len(w) : Join(t, w)[Len(t) + j] = w[j]
  BY <1>3, <1>5, JoinRight, ZenonT(60)
<1>9. Len(Join(t, w)) = n
  BY <1>1, <1>2, <1>3, <1>5, <1>6
<1>10. Join(t, w)[1] = C(text[1], TRUE)
  <2>1. 1 \in 1 .. 1
    OBVIOUS
  <2> QED BY <1>1, <1>5, <1>7, <2>1, Zenon
<1>11. \A j \in 2 .. n : Join(t, w)[j] = C(text[j], FALSE)
  <2> TAKE j \in 2 .. n
  <2>1. j - 1 \in 1 .. n - 1 /\ 1 + (j - 1) = j /\ (j - 1) + 1 = j
    BY <1>1
  <2>2. w[j - 1] = C(text[j], FALSE)
    BY <1>2, <1>4, <2>1, Zenon
  <2> QED BY <1>2, <1>3, <1>5, <1>8, <2>1, <2>2, Zenon
<1> QED BY <1>6, <1>9, <1>10, <1>11, Zenon DEF Join, t, w, l, n

\* The bytes a sender can use are bytes, and none of them opens an object.
LEMMA SentBytes ==
  /\ KeyByte \subseteq Inner /\ TextByte \subseteq Inner
  /\ Dq \notin KeyByte /\ Dq \notin TextByte /\ NUL \notin KeyByte /\ NUL \notin TextByte
  BY Zenon DEF KeyByte, TextByte, Inner, Structural, Dq, Open

\* A key and a text of a pair are strings of the bytes that are sent.
LEMMA SentStrings ==
  ASSUME NEW m \in Members
  PROVE  /\ m.key \in Seq(Inner) /\ m.text \in Seq(Inner)
         /\ m.key \in Seq(KeyByte) /\ m.text \in Seq(TextByte)
         /\ Len(m.key) \in Nat /\ Len(m.text) \in Nat
<1>1. m.key \in Seq(KeyByte) /\ m.text \in Seq(TextByte)
  BY DEF Members
<1>2. \A S, T : S \subseteq T => Seq(S) \subseteq Seq(T)
  OBVIOUS
<1> QED BY <1>1, <1>2, SentBytes

\* A value, on the line.
LEMMA RestAt ==
  ASSUME NEW m \in Members, m.number # NONE => m.text # <<>>
  PROVE  /\ Rest(m) \in Seq(Item) /\ Len(Rest(m)) \in Nat
         /\ m.number # NONE => /\ Len(Rest(m)) = Len(m.text)
                               /\ Rest(m)[1] = C(m.text[1], TRUE)
                               /\ \A j \in 2 .. Len(m.text) : Rest(m)[j] = C(m.text[j], FALSE)
         /\ m.number = NONE => /\ Len(Rest(m)) = Len(m.text) + 2
                               /\ Rest(m)[1] = C(Dq, TRUE)
                               /\ \A j \in 1 .. Len(m.text) : Rest(m)[1 + j] = C(m.text[j], FALSE)
                               /\ Rest(m)[Len(m.text) + 2] = C(Dq, FALSE)
<1>0. m.text \in Seq(Inner)
  BY SentStrings
<1>1. CASE m.number # NONE
  <2>1. Rest(m) = Token(Head(m.text)) \o Within(Tail(m.text))
    BY <1>1 DEF Rest
  <2>2. Len(m.text) \in Nat
    BY <1>0
  <2> QED BY <1>0, <1>1, <2>1, <2>2, NumberAt, Zenon
<1>2. CASE m.number = NONE
  <2>1. Rest(m) = Quoted(m.text)
    BY <1>2 DEF Rest
  <2>2. Len(m.text) \in Nat /\ Len(m.text) + 2 \in Nat
    BY <1>0
  <2> QED BY <1>0, <1>2, <2>1, <2>2, QuotedAt, Zenon
<1> QED BY <1>1, <1>2

\* A pair on the line.
LEMMA MemberAt ==
  ASSUME NEW m \in Members, m.number # NONE => m.text # <<>>, NEW n \in Nat, n = Len(m.key)
  PROVE  /\ Member(m) \in Seq(Item) /\ Len(Member(m)) = n + 3 + Len(Rest(m))
         /\ Member(m)[1] = C(Dq, TRUE)
         /\ \A j \in 1 .. n : Member(m)[1 + j] = C(m.key[j], FALSE)
         /\ Member(m)[n + 2] = C(Dq, FALSE)
         /\ Member(m)[n + 3] = C(Colon, TRUE)
         /\ \A j \in 1 .. Len(Rest(m)) : Member(m)[(n + 3) + j] = Rest(m)[j]
<1> DEFINE q == Quoted(m.key)
           t == Token(Colon)
           r == Rest(m)
<1>1. Member(m) = (q \o t) \o r
  BY DEF Member, Rest, Colon
<1>2. /\ q \in Seq(Item) /\ Len(q) = n + 2 /\ q[1] = C(Dq, TRUE) /\ q[n + 2] = C(Dq, FALSE)
      /\ \A j \in 1 .. n : q[1 + j] = C(m.key[j], FALSE)
  <2>1. m.key \in Seq(Inner)
    BY SentStrings
  <2> QED BY <2>1, QuotedAt
<1>3. t \in Seq(Item) /\ Len(t) = 1 /\ t[1] = C(Colon, TRUE)
  BY Structure, TokenAt
<1>4. r \in Seq(Item) /\ Len(r) \in Nat
  BY RestAt
<1> HIDE DEF q, t, r
<1> DEFINE z == (q \o t) \o r
<1>5. /\ z \in Seq(Item) /\ Len(z) = (n + 3) + Len(r)
      /\ \A i \in 1 .. n + 2 : z[i] = q[i]
      /\ \A j \in 1 .. Len(t) : z[(n + 2) + j] = t[j]
      /\ \A j \in 1 .. Len(r) : z[(n + 3) + j] = r[j]
  <2>1. n + 2 \in Nat /\ n + 3 \in Nat /\ n + 2 = Len(q) /\ n + 3 = (n + 2) + Len(t)
    BY <1>2, <1>3
  <2>2. q \in Seq(Item) /\ t \in Seq(Item) /\ r \in Seq(Item)
    BY <1>2, <1>3, <1>4
  <2>3. z \in Seq(Item) /\ Len(z) = (n + 3) + Len(r)
    BY <2>1, <2>2, JoinThreeAt
  <2>4. \A i \in 1 .. n + 2 : z[i] = q[i]
    BY <2>1, <2>2, JoinThreeAt, SMTT(40)
  <2>5. \A j \in 1 .. Len(t) : z[(n + 2) + j] = t[j]
    BY <2>1, <2>2, JoinThreeMiddle
  <2>6. \A j \in 1 .. Len(r) : z[(n + 3) + j] = r[j]
    <3>1. n + 3 = Len(q) + Len(t)
      BY <1>2, <1>3
    <3> QED BY <2>1, <2>2, <3>1, JoinThreeLast
  <2> QED BY <2>3, <2>4, <2>5, <2>6
<1> HIDE DEF z
<1>6. 1 \in 1 .. n + 2 /\ n + 2 \in 1 .. n + 2 /\ 1 \in 1 .. 1 /\ (n + 2) + 1 = n + 3
      /\ \A j \in 1 .. n : 1 + j \in 1 .. n + 2
  OBVIOUS
<1>7. z[1] = C(Dq, TRUE) /\ z[n + 2] = C(Dq, FALSE)
  BY <1>2, <1>5, <1>6, Zenon
<1>8. \A j \in 1 .. n : z[1 + j] = C(m.key[j], FALSE)
  BY <1>2, <1>5, <1>6, Zenon
<1>9. z[n + 3] = C(Colon, TRUE)
  BY <1>3, <1>5, <1>6, Zenon
<1> QED BY <1>1, <1>5, <1>7, <1>8, <1>9, Zenon DEF z, r

\* What is sent is a sequence of pairs, with the bytes of numbers in them.
LEMMA Sendable ==
  ASSUME NEW o \in Object
  PROVE  /\ o \in Seq(Members) /\ Len(o) \in Nat
         /\ \A k \in 1 .. Len(o) : /\ o[k] \in Members
                                   /\ o[k].number # NONE => Numeral(o[k].text, o[k].number)
                                   /\ o[k].number # NONE => o[k].text # <<>>
<1>1. o \in Seq(Members) /\ \A k \in 1 .. Len(o) : o[k].number # NONE => Numeral(o[k].text, o[k].number)
  BY StreamAssumption, Zenon DEF Members
<1>2. Len(o) \in Nat /\ \A k \in 1 .. Len(o) : o[k] \in Members
  BY <1>1
<1> QED BY <1>1, <1>2, Zenon DEF Numeral

\* A pair and the comma before it.
Part(o, k) == IF k = 1 THEN Member(o[k]) ELSE Token(Comma) \o Member(o[k])

\* The bytes of the comma: there is none before the first pair.
CommaBytes(k) == IF k = 1 THEN 0 ELSE 1

\* Each pair and its comma, on the line.
LEMMA PartAt ==
  ASSUME NEW o \in Object, NEW k \in 1 .. Len(o)
  PROVE  /\ Part(o, k) \in Seq(Item) /\ Len(Member(o[k])) \in Nat
         /\ Len(Part(o, k)) = CommaBytes(k) + Len(Member(o[k]))
         /\ \A j \in 1 .. Len(Member(o[k])) : Part(o, k)[CommaBytes(k) + j] = Member(o[k])[j]
         /\ k # 1 => Part(o, k)[1] = C(Comma, TRUE)
<1> DEFINE m == Member(o[k])
           t == Token(Comma)
           c == CommaBytes(k)
<1>1. m \in Seq(Item) /\ Len(m) \in Nat
  <2>1. o[k] \in Members /\ (o[k].number # NONE => o[k].text # <<>>)
    BY Sendable, Zenon
  <2>2. Len(o[k].key) \in Nat
    BY <2>1, SentStrings
  <2>3. m \in Seq(Item)
    BY <2>1, <2>2, MemberAt, Zenon
  <2> QED BY <2>3
<1>0. c = IF k = 1 THEN 0 ELSE 1
  BY DEF CommaBytes
<1>2. t \in Seq(Item) /\ Len(t) = 1 /\ t[1] = C(Comma, TRUE)
  BY Structure, TokenAt
<1>3. Part(o, k) = IF k = 1 THEN m ELSE Join(t, m)
  BY DEF Part, Join
<1> HIDE DEF m, t, c
<1>4. CASE k = 1
  BY <1>0, <1>1, <1>3, <1>4 DEF m, c
<1>5. CASE k # 1
  <2>1. Join(t, m) \in Seq(Item) /\ Len(Join(t, m)) = Len(t) + Len(m)
    BY <1>1, <1>2, JoinAt
  <2>2. \A i \in 1 .. Len(t) : Join(t, m)[i] = t[i]
    BY <1>1, <1>2, JoinLeft
  <2>3. \A j \in 1 .. Len(m) : Join(t, m)[Len(t) + j] = m[j]
    BY <1>1, <1>2, JoinRight, ZenonT(60)
  <2>4. Part(o, k) = Join(t, m) /\ c = 1 /\ 1 \in 1 .. 1
    BY <1>0, <1>3, <1>5
  <2>5. Part(o, k)[1] = C(Comma, TRUE)
    BY <1>2, <2>2, <2>4, Zenon
  <2>6. Part(o, k) \in Seq(Item) /\ Len(Part(o, k)) = c + Len(m)
    BY <1>2, <2>1, <2>4, Zenon
  <2>7. \A j \in 1 .. Len(m) : Part(o, k)[c + j] = m[j]
    BY <1>2, <2>3, <2>4, Zenon
  <2> QED BY <1>1, <2>5, <2>6, <2>7 DEF m, c
<1> QED BY <1>4, <1>5

Anything == [b : Byte, gap : BOOLEAN]

\* Where the pairs of an object are on the line: P[k] bytes come before pair k,
\* the opening brace and the commas among them, and a comma or the closing
\* brace is the byte after it.
Layout(o, P) ==
  /\ P \in [1 .. Len(o) + 1 -> Nat] /\ P[1] = 1
  /\ Len(Render(o)) = P[Len(o) + 1]
  /\ \A k \in 1 .. Len(o) :
       /\ P[k + 1] = P[k] + Len(Member(o[k])) + 1 /\ P[k + 1] <= Len(Render(o))
       /\ \A j \in 1 .. Len(Member(o[k])) : Render(o)[P[k] + j] = Member(o[k])[j]
       /\ k # 1 => Render(o)[P[k]] = C(Comma, TRUE)

\* Three sequences, one after the other.
LEMMA WrappedAt ==
  ASSUME NEW a \in Seq(Anything), NEW F \in Seq(Anything), NEW c \in Seq(Anything)
  PROVE  /\ Join(Join(a, F), c) \in Seq(Anything)
         /\ Len(Join(Join(a, F), c)) = (Len(a) + Len(F)) + Len(c)
         /\ \A i \in 1 .. Len(a) : Join(Join(a, F), c)[i] = a[i]
         /\ \A i \in 1 .. Len(F) : Join(Join(a, F), c)[Len(a) + i] = F[i]
         /\ \A i \in 1 .. Len(c) : Join(Join(a, F), c)[(Len(a) + Len(F)) + i] = c[i]
<1> DEFINE m == Len(a)
           n == Len(a) + Len(F)
<1>0. m \in Nat /\ n \in Nat /\ m = Len(a) /\ n = m + Len(F) /\ n = Len(a) + Len(F)
  OBVIOUS
<1> HIDE DEF m, n
<1>1. (a \o F) \o c \in Seq(Anything) /\ Len((a \o F) \o c) = n + Len(c)
  BY <1>0, JoinThreeAt
<1>2. \A i \in 1 .. m : ((a \o F) \o c)[i] = a[i]
  BY <1>0, JoinThreeAt
<1>3. \A i \in 1 .. Len(F) : ((a \o F) \o c)[m + i] = F[i]
  BY <1>0, JoinThreeMiddle
<1>4. \A i \in 1 .. Len(c) : ((a \o F) \o c)[n + i] = c[i]
  BY <1>0, JoinThreeLast
<1> QED BY <1>1, <1>2, <1>3, <1>4 DEF Join, m, n

\* The first byte of an object opens it, the last one closes it, and no other
\* one opens an object.
LEMMA RenderEnds ==
  ASSUME NEW o \in Object, NEW F \in Seq(Item),
         F = FlattenSeq([k \in 1 .. Len(o) |-> Part(o, k)])
  PROVE  /\ Len(F) \in Nat
         /\ Len(Render(o)) = Len(F) + 2
         /\ Render(o) \in Seq(Anything)
         /\ Render(o)[1] = C(Open, TRUE)
         /\ \A i \in 1 .. Len(F) : Render(o)[1 + i] = F[i]
         /\ Render(o)[Len(F) + 2] = C(Close, TRUE)
         /\ \A i \in 2 .. Len(Render(o)) : Render(o)[i] \in Item
<1> DEFINE a == Token(Open)
           c == Token(Close)
           R == (a \o F) \o c
           n == Len(F) + 1
<1>0. Open \in Byte /\ Close \in Inner
  <2>1. Structural \subseteq Byte
    BY StreamAssumption
  <2>2. Open \in Byte
    BY <2>1, Zenon DEF Structural, Open
  <2> QED BY <2>2, Structure
<1>1. Render(o) = R
  BY Zenon DEF Render, Part, Open, Close, Comma
<1>2. /\ a \in Seq(Anything) /\ Len(a) = 1 /\ a[1] = C(Open, TRUE)
  BY <1>0 DEF Token, Anything, C
<1>3. c \in Seq(Anything) /\ Len(c) = 1 /\ c[1] = C(Close, TRUE) /\ C(Close, TRUE) \in Item
  BY <1>0 DEF Token, Anything, Item, C, Inner
<1>4. F \in Seq(Anything) /\ Len(F) \in Nat /\ \A i \in 1 .. Len(F) : F[i] \in Item
  <2>1. Item \subseteq Anything
    BY DEF Item, Anything, Inner
  <2>2. \A S, T : S \subseteq T => Seq(S) \subseteq Seq(T)
    OBVIOUS
  <2> QED BY <2>1, <2>2
<1> HIDE DEF a, c
<1>5. n \in Nat /\ n = 1 + Len(F)
  BY <1>4
<1> HIDE DEF n
<1>6. /\ a \in Seq(Anything) /\ F \in Seq(Anything) /\ c \in Seq(Anything)
      /\ R = Join(Join(a, F), c)
  BY <1>2, <1>3, <1>4 DEF Join
<1> HIDE DEF R
<1>7. /\ R \in Seq(Anything) /\ Len(R) = (Len(a) + Len(F)) + Len(c)
      /\ \A i \in 1 .. Len(a) : R[i] = a[i]
      /\ \A i \in 1 .. Len(F) : R[Len(a) + i] = F[i]
      /\ \A i \in 1 .. Len(c) : R[(Len(a) + Len(F)) + i] = c[i]
  <2>1. a \in Seq(Anything) /\ F \in Seq(Anything) /\ c \in Seq(Anything)
    BY <1>6
  <2> DEFINE z == Join(Join(a, F), c)
  <2>2. /\ z \in Seq(Anything) /\ Len(z) = (Len(a) + Len(F)) + Len(c)
        /\ \A i \in 1 .. Len(a) : z[i] = a[i]
        /\ \A i \in 1 .. Len(F) : z[Len(a) + i] = F[i]
        /\ \A i \in 1 .. Len(c) : z[(Len(a) + Len(F)) + i] = c[i]
    <3>1. z \in Seq(Anything)
      BY <2>1, WrappedAt, Zenon
    <3>2. Len(z) = (Len(a) + Len(F)) + Len(c)
      BY <2>1, WrappedAt, Zenon
    <3>3. \A i \in 1 .. Len(a) : z[i] = a[i]
      BY <2>1, WrappedAt, ZenonT(60)
    <3>4. \A i \in 1 .. Len(F) : z[Len(a) + i] = F[i]
      BY <2>1, WrappedAt, ZenonT(60)
    <3>5. \A i \in 1 .. Len(c) : z[(Len(a) + Len(F)) + i] = c[i]
      BY <2>1, WrappedAt, ZenonT(60)
    <3> QED BY <3>1, <3>2, <3>3, <3>4, <3>5
  <2> QED BY <1>6, <2>2, Zenon
<1>8. /\ R \in Seq(Anything) /\ Len(R) = n + Len(c)
      /\ \A i \in 1 .. 1 : R[i] = a[i]
      /\ \A i \in 1 .. Len(c) : R[n + i] = c[i]
  BY <1>2, <1>5, <1>7, Zenon
<1>9. \A i \in 1 .. Len(F) : R[1 + i] = F[i]
  BY <1>2, <1>7, Zenon
<1>10. Len(R) = Len(F) + 2 /\ n + 1 = Len(F) + 2 /\ 1 \in 1 .. 1
  BY <1>3, <1>4, <1>5, <1>8
<1>11. R[1] = C(Open, TRUE) /\ R[Len(F) + 2] = C(Close, TRUE)
  BY <1>2, <1>3, <1>8, <1>10, Zenon
<1>12. ASSUME NEW i \in 2 .. Len(R) PROVE R[i] \in Item
  <2>1. CASE i = Len(F) + 2
    BY <1>3, <1>11, <2>1
  <2>2. CASE i # Len(F) + 2
    <3>1. i - 1 \in 1 .. Len(F) /\ 1 + (i - 1) = i
      BY <1>4, <1>10, <2>2
    <3> QED BY <1>4, <1>9, <3>1, Zenon
  <2> QED BY <2>1, <2>2
<1> QED BY <1>1, <1>4, <1>6, <1>8, <1>9, <1>10, <1>11, <1>12, Zenon

\* The empty object is its two braces.
LEMMA RenderEmpty ==
  ASSUME <<>> \in Object
  PROVE  /\ Len(Render(<<>>)) = 2 /\ Render(<<>>) \in Seq(Anything)
         /\ Render(<<>>)[1] = C(Open, TRUE) /\ Render(<<>>)[2] = C(Close, TRUE)
<1> DEFINE F == FlattenSeq([k \in 1 .. Len(<<>>) |-> Part(<<>>, k)])
<1>1. F = <<>>
  <2>1. [k \in 1 .. Len(<<>>) |-> Part(<<>>, k)] = <<>>
    OBVIOUS
  <2> QED BY <2>1 DEF FlattenSeq
<1>2. F \in Seq(Item) /\ Len(F) = 0
  <2>1. <<>> \in Seq(Item) /\ Len(<<>>) = 0
    OBVIOUS
  <2> QED BY <1>1, <2>1, Zenon
<1> HIDE DEF F
<1>3. /\ Len(Render(<<>>)) = Len(F) + 2 /\ Render(<<>>) \in Seq(Anything)
      /\ Render(<<>>)[1] = C(Open, TRUE) /\ Render(<<>>)[Len(F) + 2] = C(Close, TRUE)
  BY <1>2, RenderEnds, Zenon DEF F
<1>4. 0 + 2 = 2
  OBVIOUS
<1> QED BY <1>2, <1>3, <1>4, Zenon

\* Every object has a layout: the flattened pairs lie one behind the other.
LEMMA LayoutExists ==
  ASSUME NEW o \in Object, o # <<>>
  PROVE  /\ \E P : Layout(o, P)
         /\ Render(o) \in Seq(Anything) /\ Len(Render(o)) \in Nat
         /\ Render(o)[1] = C(Open, TRUE)
         /\ Render(o)[Len(Render(o))] = C(Close, TRUE)
         /\ \A i \in 2 .. Len(Render(o)) : Render(o)[i] \in Item
<1> DEFINE n  == Len(o)
           ss == [k \in 1 .. n |-> Part(o, k)]
           F  == FlattenSeq(ss)
           R  == Render(o)
<1>1. n \in Nat /\ n # 0 /\ \A k \in 1 .. n : Len(Member(o[k])) \in Nat
  <2>1. o \in Seq(Members) /\ n \in Nat
    BY Sendable
  <2>2. n # 0
    BY <2>1
  <2>3. ASSUME NEW k \in 1 .. n PROVE Len(Member(o[k])) \in Nat
    <3>1. o[k] \in Members /\ (o[k].number # NONE => o[k].text # <<>>)
      BY Sendable, Zenon
    <3>2. Len(o[k].key) \in Nat
      BY <3>1, SentStrings
    <3>3. Member(o[k]) \in Seq(Item)
      BY <3>1, <3>2, MemberAt, Zenon
    <3> QED BY <3>3
  <2> QED BY <2>1, <2>2, <2>3
<1>2. \A k \in 1 .. n : ss[k] = Part(o, k) /\ Part(o, k) \in Seq(Item)
  BY PartAt
<1>3. ss \in Seq(Seq(Item)) /\ Len(ss) = n
  BY <1>1, <1>2
<1> HIDE DEF ss, n
<1>4. F \in Seq(Item)
  BY <1>1, <1>3, FlattenAt
<1>5. PICK E \in [0 .. n -> Nat] :
        /\ E[0] = 0 /\ E[n] = Len(F)
        /\ \A k \in 1 .. n : /\ E[k] = E[k - 1] + Len(ss[k]) /\ E[k] <= Len(F)
                              /\ \A j \in 1 .. Len(ss[k]) : F[E[k - 1] + j] = ss[k][j]
  <2>1. Len(ss) # 0
    BY <1>1, <1>3
  <2>2. \E E \in [0 .. Len(ss) -> Nat] :
          /\ E[0] = 0 /\ E[Len(ss)] = Len(FlattenSeq(ss))
          /\ \A k \in 1 .. Len(ss) :
               /\ E[k] = E[k - 1] + Len(ss[k]) /\ E[k] <= Len(FlattenSeq(ss))
               /\ \A j \in 1 .. Len(ss[k]) : FlattenSeq(ss)[E[k - 1] + j] = ss[k][j]
    BY <1>3, <2>1, FlattenAt, ZenonT(60)
  <2> QED BY <1>3, <2>2, Zenon
<1> HIDE DEF F
<1>6. /\ Len(F) \in Nat /\ Len(R) = Len(F) + 2
      /\ R \in Seq(Anything) /\ R[1] = C(Open, TRUE)
      /\ \A i \in 1 .. Len(F) : R[1 + i] = F[i]
      /\ R[Len(F) + 2] = C(Close, TRUE)
      /\ \A i \in 2 .. Len(R) : R[i] \in Item
  BY <1>4, RenderEnds, Zenon DEF F, ss, n
<1> HIDE DEF R
<1> DEFINE P == [k \in 1 .. n + 1 |-> IF k = 1 THEN 1 ELSE E[k - 1] + 2]
<1>7. P \in [1 .. n + 1 -> Nat] /\ P[1] = 1 /\ Len(R) = P[n + 1]
  <2>1. \A k \in 1 .. n + 1 : k # 1 => k - 1 \in 0 .. n
    BY <1>1
  <2>2. \A k \in 1 .. n + 1 : (IF k = 1 THEN 1 ELSE E[k - 1] + 2) \in Nat
    BY <1>5, <2>1
  <2>3. P \in [1 .. n + 1 -> Nat]
    BY <2>2
  <2>4. P[1] = 1 /\ P[n + 1] = E[n] + 2
    BY <1>1
  <2> QED BY <1>5, <1>6, <2>3, <2>4, Zenon
<1>8. ASSUME NEW k \in 1 .. n
      PROVE  /\ P[k + 1] = P[k] + Len(Member(o[k])) + 1 /\ P[k + 1] <= Len(R)
             /\ \A j \in 1 .. Len(Member(o[k])) : R[P[k] + j] = Member(o[k])[j]
             /\ k # 1 => R[P[k]] = C(Comma, TRUE)
  <2> DEFINE c == CommaBytes(k)
             m == Member(o[k])
             e == E[k - 1]
  <2>1. c \in Nat /\ c = IF k = 1 THEN 0 ELSE 1
    BY DEF CommaBytes
  <2>2. /\ Len(ss[k]) = c + Len(m)
        /\ \A j \in 1 .. Len(m) : ss[k][c + j] = m[j]
        /\ k # 1 => ss[k][1] = C(Comma, TRUE)
    <3>1. ss[k] = Part(o, k) /\ k \in 1 .. Len(o)
      BY <1>2 DEF n
    <3>2. /\ Len(Part(o, k)) = c + Len(m)
          /\ \A j \in 1 .. Len(m) : Part(o, k)[c + j] = m[j]
          /\ k # 1 => Part(o, k)[1] = C(Comma, TRUE)
      BY <3>1, PartAt
    <3> HIDE DEF c, m
    <3> QED BY <3>1, <3>2, Zenon
  <2> HIDE DEF c
  <2>3. e \in Nat /\ Len(m) \in Nat /\ P[k + 1] = E[k] + 2 /\ P[k] = (e + 1) + c
    <3>1. e \in Nat /\ Len(m) \in Nat
      BY <1>1, <1>5
    <3>2. P[k + 1] = E[k] + 2 /\ P[k] = IF k = 1 THEN 1 ELSE e + 2
      BY <1>1
    <3>3. k = 1 => e = 0
      BY <1>5
    <3> HIDE DEF e
    <3> QED BY <2>1, <3>1, <3>2, <3>3
  <2>4. /\ E[k] = e + (c + Len(m)) /\ E[k] <= Len(F)
        /\ \A j \in 1 .. c + Len(m) : F[e + j] = ss[k][j]
    BY <1>5, <2>2, Zenon
  <2> HIDE DEF P, m, e
  <2>5. P[k + 1] = P[k] + Len(m) + 1 /\ P[k + 1] <= Len(R)
    <3>1. E[k] = e + (c + Len(m)) /\ E[k] <= Len(F)
      BY <2>4, Zenon
    <3>2. Len(R) = Len(F) + 2 /\ Len(F) \in Nat
      BY <1>6, Zenon
    <3>3. c \in Nat
      BY <2>1
    <3>4. P[k + 1] = P[k] + Len(m) + 1
      BY <2>3, <3>1, <3>3
    <3>5. E[k] + 2 <= Len(F) + 2
      BY <2>3, <3>1, <3>2, <3>3
    <3> QED BY <2>3, <3>2, <3>4, <3>5, Zenon
  <2>6. ASSUME NEW j \in 1 .. c + Len(m) PROVE R[(e + 1) + j] = ss[k][j]
    <3>1. e + j \in 1 .. Len(F) /\ 1 + (e + j) = (e + 1) + j
      BY <1>6, <2>1, <2>3, <2>4
    <3> QED BY <1>6, <2>4, <3>1, Zenon
  <2>7. ASSUME NEW j \in 1 .. Len(m) PROVE R[P[k] + j] = m[j]
    <3>1. c + j \in 1 .. c + Len(m) /\ (e + 1) + (c + j) = P[k] + j
      BY <2>1, <2>3
    <3> QED BY <2>2, <2>6, <3>1, Zenon
  <2>8. ASSUME k # 1 PROVE R[P[k]] = C(Comma, TRUE)
    <3>1. 1 \in 1 .. c + Len(m) /\ (e + 1) + 1 = P[k]
      BY <2>1, <2>3, <2>8
    <3> QED BY <2>2, <2>6, <2>8, <3>1, Zenon
  <2> QED BY <2>5, <2>7, <2>8 DEF m
<1> HIDE DEF P
<1>9. Layout(o, P)
  BY <1>7, <1>8, Zenon DEF Layout, n, R
<1>10. Len(R) \in Nat /\ R[Len(R)] = C(Close, TRUE)
  BY <1>6
<1> QED BY <1>6, <1>9, <1>10 DEF R

Starts(o) == CHOOSE P : Layout(o, P)

\* How many bytes of the object come before pair k, before its key, its colon,
\* its value, and before the byte that follows the pair; and the byte that
\* comes after n bytes.
OpenAt(o, k)  == Starts(o)[k]
KeyAt(o, k)   == OpenAt(o, k) + 1
ColonAt(o, k) == (KeyAt(o, k) + Len(o[k].key)) + 1
ValueAt(o, k) == ColonAt(o, k) + 1
TextAt(o, k)  == ValueAt(o, k) + 1
EndAt(o, k)   == Starts(o)[k + 1] - 1
Nth(o, n)     == Render(o)[n + 1]
Size(o)       == Len(Render(o))

\* Where the opening quote of a pair is, and how the object ends.
LEMMA LineOpen ==
  ASSUME NEW o \in Object, NEW k \in 1 .. Len(o)
  PROVE  /\ Layout(o, Starts(o)) /\ Size(o) \in Nat /\ Render(o) \in Seq(Anything)
         /\ Nth(o, Size(o) - 1) = C(Close, TRUE)
         /\ OpenAt(o, k) \in Nat /\ OpenAt(o, k) < Size(o)
         /\ OpenAt(o, 1) = 1
         /\ k + 1 \in 1 .. Len(o) => OpenAt(o, k + 1) = EndAt(o, k) + 1
         /\ o # <<>>
<1>1. Len(o) \in Nat /\ o # <<>>
  BY Sendable
<1>2. Layout(o, Starts(o)) /\ Size(o) \in Nat /\ Render(o) \in Seq(Anything)
  BY <1>1, LayoutExists DEF Starts, Size
<1>3. Nth(o, Size(o) - 1) = C(Close, TRUE)
  <2>1. Render(o)[Size(o)] = C(Close, TRUE)
    BY <1>1, LayoutExists, Zenon DEF Size
  <2>2. (Size(o) - 1) + 1 = Size(o)
    BY <1>2
  <2> QED BY <2>1, <2>2, Zenon DEF Nth
<1>4. Len(Member(o[k])) \in Nat
  BY PartAt
<1>5. /\ OpenAt(o, k) \in Nat /\ OpenAt(o, 1) = 1 /\ Starts(o)[k + 1] \in Nat
      /\ Starts(o)[k + 1] = OpenAt(o, k) + Len(Member(o[k])) + 1
      /\ Starts(o)[k + 1] <= Size(o)
  <2>1. /\ Starts(o) \in [1 .. Len(o) + 1 -> Nat] /\ Starts(o)[1] = 1
        /\ Starts(o)[k + 1] = Starts(o)[k] + Len(Member(o[k])) + 1
        /\ Starts(o)[k + 1] <= Len(Render(o))
    BY <1>2, Zenon DEF Layout
  <2>2. k \in 1 .. Len(o) + 1 /\ k + 1 \in 1 .. Len(o) + 1
    BY <1>1
  <2> QED BY <2>1, <2>2 DEF OpenAt, Size
<1>6. OpenAt(o, k) < Size(o)
  BY <1>2, <1>4, <1>5
<1>7. OpenAt(o, k + 1) = EndAt(o, k) + 1
  BY <1>5 DEF OpenAt, EndAt
<1> QED BY <1>1, <1>2, <1>3, <1>5, <1>6, <1>7

\* The bytes of pair k up to its value.
LEMMA LineKey ==
  ASSUME NEW o \in Object, NEW k \in 1 .. Len(o)
  PROVE  /\ o[k] \in Members /\ Len(o[k].key) \in Nat
         /\ KeyAt(o, k) \in Nat /\ ColonAt(o, k) \in Nat /\ ValueAt(o, k) \in Nat
         /\ EndAt(o, k) \in Nat /\ EndAt(o, k) < Size(o)
         /\ ValueAt(o, k) + Len(Rest(o[k])) = EndAt(o, k)
         /\ Len(Rest(o[k])) \in Nat
         /\ Nth(o, OpenAt(o, k)) = C(Dq, TRUE)
         /\ \A j \in 0 .. Len(o[k].key) - 1 : Nth(o, KeyAt(o, k) + j) = C(o[k].key[j + 1], FALSE)
         /\ Nth(o, KeyAt(o, k) + Len(o[k].key)) = C(Dq, FALSE)
         /\ Nth(o, ColonAt(o, k)) = C(Colon, TRUE)
         /\ \A j \in 0 .. Len(Rest(o[k])) - 1 : Nth(o, ValueAt(o, k) + j) = Rest(o[k])[j + 1]
<1> DEFINE m == Member(o[k])
           r == Rest(o[k])
           n == Len(o[k].key)
           s == OpenAt(o, k)
<1>1. o[k] \in Members /\ (o[k].number # NONE => o[k].text # <<>>)
  BY Sendable, Zenon
<1>2. n \in Nat /\ Len(r) \in Nat
  BY <1>1, SentStrings, RestAt
<1>3. /\ Len(m) = n + 3 + Len(r)
      /\ m[1] = C(Dq, TRUE)
      /\ \A j \in 1 .. n : m[1 + j] = C(o[k].key[j], FALSE)
      /\ m[n + 2] = C(Dq, FALSE)
      /\ m[n + 3] = C(Colon, TRUE)
      /\ \A j \in 1 .. Len(r) : m[(n + 3) + j] = r[j]
  BY <1>1, <1>2, MemberAt
<1>4. /\ Starts(o)[k + 1] = s + Len(m) + 1 /\ Starts(o)[k + 1] <= Size(o)
      /\ s \in Nat /\ Size(o) \in Nat
      /\ \A j \in 1 .. Len(m) : Render(o)[s + j] = m[j]
  BY LineOpen DEF Layout, OpenAt, Size
<1> HIDE DEF m, r, n, s
<1>5. /\ KeyAt(o, k) = s + 1 /\ ColonAt(o, k) = s + n + 2 /\ ValueAt(o, k) = s + n + 3
      /\ EndAt(o, k) = s + Len(m)
  BY <1>2, <1>3, <1>4, SMTT(40) DEF KeyAt, ColonAt, ValueAt, EndAt, n, s
<1>6. /\ EndAt(o, k) \in Nat /\ EndAt(o, k) < Size(o)
      /\ ValueAt(o, k) + Len(r) = EndAt(o, k)
  BY <1>2, <1>3, <1>4, <1>5
<1>7. ASSUME NEW i \in 0 .. Len(m) - 1 PROVE Nth(o, s + i) = m[i + 1]
  <2>1. i + 1 \in 1 .. Len(m) /\ (s + i) + 1 = s + (i + 1)
    BY <1>2, <1>3, <1>4
  <2>2. Render(o)[s + (i + 1)] = m[i + 1]
    BY <1>4, <2>1
  <2> QED BY <2>1, <2>2 DEF Nth
<1>8. Nth(o, s) = C(Dq, TRUE)
  <2>1. 0 \in 0 .. Len(m) - 1 /\ s + 0 = s /\ 0 + 1 = 1
    BY <1>2, <1>3, <1>4
  <2> QED BY <1>3, <1>7, <2>1, Zenon
<1>9. ASSUME NEW j \in 0 .. n - 1 PROVE Nth(o, KeyAt(o, k) + j) = C(o[k].key[j + 1], FALSE)
  <2>1. 1 + j \in 0 .. Len(m) - 1 /\ KeyAt(o, k) + j = s + (1 + j) /\ (1 + j) + 1 = 1 + (j + 1)
        /\ j + 1 \in 1 .. n
    BY <1>2, <1>3, <1>4, <1>5
  <2> QED BY <1>3, <1>7, <2>1, Zenon
<1>10. Nth(o, KeyAt(o, k) + n) = C(Dq, FALSE)
  <2>1. 1 + n \in 0 .. Len(m) - 1 /\ KeyAt(o, k) + n = s + (1 + n) /\ (1 + n) + 1 = n + 2
    <3>1. Len(m) = n + 3 + Len(r)
      BY <1>3
    <3> QED BY <1>2, <1>4, <1>5, <3>1
  <2> QED BY <1>3, <1>7, <2>1, Zenon
<1>11. Nth(o, ColonAt(o, k)) = C(Colon, TRUE)
  <2>1. n + 2 \in 0 .. Len(m) - 1 /\ ColonAt(o, k) = s + (n + 2) /\ (n + 2) + 1 = n + 3
    BY <1>2, <1>3, <1>4, <1>5
  <2> QED BY <1>3, <1>7, <2>1, Zenon
<1>12. ASSUME NEW j \in 0 .. Len(r) - 1 PROVE Nth(o, ValueAt(o, k) + j) = r[j + 1]
  <2>1. /\ (n + 3) + j \in 0 .. Len(m) - 1 /\ ValueAt(o, k) + j = s + ((n + 3) + j)
        /\ ((n + 3) + j) + 1 = (n + 3) + (j + 1) /\ j + 1 \in 1 .. Len(r)
    BY <1>2, <1>3, <1>4, <1>5
  <2> QED BY <1>3, <1>7, <2>1, Zenon
<1>13. KeyAt(o, k) \in Nat /\ ColonAt(o, k) \in Nat /\ ValueAt(o, k) \in Nat
  BY <1>2, <1>4, <1>5
<1> QED BY <1>1, <1>2, <1>6, <1>8, <1>9, <1>10, <1>11, <1>12, <1>13, Zenon DEF r, n, s

\* Every object is a sequence of bytes on the line, at least its two braces, and
\* only the first of them opens one.
LEMMA RenderIs ==
  ASSUME NEW o \in Object
  PROVE  /\ Render(o) \in Seq(Anything) /\ Size(o) \in Nat /\ Size(o) >= 2
         /\ Nth(o, 0) = C(Open, TRUE)
         /\ \A i \in 2 .. Size(o) : Render(o)[i] \in Item
<1>0. 0 + 1 = 1
  OBVIOUS
<1>1. CASE o = <<>>
  <2>1. /\ Size(o) = 2 /\ Render(o) \in Seq(Anything) /\ Render(o)[1] = C(Open, TRUE)
        /\ Render(o)[2] = C(Close, TRUE)
    BY <1>1, RenderEmpty DEF Size
  <2>2. C(Close, TRUE) \in Item
    BY Structure DEF Item, C
  <2>3. \A i \in 2 .. Size(o) : i = 2
    BY <2>1
  <2>4. Size(o) \in Nat /\ Size(o) >= 2
    BY <2>1
  <2> QED BY <1>0, <2>1, <2>2, <2>3, <2>4, Zenon DEF Nth
<1>2. CASE o # <<>>
  <2>1. /\ Render(o) \in Seq(Anything) /\ Size(o) \in Nat /\ Render(o)[1] = C(Open, TRUE)
        /\ \A i \in 2 .. Size(o) : Render(o)[i] \in Item
    BY <1>2, LayoutExists, Zenon DEF Size
  <2>2. Size(o) >= 2
    <3>1. 1 \in 1 .. Len(o)
      <4>1. o \in Seq(Members)
        BY Sendable
      <4> QED BY <1>2, <4>1
    <3>2. OpenAt(o, 1) = 1 /\ OpenAt(o, 1) < Size(o)
      BY <3>1, LineOpen, Zenon
    <3> QED BY <2>1, <3>2
  <2> QED BY <1>0, <2>1, <2>2, Zenon DEF Nth
<1> QED BY <1>1, <1>2

\* What is left of an object after n bytes.
Left(o, n) == SubSeq(Render(o), n + 1, Size(o))

\* The sender's next byte is the one after those that were sent.
LEMMA LeftStep ==
  ASSUME NEW o \in Object, NEW n \in Nat, n < Size(o)
  PROVE  /\ Left(o, n) # <<>> /\ Head(Left(o, n)) = Nth(o, n) /\ Tail(Left(o, n)) = Left(o, n + 1)
         /\ Nth(o, n) \in Anything /\ Nth(o, n).b \in Byte
         /\ Left(o, n + 1) = <<>> <=> n + 1 = Size(o)
<1> DEFINE R == Render(o)
           N == Size(o)
<1>1. R \in Seq(Anything) /\ N \in Nat /\ N = Len(R)
  BY RenderIs DEF Size
<1>2. \A i \in 1 .. N : R[i] \in Anything
  BY <1>1
<1> HIDE DEF R, N
<1>3. \A i \in n + 1 .. N : R[i] \in Anything
  BY <1>2
<1>4. /\ SubSeq(R, n + 1, N) \in Seq(Anything)
      /\ Len(SubSeq(R, n + 1, N)) = N - n
      /\ \A i \in 1 .. N - n : SubSeq(R, n + 1, N)[i] = R[n + i]
  <2>1. /\ SubSeq(R, n + 1, N) \in Seq(Anything)
        /\ Len(SubSeq(R, n + 1, N)) = IF n + 1 <= N THEN N - (n + 1) + 1 ELSE 0
        /\ \A i \in 1 .. N - (n + 1) + 1 : SubSeq(R, n + 1, N)[i] = R[(n + 1) + i - 1]
    BY <1>1, <1>3, SubSeqProperties
  <2> QED BY <1>1, <2>1 DEF N
<1>5. \A i \in n + 2 .. N : R[i] \in Anything
  BY <1>2
<1>6. /\ SubSeq(R, n + 2, N) \in Seq(Anything)
      /\ Len(SubSeq(R, n + 2, N)) = N - (n + 1)
      /\ \A i \in 1 .. N - (n + 1) : SubSeq(R, n + 2, N)[i] = R[(n + 1) + i]
  <2>1. /\ SubSeq(R, n + 2, N) \in Seq(Anything)
        /\ Len(SubSeq(R, n + 2, N)) = IF n + 2 <= N THEN N - (n + 2) + 1 ELSE 0
        /\ \A i \in 1 .. N - (n + 2) + 1 : SubSeq(R, n + 2, N)[i] = R[(n + 2) + i - 1]
    BY <1>1, <1>5, SubSeqProperties
  <2>2. n < N
    BY DEF N
  <2>3. /\ N - (n + 2) + 1 = N - (n + 1)
        /\ (IF n + 2 <= N THEN N - (n + 2) + 1 ELSE 0) = N - (n + 1)
        /\ \A i \in 1 .. N - (n + 1) : (n + 2) + i - 1 = (n + 1) + i
    BY <1>1, <2>2
  <2> QED BY <2>1, <2>3, Zenon
<1> DEFINE s == SubSeq(R, n + 1, N)
           t == SubSeq(R, n + 2, N)
<1>7. n < N /\ (n + 1) + 1 = n + 2
  BY DEF N
<1> HIDE DEF s, t
<1>8. s \in Seq(Anything) /\ Len(s) = N - n /\ \A i \in 1 .. N - n : s[i] = R[n + i]
  BY <1>4 DEF s
<1>9. t \in Seq(Anything) /\ Len(t) = N - (n + 1) /\ \A i \in 1 .. N - (n + 1) : t[i] = R[(n + 1) + i]
  BY <1>6 DEF t
<1>10. s # <<>> /\ Head(s) = R[n + 1]
  BY <1>1, <1>7, <1>8
<1>11. Tail(s) = t
  <2>1. /\ Tail(s) \in Seq(Anything) /\ Len(Tail(s)) = N - (n + 1)
        /\ \A i \in 1 .. Len(Tail(s)) : Tail(s)[i] = s[i + 1]
    <3>1. s \in Seq(Anything) /\ s # <<>>
      BY <1>8, <1>10
    <3>2. /\ Tail(s) \in Seq(Anything) /\ Len(Tail(s)) = Len(s) - 1
          /\ \A i \in 1 .. Len(Tail(s)) : Tail(s)[i] = s[i + 1]
      BY <3>1, HeadTailProperties
    <3>3. Len(s) - 1 = N - (n + 1)
      BY <1>1, <1>8
    <3> QED BY <3>2, <3>3, Zenon
  <2>2. ASSUME NEW i \in 1 .. Len(Tail(s)) PROVE Tail(s)[i] = t[i]
    <3>1. i + 1 \in 1 .. N - n /\ i \in 1 .. N - (n + 1) /\ n + (i + 1) = (n + 1) + i
      BY <1>1, <2>1
    <3> QED BY <1>8, <1>9, <2>1, <3>1, Zenon
  <2>3. Len(Tail(s)) = Len(t)
    BY <1>9, <2>1, Zenon
  <2> QED BY <1>9, <2>1, <2>2, <2>3, SeqEqual, Zenon
<1>12. t = <<>> <=> n + 1 = N
  BY <1>1, <1>7, <1>9
<1>13. n + 1 \in 1 .. N
  BY <1>1, <1>7
<1>14. R[n + 1] \in Anything /\ R[n + 1].b \in Byte
  BY <1>2, <1>13 DEF Anything
<1>15. Left(o, n) = s /\ Left(o, n + 1) = t /\ Nth(o, n) = R[n + 1]
  BY <1>7, Zenon DEF Left, Nth, s, t, R, N
<1> QED BY <1>10, <1>11, <1>12, <1>14, <1>15, Zenon DEF N

\* After its first byte, nothing in an object opens one.
NoOpening(t) == \A i \in 1 .. Len(t) : t[i].b # Open

\* What is left once the opening brace is sent opens nothing.
LEMMA LeftNoOpening ==
  ASSUME NEW o \in Object, NEW n \in Nat, n >= 1
  PROVE  NoOpening(Left(o, n))
<1>1. /\ Render(o) \in Seq(Anything) /\ Size(o) \in Nat /\ Size(o) = Len(Render(o))
      /\ \A i \in 2 .. Size(o) : Render(o)[i] \in Item
  BY RenderIs DEF Size
<1> DEFINE R == Render(o)
           N == Size(o)
<1> HIDE DEF R, N
<1>2. \A i \in n + 1 .. N : R[i] \in Item
  BY <1>1 DEF R, N
<1>3. SubSeq(R, n + 1, N) \in Seq(Item)
  BY <1>1, <1>2, SubSeqProperties DEF N
<1>4. \A i \in 1 .. Len(Left(o, n)) : Left(o, n)[i] \in Item
  BY <1>3 DEF Left, R, N
<1>5. \A x \in Item : x.b # Open
  BY DEF Item, Inner
<1> QED BY <1>4, <1>5, Zenon DEF NoOpening

\* This stays so as bytes are taken from it.
LEMMA NoOpeningStep ==
  ASSUME NEW t \in Seq(Anything), t # <<>>, NoOpening(t)
  PROVE  Head(t).b # Open /\ NoOpening(Tail(t))
<1>1. Head(t) = t[1] /\ 1 \in 1 .. Len(t)
  OBVIOUS
<1>2. \A i \in 1 .. Len(Tail(t)) : Tail(t)[i] = t[i + 1] /\ i + 1 \in 1 .. Len(t)
  OBVIOUS
<1> QED BY <1>1, <1>2, Zenon DEF NoOpening

-----------------------------------------------------------------------------
\* What a slot holds.

\* A slot that holds the first j bytes of s.
Prefix(s, j) == [i \in 0 .. StrMax - 1 |-> IF i < j THEN s[i + 1] ELSE NUL]
Image(s)     == Prefix(s, Len(s))

\* A blank slot holds no byte of anything.
LEMMA PrefixBlank ==
  ASSUME NEW s
  PROVE  Blank = Prefix(s, 0)
  BY UjsonAssumption DEF Blank, Prefix

\* One more byte appended is one more byte held.
LEMMA PrefixAppend ==
  ASSUME NEW s, NEW j \in Nat, j < StrMax - 1
  PROVE  Appended(Prefix(s, j), j, s[j + 1]) = Prefix(s, j + 1)
<1>1. StrMax \in Nat /\ j \in 0 .. StrMax - 1 /\ j + 1 \in 0 .. StrMax - 1
  BY UjsonAssumption
<1>2. Appended(Prefix(s, j), j, s[j + 1])
        = [i \in 0 .. StrMax - 1 |-> IF i = j + 1 THEN NUL ELSE IF i = j THEN s[j + 1]
                                                          ELSE IF i < j THEN s[i + 1] ELSE NUL]
  BY <1>1 DEF Appended, Prefix
<1> QED BY <1>1, <1>2 DEF Prefix

\* A string that fits reads back from its slot as it was.
LEMMA ImageCStr ==
  ASSUME NEW T, NUL \notin T, NEW s \in Seq(T), Len(s) < StrMax
  PROVE  CStr(Image(s)) = s
<1> DEFINE n == Len(s)
           slot == Image(s)
           IsEnd(m) == slot[m] = NUL /\ \A j \in 0 .. m - 1 : slot[j] # NUL
           m == CHOOSE i \in DOMAIN slot : IsEnd(i)
<1>1. n \in Nat /\ n < StrMax /\ StrMax \in Nat /\ \A i \in 1 .. n : s[i] \in T
  BY UjsonAssumption
<1>2. DOMAIN slot = 0 .. StrMax - 1 /\ \A i \in 0 .. StrMax - 1 : slot[i] = IF i < n THEN s[i + 1] ELSE NUL
  BY DEF Image, Prefix
<1>3. CStr(slot) = [j \in 1 .. m |-> slot[j - 1]]
  BY DEF CStr
<1> HIDE DEF slot, n
<1>4. \A i \in 0 .. n - 1 : slot[i] = s[i + 1] /\ slot[i] # NUL
  BY <1>1, <1>2
<1>5. n \in DOMAIN slot /\ IsEnd(n)
  BY <1>1, <1>2, <1>4
<1>6. ASSUME NEW i \in DOMAIN slot, IsEnd(i) PROVE i = n
  <2>1. i \in Nat
    BY <1>1, <1>2
  <2>2. ~(i < n)
    BY <1>1, <1>4, <1>6, <2>1
  <2>3. ~(n < i)
    BY <1>1, <1>5, <1>6, <2>1
  <2> QED BY <1>1, <2>1, <2>2, <2>3
<1>7. m = n
  <2> HIDE DEF IsEnd
  <2>1. m \in DOMAIN slot /\ IsEnd(m)
    BY <1>5
  <2> QED BY <1>6, <2>1
<1> HIDE DEF m
<1>8. [j \in 1 .. n |-> slot[j - 1]] = s
  <2>1. \A j \in 1 .. n : slot[j - 1] = s[j]
    BY <1>1, <1>4
  <2>2. s = [j \in 1 .. n |-> s[j]]
    BY DEF n
  <2> QED BY <2>1, <2>2
<1> QED BY <1>3, <1>7, <1>8 DEF slot

-----------------------------------------------------------------------------
\* 3. Where in an object the parser is, and where each byte leads.

\* Where in the object the parser is, and what its slots hold there.
Holds(k)  == /\ key[k - 1] = Image(obj[k].key) /\ Len(obj[k].key) < StrMax
             /\ value[k - 1] = Image(obj[k].text) /\ Len(obj[k].text) < StrMax
             /\ number[k - 1] = obj[k].number
Stored(n) == \A k \in 1 .. n : Holds(k)
Before(k) == k \in 1 .. Len(obj) /\ pair_count = k - 1 /\ Stored(k - 1)
At(n)     == todo = Left(obj, n)

Ahead    == st = "start" /\ At(0)
Empty    == obj = <<>> /\ st = "wait_dq_start" /\ At(1)
Ready(k) == st = "wait_dq_start" /\ Before(k) /\ At(OpenAt(obj, k))

InKey(k, j) == /\ st = "read_key" /\ Before(k) /\ At(KeyAt(obj, k) + j)
               /\ j \in 0 .. Len(obj[k].key) /\ tok_ptr = j
               /\ key[k - 1] = Prefix(obj[k].key, j) /\ value[k - 1] = Blank /\ number[k - 1] = NONE
Keyed(k)    == /\ Before(k)
               /\ key[k - 1] = Image(obj[k].key) /\ Len(obj[k].key) < StrMax
               /\ number[k - 1] = NONE
AtColon(k)  == st = "wait_colon" /\ Keyed(k) /\ value[k - 1] = Blank /\ At(ColonAt(obj, k))
AtValue(k)  == st = "wait_dq_value" /\ Keyed(k) /\ value[k - 1] = Blank /\ At(ValueAt(obj, k))

InText(k, j) == /\ st = "read_value" /\ Keyed(k) /\ At(TextAt(obj, k) + j)
                /\ obj[k].number = NONE
                /\ j \in 0 .. Len(obj[k].text) /\ tok_ptr = j /\ value[k - 1] = Prefix(obj[k].text, j)
InNumber(k, j) == /\ st = "read_value_int" /\ Keyed(k) /\ At(ValueAt(obj, k) + j)
                  /\ obj[k].number # NONE
                  /\ j \in 1 .. Len(obj[k].text) /\ tok_ptr = j /\ value[k - 1] = Prefix(obj[k].text, j)
Closed(k)   == /\ st = "wait_comma_or_end" /\ k \in 1 .. Len(obj) /\ pair_count = k /\ Stored(k)
               /\ At(EndAt(obj, k))

\* The rest of an object that was refused: nothing in it opens one.
Lost == st = "start" /\ NoOpening(todo) /\ (~suspect => ~Fits(obj))

\* After a cut the parser may be in any state as the next object begins.  What
\* it then does not refuse is a string that was open: the next quote ends it.
Astray(n) == /\ suspect
             /\ \/ n = 0 /\ At(0)
                \/ n = 1 /\ At(1) /\ st \in {"read_key", "read_value"}
                \/ /\ n >= 2 /\ obj # <<>> /\ n \in 2 .. Len(obj[1].key) + 2 /\ At(n)
                   /\ st \in {"wait_colon", "wait_comma_or_end"}

Inside == \/ Ahead \/ Empty \/ Lost
          \/ \E n \in Nat : Astray(n)
          \/ \E k \in 1 .. Len(obj) : \/ Ready(k) \/ AtColon(k) \/ AtValue(k) \/ Closed(k)
                                      \/ \E j \in 0 .. Len(obj[k].key) : InKey(k, j)
                                      \/ \E j \in 0 .. Len(obj[k].text) : InText(k, j) \/ InNumber(k, j)

Steady == IInv /\ NumberTable /\ on_message = TRUE /\ (st = "start" => pair_count = 0)

\* Each state has a handler of its own.
LEMMA Dispatch ==
  ASSUME NEW b, ujson_feed(b)
  PROVE  /\ st = "start"             => FeedStart(b)
         /\ st = "wait_dq_start"     => FeedKeyQuote(b)
         /\ st = "read_key"          => FeedKey(b)
         /\ st = "wait_colon"        => FeedColon(b)
         /\ st = "wait_dq_value"     => FeedValueStart(b)
         /\ st = "read_value"        => FeedValue(b)
         /\ st = "read_value_int"    => FeedNumber(b)
         /\ st = "wait_comma_or_end" => FeedCommaOrEnd(b)
         /\ on_message' = on_message
  BY Zenon DEF ujson_feed, FeedStart, FeedKeyQuote, FeedKey, FeedColon, FeedValueStart, FeedValue,
               FeedNumber, FeedCommaOrEnd

\* Every byte keeps the slots safe, and a parser at rest has no pair.
LEMMA SteadyStep ==
  ASSUME Steady, NEW b \in Byte, ujson_feed(b)
  PROVE  Steady'
<1>1. IInv' /\ NumberTable'
  BY FeedIInv DEF Steady
<1>2. on_message' = TRUE
  BY Dispatch DEF Steady
<1>3. st' = "start" => pair_count' = 0
  <2>1. ASSUME Reject PROVE pair_count' = 0
    BY <2>1 DEF Reject, Reset
  <2>2. ASSUME NEW m, NEW n, Complete(b, m, n) PROVE pair_count' = 0
    BY <2>2 DEF Complete, Reset
  <2>3. \A s : Accept(b, s) => st' = s
    BY DEF Accept
  <2>4. CASE FeedStart(b)
    BY <2>4, Zenon DEF FeedStart, Steady, pairs
  <2> QED BY <2>1, <2>2, <2>3, <2>4, Zenon
         DEF ujson_feed, FeedKeyQuote, FeedKey, FeedColon, FeedValueStart, FeedValue,
             FeedNumber, FeedCommaOrEnd
<1> QED BY <1>1, <1>2, <1>3 DEF Steady

\* The bytes that matter are told apart.
LEMMA DigitBytes ==
  ASSUME NEW b, IsDigit(b)
  PROVE  b \in {"0", "1", "2", "3", "4", "5", "6", "7", "8", "9"}
  BY DEF IsDigit, Digits

\* The structural bytes and the white space are told apart.
LEMMA Bytes ==
  /\ ~ujson_is_ws(Dq) /\ ~ujson_is_ws(Open) /\ ~ujson_is_ws(Close) /\ ~ujson_is_ws(Comma)
  /\ ~ujson_is_ws(Colon) /\ ujson_is_ws(" ")
  /\ Dq # Close /\ Dq # Comma /\ Dq # Colon /\ Comma # Close /\ Colon # Comma /\ Colon # Close
  /\ Open # Dq /\ Open # Close /\ Open # Comma /\ Open # Colon
  /\ " " # Dq /\ " " # Open /\ " " # Close /\ " " # Comma /\ " " # Colon /\ " " \in Byte
<1>1. Structural \cup {" "} \subseteq Byte
  BY StreamAssumption
<1>2. " " \in Byte
  BY <1>1, Zenon
<1> QED BY <1>2, Zenon DEF ujson_is_ws, Dq, Open, Close, Comma, Colon

\* The bytes that begin a number are none of them.
LEMMA NumberBytes ==
  ASSUME NEW b
  PROVE  OpensNumber(b) => b \notin {Dq, Open, Close, Comma, Colon} /\ ~ujson_is_ws(b)
<1>1. ASSUME IsDigit(b) PROVE b \notin {Dq, Open, Close, Comma, Colon} /\ ~ujson_is_ws(b)
  <2>1. b \in {"0", "1", "2", "3", "4", "5", "6", "7", "8", "9"}
    BY <1>1, DigitBytes
  <2> QED BY <2>1, Zenon DEF ujson_is_ws, Dq, Open, Close, Comma, Colon
<1>2. ASSUME b = "-" PROVE b \notin {Dq, Open, Close, Comma, Colon} /\ ~ujson_is_ws(b)
  BY <1>2, Zenon DEF ujson_is_ws, Dq, Open, Close, Comma, Colon
<1> QED BY <1>1, <1>2 DEF OpensNumber

\* A step that takes the next byte of the object, the one after n bytes.
Sends(n) == /\ Steady /\ obj \in Object /\ n \in Nat /\ n < Size(obj)
            /\ ujson_feed(Nth(obj, n).b) /\ todo' = Left(obj, n + 1)
            /\ UNCHANGED <<obj, suspect>>

\* A refusal leaves the parser where only the next opening brace moves it.
LEMMA Refused ==
  ASSUME NEW n, Sends(n), Reject, suspect \/ ~Fits(obj)
  PROVE  Lost' /\ event' = NONE
<1>1. st' = "start" /\ event' = NONE
  BY DEF Reject, Reset
<1>2. n + 1 \in Nat /\ n + 1 >= 1
  BY DEF Sends
<1>3. NoOpening(todo')
  BY <1>2, LeftNoOpening DEF Sends
<1>4. (~suspect => ~Fits(obj)) /\ suspect' = suspect /\ obj' = obj
  BY DEF Sends
<1>5. (~suspect => ~Fits(obj))'
  BY <1>4, Zenon DEF Fits
<1> QED BY <1>1, <1>3, <1>5, Zenon DEF Lost, NoOpening

\* The pairs that are complete stay as they are while their slots do.
LEMMA StoredKept ==
  ASSUME NEW n \in Nat, Stored(n), obj' = obj,
         \A i \in 0 .. n - 1 : key'[i] = key[i] /\ value'[i] = value[i] /\ number'[i] = number[i]
  PROVE  Stored(n)'
<1>1. ASSUME NEW k \in 1 .. n PROVE Holds(k)'
  <2>1. k - 1 \in 0 .. n - 1
    OBVIOUS
  <2>2. key'[k - 1] = key[k - 1] /\ value'[k - 1] = value[k - 1] /\ number'[k - 1] = number[k - 1]
    BY <2>1
  <2>3. Holds(k)
    BY DEF Stored
  <2> QED BY <2>2, <2>3 DEF Holds, Image, Prefix
<1> QED BY <1>1 DEF Stored

\* The opening brace of an object that finds the parser at rest.
LEMMA FromAhead ==
  ASSUME Ahead, Sends(0)
  PROVE  event' = NONE /\ ((obj # <<>> /\ Ready(1)') \/ Empty')
<1>1. Nth(obj, 0).b = Open
  BY RenderIs DEF Sends, C
<1>2. FeedStart(Open)
  BY <1>1, Dispatch DEF Ahead, Sends
<1>3. event' = NONE /\ st' = "wait_dq_start" /\ UNCHANGED pairs
  BY <1>2, Zenon DEF FeedStart, Accept, Open
<1>4. obj' = obj /\ todo' = Left(obj, 1) /\ obj \in Object
  <2>1. 0 + 1 = 1
    OBVIOUS
  <2> QED BY <2>1, Zenon DEF Sends
<1>5. CASE obj = <<>>
  BY <1>3, <1>4, <1>5, Zenon DEF Empty, At, Left, Size
<1>6. CASE obj # <<>>
  <2>1. 1 \in 1 .. Len(obj)
    <3>1. obj \in Seq(Members)
      BY <1>4, Sendable
    <3> QED BY <1>6, <3>1
  <2>2. OpenAt(obj, 1) = 1
    BY <1>4, <2>1, LineOpen
  <2>3. pair_count = 0 /\ 1 - 1 = 0
    BY DEF Ahead, Sends, Steady
  <2>4. Before(1)'
    <3>1. \A k \in 1 .. 0 : FALSE
      OBVIOUS
    <3>2. Stored(1 - 1)'
      BY <2>3, <3>1, Zenon DEF Stored
    <3> QED BY <1>3, <1>4, <2>1, <2>3, <3>2, Zenon DEF Before, pairs
  <2>5. At(OpenAt(obj, 1))'
    BY <1>4, <2>2, Zenon DEF At, Left, Size, OpenAt
  <2> QED BY <1>3, <1>6, <2>4, <2>5, Zenon DEF Ready
<1> QED BY <1>3, <1>5, <1>6

\* The closing brace of an empty object, which the parser refuses.
LEMMA FromEmpty ==
  ASSUME Empty, Sends(1)
  PROVE  Lost' /\ event' = NONE
<1>1. Nth(obj, 1).b = Close
  <2>1. 1 + 1 = 2 /\ obj \in Object /\ obj = <<>>
    BY DEF Sends, Empty
  <2> QED BY <2>1, RenderEmpty DEF Nth, C
<1>2. FeedKeyQuote(Close)
  BY <1>1, Dispatch DEF Empty, Sends
<1>3. Reject
  BY <1>2, Bytes, Zenon DEF FeedKeyQuote, OpensKey, Dq
<1>4. ~Fits(obj)
  BY UjsonAssumption DEF Fits, Empty
<1> QED BY <1>3, <1>4, Refused

\* The quote that opens a key, if the table has room for a pair.
LEMMA FromReady ==
  ASSUME NEW k \in 1 .. Len(obj), Ready(k), Sends(OpenAt(obj, k))
  PROVE  event' = NONE /\ (InKey(k, 0)' \/ Lost')
<1>0. /\ obj \in Object /\ obj' = obj /\ Before(k) /\ Steady
      /\ todo' = Left(obj, OpenAt(obj, k) + 1) /\ st = "wait_dq_start"
  BY DEF Ready, Sends
<1>1. Nth(obj, OpenAt(obj, k)).b = Dq
  BY <1>0, LineKey DEF C
<1>2. FeedKeyQuote(Dq)
  BY <1>1, Dispatch DEF Ready, Sends
<1>3. k \in Nat /\ Len(obj) \in Nat /\ k - 1 \in Nat /\ Len(obj[k].key) \in Nat
  BY <1>0, LineKey, Sendable
<1>4. CASE pair_count < MaxKV
  <2>1. OpensKey(Dq)
    BY <1>4 DEF OpensKey, Dq
  <2>2. /\ st' = "read_key" /\ event' = NONE /\ tok_ptr' = 0
        /\ UNCHANGED <<pair_count, key, value, number>>
    BY <1>2, <2>1, Bytes, Zenon DEF FeedKeyQuote, Accept
  <2>3. pair_count = k - 1 /\ pair_count \in Pair /\ Stored(k - 1)
    BY <1>0, <1>3, <1>4, UjsonAssumption DEF Before, Pair
  <2>4. key[k - 1] = Blank /\ value[k - 1] = Blank /\ number[k - 1] = NONE
    BY <1>0, <2>3 DEF Steady, IInv, NothingStale, PairOpen
  <2>5. Stored(k - 1)'
    BY <1>0, <1>3, <2>2, <2>3, StoredKept
  <2>6. key'[k - 1] = Prefix(obj[k].key, 0)
    BY <2>2, <2>4, PrefixBlank
  <2>7. At(KeyAt(obj, k) + 0)'
    <3>1. KeyAt(obj, k) + 0 = OpenAt(obj, k) + 1
      <4>1. OpenAt(obj, k) \in Nat
        BY <1>0, LineOpen, Zenon
      <4> HIDE DEF OpenAt
      <4> QED BY <4>1 DEF KeyAt
    <3>2. todo' = Left(obj', KeyAt(obj', k) + 0)
      BY <1>0, <3>1, Zenon
    <3> QED BY <3>2, Zenon DEF At, Left, Size, KeyAt, OpenAt
  <2>8. 0 \in 0 .. Len(obj[k].key)
    BY <1>3
  <2>9. Before(k)'
    BY <1>0, <2>2, <2>3, <2>5, Zenon DEF Before
  <2> QED BY <1>0, <2>2, <2>4, <2>6, <2>7, <2>8, <2>9, Zenon DEF InKey, Prefix, Blank
<1>5. CASE ~(pair_count < MaxKV)
  <2>1. Reject
    BY <1>2, <1>5, Bytes, Zenon DEF FeedKeyQuote, OpensKey
  <2>2. ~Fits(obj)
    BY <1>0, <1>3, <1>5, UjsonAssumption DEF Fits, Before
  <2> QED BY <2>1, <2>2, Refused
<1> QED BY <1>4, <1>5

\* A byte of a key, or the quote that ends it.
LEMMA FromKey ==
  ASSUME NEW k \in 1 .. Len(obj), NEW j \in 0 .. Len(obj[k].key), InKey(k, j), Sends(KeyAt(obj, k) + j)
  PROVE  event' = NONE /\ ((j + 1 \in 0 .. Len(obj[k].key) /\ InKey(k, j + 1)') \/ AtColon(k)' \/ Lost')
<1> DEFINE s == obj[k].key
           n == KeyAt(obj, k)
<1>0. /\ obj \in Object /\ obj' = obj /\ Before(k) /\ Steady /\ st = "read_key"
      /\ todo' = Left(obj, (n + j) + 1) /\ tok_ptr = j
      /\ key[k - 1] = Prefix(s, j) /\ value[k - 1] = Blank /\ number[k - 1] = NONE
  BY DEF InKey, Sends
<1>1. /\ Nth(obj, n + Len(s)) = C(Dq, FALSE) /\ s \in Seq(KeyByte) /\ Len(s) \in Nat /\ n \in Nat
      /\ \A i \in 0 .. Len(s) - 1 : Nth(obj, n + i) = C(s[i + 1], FALSE)
  BY <1>0, LineKey, SentStrings
<1>2. FeedKey(Nth(obj, n + j).b)
  BY Dispatch DEF InKey, Sends
<1>3. /\ k \in Nat /\ k - 1 \in Nat /\ pair_count = k - 1 /\ pair_count \in Pair /\ Stored(k - 1)
      /\ StrMax \in Nat /\ j \in Nat /\ j < StrMax /\ key \in [Pair -> Slot] /\ Len(obj) \in Nat
  <2>1. pair_count < MaxKV
    BY <1>0 DEF Steady, IInv, SlotReserved, PairOpen
  <2>2. Len(obj) \in Nat
    BY <1>0, Sendable
  <2> QED BY <1>0, <2>1, <2>2, UjsonAssumption DEF Before, Pair, Steady, IInv, SlotTypes
<1>4. CASE j = Len(s)
  <2>1. Nth(obj, n + j).b = Dq
    BY <1>1, <1>4 DEF C
  <2>2. st' = "wait_colon" /\ event' = NONE /\ UNCHANGED pairs
    BY <1>2, <2>1, Zenon DEF FeedKey, Accept, Dq
  <2>3. Stored(k - 1)'
    BY <1>0, <1>3, <2>2, StoredKept DEF pairs
  <2>4. Keyed(k)'
    <3>1. key'[k - 1] = Image(obj'[k].key) /\ Len(obj'[k].key) < StrMax /\ number'[k - 1] = NONE
      BY <1>0, <1>3, <1>4, <2>2 DEF Image, pairs
    <3>2. Before(k)'
      BY <1>0, <1>3, <2>2, <2>3, Zenon DEF Before, pairs
    <3> QED BY <3>1, <3>2, Zenon DEF Keyed, Image, Prefix
  <2>5. At(ColonAt(obj, k))'
    BY <1>0, <1>4, Zenon DEF At, Left, Size, ColonAt, KeyAt, OpenAt
  <2> QED BY <1>0, <2>2, <2>4, <2>5, Zenon DEF AtColon, pairs, Blank
<1>5. CASE j # Len(s)
  <2>0. j \in 0 .. Len(s) - 1 /\ j + 1 \in 0 .. Len(s) /\ j + 1 \in 1 .. Len(s)
    BY <1>1, <1>5
  <2> DEFINE b == Nth(obj, n + j).b
  <2>1. b = s[j + 1] /\ b \in KeyByte
    <3>1. Nth(obj, n + j) = C(s[j + 1], FALSE)
      BY <1>1, <2>0
    <3> QED BY <1>1, <2>0, <3>1 DEF C
  <2>2. b # Dq
    BY <2>1, SentBytes
  <2> HIDE DEF b
  <2>3. CASE RoomForToken
    <3>1. /\ key' = [key EXCEPT ![pair_count] = Appended(key[pair_count], tok_ptr, b)]
          /\ tok_ptr' = tok_ptr + 1 /\ st' = st /\ event' = NONE
          /\ UNCHANGED <<pair_count, value, number>>
      BY <1>2, <2>2, <2>3, Zenon DEF FeedKey, Accept, Dq, b
    <3>2. key'[k - 1] = Prefix(s, j + 1)
      <4>1. j < StrMax - 1
        BY <1>0, <2>3 DEF RoomForToken
      <4>2. Appended(Prefix(s, j), j, s[j + 1]) = Prefix(s, j + 1)
        BY <1>3, <4>1, PrefixAppend
      <4>3. key'[k - 1] = Appended(key[k - 1], j, b)
        BY <1>0, <1>3, <3>1
      <4> QED BY <1>0, <2>1, <4>2, <4>3, Zenon
    <3>3. Stored(k - 1)'
      <4>1. \A i \in 0 .. (k - 1) - 1 : i # pair_count /\ i \in Pair
        BY <1>3, UjsonAssumption DEF Pair
      <4>2. \A i \in Pair : i # pair_count => key'[i] = key[i]
        BY <1>3, <3>1
      <4> QED BY <1>0, <1>3, <3>1, <4>1, <4>2, StoredKept
    <3>4. At(n + (j + 1))'
      <4>1. (n + j) + 1 = n + (j + 1)
        BY <1>1, <1>3
      <4> QED BY <1>0, <4>1, Zenon DEF At, Left, Size, KeyAt, OpenAt
    <3>5. Before(k)'
      BY <1>0, <1>3, <3>1, <3>3, Zenon DEF Before
    <3>6. value'[k - 1] = Blank /\ number'[k - 1] = NONE /\ tok_ptr' = j + 1 /\ st' = "read_key"
      BY <1>0, <3>1
    <3>7. InKey(k, j + 1)'
      BY <1>0, <2>0, <3>2, <3>4, <3>5, <3>6, Zenon DEF InKey, Prefix, Blank
    <3> QED BY <2>0, <3>1, <3>7
  <2>4. CASE ~RoomForToken
    <3>1. Reject
      BY <1>2, <2>2, <2>4, Zenon DEF FeedKey, Dq, b
    <3>2. ~Fits(obj)
      BY <1>0, <1>1, <1>3, <2>0, <2>4 DEF Fits, RoomForToken
    <3> QED BY <3>1, <3>2, Refused
  <2> QED BY <2>3, <2>4
<1> QED BY <1>4, <1>5
\* The slots of earlier pairs are in the table.
LEMMA SlotRange ==
  ASSUME NEW n \in Nat, n \in Pair
  PROVE  \A i \in 0 .. n - 1 : i \in Pair /\ i # n
  BY UjsonAssumption DEF Pair

\* A pair whose key is complete keeps it while its cursor and its key do not move.
LEMMA KeyedKept ==
  ASSUME NEW k \in 1 .. Len(obj), obj \in Object, Keyed(k), obj' = obj,
         UNCHANGED <<pair_count, key, number>>,
         \A i \in Pair : i # pair_count => value'[i] = value[i],
         pair_count \in Pair
  PROVE  Keyed(k)'
<1>1. k \in Nat /\ k - 1 \in Nat /\ pair_count = k - 1 /\ Stored(k - 1) /\ Len(obj) \in Nat
  BY Sendable DEF Keyed, Before
<1>2. \A i \in 0 .. (k - 1) - 1 : i \in Pair /\ i # pair_count
  BY <1>1, UjsonAssumption, SlotRange
<1>3. Stored(k - 1)'
  BY <1>1, <1>2, StoredKept
<1>4. Before(k)'
  BY <1>1, <1>3, Zenon DEF Before
<1>5. key'[k - 1] = Image(obj'[k].key) /\ Len(obj'[k].key) < StrMax /\ number'[k - 1] = NONE
  BY DEF Keyed, Image, Prefix
<1> QED BY <1>4, <1>5, Zenon DEF Keyed, Image, Prefix

\* While a pair is open, its slot is one of the table.
LEMMA OpenSlot ==
  ASSUME NEW k \in 1 .. Len(obj), obj \in Object, Before(k), Steady, PairOpen
  PROVE  /\ k \in Nat /\ k - 1 \in Nat /\ pair_count = k - 1 /\ pair_count \in Pair /\ Stored(k - 1)
         /\ StrMax \in Nat /\ tok_ptr \in Nat /\ tok_ptr < StrMax /\ Len(obj) \in Nat
         /\ key \in [Pair -> Slot] /\ value \in [Pair -> Slot]
         /\ DOMAIN number = Pair
<1>1. pair_count < MaxKV
  BY DEF Steady, IInv, SlotReserved
<1>2. Len(obj) \in Nat
  BY Sendable
<1>3. DOMAIN number = Pair
  BY DEF Steady, NumberTable
<1> QED BY <1>1, <1>2, <1>3, UjsonAssumption DEF Before, Pair, Steady, IInv, SlotTypes

\* The colon and what comes before the value of a pair in its own slot.
LEMMA FromColon ==
  ASSUME NEW k \in 1 .. Len(obj), AtColon(k), Sends(ColonAt(obj, k))
  PROVE  event' = NONE /\ AtValue(k)'
<1>0. /\ obj \in Object /\ obj' = obj /\ Keyed(k) /\ Before(k) /\ Steady /\ st = "wait_colon"
      /\ todo' = Left(obj, ColonAt(obj, k) + 1)
      /\ value[k - 1] = Blank
  BY DEF AtColon, Keyed, Sends
<1>1. Nth(obj, ColonAt(obj, k)).b = Colon
  BY <1>0, LineKey DEF C
<1>2. FeedColon(Colon)
  BY <1>1, Dispatch DEF AtColon, Sends
<1>3. st' = "wait_dq_value" /\ event' = NONE /\ UNCHANGED pairs
  BY <1>2, Bytes, Zenon DEF FeedColon, Accept, Colon
<1>4. Keyed(k)'
  <2>1. pair_count \in Pair
    BY <1>0, OpenSlot DEF PairOpen
  <2> QED BY <1>0, <1>3, <2>1, KeyedKept, Zenon DEF pairs
<1>5. At(ValueAt(obj, k))'
  BY <1>0, Zenon DEF At, Left, Size, ValueAt, ColonAt, KeyAt, OpenAt
<1> QED BY <1>0, <1>3, <1>4, <1>5, Zenon DEF AtValue, pairs, Blank

\* The bytes of a string value.
LEMMA LineText ==
  ASSUME NEW o \in Object, NEW k \in 1 .. Len(o), o[k].number = NONE
  PROVE  /\ Len(o[k].text) \in Nat /\ TextAt(o, k) \in Nat
         /\ EndAt(o, k) = (TextAt(o, k) + Len(o[k].text)) + 1
         /\ Nth(o, ValueAt(o, k)) = C(Dq, TRUE)
         /\ \A j \in 0 .. Len(o[k].text) - 1 : Nth(o, TextAt(o, k) + j) = C(o[k].text[j + 1], FALSE)
         /\ Nth(o, TextAt(o, k) + Len(o[k].text)) = C(Dq, FALSE)
<1> DEFINE r == Rest(o[k])
           n == Len(o[k].text)
           v == ValueAt(o, k)
<1>1. o[k] \in Members /\ v \in Nat /\ EndAt(o, k) = v + Len(r)
  BY LineKey
<1>2. \A j \in 0 .. Len(r) - 1 : Nth(o, v + j) = r[j + 1]
  BY LineKey, Zenon
<1>3. n \in Nat
  BY <1>1, SentStrings
<1>4. /\ Len(r) = n + 2 /\ r[1] = C(Dq, TRUE) /\ r[n + 2] = C(Dq, FALSE)
      /\ \A j \in 1 .. n : r[1 + j] = C(o[k].text[j], FALSE)
  BY <1>1, RestAt, Zenon
<1> HIDE DEF r, n, v
<1>5. TextAt(o, k) = v + 1
  BY DEF TextAt, v
<1>6. Nth(o, v) = C(Dq, TRUE)
  <2>1. 0 \in 0 .. Len(r) - 1 /\ v + 0 = v /\ 0 + 1 = 1
    BY <1>1, <1>3, <1>4
  <2> QED BY <1>2, <1>4, <2>1, Zenon
<1>7. ASSUME NEW j \in 0 .. n - 1 PROVE Nth(o, TextAt(o, k) + j) = C(o[k].text[j + 1], FALSE)
  <2>1. 1 + j \in 0 .. Len(r) - 1 /\ v + (1 + j) = TextAt(o, k) + j /\ (1 + j) + 1 = 1 + (j + 1)
        /\ j + 1 \in 1 .. n
    BY <1>1, <1>3, <1>4, <1>5
  <2> QED BY <1>2, <1>4, <2>1, Zenon
<1>8. Nth(o, TextAt(o, k) + n) = C(Dq, FALSE)
  <2>1. 1 + n \in 0 .. Len(r) - 1 /\ v + (1 + n) = TextAt(o, k) + n /\ (1 + n) + 1 = n + 2
    BY <1>1, <1>3, <1>4, <1>5
  <2> QED BY <1>2, <1>4, <2>1, Zenon
<1>9. TextAt(o, k) \in Nat /\ EndAt(o, k) = (TextAt(o, k) + n) + 1
  <2>1. Len(r) = n + 2
    BY <1>4
  <2> QED BY <1>1, <1>3, <1>5, <2>1
<1> QED BY <1>3, <1>6, <1>7, <1>8, <1>9, Zenon DEF n, v

\* The bytes of a number.
LEMMA LineNumber ==
  ASSUME NEW o \in Object, NEW k \in 1 .. Len(o), o[k].number # NONE
  PROVE  /\ Len(o[k].text) \in Nat /\ Len(o[k].text) # 0
         /\ EndAt(o, k) = ValueAt(o, k) + Len(o[k].text)
         /\ OpensNumber(o[k].text[1])
         /\ o[k].number = ToInt32(Strtol(o[k].text))
         /\ Nth(o, ValueAt(o, k)) = C(o[k].text[1], TRUE)
         /\ \A j \in 1 .. Len(o[k].text) - 1 : /\ Nth(o, ValueAt(o, k) + j) = C(o[k].text[j + 1], FALSE)
                                               /\ IsDigit(o[k].text[j + 1])
<1> DEFINE r == Rest(o[k])
           text == o[k].text
           n == Len(text)
           v == ValueAt(o, k)
<1>1. o[k] \in Members /\ v \in Nat /\ EndAt(o, k) = v + Len(r)
  BY LineKey
<1>2. \A j \in 0 .. Len(r) - 1 : Nth(o, v + j) = r[j + 1]
  BY LineKey, Zenon
<1>3. Numeral(text, o[k].number) /\ text # <<>>
  BY Sendable, Zenon
<1>4. n \in Nat /\ n # 0 /\ Head(text) = text[1]
  <2>1. text \in Seq(Inner)
    BY <1>1, SentStrings
  <2> QED BY <1>3, <2>1
<1>5. /\ Len(r) = n /\ r[1] = C(text[1], TRUE)
      /\ \A j \in 2 .. n : r[j] = C(text[j], FALSE)
  BY <1>1, <1>3, RestAt, Zenon
<1>6. /\ OpensNumber(text[1]) /\ \A j \in 2 .. n : IsDigit(text[j])
      /\ o[k].number = ToInt32(Strtol(text))
  BY <1>3, <1>4, Zenon DEF Numeral
<1> HIDE DEF r, n, v, text
<1>7. Nth(o, v) = C(text[1], TRUE)
  <2>1. 0 \in 0 .. Len(r) - 1 /\ v + 0 = v /\ 0 + 1 = 1
    BY <1>1, <1>4, <1>5
  <2> QED BY <1>2, <1>5, <2>1, Zenon
<1>8. ASSUME NEW j \in 1 .. n - 1
      PROVE  Nth(o, v + j) = C(text[j + 1], FALSE) /\ IsDigit(text[j + 1])
  <2>1. j \in 0 .. Len(r) - 1 /\ j + 1 \in 2 .. n
    BY <1>4, <1>5
  <2> QED BY <1>2, <1>5, <1>6, <2>1, Zenon
<1> QED BY <1>1, <1>4, <1>5, <1>6, <1>7, <1>8, Zenon DEF n, v, text

\* The byte after a pair.
LEMMA LineEnd ==
  ASSUME NEW o \in Object, NEW k \in 1 .. Len(o)
  PROVE  /\ k # Len(o) => /\ Nth(o, EndAt(o, k)) = C(Comma, TRUE)
                          /\ k + 1 \in 1 .. Len(o) /\ EndAt(o, k) + 1 = OpenAt(o, k + 1)
         /\ k = Len(o) => /\ Nth(o, EndAt(o, k)) = C(Close, TRUE)
                          /\ EndAt(o, k) + 1 = Size(o)
<1>0. Len(o) \in Nat /\ Layout(o, Starts(o)) /\ Size(o) \in Nat /\ Nth(o, Size(o) - 1) = C(Close, TRUE)
  BY Sendable, LineOpen
<1>1. CASE k # Len(o)
  <2>1. k + 1 \in 1 .. Len(o) /\ k + 1 # 1
    BY <1>0, <1>1
  <2>2. Render(o)[OpenAt(o, k + 1)] = C(Comma, TRUE)
    BY <1>0, <2>1, Zenon DEF Layout, OpenAt
  <2>3. OpenAt(o, k + 1) = EndAt(o, k) + 1
    BY <2>1, LineOpen
  <2> QED BY <1>1, <2>1, <2>2, <2>3, Zenon DEF Nth
<1>2. CASE k = Len(o)
  <2>1. Starts(o)[k + 1] = Size(o)
    BY <1>0, <1>2, Zenon DEF Layout, Size
  <2>2. EndAt(o, k) = Size(o) - 1 /\ EndAt(o, k) + 1 = Size(o)
    BY <1>0, <2>1 DEF EndAt
  <2> QED BY <1>0, <1>2, <2>2, Zenon
<1> QED BY <1>1, <1>2
\* One more byte of a value, in its own slot.
LEMMA ValueAppended ==
  ASSUME NEW k \in 1 .. Len(obj), obj \in Object, Before(k), Keyed(k), Steady, PairOpen, obj' = obj,
         NEW s, NEW j \in Nat, j < StrMax - 1, value[k - 1] = Prefix(s, j), AppendValue(s[j + 1], j)
  PROVE  Keyed(k)' /\ Before(k)' /\ tok_ptr' = j + 1 /\ value'[k - 1] = Prefix(s, j + 1)
<1>1. /\ value' = [value EXCEPT ![pair_count] = Appended(value[pair_count], j, s[j + 1])]
      /\ tok_ptr' = j + 1
      /\ UNCHANGED <<pair_count, key, number>>
  BY Zenon DEF AppendValue
<1>2. pair_count \in Pair /\ pair_count = k - 1 /\ value \in [Pair -> Slot]
  BY OpenSlot
<1>3. \A i \in Pair : i # pair_count => value'[i] = value[i]
  BY <1>1, <1>2
<1>4. Keyed(k)'
  BY <1>1, <1>2, <1>3, KeyedKept
<1>5. value'[k - 1] = Appended(value[k - 1], j, s[j + 1])
  BY <1>1, <1>2
<1>6. Appended(Prefix(s, j), j, s[j + 1]) = Prefix(s, j + 1)
  BY PrefixAppend
<1> QED BY <1>1, <1>4, <1>5, <1>6, Zenon DEF Keyed

\* The first byte of a value.
LEMMA FromValue ==
  ASSUME NEW k \in 1 .. Len(obj), AtValue(k), Sends(ValueAt(obj, k))
  PROVE  /\ event' = NONE
         /\ \/ Lost'
            \/ InText(k, 0)' /\ 0 \in 0 .. Len(obj[k].text)
            \/ InNumber(k, 1)' /\ 1 \in 0 .. Len(obj[k].text)
<1> DEFINE s == obj[k].text
           n == ValueAt(obj, k)
<1>0. /\ obj \in Object /\ obj' = obj /\ Keyed(k) /\ Before(k) /\ Steady /\ st = "wait_dq_value"
      /\ todo' = Left(obj, n + 1)
      /\ value[k - 1] = Blank
  BY DEF AtValue, Keyed, Sends
<1>1. PairOpen
  BY <1>0 DEF PairOpen
<1>2. FeedValueStart(Nth(obj, n).b)
  BY Dispatch DEF AtValue, Sends
<1>3. pair_count \in Pair /\ StrMax \in Nat /\ n \in Nat
  BY <1>0, <1>1, OpenSlot, LineKey
<1>4. CASE obj[k].number = NONE
  <2>1. Nth(obj, n).b = Dq /\ Len(s) \in Nat
    BY <1>0, <1>4, LineText DEF C
  <2>2. /\ st' = "read_value" /\ event' = NONE /\ tok_ptr' = 0
        /\ UNCHANGED <<pair_count, key, value, number>>
    BY <1>2, <2>1, Bytes, NumberBytes, Zenon DEF FeedValueStart, Accept, Dq
  <2>3. Keyed(k)'
    BY <1>0, <1>3, <2>2, KeyedKept
  <2>4. At(TextAt(obj, k) + 0)'
    <3>1. TextAt(obj, k) + 0 = n + 1
      BY <1>3 DEF TextAt
    <3>2. todo' = Left(obj', TextAt(obj', k) + 0)
      BY <1>0, <3>1, Zenon
    <3> QED BY <3>2, Zenon DEF At, Left, Size, TextAt, ValueAt, ColonAt, KeyAt, OpenAt
  <2>5. 0 \in 0 .. Len(s)
    BY <2>1
  <2>6. value'[k - 1] = Prefix(s, 0)
    BY <1>0, <2>2, PrefixBlank
  <2> QED BY <1>0, <1>4, <2>2, <2>3, <2>4, <2>5, <2>6, Zenon DEF InText, Prefix
<1>5. CASE obj[k].number # NONE
  <2> DEFINE b == Nth(obj, n).b
  <2>1. b = s[1] /\ OpensNumber(b) /\ Len(s) \in Nat /\ Len(s) # 0
    BY <1>0, <1>5, LineNumber DEF C
  <2>2. b # Dq /\ ~ujson_is_ws(b)
    BY <2>1, NumberBytes
  <2>3. 1 \in 0 .. Len(s) /\ 1 \in 1 .. Len(s) /\ 0 + 1 = 1
    BY <2>1
  <2> HIDE DEF b
  <2>4. CASE StrMax > 1
    <3>1. st' = "read_value_int" /\ event' = NONE /\ AppendValue(b, 0)
      BY <1>2, <2>1, <2>2, <2>4, Zenon DEF FeedValueStart, Accept, Dq, b
    <3>2. AppendValue(s[0 + 1], 0) /\ value[k - 1] = Prefix(s, 0) /\ 0 \in Nat /\ 0 < StrMax - 1
      <4>1. AppendValue(s[0 + 1], 0) /\ value[k - 1] = Prefix(s, 0)
        BY <1>0, <2>1, <2>3, <3>1, PrefixBlank, Zenon
      <4> QED BY <1>3, <2>4, <4>1
    <3>3. Keyed(k)' /\ tok_ptr' = 1 /\ value'[k - 1] = Prefix(s, 1)
      <4>1. Keyed(k)' /\ tok_ptr' = 0 + 1 /\ value'[k - 1] = Prefix(s, 0 + 1)
        BY <1>0, <1>1, <3>2, ValueAppended, Zenon
      <4> QED BY <2>3, <4>1, Zenon
    <3>4. At(n + 1)'
      BY <1>0, Zenon DEF At, Left, Size, ValueAt, ColonAt, KeyAt, OpenAt
    <3>5. InNumber(k, 1)'
      BY <1>0, <1>5, <2>3, <3>1, <3>3, <3>4, Zenon DEF InNumber, Prefix
    <3> QED BY <2>3, <3>1, <3>5
  <2>5. CASE ~(StrMax > 1)
    <3>1. Reject
      BY <1>2, <2>1, <2>2, <2>5, Zenon DEF FeedValueStart, Dq, b
    <3>2. ~Fits(obj)
      BY <1>3, <2>1, <2>5 DEF Fits
    <3> QED BY <3>1, <3>2, Refused
  <2> QED BY <2>4, <2>5
<1> QED BY <1>4, <1>5

\* A byte of a string value, or the quote that ends it.
LEMMA FromText ==
  ASSUME NEW k \in 1 .. Len(obj), NEW j \in 0 .. Len(obj[k].text), InText(k, j),
         Sends(TextAt(obj, k) + j)
  PROVE  /\ event' = NONE
         /\ (j + 1 \in 0 .. Len(obj[k].text) /\ InText(k, j + 1)') \/ Closed(k)' \/ Lost'
<1> DEFINE s == obj[k].text
           n == TextAt(obj, k)
<1>0. /\ obj \in Object /\ obj' = obj /\ Keyed(k) /\ Before(k) /\ Steady /\ st = "read_value"
      /\ todo' = Left(obj, (n + j) + 1) /\ tok_ptr = j /\ obj[k].number = NONE
      /\ value[k - 1] = Prefix(s, j)
  BY DEF InText, Keyed, Sends
<1>1. PairOpen
  BY <1>0 DEF PairOpen
<1>2. FeedValue(Nth(obj, n + j).b)
  BY Dispatch DEF InText, Sends
<1>3. /\ k \in Nat /\ k - 1 \in Nat /\ pair_count = k - 1 /\ pair_count \in Pair /\ Stored(k - 1)
      /\ StrMax \in Nat /\ j \in Nat /\ j < StrMax /\ Len(obj) \in Nat
  BY <1>0, <1>1, OpenSlot
<1>4. /\ Nth(obj, n + Len(s)) = C(Dq, FALSE) /\ Len(s) \in Nat /\ n \in Nat
      /\ EndAt(obj, k) = (n + Len(s)) + 1
      /\ \A i \in 0 .. Len(s) - 1 : Nth(obj, n + i) = C(s[i + 1], FALSE)
  BY <1>0, LineText
<1>5. CASE j = Len(s)
  <2>1. Nth(obj, n + j).b = Dq
    BY <1>4, <1>5 DEF C
  <2>2. /\ st' = "wait_comma_or_end" /\ event' = NONE /\ pair_count' = pair_count + 1
        /\ UNCHANGED <<key, value, number>>
    BY <1>2, <2>1, Zenon DEF FeedValue, Accept, Dq
  <2>3. Holds(k)
    <3>1. key[k - 1] = Image(obj[k].key) /\ Len(obj[k].key) < StrMax /\ number[k - 1] = NONE
      BY <1>0 DEF Keyed
    <3>2. value[k - 1] = Image(s) /\ Len(s) < StrMax
      BY <1>0, <1>3, <1>5 DEF Image
    <3> QED BY <1>0, <3>1, <3>2 DEF Holds
  <2>4. Stored(k)'
    <3>1. Stored(k)
      <4>1. \A i \in 1 .. k : i = k \/ i \in 1 .. k - 1
        BY <1>3
      <4> QED BY <1>3, <2>3, <4>1, Zenon DEF Stored
    <3> QED BY <1>0, <1>3, <2>2, <3>1, StoredKept
  <2>5. pair_count' = k
    BY <1>3, <2>2
  <2>6. At(EndAt(obj, k))'
    BY <1>0, <1>4, <1>5, Zenon DEF At, Left, Size, EndAt
  <2> QED BY <1>0, <2>2, <2>4, <2>5, <2>6, Zenon DEF Closed
<1>6. CASE j # Len(s)
  <2>0. j \in 0 .. Len(s) - 1 /\ j + 1 \in 0 .. Len(s) /\ j + 1 \in 1 .. Len(s)
    BY <1>4, <1>6
  <2> DEFINE b == Nth(obj, n + j).b
  <2>1. b = s[j + 1] /\ b \in TextByte
    <3>1. Nth(obj, n + j) = C(s[j + 1], FALSE)
      BY <1>4, <2>0
    <3>2. s \in Seq(TextByte)
      BY <1>0, LineKey, SentStrings
    <3> QED BY <2>0, <3>1, <3>2 DEF C
  <2>2. b # Dq
    BY <2>1, SentBytes
  <2> HIDE DEF b
  <2>3. CASE RoomForToken
    <3>1. st' = st /\ event' = NONE /\ AppendValue(b, tok_ptr)
      BY <1>2, <2>2, <2>3, Zenon DEF FeedValue, Accept, Dq, b
    <3>2. j < StrMax - 1
      BY <1>0, <2>3 DEF RoomForToken
    <3>3. Keyed(k)' /\ tok_ptr' = j + 1 /\ value'[k - 1] = Prefix(s, j + 1)
      <4>1. AppendValue(s[j + 1], j)
        BY <1>0, <2>1, <3>1, Zenon
      <4> QED BY <1>0, <1>1, <1>3, <3>2, <4>1, ValueAppended
    <3>4. At(n + (j + 1))'
      <4>1. (n + j) + 1 = n + (j + 1)
        BY <1>3, <1>4
      <4> QED BY <1>0, <4>1, Zenon DEF At, Left, Size, TextAt, ValueAt, ColonAt, KeyAt, OpenAt
    <3>5. InText(k, j + 1)'
      BY <1>0, <2>0, <3>1, <3>3, <3>4, Zenon DEF InText, Prefix
    <3> QED BY <2>0, <3>1, <3>5
  <2>4. CASE ~RoomForToken
    <3>1. Reject
      BY <1>2, <2>2, <2>4, Zenon DEF FeedValue, Dq, b
    <3>2. ~Fits(obj)
      BY <1>0, <1>3, <1>4, <2>0, <2>4 DEF Fits, RoomForToken
    <3> QED BY <3>1, <3>2, Refused
  <2> QED BY <2>3, <2>4
<1> QED BY <1>5, <1>6
\* A number that is complete reads back as what was sent.
LEMMA FinalisedAt ==
  ASSUME NEW k \in 1 .. Len(obj), obj \in Object, Steady, InNumber(k, Len(obj[k].text))
  PROVE  /\ Finalised[k - 1] = obj[k].number
         /\ \A i \in 0 .. (k - 1) - 1 : Finalised[i] = number[i]
         /\ value[k - 1] = Image(obj[k].text) /\ Len(obj[k].text) < StrMax
         /\ key[k - 1] = Image(obj[k].key) /\ Len(obj[k].key) < StrMax
<1> DEFINE s == obj[k].text
<1>0. /\ Keyed(k) /\ Before(k) /\ PairOpen /\ tok_ptr = Len(s)
      /\ value[k - 1] = Prefix(s, Len(s)) /\ obj[k].number # NONE
  BY DEF InNumber, Keyed, PairOpen
<1>1. /\ k - 1 \in Nat /\ pair_count = k - 1 /\ pair_count \in Pair
      /\ tok_ptr < StrMax /\ DOMAIN number = Pair
  BY <1>0, OpenSlot
<1>2. value[k - 1] = Image(s) /\ Len(s) < StrMax
  BY <1>0, <1>1 DEF Image
<1>3. CStr(Image(s)) = s
  <2>1. s \in Seq(TextByte)
    BY LineKey, SentStrings
  <2> QED BY <1>2, <2>1, SentBytes, ImageCStr
<1>4. obj[k].number = ToInt32(Strtol(s))
  BY <1>0, LineNumber
<1>5. Finalised[k - 1] = ToInt32(Strtol(CStr(value[k - 1])))
  BY <1>1, Zenon DEF Finalised
<1>6. \A i \in 0 .. (k - 1) - 1 : i \in Pair /\ i # pair_count
  BY <1>1, SlotRange
<1>7. \A i \in Pair : i # pair_count => Finalised[i] = number[i]
  BY <1>1, Zenon DEF Finalised
<1>8. Finalised[k - 1] = obj[k].number
  BY <1>2, <1>3, <1>4, <1>5, Zenon
<1>9. key[k - 1] = Image(obj[k].key) /\ Len(obj[k].key) < StrMax
  BY <1>0 DEF Keyed
<1> HIDE DEF s, Finalised
<1> QED BY <1>2, <1>6, <1>7, <1>8, <1>9, Zenon DEF s

\* The raw capture is a C string, closing brace included.
LEMMA CaptureString ==
  ASSUME IInv, NEW b \in Byte
  PROVE  CStr(Captured(b)) \in Seq(Byte)
<1> DEFINE m == Captured(b)
           IsEnd(n) == m[n] = NUL /\ \A j \in 0 .. n - 1 : m[j] # NUL
           e == CHOOSE n \in DOMAIN m : IsEnd(n)
           T == {n \in 0 .. MsgMax - 1 : m[n] = NUL}
<1>1. /\ msg \in [0 .. MsgMax - 1 -> Byte] /\ msg_ptr \in 0 .. MsgMax - 1
      /\ msg[msg_ptr] = NUL /\ NUL \in Byte /\ MsgMax \in Nat
  BY UjsonAssumption DEF IInv, SlotTypes, SlotsTerminated
<1>2. m \in [0 .. MsgMax - 1 -> Byte] /\ T # {}
  <2>1. CASE RoomInCapture
    <3>1. m = [msg EXCEPT ![msg_ptr] = b, ![msg_ptr + 1] = NUL]
      BY <2>1 DEF Captured, Appended
    <3>2. msg_ptr + 1 \in 0 .. MsgMax - 1
      BY <1>1, <2>1 DEF RoomInCapture
    <3> HIDE DEF m
    <3>3. m \in [0 .. MsgMax - 1 -> Byte] /\ m[msg_ptr + 1] = NUL
      BY <1>1, <3>1, <3>2
    <3> QED BY <3>2, <3>3
  <2>2. CASE ~RoomInCapture
    BY <1>1, <2>2 DEF Captured
  <2> QED BY <2>1, <2>2
<1>3. CStr(m) = [j \in 1 .. e |-> m[j - 1]]
  BY DEF CStr
<1> HIDE DEF m
<1>4. PICK n \in T : \A i \in T : n <= i
  <2>1. T \in SUBSET Nat
    BY <1>1
  <2> HIDE DEF T
  <2> QED BY <1>2, <2>1, LeastNumber
<1>5. n \in DOMAIN m /\ IsEnd(n)
  <2>1. \A j \in 0 .. n - 1 : j \in 0 .. MsgMax - 1 /\ ~(n <= j)
    BY <1>1, <1>4
  <2> QED BY <1>1, <1>2, <1>4, <2>1
<1>6. e \in DOMAIN m /\ IsEnd(e)
  <2> HIDE DEF IsEnd
  <2> QED BY <1>5
<1> HIDE DEF e
<1>7. e \in 0 .. MsgMax - 1 /\ \A j \in 1 .. e : m[j - 1] \in Byte
  <2>1. \A j \in 1 .. e : j - 1 \in 0 .. MsgMax - 1
    BY <1>1, <1>2, <1>6
  <2> QED BY <1>1, <1>2, <1>6, <2>1
<1>8. [j \in 1 .. e |-> m[j - 1]] \in Seq(Byte)
  BY <1>7
<1> QED BY <1>3, <1>8 DEF m

\* What the callback was shown last is the object on the line, and it fits.
Delivery == event # NONE /\ event.pairs = obj /\ st = "start" /\ Fits(obj)

\* A closing brace after all the pairs of an object delivers the object.
LEMMA Delivered ==
  ASSUME Steady, obj \in Object, obj # <<>>, obj' = obj, NEW b \in Byte, NEW numbers, NEW n,
         n = Len(obj), n <= MaxKV,
         Complete(b, numbers, n),
         \A k \in 1 .. n : /\ key[k - 1] = Image(obj[k].key) /\ Len(obj[k].key) < StrMax
                           /\ value[k - 1] = Image(obj[k].text) /\ Len(obj[k].text) < StrMax
                           /\ numbers[k - 1] = obj[k].number
  PROVE  Delivery'
<1> DEFINE shown == [k \in 1 .. n |-> [key    |-> CStr(key[k - 1]),
                                       text   |-> CStr(value[k - 1]),
                                       number |-> numbers[k - 1]]]
           m == CStr(Captured(b))
<1>1. event' = [msg |-> m, pairs |-> shown] /\ st' = "start"
  BY Zenon DEF Complete, Steady, Reset
<1>2. n \in Nat /\ n \in 1 .. MaxKV /\ obj \in Seq(Members)
  <2>1. obj \in Seq(Members) /\ Len(obj) \in Nat
    BY Sendable
  <2> QED BY <2>1, UjsonAssumption
<1>3. ASSUME NEW k \in 1 .. n PROVE shown[k] = obj[k]
  <2>1. obj[k] \in Members
    BY <1>2
  <2>2. obj[k] = [key |-> obj[k].key, text |-> obj[k].text, number |-> obj[k].number]
    BY <2>1 DEF Members
  <2>3. obj[k].key \in Seq(KeyByte) /\ obj[k].text \in Seq(TextByte)
    BY <2>1, SentStrings
  <2>4. CStr(Image(obj[k].key)) = obj[k].key
    BY <2>3, SentBytes, ImageCStr
  <2>5. CStr(Image(obj[k].text)) = obj[k].text
    BY <2>3, SentBytes, ImageCStr
  <2> QED BY <2>2, <2>4, <2>5, Zenon
<1>4. shown = obj
  <2>1. obj = [k \in 1 .. n |-> obj[k]]
    BY <1>2
  <2> QED BY <1>3, <2>1, Zenon
<1>5. m \in Seq(Byte)
  BY CaptureString DEF Steady
<1> HIDE DEF m, shown
<1>6. event' # NONE
  <2>1. [msg |-> m, pairs |-> obj] \in [msg : Seq(Byte), pairs : Object]
    BY <1>5
  <2> QED BY <1>1, <1>4, <2>1, StreamAssumption, Zenon
<1>7. event'.pairs = obj
  BY <1>1, <1>4
<1>8. Fits(obj)
  BY <1>2, Zenon DEF Fits
<1>9. Fits(obj')
  BY <1>8, Zenon
<1> QED BY <1>1, <1>6, <1>7, <1>9, Zenon DEF Delivery, Fits

\* A byte of a number, or the comma or brace that ends it.
LEMMA FromNumber ==
  ASSUME NEW k \in 1 .. Len(obj), NEW j \in 0 .. Len(obj[k].text), InNumber(k, j),
         Sends(ValueAt(obj, k) + j)
  PROVE  \/ event' = NONE /\ j + 1 \in 0 .. Len(obj[k].text) /\ InNumber(k, j + 1)'
         \/ event' = NONE /\ Lost'
         \/ event' = NONE /\ k + 1 \in 1 .. Len(obj) /\ Ready(k + 1)'
         \/ Delivery' /\ (ValueAt(obj, k) + j) + 1 = Size(obj)
<1> DEFINE s == obj[k].text
           n == ValueAt(obj, k)
<1>0. /\ obj \in Object /\ obj' = obj /\ Keyed(k) /\ Before(k) /\ Steady /\ st = "read_value_int"
      /\ todo' = Left(obj, (n + j) + 1) /\ tok_ptr = j /\ obj[k].number # NONE
      /\ value[k - 1] = Prefix(s, j)
      /\ j \in 1 .. Len(s)
  BY DEF InNumber, Keyed, Sends
<1>1. PairOpen
  BY <1>0 DEF PairOpen
<1>2. FeedNumber(Nth(obj, n + j).b)
  BY Dispatch DEF InNumber, Sends
<1>3. /\ k \in Nat /\ k - 1 \in Nat /\ pair_count = k - 1 /\ pair_count \in Pair /\ Stored(k - 1)
      /\ StrMax \in Nat /\ j \in Nat /\ j < StrMax /\ Len(obj) \in Nat /\ n \in Nat
  BY <1>0, <1>1, OpenSlot, LineKey
<1>4. /\ Len(s) \in Nat /\ EndAt(obj, k) = n + Len(s)
      /\ \A i \in 1 .. Len(s) - 1 : Nth(obj, n + i) = C(s[i + 1], FALSE) /\ IsDigit(s[i + 1])
  BY <1>0, LineNumber
<1>5. CASE j = Len(s)
  <2>1. /\ Finalised[k - 1] = obj[k].number
        /\ \A i \in 0 .. (k - 1) - 1 : Finalised[i] = number[i]
        /\ value[k - 1] = Image(s) /\ Len(s) < StrMax
        /\ key[k - 1] = Image(obj[k].key) /\ Len(obj[k].key) < StrMax
    BY <1>0, <1>5, FinalisedAt
  <2> HIDE DEF Finalised
  <2>2. \A i \in 1 .. k : i = k \/ (i \in 1 .. k - 1 /\ i - 1 \in 0 .. (k - 1) - 1)
    BY <1>3
  <2>3. ASSUME NEW i \in 1 .. k
        PROVE  /\ key[i - 1] = Image(obj[i].key) /\ Len(obj[i].key) < StrMax
               /\ value[i - 1] = Image(obj[i].text) /\ Len(obj[i].text) < StrMax
               /\ Finalised[i - 1] = obj[i].number
    BY <1>3, <2>1, <2>2, Zenon DEF Stored, Holds
  <2>4. CASE k # Len(obj)
    <3>1. /\ Nth(obj, n + j).b = Comma /\ k + 1 \in 1 .. Len(obj)
          /\ (n + j) + 1 = OpenAt(obj, k + 1)
      BY <1>0, <1>4, <1>5, <2>4, LineEnd DEF C
    <3>2. /\ st' = "wait_dq_start" /\ event' = NONE /\ number' = Finalised
          /\ pair_count' = pair_count + 1 /\ UNCHANGED <<key, value>>
      BY <1>2, <3>1, Bytes, NumberBytes, Zenon DEF FeedNumber, Accept, Comma, Close, OpensNumber
    <3>3. Stored(k)'
      <4>1. ASSUME NEW i \in 1 .. k PROVE Holds(i)'
        BY <1>0, <2>3, <3>2, ZenonT(60) DEF Holds, Image, Prefix
      <4> QED BY <4>1, Zenon DEF Stored
    <3>4. pair_count' = k /\ (k + 1) - 1 = k
      BY <1>3, <3>2
    <3>5. Before(k + 1)'
      BY <1>0, <3>1, <3>3, <3>4, Zenon DEF Before
    <3>6. At(OpenAt(obj, k + 1))'
      BY <1>0, <3>1, Zenon DEF At, Left, Size, OpenAt
    <3> QED BY <3>1, <3>2, <3>5, <3>6, Zenon DEF Ready, OpenAt
  <2>5. CASE k = Len(obj)
    <3>1. Nth(obj, n + j).b = Close /\ (n + j) + 1 = Size(obj)
      BY <1>0, <1>4, <1>5, <2>5, LineEnd DEF C
    <3>2. Complete(Close, Finalised, pair_count + 1)
      BY <1>2, <3>1, Bytes, NumberBytes, Zenon DEF FeedNumber, Comma, Close, OpensNumber
    <3>3. pair_count + 1 = Len(obj) /\ Len(obj) <= MaxKV /\ obj # <<>>
      BY <1>3, <2>5, UjsonAssumption DEF Pair
    <3>4. Close \in Byte
      BY Structure DEF Inner
    <3> DEFINE c == Len(obj)
               numbers == Finalised
    <3>5. Complete(Close, numbers, c) /\ c = Len(obj) /\ c <= MaxKV
      BY <3>2, <3>3
    <3>6. \A i \in 1 .. c : /\ key[i - 1] = Image(obj[i].key) /\ Len(obj[i].key) < StrMax
                            /\ value[i - 1] = Image(obj[i].text) /\ Len(obj[i].text) < StrMax
                            /\ numbers[i - 1] = obj[i].number
      BY <2>3, <2>5
    <3> HIDE DEF c, numbers
    <3>7. Delivery'
      BY <1>0, <3>3, <3>4, <3>5, <3>6, Delivered
    <3> QED BY <3>1, <3>7
  <2> QED BY <2>4, <2>5
<1>6. CASE j # Len(s)
  <2>0. j \in 1 .. Len(s) - 1 /\ j + 1 \in 0 .. Len(s) /\ j + 1 \in 1 .. Len(s)
    BY <1>0, <1>4, <1>6
  <2> DEFINE b == Nth(obj, n + j).b
  <2>1. b = s[j + 1] /\ IsDigit(b)
    <3>1. Nth(obj, n + j) = C(s[j + 1], FALSE) /\ IsDigit(s[j + 1])
      BY <1>4, <2>0, Zenon
    <3>2. C(s[j + 1], FALSE).b = s[j + 1]
      BY DEF C
    <3> QED BY <3>1, <3>2, Zenon
  <2>2. b # Comma /\ b # Close /\ ~ujson_is_ws(b)
    BY <2>1, NumberBytes DEF OpensNumber
  <2> HIDE DEF b
  <2>3. CASE RoomForToken
    <3>1. st' = st /\ event' = NONE /\ AppendValue(b, tok_ptr)
      BY <1>2, <2>1, <2>2, <2>3, Zenon DEF FeedNumber, Accept, Comma, Close, b
    <3>2. j < StrMax - 1
      BY <1>0, <2>3 DEF RoomForToken
    <3>3. Keyed(k)' /\ tok_ptr' = j + 1 /\ value'[k - 1] = Prefix(s, j + 1)
      <4>1. AppendValue(s[j + 1], j)
        BY <1>0, <2>1, <3>1, Zenon
      <4> QED BY <1>0, <1>1, <1>3, <3>2, <4>1, ValueAppended
    <3>4. At(n + (j + 1))'
      <4>1. (n + j) + 1 = n + (j + 1)
        BY <1>3
      <4> QED BY <1>0, <4>1, Zenon DEF At, Left, Size, ValueAt, ColonAt, KeyAt, OpenAt
    <3>5. InNumber(k, j + 1)'
      BY <1>0, <2>0, <3>1, <3>3, <3>4, Zenon DEF InNumber, Prefix
    <3> QED BY <2>0, <3>1, <3>5
  <2>4. CASE ~RoomForToken
    <3>1. Reject
      BY <1>2, <2>1, <2>2, <2>4, Zenon DEF FeedNumber, Comma, Close, b
    <3>2. ~Fits(obj)
      BY <1>0, <1>3, <1>4, <2>0, <2>4 DEF Fits, RoomForToken
    <3> QED BY <3>1, <3>2, Refused
  <2> QED BY <2>3, <2>4
<1> QED BY <1>5, <1>6

\* The comma or brace after a string value.
LEMMA FromClosed ==
  ASSUME NEW k \in 1 .. Len(obj), Closed(k), Sends(EndAt(obj, k))
  PROVE  \/ event' = NONE /\ k + 1 \in 1 .. Len(obj) /\ Ready(k + 1)'
         \/ Delivery' /\ EndAt(obj, k) + 1 = Size(obj)
<1> DEFINE n == EndAt(obj, k)
<1>0. /\ obj \in Object /\ obj' = obj /\ Steady /\ st = "wait_comma_or_end" /\ pair_count = k
      /\ todo' = Left(obj, n + 1) /\ Stored(k)
  BY DEF Closed, Sends
<1>1. k \in Nat /\ Len(obj) \in Nat /\ k <= MaxKV
  BY <1>0, Sendable, UjsonAssumption DEF Steady, IInv, SlotTypes
<1>2. FeedCommaOrEnd(Nth(obj, n).b)
  BY Dispatch DEF Closed, Sends
<1>3. CASE k # Len(obj)
  <2>1. Nth(obj, n).b = Comma /\ k + 1 \in 1 .. Len(obj) /\ n + 1 = OpenAt(obj, k + 1)
    BY <1>0, <1>3, LineEnd DEF C
  <2>2. st' = "wait_dq_start" /\ event' = NONE /\ UNCHANGED pairs
    BY <1>2, <2>1, Bytes, Zenon DEF FeedCommaOrEnd, Accept, Comma, Close
  <2>3. Stored(k)'
    BY <1>0, <1>1, <2>2, StoredKept DEF pairs
  <2>4. pair_count' = (k + 1) - 1 /\ (k + 1) - 1 = k
    BY <1>0, <1>1, <2>2 DEF pairs
  <2>5. Before(k + 1)'
    BY <1>0, <2>1, <2>3, <2>4, Zenon DEF Before
  <2>6. At(OpenAt(obj, k + 1))'
    BY <1>0, <2>1, Zenon DEF At, Left, Size, OpenAt
  <2> QED BY <2>1, <2>2, <2>5, <2>6, Zenon DEF Ready, OpenAt
<1>4. CASE k = Len(obj)
  <2>1. Nth(obj, n).b = Close /\ n + 1 = Size(obj)
    BY <1>0, <1>4, LineEnd DEF C
  <2>2. Complete(Close, number, pair_count)
    BY <1>2, <2>1, Bytes, Zenon DEF FeedCommaOrEnd, Comma, Close
  <2>3. obj # <<>> /\ Close \in Byte
    BY <1>1, Structure DEF Inner
  <2>4. \A i \in 1 .. k : /\ key[i - 1] = Image(obj[i].key) /\ Len(obj[i].key) < StrMax
                          /\ value[i - 1] = Image(obj[i].text) /\ Len(obj[i].text) < StrMax
                          /\ number[i - 1] = obj[i].number
    BY <1>0, Zenon DEF Stored, Holds
  <2>5. Delivery'
    BY <1>0, <1>1, <1>4, <2>2, <2>3, <2>4, Delivered
  <2> QED BY <2>1, <2>5
<1> QED BY <1>3, <1>4
\* The rest of a refused object is passed over.
LEMMA FromLost ==
  ASSUME Lost, NEW b, b # Open, ujson_feed(b), NoOpening(todo'), UNCHANGED <<obj, suspect>>
  PROVE  Lost' /\ event' = NONE
<1>1. FeedStart(b)
  BY Dispatch DEF Lost
<1>2. st' = "start" /\ event' = NONE
  BY <1>1, Zenon DEF FeedStart, Accept, Open
<1>3. (~suspect => ~Fits(obj))'
  BY Zenon DEF Lost, Fits
<1> QED BY <1>2, <1>3, Zenon DEF Lost, NoOpening

\* A string that a cut left open takes a byte, or has no room for it.
LEMMA Swallowed ==
  ASSUME NEW b, b # Dq, st \in {"read_key", "read_value"}, ujson_feed(b)
  PROVE  event' = NONE /\ (st' = st \/ Reject)
<1>1. CASE st = "read_key"
  <2>1. FeedKey(b)
    BY <1>1, Dispatch
  <2> QED BY <2>1, Zenon DEF FeedKey, Accept, Reject, Dq
<1>2. CASE st = "read_value"
  <2>1. FeedValue(b)
    BY <1>2, Dispatch
  <2> QED BY <2>1, Zenon DEF FeedValue, Accept, Reject, Dq
<1> QED BY <1>1, <1>2

\* An opening brace is refused in every state but the first and a string.
LEMMA OpenRefused ==
  ASSUME ujson_feed(Open), st \in State, st \notin {"start", "read_key", "read_value"}
  PROVE  Reject
<1>1. CASE st = "wait_dq_start"
  <2>1. FeedKeyQuote(Open)
    BY <1>1, Dispatch
  <2> QED BY <2>1, Bytes, Zenon DEF FeedKeyQuote, OpensKey, Dq
<1>2. CASE st = "wait_colon"
  <2>1. FeedColon(Open)
    BY <1>2, Dispatch
  <2> QED BY <2>1, Bytes, Zenon DEF FeedColon, Colon
<1>3. CASE st = "wait_dq_value"
  <2>1. FeedValueStart(Open)
    BY <1>3, Dispatch
  <2> QED BY <2>1, Bytes, NumberBytes, Zenon DEF FeedValueStart, Dq
<1>4. CASE st = "read_value_int"
  <2>1. FeedNumber(Open)
    BY <1>4, Dispatch
  <2> QED BY <2>1, Bytes, NumberBytes, Zenon DEF FeedNumber, Comma, Close, OpensNumber
<1>5. CASE st = "wait_comma_or_end"
  <2>1. FeedCommaOrEnd(Open)
    BY <1>5, Dispatch
  <2> QED BY <2>1, Bytes, Zenon DEF FeedCommaOrEnd, Comma, Close
<1> QED BY <1>1, <1>2, <1>3, <1>4, <1>5, Zenon DEF State

\* The opening brace of an object after a cut.
LEMMA FromAstray ==
  ASSUME Astray(0), At(0), suspect, Sends(0)
  PROVE  event' = NONE /\ ((obj # <<>> /\ Ready(1)') \/ Empty' \/ Astray(1)' \/ Lost')
<1>0. st \in State
  BY DEF Sends, Steady, IInv, SlotTypes
<1>1. Nth(obj, 0).b = Open
  BY RenderIs DEF Sends, C
<1>2. ujson_feed(Open)
  BY <1>1 DEF Sends
<1>3. CASE st = "start"
  <2>1. Ahead
    BY <1>3 DEF Ahead
  <2> QED BY <2>1, FromAhead
<1>4. CASE st \in {"read_key", "read_value"}
  <2>1. event' = NONE /\ (st' = st \/ Reject)
    BY <1>2, <1>4, Swallowed, Bytes
  <2>2. CASE st' = st
    <3>1. todo' = Left(obj, 1) /\ obj' = obj /\ suspect' = suspect /\ 1 \in Nat
      <4>1. 0 + 1 = 1 /\ 1 \in Nat
        OBVIOUS
      <4> QED BY <4>1, Zenon DEF Sends
    <3>2. Astray(1)'
      BY <1>4, <2>2, <3>1, Zenon DEF Astray, At, Left, Size
    <3> QED BY <2>1, <3>2
  <2>3. CASE Reject
    BY <2>3, Refused
  <2> QED BY <2>1, <2>2, <2>3
<1>5. CASE st \notin {"start", "read_key", "read_value"}
  <2>1. Reject
    BY <1>0, <1>2, <1>5, OpenRefused
  <2> QED BY <2>1, Refused
<1> QED BY <1>3, <1>4, <1>5

\* The byte after it: a quote, which ends a string that the cut left open, unless
\* the object is empty.
LEMMA FromAstrayString ==
  ASSUME suspect, st \in {"read_key", "read_value"}, At(1), Sends(1)
  PROVE  /\ event' = NONE
         /\ \/ Astray(2)' \/ Lost'
            \/ suspect /\ obj = <<>> /\ todo' = <<>>
<1>0. obj \in Object /\ obj' = obj /\ todo' = Left(obj, 2) /\ suspect' = suspect
  <2>1. 1 + 1 = 2
    OBVIOUS
  <2> QED BY <2>1, Zenon DEF Sends
<1>1. ujson_feed(Nth(obj, 1).b)
  BY DEF Sends
<1>2. CASE obj = <<>>
  <2>1. Nth(obj, 1).b = Close /\ Size(obj) = 2
    <3>1. 1 + 1 = 2
      OBVIOUS
    <3> QED BY <1>0, <1>2, <3>1, RenderEmpty DEF Nth, Size, C
  <2>2. event' = NONE
    BY <1>1, <2>1, Swallowed, Bytes
  <2>3. todo' = <<>>
    <3>1. 1 \in Nat /\ 1 < Size(obj) /\ 1 + 1 = 2
      BY <2>1
    <3> QED BY <1>0, <2>1, <3>1, LeftStep, Zenon
  <2> QED BY <1>2, <2>2, <2>3
<1>3. CASE obj # <<>>
  <2>0. 1 \in 1 .. Len(obj) /\ OpenAt(obj, 1) = 1 /\ Len(obj[1].key) \in Nat
    <3>1. obj \in Seq(Members)
      BY <1>0, Sendable
    <3>2. 1 \in 1 .. Len(obj)
      BY <1>3, <3>1
    <3> QED BY <1>0, <3>2, LineOpen, LineKey
  <2>1. Nth(obj, 1).b = Dq
    <3>1. Nth(obj, OpenAt(obj, 1)) = C(Dq, TRUE)
      BY <1>0, <2>0, LineKey, Zenon
    <3> QED BY <2>0, <3>1 DEF C
  <2>2. event' = NONE /\ st' \in {"wait_colon", "wait_comma_or_end"}
    <3>1. CASE st = "read_key"
      <4>1. FeedKey(Dq)
        BY <1>1, <2>1, <3>1, Dispatch
      <4> QED BY <4>1, Zenon DEF FeedKey, Accept, Dq
    <3>2. CASE st = "read_value"
      <4>1. FeedValue(Dq)
        BY <1>1, <2>1, <3>2, Dispatch
      <4> QED BY <4>1, Zenon DEF FeedValue, Accept, Dq
    <3> QED BY <3>1, <3>2
  <2>3. 2 \in 2 .. Len(obj[1].key) + 2 /\ 2 >= 2
    BY <2>0
  <2>4. Astray(2)'
    BY <1>0, <1>3, <2>2, <2>3, Zenon DEF Astray, At, Left, Size
  <2> QED BY <2>2, <2>4
<1> QED BY <1>2, <1>3

\* The bytes of the first key then end the trouble: no state that waits for a
\* colon, a comma or a brace takes them.
LEMMA FromAstrayKey ==
  ASSUME suspect, obj # <<>>, NEW n \in Nat, n \in 2 .. Len(obj[1].key) + 2, At(n),
         st \in {"wait_colon", "wait_comma_or_end"}, Sends(n)
  PROVE  event' = NONE /\ ((n + 1 \in Nat /\ Astray(n + 1)') \/ Lost')
<1> DEFINE s == obj[1].key
           b == Nth(obj, n).b
<1>0. obj \in Object /\ obj' = obj /\ todo' = Left(obj, n + 1) /\ suspect' = suspect /\ ujson_feed(b)
  BY Zenon DEF Sends
<1>1. 1 \in 1 .. Len(obj) /\ OpenAt(obj, 1) = 1 /\ Len(s) \in Nat
  <2>1. obj \in Seq(Members)
    BY <1>0, Sendable
  <2>2. 1 \in 1 .. Len(obj)
    BY <2>1
  <2> QED BY <1>0, <2>2, LineOpen, LineKey
<1> DEFINE j == n - 2
<1>2. KeyAt(obj, 1) + j = n /\ j \in 0 .. Len(s)
  BY <1>1 DEF KeyAt
<1>3. \/ j = Len(s) /\ Nth(obj, n) = C(Dq, FALSE)
      \/ j \in 0 .. Len(s) - 1 /\ Nth(obj, n) = C(s[j + 1], FALSE)
  <2>1. Nth(obj, KeyAt(obj, 1) + Len(s)) = C(Dq, FALSE)
    BY <1>0, <1>1, LineKey, Zenon
  <2>2. \A i \in 0 .. Len(s) - 1 : Nth(obj, KeyAt(obj, 1) + i) = C(s[i + 1], FALSE)
    BY <1>0, <1>1, LineKey, Zenon
  <2>3. j = Len(s) \/ j \in 0 .. Len(s) - 1
    BY <1>1, <1>2
  <2> QED BY <1>2, <2>1, <2>2, <2>3, Zenon
<1>4. \/ b = Dq
      \/ b \in KeyByte /\ n + 1 \in Nat /\ n + 1 >= 2 /\ n + 1 \in 2 .. Len(s) + 2
  <2>1. CASE j = Len(s) /\ Nth(obj, n) = C(Dq, FALSE)
    BY <2>1 DEF C
  <2>2. CASE j \in 0 .. Len(s) - 1 /\ Nth(obj, n) = C(s[j + 1], FALSE)
    <3>1. s \in Seq(KeyByte)
      BY <1>0, <1>1, LineKey, SentStrings
    <3>2. j + 1 \in 1 .. Len(s) /\ n + 1 \in Nat /\ n + 1 >= 2 /\ n + 1 \in 2 .. Len(s) + 2
      BY <1>1, <2>2
    <3>3. s[j + 1] \in KeyByte
      BY <3>1, <3>2
    <3>4. b = s[j + 1]
      BY <2>2 DEF C
    <3> QED BY <3>2, <3>3, <3>4, Zenon
  <2> QED BY <1>3, <2>1, <2>2
<1> HIDE DEF b
<1>5. b # Colon /\ b # Comma /\ b # Close
  <2>1. b \in KeyByte => b \notin Structural
    BY DEF KeyByte
  <2>2. Colon \in Structural /\ Comma \in Structural /\ Close \in Structural
    BY Zenon DEF Structural, Colon, Comma, Close
  <2> QED BY <1>4, <2>1, <2>2, Bytes, Zenon
<1>6. event' = NONE /\ (Reject \/ (b # Dq /\ st' = st))
  <2>1. CASE st = "wait_colon"
    <3>1. FeedColon(b)
      BY <1>0, <2>1, Dispatch
    <3> QED BY <1>5, <3>1, Bytes, Zenon DEF FeedColon, Accept, Reject, Colon
  <2>2. CASE st = "wait_comma_or_end"
    <3>1. FeedCommaOrEnd(b)
      BY <1>0, <2>2, Dispatch
    <3> QED BY <1>5, <3>1, Bytes, Zenon DEF FeedCommaOrEnd, Accept, Reject, Comma, Close
  <2> QED BY <2>1, <2>2
<1>7. CASE Reject
  BY <1>7, Refused
<1>8. CASE b # Dq /\ st' = st
  <2>1. Astray(n + 1)'
    BY <1>0, <1>4, <1>8, Zenon DEF Astray, At, Left, Size
  <2> QED BY <1>4, <1>6, <1>8, <2>1
<1> QED BY <1>6, <1>7, <1>8
\* Every place inside a pair has a byte of the object after it.
LEMMA LineOrder ==
  ASSUME NEW o \in Object, NEW k \in 1 .. Len(o)
  PROVE  /\ OpenAt(o, k) \in Nat /\ OpenAt(o, k) < Size(o)
         /\ \A j \in 0 .. Len(o[k].key) : KeyAt(o, k) + j \in Nat /\ KeyAt(o, k) + j < Size(o)
         /\ ColonAt(o, k) \in Nat /\ ColonAt(o, k) < Size(o)
         /\ ValueAt(o, k) \in Nat /\ ValueAt(o, k) < Size(o)
         /\ o[k].number = NONE =>
              \A j \in 0 .. Len(o[k].text) : TextAt(o, k) + j \in Nat /\ TextAt(o, k) + j < Size(o)
         /\ o[k].number # NONE =>
              \A j \in 0 .. Len(o[k].text) : ValueAt(o, k) + j \in Nat /\ ValueAt(o, k) + j < Size(o)
         /\ EndAt(o, k) \in Nat /\ EndAt(o, k) < Size(o)
<1> DEFINE a == KeyAt(o, k)
           c == ColonAt(o, k)
           v == ValueAt(o, k)
           t == TextAt(o, k)
           e == EndAt(o, k)
           z == Size(o)
           n == Len(o[k].key)
           m == Len(o[k].text)
           l == Len(Rest(o[k]))
<1>1. OpenAt(o, k) \in Nat /\ OpenAt(o, k) < Size(o) /\ z \in Nat
  BY LineOpen
<1>2. a \in Nat /\ c \in Nat /\ v \in Nat /\ e \in Nat /\ e < z /\ n \in Nat /\ l \in Nat /\ v + l = e
  BY LineKey
<1>3. c = (a + n) + 1 /\ v = c + 1 /\ t = v + 1
  BY DEF ColonAt, ValueAt, TextAt
<1>4. /\ o[k].number = NONE => m \in Nat /\ e = (t + m) + 1
      /\ o[k].number # NONE => m \in Nat /\ e = v + m
  BY LineText, LineNumber, Zenon
<1> HIDE DEF a, c, v, t, e, z, n, m, l
<1>5. v <= e
  BY <1>2
<1>6. c < z /\ v < z
  BY <1>1, <1>2, <1>3, <1>5
<1>7. \A j \in 0 .. n : a + j \in Nat /\ a + j < z
  BY <1>1, <1>2, <1>3, <1>6
<1>8. o[k].number = NONE => \A j \in 0 .. m : t + j \in Nat /\ t + j < z
  BY <1>1, <1>2, <1>3, <1>4
<1>9. o[k].number # NONE => \A j \in 0 .. m : v + j \in Nat /\ v + j < z
  BY <1>1, <1>2, <1>4
<1> QED BY <1>1, <1>2, <1>6, <1>7, <1>8, <1>9, Zenon DEF a, c, v, t, e, z, n, m

\* An object that is not empty has a first pair.
LEMMA FirstPair ==
  ASSUME NEW o \in Object, o # <<>>
  PROVE  1 \in 1 .. Len(o)
<1>1. o \in Seq(Members)
  BY Sendable
<1> QED BY <1>1

\* The first key and its quotes end before the object does.
LEMMA AstrayRange ==
  ASSUME NEW o \in Object, o # <<>>, NEW n \in 2 .. Len(o[1].key) + 2
  PROVE  n < Size(o)
<1>1. 1 \in 1 .. Len(o)
  BY FirstPair
<1>2. OpenAt(o, 1) = 1 /\ Len(o[1].key) \in Nat
  BY <1>1, LineOpen, LineKey
<1>3. n - 2 \in 0 .. Len(o[1].key) /\ KeyAt(o, 1) + (n - 2) = n
  BY <1>2 DEF KeyAt
<1> QED BY <1>1, <1>3, LineOrder, Zenon

\* The parser is ahead of some byte of the object.
Midway == \E n \in Nat : n < Size(obj) /\ At(n)

\* Wherever the parser is inside an object, a byte is still to come.
LEMMA InsideIsMidway == obj \in Object /\ Inside => Midway \/ Lost
<1> SUFFICES ASSUME obj \in Object, Inside, ~Lost PROVE Midway
  OBVIOUS
<1>1. ASSUME NEW n \in Nat, n < Size(obj), At(n) PROVE Midway
  BY <1>1, Zenon DEF Midway
<1>2. 0 \in Nat /\ 1 \in Nat /\ 0 < Size(obj) /\ 1 < Size(obj)
  <2>1. \A n \in Nat : n >= 2 => 0 < n /\ 1 < n
    OBVIOUS
  <2>2. Size(obj) \in Nat /\ Size(obj) >= 2
    BY RenderIs
  <2> QED BY <2>1, <2>2
<1>3. CASE Ahead
  BY <1>1, <1>2, <1>3, Zenon DEF Ahead
<1>4. CASE Empty
  BY <1>1, <1>2, <1>4, Zenon DEF Empty
<1>5. ASSUME NEW n \in Nat, Astray(n) PROVE Midway
  <2>1. CASE n = 0 /\ At(0)
    BY <1>1, <1>2, <2>1, Zenon
  <2>2. CASE n = 1 /\ At(1)
    BY <1>1, <1>2, <2>2, Zenon
  <2>3. CASE obj # <<>> /\ n \in 2 .. Len(obj[1].key) + 2 /\ At(n)
    <3>1. n < Size(obj)
      BY <2>3, AstrayRange
    <3> QED BY <1>1, <2>3, <3>1, Zenon
  <2> QED BY <1>5, <2>1, <2>2, <2>3, Zenon DEF Astray
<1>6. ASSUME NEW k \in 1 .. Len(obj), Ready(k) \/ AtColon(k) \/ AtValue(k) \/ Closed(k) PROVE Midway
  <2>1. At(OpenAt(obj, k)) \/ At(ColonAt(obj, k)) \/ At(ValueAt(obj, k)) \/ At(EndAt(obj, k))
    BY <1>6, Zenon DEF Ready, AtColon, AtValue, Closed
  <2> QED BY <1>1, <2>1, LineOrder, Zenon
<1>7. ASSUME NEW k \in 1 .. Len(obj), NEW j \in 0 .. Len(obj[k].key), InKey(k, j) PROVE Midway
  <2>1. At(KeyAt(obj, k) + j)
    BY <1>7, Zenon DEF InKey
  <2> QED BY <1>1, <2>1, LineOrder, Zenon
<1>8. ASSUME NEW k \in 1 .. Len(obj), NEW j \in 0 .. Len(obj[k].text), InText(k, j) \/ InNumber(k, j)
      PROVE  Midway
  <2>1. \/ obj[k].number = NONE /\ At(TextAt(obj, k) + j)
        \/ obj[k].number # NONE /\ At(ValueAt(obj, k) + j)
    BY <1>8, Zenon DEF InText, InNumber
  <2> QED BY <1>1, <2>1, LineOrder, Zenon
<1> QED BY <1>3, <1>4, <1>5, <1>6, <1>7, <1>8, Zenon DEF Inside

\* What is left is empty only after the last byte.
LEMMA LeftIs ==
  ASSUME NEW o \in Object, NEW n \in Nat
  PROVE  /\ n < Size(o) => Left(o, n) # <<>> /\ Left(o, n) \in Seq(Anything)
         /\ Left(o, 0) = Render(o)
<1>1. Render(o) \in Seq(Anything) /\ Size(o) \in Nat /\ Size(o) = Len(Render(o))
  BY RenderIs DEF Size
<1>2. n < Size(o) => Left(o, n) # <<>>
  BY LeftStep
<1> DEFINE R == Render(o)
           N == Size(o)
<1> HIDE DEF R, N
<1>3. Left(o, n) \in Seq(Anything)
  <2>1. \A i \in n + 1 .. N : R[i] \in Anything
    BY <1>1 DEF R, N
  <2> QED BY <1>1, <2>1, SubSeqProperties DEF Left, R, N
<1>4. SubSeq(R, 1, N) = R
  BY <1>1 DEF R, N
<1>5. 0 + 1 = 1
  OBVIOUS
<1> QED BY <1>2, <1>3, <1>4, <1>5, Zenon DEF Left, R, N

\* The line gives its next byte.
LEMMA SendsAt ==
  ASSUME Steady, obj \in Object, NEW n \in Nat, n < Size(obj), At(n),
         ujson_feed(Head(todo).b), todo' = Tail(todo), UNCHANGED <<obj, suspect>>
  PROVE  Sends(n) /\ (n + 1 = Size(obj) => todo' = <<>>)
<1>1. /\ Head(todo) = Nth(obj, n) /\ Tail(todo) = Left(obj, n + 1)
      /\ (Left(obj, n + 1) = <<>> <=> n + 1 = Size(obj))
  BY LeftStep, Zenon DEF At
<1> QED BY <1>1, Zenon DEF Sends
\* Where the next byte of the object leads.
LEMMA InsideSend ==
  ASSUME Steady, obj \in Object, Inside, todo # <<>>, todo \in Seq(Anything),
         ujson_feed(Head(todo).b), todo' = Tail(todo), UNCHANGED <<obj, suspect>>
  PROVE  \/ event' = NONE /\ Inside'
         \/ event' = NONE /\ suspect /\ obj = <<>> /\ todo' = <<>>
         \/ Delivery' /\ todo' = <<>>
<1> DEFINE Goal == \/ event' = NONE /\ Inside'
                   \/ event' = NONE /\ suspect /\ obj = <<>> /\ todo' = <<>>
                   \/ Delivery' /\ todo' = <<>>
<1>0. ASSUME NEW n \in Nat, n < Size(obj), At(n)
      PROVE  Sends(n) /\ (n + 1 = Size(obj) => todo' = <<>>)
  BY <1>0, SendsAt
<1>1. Size(obj) \in Nat /\ Size(obj) >= 2
  BY RenderIs
<1>2. 0 \in Nat /\ 1 \in Nat /\ 0 < Size(obj) /\ 1 < Size(obj) /\ obj' = obj
  <2>1. \A n \in Nat : n >= 2 => 0 < n /\ 1 < n
    OBVIOUS
  <2> QED BY <1>1, <2>1
<1>3. CASE Ahead
  <2>1. Sends(0)
    BY <1>0, <1>2, <1>3, Zenon DEF Ahead
  <2>2. event' = NONE /\ ((obj # <<>> /\ Ready(1)') \/ Empty')
    BY <1>3, <2>1, FromAhead
  <2> QED BY <1>2, <2>1, <2>2, FirstPair, Zenon DEF Inside, Sends
<1>4. CASE Empty
  <2>1. Sends(1)
    BY <1>0, <1>2, <1>4, Zenon DEF Empty
  <2>2. Lost' /\ event' = NONE
    BY <1>4, <2>1, FromEmpty
  <2> QED BY <2>2, Zenon DEF Inside
<1>5. CASE Lost
  <2>1. Head(todo).b # Open /\ NoOpening(Tail(todo))
    BY <1>5, NoOpeningStep DEF Lost
  <2>2. NoOpening(todo')
    BY <2>1
  <2>3. Lost' /\ event' = NONE
    BY <1>5, <2>1, <2>2, FromLost
  <2> QED BY <2>3, Zenon DEF Inside
<1>6. ASSUME NEW n \in Nat, Astray(n) PROVE Goal
  <2>1. CASE n = 0 /\ suspect /\ At(0)
    <3>1. Sends(0)
      BY <1>0, <1>2, <2>1, Zenon
    <3>2. event' = NONE /\ ((obj # <<>> /\ Ready(1)') \/ Empty' \/ Astray(1)' \/ Lost')
      BY <1>6, <2>1, <3>1, FromAstray
    <3> QED BY <1>2, <3>1, <3>2, FirstPair, Zenon DEF Inside, Sends
  <2>2. CASE suspect /\ At(1) /\ st \in {"read_key", "read_value"}
    <3>1. Sends(1)
      BY <1>0, <1>2, <2>2, Zenon
    <3>2. /\ event' = NONE
          /\ \/ Astray(2)' \/ Lost'
             \/ suspect /\ obj = <<>> /\ todo' = <<>>
      BY <2>2, <3>1, FromAstrayString
    <3>3. 2 \in Nat
      OBVIOUS
    <3> QED BY <3>2, <3>3, Zenon DEF Inside
  <2>3. CASE /\ suspect /\ obj # <<>> /\ n \in 2 .. Len(obj[1].key) + 2 /\ At(n)
             /\ st \in {"wait_colon", "wait_comma_or_end"}
    <3>1. n < Size(obj)
      BY <2>3, AstrayRange
    <3>2. Sends(n)
      BY <1>0, <2>3, <3>1, Zenon
    <3>3. event' = NONE /\ ((n + 1 \in Nat /\ Astray(n + 1)') \/ Lost')
      BY <2>3, <3>2, FromAstrayKey
    <3> QED BY <3>3, Zenon DEF Inside
  <2> QED BY <1>6, <2>1, <2>2, <2>3, Zenon DEF Astray
<1>7. ASSUME NEW k \in 1 .. Len(obj), Ready(k) PROVE Goal
  <2>1. Sends(OpenAt(obj, k))
    BY <1>0, <1>7, LineOrder, Zenon DEF Ready
  <2>2. 0 \in 0 .. Len(obj[k].key)
    BY LineKey
  <2>3. event' = NONE /\ (InKey(k, 0)' \/ Lost')
    BY <1>7, <2>1, FromReady
  <2> QED BY <1>2, <2>2, <2>3, Zenon DEF Inside
<1>8. ASSUME NEW k \in 1 .. Len(obj), NEW j \in 0 .. Len(obj[k].key), InKey(k, j) PROVE Goal
  <2>1. Sends(KeyAt(obj, k) + j)
    BY <1>0, <1>8, LineOrder, Zenon DEF InKey
  <2>2. event' = NONE /\ ((j + 1 \in 0 .. Len(obj[k].key) /\ InKey(k, j + 1)') \/ AtColon(k)' \/ Lost')
    BY <1>8, <2>1, FromKey
  <2> QED BY <1>2, <2>2, Zenon DEF Inside
<1>9. ASSUME NEW k \in 1 .. Len(obj), AtColon(k) PROVE Goal
  <2>1. Sends(ColonAt(obj, k))
    BY <1>0, <1>9, LineOrder, Zenon DEF AtColon
  <2>2. event' = NONE /\ AtValue(k)'
    BY <1>9, <2>1, FromColon
  <2> QED BY <1>2, <2>2, Zenon DEF Inside
<1>10. ASSUME NEW k \in 1 .. Len(obj), AtValue(k) PROVE Goal
  <2>1. Sends(ValueAt(obj, k))
    BY <1>0, <1>10, LineOrder, Zenon DEF AtValue
  <2>2. /\ event' = NONE
        /\ \/ Lost'
           \/ InText(k, 0)' /\ 0 \in 0 .. Len(obj[k].text)
           \/ InNumber(k, 1)' /\ 1 \in 0 .. Len(obj[k].text)
    BY <1>10, <2>1, FromValue
  <2> QED BY <1>2, <2>2, Zenon DEF Inside
<1>11. ASSUME NEW k \in 1 .. Len(obj), NEW j \in 0 .. Len(obj[k].text), InText(k, j) PROVE Goal
  <2>1. Sends(TextAt(obj, k) + j)
    BY <1>0, <1>11, LineOrder, Zenon DEF InText
  <2>2. /\ event' = NONE
        /\ (j + 1 \in 0 .. Len(obj[k].text) /\ InText(k, j + 1)') \/ Closed(k)' \/ Lost'
    BY <1>11, <2>1, FromText
  <2> QED BY <1>2, <2>2, Zenon DEF Inside
<1>12. ASSUME NEW k \in 1 .. Len(obj), NEW j \in 0 .. Len(obj[k].text), InNumber(k, j) PROVE Goal
  <2>1. ValueAt(obj, k) + j \in Nat /\ ValueAt(obj, k) + j < Size(obj) /\ At(ValueAt(obj, k) + j)
    BY <1>12, LineOrder, Zenon DEF InNumber
  <2>2. Sends(ValueAt(obj, k) + j) /\ ((ValueAt(obj, k) + j) + 1 = Size(obj) => todo' = <<>>)
    BY <1>0, <2>1
  <2>3. \/ event' = NONE /\ j + 1 \in 0 .. Len(obj[k].text) /\ InNumber(k, j + 1)'
        \/ event' = NONE /\ Lost'
        \/ event' = NONE /\ k + 1 \in 1 .. Len(obj) /\ Ready(k + 1)'
        \/ Delivery' /\ (ValueAt(obj, k) + j) + 1 = Size(obj)
    BY <1>12, <2>2, FromNumber
  <2> QED BY <1>2, <2>2, <2>3, Zenon DEF Inside
<1>13. ASSUME NEW k \in 1 .. Len(obj), Closed(k) PROVE Goal
  <2>1. EndAt(obj, k) \in Nat /\ EndAt(obj, k) < Size(obj) /\ At(EndAt(obj, k))
    BY <1>13, LineOrder, Zenon DEF Closed
  <2>2. Sends(EndAt(obj, k)) /\ (EndAt(obj, k) + 1 = Size(obj) => todo' = <<>>)
    BY <1>0, <2>1
  <2>3. \/ event' = NONE /\ k + 1 \in 1 .. Len(obj) /\ Ready(k + 1)'
        \/ Delivery' /\ EndAt(obj, k) + 1 = Size(obj)
    BY <1>13, <2>2, FromClosed
  <2> QED BY <1>2, <2>2, <2>3, Zenon DEF Inside
<1> QED BY <1>3, <1>4, <1>5, <1>6, <1>7, <1>8, <1>9, <1>10, <1>11, <1>12, <1>13, Zenon DEF Inside
\* The white space that may come between the parts of an object.
Sp == " "

\* White space completes nothing.
LEMMA BlankByte ==
  ASSUME ujson_feed(Sp)
  PROVE  event' = NONE
<1>1. Sp # Close /\ Sp # Dq
  BY Bytes, Zenon DEF Sp
<1>2. ASSUME Reject PROVE event' = NONE
  BY <1>2 DEF Reject
<1>3. ASSUME NEW s, Accept(Sp, s) PROVE event' = NONE
  BY <1>3 DEF Accept
<1> QED BY <1>1, <1>2, <1>3, Zenon
       DEF Close, Dq, ujson_feed, FeedStart, FeedKeyQuote, FeedKey, FeedColon, FeedValueStart, FeedValue,
           FeedNumber, FeedCommaOrEnd

\* A number may end at a white space: the last byte of one has a gap after it.
LEMMA GapInNumber ==
  ASSUME NEW k \in 1 .. Len(obj), NEW j \in 0 .. Len(obj[k].text), InNumber(k, j),
         Steady, obj \in Object, Head(todo).gap, ujson_feed(Sp), UNCHANGED line
  PROVE  Closed(k)'
<1> DEFINE s == obj[k].text
           n == ValueAt(obj, k)
<1>0. /\ Keyed(k) /\ Before(k) /\ st = "read_value_int" /\ obj' = obj /\ todo' = todo
      /\ obj[k].number # NONE /\ j \in 1 .. Len(s) /\ todo = Left(obj, n + j)
  BY Zenon DEF InNumber, Keyed, At, line
<1>1. /\ Len(s) \in Nat /\ EndAt(obj, k) = n + Len(s)
      /\ \A i \in 1 .. Len(s) - 1 : Nth(obj, n + i) = C(s[i + 1], FALSE)
  BY <1>0, LineNumber
<1>2. j = Len(s)
  <2> SUFFICES ASSUME j # Len(s) PROVE FALSE
    OBVIOUS
  <2>1. j \in 1 .. Len(s) - 1
    BY <1>0, <1>1
  <2>2. Nth(obj, n + j) = C(s[j + 1], FALSE)
    BY <1>1, <2>1
  <2>3. Head(todo) = Nth(obj, n + j)
    BY <1>0, LineOrder, LeftStep, Zenon
  <2> QED BY <2>2, <2>3 DEF C
<1>3. /\ Finalised[k - 1] = obj[k].number
      /\ \A i \in 0 .. (k - 1) - 1 : Finalised[i] = number[i]
      /\ value[k - 1] = Image(s) /\ Len(s) < StrMax
      /\ key[k - 1] = Image(obj[k].key) /\ Len(obj[k].key) < StrMax
  BY <1>2, FinalisedAt
<1>4. k \in Nat /\ k - 1 \in Nat /\ pair_count = k - 1 /\ Stored(k - 1)
  <2>1. PairOpen
    BY <1>0 DEF PairOpen
  <2> QED BY <1>0, <2>1, OpenSlot
<1>5. FeedNumber(Sp)
  BY <1>0, Dispatch
<1>6. Sp # Comma /\ Sp # Close
  BY Bytes, Zenon DEF Sp
<1>7. ~OpensNumber(Sp)
  BY Bytes, NumberBytes, Zenon DEF Sp
<1> HIDE DEF Finalised
<1>8. /\ st' = "wait_comma_or_end" /\ number' = Finalised
      /\ pair_count' = pair_count + 1 /\ UNCHANGED <<key, value>>
  BY <1>5, <1>6, <1>7, Bytes, Zenon DEF FeedNumber, Accept, OpensNumber, Comma, Close, Sp
<1>9. Stored(k)'
  <2>1. \A i \in 1 .. k : i = k \/ (i \in 1 .. k - 1 /\ i - 1 \in 0 .. (k - 1) - 1)
    BY <1>4
  <2>2. ASSUME NEW i \in 1 .. k PROVE Holds(i)'
    <3>1. /\ key[i - 1] = Image(obj[i].key) /\ Len(obj[i].key) < StrMax
          /\ value[i - 1] = Image(obj[i].text) /\ Len(obj[i].text) < StrMax
          /\ Finalised[i - 1] = obj[i].number
      BY <1>3, <1>4, <2>1, Zenon DEF Stored, Holds
    <3> QED BY <1>0, <1>8, <3>1, Zenon DEF Holds, Image, Prefix
  <2> QED BY <2>2, Zenon DEF Stored
<1>10. pair_count' = k
  BY <1>4, <1>8
<1>11. At(EndAt(obj, k))'
  BY <1>0, <1>1, <1>2, Zenon DEF At, Left, Size, EndAt
<1> QED BY <1>0, <1>8, <1>9, <1>10, <1>11, Zenon DEF Closed

\* In the other places where the sender writes white space, it changes nothing.
LEMMA GapAtRest ==
  ASSUME UNCHANGED <<st, pairs, obj, todo, suspect>>
  PROVE  /\ Ahead => Ahead'
         /\ Empty => Empty'
         /\ \A k \in 1 .. Len(obj) : /\ Ready(k) => Ready(k)'
                                     /\ AtColon(k) => AtColon(k)'
                                     /\ AtValue(k) => AtValue(k)'
                                     /\ Closed(k) => Closed(k)'
<1> USE DEF pairs, At, Left, Size, Before, Stored, Holds, Image, Prefix, Keyed
<1>1. Ahead => Ahead'
  BY Zenon DEF Ahead
<1>2. Empty => Empty'
  BY Zenon DEF Empty
<1>3. ASSUME NEW k \in 1 .. Len(obj)
      PROVE  /\ Ready(k) => Ready(k)'
             /\ AtColon(k) => AtColon(k)'
             /\ AtValue(k) => AtValue(k)'
             /\ Closed(k) => Closed(k)'
  <2>1. Ready(k) => Ready(k)'
    BY ZenonT(60) DEF Ready, OpenAt
  <2>0. Before(k) => Before(k)'
    BY ZenonT(60) 
  <2>5. Keyed(k) => Keyed(k)'
    BY <2>0, Zenon
  <2>2. AtColon(k) => AtColon(k)'
    BY <2>5, Zenon DEF AtColon, Blank, ColonAt, KeyAt, OpenAt
  <2>3. AtValue(k) => AtValue(k)'
    BY <2>5, Zenon DEF AtValue, Blank, ValueAt, ColonAt, KeyAt, OpenAt
  <2>4. Closed(k) => Closed(k)'
    BY ZenonT(60) DEF Closed
  <2> QED BY <2>1, <2>2, <2>3, <2>4
<1> QED BY <1>1, <1>2, <1>3

\* Nothing moves when nothing changes.
LEMMA Unmoved ==
  ASSUME Inside, UNCHANGED <<st, pairs, obj, todo, suspect>>
  PROVE  Inside'
<1>1. CASE Ahead \/ Empty
  BY <1>1, GapAtRest, Zenon DEF Inside
<1>2. ASSUME NEW k \in 1 .. Len(obj), Ready(k) \/ AtColon(k) \/ AtValue(k) \/ Closed(k)
      PROVE  Inside'
  <2>1. Ready(k)' \/ AtColon(k)' \/ AtValue(k)' \/ Closed(k)'
    BY <1>2, GapAtRest
  <2> QED BY <2>1, Zenon DEF Inside
<1>3. CASE Lost
  <2>1. Lost'
    BY <1>3, Zenon DEF Lost, NoOpening, Fits
  <2> QED BY <2>1, Zenon DEF Inside
<1>4. ASSUME NEW n \in Nat, Astray(n) PROVE Inside'
  <2>1. Astray(n)'
    BY <1>4, Zenon DEF Astray, At, Left, Size
  <2> QED BY <2>1, Zenon DEF Inside
<1>5. ASSUME NEW k \in 1 .. Len(obj), NEW j, InKey(k, j) \/ InText(k, j) \/ InNumber(k, j)
      PROVE  /\ InKey(k, j) => InKey(k, j)'
             /\ InText(k, j) => InText(k, j)'
             /\ InNumber(k, j) => InNumber(k, j)'
  <2>1. Before(k) => Before(k)'
    BY ZenonT(60) DEF Before, Stored, Holds, Image, Prefix, pairs
  <2>2. Keyed(k) => Keyed(k)'
    BY <2>1, Zenon DEF Keyed, Image, Prefix, pairs
  <2>3. InKey(k, j) => InKey(k, j)'
    BY <2>1, Zenon DEF InKey, At, Left, Size, KeyAt, OpenAt, Prefix, Blank, pairs
  <2>4. InText(k, j) => InText(k, j)'
    BY <2>2, Zenon DEF InText, At, Left, Size, TextAt, ValueAt, ColonAt, KeyAt, OpenAt, Prefix, pairs
  <2>5. InNumber(k, j) => InNumber(k, j)'
    BY <2>2, Zenon DEF InNumber, At, Left, Size, ValueAt, ColonAt, KeyAt, OpenAt, Prefix, pairs
  <2> QED BY <2>3, <2>4, <2>5
<1> QED BY <1>1, <1>2, <1>3, <1>4, <1>5, Zenon DEF Inside

\* What a white space does in each state.
LEMMA BlankFeed ==
  ASSUME ujson_feed(Sp)
  PROVE  /\ st \in {"start", "wait_dq_start", "wait_colon", "wait_dq_value", "wait_comma_or_end"}
              => UNCHANGED <<st, pairs>>
         /\ st \in {"read_key", "read_value"} => st' = st \/ Reject
<1>1. Sp # Comma /\ Sp # Close /\ Sp # Colon /\ Sp # Open /\ Sp # Dq
  BY Bytes, Zenon DEF Sp
<1>2. ~OpensNumber(Sp) /\ ujson_is_ws(Sp)
  BY Bytes, NumberBytes, Zenon DEF Sp
<1>3. CASE st = "start"
  <2>1. FeedStart(Sp)
    BY <1>3, Dispatch
  <2>2. st' = "start" /\ UNCHANGED pairs
    BY <1>1, <2>1, Zenon DEF FeedStart, Accept, Open
  <2> QED BY <1>3, <2>2, Zenon
<1>4. CASE st = "wait_dq_start"
  BY <1>1, <1>2, <1>4, Dispatch, Zenon DEF FeedKeyQuote, OpensKey, Accept, Dq
<1>5. CASE st = "wait_colon"
  BY <1>1, <1>2, <1>5, Dispatch, Zenon DEF FeedColon, Accept, Colon
<1>6. CASE st = "wait_dq_value"
  BY <1>1, <1>2, <1>6, Dispatch, Zenon DEF FeedValueStart, Accept, Dq
<1>7. CASE st = "wait_comma_or_end"
  BY <1>1, <1>2, <1>7, Dispatch, Zenon DEF FeedCommaOrEnd, Accept, Comma, Close
<1>8. ASSUME st \in {"read_key", "read_value"} PROVE st' = st \/ Reject
  BY <1>1, <1>8, Swallowed
<1>9. st \in {"start", "wait_dq_start", "wait_colon", "wait_dq_value", "wait_comma_or_end"}
        => UNCHANGED <<st, pairs>>
  BY <1>3, <1>4, <1>5, <1>6, <1>7, Zenon
<1> QED BY <1>8, <1>9, Zenon

\* White space between the parts of an object does no harm.
LEMMA InsideGap ==
  ASSUME Steady, obj \in Object, Inside, Head(todo).gap, ujson_feed(Sp), UNCHANGED line
  PROVE  event' = NONE /\ Inside'
<1>0. event' = NONE /\ UNCHANGED <<obj, todo, suspect>>
  BY BlankByte, Zenon DEF line
<1>1. st \in State
  BY DEF Steady, IInv, SlotTypes
<1>2. CASE st \in {"start", "wait_dq_start", "wait_colon", "wait_dq_value", "wait_comma_or_end"}
  <2>1. UNCHANGED <<st, pairs, obj, todo, suspect>>
    BY <1>0, <1>2, BlankFeed
  <2> QED BY <1>0, <2>1, Unmoved
<1>3. CASE st = "read_value_int"
  <2>1. Astray(0) \/ \E k \in 1 .. Len(obj) : \E j \in 0 .. Len(obj[k].text) : InNumber(k, j)
    BY <1>3, Zenon DEF Inside, Ahead, Empty, Lost, Astray, Ready, AtColon, AtValue, Closed, InKey, InText
  <2>2. CASE Astray(0)
    <3>1. Astray(0)'
      BY <1>0, <1>3, <2>2, Zenon DEF Astray, At, Left, Size
    <3>2. 0 \in Nat
      OBVIOUS
    <3> QED BY <1>0, <3>1, <3>2, Zenon DEF Inside
  <2>3. ASSUME NEW k \in 1 .. Len(obj), NEW j \in 0 .. Len(obj[k].text), InNumber(k, j)
        PROVE  Inside'
    <3>1. Closed(k)'
      BY <2>3, GapInNumber
    <3> QED BY <1>0, <3>1, Zenon DEF Inside
  <2> QED BY <1>0, <2>1, <2>2, <2>3
<1>4. CASE st \in {"read_key", "read_value"}
  <2>0. 0 \in Nat /\ 1 \in Nat /\ 1 >= 1
    OBVIOUS
  <2>1. st' = st \/ Reject
    BY <1>4, BlankFeed
  <2>2. \/ suspect /\ At(0)
        \/ suspect /\ At(1)
        \/ \E k \in 1 .. Len(obj) : \/ \E j \in 0 .. Len(obj[k].key) : InKey(k, j)
                                    \/ \E j \in 0 .. Len(obj[k].text) : InText(k, j)
    BY <1>4, Zenon DEF Inside, Ahead, Empty, Lost, Astray, Ready, AtColon, AtValue, Closed, InNumber
  <2>3. CASE suspect /\ At(0)
    <3>1. Astray(0)'
      BY <1>0, <2>3, Zenon DEF Astray, At, Left, Size
    <3> QED BY <1>0, <2>0, <3>1, Zenon DEF Inside
  <2>4. CASE suspect /\ At(1) /\ st' = st
    <3>1. Astray(1)'
      BY <1>0, <1>4, <2>4, Zenon DEF Astray, At, Left, Size
    <3> QED BY <1>0, <2>0, <3>1, Zenon DEF Inside
  <2>5. CASE suspect /\ At(1) /\ Reject
    <3>1. st' = "start"
      BY <2>5 DEF Reject, Reset
    <3>2. NoOpening(todo)
      BY <2>0, <2>5, LeftNoOpening DEF At
    <3>3. Lost'
      BY <1>0, <2>5, <3>1, <3>2, Zenon DEF Lost, NoOpening
    <3> QED BY <1>0, <3>3, Zenon DEF Inside
  <2>6. ASSUME NEW k \in 1 .. Len(obj), NEW j \in 0 .. Len(obj[k].key), InKey(k, j) PROVE FALSE
    <3>1. Head(todo) = Nth(obj, KeyAt(obj, k) + j)
      BY <2>6, LineOrder, LeftStep, Zenon DEF InKey, At
    <3>2. j = Len(obj[k].key) \/ j \in 0 .. Len(obj[k].key) - 1
      BY LineKey
    <3>3. \E b : Nth(obj, KeyAt(obj, k) + j) = C(b, FALSE)
      BY <3>2, LineKey, Zenon
    <3> QED BY <3>1, <3>3 DEF C
  <2>7. ASSUME NEW k \in 1 .. Len(obj), NEW j \in 0 .. Len(obj[k].text), InText(k, j) PROVE FALSE
    <3>1. obj[k].number = NONE
      BY <2>7 DEF InText
    <3>2. Head(todo) = Nth(obj, TextAt(obj, k) + j)
      BY <2>7, <3>1, LineOrder, LeftStep, Zenon DEF InText, At
    <3>3. j = Len(obj[k].text) \/ j \in 0 .. Len(obj[k].text) - 1
      BY <3>1, LineText
    <3>4. \E b : Nth(obj, TextAt(obj, k) + j) = C(b, FALSE)
      BY <3>1, <3>3, LineText, Zenon
    <3> QED BY <3>2, <3>4 DEF C
  <2> QED BY <1>0, <2>1, <2>2, <2>3, <2>4, <2>5, <2>6, <2>7
<1> QED BY <1>1, <1>2, <1>3, <1>4 DEF State
\* While the parser is inside an object, there is more of it.
LEMMA InsideHasMore == obj \in Object /\ Inside => todo # <<>> \/ Lost
<1> SUFFICES ASSUME obj \in Object, Inside, ~Lost PROVE todo # <<>>
  OBVIOUS
<1>1. PICK n \in Nat : n < Size(obj) /\ At(n)
  BY InsideIsMidway, Zenon DEF Midway
<1> QED BY <1>1, LeftIs DEF At

-----------------------------------------------------------------------------
\* The line.

\* The invariant of the line: where the parser is while an object is on it, and
\* what it was left with between objects.
StreamInv ==
  /\ Steady
  /\ phase \in {"idle", "sending", "sent", "cut"}
  /\ phase = "sending" => /\ obj \in Object /\ todo # <<>> /\ todo \in Seq(Anything)
                          /\ event = NONE /\ Inside
  /\ phase \in {"idle", "sent"} => st = "start" \/ (suspect /\ obj = <<>>)
  /\ event # NONE => phase = "sent" /\ event.pairs = obj
  /\ phase = "sent" /\ ~suspect => (event # NONE <=> Fits(obj))

\* Nothing but a closing brace completes an object.
LEMMA NoiseByte ==
  ASSUME NEW b, b # Close, ujson_feed(b)
  PROVE  event' = NONE
<1>1. ASSUME Reject PROVE event' = NONE
  BY <1>1 DEF Reject
<1>2. ASSUME NEW s, Accept(b, s) PROVE event' = NONE
  BY <1>2 DEF Accept
<1> QED BY <1>1, <1>2, Zenon
       DEF Close, ujson_feed, FeedStart, FeedKeyQuote, FeedKey, FeedColon, FeedValueStart,
           FeedValue, FeedNumber, FeedCommaOrEnd

\* What does not touch the parser leaves its slots as they are.
LEMMA SteadyKept ==
  ASSUME Steady, UNCHANGED <<st, pairs, msg_ptr, msg, on_message, ret>>
  PROVE  Steady'
<1>1. IInv'
  BY DEF Steady, IInv, SlotTypes, SlotReserved, PairOpen, SlotsTerminated, NothingStale, pairs
<1>2. NumberTable'
  BY Zenon DEF Steady, NumberTable, pairs
<1> QED BY <1>1, <1>2 DEF Steady, pairs

\* The line begins with a parser at rest.
LEMMA StreamInitInv == StreamInit => StreamInv
<1> SUFFICES ASSUME StreamInit PROVE StreamInv
  OBVIOUS
<1>1. IInv /\ NumberTable
  BY InitIInv DEF StreamInit
<1>2. st = "start" /\ pair_count = 0 /\ event = NONE /\ on_message = TRUE /\ phase = "idle"
  BY DEF StreamInit, Init
<1> QED BY <1>1, <1>2 DEF StreamInv, Steady

\* An object begins: the parser is ahead of it, or was left astray by a cut.
LEMMA BeginInv ==
  ASSUME StreamInv, NEW o \in Object, Begin(o)
  PROVE  StreamInv'
<1>1. /\ obj' = o /\ todo' = Render(o) /\ phase' = "sending" /\ phase # "sending"
      /\ suspect' = (phase = "cut" \/ (suspect /\ obj = <<>>)) /\ event' = NONE
      /\ UNCHANGED <<st, pairs, msg_ptr, msg, on_message, ret>>
  BY Zenon DEF Begin
<1>2. Steady'
  BY <1>1, SteadyKept DEF StreamInv
<1>3. 0 \in Nat /\ 0 < Size(o)
  <2>1. \A n \in Nat : n >= 2 => 0 < n
    OBVIOUS
  <2> QED BY <2>1, RenderIs
<1>4. todo' = Left(o, 0) /\ todo' # <<>> /\ todo' \in Seq(Anything)
  BY <1>1, <1>3, LeftIs
<1>5. At(0)'
  BY <1>1, <1>4, Zenon DEF At, Left, Size
<1>6. CASE st = "start"
  <2>1. Ahead'
    BY <1>1, <1>5, <1>6, Zenon DEF Ahead
  <2>2. Inside'
    BY <2>1, Zenon DEF Inside
  <2> QED BY <1>1, <1>2, <1>4, <2>2, Zenon DEF StreamInv
<1>7. CASE st # "start"
  <2>1. suspect'
    BY <1>1, <1>7 DEF StreamInv
  <2>2. Astray(0)'
    BY <1>5, <2>1, Zenon DEF Astray
  <2>3. Inside'
    BY <1>3, <2>2, Zenon DEF Inside
  <2> QED BY <1>1, <1>2, <1>4, <2>3, Zenon DEF StreamInv
<1> QED BY <1>6, <1>7

\* A byte of an object arrives.
LEMMA SendInv ==
  ASSUME StreamInv, Send
  PROVE  StreamInv'
<1>1. /\ phase = "sending" /\ obj \in Object /\ todo # <<>> /\ todo \in Seq(Anything) /\ Inside /\ Steady
      /\ ujson_feed(Head(todo).b) /\ todo' = Tail(todo) /\ UNCHANGED <<obj, suspect>>
      /\ phase' = IF todo' = <<>> THEN "sent" ELSE "sending"
  BY Zenon DEF StreamInv, Send
<1>2. Steady'
  <2>1. Head(todo) \in Anything
    BY <1>1
  <2>2. Head(todo).b \in Byte
    BY <2>1 DEF Anything
  <2> QED BY <1>1, <2>2, SteadyStep
<1>3. todo' \in Seq(Anything)
  BY <1>1, HeadTailProperties
<1>4. \/ event' = NONE /\ Inside'
      \/ event' = NONE /\ suspect /\ obj = <<>> /\ todo' = <<>>
      \/ Delivery' /\ todo' = <<>>
  BY <1>1, InsideSend
<1>5. CASE todo' # <<>>
  <2>1. event' = NONE /\ Inside' /\ phase' = "sending"
    BY <1>1, <1>4, <1>5, Zenon
  <2> QED BY <1>1, <1>2, <1>3, <1>5, <2>1, Zenon DEF StreamInv
<1>6. CASE todo' = <<>>
  <2>1. phase' = "sent"
    BY <1>1, <1>6
  <2>2. CASE event' = NONE /\ Inside'
    <3>1. Lost'
      <4>1. obj' \in Object
        BY <1>1
      <4>2. (obj \in Object /\ Inside => todo # <<>> \/ Lost)'
        BY InsideHasMore, PTL
      <4> QED BY <1>6, <2>2, <4>1, <4>2, Zenon
    <3>2. st' = "start" /\ (~suspect' => ~Fits(obj)')
      BY <3>1, Zenon DEF Lost
    <3> QED BY <1>2, <2>1, <2>2, <3>2, Zenon DEF StreamInv
  <2>3. CASE event' = NONE /\ suspect /\ obj = <<>>
    <3>1. suspect' /\ obj' = <<>>
      BY <1>1, <2>3
    <3> QED BY <1>2, <2>1, <2>3, <3>1, Zenon DEF StreamInv
  <2>4. CASE Delivery'
    <3>1. event' # NONE /\ event'.pairs = obj' /\ st' = "start" /\ Fits(obj)'
      BY <2>4, Zenon DEF Delivery
    <3> QED BY <1>2, <2>1, <3>1, Zenon DEF StreamInv
  <2> QED BY <1>4, <2>2, <2>3, <2>4
<1> QED BY <1>5, <1>6

\* A white space arrives inside an object.
LEMMA GapInv ==
  ASSUME StreamInv, Gap
  PROVE  StreamInv'
<1>1. /\ phase = "sending" /\ obj \in Object /\ Inside /\ Steady /\ Head(todo).gap
      /\ todo # <<>> /\ todo \in Seq(Anything) /\ ujson_feed(Sp) /\ UNCHANGED line
  BY Zenon DEF StreamInv, Gap, Sp
<1>2. Steady'
  <2>1. Sp \in Byte
    BY Bytes, Zenon DEF Sp
  <2> QED BY <1>1, <2>1, SteadyStep
<1>3. event' = NONE /\ Inside'
  BY <1>1, InsideGap
<1> QED BY <1>1, <1>2, <1>3, Zenon DEF StreamInv, line

\* The rest of an object is lost.
LEMMA CutInv ==
  ASSUME StreamInv, Cut
  PROVE  StreamInv'
<1>1. phase' = "cut" /\ event' = NONE /\ UNCHANGED <<st, pairs, msg_ptr, msg, on_message, ret>>
  BY Zenon DEF Cut
<1>2. Steady'
  BY <1>1, SteadyKept DEF StreamInv
<1> QED BY <1>1, <1>2 DEF StreamInv

\* Noise between objects.
LEMMA HissInv ==
  ASSUME StreamInv, Hiss
  PROVE  StreamInv'
<1>1. PICK b \in Noise : ujson_feed(b)
  BY DEF Hiss
<1>2. /\ phase # "sending" /\ phase' = (IF phase = "sent" THEN "idle" ELSE phase)
      /\ UNCHANGED <<obj, todo, suspect>>
  BY Zenon DEF Hiss
<1>3. b \in Byte /\ b # Open /\ b # Close
  BY StreamAssumption, Zenon DEF Open, Close
<1>4. Steady'
  BY <1>1, <1>3, SteadyStep DEF StreamInv
<1>5. event' = NONE
  BY <1>1, <1>3, NoiseByte
<1>6. st = "start" => st' = "start"
  <2>1. ASSUME st = "start" PROVE st' = "start"
    <3>1. FeedStart(b)
      BY <1>1, <2>1, Dispatch
    <3> QED BY <1>3, <3>1, Zenon DEF FeedStart, Accept, Open
  <2> QED BY <2>1
<1>7. phase' \in {"idle", "cut"} /\ (phase' = "idle" => phase \in {"idle", "sent"})
  BY <1>2 DEF StreamInv
<1>8. phase' = "idle" => st' = "start" \/ (suspect' /\ obj' = <<>>)
  BY <1>2, <1>6, <1>7, Zenon DEF StreamInv
<1> QED BY <1>4, <1>5, <1>7, <1>8 DEF StreamInv

\* Every step of the line keeps the invariant.
LEMMA StreamNextInv == StreamInv /\ [StreamNext]_<<vars, line>> => StreamInv'
<1> SUFFICES ASSUME StreamInv, [StreamNext]_<<vars, line>> PROVE StreamInv'
  OBVIOUS
<1>1. CASE \E o \in Object : Begin(o)
  BY <1>1, BeginInv
<1>2. CASE Send
  BY <1>2, SendInv
<1>3. CASE Gap
  BY <1>3, GapInv
<1>4. CASE Cut
  BY <1>4, CutInv
<1>5. CASE Hiss
  BY <1>5, HissInv
<1>6. CASE UNCHANGED <<vars, line>>
  <2>1. UNCHANGED <<st, pairs, msg_ptr, msg, on_message, ret>> /\ UNCHANGED <<event, obj, todo, phase, suspect>>
    BY <1>6, Zenon DEF vars, line
  <2>2. Steady'
    BY <2>1, SteadyKept DEF StreamInv
  <2>3. Inside => Inside'
    BY <2>1, Unmoved
  <2> QED BY <2>1, <2>2, <2>3, Zenon DEF StreamInv, Fits
<1> QED BY <1>1, <1>2, <1>3, <1>4, <1>5, <1>6, Zenon DEF StreamNext

\* So every reachable state has it.
LEMMA StreamInvariance == StreamSpec => []StreamInv
  BY StreamInitInv, StreamNextInv, PTL DEF StreamSpec

\* NoPhantom, for every object, noise and size: the callback is shown the object
\* that was sent last, all of it and nothing else, whatever the line dropped.
THEOREM PhantomTheorem == StreamSpec => []NoPhantom
<1>1. StreamInv => NoPhantom
  BY Zenon DEF StreamInv, NoPhantom
<1> QED BY <1>1, StreamInvariance, PTL

\* LossIsBounded, for every object, noise and size: what fits is delivered, and
\* a cut costs no more than the object it cut and the one after it.
THEOREM LossTheorem == StreamSpec => []LossIsBounded
<1>1. StreamInv => LossIsBounded
  BY Zenon DEF StreamInv, LossIsBounded
<1> QED BY <1>1, StreamInvariance, PTL
=============================================================================
