-------------------------- MODULE ByteQueueProofs --------------------------
(***************************************************************************)
(* The ring buffer for every buffer length, capacity and byte set: its     *)
(* cursors stay consistent, it writes free slots only, and it implements   *)
(* the bounded FIFO queue of ByteFifo.  And the queue between threads and  *)
(* interrupts, for any number of callers: under their critical section the *)
(* loads and stores of byte_queue.c implement that FIFO queue too.         *)
(***************************************************************************)
EXTENDS ByteQueueShared, SequenceTheorems, TLAPS

(***************************************************************************)
(* Arithmetic of a ring of c slots.                                        *)
(***************************************************************************)

\* Advancing the write cursor is counting one more byte.
LEMMA PutSlot ==
  ASSUME NEW c \in Nat \ {0}, NEW t \in 0 .. c - 1, NEW n \in 0 .. c - 1
  PROVE  (((t + n) % c) + 1) % c = (t + (n + 1)) % c
<1>1. (t + n) % c = IF t + n < c THEN t + n ELSE t + n - c
  OBVIOUS
<1>2. (t + (n + 1)) % c = IF t + (n + 1) < c THEN t + (n + 1) ELSE t + (n + 1) - c
  OBVIOUS
<1> DEFINE h == (t + n) % c
<1>3. h \in 0 .. c - 1
  BY <1>1
<1> HIDE DEF h
<1>4. (h + 1) % c = IF h + 1 < c THEN h + 1 ELSE h + 1 - c
  BY <1>3
<1> QED BY <1>1, <1>2, <1>4 DEF h

\* Advancing the read cursor by one renumbers the bytes by one.
LEMMA GetSlot ==
  ASSUME NEW c \in Nat \ {0}, NEW t \in 0 .. c - 1, NEW n \in 1 .. c
  PROVE  (((t + 1) % c) + (n - 1)) % c = (t + n) % c
<1> DEFINE h == (t + 1) % c
<1>1. h = IF t + 1 < c THEN t + 1 ELSE t + 1 - c
  OBVIOUS
<1>2. (t + n) % c = IF t + n < c THEN t + n ELSE t + n - c
  OBVIOUS
<1>3. h \in 0 .. c - 1
  BY <1>1
<1> HIDE DEF h
<1>4. (h + (n - 1)) % c = IF h + (n - 1) < c THEN h + (n - 1) ELSE h + (n - 1) - c
  BY <1>3
<1> QED BY <1>1, <1>2, <1>3, <1>4 DEF h

\* The bytes of a queue that is not over-full lie in different slots.
LEMMA SlotsDiffer ==
  ASSUME NEW c \in Nat \ {0}, NEW t \in 0 .. c - 1,
         NEW i \in 0 .. c - 1, NEW j \in 0 .. c - 1, (t + i) % c = (t + j) % c
  PROVE  i = j
<1>1. (t + i) % c = IF t + i < c THEN t + i ELSE t + i - c
  OBVIOUS
<1>2. (t + j) % c = IF t + j < c THEN t + j ELSE t + j - c
  OBVIOUS
<1> QED BY <1>1, <1>2

(***************************************************************************)
(* The inductive invariant: TypeOK and RingConsistent, and that a null     *)
(* queue is empty, without which Queued would read a null buffer.          *)
(***************************************************************************)
NullIsEmpty == data = NULL => count = 0

IInv == TypeOK /\ RingConsistent /\ NullIsEmpty

\* In a queue that has just been emptied, both cursors are at slot 0.
LEMMA EmptySlot ==
  ASSUME NEW c \in Nat \ {0}
  PROVE  (0 + 0) % c = 0
  OBVIOUS

\* A queue that bq_init has just set up satisfies the invariant.
LEMMA InitIInv == Init => IInv
<1> SUFFICES ASSUME Init PROVE IInv
  OBVIOUS
<1>1. 0 \in Slot /\ Size \in Nat
  BY ByteQueueAssumption DEF Slot
<1>2. TypeOK
  BY <1>1 DEF Init, TypeOK
<1>3. RingConsistent
  BY <1>1, EmptySlot DEF Init, RingConsistent, SlotOf
<1> QED BY <1>2, <1>3 DEF IInv, Init, NullIsEmpty

\* What a put that is not refused does.
LEMMA PutStep ==
  ASSUME IInv, NEW v \in Byte, bq_put(v), ~(data = NULL \/ capacity = 0 \/ bq_is_full)
  PROVE  /\ data \in Buffer /\ capacity \in 1 .. Size
         /\ count \in 0 .. capacity - 1 /\ tail \in 0 .. capacity - 1
         /\ head = SlotOf(count) /\ head \in 0 .. capacity - 1
         /\ mem' = [mem EXCEPT ![data][head] = v]
         /\ head' = NextSlot(head) /\ count' = count + 1 /\ ret' = 1 /\ given' = v
         /\ UNCHANGED <<data, capacity, tail, wanted, out>>
<1>1. /\ data \in Buffer /\ capacity \in 1 .. Size
      /\ count \in 0 .. capacity - 1 /\ tail \in 0 .. capacity - 1
      /\ head = SlotOf(count)
  BY ByteQueueAssumption DEF IInv, TypeOK, RingConsistent, Slot, bq_is_full
<1>2. SlotOf(count) \in 0 .. capacity - 1
  BY <1>1, ByteQueueAssumption DEF SlotOf
<1> QED BY <1>1, <1>2 DEF bq_put

\* What a get that is not refused does.
LEMMA GetStep ==
  ASSUME IInv, NEW asked \in BOOLEAN, bq_get(asked), ~(data = NULL \/ bq_is_empty)
  PROVE  /\ data \in Buffer /\ capacity \in 1 .. Size
         /\ count \in 1 .. capacity /\ tail \in 0 .. capacity - 1
         /\ head = SlotOf(count)
         /\ out' = IF asked THEN mem[data][tail] ELSE out
         /\ tail' = NextSlot(tail) /\ NextSlot(tail) \in 0 .. capacity - 1
         /\ count' = count - 1 /\ ret' = 1 /\ wanted' = asked
         /\ UNCHANGED <<mem, data, capacity, head, given>>
<1>1. /\ data \in Buffer /\ capacity \in 1 .. Size
      /\ count \in 1 .. capacity /\ tail \in 0 .. capacity - 1
      /\ head = SlotOf(count)
  BY ByteQueueAssumption DEF IInv, TypeOK, RingConsistent, Slot, bq_is_empty
<1>2. NextSlot(tail) \in 0 .. capacity - 1
  BY <1>1, ByteQueueAssumption DEF NextSlot
<1> QED BY <1>1, <1>2 DEF bq_get

\* Every call preserves the invariant.
LEMMA NextIInv == IInv /\ [Next]_vars => IInv'
<1> SUFFICES ASSUME IInv, [Next]_vars
             PROVE  IInv'
  OBVIOUS
<1>0. TypeOK /\ RingConsistent /\ NullIsEmpty
  BY DEF IInv
<1>1. ASSUME NEW buffer \in Buffer \cup {NULL}, NEW cap \in 0 .. Size, bq_init(buffer, cap)
      PROVE  IInv'
  <2>1. TypeOK'
    BY <1>0, <1>1, ByteQueueAssumption DEF TypeOK, Slot, bq_init, Empty, result
  <2>2. RingConsistent'
    BY <1>1, <2>1, EmptySlot, ByteQueueAssumption DEF bq_init, Empty, RingConsistent, SlotOf, TypeOK
  <2> QED BY <1>1, <2>1, <2>2 DEF IInv, NullIsEmpty, bq_init, Empty
<1>2. CASE bq_clear
  <2>1. TypeOK'
    BY <1>0, <1>2, ByteQueueAssumption DEF TypeOK, Slot, bq_clear, Empty, result
  <2>2. RingConsistent'
    BY <1>2, <2>1, EmptySlot, ByteQueueAssumption DEF bq_clear, Empty, RingConsistent, SlotOf, TypeOK
  <2> QED BY <1>2, <2>1, <2>2 DEF IInv, NullIsEmpty, bq_clear, Empty
<1>3. ASSUME NEW v \in Byte, bq_put(v)
      PROVE  IInv'
  <2>1. CASE data = NULL \/ capacity = 0 \/ bq_is_full
    BY <1>0, <1>3, <2>1
    DEF bq_put, queue, IInv, TypeOK, RingConsistent, NullIsEmpty, SlotOf
  <2>2. CASE ~(data = NULL \/ capacity = 0 \/ bq_is_full)
    <3>1. /\ data \in Buffer /\ capacity \in 1 .. Size
          /\ count \in 0 .. capacity - 1 /\ tail \in 0 .. capacity - 1
          /\ head = SlotOf(count) /\ head \in 0 .. capacity - 1
          /\ mem' = [mem EXCEPT ![data][head] = v]
          /\ head' = NextSlot(head) /\ count' = count + 1 /\ ret' = 1 /\ given' = v
          /\ UNCHANGED <<data, capacity, tail, wanted, out>>
      BY <1>3, <2>2, PutStep
    <3>2. NextSlot(head) \in 0 .. capacity - 1
      BY <3>1, ByteQueueAssumption DEF NextSlot
    <3>3. (((tail + count) % capacity) + 1) % capacity = (tail + (count + 1)) % capacity
      BY <3>1, ByteQueueAssumption, PutSlot
    <3>4. head' = SlotOf(count)'
      BY <3>1, <3>3, Zenon DEF SlotOf, NextSlot
    <3>5. TypeOK'
      BY <1>0, <3>1, <3>2, ByteQueueAssumption DEF TypeOK, Slot
    <3>6. RingConsistent'
      BY <3>1, <3>4, ByteQueueAssumption DEF RingConsistent
    <3> QED BY <3>1, <3>5, <3>6, ByteQueueAssumption DEF IInv, NullIsEmpty
  <2> QED BY <2>1, <2>2
<1>4. ASSUME NEW asked \in BOOLEAN, bq_get(asked)
      PROVE  IInv'
  <2>1. CASE data = NULL \/ bq_is_empty
    BY <1>0, <1>4, <2>1
    DEF bq_get, queue, IInv, TypeOK, RingConsistent, NullIsEmpty, SlotOf
  <2>2. CASE ~(data = NULL \/ bq_is_empty)
    <3>1. /\ data \in Buffer /\ capacity \in 1 .. Size
          /\ count \in 1 .. capacity /\ tail \in 0 .. capacity - 1
          /\ head = SlotOf(count)
          /\ out' = IF asked THEN mem[data][tail] ELSE out
          /\ tail' = NextSlot(tail) /\ NextSlot(tail) \in 0 .. capacity - 1
          /\ count' = count - 1 /\ ret' = 1 /\ wanted' = asked
          /\ UNCHANGED <<mem, data, capacity, head, given>>
      BY <1>4, <2>2, GetStep
    <3>2. (((tail + 1) % capacity) + (count - 1)) % capacity = (tail + count) % capacity
      <4>1. capacity \in Nat \ {0} /\ tail \in 0 .. capacity - 1 /\ count \in 1 .. capacity
        BY <3>1, ByteQueueAssumption
      <4> QED BY <4>1, GetSlot
    <3>3. head' = SlotOf(count)'
      BY <3>1, <3>2, Zenon DEF SlotOf, NextSlot
    <3>4. TypeOK'
      BY <1>0, <3>1, ByteQueueAssumption DEF TypeOK, Slot
    <3>5. RingConsistent'
      BY <3>1, <3>3, ByteQueueAssumption DEF RingConsistent
    <3> QED BY <3>1, <3>4, <3>5, ByteQueueAssumption DEF IInv, NullIsEmpty
  <2> QED BY <2>1, <2>2
<1>5. CASE UNCHANGED vars
  BY <1>0, <1>5 DEF vars, queue, result, IInv, TypeOK, RingConsistent, NullIsEmpty, SlotOf
<1> QED BY <1>1, <1>2, <1>3, <1>4, <1>5 DEF Next

\* The cursors and the count stay in the attached buffer, and the buffers hold
\* bytes, after every series of calls (byte_queue.c:6-69).
THEOREM TypeTheorem == Spec => []TypeOK
<1>1. IInv => TypeOK
  BY DEF IInv
<1> QED BY <1>1, InitIInv, NextIInv, PTL DEF Spec

\* In every state the cursors index the buffer and agree with the count.
THEOREM RingTheorem == Spec => [](TypeOK /\ RingConsistent)
<1>1. Spec => []IInv
  BY InitIInv, NextIInv, PTL DEF Spec
<1> QED BY <1>1, PTL DEF IInv

\* Only bq_put writes, and the slot it writes is not one of the live ones.
THEOREM WriteTheorem == Spec => WritesOnlyFreeSlots
<1> DEFINE Frame == \A b \in Buffer, i \in Slot :
                      mem'[b][i] # mem[b][i] => b = data /\ i < capacity /\ i \notin LiveSlots
<1>1. IInv /\ [Next]_vars => [Frame]_vars
  <2> SUFFICES ASSUME IInv, Next PROVE Frame
    OBVIOUS
  <2>1. CASE UNCHANGED mem
    BY <2>1
  <2>2. ASSUME NEW v \in Byte, bq_put(v), ~(data = NULL \/ capacity = 0 \/ bq_is_full)
        PROVE  Frame
    <3>1. /\ data \in Buffer /\ capacity \in Nat \ {0}
          /\ count \in 0 .. capacity - 1 /\ tail \in 0 .. capacity - 1
          /\ head = SlotOf(count) /\ head \in 0 .. capacity - 1
          /\ mem' = [mem EXCEPT ![data][head] = v]
      BY <2>2, PutStep, ByteQueueAssumption
    <3>2. mem \in [Buffer -> [Slot -> Byte]]
      BY DEF IInv, TypeOK
    <3>3. ASSUME NEW k \in 0 .. count - 1, head = SlotOf(k)
          PROVE  FALSE
      <4>1. (tail + k) % capacity = (tail + count) % capacity
        BY <3>1, <3>3, Zenon DEF SlotOf
      <4>2. k \in 0 .. capacity - 1
        BY <3>1
      <4>3. k = count
        BY <3>1, <4>1, <4>2, SlotsDiffer
      <4> QED BY <3>1, <4>3
    <3>4. head \notin LiveSlots
      BY <3>3 DEF LiveSlots
    <3>5. ASSUME NEW b \in Buffer, NEW i \in Slot, mem'[b][i] # mem[b][i]
          PROVE  b = data /\ i = head
      BY <3>1, <3>2, <3>5
    <3> QED BY <3>1, <3>4, <3>5
  <2> QED BY <2>1, <2>2 DEF Next, bq_init, bq_clear, bq_put, bq_get
<1>2. Spec => []IInv
  BY InitIInv, NextIInv, PTL DEF Spec
<1> QED BY <1>1, <1>2, PTL DEF Spec, WritesOnlyFreeSlots

(***************************************************************************)
(* The refinement: each call is the abstract call on the queued bytes.     *)
(***************************************************************************)

\* Intervals from 1 are equal only if their upper bounds are.
LEMMA SameInterval ==
  ASSUME NEW m \in Nat, NEW n \in Nat, 1 .. m = 1 .. n
  PROVE  m = n
<1>1. (m = 0 \/ m \in 1 .. m) /\ (n = 0 \/ n \in 1 .. n)
  OBVIOUS
<1>2. (m = 0 \/ m \in 1 .. n) /\ (n = 0 \/ n \in 1 .. m)
  BY <1>1
<1> QED BY <1>2

QueuedIsASeq == /\ Queued \in Seq(Byte)
                /\ Len(Queued) = count
                /\ \A k \in 1 .. count : Queued[k] = mem[data][SlotOf(k - 1)]

\* The queued bytes form a sequence of length count.
LEMMA QueuedIsASequence == IInv => QueuedIsASeq
<1> SUFFICES ASSUME IInv PROVE QueuedIsASeq
  OBVIOUS
<1>1. count \in Nat
  BY DEF IInv, TypeOK
<1>2. ASSUME NEW k \in 1 .. count
      PROVE  mem[data][SlotOf(k - 1)] \in Byte
  <2>1. /\ data \in Buffer /\ capacity \in Nat \ {0} /\ capacity <= Size
        /\ tail \in 0 .. capacity - 1 /\ mem \in [Buffer -> [Slot -> Byte]]
    BY <1>1, <1>2, ByteQueueAssumption DEF IInv, TypeOK, RingConsistent, NullIsEmpty, Slot
  <2>2. SlotOf(k - 1) \in Slot
    BY <1>1, <2>1, ByteQueueAssumption DEF SlotOf, Slot
  <2> QED BY <2>1, <2>2
<1>3. Queued \in [1 .. count -> Byte]
  BY <1>2 DEF Queued
<1>4. Queued \in Seq(Byte)
  BY <1>1, <1>3, SeqDef
<1>5. Len(Queued) = count
  <2>1. /\ DOMAIN Queued = 1 .. Len(Queued)
        /\ Len(Queued) \in Nat
    BY <1>4, LenProperties
  <2>2. DOMAIN Queued = 1 .. count
    BY DEF Queued
  <2> QED BY <1>1, <2>1, <2>2, SameInterval
<1> QED BY <1>4, <1>5 DEF Queued, QueuedIsASeq

\* A fresh or cleared queue is the empty sequence.
LEMMA NoneQueued == IInv /\ count = 0 => Queued = <<>>
  BY QueuedIsASequence, EmptySeq DEF QueuedIsASeq

\* A queue that bq_init has just set up is an empty FIFO.
LEMMA InitRefines == Init => Fifo!Init
<1> SUFFICES ASSUME Init PROVE Fifo!Init
  OBVIOUS
<1>1. Queued = <<>>
  BY InitIInv, NoneQueued DEF Init
<1>2. UsableCapacity \in 0 .. Size
  BY ByteQueueAssumption DEF Init, UsableCapacity
<1> QED BY <1>1, <1>2 DEF Init, Fifo!Init

\* A put appends: the other bytes keep their slots and their contents.
LEMMA PutRefines ==
  ASSUME IInv, IInv', NEW v \in Byte, bq_put(v)
  PROVE  Fifo!Put(v) \/ Fifo!PutRefused
<1>1. /\ Queued \in Seq(Byte) /\ Len(Queued) = count
      /\ \A k \in 1 .. count : Queued[k] = mem[data][SlotOf(k - 1)]
  BY QueuedIsASequence DEF QueuedIsASeq
<1>2. CASE data = NULL \/ capacity = 0 \/ bq_is_full
  <2>1. count = UsableCapacity
    BY <1>2 DEF UsableCapacity, bq_is_full, IInv, TypeOK, RingConsistent, NullIsEmpty
  <2>2. UNCHANGED <<Queued, UsableCapacity, given, wanted, out>> /\ ret' = 0
    BY <1>2 DEF bq_put, queue, Queued, SlotOf, UsableCapacity
  <2> QED BY <1>1, <2>1, <2>2 DEF Fifo!PutRefused
<1>3. CASE ~(data = NULL \/ capacity = 0 \/ bq_is_full)
  <2>1. /\ data \in Buffer /\ capacity \in Nat \ {0}
        /\ count \in 0 .. capacity - 1 /\ tail \in 0 .. capacity - 1
        /\ head = SlotOf(count) /\ head \in Slot
        /\ mem' = [mem EXCEPT ![data][head] = v]
        /\ count' = count + 1 /\ ret' = 1 /\ given' = v
        /\ UNCHANGED <<data, capacity, tail, wanted, out>>
    BY <1>3, PutStep, ByteQueueAssumption DEF Slot
  <2>2. /\ Queued' \in Seq(Byte) /\ Len(Queued') = count'
        /\ \A k \in 1 .. count' : Queued'[k] = mem'[data'][SlotOf(k - 1)']
    <3>1. QueuedIsASeq'
      BY QueuedIsASequence, PTL
    <3> QED BY <3>1, Zenon DEF QueuedIsASeq
  <2>3. mem \in [Buffer -> [Slot -> Byte]]
    BY DEF IInv, TypeOK
  <2>4. ASSUME NEW k \in 1 .. count
        PROVE  Queued'[k] = Queued[k]
    <3>1. SlotOf(k - 1)' = SlotOf(k - 1)
      BY <2>1 DEF SlotOf
    <3>2. SlotOf(k - 1) # head
      <4>1. CASE SlotOf(k - 1) = head
        <5>1. (tail + (k - 1)) % capacity = (tail + count) % capacity
          BY <2>1, <4>1, Zenon DEF SlotOf
        <5>2. k - 1 \in 0 .. capacity - 1 /\ k - 1 # count
          BY <2>1
        <5> QED BY <2>1, <5>1, <5>2, SlotsDiffer
      <4> QED BY <4>1
    <3>3. SlotOf(k - 1) \in Slot
      BY <2>1, ByteQueueAssumption DEF SlotOf, Slot, IInv, TypeOK
    <3>4. k \in 1 .. count'
      BY <2>1
    <3> QED BY <1>1, <2>1, <2>2, <2>3, <3>1, <3>2, <3>3, <3>4
  <2>5. ASSUME NEW k \in Nat, k = count + 1
        PROVE  Queued'[k] = v
    <3>1. SlotOf(k - 1)' = head /\ k \in 1 .. count'
      <4>1. k - 1 = count
        BY <2>1, <2>5
      <4>2. SlotOf(k - 1)' = SlotOf(k - 1)
        BY <2>1 DEF SlotOf
      <4>3. SlotOf(k - 1) = SlotOf(count)
        BY <4>1
      <4> QED BY <2>1, <2>5, <4>2, <4>3
    <3>2. Queued'[k] = mem'[data][head]
      BY <2>1, <2>2, <3>1
    <3> QED BY <2>1, <2>3, <3>2
  <2>6. Queued' = Append(Queued, v)
    <3>1. /\ Append(Queued, v) \in Seq(Byte)
          /\ Len(Append(Queued, v)) = count + 1
          /\ \A k \in 1 .. count : Append(Queued, v)[k] = Queued[k]
          /\ Append(Queued, v)[count + 1] = v
      BY <1>1, AppendProperties
    <3>2. \A k \in 1 .. count + 1 : k \in 1 .. count \/ k = count + 1
      BY <2>1
    <3>3. \A k \in 1 .. Len(Queued') : Queued'[k] = Append(Queued, v)[k]
      BY <2>1, <2>2, <2>4, <2>5, <3>1, <3>2
    <3> QED BY <2>1, <2>2, <3>1, <3>3, SeqEqual
  <2>7. Len(Queued) < UsableCapacity /\ UNCHANGED UsableCapacity
    BY <1>1, <2>1, ByteQueueAssumption DEF UsableCapacity
  <2> QED BY <2>1, <2>6, <2>7 DEF Fifo!Put
<1> QED BY <1>2, <1>3

\* A get takes the head: every other byte moves one place up.
LEMMA GetRefines ==
  ASSUME IInv, IInv', NEW asked \in BOOLEAN, bq_get(asked)
  PROVE  Fifo!Get(asked) \/ Fifo!GetRefused
<1>1. /\ Queued \in Seq(Byte) /\ Len(Queued) = count
      /\ \A k \in 1 .. count : Queued[k] = mem[data][SlotOf(k - 1)]
  BY QueuedIsASequence DEF QueuedIsASeq
<1>2. CASE data = NULL \/ bq_is_empty
  <2>1. Queued = <<>>
    BY <1>2, NoneQueued DEF bq_is_empty, IInv, NullIsEmpty
  <2>2. UNCHANGED <<Queued, UsableCapacity, given, wanted, out>> /\ ret' = 0
    BY <1>2 DEF bq_get, queue, Queued, SlotOf, UsableCapacity
  <2> QED BY <2>1, <2>2 DEF Fifo!GetRefused
<1>3. CASE ~(data = NULL \/ bq_is_empty)
  <2>1. /\ data \in Buffer /\ capacity \in Nat \ {0}
        /\ count \in 1 .. capacity /\ tail \in 0 .. capacity - 1
        /\ out' = IF asked THEN mem[data][tail] ELSE out
        /\ tail' = NextSlot(tail)
        /\ count' = count - 1 /\ ret' = 1 /\ wanted' = asked
        /\ UNCHANGED <<mem, data, capacity, head, given>>
    BY <1>3, GetStep, ByteQueueAssumption
  <2>2. /\ Queued' \in Seq(Byte) /\ Len(Queued') = count'
        /\ \A k \in 1 .. count' : Queued'[k] = mem'[data'][SlotOf(k - 1)']
    <3>1. QueuedIsASeq'
      BY QueuedIsASequence, PTL
    <3> QED BY <3>1, Zenon DEF QueuedIsASeq
  <2>3. Queued # <<>>
    BY <1>1, <2>1, EmptySeq
  <2>4. Head(Queued) = mem[data][tail]
    <3>1. SlotOf(1 - 1) = tail
      BY <2>1 DEF SlotOf
    <3>2. Queued[1] = mem[data][tail]
      BY <1>1, <2>1, <3>1
    <3> QED BY <3>2
  <2>5. ASSUME NEW k \in 1 .. count'
        PROVE  Queued'[k] = Queued[k + 1]
    <3>1. (((tail + 1) % capacity) + (k - 1)) % capacity = (tail + k) % capacity
      BY <2>1, GetSlot
    <3>2. SlotOf(k - 1)' = (tail + k) % capacity
      BY <2>1, <3>1, Zenon DEF SlotOf, NextSlot
    <3>3. k + 1 \in 1 .. count /\ (k + 1) - 1 = k
      BY <2>1
    <3>4. SlotOf((k + 1) - 1) = (tail + k) % capacity
      BY <3>3, Zenon DEF SlotOf
    <3>5. Queued[k + 1] = mem[data][SlotOf((k + 1) - 1)]
      BY <1>1, <3>3, Zenon
    <3>6. Queued'[k] = mem[data][SlotOf(k - 1)']
      BY <2>1, <2>2, Zenon
    <3> QED BY <3>2, <3>4, <3>5, <3>6, Zenon
  <2>6. Queued' = Tail(Queued)
    <3>1. /\ Tail(Queued) \in Seq(Byte)
          /\ Len(Tail(Queued)) = count'
          /\ \A k \in 1 .. count' : Tail(Queued)[k] = Queued[k + 1]
      BY <1>1, <2>1, <2>3, HeadTailProperties
    <3>2. \A k \in 1 .. Len(Queued') : Queued'[k] = Tail(Queued)[k]
      BY <2>2, <2>5, <3>1
    <3> QED BY <2>2, <3>1, <3>2, SeqEqual
  <2>7. UNCHANGED UsableCapacity
    BY <2>1 DEF UsableCapacity
  <2> QED BY <2>1, <2>3, <2>4, <2>6, <2>7 DEF Fifo!Get
<1> QED BY <1>2, <1>3

\* The ring buffer implements the bounded FIFO queue.
THEOREM FifoTheorem == Spec => ImplementsFifo
<1>1. IInv /\ IInv' /\ [Next]_vars => [Fifo!Next]_Fifo!vars
  <2> SUFFICES ASSUME IInv, IInv', [Next]_vars
               PROVE  [Fifo!Next]_Fifo!vars
    OBVIOUS
  <2>1. ASSUME count' = 0
        PROVE  Queued' = <<>>
    <3>1. (IInv /\ count = 0 => Queued = <<>>)'
      BY NoneQueued, PTL
    <3> QED BY <2>1, <3>1
  <2>2. UsableCapacity' \in 0 .. Size
    BY ByteQueueAssumption DEF IInv, TypeOK, UsableCapacity
  <2>3. ASSUME NEW buffer \in Buffer \cup {NULL}, NEW cap \in 0 .. Size, bq_init(buffer, cap)
        PROVE  Fifo!Attach
    BY <2>1, <2>2, <2>3 DEF bq_init, Empty, result, Fifo!Attach
  <2>4. ASSUME bq_clear
        PROVE  Fifo!Clear
    BY <2>1, <2>4 DEF bq_clear, Empty, result, UsableCapacity, Fifo!Clear
  <2>5. ASSUME NEW v \in Byte, bq_put(v)
        PROVE  Fifo!Put(v) \/ Fifo!PutRefused
    BY <2>5, PutRefines
  <2>6. ASSUME NEW asked \in BOOLEAN, bq_get(asked)
        PROVE  Fifo!Get(asked) \/ Fifo!GetRefused
    BY <2>6, GetRefines
  <2>7. CASE UNCHANGED vars
    BY <2>7 DEF vars, queue, result, Fifo!vars, Queued, SlotOf, UsableCapacity
  <2> QED BY <2>3, <2>4, <2>5, <2>6, <2>7 DEF Next, Fifo!Next
<1>2. Spec => []IInv
  BY InitIInv, NextIInv, PTL DEF Spec
<1> QED BY <1>1, <1>2, InitRefines, PTL DEF Spec, ImplementsFifo, Fifo!Spec
-----------------------------------------------------------------------------
(***************************************************************************)
(* The inductive invariant.  Only the owner of the section is in a call,   *)
(* and what it has stored so far depends on where in the call it is.       *)
(***************************************************************************)
Stable == RingConsistent /\ NullIsEmpty

Room == data # NULL /\ count < capacity /\ tail < capacity
Some == data # NULL /\ count > 0 /\ count <= capacity

Copied(c, t) == byte[c] = NULL \/ byte[c] = mem[data][t]

Cohere(p, c) ==
  /\ p \in {"PutTest", "GetTest", "return", "PutByte", "PutHead", "GetByte", "GetTail"} => Stable
  /\ p \in Putting \cup {"PutTest"} => byte[c] \in Byte
  /\ p \in Putting => Room
  /\ p \in {"PutHead", "PutLoad", "PutStore"} => mem[data][SlotOf(count)] = byte[c]
  /\ p \in {"PutLoad", "PutStore"} => head = SlotOf(count + 1)
  /\ p \in {"PutStore", "GetStore"} => reg[c] = count
  /\ p \in Getting => Some
  /\ p \in {"GetTest", "GetByte"} => byte[c] = NULL
  /\ p = "GetTail" => Copied(c, tail)
  /\ p \in {"GetLoad", "GetStore"} => /\ tail = NextSlot(Back(tail))
                                      /\ head = (Back(tail) + count) % capacity
                                      /\ Copied(c, Back(tail))
  /\ p \in {"SetTail", "SetCount"} => head = 0
  /\ p = "SetCount" => tail = 0

LocalTypeOK == /\ section \in Caller \cup {FREE}
               /\ at \in [Caller -> Place]
               /\ reg \in [Caller -> Nat]
               /\ byte \in [Caller -> Byte \cup {NULL}]

OneInside == /\ section = FREE => Stable
             /\ \A c \in Caller : IF c = section THEN at[c] # "outside" /\ Cohere(at[c], c)
                                                 ELSE at[c] = "outside"

SharedInv == TypeOK /\ LocalTypeOK /\ OneInside

(***************************************************************************)
(* One caller's step.                                                      *)
(***************************************************************************)

\* A caller that is in a call owns the section.
LEMMA Acting ==
  ASSUME SharedInv, NEW c \in Caller, at[c] # "outside"
  PROVE  section = c /\ Cohere(at[c], c) /\ c # FREE
  BY SharedAssumption DEF SharedInv, OneInside

\* A step inside the section preserves the invariant if the place it leads
\* to is one where what is stored so far is what it should be.
LEMMA Moved ==
  ASSUME SharedInv, NEW c \in Caller, NEW from, NEW to \in Place \ {"outside"},
         Go(c, from, to), from # "outside", UNCHANGED section, TypeOK',
         reg' \in [Caller -> Nat], byte' \in [Caller -> Byte \cup {NULL}],
         Cohere(to, c)'
  PROVE  SharedInv'
<1>1. section = c /\ c # FREE
  BY Acting DEF Go
<1>2. at \in [Caller -> Place] /\ at' = [at EXCEPT ![c] = to]
  BY DEF SharedInv, LocalTypeOK, Go
<1>3. LocalTypeOK'
  BY <1>1, <1>2 DEF LocalTypeOK
<1>4. at'[c] = to /\ \A d \in Caller \ {c} : at'[d] = at[d]
  BY <1>2
<1>5. \A d \in Caller \ {c} : at[d] = "outside"
  BY <1>1 DEF SharedInv, OneInside
<1>6. Cohere(at[c], c)'
  BY <1>4
<1>7. OneInside'
  BY <1>1, <1>4, <1>5, <1>6 DEF OneInside
<1> QED BY <1>3, <1>7 DEF SharedInv

\* The invariant's types, at hand for each step.
LEMMA Types ==
  ASSUME SharedInv
  PROVE  /\ Size \in Nat \ {0} /\ NULL \notin Buffer
         /\ mem \in [Buffer -> [Slot -> Byte]] /\ data \in Buffer \cup {NULL}
         /\ capacity \in 0 .. Size /\ head \in Slot /\ tail \in Slot /\ count \in Nat
         /\ ret \in {0, 1} /\ given \in Byte /\ wanted \in BOOLEAN /\ out \in Byte
         /\ at \in [Caller -> Place] /\ reg \in [Caller -> Nat]
         /\ byte \in [Caller -> Byte \cup {NULL}]
  BY ByteQueueAssumption DEF SharedInv, TypeOK, LocalTypeOK

\* In a ring with a free slot the cursors index the capacity.
LEMMA RingSlots ==
  ASSUME SharedInv, Stable, data # NULL, capacity # 0
  PROVE  /\ capacity \in Nat \ {0} /\ capacity \in 1 .. Size /\ data \in Buffer
         /\ count \in 0 .. capacity
         /\ tail \in 0 .. capacity - 1 /\ head = SlotOf(count)
  BY Types DEF Stable, RingConsistent, Slot

\* Entering the section: the ring is as the last call left it.
LEMMA EnterInv ==
  ASSUME SharedInv, NEW c \in Caller, Enter(c)
  PROVE  SharedInv'
<1> PICK v \in Byte \cup {NULL}, call \in Call :
       /\ Go(c, "outside", call) /\ (v = NULL <=> call # "PutTest")
       /\ section' = c /\ byte' = [byte EXCEPT ![c] = v]
  BY DEF Enter, Start
<1>1. section = FREE /\ Stable /\ UNCHANGED <<vars, reg>>
  BY DEF Enter, Start, SharedInv, OneInside
<1>2. at' = [at EXCEPT ![c] = call] /\ call \in Place \ {"outside"}
  BY DEF Go, Call, Place, Empties
<1>3. \A d \in Caller : at[d] = "outside"
  BY <1>1, SharedAssumption DEF SharedInv, OneInside
<1>4. TypeOK'
  BY <1>1 DEF SharedInv, TypeOK, vars, queue, result
<1>5. LocalTypeOK'
  BY <1>1, <1>2 DEF SharedInv, LocalTypeOK
<1>6. Stable'
  BY <1>1 DEF Stable, RingConsistent, NullIsEmpty, SlotOf, vars, queue
<1>7. Cohere(call, c)'
  BY <1>6, Types, SharedAssumption DEF Cohere, Call, Putting, Getting
<1>8. OneInside'
  <2>1. c # FREE
    BY SharedAssumption
  <2>2. at'[c] = call /\ \A d \in Caller \ {c} : at'[d] = "outside"
    BY <1>2, <1>3, Types
  <2>3. Cohere(at[c], c)'
    BY <1>7, <2>2
  <2> QED BY <1>2, <2>1, <2>2, <2>3 DEF OneInside
<1> QED BY <1>4, <1>5, <1>8 DEF SharedInv

\* Leaving it: every call ends with the ring in agreement.
LEMMA LeaveInv ==
  ASSUME SharedInv, NEW c \in Caller, Leave(c)
  PROVE  SharedInv'
<1>1. section = c /\ Stable /\ at' = [at EXCEPT ![c] = "outside"] /\ UNCHANGED vars
  BY Acting DEF Leave, Go, Cohere
<1>2. TypeOK'
  BY <1>1 DEF SharedInv, TypeOK, vars, queue, result
<1>3. LocalTypeOK'
  BY Types DEF Leave, Go, LocalTypeOK, Place
<1>4. Stable'
  BY <1>1 DEF Stable, RingConsistent, NullIsEmpty, SlotOf, vars, queue
<1>5. \A d \in Caller : at'[d] = "outside"
  BY <1>1, Types DEF SharedInv, OneInside
<1>6. section' = FREE
  BY DEF Leave
<1>7. OneInside'
  BY <1>4, <1>5, <1>6, SharedAssumption DEF OneInside
<1> QED BY <1>2, <1>3, <1>7 DEF SharedInv

\* bq_init and bq_clear: the ring agrees again once all three are zero.
LEMMA EmptyingInv ==
  ASSUME SharedInv, NEW c \in Caller,
         SetData(c) \/ SetCapacity(c) \/ SetHead(c) \/ SetTail(c) \/ SetCount(c)
  PROVE  SharedInv'
<1>0. 0 \in Slot
  BY Types DEF Slot
<1>1. CASE SetData(c)
  <2>1. Cohere("SetCapacity", c)'
    BY DEF Cohere, Putting, Getting
  <2>2. TypeOK' /\ reg' \in [Caller -> Nat] /\ byte' \in [Caller -> Byte \cup {NULL}]
    BY <1>1, Types DEF SetData, TypeOK, result
  <2> QED BY <1>1, <2>1, <2>2, Moved DEF SetData, Place, Empties
<1>2. CASE SetCapacity(c)
  <2>1. Cohere("SetHead", c)'
    BY DEF Cohere, Putting, Getting
  <2>2. TypeOK' /\ reg' \in [Caller -> Nat] /\ byte' \in [Caller -> Byte \cup {NULL}]
    BY <1>2, Types DEF SetCapacity, TypeOK, result
  <2> QED BY <1>2, <2>1, <2>2, Moved DEF SetCapacity, Place, Empties
<1>3. CASE SetHead(c)
  <2>1. Cohere("SetTail", c)'
    BY <1>3 DEF SetHead, Cohere, Putting, Getting
  <2>2. TypeOK' /\ reg' \in [Caller -> Nat] /\ byte' \in [Caller -> Byte \cup {NULL}]
    BY <1>0, <1>3, Types DEF SetHead, TypeOK, result
  <2> QED BY <1>3, <2>1, <2>2, Moved DEF SetHead, Place, Empties
<1>4. CASE SetTail(c)
  <2>1. Cohere("SetCount", c)'
    BY <1>4, Acting DEF SetTail, Go, Cohere, Putting, Getting
  <2>2. TypeOK' /\ reg' \in [Caller -> Nat] /\ byte' \in [Caller -> Byte \cup {NULL}]
    BY <1>0, <1>4, Types DEF SetTail, TypeOK, result
  <2> QED BY <1>4, <2>1, <2>2, Moved DEF SetTail, Place, Empties
<1>5. CASE SetCount(c)
  <2>1. head' = 0 /\ tail' = 0 /\ count' = 0 /\ capacity' \in 0 .. Size
    BY <1>5, Acting, Types DEF SetCount, Go, Cohere
  <2>2. Stable'
    <3>1. capacity' # 0 => SlotOf(count)' = 0
      <4>1. CASE capacity' # 0
        <5>1. capacity' \in Nat \ {0}
          BY <2>1, <4>1, Types
        <5> QED BY <2>1, <5>1, EmptySlot DEF SlotOf
      <4> QED BY <4>1
    <3> QED BY <2>1, <3>1, Types DEF Stable, RingConsistent, NullIsEmpty
  <2>3. Cohere("return", c)'
    BY <2>2 DEF Cohere, Putting, Getting
  <2>4. TypeOK' /\ reg' \in [Caller -> Nat] /\ byte' \in [Caller -> Byte \cup {NULL}]
    BY <1>5, Types DEF SetCount, TypeOK, result
  <2> QED BY <1>5, <2>3, <2>4, Moved DEF SetCount, Place
<1> QED BY <1>1, <1>2, <1>3, <1>4, <1>5

\* One slot forward and one back.
LEMMA BackOfNext ==
  ASSUME NEW c \in Nat \ {0}, NEW i \in 0 .. c - 1
  PROVE  (((i + 1) % c) + (c - 1)) % c = i
<1> DEFINE h == (i + 1) % c
<1>1. h = IF i + 1 < c THEN i + 1 ELSE i + 1 - c
  OBVIOUS
<1>2. h \in 0 .. c - 1
  BY <1>1
<1> HIDE DEF h
<1>3. (h + (c - 1)) % c = IF h + (c - 1) < c THEN h + (c - 1) ELSE h + (c - 1) - c
  BY <1>2
<1> QED BY <1>1, <1>2, <1>3 DEF h

\* bq_put: the new byte is in its slot before the head and the count move.
LEMMA PutInv ==
  ASSUME SharedInv, NEW c \in Caller,
         \/ PutRefused(c) \/ PutTest(c) \/ PutByte(c)
         \/ PutHead(c) \/ PutLoad(c) \/ PutStore(c)
  PROVE  SharedInv'
<1>1. CASE PutRefused(c)
  <2>1. Stable'
    BY <1>1, Acting DEF PutRefused, Go, Cohere, Stable, RingConsistent, NullIsEmpty, SlotOf, queue
  <2>2. Cohere("return", c)'
    BY <2>1 DEF Cohere, Putting, Getting
  <2>3. TypeOK' /\ reg' \in [Caller -> Nat] /\ byte' \in [Caller -> Byte \cup {NULL}]
    BY <1>1, Types DEF PutRefused, Return, TypeOK, queue
  <2> QED BY <1>1, <2>2, <2>3, Moved DEF PutRefused, Place
<1>2. CASE PutTest(c)
  <2>1. Stable /\ byte[c] \in Byte /\ UNCHANGED <<vars, byte>>
    BY <1>2, Acting DEF PutTest, Go, Cohere
  <2>2. Room
    BY <1>2, <2>1, RingSlots, Types DEF PutTest, Room, bq_is_full
  <2>3. Stable' /\ Room' /\ byte'[c] \in Byte
    BY <2>1, <2>2 DEF Stable, Room, RingConsistent, NullIsEmpty, SlotOf, vars, queue
  <2>4. Cohere("PutByte", c)'
    BY <2>3 DEF Cohere, Putting, Getting
  <2>5. TypeOK' /\ reg' \in [Caller -> Nat] /\ byte' \in [Caller -> Byte \cup {NULL}]
    BY <1>2, Types DEF PutTest, TypeOK, vars, queue, result
  <2> QED BY <1>2, <2>4, <2>5, Moved DEF PutTest, Place, Putting
<1>3. CASE PutByte(c)
  <2>1. Stable /\ Room /\ byte[c] \in Byte /\ UNCHANGED <<queue, byte>>
    BY <1>3, Acting DEF PutByte, Go, Cohere, Putting
  <2>2. Stable' /\ Room'
    BY <2>1 DEF Stable, Room, RingConsistent, NullIsEmpty, SlotOf, queue
  <2>3. data \in Buffer /\ head \in Slot /\ head = SlotOf(count)
    BY <2>1, RingSlots, Types DEF Room
  <2>4. mem' = [mem EXCEPT ![data][head] = byte[c]]
    BY <1>3 DEF PutByte
  <2>5. mem'[data][SlotOf(count)] = byte[c] /\ mem' \in [Buffer -> [Slot -> Byte]]
    BY <2>1, <2>3, <2>4, Types
  <2>6. mem'[data'][SlotOf(count)'] = byte'[c]
    BY <2>1, <2>5 DEF queue, SlotOf
  <2>7. Cohere("PutHead", c)'
    BY <2>1, <2>2, <2>6 DEF Cohere, Putting, Getting
  <2>8. TypeOK' /\ reg' \in [Caller -> Nat] /\ byte' \in [Caller -> Byte \cup {NULL}]
    BY <1>3, <2>5, Types DEF PutByte, TypeOK, queue, result
  <2> QED BY <1>3, <2>7, <2>8, Moved DEF PutByte, Place, Putting
<1>4. CASE PutHead(c)
  <2>1. /\ Stable /\ Room /\ byte[c] \in Byte /\ mem[data][SlotOf(count)] = byte[c]
        /\ UNCHANGED <<mem, data, capacity, tail, count, byte>> /\ head' = NextSlot(head)
    BY <1>4, Acting DEF PutHead, Go, Cohere, Putting
  <2>2. /\ capacity \in Nat \ {0} /\ capacity <= Size /\ count \in 0 .. capacity - 1
        /\ tail \in 0 .. capacity - 1 /\ head = SlotOf(count)
    BY <2>1, RingSlots, Types DEF Room
  <2>3. (((tail + count) % capacity) + 1) % capacity = (tail + (count + 1)) % capacity
    BY <2>2, PutSlot
  <2>4. head' = SlotOf(count + 1)
    BY <2>1, <2>2, <2>3, Zenon DEF NextSlot, SlotOf
  <2>5. head' \in Slot
    BY <2>1, <2>2, Types DEF NextSlot, Slot, SlotOf
  <2>6. SlotOf(count)' = SlotOf(count) /\ SlotOf(count + 1)' = SlotOf(count + 1)
    BY <2>1 DEF SlotOf
  <2>7. Room'
    BY <2>1 DEF Room
  <2>8. Cohere("PutLoad", c)'
    BY <2>1, <2>4, <2>6, <2>7 DEF Cohere, Putting, Getting
  <2>9. TypeOK' /\ reg' \in [Caller -> Nat] /\ byte' \in [Caller -> Byte \cup {NULL}]
    BY <1>4, <2>5, Types DEF PutHead, TypeOK, result
  <2> QED BY <1>4, <2>8, <2>9, Moved DEF PutHead, Place, Putting
<1>5. CASE PutLoad(c)
  <2>1. /\ Room /\ byte[c] \in Byte /\ mem[data][SlotOf(count)] = byte[c]
        /\ head = SlotOf(count + 1) /\ UNCHANGED <<mem, queue, byte>>
    BY <1>5, Acting DEF PutLoad, Go, Cohere, Putting, vars
  <2>2. /\ Room' /\ byte'[c] \in Byte /\ mem'[data'][SlotOf(count)'] = byte'[c]
        /\ head' = SlotOf(count + 1)'
    BY <2>1 DEF Room, SlotOf, queue
  <2>3. reg'[c] = count'
    BY <1>5, Types DEF PutLoad, vars, queue
  <2>4. Cohere("PutStore", c)'
    BY <2>2, <2>3 DEF Cohere, Putting, Getting
  <2>5. TypeOK' /\ reg' \in [Caller -> Nat] /\ byte' \in [Caller -> Byte \cup {NULL}]
    BY <1>5, Types DEF PutLoad, TypeOK, vars, queue, result
  <2> QED BY <1>5, <2>4, <2>5, Moved DEF PutLoad, Place, Putting
<1>6. CASE PutStore(c)
  <2>1. /\ Room /\ byte[c] \in Byte /\ head = SlotOf(count + 1) /\ reg[c] = count
        /\ UNCHANGED <<mem, data, capacity, head, tail, byte>> /\ count' = count + 1
    BY <1>6, Acting DEF PutStore, Go, Cohere, Putting
  <2>2. head' = SlotOf(count)' /\ count' <= capacity' /\ capacity' # 0 /\ tail' < capacity'
    <3>1. head' = SlotOf(count)'
      BY <2>1 DEF SlotOf
    <3> QED BY <2>1, <3>1, Types DEF Room
  <2>3. Stable'
    BY <2>1, <2>2 DEF Stable, RingConsistent, NullIsEmpty, Room
  <2>4. Cohere("return", c)'
    BY <2>3 DEF Cohere, Putting, Getting
  <2>5. TypeOK' /\ reg' \in [Caller -> Nat] /\ byte' \in [Caller -> Byte \cup {NULL}]
    BY <1>6, <2>1, Types DEF PutStore, Return, TypeOK
  <2> QED BY <1>6, <2>4, <2>5, Moved DEF PutStore, Place
<1> QED BY <1>1, <1>2, <1>3, <1>4, <1>5, <1>6

\* bq_get: the oldest byte is copied before the tail and the count move.
LEMMA GetInv ==
  ASSUME SharedInv, NEW c \in Caller,
         \/ GetRefused(c) \/ GetTest(c) \/ GetByte(c)
         \/ GetTail(c) \/ GetLoad(c) \/ GetStore(c)
  PROVE  SharedInv'
<1>1. CASE GetRefused(c)
  <2>1. Stable'
    BY <1>1, Acting DEF GetRefused, Go, Cohere, Stable, RingConsistent, NullIsEmpty, SlotOf, queue
  <2>2. Cohere("return", c)'
    BY <2>1 DEF Cohere, Putting, Getting
  <2>3. TypeOK' /\ reg' \in [Caller -> Nat] /\ byte' \in [Caller -> Byte \cup {NULL}]
    BY <1>1, Types DEF GetRefused, Return, TypeOK, queue
  <2> QED BY <1>1, <2>2, <2>3, Moved DEF GetRefused, Place
<1>2. CASE GetTest(c)
  <2>1. Stable /\ byte[c] = NULL /\ UNCHANGED <<vars, byte>>
    BY <1>2, Acting DEF GetTest, Go, Cohere
  <2>2. Some
    BY <1>2, <2>1, Types DEF GetTest, Some, bq_is_empty, Stable, RingConsistent
  <2>3. Stable' /\ Some' /\ byte'[c] = NULL
    BY <2>1, <2>2 DEF Stable, Some, RingConsistent, NullIsEmpty, SlotOf, vars, queue
  <2>4. Cohere("GetByte", c)'
    BY <2>3 DEF Cohere, Putting, Getting
  <2>5. TypeOK' /\ reg' \in [Caller -> Nat] /\ byte' \in [Caller -> Byte \cup {NULL}]
    BY <1>2, Types DEF GetTest, TypeOK, vars, queue, result
  <2> QED BY <1>2, <2>4, <2>5, Moved DEF GetTest, Place, Getting
<1>3. CASE GetByte(c)
  <2>1. Stable /\ Some /\ byte[c] = NULL /\ UNCHANGED vars
    BY <1>3, Acting DEF GetByte, Go, Cohere, Getting
  <2>2. Stable' /\ Some'
    BY <2>1 DEF Stable, Some, RingConsistent, NullIsEmpty, SlotOf, vars, queue
  <2>3. mem[data][tail] \in Byte
    BY <2>1, Types DEF Some
  <2>4. byte' \in [Caller -> Byte \cup {NULL}] /\ (byte'[c] = NULL \/ byte'[c] = mem[data][tail])
    BY <1>3, <2>1, <2>3, Types DEF GetByte
  <2>5. Copied(c, tail)'
    BY <2>1, <2>4 DEF Copied, vars, queue
  <2>6. Cohere("GetTail", c)'
    BY <2>2, <2>5 DEF Cohere, Putting, Getting
  <2>7. TypeOK' /\ reg' \in [Caller -> Nat]
    BY <1>3, Types DEF GetByte, TypeOK, vars, queue, result
  <2> QED BY <1>3, <2>4, <2>6, <2>7, Moved DEF GetByte, Place, Getting
<1>4. CASE GetTail(c)
  <2>1. /\ Stable /\ Some /\ Copied(c, tail)
        /\ UNCHANGED <<mem, data, capacity, head, count, byte>> /\ tail' = NextSlot(tail)
    BY <1>4, Acting DEF GetTail, Go, Cohere, Getting
  <2>2. /\ capacity \in Nat \ {0} /\ capacity <= Size /\ count \in 1 .. capacity
        /\ tail \in 0 .. capacity - 1 /\ head = SlotOf(count)
    BY <2>1, RingSlots, Types DEF Some
  <2>3. Back(tail)' = tail
    <3>1. (((tail + 1) % capacity) + (capacity - 1)) % capacity = tail
      BY <2>2, BackOfNext
    <3> QED BY <2>1, <3>1, Zenon DEF Back, NextSlot
  <2>4. tail' = NextSlot(Back(tail))'
    BY <2>1, <2>3, Zenon DEF NextSlot
  <2>5. head' = ((Back(tail) + count) % capacity)'
    BY <2>1, <2>2, <2>3, Zenon DEF SlotOf
  <2>6. Copied(c, Back(tail))' /\ Some'
    BY <2>1, <2>3 DEF Copied, Some
  <2>7. Cohere("GetLoad", c)'
    BY <2>4, <2>5, <2>6 DEF Cohere, Putting, Getting
  <2>8. tail' \in Slot
    BY <2>1, <2>2, Types DEF NextSlot, Slot
  <2>9. TypeOK' /\ reg' \in [Caller -> Nat] /\ byte' \in [Caller -> Byte \cup {NULL}]
    BY <1>4, <2>8, Types DEF GetTail, TypeOK, result
  <2> QED BY <1>4, <2>7, <2>9, Moved DEF GetTail, Place, Getting
<1>5. CASE GetLoad(c)
  <2>1. /\ Some /\ tail = NextSlot(Back(tail)) /\ head = (Back(tail) + count) % capacity
        /\ Copied(c, Back(tail)) /\ UNCHANGED <<mem, queue, byte>>
    BY <1>5, Acting DEF GetLoad, Go, Cohere, Getting, vars
  <2>2. /\ Some' /\ tail' = NextSlot(Back(tail))' /\ head' = ((Back(tail) + count) % capacity)'
        /\ Copied(c, Back(tail))'
    BY <2>1 DEF Some, NextSlot, Back, Copied, queue
  <2>3. reg'[c] = count'
    BY <1>5, Types DEF GetLoad, vars, queue
  <2>4. Cohere("GetStore", c)'
    BY <2>2, <2>3 DEF Cohere, Putting, Getting
  <2>5. TypeOK' /\ reg' \in [Caller -> Nat] /\ byte' \in [Caller -> Byte \cup {NULL}]
    BY <1>5, Types DEF GetLoad, TypeOK, vars, queue, result
  <2> QED BY <1>5, <2>4, <2>5, Moved DEF GetLoad, Place, Getting
<1>6. CASE GetStore(c)
  <2>1. /\ Some /\ tail = NextSlot(Back(tail)) /\ head = (Back(tail) + count) % capacity
        /\ reg[c] = count /\ UNCHANGED <<mem, data, capacity, head, tail, byte>>
        /\ count' = count - 1
    BY <1>6, Acting DEF GetStore, Go, Cohere, Getting
  <2>2. capacity \in Nat \ {0} /\ count \in 1 .. capacity
    BY <2>1, Types DEF Some
  <2>3. Back(tail) \in 0 .. capacity - 1
    BY <2>2, Types DEF Back, Slot
  <2>4. tail \in 0 .. capacity - 1
    BY <2>1, <2>2, <2>3 DEF NextSlot
  <2>5. (((Back(tail) + 1) % capacity) + (count - 1)) % capacity = (Back(tail) + count) % capacity
    BY <2>2, <2>3, GetSlot
  <2>6. head = SlotOf(count - 1)
    BY <2>1, <2>5, Zenon DEF NextSlot, SlotOf
  <2>7. head' = SlotOf(count)'
    BY <2>1, <2>6 DEF SlotOf
  <2>8. Stable'
    BY <2>1, <2>2, <2>4, <2>7 DEF Stable, RingConsistent, NullIsEmpty, Some
  <2>9. Cohere("return", c)'
    BY <2>8 DEF Cohere, Putting, Getting
  <2>10. out' \in Byte /\ count' \in Nat
    BY <1>6, <2>1, <2>2, Types DEF GetStore
  <2>11. TypeOK' /\ reg' \in [Caller -> Nat] /\ byte' \in [Caller -> Byte \cup {NULL}]
    BY <1>6, <2>10, Types DEF GetStore, Return, TypeOK
  <2> QED BY <1>6, <2>9, <2>11, Moved DEF GetStore, Place
<1> QED BY <1>1, <1>2, <1>3, <1>4, <1>5, <1>6

\* The invariant holds at the start and every step preserves it.
LEMMA SharedInvInductive == /\ SharedInit => SharedInv
                            /\ SharedInv /\ [SharedNext]_sharedVars => SharedInv'
<1>1. SharedInit => SharedInv
  BY InitIInv, SharedAssumption
  DEF SharedInit, SharedInv, IInv, LocalTypeOK, OneInside, Stable, Place
<1>2. SharedInv /\ UNCHANGED sharedVars => SharedInv'
  <2> SUFFICES ASSUME SharedInv, UNCHANGED sharedVars PROVE SharedInv'
    OBVIOUS
  <2>1. UNCHANGED <<mem, data, capacity, head, tail, count, ret, given, wanted, out,
                    section, at, reg, byte>>
    BY DEF sharedVars, local, vars, queue, result
  <2>2. TypeOK' /\ LocalTypeOK'
    BY <2>1 DEF SharedInv, TypeOK, LocalTypeOK
  <2>3. (Stable' <=> Stable) /\ \A c \in Caller, p \in Place : Cohere(p, c)' <=> Cohere(p, c)
    BY <2>1 DEF Stable, RingConsistent, NullIsEmpty, SlotOf, Cohere, Room, Some, Copied,
                NextSlot, Back
  <2>4. OneInside'
    BY <2>1, <2>3, Types DEF SharedInv, OneInside
  <2> QED BY <2>2, <2>4 DEF SharedInv
<1>3. SharedInv /\ SharedNext => SharedInv'
  BY EnterInv, LeaveInv, EmptyingInv, PutInv, GetInv DEF SharedNext, Step
<1> QED BY <1>1, <1>2, <1>3

\* Between calls the cursors and the count agree.
THEOREM SharedRingTheorem == SharedSpec => []ConsistentBetweenCalls
<1>1. SharedInv => ConsistentBetweenCalls
  <2> SUFFICES ASSUME SharedInv, \A c \in Caller : at[c] = "outside" PROVE RingConsistent
    BY DEF ConsistentBetweenCalls
  <2>1. section = FREE
    BY DEF SharedInv, LocalTypeOK, OneInside
  <2> QED BY <2>1 DEF SharedInv, OneInside, Stable
<1> QED BY <1>1, SharedInvInductive, PTL DEF SharedSpec

(***************************************************************************)
(* The refinement: a call takes effect at its store of the count, and its  *)
(* other loads and stores leave the queue's bytes as they are.             *)
(***************************************************************************)

\* Who is in a call is the owner of the section.
OwnersPlace == \A places \in SUBSET (Place \ {"outside"}) :
                 Where(places) <=> section # FREE /\ at[section] \in places

LEMMA WhereTheOwnerIs == SharedInv => OwnersPlace
  BY SharedAssumption DEF SharedInv, LocalTypeOK, OneInside, OwnersPlace, Where

\* The two sets of places that the mapping tells apart.
LEMMA MappedPlaces ==
  ASSUME SharedInv
  PROVE  /\ Where(Empties) <=> section # FREE /\ at[section] \in Empties
         /\ Where({"GetLoad", "GetStore"})
              <=> section # FREE /\ at[section] \in {"GetLoad", "GetStore"}
<1>1. Empties \subseteq Place \ {"outside"} /\ {"GetLoad", "GetStore"} \subseteq Place \ {"outside"}
  BY DEF Empties, Place, Getting
<1> QED BY <1>1, WhereTheOwnerIs DEF OwnersPlace

\* The place of the owner of the section, before and after its step.
LEMMA OwnerPlace ==
  ASSUME SharedInv, NEW c \in Caller, NEW from, NEW to, Go(c, from, to),
         from # "outside", UNCHANGED section
  PROVE  /\ Where(Empties) <=> from \in Empties
         /\ Where(Empties)' <=> to \in Empties
         /\ Oldest = IF from \in {"GetLoad", "GetStore"} THEN Back(tail) ELSE tail
         /\ Oldest' = IF to \in {"GetLoad", "GetStore"} THEN Back(tail)' ELSE tail'
<1>1. section = c /\ c # FREE /\ at[c] = from /\ at'[c] = to
  BY Acting, Types DEF Go
<1>2. \A d \in Caller \ {c} : at[d] = "outside" /\ at'[d] = "outside"
  BY <1>1, Types DEF Go, SharedInv, OneInside
<1>3. "outside" \notin Empties \cup {"GetLoad", "GetStore"}
  BY DEF Empties
<1>4. /\ Where(Empties) <=> from \in Empties
      /\ Where(Empties)' <=> to \in Empties
  BY <1>1, <1>2, <1>3 DEF Where
<1>5. /\ Where({"GetLoad", "GetStore"}) <=> from \in {"GetLoad", "GetStore"}
      /\ Where({"GetLoad", "GetStore"})' <=> to \in {"GetLoad", "GetStore"}
  BY <1>1, <1>2, <1>3 DEF Where
<1> QED BY <1>4, <1>5 DEF Oldest

\* A queue with bytes in it has a buffer, and the oldest is in the ring.
LEMMA OldestIndexes ==
  ASSUME SharedInv, ~Where(Empties), count # 0
  PROVE  /\ data \in Buffer /\ capacity \in Nat \ {0} /\ capacity <= Size
         /\ count \in 1 .. capacity /\ Oldest \in 0 .. capacity - 1
<1>1. CASE section = FREE
  BY <1>1, RingSlots, Types, MappedPlaces
  DEF SharedInv, OneInside, Stable, RingConsistent, NullIsEmpty, Oldest
<1>2. CASE section # FREE
  <2>1. /\ section \in Caller /\ at[section] \in Place \ Empties /\ at[section] # "outside"
        /\ Cohere(at[section], section)
    BY <1>2, Types, MappedPlaces DEF SharedInv, LocalTypeOK, OneInside
  <2>2. CASE at[section] \in {"PutTest", "GetTest", "return", "PutByte", "PutHead",
                              "GetByte", "GetTail"}
    BY <2>1, <2>2, RingSlots, Types, MappedPlaces
    DEF Cohere, Stable, RingConsistent, NullIsEmpty, Oldest
  <2>3. CASE at[section] \in {"PutLoad", "PutStore"}
    BY <2>1, <2>3, Types, MappedPlaces DEF Cohere, Putting, Room, Oldest, Slot
  <2>4. CASE at[section] \in {"GetLoad", "GetStore"}
    <3>1. data \in Buffer /\ capacity \in Nat \ {0} /\ capacity <= Size /\ count \in 1 .. capacity
      BY <2>1, <2>4, Types DEF Cohere, Getting, Some
    <3>2. Back(tail) \in 0 .. capacity - 1
      BY <3>1, Types DEF Back, Slot
    <3> QED BY <1>2, <2>4, <3>1, <3>2, MappedPlaces DEF Oldest
  <2> QED BY <2>1, <2>2, <2>3, <2>4 DEF Place, Putting, Getting
<1> QED BY <1>1, <1>2

HeldIsASeq == ~Where(Empties) =>
                /\ Held \in Seq(Byte)
                /\ Len(Held) = count
                /\ \A k \in 1 .. count : Held[k] = mem[data][(Oldest + (k - 1)) % capacity]

\* The bytes held form a sequence of length count.
LEMMA HeldIsASequence == SharedInv => HeldIsASeq
<1> SUFFICES ASSUME SharedInv, ~Where(Empties)
             PROVE  /\ Held \in Seq(Byte)
                    /\ Len(Held) = count
                    /\ \A k \in 1 .. count : Held[k] = mem[data][(Oldest + (k - 1)) % capacity]
  BY DEF HeldIsASeq
<1>1. Held = BytesFrom(Oldest)
  BY DEF Held
<1>2. ASSUME NEW k \in 1 .. count
      PROVE  mem[data][(Oldest + (k - 1)) % capacity] \in Byte
  <2>1. /\ data \in Buffer /\ capacity \in Nat \ {0} /\ capacity <= Size
        /\ Oldest \in 0 .. capacity - 1
    BY <1>2, OldestIndexes, Types
  <2>2. (Oldest + (k - 1)) % capacity \in Slot
    BY <1>2, <2>1, Types DEF Slot
  <2> QED BY <2>1, <2>2, Types
<1>3. Held \in [1 .. count -> Byte]
  BY <1>1, <1>2 DEF BytesFrom
<1>4. Held \in Seq(Byte)
  BY <1>3, SeqDef, Types
<1>5. Len(Held) = count
  <2>1. DOMAIN Held = 1 .. Len(Held) /\ Len(Held) \in Nat
    BY <1>4, LenProperties
  <2>2. DOMAIN Held = 1 .. count
    BY <1>3
  <2> QED BY <2>1, <2>2, SameInterval, Types
<1> QED BY <1>1, <1>4, <1>5 DEF BytesFrom

\* A queue that counts no bytes holds none.
LEMMA NoneHeld == SharedInv /\ count = 0 => Held = <<>>
<1> SUFFICES ASSUME SharedInv, count = 0 PROVE Held = <<>>
  OBVIOUS
<1>1. CASE Where(Empties)
  BY <1>1 DEF Held
<1>2. CASE ~Where(Empties)
  BY <1>2, HeldIsASequence, EmptySeq DEF HeldIsASeq
<1> QED BY <1>1, <1>2

SharedFifoStep == [SharedFifo!Next]_(SharedFifo!vars)

\* A call of bq_init or bq_clear empties the queue when it begins; any other
\* call changes nothing yet.
LEMMA EnterRefines ==
  ASSUME SharedInv, NEW c \in Caller, Enter(c)
  PROVE  SharedFifoStep
<1>1. UNCHANGED vars /\ ~Where(Empties) /\ ~Where({"GetLoad", "GetStore"})
  BY MappedPlaces DEF Enter, Start
<1>2. /\ at'[c] \in Call /\ ~Where({"GetLoad", "GetStore"})'
      /\ Where(Empties)' <=> at'[c] \in Empties
  <2> PICK call \in Call : Go(c, "outside", call)
    BY DEF Enter, Start
  <2>1. at'[c] = call /\ \A d \in Caller \ {c} : at'[d] = "outside"
    BY Types, SharedAssumption DEF Go, Enter, SharedInv, OneInside
  <2>2. "outside" \notin Empties /\ call \notin {"GetLoad", "GetStore"}
    BY DEF Empties, Call
  <2> QED BY <2>1, <2>2 DEF Where
<1>3. CASE at'[c] \in Empties
  BY <1>1, <1>2, <1>3
  DEF SharedFifoStep, SharedFifo!Next, SharedFifo!Clear, Held, UsableCapacity, vars, queue, result
<1>4. CASE at'[c] \notin Empties
  BY <1>1, <1>2, <1>4
  DEF SharedFifoStep, SharedFifo!vars, Held, Oldest, BytesFrom, UsableCapacity, vars, queue, result
<1> QED BY <1>3, <1>4

\* Leaving the section changes nothing.
LEMMA LeaveRefines ==
  ASSUME SharedInv, NEW c \in Caller, Leave(c)
  PROVE  SharedFifoStep
<1>1. section = c /\ at[c] = "return" /\ c # FREE /\ UNCHANGED vars /\ section' = FREE
  BY Acting DEF Leave, Go
<1>2. /\ ~Where(Empties) /\ ~Where(Empties)'
      /\ ~Where({"GetLoad", "GetStore"}) /\ ~Where({"GetLoad", "GetStore"})'
  <2>1. at'[c] = "outside" /\ \A d \in Caller \ {c} : at'[d] = "outside"
    BY <1>1, Types DEF Leave, Go, SharedInv, OneInside
  <2>2. "outside" \notin Empties /\ "return" \notin Empties
    BY DEF Empties
  <2> QED BY <1>1, <2>1, <2>2, MappedPlaces DEF Where
<1> QED BY <1>1, <1>2
        DEF SharedFifoStep, SharedFifo!vars, Held, Oldest, BytesFrom, UsableCapacity, vars, queue, result

\* While the queue is emptied it holds nothing; a new buffer or capacity is
\* the abstract queue attached to it.
LEMMA EmptyingRefines ==
  ASSUME SharedInv, SharedInv', NEW c \in Caller,
         SetData(c) \/ SetCapacity(c) \/ SetHead(c) \/ SetTail(c) \/ SetCount(c)
  PROVE  SharedFifoStep
<1>1. UNCHANGED <<result, section>>
  BY DEF SetData, SetCapacity, SetHead, SetTail, SetCount
<1>2. UsableCapacity' \in 0 .. Size
  BY ByteQueueAssumption DEF SharedInv, TypeOK, UsableCapacity
<1>3. ASSUME SetCount(c) PROVE Held' = <<>>
  <2>1. (SharedInv /\ count = 0 => Held = <<>>)'
    BY NoneHeld, PTL
  <2> QED BY <1>3, <2>1 DEF SetCount
<1>4. ASSUME ~SetCount(c) PROVE Held' = <<>>
  <2>1. Where(Empties)'
    BY <1>4, OwnerPlace DEF SetData, SetCapacity, SetHead, SetTail, Empties
  <2> QED BY <2>1 DEF Held
<1> QED BY <1>1, <1>2, <1>3, <1>4 DEF SharedFifoStep, SharedFifo!Next, SharedFifo!Attach, result

\* A refused call returns 0 and changes nothing; it has cause to.
LEMMA RefusedRefines ==
  ASSUME SharedInv, NEW c \in Caller, PutRefused(c) \/ GetRefused(c)
  PROVE  SharedFifoStep
<1>1. /\ UNCHANGED <<mem, queue, given, wanted, out, section>> /\ ret' = 0
      /\ at[c] \in {"PutTest", "GetTest"} /\ Stable
  BY Acting DEF PutRefused, GetRefused, Go, Return, Cohere
<1>2. ~Where(Empties) /\ ~Where(Empties)' /\ Oldest = tail /\ Oldest' = tail'
  <2>1. CASE PutRefused(c)
    BY <1>1, <2>1, OwnerPlace DEF PutRefused, Empties
  <2>2. CASE GetRefused(c)
    BY <1>1, <2>2, OwnerPlace DEF GetRefused, Empties
  <2> QED BY <2>1, <2>2
<1>3. UNCHANGED <<Held, UsableCapacity>>
  BY <1>1, <1>2 DEF Held, BytesFrom, UsableCapacity, queue
<1>4. Held \in Seq(Byte) /\ Len(Held) = count
  BY <1>2, HeldIsASequence DEF HeldIsASeq
<1>5. CASE PutRefused(c)
  <2>1. Len(Held) = UsableCapacity
    BY <1>1, <1>4, <1>5, Types
    DEF PutRefused, UsableCapacity, bq_is_full, Stable, RingConsistent, NullIsEmpty
  <2> QED BY <1>1, <1>3, <2>1 DEF SharedFifoStep, SharedFifo!Next, SharedFifo!PutRefused
<1>6. CASE GetRefused(c)
  <2>1. Held = <<>>
    BY <1>1, <1>6, NoneHeld DEF GetRefused, bq_is_empty, Stable, NullIsEmpty
  <2> QED BY <1>1, <1>3, <2>1 DEF SharedFifoStep, SharedFifo!Next, SharedFifo!GetRefused
<1> QED BY <1>5, <1>6

\* The steps of a put before its last leave the bytes held as they are: the
\* slot it writes is free.
LEMMA PuttingRefines ==
  ASSUME SharedInv, NEW c \in Caller,
         PutTest(c) \/ PutByte(c) \/ PutHead(c) \/ PutLoad(c)
  PROVE  SharedFifoStep
<1>1. UNCHANGED <<data, capacity, tail, count, result, section>>
  BY DEF PutTest, PutByte, PutHead, PutLoad, vars, queue
<1>2. ~Where(Empties) /\ ~Where(Empties)' /\ Oldest = tail /\ Oldest' = tail'
  <2>1. CASE PutTest(c)
    BY <1>1, <2>1, OwnerPlace DEF PutTest, Empties
  <2>2. CASE PutByte(c)
    BY <1>1, <2>2, OwnerPlace DEF PutByte, Empties
  <2>3. CASE PutHead(c)
    BY <1>1, <2>3, OwnerPlace DEF PutHead, Empties
  <2>4. CASE PutLoad(c)
    BY <1>1, <2>4, OwnerPlace DEF PutLoad, Empties
  <2> QED BY <2>1, <2>2, <2>3, <2>4
<1>3. ASSUME NEW k \in 1 .. count
      PROVE  mem'[data][SlotOf(k - 1)] = mem[data][SlotOf(k - 1)]
  <2>1. CASE UNCHANGED mem
    BY <2>1
  <2>2. CASE PutByte(c)
    <3>1. Stable /\ Room /\ mem' = [mem EXCEPT ![data][head] = byte[c]]
      BY <2>2, Acting DEF PutByte, Go, Cohere, Putting
    <3>2. /\ capacity \in Nat \ {0} /\ capacity <= Size /\ data \in Buffer
          /\ tail \in 0 .. capacity - 1 /\ count \in 0 .. capacity - 1 /\ head = SlotOf(count)
      BY <3>1, RingSlots, Types DEF Room
    <3>3. SlotOf(k - 1) # head
      <4>1. CASE SlotOf(k - 1) = head
        <5>1. (tail + (k - 1)) % capacity = (tail + count) % capacity
          BY <3>2, <4>1, Zenon DEF SlotOf
        <5>2. k - 1 \in 0 .. capacity - 1 /\ k - 1 # count
          BY <3>2
        <5> QED BY <3>2, <5>1, <5>2, SlotsDiffer
      <4> QED BY <4>1
    <3>4. SlotOf(k - 1) \in Slot
      BY <3>2, Types DEF SlotOf, Slot
    <3> QED BY <3>1, <3>2, <3>3, <3>4, Types
  <2> QED BY <2>1, <2>2 DEF PutTest, PutHead, PutLoad, vars
<1>4. Held' = Held
  BY <1>1, <1>2, <1>3 DEF Held, BytesFrom, SlotOf
<1> QED BY <1>1, <1>4 DEF SharedFifoStep, SharedFifo!vars, UsableCapacity, result

\* With the store of the count the byte is in the queue, behind the others.
LEMMA PutStoreRefines ==
  ASSUME SharedInv, SharedInv', NEW c \in Caller, PutStore(c)
  PROVE  SharedFifoStep
<1>1. /\ Room /\ byte[c] \in Byte /\ mem[data][SlotOf(count)] = byte[c]
      /\ count' = count + 1 /\ ret' = 1 /\ given' = byte[c]
      /\ UNCHANGED <<mem, data, capacity, tail, wanted, out, section>>
  BY Acting DEF PutStore, Return, Go, Cohere, Putting
<1>2. ~Where(Empties) /\ ~Where(Empties)' /\ Oldest = tail /\ Oldest' = tail
  BY <1>1, OwnerPlace DEF PutStore, Empties
<1>3. /\ Held \in Seq(Byte) /\ Len(Held) = count
      /\ \A k \in 1 .. count : Held[k] = mem[data][SlotOf(k - 1)]
  BY <1>2, HeldIsASequence DEF HeldIsASeq, SlotOf
<1>4. /\ Held' \in Seq(Byte) /\ Len(Held') = count + 1
      /\ \A k \in 1 .. count + 1 : Held'[k] = mem[data][SlotOf(k - 1)]
  <2>1. HeldIsASeq'
    BY HeldIsASequence, PTL
  <2> QED BY <1>1, <1>2, <2>1 DEF HeldIsASeq, SlotOf
<1>5. Held' = Append(Held, byte[c])
  <2>1. /\ Append(Held, byte[c]) \in Seq(Byte)
        /\ Len(Append(Held, byte[c])) = count + 1
        /\ \A k \in 1 .. count : Append(Held, byte[c])[k] = Held[k]
        /\ Append(Held, byte[c])[count + 1] = byte[c]
    BY <1>1, <1>3, AppendProperties
  <2>2. Held'[count + 1] = byte[c]
    <3>1. count + 1 \in 1 .. count + 1 /\ (count + 1) - 1 = count
      BY Types
    <3> QED BY <1>1, <1>4, <3>1
  <2>3. \A k \in 1 .. count + 1 : k \in 1 .. count \/ k = count + 1
    BY Types
  <2>4. \A k \in 1 .. Len(Held') : Held'[k] = Append(Held, byte[c])[k]
    BY <1>3, <1>4, <2>1, <2>2, <2>3
  <2> QED BY <1>4, <2>1, <2>4, SeqEqual
<1>6. Len(Held) < UsableCapacity /\ UNCHANGED UsableCapacity
  BY <1>1, <1>3 DEF UsableCapacity, Room
<1> QED BY <1>1, <1>5, <1>6 DEF SharedFifoStep, SharedFifo!Next, SharedFifo!Put

\* The steps of a get before its last leave the bytes held as they are: once
\* the tail has moved the oldest byte is the one behind it.
LEMMA GettingRefines ==
  ASSUME SharedInv, NEW c \in Caller,
         GetTest(c) \/ GetByte(c) \/ GetTail(c) \/ GetLoad(c)
  PROVE  SharedFifoStep
<1>1. UNCHANGED <<mem, data, capacity, count, result, section>>
  BY DEF GetTest, GetByte, GetTail, GetLoad, vars, queue
<1>2. ~Where(Empties) /\ ~Where(Empties)' /\ Oldest' = Oldest
  <2>1. CASE GetTest(c)
    BY <1>1, <2>1, OwnerPlace DEF GetTest, vars, queue, Empties
  <2>2. CASE GetByte(c)
    BY <1>1, <2>2, OwnerPlace DEF GetByte, vars, queue, Empties
  <2>3. CASE GetTail(c)
    <3>1. Stable /\ Some
      BY <2>3, Acting DEF GetTail, Go, Cohere, Getting
    <3>2. capacity \in Nat \ {0} /\ tail \in 0 .. capacity - 1
      BY <3>1, RingSlots, Types DEF Some
    <3>3. (((tail + 1) % capacity) + (capacity - 1)) % capacity = tail
      BY <3>2, BackOfNext
    <3>4. Back(tail)' = tail
      BY <1>1, <2>3, <3>3, Zenon DEF GetTail, Back, NextSlot
    <3> QED BY <1>1, <2>3, <3>4, OwnerPlace DEF GetTail, Empties
  <2>4. CASE GetLoad(c)
    BY <1>1, <2>4, OwnerPlace DEF GetLoad, vars, queue, Empties, Back
  <2> QED BY <2>1, <2>2, <2>3, <2>4
<1>3. Held' = Held
  BY <1>1, <1>2 DEF Held, BytesFrom
<1> QED BY <1>1, <1>3 DEF SharedFifoStep, SharedFifo!vars, UsableCapacity, result

\* With the store of the count the oldest byte, which the caller has, is gone.
LEMMA GetStoreRefines ==
  ASSUME SharedInv, SharedInv', NEW c \in Caller, GetStore(c)
  PROVE  SharedFifoStep
<1>1. /\ Some /\ tail = NextSlot(Back(tail)) /\ Copied(c, Back(tail))
      /\ count' = count - 1 /\ ret' = 1 /\ wanted' = (byte[c] # NULL)
      /\ out' = IF byte[c] # NULL THEN byte[c] ELSE out
      /\ UNCHANGED <<mem, data, capacity, tail, given, section>>
  BY Acting DEF GetStore, Return, Go, Cohere, Getting
<1>2. ~Where(Empties) /\ ~Where(Empties)' /\ Oldest = Back(tail) /\ Oldest' = tail
  BY <1>1, OwnerPlace DEF GetStore, Empties
<1>3. /\ data \in Buffer /\ capacity \in Nat \ {0} /\ count \in 1 .. capacity
      /\ Back(tail) \in 0 .. capacity - 1
  BY <1>1, <1>2, OldestIndexes, Types DEF Some
<1>4. /\ Held \in Seq(Byte) /\ Len(Held) = count
      /\ \A k \in 1 .. count : Held[k] = mem[data][(Back(tail) + (k - 1)) % capacity]
  BY <1>2, HeldIsASequence DEF HeldIsASeq
<1>5. /\ Held' \in Seq(Byte) /\ Len(Held') = count - 1
      /\ \A k \in 1 .. count - 1 : Held'[k] = mem[data][(tail + (k - 1)) % capacity]
  <2>1. HeldIsASeq'
    BY HeldIsASequence, PTL
  <2> QED BY <1>1, <1>2, <2>1 DEF HeldIsASeq
<1>6. Held # <<>>
  BY <1>3, <1>4, EmptySeq
<1>7. byte[c] # NULL => byte[c] = Head(Held)
  <2>1. (Back(tail) + (1 - 1)) % capacity = Back(tail)
    BY <1>3
  <2> QED BY <1>1, <1>3, <1>4, <2>1 DEF Copied
<1>8. ASSUME NEW k \in 1 .. count - 1
      PROVE  Held'[k] = Held[k + 1]
  <2>1. (((Back(tail) + 1) % capacity) + (k - 1)) % capacity = (Back(tail) + k) % capacity
    <3>1. k \in 1 .. capacity
      BY <1>3
    <3> QED BY <1>3, <3>1, GetSlot
  <2>2. (tail + (k - 1)) % capacity = (Back(tail) + k) % capacity
    BY <1>1, <2>1, Zenon DEF NextSlot
  <2>3. k + 1 \in 1 .. count /\ (k + 1) - 1 = k
    BY <1>3
  <2>4. Held[k + 1] = mem[data][(Back(tail) + k) % capacity]
    BY <1>4, <2>3
  <2> QED BY <1>5, <2>2, <2>4
<1>9. Held' = Tail(Held)
  <2>1. /\ Tail(Held) \in Seq(Byte) /\ Len(Tail(Held)) = count - 1
        /\ \A k \in 1 .. count - 1 : Tail(Held)[k] = Held[k + 1]
    BY <1>4, <1>6, HeadTailProperties
  <2>2. \A k \in 1 .. Len(Held') : Held'[k] = Tail(Held)[k]
    BY <1>5, <1>8, <2>1
  <2> QED BY <1>5, <2>1, <2>2, SeqEqual
<1>10. UNCHANGED UsableCapacity
  BY <1>1 DEF UsableCapacity
<1>11. SharedFifo!Get(byte[c] # NULL)
  BY <1>1, <1>6, <1>7, <1>9, <1>10 DEF SharedFifo!Get
<1> QED BY <1>11 DEF SharedFifoStep, SharedFifo!Next

\* Under the critical section the callers together have one FIFO queue.
THEOREM SharedFifoTheorem == SharedSpec => SharedImplementsFifo
<1>1. SharedInit => SharedFifo!Init
  <2> SUFFICES ASSUME SharedInit PROVE SharedFifo!Init
    OBVIOUS
  <2>1. Held = <<>>
    BY SharedInvInductive, NoneHeld DEF SharedInit, Init
  <2>2. UsableCapacity \in 0 .. Size
    BY ByteQueueAssumption DEF SharedInit, Init, UsableCapacity
  <2> QED BY <2>1, <2>2 DEF SharedInit, Init, SharedFifo!Init
<1>2. SharedInv /\ SharedInv' /\ [SharedNext]_sharedVars => SharedFifoStep
  <2>1. CASE UNCHANGED sharedVars
    BY <2>1 DEF sharedVars, local, vars, queue, result, SharedFifoStep, SharedFifo!vars,
                Held, Where, Oldest, Back, BytesFrom, UsableCapacity
  <2>2. CASE SharedNext
    BY <2>2, EnterRefines, LeaveRefines, EmptyingRefines, RefusedRefines, PuttingRefines,
       PutStoreRefines, GettingRefines, GetStoreRefines DEF SharedNext, Step
  <2> QED BY <2>1, <2>2
<1> QED BY <1>1, <1>2, SharedInvInductive, PTL
        DEF SharedSpec, SharedImplementsFifo, SharedFifo!Spec, SharedFifoStep
=============================================================================
