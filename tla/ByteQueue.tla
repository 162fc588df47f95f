----------------------------- MODULE ByteQueue -----------------------------
(***************************************************************************)
(* byte_queue.c: a byte ring queue over a buffer the caller owns.  Each    *)
(* call is one action: the module takes no lock, and byte_queue.h asks the *)
(* caller to wrap concurrent calls in a critical section of its own.       *)
(*                                                                         *)
(* The caller's buffers stay in the model when the queue is re-targeted,   *)
(* so that a write to a buffer the queue no longer owns is visible.        *)
(***************************************************************************)
EXTENDS Naturals, Sequences

CONSTANTS Byte,    \* the values of a byte
          Buffer,  \* the backing buffers of the caller
          Size,    \* the length of each of them
          NULL     \* the null pointer

ASSUME ByteQueueAssumption == /\ Size \in Nat \ {0}
                              /\ NULL \notin Buffer
                              /\ Byte # {}

VARIABLES mem,       \* contents of the caller's buffers
          data, capacity, head, tail, count,   \* st_byte_queue
          ret,       \* what the last bq_put or bq_get returned
          given,     \* the byte the last bq_put that was not refused was given
          wanted,    \* was the out pointer of the last bq_get non-null?
          out        \* the variable that pointer points to

queue  == <<data, capacity, head, tail, count>>
result == <<ret, given, wanted, out>>
vars   == <<mem, queue, result>>

Slot == 0 .. Size - 1

\* Types; the cursors always index the buffer.
TypeOK == /\ mem \in [Buffer -> [Slot -> Byte]]
          /\ data \in Buffer \cup {NULL}
          /\ capacity \in 0 .. Size
          /\ head \in Slot /\ tail \in Slot
          /\ count \in Nat
          /\ ret \in {0, 1}
          /\ given \in Byte
          /\ wanted \in BOOLEAN
          /\ out \in Byte
-----------------------------------------------------------------------------
\* A buffer that holds `cap' bytes, or a null buffer with any capacity.
Init == /\ mem \in [Buffer -> [Slot -> Byte]]
        /\ data \in Buffer \cup {NULL}
        /\ capacity \in 0 .. Size
        /\ head = 0 /\ tail = 0 /\ count = 0
        /\ ret = 1 /\ given \in Byte /\ wanted = FALSE /\ out \in Byte

\* (mutant) the read cursor is not rewound
EmptyKeepsTail == head' = 0 /\ count' = 0 /\ UNCHANGED tail

Empty == head' = 0 /\ tail' = 0 /\ count' = 0

bq_init(buffer, cap) == /\ data' = buffer
                        /\ capacity' = cap
                        /\ Empty
                        /\ UNCHANGED <<mem, result>>

bq_clear == /\ Empty
            /\ UNCHANGED <<mem, data, capacity, result>>

bq_is_empty == count = 0

\* (mutant) off by one
FullIsLate == count > capacity

bq_is_full == count >= capacity

\* (mutants) a cursor that does not wrap, or wraps at the buffer's end
NextUnwrapped(i) == i + 1
NextBySize(i)    == (i + 1) % Size

\* The slot after i, for both cursors.
NextSlot(i) == (i + 1) % capacity

\* bq_put has a full test of its own, written like bq_is_full.
bq_put(v) ==
  IF data = NULL \/ capacity = 0 \/ bq_is_full
  THEN ret' = 0 /\ UNCHANGED <<mem, queue, given, wanted, out>>
  ELSE /\ mem' = [mem EXCEPT ![data][head] = v]
       /\ head' = NextSlot(head)
       /\ count' = count + 1
       /\ ret' = 1 /\ given' = v
       /\ UNCHANGED <<data, capacity, tail, wanted, out>>

bq_get(asked) ==
  IF data = NULL \/ bq_is_empty
  THEN ret' = 0 /\ UNCHANGED <<mem, queue, given, wanted, out>>
  ELSE /\ out' = IF asked THEN mem[data][tail] ELSE out
       /\ tail' = NextSlot(tail)
       /\ count' = count - 1
       /\ ret' = 1
       /\ wanted' = asked
       /\ UNCHANGED <<mem, data, capacity, head, given>>

Next == \/ \E buffer \in Buffer \cup {NULL}, cap \in 0 .. Size : bq_init(buffer, cap)
        \/ bq_clear
        \/ \E v \in Byte : bq_put(v)
        \/ \E asked \in BOOLEAN : bq_get(asked)

Spec == Init /\ [][Next]_vars
-----------------------------------------------------------------------------
\* The slot of the k-th oldest queued byte.
SlotOf(k) == (tail + k) % capacity

LiveSlots == {SlotOf(k) : k \in 0 .. count - 1}

\* The cursors and the count agree: the count never exceeds the capacity,
\* and the write cursor is `count' slots past the read cursor.  bq_put and
\* bq_get each update one cursor and the count; after any series of calls,
\* re-targeting and clearing included, they describe the same bytes.
RingConsistent ==
  /\ count <= capacity
  /\ IF capacity = 0 THEN head = 0 /\ tail = 0
                     ELSE tail < capacity /\ head = SlotOf(count)

\* The queue writes only the buffer it was given last, within the capacity it
\* was given, and never a byte that is still queued: re-targeting leaves the
\* old storage alone ("just call bq_init again") and bq_clear the bytes.
WritesOnlyFreeSlots ==
  [][\A b \in Buffer, i \in Slot :
       mem'[b][i] # mem[b][i] => b = data /\ i < capacity /\ i \notin LiveSlots]_vars

\* The bytes in the queue, oldest first.
Queued == [k \in 1 .. count |-> mem[data][SlotOf(k - 1)]]

\* A queue over a null buffer accepts nothing, whatever its capacity says.
UsableCapacity == IF data = NULL THEN 0 ELSE capacity

Fifo == INSTANCE ByteFifo WITH items <- Queued, capacity <- UsableCapacity,
                               MaxCapacity <- Size

\* The ring buffer is a bounded FIFO queue: bytes come out once each, in the
\* order they went in, across any number of wrap-arounds; a put is refused
\* only on a full queue and a get only on an empty one.
ImplementsFifo == Fifo!Spec
=============================================================================
