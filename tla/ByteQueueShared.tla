-------------------------- MODULE ByteQueueShared --------------------------
(***************************************************************************)
(* One byte queue, several callers: threads, or a thread and an interrupt. *)
(* ByteQueue.tla makes a call one step; here it is the reads and writes of *)
(* memory that byte_queue.c makes, in their order, with the increment of   *)
(* the count split into its load and its store.  The queue takes no lock:  *)
(* "wrap calls in your own critical section" (byte_queue.h) is the section *)
(* below, a mutex, or interrupts masked by the thread (an interrupt        *)
(* handler, which runs to its end, is in the section while it runs).       *)
(***************************************************************************)
EXTENDS ByteQueue

CONSTANTS Caller,   \* the threads and interrupts that share the queue
          FREE      \* the owner of a section that nobody is in

ASSUME SharedAssumption == FREE \notin Caller /\ NULL \notin Byte

VARIABLES section,   \* the caller in the critical section
          at,        \* what each caller executes next
          reg,       \* the register it loaded the count into
          byte       \* the byte it puts or has copied out, NULL for none

local      == <<section, at, reg, byte>>
sharedVars == <<vars, local>>

Call    == {"SetData", "SetHead", "PutTest", "GetTest"}
Empties == {"SetData", "SetCapacity", "SetHead", "SetTail", "SetCount"}
Putting == {"PutByte", "PutHead", "PutLoad", "PutStore"}
Getting == {"GetByte", "GetTail", "GetLoad", "GetStore"}
Place   == {"outside", "PutTest", "GetTest", "return"} \cup Empties \cup Putting \cup Getting

SharedInit == /\ Init
              /\ section = FREE
              /\ at = [c \in Caller |-> "outside"]
              /\ reg = [c \in Caller |-> 0]
              /\ byte = [c \in Caller |-> NULL]

Go(c, from, to) == at[c] = from /\ at' = [at EXCEPT ![c] = to]

Return(r) == ret' = r
-----------------------------------------------------------------------------
\* A bq_put comes with its byte.
Start(c, v) == /\ \E call \in Call : /\ Go(c, "outside", call)
                                     /\ v = NULL <=> call # "PutTest"
               /\ section' = c
               /\ byte' = [byte EXCEPT ![c] = v]
               /\ UNCHANGED <<vars, reg>>

\* (mutant) a consumer goes without the section, since one side only puts
\* and the other only gets
EnterBesidePut(c) ==
  /\ \E v \in Byte \cup {NULL} : Start(c, v)
  /\ \A d \in Caller : at[d] # "outside" => at[d] \in Putting /\ at'[c] = "GetTest"

Enter(c) == /\ section = FREE
            /\ \E v \in Byte \cup {NULL} : Start(c, v)

Leave(c) == /\ Go(c, "return", "outside")
            /\ section' = FREE
            /\ reg' = [reg EXCEPT ![c] = 0]
            /\ byte' = [byte EXCEPT ![c] = NULL]
            /\ UNCHANGED vars

\* bq_init stores the buffer and the capacity, then empties as bq_clear does.
SetData(c) == /\ Go(c, "SetData", "SetCapacity")
              /\ data' \in Buffer \cup {NULL}
              /\ UNCHANGED <<mem, capacity, head, tail, count, result, section, reg, byte>>

SetCapacity(c) == /\ Go(c, "SetCapacity", "SetHead")
                  /\ capacity' \in 0 .. Size
                  /\ UNCHANGED <<mem, data, head, tail, count, result, section, reg, byte>>

SetHead(c) == /\ Go(c, "SetHead", "SetTail")
              /\ head' = 0
              /\ UNCHANGED <<mem, data, capacity, tail, count, result, section, reg, byte>>

SetTail(c) == /\ Go(c, "SetTail", "SetCount")
              /\ tail' = 0
              /\ UNCHANGED <<mem, data, capacity, head, count, result, section, reg, byte>>

SetCount(c) == /\ Go(c, "SetCount", "return")
               /\ count' = 0
               /\ UNCHANGED <<mem, data, capacity, head, tail, result, section, reg, byte>>

PutRefused(c) == /\ data = NULL \/ capacity = 0 \/ bq_is_full
                 /\ Go(c, "PutTest", "return")
                 /\ Return(0)
                 /\ UNCHANGED <<mem, queue, given, wanted, out, section, reg, byte>>

PutTest(c) == /\ ~(data = NULL \/ capacity = 0 \/ bq_is_full)
              /\ Go(c, "PutTest", "PutByte")
              /\ UNCHANGED <<vars, section, reg, byte>>

PutByte(c) == /\ Go(c, "PutByte", "PutHead")
              /\ mem' = [mem EXCEPT ![data][head] = byte[c]]
              /\ UNCHANGED <<queue, result, section, reg, byte>>

PutHead(c) == /\ Go(c, "PutHead", "PutLoad")
              /\ head' = NextSlot(head)
              /\ UNCHANGED <<mem, data, capacity, tail, count, result, section, reg, byte>>

PutLoad(c) == /\ Go(c, "PutLoad", "PutStore")
              /\ reg' = [reg EXCEPT ![c] = count]
              /\ UNCHANGED <<vars, section, byte>>

PutStore(c) == /\ Go(c, "PutStore", "return")
               /\ count' = reg[c] + 1
               /\ Return(1)
               /\ given' = byte[c]
               /\ UNCHANGED <<mem, data, capacity, head, tail, wanted, out, section, reg, byte>>

GetRefused(c) == /\ data = NULL \/ bq_is_empty
                 /\ Go(c, "GetTest", "return")
                 /\ Return(0)
                 /\ UNCHANGED <<mem, queue, given, wanted, out, section, reg, byte>>

GetTest(c) == /\ ~(data = NULL \/ bq_is_empty)
              /\ Go(c, "GetTest", "GetByte")
              /\ UNCHANGED <<vars, section, reg, byte>>

\* The store to the caller's *out, if it gave one: byte[c] is what it points
\* to, and the observer out takes it over when the call takes effect, below.
GetByte(c) == /\ Go(c, "GetByte", "GetTail")
              /\ \/ byte' = [byte EXCEPT ![c] = mem[data][tail]]
                 \/ UNCHANGED byte
              /\ UNCHANGED <<vars, section, reg>>

GetTail(c) == /\ Go(c, "GetTail", "GetLoad")
              /\ tail' = NextSlot(tail)
              /\ UNCHANGED <<mem, data, capacity, head, count, result, section, reg, byte>>

GetLoad(c) == /\ Go(c, "GetLoad", "GetStore")
              /\ reg' = [reg EXCEPT ![c] = count]
              /\ UNCHANGED <<vars, section, byte>>

GetStore(c) == /\ Go(c, "GetStore", "return")
               /\ count' = reg[c] - 1
               /\ Return(1)
               /\ wanted' = (byte[c] # NULL)
               /\ out' = IF byte[c] # NULL THEN byte[c] ELSE out
               /\ UNCHANGED <<mem, data, capacity, head, tail, given, section, reg, byte>>

Step(c) == \/ Enter(c) \/ Leave(c)
           \/ SetData(c) \/ SetCapacity(c) \/ SetHead(c) \/ SetTail(c) \/ SetCount(c)
           \/ PutRefused(c) \/ PutTest(c) \/ PutByte(c) \/ PutHead(c) \/ PutLoad(c) \/ PutStore(c)
           \/ GetRefused(c) \/ GetTest(c) \/ GetByte(c) \/ GetTail(c) \/ GetLoad(c) \/ GetStore(c)

SharedNext == \E c \in Caller : Step(c)

SharedSpec == SharedInit /\ [][SharedNext]_sharedVars
-----------------------------------------------------------------------------
Where(places) == \E c \in Caller : at[c] \in places

\* Whenever no call is under way the cursors and the count agree, though every
\* call passes through states in which they do not, the head and the tail
\* being moved before the count (byte_queue.c:53-54, 66-67): a call that ran
\* inside another one would leave them apart for good, an update lost.
ConsistentBetweenCalls == (\A c \in Caller : at[c] = "outside") => RingConsistent

\* While a get is between its two stores, the oldest byte is one slot back.
Back(i) == (i + (capacity - 1)) % capacity
Oldest  == IF Where({"GetLoad", "GetStore"}) THEN Back(tail) ELSE tail

BytesFrom(t) == [k \in 1 .. count |-> mem[data][(t + (k - 1)) % capacity]]

\* The bytes in the queue: a call takes effect at its store of the count,
\* bq_init and bq_clear when they begin.
Held == IF Where(Empties) THEN <<>> ELSE BytesFrom(Oldest)

SharedFifo == INSTANCE ByteFifo WITH items <- Held, capacity <- UsableCapacity,
                                     MaxCapacity <- Size

\* Under the caller's critical section the calls of all threads and
\* interrupts together are those of one bounded FIFO queue: no byte is lost,
\* doubled or reordered, and no put or get refused without cause, wherever
\* in a call the other callers become ready to run.
SharedImplementsFifo == SharedFifo!Spec
=============================================================================
