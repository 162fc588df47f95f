------------------------------ MODULE ByteFifo ------------------------------
(***************************************************************************)
(* What byte_queue promises its caller: a first-in first-out queue of      *)
(* bytes that uses its whole capacity, refuses a put only when it is full  *)
(* and a get only when it is empty, and hands every byte out once, in      *)
(* order.  ByteQueue.tla, the ring buffer of byte_queue.c, implements it.  *)
(***************************************************************************)
EXTENDS Naturals, Sequences

CONSTANTS Byte,          \* the values of a byte
          MaxCapacity    \* the largest capacity a caller asks for

VARIABLES items,      \* the queued bytes, oldest first
          capacity,   \* how many bytes the queue can hold
          ret,        \* what the last put or get returned
          given,      \* the byte the last put that was not refused was called with
          wanted,     \* did the last get ask for the byte, or have it dropped?
          out         \* the caller's variable that a get writes

vars == <<items, capacity, ret, given, wanted, out>>

Init == /\ items = <<>>
        /\ capacity \in 0 .. MaxCapacity
        /\ ret = 1
        /\ given \in Byte
        /\ wanted = FALSE
        /\ out \in Byte

Attach == /\ capacity' \in 0 .. MaxCapacity
          /\ items' = <<>>
          /\ UNCHANGED <<ret, given, wanted, out>>

Clear == /\ items' = <<>>
         /\ UNCHANGED <<capacity, ret, given, wanted, out>>

Put(v) == /\ Len(items) < capacity
          /\ items' = Append(items, v)
          /\ ret' = 1
          /\ given' = v
          /\ UNCHANGED <<capacity, wanted, out>>

PutRefused == /\ Len(items) = capacity
              /\ ret' = 0
              /\ UNCHANGED <<items, capacity, given, wanted, out>>

Get(asked) == /\ items # <<>>
              /\ items' = Tail(items)
              /\ out' = IF asked THEN Head(items) ELSE out
              /\ wanted' = asked
              /\ ret' = 1
              /\ UNCHANGED <<capacity, given>>

GetRefused == /\ items = <<>>
              /\ ret' = 0
              /\ UNCHANGED <<items, capacity, given, wanted, out>>

Next == \/ Attach \/ Clear
        \/ \E v \in Byte : Put(v)
        \/ PutRefused
        \/ \E asked \in BOOLEAN : Get(asked)
        \/ GetRefused

Spec == Init /\ [][Next]_vars
=============================================================================
