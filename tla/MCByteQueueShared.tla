------------------------- MODULE MCByteQueueShared -------------------------
(***************************************************************************)
(* A thread and an interrupt on one queue, two buffers of three bytes, two *)
(* byte values: the queue fills, wraps, and moves with bytes left in it.   *)
(***************************************************************************)
EXTENDS ByteQueueShared
=============================================================================
