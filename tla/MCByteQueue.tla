---------------------------- MODULE MCByteQueue ----------------------------
(***************************************************************************)
(* Two buffers of three bytes, two byte values: enough to wrap, to fill at *)
(* a capacity below the buffer's length, and to re-target with bytes left. *)
(***************************************************************************)
EXTENDS ByteQueue
=============================================================================
