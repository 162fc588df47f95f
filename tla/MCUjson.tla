------------------------------ MODULE MCUjson ------------------------------
(***************************************************************************)
(* Every byte class the parser tells apart, two pairs, slots of one byte   *)
(* and a NUL: each token, and the table, can overflow.                     *)
(***************************************************************************)
EXTENDS Ujson

MCByte == {"{", "}", "\"", ":", ",", "-", " ", "7", "a", NUL}
=============================================================================
