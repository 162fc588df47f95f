----------------------------- MODULE MCStepper -----------------------------
(***************************************************************************)
(* Six positions and delays of 0 to 3 ticks: a reversal can fall into      *)
(* either half of a pulse and a new delay into any tick of a wait, and a   *)
(* relative move can wrap around the range.                                *)
(***************************************************************************)
EXTENDS Stepper
=============================================================================
