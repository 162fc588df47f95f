----------------------------- MODULE Positioner -----------------------------
(***************************************************************************)
(* What the stepper controller promises of the motor: it moves one step at *)
(* a time, always towards the target of the moment, and never past it.     *)
(***************************************************************************)
EXTENDS Integers

CONSTANT Position     \* the coordinates an int32_t can hold

VARIABLES motor,      \* steps the motor has turned, clockwise positive
          target      \* where it is told to go

vars == <<motor, target>>

Init == motor = 0 /\ target = 0

\* The place where the motor stands becomes the origin.
Rezero == motor' = 0 /\ target' = 0

Retarget == target' \in Position /\ UNCHANGED motor

Advance == /\ motor # target
           /\ motor' = IF motor < target THEN motor + 1 ELSE motor - 1
           /\ UNCHANGED target

Next == Rezero \/ Retarget \/ Advance

Spec == Init /\ [][Next]_vars
=============================================================================
