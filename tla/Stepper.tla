------------------------------ MODULE Stepper ------------------------------
(***************************************************************************)
(* stepper.c: a step-motor controller that a periodic tick drives and that *)
(* the application retargets and retimes between any two ticks.  A call is *)
(* one action.  The pin callbacks write stepPin, dirPin and enPin; the     *)
(* driver chip behind them turns `motor' one step on each rising edge of   *)
(* STEP, in the direction that DIR shows at that moment.                   *)
(***************************************************************************)
EXTENDS Integers

CONSTANTS HalfRange,           \* 2^31: positions are -HalfRange .. HalfRange - 1
          MaxDelay,            \* 2^16 - 1: the largest delay_max
          CwValue, CcwValue    \* DIR levels of the caller's wiring

ASSUME StepperAssumption == /\ HalfRange \in Nat \ {0}
                            /\ MaxDelay \in Nat
                            /\ CwValue # CcwValue

Position == -HalfRange .. HalfRange - 1
DirValue == {0, CwValue, CcwValue}

VARIABLES wired,                         \* step_pin and dir_pin are set
          enWired,                       \* en_pin is set
          current_pos, target_pos, delay_max, delay_cnt,
          step_high, current_dir, dir_initialized,
          stepPin, dirPin, enPin,        \* levels of the pins
          motor,                         \* steps the motor has turned since init
          sinceEdge,   \* ticks since STEP last changed, up to MaxDelay + 1
          steady       \* moving at an unchanged delay since that edge

callbacks == <<wired, enWired>>
dir       == <<current_dir, dir_initialized, dirPin>>
step      == <<step_high, stepPin, motor, current_pos>>
vars      == <<callbacks, target_pos, delay_max, delay_cnt, dir, step, enPin,
               sinceEdge, steady>>

\* Types; no position leaves the range of an int32_t.
TypeOK == /\ wired \in BOOLEAN /\ enWired \in BOOLEAN
          /\ current_pos \in Position /\ target_pos \in Position
          /\ delay_max \in 0 .. MaxDelay /\ delay_cnt \in 0 .. MaxDelay
          /\ step_high \in {0, 1} /\ stepPin \in {0, 1} /\ enPin \in {0, 1}
          /\ current_dir \in DirValue /\ dirPin \in DirValue
          /\ dir_initialized \in BOOLEAN
          /\ motor \in Int
          /\ sinceEdge \in 0 .. MaxDelay + 1
          /\ steady \in BOOLEAN
-----------------------------------------------------------------------------
Init == /\ wired \in BOOLEAN /\ enWired \in BOOLEAN
        /\ current_pos = 0 /\ target_pos = 0
        /\ delay_max = 0 /\ delay_cnt = 0
        /\ step_high = 0 /\ current_dir = 0 /\ dir_initialized = FALSE
        /\ stepPin = 0 /\ dirPin \in DirValue /\ enPin \in {0, 1}
        /\ motor = 0 /\ sinceEdge = MaxDelay + 1 /\ steady = FALSE

\* A second stepper_init; the pins keep their levels.
stepper_init ==
  /\ wired' \in BOOLEAN /\ enWired' \in BOOLEAN
  /\ current_pos' = 0 /\ target_pos' = 0
  /\ delay_max' = 0 /\ delay_cnt' = 0
  /\ step_high' = 0 /\ current_dir' = 0 /\ dir_initialized' = FALSE
  /\ motor' = 0 /\ steady' = FALSE
  /\ UNCHANGED <<stepPin, dirPin, enPin, sinceEdge>>

\* The sum of two positions: the 32-bit add the function compiles to.
Add32(p, d) == LET s == p + d
               IN  IF s >= HalfRange THEN s - 2 * HalfRange
                   ELSE IF s < -HalfRange THEN s + 2 * HalfRange ELSE s

Retarget(p) == /\ target_pos' = p
               /\ UNCHANGED <<callbacks, delay_max, delay_cnt, dir, step, enPin,
                              sinceEdge, steady>>

\* (mutant) the sum is not wrapped to 32 bits
MoveBySum(delta) == Retarget(target_pos + delta)

stepper_move_relative(delta) == Retarget(Add32(target_pos, delta))

stepper_move_to(target) == Retarget(target)

\* delay_cnt is not reset: a new delay takes effect within the current wait.
stepper_set_delay(n) == /\ delay_max' = n
                        /\ steady' = FALSE
                        /\ UNCHANGED <<callbacks, target_pos, delay_cnt, dir, step,
                                       enPin, sinceEdge>>

stepper_enable(enabled) ==
  /\ enPin' = IF ~enWired THEN enPin ELSE IF enabled THEN 1 ELSE 0
  /\ UNCHANGED <<callbacks, target_pos, delay_max, delay_cnt, dir, step, sinceEdge, steady>>

stepper_is_busy == current_pos # target_pos
-----------------------------------------------------------------------------
\* One more tick without, and the tick with, an edge on STEP.
NoEdge == sinceEdge' = IF sinceEdge > MaxDelay THEN sinceEdge ELSE sinceEdge + 1
Edge   == sinceEdge' = 0 /\ steady' = TRUE

TickUnwired == ~wired /\ UNCHANGED vars

\* (mutants) the wait is one tick short, or one tick long
WaitShort == delay_cnt + 1 < delay_max
WaitLong  == delay_cnt <= delay_max

Waiting == delay_cnt < delay_max

TickWaits == /\ wired /\ Waiting
             /\ delay_cnt' = delay_cnt + 1
             /\ NoEdge
             /\ UNCHANGED <<callbacks, target_pos, delay_max, dir, step, enPin, steady>>

\* (mutant) a step pending at the target is left high
StopHigh == /\ wired /\ ~Waiting /\ target_pos = current_pos
            /\ delay_cnt' = 0
            /\ NoEdge
            /\ UNCHANGED <<callbacks, target_pos, delay_max, dir, step, enPin, steady>>

TickStops == /\ wired /\ ~Waiting /\ target_pos = current_pos
             /\ delay_cnt' = 0
             /\ IF step_high = 1 THEN stepPin' = 0 /\ step_high' = 0 /\ Edge
                                 ELSE NoEdge /\ steady' = FALSE /\ UNCHANGED <<stepPin, step_high>>
             /\ UNCHANGED <<callbacks, target_pos, delay_max, dir, motor, current_pos, enPin>>

want_dir == IF target_pos > current_pos THEN CwValue ELSE CcwValue

\* (mutant) DIR is compared with a current_dir that was never driven
DriveDirOnChange == IF want_dir # current_dir
                    THEN dirPin' = want_dir /\ current_dir' = want_dir /\ dir_initialized' = TRUE
                    ELSE UNCHANGED dir

DriveDir == IF ~dir_initialized \/ want_dir # current_dir
            THEN dirPin' = want_dir /\ current_dir' = want_dir /\ dir_initialized' = TRUE
            ELSE UNCHANGED dir

\* step_pin(level), and the motor behind it.
DriveStep(level) ==
  /\ stepPin' = level
  /\ step_high' = level
  /\ motor' = IF stepPin = 0 /\ level = 1
              THEN motor + (IF dirPin' = CwValue THEN 1 ELSE -1) ELSE motor

\* (mutant) the position is counted on the falling edge
CountOnFall == current_pos' = IF step_high = 0 THEN current_pos
                              ELSE IF target_pos > current_pos THEN current_pos + 1 ELSE current_pos - 1

CountStep == current_pos' = IF step_high = 1 THEN current_pos
                            ELSE IF target_pos > current_pos THEN current_pos + 1 ELSE current_pos - 1

TickToggles == /\ wired /\ ~Waiting /\ target_pos # current_pos
               /\ delay_cnt' = 0
               /\ DriveDir
               /\ DriveStep(1 - step_high)
               /\ CountStep
               /\ Edge
               /\ UNCHANGED <<callbacks, target_pos, delay_max, enPin>>

stepper_tick == TickUnwired \/ TickWaits \/ TickStops \/ TickToggles

Calls == \/ \E delta \in Position : stepper_move_relative(delta)
         \/ \E target \in Position : stepper_move_to(target)
         \/ \E n \in 0 .. MaxDelay : stepper_set_delay(n)
         \/ \E enabled \in BOOLEAN : stepper_enable(enabled)
         \/ stepper_tick

\* The application re-initialises only between pulses: stepper_init forgets a
\* STEP pin that is high, so that the next step is counted without an edge.
Next == Calls \/ (stepPin = 0 /\ stepper_init)

Spec == Init /\ [][Next]_vars
-----------------------------------------------------------------------------
\* The counted position is where the motor really is, through reversals in
\* the middle of a pulse, retargeting and re-initialisation: the cached DIR
\* level is right whenever a rising edge is driven.
PositionTracksMotor == motor = current_pos

\* STEP never toggles before delay_max whole ticks have passed since its last
\* edge, whatever delays were set meanwhile (so no pulse is shorter), and
\* after exactly delay_max when the motor keeps moving at one delay: the rate
\* tick_rate / 2 / (1 + delay_max) of stepper.h.
PulseTiming == [][stepPin' # stepPin => /\ sinceEdge >= delay_max
                                        /\ steady => sinceEdge = delay_max]_vars

\* No edge is overdue while the motor keeps moving at one delay.
RateKept == steady => sinceEdge <= delay_max

\* The motor only ever moves towards the target of the moment, one step at a
\* time, and never past it.
Plan == INSTANCE Positioner WITH target <- target_pos
ImplementsPositioner == Plan!Spec

\* A DIR level is set up at least a tick before the next rising edge of STEP,
\* as the README says of DRV8825-like drivers.  The code drives both pins in
\* the same tick.
DirSetup == [][stepPin = 0 /\ stepPin' = 1 => dirPin' = dirPin]_vars

\* The timer keeps ticking; the application owes nothing.
FairSpec == Spec /\ WF_vars(stepper_tick)

\* Once the application leaves the target alone, the motor arrives, and STEP
\* is left low, even if the delay keeps changing.
Settles == <>[]wired /\ <>[][UNCHANGED target_pos]_target_pos
             => <>[](~stepper_is_busy /\ stepPin = 0)
=============================================================================
