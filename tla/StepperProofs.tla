--------------------------- MODULE StepperProofs ---------------------------
(***************************************************************************)
(* The stepper controller for every range of positions and every longest   *)
(* delay: it counts what the motor does, times the pulses as documented,   *)
(* implements Positioner, and gets nearer to rest by every tick.           *)
(***************************************************************************)
EXTENDS Stepper, TLAPS

\* The bookkeeping agrees with the pins.
PinsKnown == /\ stepPin = step_high
             /\ dir_initialized => dirPin = current_dir

\* The wait counts ticks since the last edge: no more than there were, and
\* all of them while the motor keeps moving.
WaitCounts == /\ delay_cnt <= sinceEdge
              /\ steady => delay_cnt = sinceEdge /\ delay_cnt <= delay_max

IInv == TypeOK /\ PositionTracksMotor /\ PinsKnown /\ WaitCounts

\* The values of an initialised controller have their types.
LEMMA ZeroTypes == /\ 0 \in Position /\ 0 \in DirValue /\ 0 \in 0 .. MaxDelay
                   /\ MaxDelay + 1 \in 0 .. MaxDelay + 1 /\ MaxDelay \in Nat
  BY StepperAssumption DEF Position, DirValue

\* stepper_init establishes the invariant.
LEMMA InitIInv == Init => IInv
<1> SUFFICES ASSUME Init PROVE IInv
  OBVIOUS
<1>1. /\ ~steady /\ ~dir_initialized
      /\ steady \in BOOLEAN /\ dir_initialized \in BOOLEAN /\ wired \in BOOLEAN /\ enWired \in BOOLEAN
  BY Zenon DEF Init
<1>2. TypeOK
  BY <1>1, ZeroTypes DEF Init, TypeOK
<1>3. PositionTracksMotor /\ PinsKnown /\ WaitCounts
  BY <1>1, ZeroTypes DEF Init, PositionTracksMotor, PinsKnown, WaitCounts
<1> QED BY <1>2, <1>3 DEF IInv

\* A 32-bit add stays in range.
LEMMA Add32Type ==
  ASSUME NEW p \in Position, NEW d \in Position
  PROVE  Add32(p, d) \in Position
  BY StepperAssumption DEF Add32, Position

\* Retargeting touches nothing but the target.
LEMMA RetargetIInv ==
  ASSUME IInv, NEW p \in Position, Retarget(p)
  PROVE  IInv'
  BY DEF Retarget, callbacks, dir, step, IInv, TypeOK, PositionTracksMotor, PinsKnown, WaitCounts

\* A rising edge turns the motor in the direction that the position is counted.
LEMMA ToggleMoves ==
  ASSUME IInv, TickToggles
  PROVE  /\ stepPin' = 1 - stepPin /\ step_high' = stepPin' /\ step_high' \in {0, 1}
         /\ dir_initialized' /\ dirPin' = current_dir' /\ dirPin' \in DirValue
         /\ motor' = current_pos'
         /\ current_pos' \in Position
         /\ current_pos' # current_pos =>
              /\ current_pos # target_pos
              /\ current_pos' = IF current_pos < target_pos THEN current_pos + 1 ELSE current_pos - 1
<1>1. /\ current_pos \in Position /\ target_pos \in Position /\ motor = current_pos
      /\ stepPin = step_high /\ step_high \in {0, 1}
      /\ dir_initialized => dirPin = current_dir
      /\ dirPin \in DirValue /\ current_dir \in DirValue /\ dir_initialized \in BOOLEAN
  BY DEF IInv, TypeOK, PositionTracksMotor, PinsKnown
<1>2. dir_initialized' /\ dirPin' = want_dir /\ current_dir' = want_dir
  <2>1. CASE ~dir_initialized \/ want_dir # current_dir
    BY <2>1 DEF TickToggles, DriveDir
  <2>2. CASE ~(~dir_initialized \/ want_dir # current_dir)
    BY <1>1, <2>2 DEF TickToggles, DriveDir, dir
  <2> QED BY <2>1, <2>2
<1>3. /\ dirPin' = CwValue <=> target_pos > current_pos
      /\ want_dir \in DirValue
  BY <1>2, StepperAssumption DEF want_dir, DirValue
<1>4. /\ target_pos # current_pos
      /\ stepPin' = 1 - step_high /\ step_high' = 1 - step_high
      /\ motor' = IF stepPin = 0 /\ 1 - step_high = 1
                  THEN motor + (IF dirPin' = CwValue THEN 1 ELSE -1) ELSE motor
      /\ current_pos' = IF step_high = 1 THEN current_pos
                        ELSE IF target_pos > current_pos THEN current_pos + 1 ELSE current_pos - 1
  BY DEF TickToggles, DriveStep, CountStep
<1>5. CASE step_high = 1
  BY <1>1, <1>2, <1>3, <1>4, <1>5
<1>6. CASE step_high = 0
  BY <1>1, <1>2, <1>3, <1>4, <1>6, StepperAssumption DEF Position
<1> QED BY <1>1, <1>5, <1>6

\* Every call preserves the invariant, a re-initialisation between pulses included.
LEMMA NextIInv == IInv /\ [Next]_vars => IInv'
<1> SUFFICES ASSUME IInv, [Next]_vars
             PROVE  IInv'
  OBVIOUS
<1> USE DEF IInv, PositionTracksMotor, PinsKnown, WaitCounts
<1>1. ASSUME NEW delta \in Position, stepper_move_relative(delta)
      PROVE  IInv'
  <2>1. Add32(target_pos, delta) \in Position
    BY Add32Type DEF TypeOK
  <2> QED BY ONLY <1>1, <2>1, IInv, RetargetIInv DEF stepper_move_relative
<1>2. ASSUME NEW target \in Position, stepper_move_to(target)
      PROVE  IInv'
  BY ONLY <1>2, IInv, RetargetIInv DEF stepper_move_to
<1>3. ASSUME NEW n \in 0 .. MaxDelay, stepper_set_delay(n)
      PROVE  IInv'
  BY <1>3 DEF stepper_set_delay, callbacks, dir, step, TypeOK
<1>4. ASSUME NEW enabled \in BOOLEAN, stepper_enable(enabled)
      PROVE  IInv'
  BY <1>4 DEF stepper_enable, callbacks, dir, step, TypeOK
<1>5. CASE stepper_tick
  <2>1. CASE TickUnwired
    BY <2>1 DEF TickUnwired, vars, callbacks, dir, step, TypeOK
  <2>2. CASE TickWaits
    BY <2>2, StepperAssumption
    DEF TickWaits, Waiting, NoEdge, callbacks, dir, step, TypeOK
  <2>3. CASE TickStops
    <3>1. CASE step_high = 1
      BY <2>3, <3>1, StepperAssumption
      DEF TickStops, Waiting, Edge, callbacks, dir, TypeOK
    <3>2. CASE step_high # 1
      <4>1. ~steady' /\ steady' \in BOOLEAN
        BY <2>3, <3>2, Zenon DEF TickStops
      <4> QED BY <2>3, <3>2, <4>1, StepperAssumption
              DEF TickStops, Waiting, NoEdge, callbacks, dir, TypeOK
    <3> QED BY <3>1, <3>2
  <2>4. CASE TickToggles
    <3>1. /\ delay_cnt' = 0 /\ sinceEdge' = 0 /\ steady' = TRUE
          /\ UNCHANGED <<callbacks, target_pos, delay_max, enPin>>
      BY <2>4 DEF TickToggles, Edge
    <3>2. /\ stepPin' = 1 - stepPin /\ step_high' = stepPin' /\ step_high' \in {0, 1}
          /\ dir_initialized' /\ dirPin' = current_dir' /\ dirPin' \in DirValue
          /\ motor' = current_pos'
          /\ current_pos' \in Position
      BY <2>4, ToggleMoves
    <3>3. current_pos' \in Int
      BY <3>2, StepperAssumption DEF Position
    <3>4. dir_initialized' \in BOOLEAN
      BY <2>4 DEF TickToggles, DriveDir, dir, TypeOK
    <3> QED BY <3>1, <3>2, <3>3, <3>4, StepperAssumption DEF callbacks, TypeOK
  <2> QED BY <1>5, <2>1, <2>2, <2>3, <2>4 DEF stepper_tick
<1>6. CASE stepPin = 0 /\ stepper_init
  <2>1. /\ ~steady' /\ ~dir_initialized'
        /\ steady' \in BOOLEAN /\ dir_initialized' \in BOOLEAN
        /\ wired' \in BOOLEAN /\ enWired' \in BOOLEAN
    BY <1>6, Zenon DEF stepper_init
  <2>2. TypeOK'
    BY <1>6, <2>1, ZeroTypes DEF stepper_init, TypeOK
  <2>3. PositionTracksMotor' /\ PinsKnown' /\ WaitCounts'
    BY <1>6, <2>1, ZeroTypes DEF stepper_init, TypeOK
  <2> QED BY <2>2, <2>3
<1>7. CASE UNCHANGED vars
  BY <1>7 DEF vars, callbacks, dir, step, TypeOK
<1> QED BY <1>1, <1>2, <1>3, <1>4, <1>5, <1>6, <1>7 DEF Next, Calls

\* The invariant holds in every reachable state.
LEMMA Invariance == Spec => []IInv
  BY InitIInv, NextIInv, PTL DEF Spec

\* Positions stay in 32 bits, through every wrap of a relative move, and the
\* wait never counts past the longest delay (stepper.c:41-45, 87-97).
THEOREM TypeTheorem == Spec => []TypeOK
<1>1. IInv => TypeOK
  BY DEF IInv
<1> QED BY <1>1, Invariance, PTL

\* The counted position is the motor's, in every reachable state, and no
\* position, counter or level leaves its type.
THEOREM PositionTheorem == Spec => [](TypeOK /\ PositionTracksMotor)
<1>1. IInv => TypeOK /\ PositionTracksMotor
  BY DEF IInv
<1> QED BY <1>1, Invariance, PTL

\* No edge is overdue while the motor moves at one delay.
THEOREM RateTheorem == Spec => []RateKept
<1>1. IInv => RateKept
  BY DEF IInv, TypeOK, WaitCounts, RateKept
<1> QED BY <1>1, Invariance, PTL

\* Every edge is a whole delay after the previous one.
THEOREM PulseTheorem == Spec => PulseTiming
<1> DEFINE Timed == stepPin' # stepPin => /\ sinceEdge >= delay_max
                                          /\ steady => sinceEdge = delay_max
<1>1. IInv /\ [Next]_vars => [Timed]_vars
  <2> SUFFICES ASSUME IInv, Next, stepPin' # stepPin
               PROVE  /\ sinceEdge >= delay_max
                      /\ steady => sinceEdge = delay_max
    OBVIOUS
  <2>1. ~Waiting
    <3>1. CASE stepper_tick
      BY <3>1 DEF stepper_tick, TickUnwired, TickWaits, TickStops, TickToggles, vars, step
    <3>2. CASE ~stepper_tick
      BY <3>2 DEF Next, Calls, stepper_init, stepper_move_relative, stepper_move_to, Retarget,
                  stepper_set_delay, stepper_enable, step
    <3> QED BY <3>1, <3>2
  <2> QED BY <2>1, StepperAssumption DEF Waiting, IInv, TypeOK, WaitCounts
<1> QED BY <1>1, Invariance, PTL DEF Spec, PulseTiming

\* The motor only moves towards the target of the moment.
THEOREM PositionerTheorem == Spec => ImplementsPositioner
<1>1. Init => Plan!Init
  BY DEF Init, Plan!Init
<1>2. IInv /\ IInv' /\ [Next]_vars => [Plan!Next]_Plan!vars
  <2> SUFFICES ASSUME IInv, IInv', Next
               PROVE  [Plan!Next]_Plan!vars
    BY DEF vars, step, Plan!vars
  <2>1. CASE UNCHANGED motor
    BY <2>1 DEF IInv, TypeOK, Plan!Next, Plan!Retarget, Plan!Rezero, Plan!vars,
                Next, Calls, stepper_init, stepper_tick, TickUnwired, TickWaits, TickStops, TickToggles,
                stepper_set_delay, stepper_enable, vars
  <2>2. CASE TickToggles
    <3>1. /\ motor = current_pos /\ motor' = current_pos' /\ UNCHANGED target_pos
      BY <2>2 DEF IInv, PositionTracksMotor, TickToggles
    <3>2. current_pos' # current_pos =>
              /\ current_pos # target_pos
              /\ current_pos' = IF current_pos < target_pos THEN current_pos + 1 ELSE current_pos - 1
      BY <2>2, ToggleMoves
    <3> QED BY <3>1, <3>2 DEF Plan!Next, Plan!Advance, Plan!vars
  <2>3. CASE stepper_init
    BY <2>3 DEF stepper_init, Plan!Next, Plan!Rezero
  <2> QED BY <2>1, <2>2, <2>3
          DEF Next, Calls, stepper_move_relative, stepper_move_to, Retarget, stepper_set_delay,
              stepper_enable, stepper_tick, TickUnwired, TickWaits, TickStops, vars, step
<1> QED BY <1>1, <1>2, Invariance, PTL DEF Spec, ImplementsPositioner, Plan!Spec
-----------------------------------------------------------------------------
\* The edges of STEP until the motor is at the target and STEP is low.
EdgesLeft == 2 * (IF target_pos > current_pos THEN target_pos - current_pos
                                              ELSE current_pos - target_pos) + step_high

\* A step leaves fewer edges, or as many and a wait that has gone on.
Closer == \/ EdgesLeft' < EdgesLeft
          \/ EdgesLeft' = EdgesLeft /\ delay_cnt' > delay_cnt

\* No edge is left exactly when the controller has settled.
LEMMA EdgesAreCounted ==
  ASSUME IInv
  PROVE  /\ EdgesLeft \in Nat
         /\ EdgesLeft = 0 <=> ~stepper_is_busy /\ stepPin = 0
         /\ current_pos \in Int /\ target_pos \in Int /\ step_high \in {0, 1}
         /\ delay_cnt \in Nat /\ delay_max \in Nat
<1>1. /\ current_pos \in Int /\ target_pos \in Int
      /\ step_high \in {0, 1} /\ stepPin = step_high
      /\ delay_cnt \in Nat /\ delay_max \in Nat
  BY StepperAssumption DEF IInv, TypeOK, PinsKnown, Position
<1> QED BY <1>1, SMT DEF EdgesLeft, stepper_is_busy

\* A tick away from rest waits on or drives an edge, and there is one less.
LEMMA TickCloser ==
  ASSUME IInv, wired, EdgesLeft # 0, stepper_tick
  PROVE  Closer
<1>1. /\ EdgesLeft \in Nat /\ current_pos \in Int /\ target_pos \in Int /\ step_high \in {0, 1}
      /\ delay_cnt \in Nat /\ delay_max \in Nat
  BY EdgesAreCounted
<1>2. CASE TickWaits
  BY <1>1, <1>2 DEF TickWaits, step, Closer, EdgesLeft
<1>3. CASE TickStops
  <2>1. target_pos = current_pos /\ target_pos' = target_pos /\ current_pos' = current_pos
    BY <1>3 DEF TickStops
  <2>2. step_high = 1
    BY <1>1, <2>1, SMT DEF EdgesLeft
  <2>3. step_high' = 0
    BY <1>3, <2>2 DEF TickStops
  <2> QED BY <1>1, <2>1, <2>2, <2>3, SMT DEF Closer, EdgesLeft
<1>4. CASE TickToggles
  <2>1. /\ target_pos # current_pos /\ target_pos' = target_pos /\ step_high' = 1 - step_high
        /\ current_pos' = IF step_high = 1 THEN current_pos
                          ELSE IF target_pos > current_pos THEN current_pos + 1 ELSE current_pos - 1
    BY <1>4 DEF TickToggles, DriveStep, CountStep
  <2> QED BY <1>1, <2>1, SMT DEF Closer, EdgesLeft
<1>5. ~TickUnwired
  BY DEF TickUnwired
<1> QED BY <1>2, <1>3, <1>4, <1>5 DEF stepper_tick

\* What a step does to the way that is left, if it leaves the target alone.
Nearer == target_pos' = target_pos =>
            /\ EdgesLeft = 0 => EdgesLeft' = 0
            /\ EdgesLeft # 0 => \/ Closer
                                \/ EdgesLeft' = EdgesLeft /\ delay_cnt' = delay_cnt
                                   /\ ~(wired /\ stepper_tick)

\* Every step keeps or shortens what is left to do.
LEMMA NextNearer == IInv /\ [Next]_vars => [Nearer]_vars
<1> SUFFICES ASSUME IInv, Next, target_pos' = target_pos
             PROVE  /\ EdgesLeft = 0 => EdgesLeft' = 0
                    /\ EdgesLeft # 0 => \/ Closer
                                        \/ EdgesLeft' = EdgesLeft /\ delay_cnt' = delay_cnt
                                           /\ ~(wired /\ stepper_tick)
  BY DEF Nearer
<1>1. /\ EdgesLeft \in Nat /\ current_pos \in Int /\ target_pos \in Int /\ step_high \in {0, 1}
      /\ delay_cnt \in Nat /\ delay_max \in Nat
  BY EdgesAreCounted
<1>2. CASE stepper_tick /\ wired /\ EdgesLeft # 0
  BY <1>2, TickCloser
<1>3. CASE stepper_tick /\ EdgesLeft = 0
  <2>1. target_pos = current_pos /\ step_high = 0
    BY <1>1, <1>3, SMT DEF EdgesLeft
  <2>2. UNCHANGED <<current_pos, step_high>>
    BY <1>3, <2>1 DEF stepper_tick, TickUnwired, TickWaits, TickStops, TickToggles, vars, step
  <2> QED BY <1>3, <2>2 DEF EdgesLeft
<1>4. CASE stepper_tick /\ ~wired
  BY <1>4 DEF stepper_tick, TickUnwired, TickWaits, TickStops, TickToggles, vars, step, EdgesLeft
<1>5. CASE stepper_init
  <2>1. EdgesLeft' = 0
    BY <1>5, SMT DEF stepper_init, EdgesLeft
  <2> QED BY <1>1, <2>1, SMT DEF Closer
<1>6. CASE ~stepper_tick /\ ~stepper_init
  <2>1. UNCHANGED <<current_pos, step_high, delay_cnt>>
    BY <1>6 DEF Next, Calls, stepper_move_relative, stepper_move_to, Retarget, stepper_set_delay,
                stepper_enable, step
  <2> QED BY <1>6, <2>1 DEF EdgesLeft
<1> QED BY <1>2, <1>3, <1>4, <1>5, <1>6

\* While the application leaves the target alone, every tick of a wired
\* controller that is not at rest drives one of the edges that are left or
\* counts up a wait that MaxDelay bounds, no other call undoes either, a change
\* of the delay in particular, and a controller at rest with STEP low stays so
\* (stepper.c:35-85).  With a tick that keeps coming it settles.
THEOREM ArrivalTheorem ==
  Spec => /\ [](/\ EdgesLeft \in Nat /\ delay_cnt \in 0 .. MaxDelay
                /\ EdgesLeft = 0 <=> ~stepper_is_busy /\ stepPin = 0)
          /\ [][Nearer]_vars
<1>1. IInv => /\ EdgesLeft \in Nat /\ delay_cnt \in 0 .. MaxDelay
              /\ EdgesLeft = 0 <=> ~stepper_is_busy /\ stepPin = 0
  <2> SUFFICES ASSUME IInv
               PROVE  /\ EdgesLeft \in Nat /\ delay_cnt \in 0 .. MaxDelay
                      /\ EdgesLeft = 0 <=> ~stepper_is_busy /\ stepPin = 0
    OBVIOUS
  <2> QED BY EdgesAreCounted DEF IInv, TypeOK
<1> QED BY <1>1, NextNearer, Invariance, PTL DEF Spec
=============================================================================
