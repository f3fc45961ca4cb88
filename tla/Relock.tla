-------------------------------- MODULE Relock --------------------------------
(***************************************************************************)
(* The relock sweep of one PID controller, pid_relock in                   *)
(* fpga/rtl/classic/pid_relock.v: while the auxiliary signal is outside    *)
(* its window the PID is held and a triangle of growing amplitude is added *)
(* to its output, which goes back to zero once the signal is inside.       *)
(*                                                                         *)
(* A step is one clock edge.  The registers take their next value from     *)
(* their old value and from the pins; the pins then take any value.  The   *)
(* registers are two's complement numbers of a finite width: a result that *)
(* does not fit wraps.  Numbers are in units of the lowest bit of          *)
(* current_val_f.                                                          *)
(***************************************************************************)
EXTENDS Words

CONSTANTS
    UNIT,           \* 2^STEPSR, one DAC count
    RANGE,          \* 2^13 * UNIT, half the range of the DAC
    STEPHALF,       \* 2^(STEP_BITS - 1), half the range of stepsize_i
    GAIN,           \* 2^8, the first amplitude in steps
    Steps           \* the values stepsize_i takes

ASSUME WidthAssumption ==
    /\ UNIT \in Nat \ {0} /\ RANGE \in Nat /\ STEPHALF \in Nat
    /\ GAIN \in Nat \ {0}
    /\ RANGE % UNIT = 0
    /\ UNIT < RANGE
    /\ UNIT < STEPHALF /\ STEPHALF <= RANGE - UNIT

(* Software may write any step, zero and those that are negative as a      *)
(* signed number included (pid_SetRelockStepsize, api/src/pid.c).          *)
ASSUME StepsAssumption == Steps \subseteq 0 .. 2 * STEPHALF - 1

VARIABLES
    pins,                           \* on_i, signal_i inside, railed_i, ...
    locked_f, clear_o,              \* are we locked? the integrator reset
    state_f,                        \* the state machine
    current_val_f, sweep_amplitude_f

vars == <<pins, locked_f, clear_o, state_f, current_val_f, sweep_amplitude_f>>

-----------------------------------------------------------------------------
(* current_val_f and sweep_amplitude_f have one bit more than the DAC. *)
VALHALF == 2 * RANGE

(* Fault: half the limit. *)
AMPLIMIT_half == (RANGE - UNIT) \div 2

(* 14'b01111111111111 << STEPSR, where the amplitude stops growing. *)
AMPLIMIT == RANGE - UNIT

(***************************************************************************)
(* The pins.  on = on_i; inside = (min_val_i < signal_i < max_val_i);      *)
(* hold = hold_i; step = stepsize_i.  railed is railed_i: the limiter never*)
(* sets both of its bits.  What else is added to the output, and the limits*)
(* it has, decide which of them is set: any, at any value of the sweep.    *)
(***************************************************************************)
Pins == [on : BOOLEAN, inside : BOOLEAN, hold : BOOLEAN,
         railed : {"none", "lower", "upper"}, step : Steps]

step == Signed(pins.step, STEPHALF)

(* The DAC counts of a value of the register. *)
Saturated(val) ==
    IF val >= RANGE THEN (RANGE \div UNIT) - 1
    ELSE IF val < -RANGE THEN -(RANGE \div UNIT) ELSE val \div UNIT

(* What the PID loop sees: its hold, and the sweep. *)
hold_o == pins.on /\ ~locked_f

signal_o == Saturated(current_val_f)

-----------------------------------------------------------------------------
(* Are we locked?  An integrator reset is sent when the lock was just lost *)
(* at a rail.                                                              *)
LockedRegister ==
    LET locked == pins.inside \/ ~pins.on
    IN  /\ locked_f' = locked
        /\ clear_o' = (~locked /\ locked_f /\ pins.railed # "none")

(* on_i is low. *)
Off ==
    /\ ~pins.on
    /\ state_f' = "ZERO"
    /\ current_val_f' = 0
    /\ sweep_amplitude_f' = 0

(* hold_i freezes the state machine. *)
Frozen ==
    /\ pins.on /\ pins.hold
    /\ UNCHANGED <<state_f, current_val_f, sweep_amplitude_f>>

Accumulate ==
    current_val_f' =
        CASE state_f = "GOINGUP" -> Signed(current_val_f + step, VALHALF)
          [] state_f = "GOINGDOWN" -> Signed(current_val_f - step, VALHALF)
          [] OTHER -> 0

(* Fault: no dead band around zero. *)
Return_without_band ==
    /\ pins.on /\ ~pins.hold /\ locked_f
    /\ Accumulate
    /\ sweep_amplitude_f' = 0
    /\ state_f' = IF current_val_f > 0 THEN "GOINGDOWN"
                  ELSE IF current_val_f < 0 THEN "GOINGUP" ELSE "ZERO"

(* Locked: back to zero. *)
Return ==
    /\ pins.on /\ ~pins.hold /\ locked_f
    /\ Accumulate
    /\ sweep_amplitude_f' = 0
    /\ state_f' = IF current_val_f > step THEN "GOINGDOWN"
                  ELSE IF current_val_f < -step THEN "GOINGUP" ELSE "ZERO"

(* Faults: no limit; one bit less. *)
grown_without_limit(amp) ==
    IF amp = 0 THEN Signed(GAIN * pins.step, STEPHALF) ELSE Signed(2 * amp, VALHALF)

grown_narrower(amp) ==
    IF amp = 0 THEN Signed(GAIN * pins.step, STEPHALF \div 2)
    ELSE IF amp < AMPLIMIT THEN Signed(2 * amp, VALHALF) ELSE amp

(* The amplitude after a turn at the top.  The first one is computed in    *)
(* the width of stepsize_i; the limit is an unsigned number, and so is the *)
(* comparison with it.                                                     *)
grown(amp) ==
    LET unsigned == IF amp < 0 THEN amp + 2 * VALHALF ELSE amp
    IN  CASE amp = 0 -> Signed(GAIN * pins.step, STEPHALF)
          [] amp # 0 /\ unsigned < AMPLIMIT -> Signed(2 * amp, VALHALF)
          [] OTHER -> amp

AtTop == current_val_f > sweep_amplitude_f \/ pins.railed = "upper"

(* Fault: turns at the bottom at a rail only. *)
AtBottom_railed == pins.railed = "lower"

AtBottom == current_val_f < Signed(-sweep_amplitude_f, VALHALF)
            \/ pins.railed = "lower"

(* Not locked: the sweep starts, turns at the top or at the bottom, or     *)
(* goes on.                                                                *)
Sweep ==
    /\ pins.on /\ ~pins.hold /\ ~locked_f
    /\ Accumulate
    /\ \/ /\ state_f = "ZERO"
          /\ state_f' = "GOINGUP"
          /\ UNCHANGED sweep_amplitude_f
       \/ /\ state_f # "ZERO" /\ AtTop
          /\ state_f' = "GOINGDOWN"
          /\ sweep_amplitude_f' = IF state_f = "GOINGUP"
                                  THEN grown(sweep_amplitude_f)
                                  ELSE sweep_amplitude_f
       \/ /\ state_f # "ZERO" /\ ~AtTop
          /\ state_f' = IF AtBottom THEN "GOINGUP" ELSE state_f
          /\ UNCHANGED sweep_amplitude_f

(* A clock edge, and what the pins are until the next. *)
Clock ==
    /\ LockedRegister
    /\ Off \/ Frozen \/ Return \/ Sweep
    /\ pins' \in Pins

(* The registers start at 0, and the relock is off. *)
Init ==
    /\ pins \in Pins /\ ~pins.on
    /\ locked_f = FALSE /\ clear_o = FALSE
    /\ state_f = "ZERO" /\ current_val_f = 0 /\ sweep_amplitude_f = 0

Spec == Init /\ [][Clock]_vars

(* The clock runs. *)
FairSpec == Spec /\ WF_vars(Clock)

-----------------------------------------------------------------------------
(***************************************************************************)
(* Properties.                                                             *)
(***************************************************************************)

(* Every register holds a value of its width, and one of the three states. *)
TypeOK ==
    /\ pins \in Pins
    /\ locked_f \in BOOLEAN /\ clear_o \in BOOLEAN
    /\ state_f \in {"ZERO", "GOINGUP", "GOINGDOWN"}
    /\ current_val_f \in Register(VALHALF)
    /\ sweep_amplitude_f \in Register(VALHALF)

(* The signal stays outside its window, and nothing holds the sweep. *)
Searching == hold_o /\ ~pins.hold /\ ~pins.inside

(* The largest amplitude: one doubling from just below the limit. *)
MaxAmplitude == 2 * AMPLIMIT - 2

(* Doubling stops in time: whatever the step and however it is changed, the*)
(* amplitude keeps clear of the upper half of its register, where it would *)
(* wrap.  It is negative only if the first one did not fit in its width.   *)
AmplitudeFits == sweep_amplitude_f \in -STEPHALF .. MaxAmplitude

(* A step of one DAC count a clock at most. *)
SlowStep == pins.step <= UNIT

(* The sweep can still turn: at the bottom of its range the output is not  *)
(* at its upper limit.  An output that something else holds there leaves   *)
(* the sweep no way but down, and the register wraps (PidLoop).            *)
CanTurn == pins.railed = "upper" => current_val_f > -MaxAmplitude

(* As long as the sweep is slow and can turn it never wraps: it overshoots *)
(* its amplitude by two steps at most, which the largest amplitude just    *)
(* leaves room for, whatever else the rails do, however the step is changed*)
(* on the way, and through any hold.                                       *)
ValueFits ==
    current_val_f \in -(MaxAmplitude + 2 * UNIT) .. MaxAmplitude + 2 * UNIT

SweepFits == [](SlowStep /\ CanTurn) => []ValueFits

(* The first amplitude fits in the width it is computed in. *)
FirstFits == 0 < pins.step /\ GAIN * pins.step < STEPHALF

(* The sweep is one of increasing amplitude (head of pid_relock.v): every  *)
(* turn at the top leaves a larger one, until the limit, if the first one  *)
(* fits.                                                                   *)
AmplitudeGrows ==
    [][(/\ Searching /\ state_f = "GOINGUP" /\ state_f' = "GOINGDOWN"
        /\ sweep_amplitude_f \in 0 .. AMPLIMIT - 1
        /\ sweep_amplitude_f = 0 => FirstFits)
       => sweep_amplitude_f' > sweep_amplitude_f]_vars

(* A search that goes on, with steps whose first amplitude fits, reaches   *)
(* the top and the bottom of the DAC range, or of the limiter's, again and *)
(* again: it misses no resonance.                                          *)
SweepCoversTheRange ==
    <>[](Searching /\ FirstFits /\ sweep_amplitude_f >= 0) =>
        /\ []<>(signal_o = (RANGE \div UNIT) - 1 \/ pins.railed = "upper")
        /\ []<>(signal_o = -(RANGE \div UNIT) \/ pins.railed = "lower")

(* With the signal inside for good, and a step left alone that is neither  *)
(* zero nor negative, a sweep that has not wrapped leaves the output to the*)
(* PID: it goes to zero and stays there.                                   *)
HandsBack ==
    \A s \in Steps \cap 1 .. STEPHALF - 1 :
       <>[](pins.on /\ pins.inside /\ ~pins.hold /\ pins.step = s /\ ValueFits)
       => <>[](current_val_f = 0)
=============================================================================
