-------------------------------- MODULE PidLoop --------------------------------
(***************************************************************************)
(* One PID controller in its loop: the controller (PidBlock), its relock   *)
(* sweep (Relock), the sum with the other controller of the same output and*)
(* with the signal generator, the output limiter, and the way back from the*)
(* limiter to both (fpga/rtl/classic/red_pitaya_pid.v,                     *)
(* red_pitaya_limit.v, red_pitaya_limit_block.v and red_pitaya_top.sv).    *)
(* What the limiter sees of a value of the integrator is three registers   *)
(* old, and its answer is a fourth.                                        *)
(*                                                                         *)
(* A step is one clock edge of all the registers.  The other controller is *)
(* what it adds to the output, any of Mates; the generator any of Offsets. *)
(* The gains are those of the start of the behaviour.                      *)
(***************************************************************************)
EXTENDS PidBlock

CONSTANTS
    UNIT, STEPHALF, GAIN, Steps,                \* see Relock
    Controls,       \* what software writes into the switches and the limits
    Loops,          \* settings and switches that go together at the start
    Rewrites,       \* pairs of switches: what it may write over what
    Mates,          \* what the other controller adds to the output
    Offsets         \* what the generator adds to it

(* on = relock_enabled, rst = set_irst, auto = set_irst_when_railed, hold =*)
(* set_hold, out = set_output_enabled, ext = set_ext_reset_enabled, step = *)
(* relock_stepsize, and the limits of the output.                          *)
AllControls ==
    [on : BOOLEAN, rst : BOOLEAN, auto : BOOLEAN, hold : BOOLEAN,
     out : BOOLEAN, ext : BOOLEAN, step : Steps,
     min : Register(HALF), max : Register(HALF)]

ASSUME ControlsAssumption ==
    /\ Controls \subseteq AllControls
    /\ \A c \in Controls : (c.max + c.min) \div 2 \in Centers
    /\ Loops \subseteq Settings \X Controls
    /\ Rewrites \subseteq Controls \X Controls
    /\ Mates \subseteq Register(HALF) /\ Offsets \subseteq Register(HALF)

(* The widths of the relock, whose range is that of the DAC (Relock).      *)
ASSUME RelockAssumption ==
    /\ UNIT \in Nat \ {0} /\ STEPHALF \in Nat /\ GAIN \in Nat \ {0}
    /\ HALF > 1 /\ UNIT < STEPHALF /\ STEPHALF <= (HALF - 1) * UNIT
    /\ Steps \subseteq 0 .. 2 * STEPHALF - 1

VARIABLES
    ctl,                            \* the switches and the limits
    reset_i,                        \* the external reset input selected
    inside,                         \* min_val_i < signal_i < max_val_i
    locked_f, clear_o, state_f, current_val_f, sweep_amplitude_f,
    out_sum, out_sat,               \* out_1_sum, out_1_sat
    railed, dac                     \* the limiter: railed_o, signal_o

relockVars == <<locked_f, clear_o, state_f, current_val_f, sweep_amplitude_f>>

loopVars == <<vars, ctl, reset_i, inside, relockVars, out_sum, out_sat,
              railed, dac>>

-----------------------------------------------------------------------------
ext_reset == reset_i /\ ctl.ext

(* Fault: the external reset does not reset the integrators. *)
pid_irst_local == ctl.rst

pid_irst == ctl.rst \/ ext_reset

(* The relock, off while the integrators are reset. *)
R == INSTANCE Relock WITH
        RANGE <- HALF * UNIT,
        pins <- [on |-> ctl.on /\ ~pid_irst, inside |-> inside,
                 hold |-> ctl.hold \/ ext_reset, railed |-> railed,
                 step |-> ctl.step]

pid_hold == R!hold_o \/ ctl.hold \/ ext_reset

pid_ctr_rst == (ctl.auto /\ railed # "none") \/ clear_o

(* center_a_o, the center of the output range. *)
center == (ctl.max + ctl.min) \div 2

(* What the controller gets on a clock. *)
PidInputs(d) ==
    [dat |-> d, railed |-> railed, hold |-> pid_hold, rst |-> pid_irst,
     ctr |-> pid_ctr_rst, center |-> center]

(* The controller's output with the sweep added to it. *)
pid_sat == Clamped(pid_out + R!signal_o, HALF)

(* What it adds to the output: nothing while it is off or reset from       *)
(* outside.                                                                *)
contribution == IF ctl.out /\ ~ext_reset THEN pid_sat ELSE 0

RelockClock == R!LockedRegister /\ (R!Off \/ R!Frozen \/ R!Return \/ R!Sweep)

(* Fault: the sum is not saturated. *)
SumOutputs_wide(mate) ==
    /\ out_sum' = contribution + mate
    /\ out_sat' = out_sum

SumOutputs(mate) ==
    /\ out_sum' = contribution + mate
    /\ out_sat' = Clamped(out_sum, HALF)

(* Fault: the two bits of railed_o exchanged. *)
Limit_exchanged(offset) ==
    LET signal == Clamped(out_sat + offset, HALF)
    IN  \/ signal >= ctl.max /\ railed' = "lower" /\ dac' = ctl.max
        \/ signal < ctl.max /\ signal <= ctl.min
           /\ railed' = "upper" /\ dac' = ctl.min
        \/ signal < ctl.max /\ signal > ctl.min
           /\ railed' = "none" /\ dac' = signal

(* The limiter: the upper limit is looked at first. *)
Limit(offset) ==
    LET signal == Clamped(out_sat + offset, HALF)
    IN  \/ /\ signal >= ctl.max
           /\ railed' = "upper" /\ dac' = ctl.max
        \/ /\ signal < ctl.max /\ signal <= ctl.min
           /\ railed' = "lower" /\ dac' = ctl.min
        \/ /\ signal < ctl.max /\ signal > ctl.min
           /\ railed' = "none" /\ dac' = signal

(* An input that is not looked at does not matter. *)
Input(enabled) == IF enabled THEN BOOLEAN ELSE {FALSE}

(* A clock edge; then the reset input and the auxiliary signal are what    *)
(* they are, and software has written the switches and limits or not.      *)
LoopClock(d, mate, offset) ==
    /\ Clock(PidInputs(d))
    /\ RelockClock
    /\ SumOutputs(mate)
    /\ Limit(offset)
    /\ set' = set
    /\ ctl' \in {ctl} \cup {c \in Controls : <<ctl, c>> \in Rewrites}
    /\ reset_i' \in Input(ctl'.ext)
    /\ inside' \in Input(ctl'.on)

LoopNext == \E d \in Data, mate \in Mates, offset \in Offsets :
                LoopClock(d, mate, offset)

(* After a reset, with the settings written and the integrators still off. *)
LoopInit ==
    /\ \E loop \in Loops : set = loop[1] /\ ctl = loop[2]
    /\ ctl.rst
    /\ RegistersReset
    /\ reset_i \in Input(ctl.ext) /\ inside \in Input(ctl.on)
    /\ locked_f = FALSE /\ clear_o = FALSE
    /\ state_f = "ZERO" /\ current_val_f = 0 /\ sweep_amplitude_f = 0
    /\ out_sum = 0 /\ out_sat = 0
    /\ railed = "none" /\ dac = 0

LoopSpec == LoopInit /\ [][LoopNext]_loopVars

-----------------------------------------------------------------------------
(***************************************************************************)
(* Properties.                                                             *)
(***************************************************************************)

(* Every register of the loop holds a value of its width. *)
LoopTypeOK ==
    /\ TypeOK
    /\ R!TypeOK
    /\ ctl \in Controls /\ reset_i \in BOOLEAN
    /\ out_sum \in Register(2 * HALF)                     \* 15
    /\ out_sat \in Register(HALF) /\ dac \in Register(HALF)

(* The sweep alone can drive the output off its upper limit, whatever is   *)
(* added to it, and its steps are slow: at the bottom of its range the     *)
(* output was off that limit three clocks ago.                             *)
SweepHasRoom ==
    /\ \A c \in Controls, m \in Mates, o \in Offsets :
          c.on => m + o < c.max /\ -HALF < c.max
    /\ \A s \in Steps : s <= UNIT /\ 3 * (s + 1) <= (HALF - 1) * UNIT

(* The search is a triangle (README, "Relock": "a triangular voltage sweep *)
(* with user-defined slew rate and increasing amplitude"): whatever is     *)
(* added to the output and wherever its limits are, the sweep does not jump*)
(* from one end of the range to the other.                                 *)
SearchIsContinuous ==
    [][ctl.on /\ ~pid_irst => R!signal_o' - R!signal_o \in -2 .. 2]_loopVars

(* The search holds the controller: one clock later its output stands still*)
(* but for a reset of its integrators, so that what moves the output is the*)
(* sweep alone (README, "Relock": "the internal state of the PID controller*)
(* is frozen").  An integrator at the end of its range is not held.        *)
SearchHoldsTheOutput ==
    [][/\ pid_hold /\ ~pid_ctr_rst /\ ~pid_irst
       /\ ~Overflows(int_reg, ki_mult) /\ ~Overflows(iint_reg, kii_mult)
       => pid_out' = Output(pid_sum')]_loopVars

(* Reset from outside: on the next clock the integrators and the sweep are *)
(* at zero and nothing of this controller is added to the output (README,  *)
(* "External lock reset": "all output from the controller is suppressed,   *)
(* including the from the relock feature").                                *)
ResetSuppresses ==
    [][ext_reset => /\ int_reg' = 0 /\ iint_reg' = 0
                    /\ current_val_f' = 0 /\ out_sum' \in Mates]_loopVars

(* The clocks until a move of the integrator comes back to it as a rail:   *)
(* pid_out, out_1_sum, out_1_sat and railed_o.                             *)
Latency == 4

(* The integrator alone drives the output, at a gain of one.               *)
OnlyIntegrates(s, c) ==
    s.kp = 0 /\ s.kd = 0 /\ s.kii = 0 /\ s.kg = PSHIFT /\ ~c.on

(* The error that an input makes.                                          *)
ErrorOf(s, d) == IF s.inverted THEN s.sp - d ELSE d - s.sp

(* Anti-windup: such an integrator runs beyond a limit by no more than it  *)
(* moves in the clocks until the rail comes back to it, whatever else is   *)
(* added to the output meanwhile.                                          *)
WindupIsBounded ==
    OnlyIntegrates(set, ctl) =>
        LET overrun(d) == (Latency + 1) * (set.ki * ErrorOf(set, d))
        IN  /\ \E m \in Mates, o \in Offsets, d \in Data :
                   int_reg <= (ctl.max - (m + o)) * ISHIFT + overrun(d)
            /\ \E m \in Mates, o \in Offsets, d \in Data :
                   int_reg >= (ctl.min + 1 - (m + o)) * ISHIFT + overrun(d)

(* The least that is added to the output, and the input with the largest   *)
(* error: the worst there is for the upper limit.  Even then the limit is  *)
(* above zero, within what the controller and the sum can put out, and     *)
(* further from the end of the integrator than it runs until it is stopped.*)
Above(s, c, m, o, d) ==
    LET x == c.max - (m + o)
        e == s.ki * ErrorOf(s, d)
    IN  /\ m \in Mates /\ \A n \in Mates : m <= n
        /\ o \in Offsets /\ \A n \in Offsets : o <= n
        /\ d \in Data /\ \A n \in Data : ErrorOf(s, n) <= ErrorOf(s, d)
        /\ ErrorOf(s, d) >= 0
        /\ 0 < x /\ x < HALF /\ x + m < HALF
        /\ x * ISHIFT + (Latency + 2) * e < INTHALF

(* The same for the lower limit. *)
Below(s, c, m, o, d) ==
    LET y == c.min - (m + o)
        f == s.ki * ErrorOf(s, d)
    IN  /\ m \in Mates /\ \A n \in Mates : n <= m
        /\ o \in Offsets /\ \A n \in Offsets : n <= o
        /\ d \in Data /\ \A n \in Data : ErrorOf(s, d) <= ErrorOf(s, n)
        /\ ErrorOf(s, d) <= 0
        /\ y < 0 /\ y >= -HALF /\ y + m >= -HALF
        /\ (y + 1) * ISHIFT + (Latency + 2) * f >= -INTHALF

(* The limits stay and have room around them, the controller is on the     *)
(* output while it integrates, and an automatic reset is to zero.          *)
WindupRoom ==
    /\ 4 * (HALF * PSHIFT) <= SUMHALF
    /\ \A r \in Rewrites : /\ r[1].on = r[2].on
                           /\ r[1].min = r[2].min /\ r[1].max = r[2].max
    /\ \A s \in Settings, c \in Controls :
          OnlyIntegrates(s, c) =>
              /\ c.out \/ c.rst
              /\ c.auto => (c.max + c.min) \div 2 = 0
              /\ c.min < c.max
              /\ \E m \in Mates, o \in Offsets, d \in Data : Above(s, c, m, o, d)
              /\ \E m \in Mates, o \in Offsets, d \in Data : Below(s, c, m, o, d)

(* The controller runs, and none of its integrators is being reset. *)
Engaged == ~pid_hold /\ ~pid_irst /\ ~pid_ctr_rst /\ ctl.out

(* An output at a rail leaves it for good once the error drives it away,   *)
(* however far the integrators ran beyond the limit meanwhile.             *)
LeavesTheRail ==
    /\ <>[](Engaged /\ error < 0) => <>[](railed # "upper")
    /\ <>[](Engaged /\ error > 0) => <>[](railed # "lower")

(* "If automatic integrator reset of the PID is enabled, the integrator    *)
(* register is reset to the center of the output limit range" (README,     *)
(* "Output limiting"): with no error and nothing else added to the output, *)
(* an output that is reset because it is at a limit comes off it.          *)
CenterIsOffTheRails ==
    <>[](~pid_hold /\ ~pid_irst /\ ctl.auto /\ ctl.min < center /\ center < ctl.max
         /\ error = 0 /\ set.kg = PSHIFT)
    => []<>(railed = "none")
=============================================================================
