------------------------------- MODULE PidBlock -------------------------------
(***************************************************************************)
(* One PID controller, red_pitaya_pid_block in                             *)
(* fpga/rtl/classic/red_pitaya_pid_block.v.  A step is one clock edge: every*)
(* register takes its next value from the old values of the others and from*)
(* the inputs, and software may write the settings on the same edge.  The  *)
(* registers are two's complement words of a finite width.                 *)
(***************************************************************************)
EXTENDS Words

CONSTANTS
    HALF,           \* 2^13, half the range of the 14-bit data
    PSHIFT,         \* 2^PSR: a gain of PSHIFT is a gain of one
    ISHIFT,         \* 2^ISR: the integrators count in units of 1 / ISHIFT
    DSHIFT,         \* 2^DSR
    KDHALF,         \* 2^31, half the range of kd_mult
    SUMHALF,        \* 2^32, half the range of pid_sum
    GAINMAX,        \* 2^24 - 1, the largest gain
    Settings,       \* what software writes into the settings registers
    Data,           \* what the input may be
    Centers         \* the centers of the output range

(* Half the range of the products of an error and a gain.                  *)
PRODUCTHALF == 4 * HALF * (GAINMAX + 1)

ASSUME WidthAssumption ==
    /\ HALF \in Nat \ {0} /\ PSHIFT \in Nat \ {0} /\ ISHIFT \in Nat \ {0}
    /\ DSHIFT \in Nat \ {0} /\ KDHALF \in Nat \ {0} /\ GAINMAX \in Nat
    /\ KDHALF % DSHIFT = 0 /\ PRODUCTHALF % PSHIFT = 0
    /\ SUMHALF \in Nat /\ SUMHALF % 2 = 0
    /\ 2 * (HALF * PSHIFT) <= SUMHALF

ASSUME DataAssumption ==
    Data \subseteq Register(HALF) /\ Centers \subseteq Register(HALF)

(* The settings of one PID controller. *)
AllSettings ==
    [sp : Register(HALF), kp : 0 .. GAINMAX, ki : 0 .. GAINMAX,
     kd : 0 .. GAINMAX, kii : 0 .. GAINMAX, kg : 0 .. GAINMAX,
     inverted : BOOLEAN]

ASSUME SettingsAssumption == Settings \subseteq AllSettings

VARIABLES
    set,                            \* the settings
    error,
    kp_reg,
    ki_mult, int_reg,               \* the integrator
    kii_mult, iint_reg,             \* the second integrator
    kd_reg, kd_reg_r, kd_reg_s,
    pid_out

regs == <<error, kp_reg, ki_mult, int_reg, kii_mult, iint_reg,
          kd_reg, kd_reg_r, kd_reg_s, pid_out>>

vars == <<set, regs>>

-----------------------------------------------------------------------------
(***************************************************************************)
(* The inputs: dat = dat_i; railed = railed_i, of which the limiter never  *)
(* sets both bits; hold = hold_i; rst = int_rst_i; ctr = int_ctr_rst_i;    *)
(* center = int_ctr_val_i.                                                 *)
(***************************************************************************)
Inputs == [dat : Data, railed : {"none", "lower", "upper"}, hold : BOOLEAN,
           rst : BOOLEAN, ctr : BOOLEAN, center : Centers]

(* Half the range of the integrators, which is twice that of the output.   *)
INTHALF == 2 * HALF * ISHIFT

ErrorRegister(i) ==
    error' = IF set.inverted THEN -(i.dat - set.sp) ELSE i.dat - set.sp

Proportional(i) ==
    kp_reg' = IF i.hold THEN kp_reg ELSE (error * set.kp) \div PSHIFT

(* Faults: no anti-windup; a rail stops the integrators in both directions.*)
WindsUp_never(mult, i) == FALSE

WindsUp_always(mult, i) == i.railed # "none"

(* The rail the output is at stops the integrator that drives it there.    *)
WindsUp(mult, i) == \/ i.railed = "lower" /\ mult < 0
                    \/ i.railed = "upper" /\ mult > 0

(* Faults: an integrator that does not saturate; one that is not held.     *)
Integrated_wide(reg, mult, i) ==
    CASE i.rst -> 0
      [] ~i.rst /\ i.ctr -> i.center * ISHIFT
      [] OTHER -> IF WindsUp(mult, i) \/ i.hold THEN reg ELSE reg + mult

Integrated_runs(reg, mult, i) ==
    CASE i.rst -> 0
      [] ~i.rst /\ i.ctr -> i.center * ISHIFT
      [] OTHER -> IF WindsUp(mult, i) THEN reg ELSE Clamped(reg + mult, INTHALF)

(* An integrator that is about to leave its range.                         *)
Overflows(reg, mult) == reg + mult \notin Register(INTHALF)

(* An integrator, first or second, on the next clock: reset, set to the    *)
(* center, saturated, held, or moved, in this order.                       *)
Integrated(reg, mult, i) ==
    CASE i.rst -> 0
      [] ~i.rst /\ i.ctr -> i.center * ISHIFT
      [] ~i.rst /\ ~i.ctr /\ Overflows(reg, mult)
            -> Clamped(reg + mult, INTHALF)
      [] OTHER -> IF WindsUp(mult, i) \/ i.hold THEN reg ELSE reg + mult

(* int_shr and iint_shr, the integrators in DAC counts.                    *)
Shifted(reg) == reg \div ISHIFT

Integrator(i) ==
    /\ ki_mult' = error * set.ki
    /\ int_reg' = Integrated(int_reg, ki_mult, i)

SecondIntegrator(i) ==
    /\ kii_mult' = Shifted(int_reg) * set.kii
    /\ iint_reg' = Integrated(iint_reg, kii_mult, i)

(* kd_mult is narrower than the product.                                   *)
kd_mult == Signed(error * set.kd, KDHALF)

Derivative(i) ==
    IF i.hold THEN UNCHANGED <<kd_reg, kd_reg_r, kd_reg_s>>
    ELSE /\ kd_reg' = kd_mult \div DSHIFT
         /\ kd_reg_r' = kd_reg
         /\ kd_reg_s' = kd_reg - kd_reg_r

(* The sum of the terms times the global gain, and what pid_sum holds of   *)
(* it.                                                                     *)
ExactSum == set.kg * (kp_reg + Shifted(int_reg) + Shifted(iint_reg) + kd_reg_s)

pid_sum == Signed(ExactSum, SUMHALF)

(* Fault: saturates one bit too late.                                      *)
Output_late(sum) ==
    IF sum >= 0 /\ sum % (SUMHALF \div 2) >= 2 * HALF * PSHIFT THEN HALF - 1
    ELSE IF sum < -(HALF * PSHIFT) THEN -HALF
    ELSE Signed(sum \div PSHIFT, HALF)

(* The output: the test for a positive overflow looks at bits 30 to 25 of  *)
(* the sum, not at bit 31, the one for a negative overflow at all of them. *)
Output(sum) ==
    IF sum >= 0 /\ sum % (SUMHALF \div 2) >= HALF * PSHIFT THEN HALF - 1
    ELSE IF sum < -(HALF * PSHIFT) THEN -HALF
    ELSE Signed(sum \div PSHIFT, HALF)

SumAndSaturate == pid_out' = Output(pid_sum)

(* A clock edge with the inputs i. *)
Clock(i) ==
    /\ ErrorRegister(i)
    /\ Proportional(i)
    /\ Integrator(i)
    /\ SecondIntegrator(i)
    /\ Derivative(i)
    /\ SumAndSaturate

(* The settings after a reset. *)
Unset == [sp |-> 0, kp |-> 0, ki |-> 0, kd |-> 0, kii |-> 0, kg |-> 0,
          inverted |-> FALSE]

(* Every register is 0 after a reset. *)
RegistersReset ==
    /\ error = 0 /\ kp_reg = 0 /\ ki_mult = 0 /\ int_reg = 0
    /\ kii_mult = 0 /\ iint_reg = 0
    /\ kd_reg = 0 /\ kd_reg_r = 0 /\ kd_reg_s = 0 /\ pid_out = 0

Init == set = Unset /\ RegistersReset

Next == \E i \in Inputs : Clock(i) /\ set' \in Settings

Spec == Init /\ [][Next]_vars

-----------------------------------------------------------------------------
(***************************************************************************)
(* Properties.                                                             *)
(***************************************************************************)

(* Every register holds a value of its width; the comments give the bits.  *)
TypeOK ==
    /\ set \in AllSettings
    /\ error \in Register(2 * HALF)                       \* 15
    /\ kp_reg \in Register(PRODUCTHALF \div PSHIFT)       \* 40 - PSR
    /\ ki_mult \in Register(PRODUCTHALF)                  \* 40
    /\ kii_mult \in Register(PRODUCTHALF)                 \* 40
    /\ int_reg \in Register(INTHALF)                      \* 15 + ISR
    /\ iint_reg \in Register(INTHALF)                     \* 15 + ISR
    /\ kd_reg \in Register(KDHALF \div DSHIFT)            \* 32 - DSR
    /\ kd_reg_r \in Register(KDHALF \div DSHIFT)          \* 32 - DSR
    /\ kd_reg_s \in Register(2 * (KDHALF \div DSHIFT))    \* 33 - DSR
    /\ pid_out \in Register(HALF)                         \* 14

(* The output follows the terms: it is their sum times the global gain, or *)
(* the end of its range, as long as the sum fits in the word before and is *)
(* not of the half the test for an overflow does not look at.              *)
OutputIsTheSum ==
    [][(ExactSum \in -SUMHALF .. (SUMHALF \div 2) - 1)
       => pid_out' = Clamped(ExactSum \div PSHIFT, HALF)]_vars
=============================================================================
