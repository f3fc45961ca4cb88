----------------------------- MODULE Relock_proofs -----------------------------
(***************************************************************************)
(* What the relock sweep does for every width of its registers, every set  *)
(* of steps and every behaviour of the pins: its registers keep their      *)
(* type; the amplitude stays clear of the upper half of its register and   *)
(* grows at every turn; and a slow sweep that can turn never wraps.        *)
(***************************************************************************)
EXTENDS Relock, TLAPS

-----------------------------------------------------------------------------
(***************************************************************************)
(* What the words of the gateware hold, for every width.                   *)
(***************************************************************************)
(* A signed register holds a number of its width, whatever is put in it.   *)
LEMMA SignedType ==
    ASSUME NEW x \in Int, NEW half \in Nat, half > 0
    PROVE  Signed(x, half) \in Register(half)
<1>1. CASE x \in Register(half)
  BY <1>1 DEF Signed
<1>2. CASE x \notin Register(half)
  <2>1. (x + half) % (2 * half) \in 0 .. 2 * half - 1
    BY SMT
  <2>2. ((x + half) % (2 * half)) - half \in -half .. half - 1
    BY <2>1, SMT
  <2> QED
    BY <1>2, <2>2 DEF Signed, Register
<1> QED
  BY <1>1, <1>2

(* A number that fits is stored as it is. *)
LEMMA SignedFits ==
    ASSUME NEW half, NEW x \in Register(half)
    PROVE  Signed(x, half) = x
BY DEF Signed

(* A shift to the right is a division that rounds down.                    *)
LEMMA Quotient ==
    ASSUME NEW a \in Int, NEW u \in Nat, u > 0
    PROVE  /\ a \div u \in Int
           /\ u * (a \div u) <= a /\ a < u * (a \div u) + u
BY SMT

LEMMA Cancel ==
    ASSUME NEW u \in Nat, u > 0, NEW d \in Int, NEW n \in Nat, u * d < n * u
    PROVE  d < n
BY SMT

-----------------------------------------------------------------------------
LEMMA Widths ==
    /\ UNIT \in Nat /\ UNIT > 0 /\ RANGE \in Nat /\ UNIT < RANGE
    /\ STEPHALF \in Nat /\ GAIN \in Nat /\ GAIN > 0 /\ VALHALF \in Nat /\ VALHALF > 0
    /\ VALHALF = 2 * RANGE /\ AMPLIMIT = RANGE - UNIT
    /\ AMPLIMIT \in Nat /\ AMPLIMIT > 0
    /\ UNIT < STEPHALF /\ STEPHALF <= AMPLIMIT
BY WidthAssumption, SMT DEF VALHALF, AMPLIMIT

-----------------------------------------------------------------------------
(***************************************************************************)
(* Type correctness.                                                       *)
(***************************************************************************)
LEMMA StepType == ASSUME TypeOK PROVE step \in Int /\ pins.step \in Nat
<1>1. pins.step \in Steps
  BY Zenon DEF TypeOK, Pins
<1>2. pins.step \in 0 .. 2 * STEPHALF - 1
  BY <1>1, StepsAssumption, Zenon
<1>3. STEPHALF \in Nat /\ STEPHALF > 0 /\ pins.step \in Nat
  BY <1>2, Widths, SMT
<1>4. pins.step \in Int
  BY <1>3, SMT
<1>5. step \in Register(STEPHALF)
  BY <1>3, <1>4, SignedType, Zenon DEF step
<1> QED
  BY <1>3, <1>5, SMT DEF Register

LEMMA AccumulateType ==
    ASSUME TypeOK, Accumulate
    PROVE  current_val_f' \in Register(VALHALF)
<1>1. step \in Int /\ current_val_f \in Int
  BY StepType, Widths, SMT DEF TypeOK, Register
<1>2. /\ current_val_f + step \in Int
      /\ current_val_f - step \in Int
      /\ 0 \in Register(VALHALF)
  BY <1>1, Widths, SMT DEF Register
<1>3. /\ Signed(current_val_f + step, VALHALF) \in Register(VALHALF)
      /\ Signed(current_val_f - step, VALHALF) \in Register(VALHALF)
  BY <1>2, SignedType, Widths, Zenon
<1>4. CASE state_f = "GOINGUP"
  BY <1>4, <1>3, Zenon DEF Accumulate
<1>5. CASE state_f # "GOINGUP" /\ state_f = "GOINGDOWN"
  BY <1>5, <1>3, SMT DEF Accumulate
<1>6. CASE state_f = "ZERO"
  BY <1>6, <1>2, SMT DEF Accumulate
<1> QED
  BY <1>4, <1>5, <1>6, Zenon DEF TypeOK

LEMMA GrownType ==
    ASSUME TypeOK
    PROVE  grown(sweep_amplitude_f) \in Register(VALHALF)
<1> DEFINE amp == sweep_amplitude_f
<1>1. amp \in Register(VALHALF) /\ amp \in Int /\ pins.step \in Nat
  BY StepType, Widths, SMT DEF TypeOK, Register
<1>2. Signed(2 * amp, VALHALF) \in Register(VALHALF)
  <2>1. 2 * amp \in Int
    BY <1>1, SMT
  <2> QED
    BY <2>1, SignedType, Widths, Zenon
<1>3. Signed(GAIN * pins.step, STEPHALF) \in Register(VALHALF)
  <2>1. GAIN * pins.step \in Int
    BY <1>1, Widths, SMT
  <2>2. STEPHALF > 0
    BY Widths, SMT
  <2>3. Signed(GAIN * pins.step, STEPHALF) \in Register(STEPHALF)
    BY <2>1, <2>2, SignedType, Widths, Zenon
  <2> HIDE DEF amp
  <2> QED
    BY <2>3, Widths, SMT DEF Register
<1> DEFINE unsigned == IF amp < 0 THEN amp + 2 * VALHALF ELSE amp
<1>4. grown(amp) = CASE amp = 0 -> Signed(GAIN * pins.step, STEPHALF)
                     [] amp # 0 /\ unsigned < AMPLIMIT -> Signed(2 * amp, VALHALF)
                     [] OTHER -> amp
  BY Zenon DEF grown
<1> HIDE DEF amp, unsigned
<1>5. grown(amp) \in Register(VALHALF)
  <2>1. CASE amp = 0
    BY <2>1, <1>3, <1>4, Zenon
  <2>2. CASE amp # 0 /\ unsigned < AMPLIMIT
    BY <2>2, <1>2, <1>4, Zenon
  <2>3. CASE amp # 0 /\ ~(unsigned < AMPLIMIT)
    BY <2>3, <1>1, <1>4, Zenon
  <2> QED
    BY <2>1, <2>2, <2>3, Zenon
<1> QED
  BY <1>5, Zenon DEF amp

(* The registers keep their type on a clock, whatever the pins were.       *)
LEMMA RegistersType ==
    ASSUME TypeOK, LockedRegister, Off \/ Frozen \/ Return \/ Sweep
    PROVE  /\ locked_f' \in BOOLEAN /\ clear_o' \in BOOLEAN
           /\ state_f' \in {"ZERO", "GOINGUP", "GOINGDOWN"}
           /\ current_val_f' \in Register(VALHALF)
           /\ sweep_amplitude_f' \in Register(VALHALF)
<1>1. locked_f' \in BOOLEAN /\ clear_o' \in BOOLEAN
  BY Zenon DEF LockedRegister, TypeOK, Pins
<1>2. /\ state_f' \in {"ZERO", "GOINGUP", "GOINGDOWN"}
      /\ current_val_f' \in Register(VALHALF)
      /\ sweep_amplitude_f' \in Register(VALHALF)
  <2>0. 0 \in Register(VALHALF)
    BY Widths, SMT DEF Register
  <2>1. CASE Off
    BY <2>0, <2>1, Zenon DEF Off
  <2>2. CASE Frozen
    BY <2>2, Zenon DEF Frozen, TypeOK
  <2>3. CASE Return
    <3>1. current_val_f' \in Register(VALHALF)
      BY <2>3, AccumulateType, Zenon DEF Return
    <3>2. state_f' \in {"ZERO", "GOINGUP", "GOINGDOWN"}
      BY <2>3, Zenon DEF Return
    <3> QED
      BY <2>0, <2>3, <3>1, <3>2, Zenon DEF Return
  <2>4. CASE Sweep
    <3>1. current_val_f' \in Register(VALHALF)
      BY <2>4, AccumulateType, Zenon DEF Sweep
    <3>2. state_f' \in {"ZERO", "GOINGUP", "GOINGDOWN"}
      BY <2>4, Zenon DEF Sweep, TypeOK
    <3>3. \/ sweep_amplitude_f' = grown(sweep_amplitude_f)
          \/ sweep_amplitude_f' = sweep_amplitude_f
      BY <2>4, Zenon DEF Sweep
    <3>4. sweep_amplitude_f' \in Register(VALHALF)
      BY <3>3, GrownType, Zenon DEF TypeOK
    <3> QED
      BY <3>1, <3>2, <3>4, Zenon
  <2> QED
    BY <2>1, <2>2, <2>3, <2>4, Zenon
<1> QED
  BY <1>1, <1>2, Zenon

LEMMA TypeStep == ASSUME TypeOK, [Clock]_vars PROVE TypeOK'
<1>1. CASE Clock
  BY <1>1, RegistersType, Zenon DEF Clock, TypeOK
<1>2. CASE UNCHANGED vars
  BY <1>2, Zenon DEF vars, TypeOK
<1> QED
  BY <1>1, <1>2, Zenon

LEMMA InitType == Init => TypeOK
<1>1. 0 \in Register(VALHALF)
  BY Widths, SMT DEF Register
<1> QED
  BY <1>1, Zenon DEF Init, TypeOK

(* The registers keep their type, whatever the pins do (pid_relock). *)
THEOREM TypeCorrect == Spec => []TypeOK
<1>1. TypeOK /\ [Clock]_vars => TypeOK'
  BY TypeStep, Zenon
<1> QED
  BY InitType, <1>1, PTL DEF Spec

-----------------------------------------------------------------------------
(***************************************************************************)
(* The amplitude.                                                          *)
(***************************************************************************)
(* The bounds fit in the registers: MaxAmplitude + 2 * UNIT = VALHALF - 2.    *)
LEMMA Room ==
    /\ MaxAmplitude \in Nat /\ MaxAmplitude + 2 * UNIT = VALHALF - 2
    /\ STEPHALF <= MaxAmplitude + 1
BY Widths, SMT DEF MaxAmplitude

(* The amplitude after a turn at the top: within its bounds, and larger    *)
(* below the limit unless the first one does not fit.                      *)
LEMMA Grown ==
    ASSUME TypeOK, AmplitudeFits
    PROVE  LET amp == sweep_amplitude_f IN
           /\ grown(amp) \in -STEPHALF .. MaxAmplitude
           /\ amp \in 0 .. AMPLIMIT - 1 /\ (amp = 0 => FirstFits)
              => grown(amp) > amp
<1> DEFINE amp == sweep_amplitude_f
           first == GAIN * pins.step
<1>1. /\ amp \in -STEPHALF .. MaxAmplitude /\ pins.step \in Nat
      /\ first \in Int
  <2>1. pins.step \in Nat
    BY StepType, Zenon
  <2>2. first \in Int
    BY <2>1, Widths, SMT
  <2> QED
    BY <2>1, <2>2, Zenon DEF AmplitudeFits
<1>2. Signed(first, STEPHALF) \in Register(STEPHALF)
  <2> HIDE DEF first
  <2>1. STEPHALF > 0
    BY Widths, SMT
  <2> QED
    BY <1>1, <2>1, SignedType, Widths, Zenon
<1>3. FirstFits => Signed(first, STEPHALF) > 0
  <2> SUFFICES ASSUME FirstFits PROVE Signed(first, STEPHALF) > 0
    OBVIOUS
  <2>1. 0 < pins.step /\ first < STEPHALF
    BY Zenon DEF FirstFits
  <2>2. first > 0
    <3>1. \A g, n \in Nat : g > 0 /\ 0 < n => g * n > 0
      BY SMT
    <3> QED
      BY <1>1, <2>1, <3>1, Widths, Zenon
  <2> HIDE DEF first
  <2>3. first \in Register(STEPHALF)
    BY <1>1, <2>1, <2>2, Widths, SMT DEF Register
  <2> QED
    BY <2>2, <2>3, SignedFits, Zenon
<1> DEFINE unsigned == IF amp < 0 THEN amp + 2 * VALHALF ELSE amp
<1>4. grown(amp) = CASE amp = 0 -> Signed(first, STEPHALF)
                     [] amp # 0 /\ unsigned < AMPLIMIT -> Signed(2 * amp, VALHALF)
                     [] OTHER -> amp
  BY Zenon DEF grown
<1> HIDE DEF amp, first
<1>5. /\ amp < 0 => ~(unsigned < AMPLIMIT)
      /\ ~(amp < 0) => unsigned = amp
  BY <1>1, Room, Widths, SMT
<1> HIDE DEF unsigned
<1>6. CASE amp = 0
  <2>1. grown(amp) = Signed(first, STEPHALF)
    BY <1>4, <1>6, Zenon
  <2>2. grown(amp) \in -STEPHALF .. MaxAmplitude
    BY <1>2, <2>1, Room, Widths, SMT DEF Register
  <2>3. FirstFits => grown(amp) > amp
    BY <1>3, <1>6, <2>1, Zenon
  <2> QED
    BY <1>6, <2>2, <2>3, Zenon DEF amp
<1>7. CASE amp # 0 /\ ~(amp < 0) /\ amp < AMPLIMIT
  <2>1. 2 * amp \in 0 .. MaxAmplitude /\ 2 * amp > amp
        /\ 2 * amp \in Register(VALHALF)
    BY <1>1, <1>7, Room, Widths, SMT DEF MaxAmplitude, Register
  <2>2. grown(amp) = 2 * amp
    BY <1>4, <1>5, <1>7, <2>1, SignedFits, Zenon
  <2>3. grown(amp) \in -STEPHALF .. MaxAmplitude /\ grown(amp) > amp
    BY <2>1, <2>2, Widths, SMT
  <2> QED
    BY <2>3, Zenon DEF amp
<1>8. CASE amp # 0 /\ (amp < 0 \/ ~(amp < AMPLIMIT))
  <2>1. grown(amp) = amp
    BY <1>4, <1>5, <1>8, Zenon
  <2>2. amp \notin 0 .. AMPLIMIT - 1
    BY <1>1, <1>8, Widths, SMT
  <2> QED
    BY <1>1, <2>1, <2>2, Zenon DEF amp
<1> QED
  BY <1>6, <1>7, <1>8, Zenon

LEMMA AmplitudeInit == Init => AmplitudeFits
BY Room, Widths, SMT DEF Init, AmplitudeFits

(* No clock takes it out of its bounds, whatever the pins were.            *)
LEMMA AmplitudeStep ==
    ASSUME TypeOK, AmplitudeFits, Off \/ Frozen \/ Return \/ Sweep
    PROVE  AmplitudeFits'
<1> DEFINE amp == sweep_amplitude_f
<1>1. amp' = 0 \/ amp' = amp \/ amp' = grown(amp)
  BY Zenon DEF Off, Frozen, Return, Sweep
<1>2. /\ amp \in -STEPHALF .. MaxAmplitude
      /\ grown(amp) \in -STEPHALF .. MaxAmplitude
  BY Grown, Zenon DEF AmplitudeFits
<1>3. 0 \in -STEPHALF .. MaxAmplitude
  BY Room, Widths, SMT
<1>4. amp' \in -STEPHALF .. MaxAmplitude
  BY <1>1, <1>2, <1>3, Zenon
<1> QED
  BY <1>4, Zenon DEF AmplitudeFits

LEMMA AmplitudeInv ==
    TypeOK /\ AmplitudeFits /\ [Clock]_vars => (TypeOK /\ AmplitudeFits)'
<1> SUFFICES ASSUME TypeOK, AmplitudeFits, [Clock]_vars PROVE AmplitudeFits'
  BY TypeStep, Zenon
<1>1. CASE Clock
  BY <1>1, AmplitudeStep, Zenon DEF Clock
<1>2. CASE UNCHANGED vars
  BY <1>2, Zenon DEF vars, AmplitudeFits
<1> QED
  BY <1>1, <1>2, Zenon

(* Doubling stops in time, for every width, sequence of steps and          *)
(* behaviour of the pins (sweep_amplitude_f).                              *)
THEOREM AmplitudeBound == Spec => []AmplitudeFits
BY InitType, AmplitudeInit, AmplitudeInv, PTL DEF Spec

(* Every turn at the top of an uninterrupted search leaves a larger        *)
(* amplitude, until the limit, if the first one fits (sweep_amplitude_f).  *)
THEOREM EveryTurnGrows == Spec => AmplitudeGrows
<1> DEFINE Below == /\ sweep_amplitude_f \in 0 .. AMPLIMIT - 1
                    /\ sweep_amplitude_f = 0 => FirstFits
           Grows == (/\ Searching /\ state_f = "GOINGUP"
                     /\ state_f' = "GOINGDOWN"
                     /\ sweep_amplitude_f \in 0 .. AMPLIMIT - 1
                     /\ sweep_amplitude_f = 0 => FirstFits)
                    => sweep_amplitude_f' > sweep_amplitude_f
<1>1. TypeOK /\ AmplitudeFits /\ [Clock]_vars => [Grows]_vars
  <2> SUFFICES ASSUME TypeOK, AmplitudeFits, Clock, Searching, Below,
                      state_f = "GOINGUP", state_f' = "GOINGDOWN"
               PROVE  sweep_amplitude_f' > sweep_amplitude_f
    BY Zenon
  <2>1. Sweep
    BY Zenon DEF Clock, Searching, hold_o, Off, Frozen, Return
  <2>2. state_f' # state_f /\ state_f # "ZERO" /\ state_f' # "GOINGUP"
    BY SMT
  <2>3. sweep_amplitude_f' = grown(sweep_amplitude_f)
    BY <2>1, <2>2, Zenon DEF Sweep
  <2> QED
    BY <2>3, Grown, Zenon
<1> QED
  BY InitType, AmplitudeInit, AmplitudeInv, <1>1, PTL DEF Spec, AmplitudeGrows

-----------------------------------------------------------------------------
(***************************************************************************)
(* Nothing wraps while the sweep is slow and can turn.  ValueFits is not   *)
(* inductive: a sweep that has overshot by two steps must be on its way    *)
(* back.  The inductive invariant bounds the value by one step less while  *)
(* it still moves outwards.                                                *)
(***************************************************************************)
Turned ==
    /\ state_f = "GOINGUP" => current_val_f <= MaxAmplitude + UNIT
    /\ state_f = "GOINGDOWN" => current_val_f >= -(MaxAmplitude + UNIT)
    /\ state_f = "ZERO" => current_val_f \in -(2 * UNIT) .. 2 * UNIT

IInv == TypeOK /\ AmplitudeFits /\ ValueFits /\ Turned

(* A slow step is not negative. *)
LEMMA SmallStep ==
    ASSUME SlowStep, TypeOK
    PROVE  step = pins.step /\ step \in 0 .. UNIT
<1>1. pins.step \in 0 .. UNIT
  BY StepType, Widths, SMT DEF SlowStep
<1>2. pins.step \in Register(STEPHALF)
  BY <1>1, Widths, SMT DEF Register
<1>3. step = pins.step
  BY <1>2, SignedFits, Zenon DEF step
<1> QED
  BY <1>1, <1>3, Zenon

(* What Accumulate does when nothing wraps. *)
LEMMA Accumulated ==
    ASSUME SlowStep, IInv, Accumulate
    PROVE  /\ state_f = "GOINGUP" => current_val_f' = current_val_f + step
           /\ state_f = "GOINGDOWN" => current_val_f' = current_val_f - step
           /\ state_f = "ZERO" => current_val_f' = 0
           /\ current_val_f' \in
                 -(MaxAmplitude + 2 * UNIT) .. MaxAmplitude + 2 * UNIT
<1>1. TypeOK /\ ValueFits /\ Turned
  BY Zenon DEF IInv
<1>2. step \in 0 .. UNIT
  BY <1>1, SmallStep, Zenon
<1>3. current_val_f \in Int /\ state_f \in {"ZERO", "GOINGUP", "GOINGDOWN"}
  BY <1>1, Widths, SMT DEF TypeOK, Register
<1>4. CASE state_f = "GOINGUP"
  <2>1. current_val_f <= MaxAmplitude + UNIT
    BY <1>1, <1>4, Zenon DEF Turned
  <2>2. /\ current_val_f + step \in Register(VALHALF)
        /\ current_val_f + step \in
              -(MaxAmplitude + 2 * UNIT) .. MaxAmplitude + 2 * UNIT
    BY <1>1, <1>2, <1>3, <2>1, Room, Widths, SMT DEF Register, ValueFits
  <2>3. current_val_f' = Signed(current_val_f + step, VALHALF)
    BY <1>4, Zenon DEF Accumulate
  <2>4. current_val_f' = current_val_f + step
    BY <2>2, <2>3, SignedFits, Zenon
  <2> QED
    BY <1>4, <2>2, <2>4, Zenon
<1>5. CASE state_f = "GOINGDOWN"
  <2>1. current_val_f >= -(MaxAmplitude + UNIT)
    BY <1>1, <1>5, Zenon DEF Turned
  <2>2. /\ current_val_f - step \in Register(VALHALF)
        /\ current_val_f - step \in
              -(MaxAmplitude + 2 * UNIT) .. MaxAmplitude + 2 * UNIT
    BY <1>1, <1>2, <1>3, <2>1, Room, Widths, SMT DEF Register, ValueFits
  <2>3. current_val_f' = Signed(current_val_f - step, VALHALF)
    BY <1>5, Zenon DEF Accumulate
  <2>4. current_val_f' = current_val_f - step
    BY <2>2, <2>3, SignedFits, Zenon
  <2> QED
    BY <1>5, <2>2, <2>4, Zenon
<1>6. CASE state_f = "ZERO"
  <2>1. current_val_f' = 0
    BY <1>6, Zenon DEF Accumulate
  <2>2. 0 \in -(MaxAmplitude + 2 * UNIT) .. MaxAmplitude + 2 * UNIT
    BY Room, Widths, SMT
  <2> QED
    BY <1>6, <2>1, <2>2, Zenon
<1> QED
  BY <1>3, <1>4, <1>5, <1>6, Zenon

(* AtBottom: the negated amplitude fits in its register. *)
LEMMA BottomFits ==
    ASSUME IInv
    PROVE  AtBottom = (current_val_f < -sweep_amplitude_f
                       \/ pins.railed = "lower")
<1>1. sweep_amplitude_f \in -STEPHALF .. MaxAmplitude
  BY Zenon DEF IInv, AmplitudeFits
<1>2. -sweep_amplitude_f \in Register(VALHALF)
  BY <1>1, Room, Widths, SMT DEF Register
<1>3. Signed(-sweep_amplitude_f, VALHALF) = -sweep_amplitude_f
  BY <1>2, SignedFits, Zenon
<1> QED
  BY <1>3, Zenon DEF AtBottom

LEMMA IInvInit == Init => IInv
<1> SUFFICES ASSUME Init PROVE IInv
  OBVIOUS
<1>1. TypeOK /\ AmplitudeFits
  BY InitType, AmplitudeInit, Zenon
<1>2. state_f = "ZERO" /\ current_val_f = 0
  BY Zenon DEF Init
<1>3. ValueFits
  BY <1>2, Room, Widths, SMT DEF ValueFits
<1>4. Turned
  BY <1>2, Widths, SMT DEF Turned
<1> QED
  BY <1>1, <1>3, <1>4, Zenon DEF IInv

(* What a turn or the lack of one does to the bounds, action by action.    *)
LEMMA ReturnStep ==
    ASSUME SlowStep, IInv, Return
    PROVE  ValueFits' /\ Turned'
<1>1. step \in 0 .. UNIT /\ current_val_f \in Int
      /\ state_f \in {"ZERO", "GOINGUP", "GOINGDOWN"}
  <2>1. TypeOK
    BY Zenon DEF IInv
  <2>2. step \in 0 .. UNIT
    BY <2>1, SmallStep, Zenon
  <2> QED
    BY <2>1, <2>2, Widths, SMT DEF TypeOK, Register
<1>2. /\ state_f = "GOINGUP" => current_val_f' = current_val_f + step
      /\ state_f = "GOINGDOWN" => current_val_f' = current_val_f - step
      /\ state_f = "ZERO" => current_val_f' = 0
      /\ current_val_f' \in
            -(MaxAmplitude + 2 * UNIT) .. MaxAmplitude + 2 * UNIT
  BY Accumulated, Zenon DEF Return
<1>3. state_f' = IF current_val_f > step THEN "GOINGDOWN"
                 ELSE IF current_val_f < -step THEN "GOINGUP" ELSE "ZERO"
  BY Zenon DEF Return
<1>4. ValueFits'
  BY <1>2, Zenon DEF ValueFits
<1>5. state_f' = "GOINGUP" => current_val_f' <= MaxAmplitude + UNIT
  BY <1>1, <1>2, <1>3, Room, Widths, SMT
<1>6. state_f' = "GOINGDOWN" => current_val_f' >= -(MaxAmplitude + UNIT)
  BY <1>1, <1>2, <1>3, Room, Widths, SMT
<1>7. state_f' = "ZERO" => current_val_f' \in -(2 * UNIT) .. 2 * UNIT
  BY <1>1, <1>2, <1>3, Room, Widths, SMT
<1> QED
  BY <1>4, <1>5, <1>6, <1>7, Zenon DEF Turned

LEMMA SweepStep ==
    ASSUME SlowStep, CanTurn, IInv, Sweep
    PROVE  ValueFits' /\ Turned'
<1> DEFINE amp == sweep_amplitude_f
<1>1. /\ step \in 0 .. UNIT /\ current_val_f \in Int
      /\ state_f \in {"ZERO", "GOINGUP", "GOINGDOWN"}
      /\ amp \in -STEPHALF .. MaxAmplitude /\ Turned
  <2>1. TypeOK /\ AmplitudeFits /\ Turned
    BY Zenon DEF IInv
  <2>2. step \in 0 .. UNIT
    BY <2>1, SmallStep, Zenon
  <2> QED
    BY <2>1, <2>2, Widths, SMT DEF TypeOK, Register, AmplitudeFits
<1>2. /\ state_f = "GOINGUP" => current_val_f' = current_val_f + step
      /\ state_f = "GOINGDOWN" => current_val_f' = current_val_f - step
      /\ state_f = "ZERO" => current_val_f' = 0
      /\ current_val_f' \in
            -(MaxAmplitude + 2 * UNIT) .. MaxAmplitude + 2 * UNIT
  BY Accumulated, Zenon DEF Sweep
<1>4. ValueFits'
  BY <1>2, Zenon DEF ValueFits
<1>5. CASE state_f = "ZERO" /\ state_f' = "GOINGUP"
  BY <1>1, <1>2, <1>4, <1>5, Room, Widths, SMT DEF Turned
<1>6. CASE state_f # "ZERO" /\ AtTop /\ state_f' = "GOINGDOWN"
  <2>1. current_val_f >= -MaxAmplitude
    <3>1. CASE current_val_f > amp
      BY <3>1, <1>1, Room, Widths, SMT
    <3>2. CASE pins.railed = "upper"
      <4>1. current_val_f > -MaxAmplitude
        BY <3>2, Zenon DEF CanTurn
      <4> QED
        BY <4>1, <1>1, Room, SMT
    <3> QED
      BY <1>6, <3>1, <3>2, Zenon DEF AtTop
  <2>2. current_val_f' >= -(MaxAmplitude + UNIT)
    BY <1>1, <1>2, <1>6, <2>1, Room, Widths, SMT
  <2> QED
    BY <1>4, <1>6, <2>2, Zenon DEF Turned
<1>7. CASE /\ state_f # "ZERO" /\ ~AtTop
           /\ state_f' = IF AtBottom THEN "GOINGUP" ELSE state_f
  <2>1. current_val_f <= amp
    <3>1. ~(current_val_f > amp)
      BY <1>7, Zenon DEF AtTop
    <3> QED
      BY <3>1, <1>1, Widths, SMT
  <2>2. state_f' = "GOINGUP" => current_val_f' <= MaxAmplitude + UNIT
    BY <1>1, <1>2, <1>7, <2>1, Room, Widths, SMT
  <2>3. state_f' = "GOINGDOWN" => current_val_f' >= -(MaxAmplitude + UNIT)
    <3>1. CASE AtBottom
      BY <3>1, <1>7, SMT
    <3>2. CASE ~AtBottom
      <4>1. ~(current_val_f < -amp)
        BY <3>2, BottomFits, Zenon
      <4>2. current_val_f >= -MaxAmplitude
        BY <4>1, <1>1, Room, Widths, SMT
      <4> QED
        BY <1>1, <1>2, <1>7, <4>2, Room, Widths, SMT
    <3> QED
      BY <3>1, <3>2, Zenon
  <2>4. state_f' # "ZERO"
    BY <1>1, <1>7, SMT
  <2> QED
    BY <1>4, <2>2, <2>3, <2>4, Zenon DEF Turned
<1> QED
  BY <1>5, <1>6, <1>7, Zenon DEF Sweep

LEMMA IInvStep == ASSUME SlowStep, CanTurn, IInv, [Clock]_vars PROVE IInv'
<1>1. CASE Clock
  <2>1. TypeOK' /\ AmplitudeFits'
    BY <1>1, AmplitudeInv, Zenon DEF IInv
  <2>2. ValueFits' /\ Turned'
    <3>1. CASE Off
      <4>1. state_f' = "ZERO" /\ current_val_f' = 0
        BY <3>1, Zenon DEF Off
      <4> QED
        BY <4>1, Room, Widths, SMT DEF ValueFits, Turned
    <3>2. CASE Frozen
      BY <3>2, Zenon DEF Frozen, IInv, ValueFits, Turned
    <3>3. CASE Return
      BY <3>3, ReturnStep, Zenon
    <3>4. CASE Sweep
      BY <3>4, SweepStep, Zenon
    <3> QED
      BY <1>1, <3>1, <3>2, <3>3, <3>4, Zenon DEF Clock
  <2> QED
    BY <2>1, <2>2, Zenon DEF IInv
<1>2. CASE UNCHANGED vars
  BY <1>2, Zenon DEF vars, IInv, TypeOK, AmplitudeFits, ValueFits, Turned
<1> QED
  BY <1>1, <1>2, Zenon

(* A slow sweep that can turn never wraps, at any amplitude, lower rail,   *)
(* hold or change of step (pid_relock, the current_val_f register).        *)
THEOREM NothingWraps == Spec => SweepFits
<1> DEFINE Granted == SlowStep /\ CanTurn
<1>1. IInv /\ Granted /\ [Clock]_vars => IInv'
  BY IInvStep, Zenon
<1>2. IInv => ValueFits
  BY Zenon DEF IInv
<1> QED
  BY IInvInit, <1>1, <1>2, PTL DEF Spec, SweepFits

-----------------------------------------------------------------------------
(***************************************************************************)
(* Continuity.  The register moves by two counts at most, by Turned; the   *)
(* rounding down and the saturation do not make it more.                   *)
(***************************************************************************)
LEMMA Jump ==
    ASSUME SlowStep, IInv, Clock, pins.on
    PROVE  current_val_f' - current_val_f \in -(2 * UNIT) .. 2 * UNIT
<1>1. /\ TypeOK /\ Turned
      /\ state_f \in {"ZERO", "GOINGUP", "GOINGDOWN"}
      /\ current_val_f \in Int
  BY Widths, SMT DEF IInv, TypeOK, Register
<1>2. step \in 0 .. UNIT
  BY <1>1, SmallStep, Zenon
<1>3. CASE Frozen
  <2>1. current_val_f' = current_val_f
    BY <1>3, Zenon DEF Frozen
  <2> QED
    BY <2>1, <1>1, Widths, SMT
<1>4. CASE Accumulate
  <2>1. /\ state_f = "GOINGUP" => current_val_f' = current_val_f + step
        /\ state_f = "GOINGDOWN" => current_val_f' = current_val_f - step
        /\ state_f = "ZERO" => current_val_f' = 0
    BY <1>4, Accumulated, Zenon
  <2>2. state_f = "ZERO" => current_val_f \in -(2 * UNIT) .. 2 * UNIT
    BY <1>1, Zenon DEF Turned
  <2> QED
    BY <1>1, <1>2, <2>1, <2>2, Widths, SMT
<1> QED
  BY <1>3, <1>4, Zenon DEF Clock, Off, Return, Sweep

(* Rounding down. *)
LEMMA QuotientJump ==
    ASSUME NEW a \in Int, NEW b \in Int, NEW u \in Nat, u > 0,
           a - b <= 2 * u
    PROVE  (a \div u) - (b \div u) <= 2
<1> DEFINE qa == a \div u
           qb == b \div u
<1>1. qa \in Int /\ qb \in Int /\ u * qa <= a /\ b < u * qb + u
  BY Quotient, Zenon
<1> HIDE DEF qa, qb
<1>2. u * (qa - qb) < 3 * u
  <2>1. u * qa < u * qb + 3 * u
    BY <1>1, SMT
  <2>2. u * (qa - qb) = u * qa - u * qb
    BY <1>1, SMT
  <2>3. u * qa \in Int /\ u * qb \in Int
    BY <1>1, SMT
  <2> QED
    BY <2>1, <2>2, <2>3, SMT
<1>3. qa - qb < 3
  <2>1. qa - qb \in Int
    BY <1>1, SMT
  <2> QED
    BY <2>1, <1>2, Cancel, SMT
<1> QED
  BY <1>1, <1>3, SMT DEF qa, qb

(* Saturation cuts the quotient off at the ends of the DAC range. *)
LEMMA SaturatedIsCut ==
    ASSUME NEW a \in Int
    PROVE  LET q == a \div UNIT
               top == RANGE \div UNIT
           IN  /\ q \in Int /\ top \in Nat
               /\ q >= top => Saturated(a) = top - 1
               /\ q < -top => Saturated(a) = -top
               /\ q \in -top .. top - 1 => Saturated(a) = q
<1> DEFINE q == a \div UNIT
           top == RANGE \div UNIT
<1>1. /\ q \in Int /\ UNIT * q <= a /\ a < UNIT * q + UNIT
  BY Quotient, Widths, Zenon
<1>2. top \in Nat /\ UNIT * top = RANGE
  BY WidthAssumption, SMT
<1>3. Saturated(a) = IF a >= RANGE THEN top - 1
                     ELSE IF a < -RANGE THEN -top ELSE q
  BY Zenon DEF Saturated
<1> HIDE DEF q, top
<1>5. UNIT * q \in Int
  BY <1>1, Widths, SMT
<1>6. q >= top => a >= RANGE
  <2>1. q >= top => UNIT * q >= UNIT * top
    BY <1>1, <1>2, Widths, SMT
  <2> QED
    BY <1>1, <1>2, <1>5, <2>1, Widths, SMT
<1>7. q < top => a < RANGE
  <2>1. q < top => UNIT * q + UNIT <= UNIT * top
    <3>1. q < top => UNIT * (q + 1) <= UNIT * top
      BY <1>1, <1>2, Widths, SMT
    <3> QED
      BY <3>1, <1>1, <1>2, Widths, SMT
  <2> QED
    BY <1>1, <1>2, <1>5, <2>1, Widths, SMT
<1>8. q >= -top => a >= -RANGE
  <2>1. q >= -top => UNIT * q >= -(UNIT * top)
    <3>1. q >= -top => UNIT * q >= UNIT * (-top)
      BY <1>1, <1>2, Widths, SMT
    <3>2. UNIT * (-top) = -(UNIT * top)
      BY <1>2, Widths, SMT
    <3> QED
      BY <3>1, <3>2, Zenon
  <2> QED
    BY <1>1, <1>2, <1>5, <2>1, Widths, SMT
<1>9. q < -top => a < -RANGE
  <2>1. q < -top => UNIT * q + UNIT <= -(UNIT * top)
    <3>1. q < -top => UNIT * (q + 1) <= UNIT * (-top)
      BY <1>1, <1>2, Widths, SMT
    <3>2. UNIT * (-top) = -(UNIT * top) /\ UNIT * (q + 1) = UNIT * q + UNIT
      BY <1>1, <1>2, Widths, SMT
    <3> QED
      BY <3>1, <3>2, Zenon
  <2> QED
    BY <1>1, <1>2, <1>5, <2>1, Widths, SMT
<1>10. /\ q >= top => Saturated(a) = top - 1
       /\ q < -top => Saturated(a) = -top
       /\ q \in -top .. top - 1 => Saturated(a) = q
  BY <1>1, <1>2, <1>3, <1>6, <1>7, <1>8, <1>9, Widths, SMT
<1> QED
  BY <1>1, <1>2, <1>10, Zenon DEF q, top

(* As long as it is on, the relock moves the output by two DAC counts a    *)
(* clock at most (signal_o of pid_relock).                                 *)
LEMMA NeverJumps ==
    ASSUME SlowStep, CanTurn, IInv, Clock, pins.on
    PROVE  signal_o' - signal_o \in -2 .. 2
<1> DEFINE a == current_val_f
           b == current_val_f'
           qa == a \div UNIT
           qb == b \div UNIT
           top == RANGE \div UNIT
<1>1. a \in Int /\ b \in Int /\ a - b <= 2 * UNIT /\ b - a <= 2 * UNIT
  <2>1. TypeOK /\ TypeOK'
    BY IInvStep, Zenon DEF IInv
  <2>2. a \in Int /\ b \in Int
    BY <2>1, Widths, SMT DEF TypeOK, Register
  <2>3. current_val_f' - current_val_f \in -(2 * UNIT) .. 2 * UNIT
    BY Jump, Zenon
  <2>4. b - a \in -(2 * UNIT) .. 2 * UNIT
    BY <2>3, Zenon
  <2> HIDE DEF a, b
  <2> QED
    BY <2>2, <2>4, Widths, SMT
<1> HIDE DEF a, b
<1>2. qa - qb <= 2 /\ qb - qa <= 2
  BY <1>1, QuotientJump, Widths, Zenon
<1>3. /\ qa \in Int /\ top \in Nat
      /\ qa >= top => Saturated(a) = top - 1
      /\ qa < -top => Saturated(a) = -top
      /\ qa \in -top .. top - 1 => Saturated(a) = qa
  BY <1>1, SaturatedIsCut, Zenon
<1>4. /\ qb \in Int
      /\ qb >= top => Saturated(b) = top - 1
      /\ qb < -top => Saturated(b) = -top
      /\ qb \in -top .. top - 1 => Saturated(b) = qb
  BY <1>1, SaturatedIsCut, Zenon
<1> HIDE DEF qa, qb, top
<1>5. top > 0
  BY WidthAssumption, SMT DEF top
<1>6. Saturated(b) - Saturated(a) \in -2 .. 2
  BY <1>2, <1>3, <1>4, <1>5, SMT
<1>7. signal_o = Saturated(a) /\ signal_o' = Saturated(b)
  BY Zenon DEF signal_o, a, b, Saturated
<1> QED
  BY <1>6, <1>7, Zenon
=============================================================================
