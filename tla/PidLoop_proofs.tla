----------------------------- MODULE PidLoop_proofs -----------------------------
(***************************************************************************)
(* What a PID block and the loop around it do for every width of their     *)
(* words, every setting and every behaviour of the inputs, whatever else is*)
(* added to the output: the registers keep their type, the block's output  *)
(* follows its terms as long as their sum is one it can tell, the search is*)
(* a triangle where it has room, and an integrator at a limit is stopped in*)
(* time.                                                                   *)
(***************************************************************************)
EXTENDS PidLoop, TLAPS

-----------------------------------------------------------------------------
(***************************************************************************)
(* What the words of the gateware hold, for every width.                   *)
(***************************************************************************)
(* A signed register holds a number of its width, whatever is put in it.   *)
LEMMA SignedType ==
    ASSUME NEW x \in Int, NEW half \in Nat, half > 0
    PROVE  Signed(x, half) \in Register(half)
<1>1. CASE x \in Register(half)
  BY <1>1 DEF Signed
<1>2. CASE x \notin Register(half)
  <2>1. (x + half) % (2 * half) \in 0 .. 2 * half - 1
    BY SMT
  <2>2. ((x + half) % (2 * half)) - half \in -half .. half - 1
    BY <2>1, SMT
  <2> QED
    BY <1>2, <2>2 DEF Signed, Register
<1> QED
  BY <1>1, <1>2

(* A number that fits is stored as it is. *)
LEMMA SignedFits ==
    ASSUME NEW half, NEW x \in Register(half)
    PROVE  Signed(x, half) = x
BY DEF Signed

(* A saturated number fits. *)
LEMMA ClampedType ==
    ASSUME NEW x \in Int, NEW half \in Nat, half > 0
    PROVE  Clamped(x, half) \in Register(half)
BY SMT DEF Clamped, Register

-----------------------------------------------------------------------------
(* A shift to the right is a division that rounds down.                    *)
LEMMA Quotient ==
    ASSUME NEW a \in Int, NEW u \in Nat, u > 0
    PROVE  /\ a \div u \in Int
           /\ u * (a \div u) <= a /\ a < u * (a \div u) + u
BY SMT

LEMMA Cancel ==
    ASSUME NEW u \in Nat, u > 0, NEW d \in Int, NEW n \in Nat, u * d < n * u
    PROVE  d < n
BY SMT

(* Shifted, a word has so many bits less. *)
LEMMA ShiftedType ==
    ASSUME NEW half \in Nat, NEW u \in Nat, u > 0,
           NEW a \in Register(half * u)
    PROVE  a \div u \in Register(half)
<1> DEFINE q == a \div u
<1>1. half * u \in Nat /\ a \in Int /\ -(half * u) <= a /\ a < half * u
  BY SMT DEF Register
<1>2. q \in Int /\ u * q <= a /\ a < u * q + u
  BY <1>1, Quotient, Zenon
<1> HIDE DEF q
<1>3. q < half
  <2>1. u * q < half * u
    BY <1>1, <1>2, SMT
  <2> QED
    BY <1>2, <2>1, Cancel, Zenon
<1>4. -half <= q
  <2>1. u * (-q) < (half + 1) * u
    BY <1>1, <1>2, SMT
  <2>2. -q < half + 1
    <3>1. -q \in Int /\ half + 1 \in Nat
      BY <1>2, SMT
    <3> QED
      BY <2>1, <3>1, Cancel, Zenon
  <2> QED
    BY <1>2, <2>2, SMT
<1>5. q \in -half .. half - 1
  BY <1>2, <1>3, <1>4, SMT
<1> QED
  BY <1>5, Zenon DEF q, Register

(* The product of a word and a positive one. *)
LEMMA ProductType ==
    ASSUME NEW half \in Nat, NEW a \in Register(half),
           NEW max \in Nat, NEW g \in 0 .. max
    PROVE  a * g \in Int /\ -(half * max) <= a * g /\ a * g <= half * max
<1>1. a \in Int /\ g \in Nat /\ -half <= a /\ a <= half /\ g <= max
  BY SMT DEF Register
<1>2. a * g <= half * g /\ -(half * g) <= a * g
  BY <1>1, SMT
<1>3. half * g <= half * max
  BY <1>1, SMT
<1>4. a * g \in Int /\ half * g \in Int /\ half * max \in Int
  BY <1>1, SMT
<1> QED
  BY <1>2, <1>3, <1>4, SMT

-----------------------------------------------------------------------------

(***************************************************************************)
(* One PID block.                                                          *)
(***************************************************************************)
LEMMA BlockWidths ==
    /\ HALF \in Nat /\ HALF > 0 /\ PSHIFT \in Nat /\ PSHIFT > 0
    /\ ISHIFT \in Nat /\ ISHIFT > 0 /\ DSHIFT \in Nat /\ DSHIFT > 0
    /\ KDHALF \in Nat /\ KDHALF > 0 /\ GAINMAX \in Nat
    /\ SUMHALF \in Nat /\ PRODUCTHALF % PSHIFT = 0
    /\ KDHALF % DSHIFT = 0 /\ SUMHALF % 2 = 0 /\ 2 * (HALF * PSHIFT) <= SUMHALF
BY WidthAssumption, SMT

LEMMA HalfTypes ==
    /\ 2 * HALF \in Nat /\ 2 * HALF > 0
    /\ INTHALF \in Nat /\ INTHALF > 0 /\ INTHALF = (2 * HALF) * ISHIFT
    /\ PRODUCTHALF \in Nat
    /\ PRODUCTHALF = (4 * HALF) * GAINMAX + 4 * HALF
    /\ KDHALF \div DSHIFT \in Nat
    /\ (KDHALF \div DSHIFT) * DSHIFT = KDHALF
    /\ PRODUCTHALF \div PSHIFT \in Nat
    /\ (PRODUCTHALF \div PSHIFT) * PSHIFT = PRODUCTHALF
<1>1. 2 * HALF \in Nat /\ 2 * HALF > 0
  BY BlockWidths, SMT
<1>2. INTHALF \in Nat /\ INTHALF > 0 /\ INTHALF = (2 * HALF) * ISHIFT
  BY BlockWidths, SMT DEF INTHALF
<1>3. PRODUCTHALF \in Nat /\ PRODUCTHALF = (4 * HALF) * GAINMAX + 4 * HALF
  BY BlockWidths, SMT DEF PRODUCTHALF
<1>4. KDHALF \div DSHIFT \in Nat /\ (KDHALF \div DSHIFT) * DSHIFT = KDHALF
  BY BlockWidths, SMT
<1>5. /\ PRODUCTHALF \div PSHIFT \in Nat
      /\ (PRODUCTHALF \div PSHIFT) * PSHIFT = PRODUCTHALF
  BY <1>3, BlockWidths, SMT
<1> QED
  BY <1>1, <1>2, <1>3, <1>4, <1>5

-----------------------------------------------------------------------------
(***************************************************************************)
(* Type correctness.                                                       *)
(***************************************************************************)

(* The error has one bit more than the data. *)
LEMMA ErrorType ==
    ASSUME set \in AllSettings, NEW i \in Inputs, ErrorRegister(i)
    PROVE  error' \in Register(2 * HALF)
<1>1. i.dat \in Register(HALF) /\ set.sp \in Register(HALF)
  BY DataAssumption, Zenon DEF Inputs, AllSettings
<1>2. /\ i.dat - set.sp \in Register(2 * HALF)
      /\ -(i.dat - set.sp) \in Register(2 * HALF)
  BY <1>1, BlockWidths, SMT DEF Register
<1>3. \/ set.inverted /\ error' = -(i.dat - set.sp)
      \/ ~set.inverted /\ error' = i.dat - set.sp
  BY Zenon DEF ErrorRegister
<1> QED
  BY <1>2, <1>3, Zenon

(* A product of an error and a gain has 40 bits. *)
LEMMA GainProductType ==
    ASSUME NEW a \in Register(2 * HALF), NEW g \in 0 .. GAINMAX
    PROVE  /\ a * g \in Register(PRODUCTHALF)
           /\ -((2 * HALF) * GAINMAX) <= a * g /\ a * g <= (2 * HALF) * GAINMAX
<1>1. /\ a * g \in Int
      /\ -((2 * HALF) * GAINMAX) <= a * g /\ a * g <= (2 * HALF) * GAINMAX
  BY HalfTypes, BlockWidths, ProductType, Zenon
<1>2. /\ (2 * HALF) * GAINMAX \in Nat
      /\ PRODUCTHALF = 2 * ((2 * HALF) * GAINMAX) + 4 * HALF
  BY BlockWidths, HalfTypes, SMT
<1>3. a * g \in Register(PRODUCTHALF)
  <2> DEFINE P == (2 * HALF) * GAINMAX
             x == a * g
  <2>1. /\ x \in Int /\ -P <= x /\ x <= P /\ P \in Nat
        /\ PRODUCTHALF = 2 * P + 4 * HALF
    BY <1>1, <1>2, Zenon
  <2> HIDE DEF P, x
  <2>2. x \in Register(PRODUCTHALF)
    BY <2>1, BlockWidths, SMT DEF Register
  <2> QED
    BY <2>2, Zenon DEF x
<1> QED
  BY <1>1, <1>3, Zenon

(* The settings hold gains, and a saturating integrator stays in its range *)
(* whatever the reset, the center, a rail or the hold do.                  *)
LEMMA GainTypes ==
    ASSUME set \in AllSettings
    PROVE  /\ set.kp \in 0 .. GAINMAX /\ set.ki \in 0 .. GAINMAX
           /\ set.kd \in 0 .. GAINMAX /\ set.kii \in 0 .. GAINMAX
           /\ set.kg \in 0 .. GAINMAX
BY Zenon DEF AllSettings

LEMMA IntegratedType ==
    ASSUME NEW reg \in Register(INTHALF), NEW mult \in Int, NEW i \in Inputs
    PROVE  Integrated(reg, mult, i) \in Register(INTHALF)
<1>1. reg \in Int /\ reg + mult \in Int
  BY HalfTypes, SMT DEF Register
<1>2. Clamped(reg + mult, INTHALF) \in Register(INTHALF)
  BY <1>1, HalfTypes, ClampedType, Zenon
<1>3. 0 \in Register(INTHALF)
  BY HalfTypes, SMT DEF Register
<1>4. i.center * ISHIFT \in Register(INTHALF)
  <2>1. i.center \in Register(HALF)
    BY DataAssumption, Zenon DEF Inputs
  <2>2. i.center \in Int /\ -HALF <= i.center /\ i.center <= HALF
    BY <2>1, BlockWidths, SMT DEF Register
  <2>3. /\ HALF * ISHIFT \in Nat /\ HALF * ISHIFT > 0
        /\ i.center * ISHIFT \in Int
        /\ i.center * ISHIFT <= HALF * ISHIFT
        /\ -(HALF * ISHIFT) <= i.center * ISHIFT
        /\ INTHALF = 2 * (HALF * ISHIFT)
    BY <2>2, BlockWidths, HalfTypes, SMT
  <2> DEFINE h == HALF * ISHIFT
             c == i.center * ISHIFT
  <2>4. h \in Nat /\ h > 0 /\ c \in Int /\ c <= h /\ -h <= c /\ INTHALF = 2 * h
    BY <2>3, Zenon
  <2> HIDE DEF h, c
  <2>5. c \in Register(INTHALF)
    BY <2>4, SMT DEF Register
  <2> QED
    BY <2>5, Zenon DEF c
<1>5. CASE i.rst
  BY <1>3, <1>5, Zenon DEF Integrated
<1>6. CASE ~i.rst /\ i.ctr
  BY <1>4, <1>6, Zenon DEF Integrated
<1>7. CASE ~i.rst /\ ~i.ctr /\ Overflows(reg, mult)
  BY <1>2, <1>7, Zenon DEF Integrated
<1>8. CASE ~i.rst /\ ~i.ctr /\ ~Overflows(reg, mult)
  <2>1. Integrated(reg, mult, i)
            = IF WindsUp(mult, i) \/ i.hold THEN reg ELSE reg + mult
    BY <1>8, Zenon DEF Integrated
  <2>2. reg + mult \in Register(INTHALF)
    BY <1>8, Zenon DEF Overflows
  <2> QED
    BY <2>1, <2>2, Zenon
<1> QED
  BY <1>5, <1>6, <1>7, <1>8, Zenon

(* The registers of the terms, one by one. *)
LEMMA ProportionalType ==
    ASSUME TypeOK, NEW i \in Inputs, Proportional(i)
    PROVE  kp_reg' \in Register(PRODUCTHALF \div PSHIFT)
<1>1. CASE i.hold
  BY <1>1, Zenon DEF Proportional, TypeOK
<1>2. CASE ~i.hold
  <2>1. error * set.kp \in Register(PRODUCTHALF)
    BY GainTypes, GainProductType, Zenon DEF TypeOK
  <2>2. (error * set.kp) \div PSHIFT \in Register(PRODUCTHALF \div PSHIFT)
    BY <2>1, HalfTypes, BlockWidths, ShiftedType, Zenon
  <2> QED
    BY <1>2, <2>2, Zenon DEF Proportional
<1> QED
  BY <1>1, <1>2, Zenon

LEMMA IntegratorTypes ==
    ASSUME TypeOK, NEW i \in Inputs, Integrator(i), SecondIntegrator(i)
    PROVE  /\ ki_mult' \in Register(PRODUCTHALF)
           /\ kii_mult' \in Register(PRODUCTHALF)
           /\ int_reg' \in Register(INTHALF)
           /\ iint_reg' \in Register(INTHALF)
<1>1. error * set.ki \in Register(PRODUCTHALF)
  BY GainTypes, GainProductType, Zenon DEF TypeOK
<1>2. Shifted(int_reg) * set.kii \in Register(PRODUCTHALF)
  <2>1. int_reg \div ISHIFT \in Register(2 * HALF)
    BY HalfTypes, BlockWidths, ShiftedType, Zenon DEF TypeOK
  <2> QED
    BY <2>1, GainTypes, GainProductType, Zenon DEF TypeOK, Shifted
<1>3. ki_mult \in Int /\ kii_mult \in Int
  BY HalfTypes, SMT DEF TypeOK, Register
<1>4. /\ Integrated(int_reg, ki_mult, i) \in Register(INTHALF)
      /\ Integrated(iint_reg, kii_mult, i) \in Register(INTHALF)
  BY <1>3, IntegratedType, Zenon DEF TypeOK
<1> QED
  BY <1>1, <1>2, <1>4, Zenon DEF Integrator, SecondIntegrator

LEMMA DerivativeTypes ==
    ASSUME TypeOK, NEW i \in Inputs, Derivative(i)
    PROVE  /\ kd_reg' \in Register(KDHALF \div DSHIFT)
           /\ kd_reg_r' \in Register(KDHALF \div DSHIFT)
           /\ kd_reg_s' \in Register(2 * (KDHALF \div DSHIFT))
<1> DEFINE K == KDHALF \div DSHIFT
<1>1. CASE i.hold
  BY <1>1, Zenon DEF Derivative, TypeOK
<1>2. CASE ~i.hold
  <2>1. kd_mult \div DSHIFT \in Register(K)
    <3>1. error * set.kd \in Int
      BY GainTypes, HalfTypes, BlockWidths, SMT DEF TypeOK, Register
    <3>2. kd_mult \in Register(K * DSHIFT)
      BY <3>1, BlockWidths, HalfTypes, SignedType, Zenon DEF kd_mult
    <3> QED
      BY <3>2, HalfTypes, BlockWidths, ShiftedType, Zenon
  <2>2. kd_reg - kd_reg_r \in Register(2 * K)
    <3>1. kd_reg \in Register(K) /\ kd_reg_r \in Register(K) /\ K \in Nat
      BY HalfTypes, Zenon DEF TypeOK
    <3> HIDE DEF K
    <3> QED
      BY <3>1, SMT DEF Register
  <2>3. kd_reg \in Register(K)
    BY Zenon DEF TypeOK
  <2> QED
    BY <1>2, <2>1, <2>2, <2>3, Zenon DEF Derivative
<1> QED
  BY <1>1, <1>2, Zenon

(* The sum, and what the output makes of it. *)
LEMMA SumType == ASSUME TypeOK PROVE ExactSum \in Int
<1>1. /\ Shifted(int_reg) \in Int /\ Shifted(iint_reg) \in Int
  <2>1. int_reg \in Int /\ iint_reg \in Int
    BY HalfTypes, SMT DEF TypeOK, Register
  <2> QED
    BY <2>1, BlockWidths, Quotient, Zenon DEF Shifted
<1>2. kp_reg \in Int /\ kd_reg_s \in Int
  BY HalfTypes, SMT DEF TypeOK, Register
<1>3. set.kg \in Int
  BY GainTypes, BlockWidths, SMT DEF TypeOK
<1> QED
  BY <1>1, <1>2, <1>3, SMT DEF ExactSum

LEMMA OutputType ==
    ASSUME NEW sum \in Int
    PROVE  Output(sum) \in Register(HALF)
<1>1. Signed(sum \div PSHIFT, HALF) \in Register(HALF)
  BY BlockWidths, Quotient, SignedType, Zenon
<1>2. HALF - 1 \in Register(HALF) /\ -HALF \in Register(HALF)
  BY BlockWidths, SMT DEF Register
<1> QED
  BY <1>1, <1>2, Zenon DEF Output

LEMMA PidSumType == ASSUME TypeOK PROVE pid_sum \in Int
<1>1. SUMHALF > 0
  BY BlockWidths, SMT
<1>2. pid_sum \in Register(SUMHALF)
  BY <1>1, SumType, BlockWidths, SignedType, Zenon DEF pid_sum
<1> QED
  BY <1>2, BlockWidths, SMT DEF Register

LEMMA BlockStep ==
    ASSUME TypeOK, NEW i \in Inputs, Clock(i), set' \in AllSettings
    PROVE  TypeOK'
<1>1. error' \in Register(2 * HALF)
  BY ErrorType, Zenon DEF Clock, TypeOK
<1>2. kp_reg' \in Register(PRODUCTHALF \div PSHIFT)
  BY ProportionalType, Zenon DEF Clock
<1>3. /\ ki_mult' \in Register(PRODUCTHALF)
      /\ kii_mult' \in Register(PRODUCTHALF)
      /\ int_reg' \in Register(INTHALF)
      /\ iint_reg' \in Register(INTHALF)
  BY IntegratorTypes, Zenon DEF Clock
<1>4. /\ kd_reg' \in Register(KDHALF \div DSHIFT)
      /\ kd_reg_r' \in Register(KDHALF \div DSHIFT)
      /\ kd_reg_s' \in Register(2 * (KDHALF \div DSHIFT))
  BY DerivativeTypes, Zenon DEF Clock
<1>5. pid_out' \in Register(HALF)
  BY PidSumType, OutputType, Zenon DEF Clock, SumAndSaturate
<1> QED
  BY <1>1, <1>2, <1>3, <1>4, <1>5, Zenon DEF TypeOK

LEMMA BlockInit == ASSUME set \in AllSettings, RegistersReset PROVE TypeOK
<1>1. \A half \in Nat : half > 0 => 0 \in Register(half)
  BY SMT DEF Register
<1>2. /\ PRODUCTHALF > 0
      /\ PRODUCTHALF \div PSHIFT > 0
      /\ KDHALF \div DSHIFT > 0 /\ 2 * (KDHALF \div DSHIFT) > 0
      /\ 2 * (KDHALF \div DSHIFT) \in Nat
  BY HalfTypes, BlockWidths, SMT
<1> QED
  BY <1>1, <1>2, HalfTypes, BlockWidths, Zenon DEF RegistersReset, TypeOK

(* The registers of a PID block keep their type, whatever software writes  *)
(* and whatever the loop does (red_pitaya_pid_block).                      *)
THEOREM TypeCorrect == Spec => []TypeOK
<1>1. Init => TypeOK
  <2>1. Unset \in AllSettings
    <3>1. 0 \in Register(HALF) /\ 0 \in 0 .. GAINMAX
      BY BlockWidths, SMT DEF Register
    <3> QED
      BY <3>1, Zenon DEF Unset, AllSettings
  <2> QED
    BY <2>1, BlockInit, Zenon DEF Init
<1>2. TypeOK /\ [Next]_vars => TypeOK'
  <2>1. ASSUME TypeOK, Next PROVE TypeOK'
    <3>1. PICK i \in Inputs : Clock(i) /\ set' \in Settings
      BY <2>1, Zenon DEF Next
    <3>2. set' \in AllSettings
      BY <3>1, SettingsAssumption, Zenon
    <3> QED
      BY <2>1, <3>1, <3>2, BlockStep, Zenon
  <2>2. ASSUME TypeOK, UNCHANGED vars PROVE TypeOK'
    BY <2>2, Zenon DEF vars, regs, TypeOK
  <2> QED
    BY <2>1, <2>2, Zenon
<1> QED
  BY <1>1, <1>2, PTL DEF Spec

-----------------------------------------------------------------------------
(***************************************************************************)
(* The output.                                                             *)
(***************************************************************************)

(* With a sum the overflow test tells, the output is the sum or the end of *)
(* its range (pid_out): no wrap-around, and no window between the two      *)
(* tests.                                                                  *)
LEMMA OutputSaturatesSum ==
    ASSUME NEW sum \in -SUMHALF .. (SUMHALF \div 2) - 1
    PROVE  Output(sum) = Clamped(sum \div PSHIFT, HALF)
<1> DEFINE q == sum \div PSHIFT
           limit == HALF * PSHIFT
<1>1. /\ sum \in Int /\ sum < SUMHALF \div 2 /\ SUMHALF \div 2 \in Nat
      /\ limit \in Nat
  BY BlockWidths, SMT
<1>2. q \in Int /\ PSHIFT * q <= sum /\ sum < PSHIFT * q + PSHIFT
  BY <1>1, BlockWidths, Quotient, Zenon
<1>3. sum >= 0 => sum % (SUMHALF \div 2) = sum
  BY <1>1, SMT
<1> HIDE DEF q
<1>4. CASE sum >= limit
  <2>1. Output(sum) = HALF - 1
    BY <1>1, <1>3, <1>4, SMT DEF Output
  <2>2. HALF < q + 1
    <3>1. PSHIFT * (HALF - q) < 1 * PSHIFT
      BY <1>1, <1>2, <1>4, BlockWidths, SMT
    <3>2. HALF - q < 1
      <4>1. HALF - q \in Int /\ 1 \in Nat
        BY <1>2, BlockWidths, SMT
      <4> QED
        BY <3>1, <4>1, BlockWidths, Cancel, Zenon
    <3> QED
      BY <1>2, <3>2, BlockWidths, SMT
  <2>3. Clamped(q, HALF) = HALF - 1
    BY <1>2, <2>2, BlockWidths, SMT DEF Clamped
  <2> QED
    BY <2>1, <2>3, Zenon DEF q
<1>5. CASE sum < -limit
  <2>1. Output(sum) = -HALF
    BY <1>1, <1>3, <1>5, SMT DEF Output
  <2>2. q < -HALF
    <3>1. PSHIFT * (q + HALF) < 0 * PSHIFT
      BY <1>1, <1>2, <1>5, BlockWidths, SMT
    <3>2. q + HALF < 0
      <4>1. q + HALF \in Int /\ 0 \in Nat
        BY <1>2, BlockWidths, SMT
      <4> QED
        BY <3>1, <4>1, BlockWidths, Cancel, Zenon
    <3> QED
      BY <1>2, <3>2, BlockWidths, SMT
  <2>3. Clamped(q, HALF) = -HALF
    BY <1>2, <2>2, BlockWidths, SMT DEF Clamped
  <2> QED
    BY <2>1, <2>3, Zenon DEF q
<1>6. CASE sum < limit /\ ~(sum < -limit)
  <2>1. Output(sum) = Signed(q, HALF)
    BY <1>1, <1>3, <1>6, SMT DEF Output, q
  <2>2. q \in Register(HALF)
    <3>1. sum \in Register(HALF * PSHIFT)
      BY <1>1, <1>6, SMT DEF Register
    <3> QED
      BY <3>1, BlockWidths, ShiftedType, Zenon DEF q
  <2>3. Signed(q, HALF) = q
    BY <2>2, SignedFits, Zenon
  <2>4. Clamped(q, HALF) = q
    BY <2>2, BlockWidths, SMT DEF Clamped, Register
  <2> QED
    BY <2>1, <2>3, <2>4, Zenon DEF q
<1> QED
  BY <1>1, <1>4, <1>5, <1>6, SMT

(* The output is the sum of the terms times the global gain, or the end of *)
(* its range, for every sum the code can tell from a smaller one           *)
(* (pid_sum, pid_out).                                                     *)
THEOREM OutputFollowsTheSum == Spec => OutputIsTheSum
<1> DEFINE Tells == ExactSum \in -SUMHALF .. (SUMHALF \div 2) - 1
           Follows == Tells => pid_out' = Clamped(ExactSum \div PSHIFT, HALF)
<1>1. ASSUME Next, Tells PROVE pid_out' = Clamped(ExactSum \div PSHIFT, HALF)
  <2>1. pid_out' = Output(pid_sum)
    BY <1>1, Zenon DEF Next, Clock, SumAndSaturate
  <2>2. ExactSum \in Register(SUMHALF)
    <3> DEFINE s == ExactSum
    <3>1. s \in -SUMHALF .. (SUMHALF \div 2) - 1
      BY <1>1, Zenon
    <3> HIDE DEF s
    <3>2. s \in Register(SUMHALF)
      BY <3>1, BlockWidths, SMT DEF Register
    <3> QED
      BY <3>2, Zenon DEF s
  <2>3. pid_sum = ExactSum
    BY <2>2, SignedFits, Zenon DEF pid_sum
  <2>4. Output(ExactSum) = Clamped(ExactSum \div PSHIFT, HALF)
    BY <1>1, OutputSaturatesSum, Zenon
  <2> QED
    BY <2>1, <2>3, <2>4, Zenon
<1>2. [Next]_vars => [Follows]_vars
  BY <1>1, Zenon
<1> QED
  BY <1>2, PTL DEF Spec, OutputIsTheSum

-----------------------------------------------------------------------------
(***************************************************************************)
(* The loop around the block.                                              *)
(***************************************************************************)
RP == INSTANCE Relock_proofs WITH
        RANGE <- HALF * UNIT,
        pins <- [on |-> ctl.on /\ ~pid_irst, inside |-> inside,
                 hold |-> ctl.hold \/ ext_reset, railed |-> railed,
                 step |-> ctl.step]

(* The relock of the loop is one that Relock is about. *)
LEMMA RelockWidths == RP!WidthAssumption /\ RP!StepsAssumption
<1>1. RP!WidthAssumption
  <2>1. /\ UNIT \in Nat /\ UNIT > 0 /\ HALF \in Nat /\ HALF > 1
        /\ STEPHALF \in Nat /\ STEPHALF <= (HALF - 1) * UNIT
        /\ UNIT < STEPHALF
        /\ GAIN \in Nat \ {0}
    BY RelockAssumption, BlockWidths, SMT
  <2>2. /\ HALF * UNIT \in Nat /\ UNIT < HALF * UNIT
        /\ STEPHALF <= HALF * UNIT - UNIT
    BY <2>1, SMT
  <2>3. (HALF * UNIT) % UNIT = 0
    BY <2>1, SMT
  <2> QED
    BY <2>1, <2>2, <2>3, SMT DEF RP!WidthAssumption
<1>2. RP!StepsAssumption
  BY RelockAssumption DEF RP!StepsAssumption
<1> QED
  BY <1>1, <1>2

-----------------------------------------------------------------------------
(***************************************************************************)
(* Type correctness.                                                       *)
(***************************************************************************)
LEMMA ControlTypes ==
    ASSUME ctl \in Controls
    PROVE  /\ ctl.on \in BOOLEAN /\ ctl.step \in Steps
           /\ ctl.min \in Register(HALF) /\ ctl.max \in Register(HALF)
           /\ center \in Centers
BY ControlsAssumption, Zenon DEF AllControls, center

(* Both instances of the relock say the same. *)
LEMMA SameType == R!TypeOK <=> RP!TypeOK
BY DEF R!TypeOK, RP!TypeOK, R!Pins, RP!Pins, R!Register, RP!Register,
       R!VALHALF, RP!VALHALF

LEMMA SameClock ==
    RelockClock => /\ RP!LockedRegister
                   /\ RP!Off \/ RP!Frozen \/ RP!Return \/ RP!Sweep
<1>1. R!LockedRegister <=> RP!LockedRegister
  BY DEF R!LockedRegister, RP!LockedRegister
<1>2. R!Accumulate <=> RP!Accumulate
  BY DEF R!Accumulate, RP!Accumulate, R!step, RP!step, R!Signed, RP!Signed,
         R!Register, RP!Register, R!VALHALF, RP!VALHALF
<1>3. (R!Off <=> RP!Off) /\ (R!Frozen <=> RP!Frozen)
  BY DEF R!Off, RP!Off, R!Frozen, RP!Frozen
<1>4. R!Return <=> RP!Return
  BY <1>2 DEF R!Return, RP!Return, R!step, RP!step, R!Signed, RP!Signed,
              R!Register, RP!Register
<1>5. R!Sweep <=> RP!Sweep
  <2>1. R!AtTop <=> RP!AtTop
    BY DEF R!AtTop, RP!AtTop
  <2>2. R!AtBottom <=> RP!AtBottom
    BY DEF R!AtBottom, RP!AtBottom, R!Signed, RP!Signed, R!Register,
           RP!Register, R!VALHALF, RP!VALHALF
  <2>3. R!grown(sweep_amplitude_f) = RP!grown(sweep_amplitude_f)
    BY DEF R!grown, RP!grown, R!Signed, RP!Signed, R!Register, RP!Register,
           R!VALHALF, RP!VALHALF, R!AMPLIMIT, RP!AMPLIMIT
  <2> QED
    BY <1>2, <2>1, <2>2, <2>3, Zenon DEF R!Sweep, RP!Sweep
<1> QED
  BY <1>1, <1>3, <1>4, <1>5, Zenon DEF RelockClock

(* The relock keeps the types of its registers, in the loop as anywhere.   *)
LEMMA RelockTypes ==
    ASSUME LoopTypeOK, RelockClock
    PROVE  /\ locked_f' \in BOOLEAN /\ clear_o' \in BOOLEAN
           /\ state_f' \in {"ZERO", "GOINGUP", "GOINGDOWN"}
           /\ current_val_f' \in R!Register(R!VALHALF)
           /\ sweep_amplitude_f' \in R!Register(R!VALHALF)
<1>1. RP!TypeOK
  BY SameType, Zenon DEF LoopTypeOK
<1>2. /\ locked_f' \in BOOLEAN /\ clear_o' \in BOOLEAN
      /\ state_f' \in {"ZERO", "GOINGUP", "GOINGDOWN"}
      /\ current_val_f' \in RP!Register(RP!VALHALF)
      /\ sweep_amplitude_f' \in RP!Register(RP!VALHALF)
  BY <1>1, SameClock, RelockWidths, RP!RegistersType
<1> QED
  BY <1>2 DEF R!Register, RP!Register, R!VALHALF, RP!VALHALF

LEMMA SweepType == ASSUME LoopTypeOK PROVE current_val_f \in Int
<1>1. HALF * UNIT \in Nat /\ 2 * (HALF * UNIT) \in Nat
  BY RelockAssumption, BlockWidths, SMT
<1>2. current_val_f \in R!Register(2 * (HALF * UNIT))
  BY Zenon DEF LoopTypeOK, R!TypeOK, R!VALHALF
<1> QED
  BY <1>1, <1>2, SMT DEF R!Register

(* What the sum and the limiter make of what they get. *)
LEMMA ContributionType ==
    ASSUME LoopTypeOK
    PROVE  contribution \in Register(HALF)
<1>1. 0 \in Register(HALF)
  BY BlockWidths, SMT DEF Register
<1>2. R!signal_o \in Int
  <2>1. UNIT \in Nat /\ UNIT > 0 /\ HALF * UNIT \in Nat
    BY RelockAssumption, BlockWidths, SMT
  <2>3. current_val_f \in Int
    BY SweepType, Zenon
  <2>4. /\ current_val_f \div UNIT \in Int
        /\ (HALF * UNIT) \div UNIT \in Int
    BY <2>1, <2>3, Quotient, SMT
  <2>5. /\ ((HALF * UNIT) \div UNIT) - 1 \in Int
        /\ -((HALF * UNIT) \div UNIT) \in Int
    BY <2>4, SMT
  <2> QED
    BY <2>4, <2>5, Zenon DEF R!signal_o, R!Saturated
<1>3. pid_out \in Int
  BY BlockWidths, SMT DEF LoopTypeOK, TypeOK, Register
<1>4. pid_out + R!signal_o \in Int
  BY <1>2, <1>3, SMT
<1>5. pid_sat \in Register(HALF)
  BY <1>4, BlockWidths, ClampedType, Zenon DEF pid_sat
<1> QED
  BY <1>1, <1>5, Zenon DEF contribution

LEMMA SumTypes ==
    ASSUME LoopTypeOK, NEW mate \in Mates, SumOutputs(mate)
    PROVE  out_sum' \in Register(2 * HALF) /\ out_sat' \in Register(HALF)
<1>1. contribution \in Register(HALF) /\ mate \in Register(HALF)
  BY ContributionType, ControlsAssumption, Zenon
<1>2. contribution + mate \in Register(2 * HALF)
  BY <1>1, BlockWidths, SMT DEF Register
<1>3. out_sum \in Int
  BY BlockWidths, SMT DEF LoopTypeOK, Register
<1>4. Clamped(out_sum, HALF) \in Register(HALF)
  BY <1>3, BlockWidths, ClampedType, Zenon
<1> QED
  BY <1>2, <1>4, Zenon DEF SumOutputs

LEMMA LimitTypes ==
    ASSUME LoopTypeOK, NEW offset \in Offsets, Limit(offset)
    PROVE  railed' \in {"none", "lower", "upper"} /\ dac' \in Register(HALF)
<1>1. ctl.min \in Register(HALF) /\ ctl.max \in Register(HALF)
  BY ControlTypes, Zenon DEF LoopTypeOK
<1>2. Clamped(out_sat + offset, HALF) \in Register(HALF)
  <2>1. offset \in Register(HALF) /\ out_sat \in Register(HALF)
    BY ControlsAssumption, Zenon DEF LoopTypeOK
  <2>2. out_sat + offset \in Int
    BY <2>1, BlockWidths, SMT DEF Register
  <2> QED
    BY <2>2, BlockWidths, ClampedType, Zenon
<1> QED
  BY <1>1, <1>2, Zenon DEF Limit

LEMMA PidInputsType ==
    ASSUME LoopTypeOK, NEW d \in Data
    PROVE  PidInputs(d) \in Inputs
<1>1. railed \in {"none", "lower", "upper"}
  BY Zenon DEF LoopTypeOK, R!TypeOK, R!Pins
<1>2. /\ pid_hold \in BOOLEAN /\ pid_irst \in BOOLEAN
      /\ pid_ctr_rst \in BOOLEAN
  <2>1. /\ ctl.hold \in BOOLEAN /\ ctl.rst \in BOOLEAN /\ ctl.auto \in BOOLEAN
        /\ ctl.ext \in BOOLEAN
    BY ControlsAssumption, Zenon DEF LoopTypeOK, AllControls
  <2>2. clear_o \in BOOLEAN /\ reset_i \in BOOLEAN
    BY Zenon DEF LoopTypeOK, R!TypeOK
  <2> QED
    BY <2>1, <2>2, Zenon DEF pid_hold, pid_irst, pid_ctr_rst, ext_reset, R!hold_o
<1>3. center \in Centers
  BY ControlTypes, Zenon DEF LoopTypeOK
<1> QED
  BY <1>1, <1>2, <1>3, Zenon DEF PidInputs, Inputs

(* The pins of the relock, as the loop drives them. *)
LEMMA PinsType ==
    ASSUME NEW c \in Controls, NEW in \in BOOLEAN, NEW off, NEW held,
           NEW rail \in {"none", "lower", "upper"}
    PROVE  [on |-> c.on /\ ~off, inside |-> in, hold |-> c.hold \/ held,
            railed |-> rail, step |-> c.step] \in R!Pins
<1>1. (c.on /\ ~off) \in BOOLEAN /\ (c.hold \/ held) \in BOOLEAN
  BY Zenon
<1>2. c.step \in Steps
  BY ControlsAssumption, Zenon DEF AllControls
<1> QED
  BY <1>1, <1>2, Zenon DEF R!Pins

LEMMA LoopStep == ASSUME LoopTypeOK, LoopNext PROVE LoopTypeOK'
<1>1. PICK d \in Data, mate \in Mates, offset \in Offsets :
          LoopClock(d, mate, offset)
  BY Zenon DEF LoopNext
<1>2. TypeOK'
  <2>1. set' \in AllSettings
    BY <1>1, Zenon DEF LoopClock, LoopTypeOK, TypeOK
  <2> QED
    BY <1>1, <2>1, PidInputsType, BlockStep, Zenon DEF LoopClock, LoopTypeOK
<1>3. ctl' \in Controls /\ reset_i' \in BOOLEAN /\ inside' \in BOOLEAN
  <2>1. \A e : Input(e) \subseteq BOOLEAN
    BY Zenon DEF Input
  <2> QED
    BY <1>1, <2>1, Zenon DEF LoopClock, LoopTypeOK
<1>4. /\ railed' \in {"none", "lower", "upper"} /\ dac' \in Register(HALF)
      /\ out_sum' \in Register(2 * HALF) /\ out_sat' \in Register(HALF)
  BY <1>1, SumTypes, LimitTypes, Zenon DEF LoopClock
<1>5. R!TypeOK'
  <2>1. /\ locked_f' \in BOOLEAN /\ clear_o' \in BOOLEAN
        /\ state_f' \in {"ZERO", "GOINGUP", "GOINGDOWN"}
        /\ current_val_f' \in R!Register(R!VALHALF)
        /\ sweep_amplitude_f' \in R!Register(R!VALHALF)
    BY <1>1, RelockTypes, Zenon DEF LoopClock
  <2>2. [on |-> ctl.on /\ ~pid_irst, inside |-> inside,
         hold |-> ctl.hold \/ ext_reset, railed |-> railed,
         step |-> ctl.step]' \in R!Pins
    BY <1>3, <1>4, PinsType, Zenon
  <2> QED
    BY <2>1, <2>2, Zenon DEF R!TypeOK
<1> QED
  BY <1>2, <1>3, <1>4, <1>5, Zenon DEF LoopTypeOK

(* The loops are of settings and switches.                                 *)
LEMMA LoopStart == LoopInit => set \in Settings /\ ctl \in Controls
<1> SUFFICES ASSUME LoopInit PROVE set \in Settings /\ ctl \in Controls
  OBVIOUS
<1>1. PICK loop \in Loops : set = loop[1] /\ ctl = loop[2]
  BY Zenon DEF LoopInit
<1>2. loop \in Settings \X Controls
  BY ControlsAssumption, Zenon
<1>3. loop[1] \in Settings /\ loop[2] \in Controls
  BY <1>2
<1> QED
  BY <1>1, <1>3

LEMMA LoopInitType == LoopInit => LoopTypeOK
<1> SUFFICES ASSUME LoopInit PROVE LoopTypeOK
  OBVIOUS
<1>1. TypeOK
  BY LoopStart, SettingsAssumption, BlockInit, Zenon DEF LoopInit
<1>2. ctl \in Controls /\ reset_i \in BOOLEAN /\ inside \in BOOLEAN
  BY LoopStart, Zenon DEF LoopInit, Input
<1>3. /\ 0 \in Register(HALF) /\ 0 \in Register(2 * HALF)
      /\ 0 \in R!Register(R!VALHALF)
  BY RelockAssumption, BlockWidths, SMT DEF Register, R!Register, R!VALHALF
<1>4. R!TypeOK
  BY <1>2, <1>3, PinsType, Zenon DEF LoopInit, R!TypeOK
<1> QED
  BY <1>1, <1>2, <1>3, <1>4, Zenon DEF LoopInit, LoopTypeOK

LEMMA LoopUnchanged == ASSUME LoopTypeOK, UNCHANGED loopVars PROVE LoopTypeOK'
BY DEF loopVars, relockVars, vars, regs, LoopTypeOK, TypeOK, R!TypeOK,
       pid_irst, ext_reset

(* Every register of the loop keeps its type: the controller's, the        *)
(* relock's, the sum's and the limiter's, whatever is added to the output  *)
(* (red_pitaya_pid, red_pitaya_limit_block).                               *)
THEOREM LoopTypeCorrect == LoopSpec => []LoopTypeOK
<1>1. LoopTypeOK /\ [LoopNext]_loopVars => LoopTypeOK'
  BY LoopStep, LoopUnchanged, Zenon
<1> QED
  BY LoopInitType, <1>1, PTL DEF LoopSpec

-----------------------------------------------------------------------------
(* A reset from outside takes the controller off the output on the next    *)
(* clock, whatever its relock and its integrators are doing (README,       *)
(* "External lock reset"; pid_irst, ext_reset, out_1_sum).                 *)
THEOREM ExternalResetSuppresses == LoopSpec => ResetSuppresses
<1> DEFINE Suppressed == /\ int_reg' = 0 /\ iint_reg' = 0
                         /\ current_val_f' = 0 /\ out_sum' \in Mates
<1>1. ASSUME LoopNext, ext_reset PROVE Suppressed
  <2>1. PICK d \in Data, mate \in Mates, offset \in Offsets :
            LoopClock(d, mate, offset)
    BY <1>1, Zenon DEF LoopNext
  <2>2. pid_irst
    BY <1>1, Zenon DEF pid_irst
  <2>3. int_reg' = 0 /\ iint_reg' = 0
    <3>1. PidInputs(d).rst
      BY <2>2, Zenon DEF PidInputs
    <3>2. \A reg, mult : Integrated(reg, mult, PidInputs(d)) = 0
      BY <3>1, Zenon DEF Integrated
    <3> QED
      BY <2>1, <3>2, Zenon DEF LoopClock, Clock, Integrator, SecondIntegrator
  <2>4. current_val_f' = 0
    <3>1. R!Off
      BY <2>1, <2>2, Zenon
         DEF LoopClock, RelockClock, R!Frozen, R!Return, R!Sweep
    <3> QED
      BY <3>1, Zenon DEF R!Off
  <2>5. out_sum' \in Mates
    <3>1. contribution = 0
      BY <1>1, Zenon DEF contribution
    <3>2. out_sum' = 0 + mate
      BY <2>1, <3>1, Zenon DEF LoopClock, SumOutputs
    <3>3. mate \in Int
      BY <2>1, ControlsAssumption, BlockWidths, SMT DEF Register
    <3> QED
      BY <2>1, <3>2, <3>3, SMT
  <2> QED
    BY <2>3, <2>4, <2>5, Zenon
<1>2. [LoopNext]_loopVars => [ext_reset => Suppressed]_loopVars
  BY <1>1, Zenon
<1> QED
  BY <1>2, PTL DEF LoopSpec, ResetSuppresses

(* The search holds what the controller adds to the output (hold_i,        *)
(* pid_hold): the terms stand still and with them their sum.               *)
THEOREM SearchHolds == LoopSpec => SearchHoldsTheOutput
<1> DEFINE Held == /\ pid_hold /\ ~pid_ctr_rst /\ ~pid_irst
                   /\ ~Overflows(int_reg, ki_mult)
                   /\ ~Overflows(iint_reg, kii_mult)
<1>1. ASSUME LoopNext, Held PROVE pid_out' = Output(pid_sum')
  <2>1. PICK d \in Data, mate \in Mates, offset \in Offsets :
            LoopClock(d, mate, offset)
    BY <1>1, Zenon DEF LoopNext
  <2>2. /\ PidInputs(d).hold /\ ~PidInputs(d).rst /\ ~PidInputs(d).ctr
    BY <1>1, Zenon DEF PidInputs
  <2>3. int_reg' = int_reg /\ iint_reg' = iint_reg
    <3>1. /\ Integrated(int_reg, ki_mult, PidInputs(d)) = int_reg
          /\ Integrated(iint_reg, kii_mult, PidInputs(d)) = iint_reg
      BY <1>1, <2>2, Zenon DEF Integrated
    <3> QED
      BY <2>1, <3>1, Zenon DEF LoopClock, Clock, Integrator, SecondIntegrator
  <2>4. kp_reg' = kp_reg /\ kd_reg_s' = kd_reg_s
    BY <2>1, <2>2, Zenon DEF LoopClock, Clock, Proportional, Derivative
  <2>5. set' = set /\ pid_out' = Output(pid_sum)
    BY <2>1, Zenon DEF LoopClock, Clock, SumAndSaturate
  <2>6. pid_sum' = pid_sum
    BY <2>3, <2>4, <2>5, Zenon DEF pid_sum, ExactSum, Shifted
  <2> QED
    BY <2>5, <2>6, Zenon
<1>2. [LoopNext]_loopVars => [Held => pid_out' = Output(pid_sum')]_loopVars
  BY <1>1, Zenon
<1> QED
  BY <1>2, PTL DEF LoopSpec, SearchHoldsTheOutput

-----------------------------------------------------------------------------
(***************************************************************************)
(* The sweep in the loop does not wrap.  What is to be shown is that it can*)
(* turn: at the bottom of its range the output is off its upper limit.  The*)
(* rails follow the sweep three clocks late, so the invariant says of each *)
(* register on the way how far the sweep may be below the range before the *)
(* register shows it; and the sweep must not wrap, or it would be at the   *)
(* other end.                                                              *)
(***************************************************************************)

(* The largest of the steps that leave the sweep room. *)
Reach == ((HALF - 1) * UNIT) \div 3 - 1

Bottom == UNIT - HALF * UNIT

Follows ==
    /\ current_val_f < Bottom - Reach => \E m \in Mates : out_sum <= m
    /\ current_val_f < Bottom - 2 * Reach => \E m \in Mates : out_sat <= m
    /\ current_val_f < Bottom - 3 * Reach => railed # "upper"

LoopInv == LoopTypeOK /\ RP!IInv /\ Follows

LEMMA RoomWidths ==
    /\ UNIT \in Nat /\ UNIT > 0
    /\ HALF * UNIT \in Nat /\ UNIT < HALF * UNIT
    /\ (HALF * UNIT) \div UNIT = HALF
    /\ Bottom \in Int /\ Bottom <= 0 /\ Bottom = UNIT - HALF * UNIT
    /\ Reach \in Int /\ 3 * Reach + 3 <= HALF * UNIT - UNIT
<1>1. UNIT \in Nat /\ UNIT > 0 /\ HALF \in Nat /\ HALF > 1
  BY RelockAssumption, BlockWidths, SMT
<1>2. HALF * UNIT \in Nat /\ UNIT < HALF * UNIT
  BY <1>1, SMT
<1>3. (HALF * UNIT) \div UNIT = HALF
  BY <1>1, SMT
<1> DEFINE r == HALF * UNIT
           t == (HALF - 1) * UNIT
<1>4. t = r - UNIT /\ Bottom = UNIT - r /\ Reach = (t \div 3) - 1 /\ r \in Nat
  BY <1>1, <1>2, SMT DEF Bottom, Reach
<1> HIDE DEF r, t
<1>5. /\ Bottom \in Int /\ Bottom <= 0
      /\ Reach \in Int /\ 3 * Reach + 3 <= r - UNIT
  BY <1>1, <1>2, <1>4, SMT DEF r
<1> QED
  BY <1>1, <1>2, <1>3, <1>4, <1>5, Zenon DEF r

LEMMA ReachBounds ==
    ASSUME SweepHasRoom, NEW s \in Steps
    PROVE  s \in 0 .. Reach /\ s <= UNIT
<1> DEFINE t == (HALF - 1) * UNIT
<1>1. s \in Nat
  <2>1. s \in 0 .. 2 * STEPHALF - 1 /\ STEPHALF \in Nat
    BY RelockAssumption, Zenon
  <2> QED
    BY <2>1, SMT
<1>2. s <= UNIT /\ 3 * (s + 1) <= t
  BY Zenon DEF SweepHasRoom
<1>3. t \in Int /\ Reach = (t \div 3) - 1
  <2>1. t \in Int
    BY BlockWidths, RoomWidths, SMT
  <2> QED
    BY <2>1, Zenon DEF Reach
<1> HIDE DEF t
<1> QED
  BY <1>1, <1>2, <1>3, SMT

(* The DAC counts of a sweep beyond the bottom of the range. *)
LEMMA SweepAtTheEnd ==
    ASSUME current_val_f \in Int, current_val_f < Bottom
    PROVE  R!signal_o = -HALF
<1> DEFINE cur == current_val_f
           q == cur \div UNIT
           r == HALF * UNIT
<1>1. cur \in Int /\ q \in Int /\ UNIT * q <= cur /\ cur < UNIT * q + UNIT
      /\ cur < Bottom
  BY RoomWidths, Quotient, Zenon
<1>2. R!signal_o = IF cur >= r THEN HALF - 1 ELSE IF cur < -r THEN -HALF ELSE q
  BY RoomWidths, Zenon DEF R!signal_o, R!Saturated
<1>3. r = UNIT * HALF /\ r \in Nat /\ HALF \in Nat /\ Bottom = UNIT - r
  BY RoomWidths, BlockWidths, SMT DEF Bottom
<1> HIDE DEF cur, q, r
<1>4. ASSUME ~(cur < -r) PROVE q = -HALF
  <2>1. UNIT * (q + HALF) < 1 * UNIT
    BY <1>1, <1>3, <1>4, RoomWidths, SMT
  <2>2. UNIT * (-(q + HALF)) < 1 * UNIT
    BY <1>1, <1>3, <1>4, RoomWidths, SMT
  <2>3. q + HALF < 1 /\ -(q + HALF) < 1
    <3>1. q + HALF \in Int /\ -(q + HALF) \in Int /\ 1 \in Nat
      BY <1>1, <1>3, SMT
    <3> QED
      BY <2>1, <2>2, <3>1, RoomWidths, Cancel, Zenon
  <2> QED
    BY <1>1, <1>3, <2>3, SMT
<1>5. ~(cur >= r)
  BY <1>1, <1>3, RoomWidths, SMT
<1> QED
  BY <1>2, <1>4, <1>5, Zenon

(* What the controller adds to the output then. *)
LEMMA ContributionAtTheEnd ==
    ASSUME LoopTypeOK, current_val_f < Bottom
    PROVE  contribution <= 0
<1>1. current_val_f \in Int /\ pid_out \in Register(HALF)
  BY SweepType, Zenon DEF LoopTypeOK, TypeOK
<1>2. R!signal_o = -HALF
  BY <1>1, SweepAtTheEnd, Zenon
<1>3. pid_sat <= 0
  BY <1>1, <1>2, BlockWidths, SMT DEF pid_sat, Clamped, Register
<1>4. 0 <= 0
  BY SMT
<1> QED
  BY <1>3, <1>4, Zenon DEF contribution

(* The relock, while it is on, finds steps that are slow and an output it  *)
(* can turn at.                                                            *)
LEMMA Granted ==
    ASSUME SweepHasRoom, LoopTypeOK, Follows
    PROVE  RP!SlowStep /\ RP!CanTurn
<1>1. ctl.step <= UNIT
  BY ControlTypes, ReachBounds, Zenon DEF LoopTypeOK
<1>2. RP!SlowStep
  BY <1>1 DEF RP!SlowStep
<1>3. current_val_f \in Int
  BY SweepType, Zenon
<1> DEFINE r == HALF * UNIT
<1>4. RP!MaxAmplitude = 2 * (r - UNIT) - 2
  BY Zenon DEF RP!MaxAmplitude, RP!AMPLIMIT
<1>5. r \in Nat /\ Bottom = UNIT - r /\ 3 * Reach + 3 <= r - UNIT /\ Reach \in Int
      /\ UNIT \in Nat
  BY RoomWidths, Zenon
<1> HIDE DEF r
<1>6. ~(current_val_f > -(2 * (r - UNIT) - 2)) => current_val_f < Bottom - 3 * Reach
  BY <1>3, <1>5, SMT
<1>7. railed = "upper" => current_val_f > -RP!MaxAmplitude
  BY <1>4, <1>6, Zenon DEF Follows
<1>8. RP!CanTurn
  BY <1>7 DEF RP!CanTurn
<1> QED
  BY <1>2, <1>8

(* A clock moves the sweep by a step, or to zero, and to zero if the relock*)
(* is off.                                                                 *)
LEMMA Moves ==
    ASSUME SweepHasRoom, LoopInv, RelockClock
    PROVE  /\ current_val_f' \in Int
           /\ \/ current_val_f' = 0
              \/ (ctl.on /\ current_val_f' - current_val_f \in -Reach .. Reach)
<1>1. RP!SlowStep /\ RP!TypeOK /\ RP!IInv /\ LoopTypeOK
  BY Granted DEF LoopInv, RP!IInv
<1>2. current_val_f \in Int
  BY <1>1, SweepType, Zenon
<1>3. RP!step \in 0 .. Reach
  <2>1. RP!step = ctl.step
    BY <1>1, RelockWidths, RP!SmallStep
  <2>2. ctl.step \in 0 .. Reach
    BY <1>1, ControlTypes, ReachBounds, Zenon DEF LoopTypeOK
  <2> QED
    BY <2>1, <2>2, Zenon
<1>4. ASSUME RP!Accumulate
      PROVE  \/ current_val_f' = 0
             \/ current_val_f' - current_val_f \in -Reach .. Reach
  <2>1. /\ state_f = "GOINGUP" => current_val_f' = current_val_f + RP!step
        /\ state_f = "GOINGDOWN" => current_val_f' = current_val_f - RP!step
        /\ state_f = "ZERO" => current_val_f' = 0
    BY <1>1, <1>4, RelockWidths, RP!Accumulated
  <2>2. state_f \in {"ZERO", "GOINGUP", "GOINGDOWN"}
    BY <1>1, Zenon DEF LoopTypeOK, R!TypeOK
  <2> QED
    BY <1>2, <1>3, <2>1, <2>2, RoomWidths, SMT
<1>5. \/ current_val_f' = 0
      \/ (ctl.on /\ current_val_f' - current_val_f \in -Reach .. Reach)
  <2>1. \/ RP!Off
        \/ ctl.on /\ RP!Frozen
        \/ ctl.on /\ RP!Accumulate
    BY SameClock DEF RP!Frozen, RP!Return, RP!Sweep
  <2>2. CASE RP!Off
    BY <2>2, Zenon DEF RP!Off
  <2>3. CASE ctl.on /\ RP!Frozen
    <3>1. current_val_f' = current_val_f
      BY <2>3, Zenon DEF RP!Frozen
    <3>2. current_val_f' - current_val_f \in -Reach .. Reach
      BY <1>2, <1>3, <3>1, RoomWidths, SMT
    <3> QED
      BY <2>3, <3>2, Zenon
  <2> QED
    BY <1>4, <2>1, <2>2, <2>3, Zenon
<1>6. current_val_f' \in Int
  <2>1. current_val_f' \in R!Register(R!VALHALF)
    BY <1>1, RelockTypes, Zenon
  <2>2. 2 * (HALF * UNIT) \in Nat
    BY RoomWidths, SMT
  <2> QED
    BY <2>1, <2>2, SMT DEF R!Register, R!VALHALF
<1> QED
  BY <1>5, <1>6

(* What is at most one of the mates, the generator added to it, is not at  *)
(* the upper limit.                                                        *)
LEMMA OffTheLimit ==
    ASSUME LoopTypeOK, SweepHasRoom, ctl.on, NEW offset \in Offsets,
           Limit(offset), NEW m \in Mates, out_sat <= m
    PROVE  railed' # "upper"
<1> DEFINE signal == Clamped(out_sat + offset, HALF)
<1>1. /\ ctl.max \in Register(HALF)
      /\ out_sat \in Register(HALF) /\ offset \in Register(HALF)
      /\ m \in Register(HALF)
      /\ m + offset < ctl.max /\ -HALF < ctl.max
  BY ControlTypes, ControlsAssumption, Zenon DEF LoopTypeOK, SweepHasRoom
<1>2. signal < ctl.max
  BY <1>1, BlockWidths, SMT DEF Clamped, Register
<1>3. signal \in Int /\ ctl.max \in Int
  BY <1>1, BlockWidths, SMT DEF Clamped, Register
<1> HIDE DEF signal
<1>4. \/ signal >= ctl.max
      \/ railed' = "lower"
      \/ railed' = "none"
  BY Zenon DEF Limit, signal
<1> QED
  BY <1>2, <1>3, <1>4, SMT

LEMMA FollowsStep ==
    ASSUME SweepHasRoom, LoopInv, LoopNext
    PROVE  Follows'
<1>1. PICK d \in Data, mate \in Mates, offset \in Offsets :
          LoopClock(d, mate, offset)
  BY Zenon DEF LoopNext
<1>2. LoopTypeOK /\ Follows /\ RelockClock /\ SumOutputs(mate) /\ Limit(offset)
  BY <1>1, Zenon DEF LoopInv, LoopClock
<1> DEFINE cur == current_val_f
           new == current_val_f'
<1>3. /\ cur \in Int /\ new \in Int
      /\ new = 0 \/ (ctl.on /\ new - cur \in -Reach .. Reach)
  BY <1>2, SweepType, Moves, Zenon
<1>4. Reach \in Nat
  <2>1. ctl.step \in 0 .. Reach
    BY <1>2, ControlTypes, ReachBounds, Zenon DEF LoopTypeOK
  <2> QED
    BY <2>1, RoomWidths, SMT
<1>5. /\ new < Bottom - Reach => ctl.on /\ cur < Bottom
      /\ new < Bottom - 2 * Reach => ctl.on /\ cur < Bottom - Reach
      /\ new < Bottom - 3 * Reach => ctl.on /\ cur < Bottom - 2 * Reach
  <2> HIDE DEF cur, new
  <2>1. /\ new = 0 => ~(new < Bottom - Reach) /\ ~(new < Bottom - 2 * Reach)
                      /\ ~(new < Bottom - 3 * Reach)
        /\ new - cur \in -Reach .. Reach =>
              /\ new < Bottom - Reach => cur < Bottom
              /\ new < Bottom - 2 * Reach => cur < Bottom - Reach
              /\ new < Bottom - 3 * Reach => cur < Bottom - 2 * Reach
    BY <1>3, <1>4, RoomWidths, SMT
  <2> QED
    BY <1>3, <2>1, Zenon
<1>6. cur < Bottom => out_sum' <= mate
  <2>1. contribution \in Int /\ mate \in Int /\ out_sum' = contribution + mate
    BY <1>1, <1>2, ContributionType, ControlsAssumption, BlockWidths, SMT
       DEF SumOutputs, Register
  <2>2. cur < Bottom => contribution <= 0
    BY <1>2, ContributionAtTheEnd, Zenon
  <2> HIDE DEF cur
  <2> QED
    BY <2>1, <2>2, SMT
<1>7. ASSUME NEW m \in Mates, out_sum <= m PROVE out_sat' <= m
  <2>1. m \in Register(HALF) /\ out_sum \in Register(2 * HALF)
    BY <1>2, ControlsAssumption, Zenon DEF LoopTypeOK
  <2>2. out_sat' = Clamped(out_sum, HALF)
    BY <1>2, Zenon DEF SumOutputs
  <2> QED
    BY <1>7, <2>1, <2>2, BlockWidths, SMT DEF Clamped, Register
<1>8. new < Bottom - Reach => \E m \in Mates : out_sum' <= m
  BY <1>1, <1>5, <1>6, Zenon
<1>9. new < Bottom - 2 * Reach => \E m \in Mates : out_sat' <= m
  BY <1>2, <1>5, <1>7, Zenon DEF Follows
<1>10. new < Bottom - 3 * Reach => railed' # "upper"
  BY <1>1, <1>2, <1>5, OffTheLimit, Zenon DEF Follows
<1>11. UNCHANGED <<Bottom, Reach>>
  BY DEF Bottom, Reach
<1> QED
  BY <1>8, <1>9, <1>10, <1>11, Zenon DEF Follows

(* The relock's pins. *)
Pins == [on |-> ctl.on /\ ~pid_irst, inside |-> inside,
         hold |-> ctl.hold \/ ext_reset, railed |-> railed, step |-> ctl.step]

LEMMA LoopInvInit == SweepHasRoom /\ LoopInit => LoopInv
<1> SUFFICES ASSUME SweepHasRoom, LoopInit PROVE LoopInv
  OBVIOUS
<1>1. LoopTypeOK
  BY LoopInitType, Zenon
<1>2. current_val_f = 0 /\ railed = "none"
  BY Zenon DEF LoopInit
<1>3. Follows
  <2>1. ctl.step \in 0 .. Reach
    BY <1>1, ControlTypes, ReachBounds, Zenon DEF LoopTypeOK
  <2> QED
    BY <1>2, <2>1, RoomWidths, SMT DEF Follows
<1>4. Pins \in RP!Pins
  BY <1>1 DEF LoopTypeOK, R!TypeOK, Pins, R!Pins, RP!Pins
<1>5. ~Pins.on
  BY Zenon DEF LoopInit, Pins, pid_irst
<1>6. RP!Init
  BY <1>4, <1>5, Zenon DEF LoopInit, RP!Init, Pins
<1>7. RP!IInv
  BY <1>6, RelockWidths, RP!IInvInit
<1> QED
  BY <1>1, <1>3, <1>7, Zenon DEF LoopInv

LEMMA LoopInvStep ==
    ASSUME SweepHasRoom, LoopInv, LoopNext
    PROVE  LoopInv' /\ RP!Clock
<1>1. RelockClock
  BY Zenon DEF LoopNext, LoopClock
<1>2. LoopTypeOK'
  BY LoopStep, Zenon DEF LoopInv
<1>3. Follows'
  BY FollowsStep, Zenon
<1>4. Pins' \in RP!Pins
  BY <1>2 DEF LoopTypeOK, R!TypeOK, Pins, R!Pins, RP!Pins
<1>5. RP!Clock
  BY <1>1, <1>4, SameClock DEF RP!Clock, Pins
<1>6. RP!IInv'
  <2>1. RP!SlowStep /\ RP!CanTurn /\ RP!IInv
    BY Granted DEF LoopInv
  <2> QED
    BY <1>5, <2>1, RelockWidths, RP!IInvStep
<1> QED
  BY <1>2, <1>3, <1>5, <1>6, Zenon DEF LoopInv

(* With slow steps and room below the upper limit the search is a triangle:*)
(* through the sum with the other controller, the generator and the limiter*)
(* the rails follow the sweep in time for it to turn, and it moves by two  *)
(* DAC counts a clock at most (red_pitaya_pid, out_1_sum, railed_o).       *)
THEOREM SearchContinues ==
    ASSUME SweepHasRoom
    PROVE  LoopSpec => SearchIsContinuous
<1> DEFINE Continuous == ctl.on /\ ~pid_irst
                         => R!signal_o' - R!signal_o \in -2 .. 2
<1>1. LoopInv /\ [LoopNext]_loopVars => LoopInv'
  <2>1. ASSUME LoopInv, UNCHANGED loopVars PROVE LoopInv'
    <3>1. LoopTypeOK'
      BY <2>1, LoopUnchanged, Zenon DEF LoopInv
    <3>2. Follows'
      BY <2>1 DEF LoopInv, loopVars, relockVars, Follows, Bottom, Reach
    <3>3. RP!IInv'
      <4>1. UNCHANGED RP!vars
        BY <2>1 DEF loopVars, relockVars, vars, regs, RP!vars, pid_irst, ext_reset
      <4>2. RP!SlowStep /\ RP!CanTurn /\ RP!IInv
        BY <2>1, Granted DEF LoopInv
      <4> QED
        BY <4>1, <4>2, RelockWidths, RP!IInvStep
    <3> QED
      BY <3>1, <3>2, <3>3, Zenon DEF LoopInv
  <2> QED
    BY <2>1, LoopInvStep, Zenon
<1>2. LoopInv /\ [LoopNext]_loopVars => [Continuous]_loopVars
  <2> SUFFICES ASSUME LoopInv, LoopNext, ctl.on, ~pid_irst
               PROVE  R!signal_o' - R!signal_o \in -2 .. 2
    BY Zenon
  <2>1. RP!SlowStep /\ RP!CanTurn /\ RP!IInv
    BY Granted DEF LoopInv
  <2>2. RP!Clock
    BY LoopInvStep, Zenon
  <2>3. RP!signal_o' - RP!signal_o \in -2 .. 2
    BY <2>1, <2>2, RelockWidths, RP!NeverJumps
  <2>4. RP!signal_o = R!signal_o /\ RP!signal_o' = R!signal_o'
    BY DEF RP!signal_o, R!signal_o, RP!Saturated, R!Saturated
  <2> QED
    BY <2>3, <2>4, Zenon
<1> QED
  BY <1>1, <1>2, LoopInvInit, PTL DEF LoopSpec, SearchIsContinuous

-----------------------------------------------------------------------------
(***************************************************************************)
(* Anti-windup.  The integrator stops one clock after the limiter says     *)
(* that the output is at the limit, and the limiter says so three clocks   *)
(* after the integrator drove it there.  The invariant says of each        *)
(* register on the way how far the integrator may be beyond the limit      *)
(* before the register knows of it.                                        *)
(***************************************************************************)
(* The other terms are out of the way. *)
Plain ==
    /\ set \in Settings
    /\ kp_reg = 0 /\ kd_reg = 0 /\ kd_reg_r = 0 /\ kd_reg_s = 0
    /\ kii_mult = 0 /\ iint_reg = 0
    /\ current_val_f = 0 /\ clear_o = FALSE

(* An integrator that is beyond t, where the output x reaches the upper    *)
(* limit, by one, two, ... of its largest moves e: what knows of it.       *)
StoppedAbove(t, e, x, m) ==
    /\ error * set.ki <= e /\ ki_mult <= e
    /\ int_reg >= t + e => pid_out >= x
    /\ int_reg >= t + 2 * e => out_sum >= x + m
    /\ int_reg >= t + 3 * e => out_sat >= x + m
    /\ int_reg >= t + 4 * e => railed = "upper"
    /\ int_reg <= t + 5 * e

StoppedBelow(t, f, y, m) ==
    /\ error * set.ki >= f /\ ki_mult >= f
    /\ int_reg < t + f => pid_out <= y
    /\ int_reg < t + 2 * f => out_sum <= y + m
    /\ int_reg < t + 3 * f => out_sat <= y + m
    /\ int_reg < t + 4 * f => railed = "lower"
    /\ int_reg >= t + 5 * f

StopsAbove ==
    \A m \in Mates, o \in Offsets, d \in Data :
        Above(set, ctl, m, o, d) =>
            LET x == ctl.max - (m + o)
            IN  StoppedAbove(x * ISHIFT, set.ki * ErrorOf(set, d), x, m)

StopsBelow ==
    \A m \in Mates, o \in Offsets, d \in Data :
        Below(set, ctl, m, o, d) =>
            LET y == ctl.min - (m + o)
            IN  StoppedBelow((y + 1) * ISHIFT, set.ki * ErrorOf(set, d), y, m)

WindupInv ==
    /\ LoopTypeOK
    /\ OnlyIntegrates(set, ctl) => Plain /\ StopsAbove /\ StopsBelow

(* A product with a gain follows the error. *)
LEMMA Grows ==
    ASSUME NEW a \in Int, NEW b \in Int, NEW k \in Nat, a <= b
    PROVE  k * a \in Int /\ k * b \in Int /\ k * a <= k * b
BY SMT

(* The numbers of the settings and the limits. *)
LEMMA WindupTypes ==
    ASSUME LoopTypeOK, set \in Settings
    PROVE  /\ set.ki \in Nat /\ set.sp \in Int
           /\ ctl.min \in Register(HALF) /\ ctl.max \in Register(HALF)
           /\ \A n \in Mates : n \in Register(HALF)
           /\ \A n \in Offsets : n \in Register(HALF)
           /\ \A n \in Data : ErrorOf(set, n) \in Int
           /\ error \in Int /\ ki_mult \in Int /\ int_reg \in Int
           /\ int_reg \in Register(INTHALF)
<1>1. /\ set.ki \in Nat /\ set.sp \in Int
  <2>1. set.ki \in 0 .. GAINMAX /\ set.sp \in Register(HALF)
    BY SettingsAssumption, Zenon DEF AllSettings
  <2> QED
    BY <2>1, BlockWidths, SMT DEF Register
<1>2. /\ ctl.min \in Register(HALF) /\ ctl.max \in Register(HALF)
      /\ \A n \in Mates : n \in Register(HALF)
      /\ \A n \in Offsets : n \in Register(HALF)
  BY ControlTypes, ControlsAssumption, Zenon DEF LoopTypeOK
<1>3. \A n \in Data : ErrorOf(set, n) \in Int
  <2> SUFFICES ASSUME NEW n \in Data PROVE ErrorOf(set, n) \in Int
    OBVIOUS
  <2>1. n \in Int
    BY DataAssumption, BlockWidths, SMT DEF Register
  <2> QED
    BY <1>1, <2>1, SMT DEF ErrorOf
<1>4. error \in Int /\ ki_mult \in Int /\ int_reg \in Int
  BY HalfTypes, SMT DEF LoopTypeOK, TypeOK, Register
<1> QED
  BY <1>1, <1>2, <1>3, <1>4, Zenon DEF LoopTypeOK, TypeOK

(* What the integrator does on a clock. *)
LEMMA IntegratorMoves ==
    ASSUME LoopTypeOK, set \in Settings, clear_o = FALSE,
           ctl.auto => center = 0,
           NEW d \in Data, Clock(PidInputs(d))
    PROVE  /\ error' = ErrorOf(set, d)
           /\ ki_mult' = error * set.ki
           /\ \/ int_reg' = 0
              \/ /\ ~pid_irst
                 /\ \/ int_reg' = int_reg
                    \/ /\ int_reg' = int_reg + ki_mult
                       /\ railed = "upper" => ~(ki_mult > 0)
                       /\ railed = "lower" => ~(ki_mult < 0)
                    \/ int_reg + ki_mult >= INTHALF /\ int_reg' = INTHALF - 1
                    \/ int_reg + ki_mult < -INTHALF /\ int_reg' = -INTHALF
<1> DEFINE i == PidInputs(d)
<1>1. /\ i.rst = pid_irst /\ i.ctr = pid_ctr_rst /\ i.center = center
      /\ i.railed = railed /\ i.dat = d
  BY Zenon DEF PidInputs
<1>2. error' = ErrorOf(set, d)
  <2>1. error' = IF set.inverted THEN -(d - set.sp) ELSE d - set.sp
    BY <1>1, Zenon DEF Clock, ErrorRegister
  <2>2. d \in Int /\ set.sp \in Int
    BY WindupTypes, DataAssumption, BlockWidths, SMT DEF Register
  <2>3. -(d - set.sp) = set.sp - d
    BY <2>2, SMT
  <2> QED
    BY <2>1, <2>3, Zenon DEF ErrorOf
<1>3. ki_mult' = error * set.ki /\ int_reg' = Integrated(int_reg, ki_mult, i)
  BY Zenon DEF Clock, Integrator
<1>4. CASE pid_irst
  BY <1>1, <1>2, <1>3, <1>4, Zenon DEF Integrated
<1>5. CASE ~pid_irst /\ pid_ctr_rst
  <2>1. center = 0
    BY <1>5, Zenon DEF pid_ctr_rst
  <2>2. 0 * ISHIFT = 0
    BY BlockWidths, SMT
  <2>3. int_reg' = 0
    BY <1>1, <1>3, <1>5, <2>1, <2>2, Zenon DEF Integrated
  <2> QED
    BY <1>2, <1>3, <2>3, Zenon
<1>6. CASE ~pid_irst /\ ~pid_ctr_rst /\ Overflows(int_reg, ki_mult)
  <2>1. int_reg' = Clamped(int_reg + ki_mult, INTHALF)
    BY <1>1, <1>3, <1>6, Zenon DEF Integrated
  <2>2. int_reg \in Int /\ ki_mult \in Int /\ INTHALF \in Nat
    BY WindupTypes, HalfTypes, Zenon
  <2>3. \/ int_reg + ki_mult >= INTHALF /\ int_reg' = INTHALF - 1
        \/ int_reg + ki_mult < -INTHALF /\ int_reg' = -INTHALF
    BY <1>6, <2>1, <2>2, SMT DEF Overflows, Clamped, Register
  <2> QED
    BY <1>2, <1>3, <1>6, <2>3, Zenon
<1>7. CASE ~pid_irst /\ ~pid_ctr_rst /\ ~Overflows(int_reg, ki_mult)
  <2>1. int_reg' = IF WindsUp(ki_mult, i) \/ i.hold THEN int_reg
                   ELSE int_reg + ki_mult
    BY <1>1, <1>3, <1>7, Zenon DEF Integrated
  <2>2. ~WindsUp(ki_mult, i) => /\ railed = "upper" => ~(ki_mult > 0)
                                /\ railed = "lower" => ~(ki_mult < 0)
    BY <1>1, Zenon DEF WindsUp
  <2> QED
    BY <1>2, <1>3, <1>7, <2>1, <2>2, Zenon
<1> QED
  BY <1>4, <1>5, <1>6, <1>7, Zenon

(* The other terms stay out of the way, and the output is the integrator's.*)
LEMMA PlainStep ==
    ASSUME WindupRoom, LoopTypeOK, Plain, OnlyIntegrates(set, ctl),
           NEW d \in Data, NEW mate \in Mates, NEW offset \in Offsets,
           LoopClock(d, mate, offset)
    PROVE  /\ Plain'
           /\ pid_out' = Clamped(int_reg \div ISHIFT, HALF)
           /\ ctl.auto => center = 0
<1> DEFINE i == PidInputs(d)
<1>1. /\ set.kp = 0 /\ set.kd = 0 /\ set.kii = 0 /\ set.kg = PSHIFT /\ ~ctl.on
      /\ Clock(i) /\ RelockClock /\ set' = set
  BY Zenon DEF OnlyIntegrates, LoopClock
<1>2. error \in Int /\ set \in Settings /\ int_reg \in Register(INTHALF)
  BY WindupTypes, Zenon DEF Plain
<1>3. ctl.auto => center = 0
  BY <1>2, Zenon DEF WindupRoom, LoopTypeOK, center
<1>4. kp_reg' = 0
  <2>1. (error * 0) \div PSHIFT = 0
    BY <1>2, BlockWidths, SMT
  <2> QED
    BY <1>1, <2>1, Zenon DEF Clock, Proportional, Plain
<1>5. kd_reg' = 0 /\ kd_reg_r' = 0 /\ kd_reg_s' = 0
  <2>1. kd_mult = 0
    <3>1. error * 0 = 0 /\ 0 \in Register(KDHALF)
      BY <1>2, BlockWidths, SMT DEF Register
    <3> QED
      BY <1>1, <3>1, SignedFits, Zenon DEF kd_mult
  <2>2. 0 \div DSHIFT = 0 /\ 0 - 0 = 0
    BY BlockWidths, SMT
  <2> QED
    BY <1>1, <2>1, <2>2, Zenon DEF Clock, Derivative, Plain
<1>6. kii_mult' = 0
  <2>1. Shifted(int_reg) \in Int
    <3>1. int_reg \in Int
      BY <1>2, HalfTypes, SMT DEF Register
    <3> QED
      BY <3>1, BlockWidths, Quotient, Zenon DEF Shifted
  <2>2. Shifted(int_reg) * 0 = 0
    BY <2>1, SMT
  <2> QED
    BY <1>1, <2>2, Zenon DEF Clock, SecondIntegrator
<1>7. iint_reg' = 0
  <2>1. iint_reg' = Integrated(0, 0, i)
    BY <1>1, Zenon DEF Clock, SecondIntegrator, Plain
  <2>2. /\ i.rst = pid_irst /\ i.ctr = pid_ctr_rst /\ i.center = center
    BY Zenon DEF PidInputs
  <2>3. pid_ctr_rst => center = 0
    BY <1>3, Zenon DEF Plain, pid_ctr_rst
  <2>4. /\ 0 * ISHIFT = 0 /\ 0 + 0 = 0 /\ 0 \in Register(INTHALF)
    BY BlockWidths, HalfTypes, SMT DEF Register
  <2>5. ~Overflows(0, 0)
    BY <2>4, Zenon DEF Overflows
  <2> QED
    BY <2>1, <2>2, <2>3, <2>4, <2>5, Zenon DEF Integrated
<1>8. current_val_f' = 0 /\ clear_o' = FALSE
  <2>1. R!Off
    BY <1>1, Zenon DEF RelockClock, R!Frozen, R!Return, R!Sweep
  <2>2. R!LockedRegister
    BY <1>1, Zenon DEF RelockClock
  <2> QED
    BY <1>1, <2>1, <2>2, Zenon DEF R!Off, R!LockedRegister
<1>9. pid_out' = Clamped(int_reg \div ISHIFT, HALF)
  <2> DEFINE q == int_reg \div ISHIFT
             two == 2 * HALF
  <2>1. q \in Register(two)
    <3>1. two \in Nat /\ ISHIFT \in Nat /\ ISHIFT > 0 /\ INTHALF = two * ISHIFT
      BY BlockWidths, SMT DEF INTHALF
    <3> HIDE DEF two
    <3>2. int_reg \in Register(two * ISHIFT)
      BY <1>2, <3>1, Zenon
    <3> QED
      BY <3>1, <3>2, ShiftedType, Zenon
  <2>2. 0 \div ISHIFT = 0
    BY BlockWidths, SMT
  <2>3. ExactSum = PSHIFT * (((0 + q) + 0) + 0)
    BY <1>1, <2>2, Zenon DEF ExactSum, Shifted, Plain
  <2> HIDE DEF q
  <2>4. q \in Int /\ -two <= q /\ q < two /\ ((0 + q) + 0) + 0 = q
    BY <2>1, BlockWidths, SMT DEF Register
  <2>5. ExactSum = PSHIFT * q
    BY <2>3, <2>4, Zenon
  <2> DEFINE s == PSHIFT * q
             h == HALF * PSHIFT
  <2>6. s \in Int /\ -(2 * h) <= s /\ s < 2 * h
    BY <2>4, BlockWidths, SMT
  <2>7. s \div PSHIFT = q
    BY <2>4, BlockWidths, SMT
  <2>8. h \in Nat /\ 4 * h <= SUMHALF
    BY BlockWidths, SMT DEF WindupRoom
  <2> HIDE DEF s, h
  <2>9. s \in -SUMHALF .. (SUMHALF \div 2) - 1 /\ s \in Register(SUMHALF)
    BY <2>6, <2>8, BlockWidths, SMT DEF Register
  <2>10. pid_sum = s
    BY <2>5, <2>9, SignedFits, Zenon DEF pid_sum, s
  <2>11. pid_out' = Output(s)
    BY <1>1, <2>10, Zenon DEF Clock, SumAndSaturate
  <2> QED
    BY <2>7, <2>9, <2>11, OutputSaturatesSum, Zenon DEF q
<1> QED
  BY <1>1, <1>2, <1>3, <1>4, <1>5, <1>6, <1>7, <1>8, <1>9, Zenon DEF Plain

(* While it integrates the controller is on the output, with what it puts  *)
(* out.                                                                    *)
LEMMA Contributes ==
    ASSUME WindupRoom, LoopTypeOK, Plain, OnlyIntegrates(set, ctl), ~pid_irst
    PROVE  contribution = pid_out
<1>1. ctl.out /\ ~ext_reset
  BY Zenon DEF WindupRoom, LoopTypeOK, Plain, pid_irst
<1>2. R!signal_o = 0
  <2>1. HALF * UNIT \in Nat /\ HALF * UNIT > 0 /\ 0 \div UNIT = 0
    BY RoomWidths, SMT
  <2> DEFINE r == HALF * UNIT
  <2>2. ~(0 >= r) /\ ~(0 < -r)
    <3> HIDE DEF r
    <3>1. r \in Nat /\ r > 0
      BY <2>1, Zenon DEF r
    <3> QED
      BY <3>1, SMT
  <2> QED
    BY <2>1, <2>2, Zenon DEF R!signal_o, R!Saturated, Plain
<1>3. pid_out \in Register(HALF)
  BY Zenon DEF LoopTypeOK, TypeOK
<1>4. pid_out + 0 = pid_out /\ Clamped(pid_out, HALF) = pid_out
  BY <1>3, BlockWidths, SMT DEF Register, Clamped
<1>5. pid_sat = pid_out
  BY <1>2, <1>4, Zenon DEF pid_sat
<1> QED
  BY <1>1, <1>5, Zenon DEF contribution

(* The arithmetic of one clock, of the upper and of the lower limit.       *)
LEMMA ClockAbove ==
    ASSUME NEW t \in Int, NEW e \in Int, NEW half \in Nat,
           NEW int \in Int, NEW mult \in Int, NEW new \in Int,
           e >= 0, t > 0, t + 6 * e < half,
           mult <= e, int <= t + 5 * e,
           \/ new = 0
           \/ new = int
           \/ new = int + mult /\ (int >= t + 4 * e => ~(mult > 0))
           \/ int + mult >= half /\ new = half - 1
           \/ int + mult < -half /\ new = -half
    PROVE  /\ new <= t + 5 * e
           /\ new >= t + e => int >= t
           /\ new >= t + 2 * e => int >= t + e
           /\ new >= t + 3 * e => int >= t + 2 * e
           /\ new >= t + 4 * e => int >= t + 3 * e
           /\ new >= t + e => new # 0
BY SMT

LEMMA ClockBelow ==
    ASSUME NEW t \in Int, NEW f \in Int, NEW half \in Nat,
           NEW int \in Int, NEW mult \in Int, NEW new \in Int,
           half > 0, f <= 0, t <= 0, t + 6 * f >= -half,
           mult >= f, int >= t + 5 * f,
           \/ new = 0
           \/ new = int
           \/ new = int + mult /\ (int < t + 4 * f => ~(mult < 0))
           \/ int + mult >= half /\ new = half - 1
           \/ int + mult < -half /\ new = -half
    PROVE  /\ new >= t + 5 * f
           /\ new < t + f => int < t
           /\ new < t + 2 * f => int < t + f
           /\ new < t + 3 * f => int < t + 2 * f
           /\ new < t + 4 * f => int < t + 3 * f
           /\ new < t + f => new # 0
BY SMT

(* An integrator of at least x counts is an output of at least x, and the  *)
(* reverse.                                                                *)
LEMMA OutputReaches ==
    ASSUME NEW int \in Int, NEW x \in Int
    PROVE  /\ int >= x * ISHIFT /\ x < HALF
                => Clamped(int \div ISHIFT, HALF) >= x
           /\ int < (x + 1) * ISHIFT /\ x >= -HALF
                => Clamped(int \div ISHIFT, HALF) <= x
<1> DEFINE q == int \div ISHIFT
<1>1. q \in Int /\ ISHIFT * q <= int /\ int < ISHIFT * q + ISHIFT
  BY BlockWidths, Quotient, Zenon
<1> HIDE DEF q
<1>2. ASSUME int >= x * ISHIFT PROVE x < q + 1
  <2>1. ISHIFT * (x - q) < 1 * ISHIFT
    BY <1>1, <1>2, BlockWidths, SMT
  <2>2. x - q \in Int /\ 1 \in Nat
    BY <1>1, SMT
  <2>3. x - q < 1
    BY <2>1, <2>2, BlockWidths, Cancel, Zenon
  <2> QED
    BY <1>1, <2>3, SMT
<1>3. ASSUME int < (x + 1) * ISHIFT PROVE q < x + 1
  <2>1. ISHIFT * (q - x) < 1 * ISHIFT
    BY <1>1, <1>3, BlockWidths, SMT
  <2>2. q - x \in Int /\ 1 \in Nat
    BY <1>1, SMT
  <2>3. q - x < 1
    BY <2>1, <2>2, BlockWidths, Cancel, Zenon
  <2> QED
    BY <1>1, <2>3, SMT
<1>4. /\ x < q + 1 /\ x < HALF => Clamped(q, HALF) >= x
      /\ q < x + 1 /\ x >= -HALF => Clamped(q, HALF) <= x
  BY <1>1, BlockWidths, SMT DEF Clamped
<1> QED
  BY <1>2, <1>3, <1>4, Zenon DEF q

(* What the sum and the limiter make of a contribution that reaches a      *)
(* limit with the least, or the most, that is added to it.                 *)
LEMMA ReachesAbove ==
    ASSUME LoopTypeOK, NEW mate \in Mates, NEW offset \in Offsets,
           SumOutputs(mate), Limit(offset), ctl.min < ctl.max,
           NEW m \in Register(HALF), m <= mate,
           NEW o \in Register(HALF), o <= offset,
           NEW x \in Int, x = ctl.max - (m + o), x + m < HALF
    PROVE  /\ contribution >= x => out_sum' >= x + m
           /\ out_sum >= x + m => out_sat' >= x + m
           /\ out_sat >= x + m => railed' = "upper"
<1>1. /\ ctl.min \in Register(HALF) /\ ctl.max \in Register(HALF)
      /\ mate \in Register(HALF) /\ offset \in Register(HALF)
      /\ contribution \in Register(HALF)
      /\ out_sum \in Register(2 * HALF) /\ out_sat \in Register(HALF)
  BY ControlTypes, ControlsAssumption, ContributionType, Zenon DEF LoopTypeOK
<1>2. out_sum' = contribution + mate /\ out_sat' = Clamped(out_sum, HALF)
  BY Zenon DEF SumOutputs
<1>3. contribution >= x => out_sum' >= x + m
  BY <1>1, <1>2, BlockWidths, SMT DEF Register
<1>4. out_sum >= x + m => out_sat' >= x + m
  BY <1>1, <1>2, BlockWidths, SMT DEF Register, Clamped
<1> DEFINE signal == Clamped(out_sat + offset, HALF)
<1>5. ASSUME out_sat >= x + m PROVE signal >= ctl.max
  BY <1>1, <1>5, BlockWidths, SMT DEF Register, Clamped
<1>6. ASSUME signal >= ctl.max PROVE railed' = "upper"
  <2>1. signal \in Int /\ ctl.max \in Int
    BY <1>1, BlockWidths, SMT DEF Register, Clamped
  <2>2. \/ signal >= ctl.max /\ railed' = "upper"
        \/ signal < ctl.max
    BY Zenon DEF Limit
  <2> HIDE DEF signal
  <2> QED
    BY <1>6, <2>1, <2>2, SMT
<1> QED
  BY <1>3, <1>4, <1>5, <1>6, Zenon

LEMMA ReachesBelow ==
    ASSUME LoopTypeOK, NEW mate \in Mates, NEW offset \in Offsets,
           SumOutputs(mate), Limit(offset), ctl.min < ctl.max,
           NEW m \in Register(HALF), mate <= m,
           NEW o \in Register(HALF), offset <= o,
           NEW y \in Int, y = ctl.min - (m + o), y + m >= -HALF
    PROVE  /\ contribution <= y => out_sum' <= y + m
           /\ out_sum <= y + m => out_sat' <= y + m
           /\ out_sat <= y + m => railed' = "lower"
<1>1. /\ ctl.min \in Register(HALF) /\ ctl.max \in Register(HALF)
      /\ mate \in Register(HALF) /\ offset \in Register(HALF)
      /\ contribution \in Register(HALF)
      /\ out_sum \in Register(2 * HALF) /\ out_sat \in Register(HALF)
  BY ControlTypes, ControlsAssumption, ContributionType, Zenon DEF LoopTypeOK
<1>2. out_sum' = contribution + mate /\ out_sat' = Clamped(out_sum, HALF)
  BY Zenon DEF SumOutputs
<1>3. contribution <= y => out_sum' <= y + m
  BY <1>1, <1>2, BlockWidths, SMT DEF Register
<1>4. out_sum <= y + m => out_sat' <= y + m
  BY <1>1, <1>2, BlockWidths, SMT DEF Register, Clamped
<1> DEFINE signal == Clamped(out_sat + offset, HALF)
<1>5. ASSUME out_sat <= y + m PROVE signal <= ctl.min
  BY <1>1, <1>5, BlockWidths, SMT DEF Register, Clamped
<1>6. ASSUME signal <= ctl.min PROVE railed' = "lower"
  <2>1. signal \in Int /\ ctl.max \in Int /\ ctl.min \in Int
    BY <1>1, BlockWidths, SMT DEF Register, Clamped
  <2>2. \/ signal >= ctl.max
        \/ signal <= ctl.min /\ railed' = "lower"
        \/ signal > ctl.min
    BY Zenon DEF Limit
  <2> HIDE DEF signal
  <2> QED
    BY <1>6, <2>1, <2>2, SMT
<1> QED
  BY <1>3, <1>4, <1>5, <1>6, Zenon

(* A clock moves the integrator no further beyond the upper limit than     *)
(* the registers know of.                                                  *)
LEMMA StepAbove ==
    ASSUME WindupRoom, WindupInv, OnlyIntegrates(set, ctl),
           NEW d \in Data, NEW mate \in Mates, NEW offset \in Offsets,
           LoopClock(d, mate, offset),
           NEW m \in Mates, NEW o \in Offsets, NEW worst \in Data,
           Above(set, ctl, m, o, worst),
           NEW x \in Int, x = ctl.max - (m + o),
           NEW e \in Int, e = set.ki * ErrorOf(set, worst)
    PROVE  StoppedAbove(x * ISHIFT, e, x, m)'
<1> DEFINE t == x * ISHIFT
<1>1. /\ LoopTypeOK /\ Plain /\ set \in Settings /\ ctl \in Controls
      /\ StoppedAbove(t, e, x, m)
  BY Zenon DEF WindupInv, LoopTypeOK, Plain, StopsAbove
<1>2. /\ set' = set /\ Clock(PidInputs(d)) /\ SumOutputs(mate) /\ Limit(offset)
  BY Zenon DEF LoopClock
<1>3. /\ pid_out' = Clamped(int_reg \div ISHIFT, HALF)
      /\ ctl.auto => center = 0
  BY <1>1, PlainStep, Zenon
<1>4. /\ set.ki \in Nat /\ error \in Int /\ ki_mult \in Int /\ int_reg \in Int
      /\ INTHALF \in Nat /\ ISHIFT \in Nat /\ ISHIFT > 0
      /\ ErrorOf(set, d) \in Int /\ ErrorOf(set, worst) \in Int
      /\ m \in Register(HALF) /\ o \in Register(HALF)
  BY <1>1, WindupTypes, HalfTypes, BlockWidths, Zenon
<1>5. /\ m <= mate /\ o <= offset /\ ErrorOf(set, d) <= ErrorOf(set, worst)
      /\ ErrorOf(set, worst) >= 0
      /\ 0 < x /\ x < HALF /\ x + m < HALF /\ t + (Latency + 2) * e < INTHALF
  BY Zenon DEF Above
<1>6. /\ e >= 0
      /\ ErrorOf(set, d) * set.ki <= e
  <2>1. 0 <= ErrorOf(set, worst) /\ 0 \in Int /\ set.ki * 0 = 0
    BY <1>4, <1>5, SMT
  <2>2. set.ki * 0 <= set.ki * ErrorOf(set, worst)
    BY <1>4, <2>1, Grows, Zenon
  <2>3. set.ki * ErrorOf(set, d) <= set.ki * ErrorOf(set, worst)
    BY <1>4, <1>5, Grows, Zenon
  <2>4. set.ki * ErrorOf(set, d) = ErrorOf(set, d) * set.ki
    BY <1>4, SMT
  <2>5. 0 <= e => e >= 0
    BY SMT
  <2> QED
    BY <2>1, <2>2, <2>3, <2>4, <2>5, Zenon
<1>7. t \in Int /\ t > 0 /\ t + 6 * e < INTHALF
  BY <1>4, <1>5, SMT DEF Latency
<1>8. /\ error' = ErrorOf(set, d)
      /\ ki_mult' = error * set.ki
      /\ \/ int_reg' = 0
         \/ /\ ~pid_irst
            /\ \/ int_reg' = int_reg
               \/ /\ int_reg' = int_reg + ki_mult
                  /\ railed = "upper" => ~(ki_mult > 0)
               \/ int_reg + ki_mult >= INTHALF /\ int_reg' = INTHALF - 1
               \/ int_reg + ki_mult < -INTHALF /\ int_reg' = -INTHALF
  BY <1>1, <1>2, <1>3, IntegratorMoves, Zenon DEF Plain
<1>9. /\ error' * set'.ki <= e /\ ki_mult' <= e
  BY <1>1, <1>2, <1>6, <1>8, Zenon DEF StoppedAbove
<1>10. int_reg' \in Int
  BY <1>4, <1>8, SMT
<1> HIDE DEF t
<1>11. /\ ki_mult <= e /\ int_reg <= t + 5 * e
       /\ int_reg >= t + 4 * e => railed = "upper"
       /\ int_reg >= t + 3 * e => out_sat >= x + m
       /\ int_reg >= t + 2 * e => out_sum >= x + m
       /\ int_reg >= t + e => pid_out >= x
  BY <1>1, Zenon DEF StoppedAbove
<1>12. /\ int_reg' <= t + 5 * e
       /\ int_reg' >= t + e => int_reg >= t
       /\ int_reg' >= t + 2 * e => int_reg >= t + e
       /\ int_reg' >= t + 3 * e => int_reg >= t + 2 * e
       /\ int_reg' >= t + 4 * e => int_reg >= t + 3 * e
       /\ int_reg' >= t + e => int_reg' # 0
  <2>1. \/ int_reg' = 0
        \/ int_reg' = int_reg
        \/ /\ int_reg' = int_reg + ki_mult
           /\ int_reg >= t + 4 * e => ~(ki_mult > 0)
        \/ int_reg + ki_mult >= INTHALF /\ int_reg' = INTHALF - 1
        \/ int_reg + ki_mult < -INTHALF /\ int_reg' = -INTHALF
    BY <1>8, <1>11, Zenon
  <2> QED
    BY <1>4, <1>6, <1>7, <1>10, <1>11, <2>1, ClockAbove, SMT
<1>13. int_reg' >= t + e => pid_out' >= x
  BY <1>3, <1>4, <1>5, <1>12, OutputReaches, Zenon DEF t
<1>14. ctl.min < ctl.max
  BY <1>1, Zenon DEF WindupRoom
<1>15. /\ contribution >= x => out_sum' >= x + m
       /\ out_sum >= x + m => out_sat' >= x + m
       /\ out_sat >= x + m => railed' = "upper"
  BY <1>1, <1>2, <1>4, <1>5, <1>14, ReachesAbove, Zenon
<1>16. int_reg' >= t + 2 * e => out_sum' >= x + m
  <2> SUFFICES ASSUME int_reg' >= t + 2 * e PROVE out_sum' >= x + m
    OBVIOUS
  <2>1. int_reg' # 0
    <3>1. int_reg' >= t + e
      BY <1>6, <1>7, <1>10, SMT
    <3> QED
      BY <1>12, <3>1, Zenon
  <2>2. ~pid_irst
    BY <1>8, <2>1, Zenon
  <2> QED
    BY <1>1, <1>11, <1>12, <1>15, <2>2, Contributes, Zenon
<1>17. /\ int_reg' >= t + 3 * e => out_sat' >= x + m
       /\ int_reg' >= t + 4 * e => railed' = "upper"
  BY <1>11, <1>12, <1>15, Zenon
<1> QED
  BY <1>9, <1>12, <1>13, <1>16, <1>17, Zenon DEF StoppedAbove, t

(* Nor beyond the lower limit. *)
LEMMA StepBelow ==
    ASSUME WindupRoom, WindupInv, OnlyIntegrates(set, ctl),
           NEW d \in Data, NEW mate \in Mates, NEW offset \in Offsets,
           LoopClock(d, mate, offset),
           NEW m \in Mates, NEW o \in Offsets, NEW worst \in Data,
           Below(set, ctl, m, o, worst),
           NEW y \in Int, y = ctl.min - (m + o),
           NEW f \in Int, f = set.ki * ErrorOf(set, worst)
    PROVE  StoppedBelow((y + 1) * ISHIFT, f, y, m)'
<1> DEFINE t == (y + 1) * ISHIFT
<1>1. /\ LoopTypeOK /\ Plain /\ set \in Settings /\ ctl \in Controls
      /\ StoppedBelow(t, f, y, m)
  BY Zenon DEF WindupInv, LoopTypeOK, Plain, StopsBelow
<1>2. /\ set' = set /\ Clock(PidInputs(d)) /\ SumOutputs(mate) /\ Limit(offset)
  BY Zenon DEF LoopClock
<1>3. /\ pid_out' = Clamped(int_reg \div ISHIFT, HALF)
      /\ ctl.auto => center = 0
  BY <1>1, PlainStep, Zenon
<1>4. /\ set.ki \in Nat /\ error \in Int /\ ki_mult \in Int /\ int_reg \in Int
      /\ INTHALF \in Nat /\ INTHALF > 0 /\ ISHIFT \in Nat /\ ISHIFT > 0
      /\ ErrorOf(set, d) \in Int /\ ErrorOf(set, worst) \in Int
      /\ m \in Register(HALF) /\ o \in Register(HALF)
  BY <1>1, WindupTypes, HalfTypes, BlockWidths, Zenon
<1>5. /\ mate <= m /\ offset <= o /\ ErrorOf(set, worst) <= ErrorOf(set, d)
      /\ ErrorOf(set, worst) <= 0
      /\ y < 0 /\ y >= -HALF /\ y + m >= -HALF
      /\ t + (Latency + 2) * f >= -INTHALF
  BY Zenon DEF Below
<1>6. /\ f <= 0
      /\ ErrorOf(set, d) * set.ki >= f
  <2>1. 0 \in Int /\ set.ki * 0 = 0
    BY <1>4, SMT
  <2>2. set.ki * ErrorOf(set, worst) <= set.ki * 0
    BY <1>4, <1>5, <2>1, Grows, Zenon
  <2>3. set.ki * ErrorOf(set, worst) <= set.ki * ErrorOf(set, d)
    BY <1>4, <1>5, Grows, Zenon
  <2>4. /\ set.ki * ErrorOf(set, d) = ErrorOf(set, d) * set.ki
        /\ ErrorOf(set, d) * set.ki \in Int
    BY <1>4, SMT
  <2>5. f <= ErrorOf(set, d) * set.ki => ErrorOf(set, d) * set.ki >= f
    BY <2>4, SMT
  <2> QED
    BY <2>1, <2>2, <2>3, <2>4, <2>5, Zenon
<1>7. t \in Int /\ t <= 0 /\ t + 6 * f >= -INTHALF
  BY <1>4, <1>5, SMT DEF Latency
<1>8. /\ error' = ErrorOf(set, d)
      /\ ki_mult' = error * set.ki
      /\ \/ int_reg' = 0
         \/ /\ ~pid_irst
            /\ \/ int_reg' = int_reg
               \/ /\ int_reg' = int_reg + ki_mult
                  /\ railed = "lower" => ~(ki_mult < 0)
               \/ int_reg + ki_mult >= INTHALF /\ int_reg' = INTHALF - 1
               \/ int_reg + ki_mult < -INTHALF /\ int_reg' = -INTHALF
  BY <1>1, <1>2, <1>3, IntegratorMoves, Zenon DEF Plain
<1>9. /\ error' * set'.ki >= f /\ ki_mult' >= f
  BY <1>1, <1>2, <1>6, <1>8, Zenon DEF StoppedBelow
<1>10. int_reg' \in Int
  BY <1>4, <1>8, SMT
<1> HIDE DEF t
<1>11. /\ ki_mult >= f /\ int_reg >= t + 5 * f
       /\ int_reg < t + 4 * f => railed = "lower"
       /\ int_reg < t + 3 * f => out_sat <= y + m
       /\ int_reg < t + 2 * f => out_sum <= y + m
       /\ int_reg < t + f => pid_out <= y
  BY <1>1, Zenon DEF StoppedBelow
<1>12. /\ int_reg' >= t + 5 * f
       /\ int_reg' < t + f => int_reg < t
       /\ int_reg' < t + 2 * f => int_reg < t + f
       /\ int_reg' < t + 3 * f => int_reg < t + 2 * f
       /\ int_reg' < t + 4 * f => int_reg < t + 3 * f
       /\ int_reg' < t + f => int_reg' # 0
  <2>1. \/ int_reg' = 0
        \/ int_reg' = int_reg
        \/ /\ int_reg' = int_reg + ki_mult
           /\ int_reg < t + 4 * f => ~(ki_mult < 0)
        \/ int_reg + ki_mult >= INTHALF /\ int_reg' = INTHALF - 1
        \/ int_reg + ki_mult < -INTHALF /\ int_reg' = -INTHALF
    BY <1>8, <1>11, Zenon
  <2> QED
    BY <1>4, <1>6, <1>7, <1>10, <1>11, <2>1, ClockBelow, SMT
<1>13. int_reg' < t + f => pid_out' <= y
  BY <1>3, <1>4, <1>5, <1>12, OutputReaches, Zenon DEF t
<1>14. ctl.min < ctl.max
  BY <1>1, Zenon DEF WindupRoom
<1>15. /\ contribution <= y => out_sum' <= y + m
       /\ out_sum <= y + m => out_sat' <= y + m
       /\ out_sat <= y + m => railed' = "lower"
  BY <1>1, <1>2, <1>4, <1>5, <1>14, ReachesBelow, Zenon
<1>16. int_reg' < t + 2 * f => out_sum' <= y + m
  <2> SUFFICES ASSUME int_reg' < t + 2 * f PROVE out_sum' <= y + m
    OBVIOUS
  <2>1. int_reg' # 0
    <3>1. int_reg' < t + f
      BY <1>6, <1>7, <1>10, SMT
    <3> QED
      BY <1>12, <3>1, Zenon
  <2>2. ~pid_irst
    BY <1>8, <2>1, Zenon
  <2> QED
    BY <1>1, <1>11, <1>12, <1>15, <2>2, Contributes, Zenon
<1>17. /\ int_reg' < t + 3 * f => out_sat' <= y + m
       /\ int_reg' < t + 4 * f => railed' = "lower"
  BY <1>11, <1>12, <1>15, Zenon
<1> QED
  BY <1>9, <1>12, <1>13, <1>16, <1>17, Zenon DEF StoppedBelow, t

(* A clock keeps the invariant: the settings and the limits stay.          *)
LEMMA WindupStep ==
    ASSUME WindupRoom, WindupInv, LoopNext
    PROVE  WindupInv'
<1>1. PICK d \in Data, mate \in Mates, offset \in Offsets :
          LoopClock(d, mate, offset)
  BY Zenon DEF LoopNext
<1>2. LoopTypeOK /\ LoopTypeOK'
  BY LoopStep, Zenon DEF WindupInv
<1>3. set' = set /\ (ctl' = ctl \/ <<ctl, ctl'>> \in Rewrites)
  BY <1>1, Zenon DEF LoopClock
<1>4. ctl'.on = ctl.on /\ ctl'.min = ctl.min /\ ctl'.max = ctl.max
  <2>1. ASSUME <<ctl, ctl'>> \in Rewrites
        PROVE  ctl'.on = ctl.on /\ ctl'.min = ctl.min /\ ctl'.max = ctl.max
    <3>1. <<ctl, ctl'>>[1] = ctl /\ <<ctl, ctl'>>[2] = ctl'
      OBVIOUS
    <3> QED
      BY <2>1, <3>1, Zenon DEF WindupRoom
  <2> QED
    BY <1>3, <2>1, Zenon
<1> SUFFICES ASSUME OnlyIntegrates(set', ctl')
             PROVE  Plain' /\ StopsAbove' /\ StopsBelow'
  BY <1>2, Zenon DEF WindupInv
<1>5. OnlyIntegrates(set, ctl)
  BY <1>3, <1>4, Zenon DEF OnlyIntegrates
<1>6. Plain /\ Plain'
  BY <1>1, <1>2, <1>5, PlainStep, Zenon DEF WindupInv
<1>7. ASSUME NEW m \in Mates, NEW o \in Offsets, NEW n \in Data
      PROVE  /\ ctl.max - (m + o) \in Int /\ ctl.min - (m + o) \in Int
             /\ set.ki * ErrorOf(set, n) \in Int
  <2>1. /\ set.ki \in Nat /\ ErrorOf(set, n) \in Int
        /\ ctl.min \in Register(HALF) /\ ctl.max \in Register(HALF)
        /\ m \in Register(HALF) /\ o \in Register(HALF)
    BY <1>2, <1>6, WindupTypes, Zenon DEF Plain
  <2> QED
    BY <2>1, BlockWidths, SMT DEF Register
<1>8. StopsAbove'
  <2> SUFFICES ASSUME NEW m \in Mates, NEW o \in Offsets, NEW n \in Data,
                      Above(set, ctl, m, o, n)'
               PROVE  StoppedAbove((ctl.max - (m + o)) * ISHIFT,
                                   set.ki * ErrorOf(set, n),
                                   ctl.max - (m + o), m)'
    BY Zenon DEF StopsAbove
  <2>1. Above(set, ctl, m, o, n)
    BY <1>3, <1>4, Zenon DEF Above
  <2>2. PICK x \in Int, e \in Int : x = ctl.max - (m + o)
                                    /\ e = set.ki * ErrorOf(set, n)
    BY <1>7, Zenon
  <2>3. StoppedAbove(x * ISHIFT, e, x, m)'
    BY <1>1, <1>5, <2>1, <2>2, StepAbove, Zenon
  <2> QED
    BY <1>3, <1>4, <2>2, <2>3, Zenon DEF StoppedAbove
<1>9. StopsBelow'
  <2> SUFFICES ASSUME NEW m \in Mates, NEW o \in Offsets, NEW n \in Data,
                      Below(set, ctl, m, o, n)'
               PROVE  StoppedBelow(((ctl.min - (m + o)) + 1) * ISHIFT,
                                   set.ki * ErrorOf(set, n),
                                   ctl.min - (m + o), m)'
    BY Zenon DEF StopsBelow
  <2>1. Below(set, ctl, m, o, n)
    BY <1>3, <1>4, Zenon DEF Below
  <2>2. PICK y \in Int, f \in Int : y = ctl.min - (m + o)
                                    /\ f = set.ki * ErrorOf(set, n)
    BY <1>7, Zenon
  <2>3. StoppedBelow((y + 1) * ISHIFT, f, y, m)'
    BY <1>1, <1>5, <2>1, <2>2, StepBelow, Zenon
  <2> QED
    BY <1>3, <1>4, <2>2, <2>3, Zenon DEF StoppedBelow
<1> QED
  BY <1>6, <1>8, <1>9, Zenon

(* After a reset the integrator is at zero, between the limits.            *)
LEMMA WindupInit == ASSUME WindupRoom, LoopInit PROVE WindupInv
<1>1. LoopTypeOK /\ Plain
  BY LoopStart, LoopInitType, Zenon DEF LoopInit, RegistersReset, Plain
<1>2. /\ error = 0 /\ ki_mult = 0 /\ int_reg = 0
      /\ ISHIFT \in Nat /\ ISHIFT > 0
  BY BlockWidths, Zenon DEF LoopInit, RegistersReset
<1>3. ASSUME NEW m \in Mates, NEW o \in Offsets, NEW n \in Data
      PROVE  /\ ctl.max - (m + o) \in Int /\ ctl.min - (m + o) \in Int
             /\ set.ki \in Nat /\ ErrorOf(set, n) \in Int
  <2>1. /\ set.ki \in Nat /\ ErrorOf(set, n) \in Int
        /\ ctl.min \in Register(HALF) /\ ctl.max \in Register(HALF)
        /\ m \in Register(HALF) /\ o \in Register(HALF)
    BY <1>1, WindupTypes, Zenon DEF Plain
  <2> QED
    BY <2>1, BlockWidths, SMT DEF Register
<1>4. StopsAbove
  <2> SUFFICES ASSUME NEW m \in Mates, NEW o \in Offsets, NEW n \in Data,
                      Above(set, ctl, m, o, n)
               PROVE  StoppedAbove((ctl.max - (m + o)) * ISHIFT,
                                   set.ki * ErrorOf(set, n),
                                   ctl.max - (m + o), m)
    BY Zenon DEF StopsAbove
  <2>1. PICK x \in Int : x = ctl.max - (m + o)
    BY <1>3, Zenon
  <2>2. PICK k \in Nat, b \in Int : k = set.ki /\ b = ErrorOf(set, n)
    BY <1>3, Zenon
  <2>3. 0 < x /\ b >= 0
    BY <2>1, <2>2, Zenon DEF Above
  <2>4. 0 <= k * b /\ k * b \in Int
    BY <2>3, SMT
  <2>5. x * ISHIFT \in Int /\ x * ISHIFT > 0
    BY <1>2, <2>3, SMT
  <2>6. error * k <= k * b
    <3>1. 0 * k = 0
      BY SMT
    <3> QED
      BY <1>2, <2>4, <3>1, Zenon
  <2> DEFINE t == x * ISHIFT
             e == k * b
  <2>7. t \in Int /\ t > 0 /\ e \in Int /\ e >= 0
    BY <2>4, <2>5, SMT
  <2> HIDE DEF t, e
  <2>8. /\ ~(0 >= t + e) /\ ~(0 >= t + 2 * e) /\ ~(0 >= t + 3 * e)
        /\ ~(0 >= t + 4 * e) /\ 0 <= t + 5 * e /\ 0 <= e
    BY <2>7, SMT
  <2>9. StoppedAbove(t, e, x, m)
    BY <1>2, <2>2, <2>6, <2>8, Zenon DEF StoppedAbove, e
  <2> QED
    BY <2>1, <2>2, <2>9, Zenon DEF t, e
<1>5. StopsBelow
  <2> SUFFICES ASSUME NEW m \in Mates, NEW o \in Offsets, NEW n \in Data,
                      Below(set, ctl, m, o, n)
               PROVE  StoppedBelow(((ctl.min - (m + o)) + 1) * ISHIFT,
                                   set.ki * ErrorOf(set, n),
                                   ctl.min - (m + o), m)
    BY Zenon DEF StopsBelow
  <2>1. PICK y \in Int : y = ctl.min - (m + o)
    BY <1>3, Zenon
  <2>2. PICK k \in Nat, b \in Int : k = set.ki /\ b = ErrorOf(set, n)
    BY <1>3, Zenon
  <2>3. y < 0 /\ b <= 0
    BY <2>1, <2>2, Zenon DEF Below
  <2>4. k * b <= 0 /\ k * b \in Int
    BY <2>3, SMT
  <2>5. (y + 1) * ISHIFT \in Int /\ (y + 1) * ISHIFT <= 0
    BY <1>2, <2>3, SMT
  <2>6. error * k >= k * b
    <3>1. 0 * k = 0 /\ 0 >= k * b
      BY <2>4, SMT
    <3> QED
      BY <1>2, <3>1, Zenon
  <2> DEFINE t == (y + 1) * ISHIFT
             f == k * b
  <2>7. t \in Int /\ t <= 0 /\ f \in Int /\ f <= 0
    BY <2>4, <2>5, SMT
  <2> HIDE DEF t, f
  <2>8. /\ ~(0 < t + f) /\ ~(0 < t + 2 * f) /\ ~(0 < t + 3 * f)
        /\ ~(0 < t + 4 * f) /\ 0 >= t + 5 * f /\ 0 >= f
    BY <2>7, SMT
  <2>9. StoppedBelow(t, f, y, m)
    BY <1>2, <2>2, <2>6, <2>8, Zenon DEF StoppedBelow, f
  <2> QED
    BY <2>1, <2>2, <2>9, Zenon DEF t, f
<1> QED
  BY <1>1, <1>4, <1>5, Zenon DEF WindupInv

(* Anti-windup: wherever the limits have room around them, an integrator   *)
(* that drives the output runs beyond a limit by no more than it moves in  *)
(* the clocks until the rail comes back to it, for every gain, width and   *)
(* rest of the output (int_reg and railed_i in red_pitaya_pid_block.v,     *)
(* out_1_sum, out_1_sat, railed_o).                                        *)
THEOREM WindupBound ==
    ASSUME WindupRoom
    PROVE  LoopSpec => []WindupIsBounded
<1>1. WindupInv /\ [LoopNext]_loopVars => WindupInv'
  <2>1. ASSUME WindupInv, UNCHANGED loopVars PROVE WindupInv'
    <3>1. LoopTypeOK'
      BY <2>1, LoopUnchanged, Zenon DEF WindupInv
    <3>2. (OnlyIntegrates(set, ctl) => Plain /\ StopsAbove /\ StopsBelow)'
      BY <2>1 DEF WindupInv, loopVars, relockVars, vars, regs, OnlyIntegrates,
                  Plain, StopsAbove, StopsBelow, StoppedAbove, StoppedBelow
    <3> QED
      BY <3>1, <3>2, Zenon DEF WindupInv
  <2> QED
    BY <2>1, WindupStep, Zenon
<1>2. WindupInv => WindupIsBounded
  <2> SUFFICES ASSUME WindupInv, OnlyIntegrates(set, ctl) PROVE WindupIsBounded
    BY Zenon DEF WindupIsBounded
  <2>2. set \in Settings /\ ctl \in Controls /\ StopsAbove /\ StopsBelow
    BY Zenon DEF WindupInv, Plain, LoopTypeOK
  <2>3. Latency + 1 = 5
    BY SMT DEF Latency
  <2>4. PICK m \in Mates, o \in Offsets, d \in Data : Above(set, ctl, m, o, d)
    BY <2>2, Zenon DEF WindupRoom
  <2>5. int_reg <= (ctl.max - (m + o)) * ISHIFT + 5 * (set.ki * ErrorOf(set, d))
    BY <2>2, <2>4, Zenon DEF StopsAbove, StoppedAbove
  <2>6. PICK n \in Mates, p \in Offsets, b \in Data : Below(set, ctl, n, p, b)
    BY <2>2, Zenon DEF WindupRoom
  <2>7. int_reg >= ((ctl.min - (n + p)) + 1) * ISHIFT
                   + 5 * (set.ki * ErrorOf(set, b))
    BY <2>2, <2>6, Zenon DEF StopsBelow, StoppedBelow
  <2>8. ctl.min + 1 - (n + p) = (ctl.min - (n + p)) + 1
    <3>1. /\ ctl.min \in Register(HALF) /\ n \in Register(HALF)
          /\ p \in Register(HALF)
      BY <2>2, WindupTypes, Zenon DEF WindupInv
    <3> QED
      BY <3>1, BlockWidths, SMT DEF Register
  <2> QED
    BY <2>3, <2>5, <2>7, <2>8, Zenon DEF WindupIsBounded
<1> QED
  BY <1>1, <1>2, WindupInit, PTL DEF LoopSpec
=============================================================================
