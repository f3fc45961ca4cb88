--------------------------- MODULE Acquisition_proofs ---------------------------
(***************************************************************************)
(* What the acquisition does for every ring, every width of its counters,  *)
(* every set of decimations and delays and any number of processes: TD     *)
(* means done, and the counter of the samples before the trigger claims    *)
(* none that were not written.                                             *)
(***************************************************************************)
EXTENDS Acquisition, WellFoundedInduction, TLAPS

(* There is a longest delay, and the history counts past it. *)
LEMMA AfterMaxBounds ==
    /\ AfterMax \in Nat
    /\ \A d \in Delays \cup {0} : d + 3 <= AfterMax
<1> DEFINE T == {COUNTS - d : d \in Delays}
<1>1. COUNTS \in Nat /\ Delays \subseteq 0 .. COUNTS - 2 /\ Delays # {}
  BY ScopeAssumption, Zenon
<1>2. T \subseteq Nat /\ T # {}
  <2>1. \A e \in Delays : e \in 0 .. COUNTS - 2
    BY <1>1, Zenon
  <2>2. \A e \in Delays : COUNTS - e \in Nat
    BY <1>1, <2>1, SMT
  <2>3. T \subseteq Nat
    BY <2>2, Zenon
  <2>4. T # {}
    BY <1>1, Zenon
  <2> QED
    BY <2>3, <2>4
<1>3. PICK x \in T : \A y \in T : ~(<<y, x>> \in OpToRel(<, Nat))
  <2> HIDE DEF T
  <2> QED
    BY <1>2, NatLessThanWellFounded, WFMin, Zenon
<1>4. \A y \in T : ~(y < x)
  <2> SUFFICES ASSUME NEW y \in T, y < x PROVE FALSE
    OBVIOUS
  <2>1. y \in Nat /\ x \in Nat
    BY <1>2
  <2>2. <<y, x>> \in OpToRel(<, Nat)
    BY <2>1 DEF OpToRel
  <2> QED
    BY <2>2, <1>3, Zenon
<1>5. PICK d \in Delays : x = COUNTS - d
  BY <1>3, Zenon
<1>6. \A e \in Delays : COUNTS - e \in T
  BY Zenon
<1>7. \A e \in Delays : d >= e
  <2> HIDE DEF T
  <2> SUFFICES ASSUME NEW e \in Delays PROVE d >= e
    OBVIOUS
  <2>1. ~(COUNTS - e < COUNTS - d)
    BY <1>4, <1>5, <1>6, Zenon
  <2> QED
    BY <2>1, <1>1, SMT
<1> DEFINE m == Max(Delays)
<1>8. m \in Delays /\ \A e \in Delays : m >= e
  BY <1>7, Zenon DEF Max
<1>9. AfterMax = m + 3
  BY Zenon DEF AfterMax
<1> HIDE DEF T, m
<1>10. m \in Nat
  BY <1>8, <1>1, SMT
<1>11. \A e \in Delays \cup {0} : e \in Nat /\ m >= e
  BY <1>1, <1>8, <1>10, SMT
<1> QED
  BY <1>9, <1>10, <1>11, SMT

(* The next position of the ring. *)
LEMMA NextPosition ==
    ASSUME NEW x \in 0 .. N - 1
    PROVE  /\ (x + 1) % N \in 0 .. N - 1
           /\ x % N = x
BY ScopeAssumption, SMT

LEMMA Remainder ==
    ASSUME NEW q \in Nat, NEW r \in 0 .. N - 1
    PROVE  (N * q + r) % N = r
<1> DEFINE x == N * q + r
           k == x \div N
           m == x % N
<1>1. N \in Nat \ {0} /\ x \in Nat
  BY ScopeAssumption, SMT
<1>2. k \in Nat /\ m \in 0 .. N - 1 /\ x = N * k + m
  BY <1>1, SMT
<1> HIDE DEF k, m
<1>3. CASE k = q
  BY <1>1, <1>2, <1>3, SMT DEF m
<1>4. CASE k > q
  <2>1. PICK d \in Nat : k = q + 1 + d
    <3>1. k - q - 1 \in Nat /\ k = q + 1 + (k - q - 1)
      BY <1>2, <1>4, SMT
    <3> QED
      BY <3>1
  <2>2. N * k = N * q + N + N * d /\ N * d >= 0
    BY <1>1, <1>2, <2>1, SMT
  <2> QED
    BY <1>1, <1>2, <2>2, SMT
<1>5. CASE k < q
  <2>1. PICK d \in Nat : q = k + 1 + d
    <3>1. q - k - 1 \in Nat /\ q = k + 1 + (q - k - 1)
      BY <1>2, <1>5, SMT
    <3> QED
      BY <3>1
  <2>2. N * q = N * k + N + N * d /\ N * d >= 0
    BY <1>1, <1>2, <2>1, SMT
  <2> QED
    BY <1>1, <1>2, <2>2, SMT
<1> QED
  BY <1>2, <1>3, <1>4, <1>5, SMT

LEMMA PositionAfter ==
    ASSUME NEW x \in Nat
    PROVE  ((x % N) + 1) % N = (x + 1) % N
<1> DEFINE q == x \div N
           r == x % N
<1>1. /\ N \in Nat \ {0} /\ q \in Nat /\ r \in 0 .. N - 1
      /\ x = N * q + r
  BY ScopeAssumption, SMT
<1> HIDE DEF q, r
<1>2. CASE r + 1 < N
  <2>1. x + 1 = N * q + (r + 1) /\ r + 1 \in 0 .. N - 1
    BY <1>1, <1>2, SMT
  <2>2. (x + 1) % N = r + 1
    BY <2>1, <1>1, Remainder
  <2> QED
    BY <2>2, <2>1, NextPosition DEF r
<1>3. CASE r + 1 = N
  <2>1. q + 1 \in Nat /\ x + 1 = N * (q + 1) + 0 /\ 0 \in 0 .. N - 1
    BY <1>1, <1>3, SMT
  <2>2. (x + 1) % N = 0
    BY <2>1, Remainder
  <2>3. N % N = 0
    BY <1>1, SMT
  <2> QED
    BY <2>2, <2>3, <1>3 DEF r
<1> QED
  BY <1>1, <1>2, <1>3, SMT

(* The counter of the delay counts down to zero. *)
LEMMA LastOfDelay ==
    ASSUME NEW n \in 0 .. COUNTS - 1, n # 0
    PROVE  (n + COUNTS - 1) % COUNTS = n - 1
<1>1. COUNTS \in Nat /\ COUNTS > 0 /\ n - 1 \in 0 .. COUNTS - 1
  BY ScopeAssumption, SMT
<1>2. n + COUNTS - 1 = (n - 1) + COUNTS
  BY <1>1, SMT
<1>3. ((n - 1) + COUNTS) % COUNTS = (n - 1) % COUNTS
  BY <1>1, SMT
<1>4. (n - 1) % COUNTS = n - 1
  BY <1>1, SMT
<1> QED
  BY <1>2, <1>3, <1>4

-----------------------------------------------------------------------------
(***************************************************************************)
(* The invariant.                                                          *)
(***************************************************************************)
Calls == [pc : {"idle", "delay_ns", "trig_source", "trigger_delay", "load", "store"},
          op : ConfOps \cup {"none"}, we : BOOLEAN, keep : BOOLEAN]

SettingsOK ==
    /\ set_dec \in Decs /\ set_dly \in Delays \cup {0} /\ set_trig_src \in Sources
    /\ adc_we_keep \in BOOLEAN

PulsesOK ==
    /\ adc_arm_do \in BOOLEAN /\ adc_rst_do \in BOOLEAN /\ adc_trig_sw \in BOOLEAN
    /\ edge \in BOOLEAN /\ adc_trig \in BOOLEAN /\ adc_dv \in BOOLEAN
    /\ adc_we \in BOOLEAN /\ adc_dly_do \in BOOLEAN

CountersOK ==
    /\ adc_dec_cnt \in Nat
    /\ adc_we_cnt \in 0 .. COUNTS - 1 /\ adc_dly_cnt \in 0 .. COUNTS - 1
    /\ adc_wp \in 0 .. N - 1 /\ adc_wp_cur \in 0 .. N - 1 /\ adc_wp_trig \in 0 .. N - 1

HistoryOK ==
    /\ asked \in BOOLEAN /\ blank \in BOOLEAN /\ misled \in BOOLEAN
    /\ after \in 0 .. AfterMax /\ delay \in Delays \cup {0}
    /\ run \in 0 .. COUNTS - 1

TypeOK ==
    /\ SettingsOK /\ PulsesOK /\ CountersOK /\ HistoryOK
    /\ call \in [Procs -> Calls]

(* No start and no reset is under way while a trigger is asked for. *)
Quiet == asked => ~adc_arm_do /\ ~adc_rst_do

(* The last sample is one position behind, unless there is none yet. *)
Follows == adc_wp = (adc_wp_cur + 1) % N \/ (adc_wp = 0 /\ adc_wp_cur = 0)

(* The last sample is as far behind the trigger as the history says. *)
At ==
    /\ adc_wp_cur = Reached
    /\ after = 0 => (blank <=> adc_wp = adc_wp_cur)
    /\ after > 0 => adc_wp = (adc_wp_cur + 1) % N

(* The trigger has not come, the delay runs, or TD is said. *)
Waiting == adc_we /\ set_trig_src # "disabled" /\ ~adc_dly_do

Running ==
    /\ adc_we /\ set_trig_src # "disabled" /\ adc_dly_do
    /\ after + adc_dly_cnt \in delay .. delay + 1
    /\ At

Ended ==
    /\ ~adc_we /\ set_trig_src = "disabled"
    /\ after \in delay .. delay + 2
    /\ adc_wp_cur = adc_wp_trig \/ At

Phases == asked /\ ~adc_we_keep => Waiting \/ Running \/ Ended

IInv == TypeOK /\ Quiet /\ Follows /\ Phases /\ PreTriggerIsThere

-----------------------------------------------------------------------------
(***************************************************************************)
(* A step is a clock edge with a write that the registers allow.           *)
(***************************************************************************)
Allowed(w) ==
    /\ w.reg \in {"none", "conf", "trig_source", "trigger_delay", "data_dec"}
    /\ w.reg = "conf" => /\ w.value.arm \in BOOLEAN /\ w.value.rst \in BOOLEAN
                         /\ w.value.keep \in BOOLEAN
    /\ w.reg = "trig_source" => w.value \in Sources
    /\ w.reg = "trigger_delay" => w.value \in Delays
    /\ w.reg = "data_dec" => w.value \in Decs
    /\ w.reg # "none" => ~adc_arm_do /\ ~adc_rst_do /\ ~adc_trig_sw

Clocked(w) == Allowed(w) /\ Edge(w) /\ History(w)

LEMMA AllowedWrites ==
    /\ Allowed(NoWrite)
    /\ ~adc_arm_do /\ ~adc_rst_do /\ ~adc_trig_sw =>
          /\ \A source \in Sources : Allowed(TrigSrc(source))
          /\ \A n \in Delays : Allowed(Delay(n))
          /\ \A n \in Decs : Allowed(Dec(n))
          /\ \A arm, rst, keep \in BOOLEAN : Allowed(Conf(arm, rst, keep))
BY SMT DEF Allowed, NoWrite, TrigSrc, Delay, Dec, Conf

(* What StoreConf stores. *)
LEMMA ChangedWrites ==
    ASSUME NEW op, NEW q \in Calls
    PROVE  \E arm, rst, keep \in BOOLEAN : Changed(op, q) = Conf(arm, rst, keep)
<1> DEFINE arm == CASE op = "start" -> TRUE [] op = "stop" -> FALSE [] OTHER -> q.we
           keep == CASE op = "keep" -> TRUE [] op = "unkeep" -> FALSE [] OTHER -> q.keep
<1>1. q.we \in BOOLEAN /\ q.keep \in BOOLEAN
  BY DEF Calls
<1>2. arm \in BOOLEAN
  BY <1>1, Zenon
<1>3. keep \in BOOLEAN
  BY <1>1, Zenon
<1>4. Changed(op, q) = Conf(arm, op = "reset", keep)
  BY DEF Changed
<1> HIDE DEF arm, keep
<1> QED
  BY <1>2, <1>3, <1>4, Zenon

(* A pulse comes of a write to conf only. *)
LEMMA PulsesOfConf ==
    ASSUME NEW w, Edge(w), w.reg # "conf"
    PROVE  ~adc_arm_do' /\ ~adc_rst_do' /\ adc_we_keep' = adc_we_keep
BY Zenon DEF Edge, Registers

LEMMA Accessed ==
    ASSUME NEW w, Access(w), Allowed(w)
    PROVE  Clocked(w)
BY DEF Access, Clocked

(* The calls that store one register, and those that load.                 *)
Accesses(p) == \E w : \E c \in Calls :
    Access(w) /\ Allowed(w) /\ call' = [call EXCEPT ![p] = c]

LEMMA AccessStep ==
    ASSUME TypeOK, NEW p \in Procs, Accesses(p)
    PROVE  (\E w : Clocked(w)) /\ call' \in [Procs -> Calls]
<1>1. PICK w : \E c \in Calls :
                  Access(w) /\ Allowed(w) /\ call' = [call EXCEPT ![p] = c]
  BY DEF Accesses
<1>2. Clocked(w)
  BY <1>1, Accessed
<1>3. call' \in [Procs -> Calls]
  BY <1>1 DEF TypeOK
<1> QED
  BY <1>2, <1>3

LEMMA StoreAccesses ==
    ASSUME TypeOK, NEW p \in Procs, NEW w, Store(p, w), Allowed(w)
    PROVE  Accesses(p)
<1>1. call[p] \in Calls /\ call' = [call EXCEPT ![p] = call[p]]
  BY DEF TypeOK, Store
<1> QED
  BY <1>1, Zenon DEF Accesses, Store

LEMMA DecimationAccesses ==
    ASSUME TypeOK, NEW p \in Procs, SetDecimation(p)
    PROVE  Accesses(p)
<1>1. CASE /\ call[p] = Idle
           /\ \E n \in Decs : Access(Dec(n))
           /\ \E pc \in {"idle", "delay_ns"} : call' = [call EXCEPT ![p].pc = pc]
  <2>1. PICK n \in Decs : Access(Dec(n))
    BY <1>1
  <2>2. PICK pc \in {"idle", "delay_ns"} : call' = [call EXCEPT ![p].pc = pc]
    BY <1>1
  <2> DEFINE c == [Idle EXCEPT !.pc = pc]
  <2>3. c \in Calls
    BY DEF Idle, Calls
  <2>4. call' = [call EXCEPT ![p] = c]
    BY <1>1, <2>2
  <2>5. Allowed(Dec(n))
    BY <2>1, AllowedWrites DEF Access
  <2> HIDE DEF c
  <2> QED
    BY <2>1, <2>3, <2>4, <2>5, Zenon DEF Accesses
<1>2. CASE /\ call[p].pc = "delay_ns"
           /\ \E n \in Delays : Access(Delay(n))
           /\ call' = [call EXCEPT ![p] =
                         IF @.op = "reset" THEN [@ EXCEPT !.pc = "trig_source"] ELSE Idle]
  <2>1. PICK n \in Delays : Access(Delay(n))
    BY <1>2
  <2> DEFINE c == IF call[p].op = "reset"
                  THEN [call[p] EXCEPT !.pc = "trig_source"] ELSE Idle
  <2>2. call[p] \in Calls
    BY DEF TypeOK
  <2>3. c \in Calls
    BY <2>2 DEF Idle, Calls
  <2>4. call' = [call EXCEPT ![p] = c]
    BY <1>2
  <2>5. Allowed(Delay(n))
    BY <2>1, AllowedWrites DEF Access
  <2> HIDE DEF c
  <2> QED
    BY <2>1, <2>3, <2>4, <2>5, Zenon DEF Accesses
<1> QED
  BY <1>1, <1>2, Zenon DEF SetDecimation

LEMMA DefaultAccesses ==
    ASSUME TypeOK, NEW p \in Procs, SetDefault(p)
    PROVE  Accesses(p)
<1>1. call[p] \in Calls
  BY DEF TypeOK
<1>2. /\ Defaults.data_dec = Dec(1)
      /\ Defaults["trig_source"] = TrigSrc("disabled")
      /\ Defaults["trigger_delay"] = Delay(N \div 2)
  BY DEF Defaults
<1>3. CASE /\ Access(Defaults.data_dec)
           /\ \E pc \in {"delay_ns", "trig_source"} :
                 call' = [call EXCEPT ![p] = [Idle EXCEPT !.pc = pc, !.op = "reset"]]
  <2>1. PICK pc \in {"delay_ns", "trig_source"} :
           call' = [call EXCEPT ![p] = [Idle EXCEPT !.pc = pc, !.op = "reset"]]
    BY <1>3
  <2>2. [Idle EXCEPT !.pc = pc, !.op = "reset"] \in Calls
    BY DEF Idle, Calls, ConfOps
  <2>3. Allowed(Dec(1))
    BY <1>2, <1>3, AllowedWrites, ScopeAssumption DEF Access
  <2> QED
    BY <1>2, <1>3, <2>1, <2>2, <2>3, Zenon DEF Accesses
<1>4. CASE /\ call[p].pc = "trig_source"
           /\ Access(Defaults[call[p].pc])
           /\ call' = [call EXCEPT ![p].pc =
                         IF @ = "trig_source" THEN "trigger_delay" ELSE "load"]
  <2>1. Access(TrigSrc("disabled"))
    BY <1>2, <1>4
  <2>2. Allowed(TrigSrc("disabled"))
    BY <2>1, AllowedWrites DEF Access, Sources
  <2> DEFINE c == [call[p] EXCEPT !.pc = "trigger_delay"]
  <2>3. c \in Calls
    BY <1>1 DEF Calls
  <2>4. call' = [call EXCEPT ![p] = c]
    BY <1>4
  <2> HIDE DEF c
  <2> QED
    BY <2>1, <2>2, <2>3, <2>4, Zenon DEF Accesses
<1>5. CASE /\ call[p].pc = "trigger_delay"
           /\ Access(Defaults[call[p].pc])
           /\ call' = [call EXCEPT ![p].pc =
                         IF @ = "trig_source" THEN "trigger_delay" ELSE "load"]
  <2>1. Access(Delay(N \div 2))
    BY <1>2, <1>5
  <2>2. Allowed(Delay(N \div 2))
    BY <2>1, AllowedWrites, ScopeAssumption DEF Access
  <2> DEFINE c == [call[p] EXCEPT !.pc = "load"]
  <2>3. c \in Calls
    BY <1>1 DEF Calls
  <2>4. call' = [call EXCEPT ![p] = c]
    BY <1>5
  <2> HIDE DEF c
  <2> QED
    BY <2>1, <2>2, <2>3, <2>4, Zenon DEF Accesses
<1> QED
  BY <1>3, <1>4, <1>5, Zenon DEF SetDefault

LEMMA ConfAccesses ==
    ASSUME TypeOK, NEW p \in Procs, LoadConf(p) \/ StoreConf(p)
    PROVE  Accesses(p)
<1>1. CASE LoadConf(p)
  <2>1. PICK op \in ConfOps :
           call' = [call EXCEPT ![p] =
                      [pc |-> "store", op |-> op, we |-> adc_we, keep |-> adc_we_keep]]
    BY <1>1 DEF LoadConf
  <2> DEFINE c == [pc |-> "store", op |-> op, we |-> adc_we, keep |-> adc_we_keep]
  <2>2. adc_we \in BOOLEAN /\ adc_we_keep \in BOOLEAN
    BY DEF TypeOK, PulsesOK, SettingsOK
  <2>3. c \in Calls
    BY <2>2, Zenon DEF Calls
  <2>4. Access(NoWrite) /\ Allowed(NoWrite)
    BY <1>1, AllowedWrites DEF LoadConf
  <2>5. call' = [call EXCEPT ![p] = c]
    BY <2>1
  <2> HIDE DEF c
  <2> QED
    BY <2>3, <2>4, <2>5, Zenon DEF Accesses
<1>2. CASE StoreConf(p)
  <2> DEFINE q == call[p]
             w == Changed(q.op, q)
  <2>1. q \in Calls /\ Idle \in Calls
    BY DEF TypeOK, Idle, Calls
  <2>2. Access(w) /\ call' = [call EXCEPT ![p] = Idle]
    BY <1>2 DEF StoreConf
  <2>3. \E arm, rst, keep \in BOOLEAN : w = Conf(arm, rst, keep)
    BY <2>1, ChangedWrites
  <2>4. Allowed(w)
    <3>1. ~adc_arm_do /\ ~adc_rst_do /\ ~adc_trig_sw
      BY <2>2 DEF Access
    <3> QED
      BY <2>3, <3>1, AllowedWrites, Zenon
  <2> HIDE DEF w
  <2> QED
    BY <2>1, <2>2, <2>4, Zenon DEF Accesses
<1> QED
  BY <1>1, <1>2

LEMMA StepIsClocked ==
    ASSUME TypeOK, Next
    PROVE  (\E w : Clocked(w)) /\ call' \in [Procs -> Calls]
<1>1. CASE Tick
  BY <1>1, AllowedWrites DEF Tick, Clocked, TypeOK
<1>2. ASSUME NEW p \in Procs, SetTriggerSrc(p) PROVE Accesses(p)
  <2>1. PICK source \in Sources : Store(p, TrigSrc(source))
    BY <1>2 DEF SetTriggerSrc
  <2>2. Allowed(TrigSrc(source))
    BY <2>1, AllowedWrites DEF Store, Access
  <2> QED
    BY <2>1, <2>2, StoreAccesses
<1>3. ASSUME NEW p \in Procs, SetTriggerDelay(p) PROVE Accesses(p)
  <2>1. PICK n \in Delays : Store(p, Delay(n))
    BY <1>3 DEF SetTriggerDelay
  <2>2. Allowed(Delay(n))
    BY <2>1, AllowedWrites DEF Store, Access
  <2> QED
    BY <2>1, <2>2, StoreAccesses
<1>4. ASSUME NEW p \in Procs, Accesses(p)
      PROVE  (\E w : Clocked(w)) /\ call' \in [Procs -> Calls]
  BY <1>4, AccessStep
<1> QED
  BY <1>1, <1>2, <1>3, <1>4, DecimationAccesses, DefaultAccesses, ConfAccesses, Zenon
     DEF Next

-----------------------------------------------------------------------------
(***************************************************************************)
(* What a clock edge does to each of the parts.                            *)
(***************************************************************************)
LEMMA ClockedSettings ==
    ASSUME TypeOK, NEW w, Clocked(w)
    PROVE  SettingsOK' /\ PulsesOK'
<1>1. SettingsOK /\ PulsesOK /\ Allowed(w)
  BY DEF TypeOK, Clocked
<1>2. Registers(w) /\ SelectTrigger(w) /\ Enable /\ Decimate /\ DelayAfterTrigger
  BY DEF Clocked, Edge
<1>3. set_dec' \in Decs /\ set_dly' \in Delays \cup {0} /\ adc_we_keep' \in BOOLEAN
  BY <1>1, <1>2, Zenon DEF Registers, SettingsOK, Allowed
<1>4. set_trig_src' \in Sources
  <2>1. "disabled" \in Sources
    BY DEF Sources
  <2>2. \/ w.reg = "trig_source" /\ set_trig_src' = w.value
        \/ set_trig_src' = "disabled"
        \/ set_trig_src' = set_trig_src
    BY <1>2, Zenon DEF SelectTrigger
  <2> QED
    BY <2>1, <2>2, <1>1, Zenon DEF Allowed, SettingsOK
<1>5. adc_arm_do' \in BOOLEAN /\ adc_rst_do' \in BOOLEAN
  BY <1>2, Zenon DEF Registers
<1>6. adc_trig_sw' \in BOOLEAN /\ edge' \in BOOLEAN
  BY <1>2, Zenon DEF SelectTrigger
<1>7. adc_trig' \in BOOLEAN
  <2>1. set_trig_src \in {"disabled", "now", "edge"}
    BY <1>1 DEF SettingsOK, Sources
  <2>2. CASE set_trig_src = "now"
    BY <2>2, <1>1, <1>2, Zenon DEF SelectTrigger, PulsesOK
  <2>3. CASE set_trig_src = "edge"
    BY <2>3, <1>1, <1>2 DEF SelectTrigger, PulsesOK
  <2>4. CASE set_trig_src = "disabled"
    BY <2>4, <1>1, <1>2 DEF SelectTrigger, PulsesOK
  <2> QED
    BY <2>1, <2>2, <2>3, <2>4
<1>8. adc_dv' \in BOOLEAN /\ adc_we' \in BOOLEAN /\ adc_dly_do' \in BOOLEAN
  <2>1. adc_dv' = (adc_dec_cnt >= set_dec)
    BY <1>2 DEF Decimate
  <2>2. adc_dv' \in BOOLEAN
    BY <2>1, SMT
  <2>3. adc_we' \in BOOLEAN
    BY <1>2, Zenon DEF Enable
  <2>4. adc_dly_do' \in BOOLEAN
    BY <1>2, Zenon DEF DelayAfterTrigger
  <2> QED
    BY <2>2, <2>3, <2>4
<1> QED
  BY <1>3, <1>4, <1>5, <1>6, <1>7, <1>8 DEF SettingsOK, PulsesOK

(* The positions and counters, case by case. *)
LEMMA PointerCases ==
    ASSUME Pointers
    PROVE  /\ adc_rst_do => adc_wp' = 0 /\ adc_wp_cur' = 0 /\ adc_wp_trig' = 0
           /\ ~adc_rst_do /\ Written => adc_wp' = (adc_wp + 1) % N /\ adc_wp_cur' = adc_wp
           /\ ~adc_rst_do /\ ~Written => adc_wp' = adc_wp /\ adc_wp_cur' = adc_wp_cur
           /\ ~adc_rst_do /\ adc_trig /\ ~adc_dly_do => adc_wp_trig' = adc_wp_cur
           /\ ~adc_rst_do /\ ~(adc_trig /\ ~adc_dly_do) => adc_wp_trig' = adc_wp_trig
BY Zenon DEF Pointers

LEMMA DelayCases ==
    ASSUME DelayAfterTrigger
    PROVE  /\ adc_dly_do /\ Written => adc_dly_cnt' = (adc_dly_cnt + COUNTS - 1) % COUNTS
           /\ ~adc_dly_do => adc_dly_cnt' = set_dly
           /\ adc_dly_do /\ ~Written => adc_dly_cnt' = adc_dly_cnt
BY Zenon DEF DelayAfterTrigger

LEMMA ClockedCounters ==
    ASSUME TypeOK, NEW w, Clocked(w)
    PROVE  CountersOK'
<1>1. CountersOK /\ SettingsOK
  BY DEF TypeOK
<1>2. Decimate /\ CountBeforeTrigger /\ Pointers /\ DelayAfterTrigger
  BY DEF Clocked, Edge
<1>3. /\ COUNTS \in Nat /\ N \in Nat \ {0} /\ COUNTS > N
      /\ Delays \subseteq 0 .. COUNTS - 2 /\ Decs \subseteq Nat \ {0}
  BY ScopeAssumption
<1>4. adc_dec_cnt' \in Nat
  <2>1. adc_dec_cnt' = 1 \/ adc_dec_cnt' = adc_dec_cnt + 1
    BY <1>2, Zenon DEF Decimate
  <2> QED
    BY <2>1, <1>1, SMT DEF CountersOK
<1>5. adc_we_cnt' \in 0 .. COUNTS - 1
  <2>1. \/ adc_we_cnt # COUNTS - 1 /\ adc_we_cnt' = adc_we_cnt + 1
        \/ adc_we_cnt' = 0
        \/ adc_we_cnt' = adc_we_cnt
    BY <1>2, Zenon DEF CountBeforeTrigger
  <2> QED
    BY <2>1, <1>1, <1>3, SMT DEF CountersOK
<1>6. adc_dly_cnt' \in 0 .. COUNTS - 1
  <2>1. set_dly \in 0 .. COUNTS - 1
    BY <1>1, <1>3, SMT DEF SettingsOK
  <2>2. (adc_dly_cnt + COUNTS - 1) % COUNTS \in 0 .. COUNTS - 1
    BY <1>1, <1>3, SMT DEF CountersOK
  <2> QED
    BY <1>2, <1>1, <2>1, <2>2, DelayCases, Zenon DEF CountersOK
<1>7. 0 \in 0 .. N - 1 /\ (adc_wp + 1) % N \in 0 .. N - 1
  BY <1>1, <1>3, SMT DEF CountersOK
<1>8. adc_wp' \in 0 .. N - 1 /\ adc_wp_cur' \in 0 .. N - 1 /\ adc_wp_trig' \in 0 .. N - 1
  BY <1>2, <1>1, <1>7, PointerCases, Zenon DEF CountersOK
<1> QED
  BY <1>4, <1>5, <1>6, <1>8 DEF CountersOK

(* A triggered history, and any other. *)
LEMMA HistoryCases ==
    ASSUME NEW w, History(w)
    PROVE  /\ \/ ~asked' /\ delay' = 0 /\ after' = 0 /\ blank' = FALSE
              \/ /\ asked' /\ Fires
                 /\ (delay' = 0 /\ adc_dly_cnt = 0) \/ (delay' = set_dly /\ adc_dly_cnt # 0)
                 /\ (after' = 1 /\ Written) \/ (after' = 0 /\ ~Written)
                 /\ blank' = (adc_wp = adc_wp_cur)
              \/ /\ asked' /\ ~Fires
                 /\ \/ Written /\ after < AfterMax /\ after' = after + 1
                    \/ ~(Written /\ after < AfterMax) /\ after' = after
                 /\ delay' = delay /\ blank' = blank
           /\ \/ (adc_rst_do \/ (adc_arm_do /\ ~adc_we)) /\ run' = 0
              \/ /\ ~adc_rst_do /\ ~(adc_arm_do /\ ~adc_we)
                 /\ Written /\ run < COUNTS - 1 /\ run' = run + 1
              \/ /\ ~adc_rst_do /\ ~(adc_arm_do /\ ~adc_we)
                 /\ ~(Written /\ run < COUNTS - 1) /\ run' = run
           /\ misled' = (adc_we_cnt' # 0 /\ (misled \/ adc_rst_do))
           /\ w.reg = "trig_source" =>
                 asked' = (w.value # "disabled" /\ adc_we' /\ ~adc_dly_do')
           /\ w.reg = "conf" => ~asked'
           /\ w.reg \notin {"conf", "trig_source"} => asked' = asked
<1>1. TriggerHistory
  BY DEF History
<1>2. \/ ~asked' /\ delay' = 0 /\ after' = 0 /\ blank' = FALSE
      \/ /\ asked' /\ Fires
         /\ (delay' = 0 /\ adc_dly_cnt = 0) \/ (delay' = set_dly /\ adc_dly_cnt # 0)
         /\ (after' = 1 /\ Written) \/ (after' = 0 /\ ~Written)
         /\ blank' = (adc_wp = adc_wp_cur)
      \/ /\ asked' /\ ~Fires
         /\ \/ Written /\ after < AfterMax /\ after' = after + 1
            \/ ~(Written /\ after < AfterMax) /\ after' = after
         /\ delay' = delay /\ blank' = blank
  <2>1. CASE /\ asked' /\ Fires
             /\ delay' = IF adc_dly_cnt = 0 THEN 0 ELSE set_dly
             /\ after' = IF Written THEN 1 ELSE 0
             /\ blank' = (adc_wp = adc_wp_cur)
    BY <2>1, Zenon
  <2>2. CASE /\ asked' /\ ~Fires
             /\ after' = IF Written /\ after < AfterMax THEN after + 1 ELSE after
             /\ UNCHANGED <<delay, blank>>
    BY <2>2, Zenon
  <2> QED
    BY <1>1, <2>1, <2>2, Zenon DEF TriggerHistory
<1>3. \/ (adc_rst_do \/ (adc_arm_do /\ ~adc_we)) /\ run' = 0
      \/ /\ ~adc_rst_do /\ ~(adc_arm_do /\ ~adc_we)
         /\ Written /\ run < COUNTS - 1 /\ run' = run + 1
      \/ /\ ~adc_rst_do /\ ~(adc_arm_do /\ ~adc_we)
         /\ ~(Written /\ run < COUNTS - 1) /\ run' = run
  <2>1. run' = CASE adc_rst_do \/ (adc_arm_do /\ ~adc_we) -> 0
                [] ~adc_rst_do /\ Written /\ run < COUNTS - 1 -> run + 1
                [] OTHER -> run
    BY DEF History
  <2> QED
    BY <2>1, Zenon DEF Written
<1>4. misled' = (adc_we_cnt' # 0 /\ (misled \/ adc_rst_do))
  BY DEF History
<1>5. /\ w.reg = "trig_source" =>
             asked' = (w.value # "disabled" /\ adc_we' /\ ~adc_dly_do')
      /\ w.reg = "conf" => ~asked'
      /\ w.reg \notin {"conf", "trig_source"} => asked' = asked
  BY Zenon DEF History
<1> QED
  BY <1>2, <1>3, <1>4, <1>5, Zenon

LEMMA ClockedHistory ==
    ASSUME TypeOK, NEW w, Clocked(w)
    PROVE  HistoryOK'
<1>1. HistoryOK /\ SettingsOK /\ PulsesOK /\ PulsesOK'
  BY ClockedSettings DEF TypeOK
<1>2. History(w) /\ Allowed(w)
  BY DEF Clocked
<1>3. AfterMax \in Nat /\ 0 \in 0 .. AfterMax /\ 1 \in 0 .. AfterMax
  BY AfterMaxBounds, SMT
<1>4. asked' \in BOOLEAN
  BY <1>1, <1>2, Zenon DEF History, HistoryOK
<1>5. blank' \in BOOLEAN
  <2>1. (adc_wp = adc_wp_cur) \in BOOLEAN
    BY Zenon
  <2> QED
    BY <2>1, <1>1, <1>2, HistoryCases, Zenon DEF HistoryOK
<1>6. misled' \in BOOLEAN
  BY <1>2, HistoryCases, Zenon
<1>7. delay' \in Delays \cup {0}
  BY <1>1, <1>2, HistoryCases, Zenon DEF HistoryOK, SettingsOK
<1>8. after' \in 0 .. AfterMax
  <2>1. after < AfterMax => after + 1 \in 0 .. AfterMax
    BY <1>1, <1>3, SMT DEF HistoryOK
  <2> QED
    BY <2>1, <1>1, <1>2, <1>3, HistoryCases, Zenon DEF HistoryOK
<1>9. run' \in 0 .. COUNTS - 1
  <2>1. /\ run < COUNTS - 1 => run + 1 \in 0 .. COUNTS - 1
        /\ 0 \in 0 .. COUNTS - 1
    BY <1>1, ScopeAssumption, SMT DEF HistoryOK
  <2> QED
    BY <2>1, <1>1, <1>2, HistoryCases, Zenon DEF HistoryOK
<1> QED
  BY <1>4, <1>5, <1>6, <1>7, <1>8, <1>9 DEF HistoryOK

-----------------------------------------------------------------------------
(***************************************************************************)
(* The parts of the invariant.                                             *)
(***************************************************************************)
LEMMA ClockedQuiet ==
    ASSUME TypeOK, NEW w, Clocked(w)
    PROVE  Quiet'
<1> SUFFICES ASSUME asked' PROVE ~adc_arm_do' /\ ~adc_rst_do'
  BY DEF Quiet
<1>1. Edge(w) /\ History(w)
  BY DEF Clocked
<1>2. w.reg # "conf"
  BY <1>1, HistoryCases, Zenon
<1> QED
  BY <1>1, <1>2, PulsesOfConf

LEMMA ClockedFollows ==
    ASSUME TypeOK, Follows, NEW w, Clocked(w)
    PROVE  Follows'
<1>1. Pointers
  BY DEF Clocked, Edge
<1>2. CASE adc_rst_do
  BY <1>1, <1>2, PointerCases DEF Follows
<1>3. CASE ~adc_rst_do /\ Written
  BY <1>1, <1>3, PointerCases, Zenon DEF Follows
<1>4. CASE ~adc_rst_do /\ ~Written
  BY <1>1, <1>4, PointerCases, Zenon DEF Follows
<1> QED
  BY <1>2, <1>3, <1>4

(* What is counted was written. *)
LEMMA ClockedPreTrigger ==
    ASSUME TypeOK, PreTriggerIsThere, NEW w, Clocked(w)
    PROVE  PreTriggerIsThere'
<1>1. CountersOK /\ HistoryOK /\ PulsesOK
  BY DEF TypeOK
<1>2. CountBeforeTrigger /\ History(w)
  BY DEF Clocked, Edge
<1>3. COUNTS \in Nat
  BY ScopeAssumption
<1> SUFFICES ASSUME ~misled' PROVE adc_we_cnt' <= run'
  BY Zenon DEF PreTriggerIsThere
<1>4. run' \in 0 .. COUNTS - 1
  <2>1. /\ run < COUNTS - 1 => run + 1 \in 0 .. COUNTS - 1
        /\ 0 \in 0 .. COUNTS - 1
    BY <1>1, ScopeAssumption, SMT DEF HistoryOK
  <2> QED
    BY <2>1, <1>1, <1>2, HistoryCases, Zenon DEF HistoryOK
<1>5. CASE adc_we_cnt' = 0
  BY <1>4, <1>5, SMT
<1>6. CASE adc_we_cnt' # 0
  <2>1. ~misled /\ ~adc_rst_do
    BY <1>2, <1>6, HistoryCases, Zenon
  <2>2. adc_we_cnt <= run
    BY <2>1 DEF PreTriggerIsThere
  <2>3. \/ Written /\ adc_we_cnt # COUNTS - 1 /\ adc_we_cnt' = adc_we_cnt + 1
        \/ ~adc_arm_do /\ adc_we_cnt' = adc_we_cnt
    BY <1>2, <1>6, <2>1, Zenon DEF CountBeforeTrigger
  <2>4. Written => adc_we
    BY Zenon DEF Written
  <2>5. \/ Written /\ run < COUNTS - 1 /\ run' = run + 1
        \/ ~(Written /\ run < COUNTS - 1) /\ run' = run
    BY <1>2, <2>1, <2>3, <2>4, HistoryCases, Zenon
  <2>6. \/ adc_we_cnt' = adc_we_cnt /\ (run' = run \/ run' = run + 1)
        \/ adc_we_cnt' = adc_we_cnt + 1 /\ adc_we_cnt # COUNTS - 1 /\ run' = run + 1
        \/ adc_we_cnt' = adc_we_cnt + 1 /\ adc_we_cnt # COUNTS - 1
              /\ ~(run < COUNTS - 1) /\ run' = run
    BY <2>3, <2>5, Zenon
  <2> HIDE DEF PreTriggerIsThere
  <2> QED
    BY <2>2, <2>6, <1>1, <1>3, SMT DEF CountersOK, HistoryOK
<1> QED
  BY <1>5, <1>6

-----------------------------------------------------------------------------
(***************************************************************************)
(* The phases of an acquisition that was told to trigger.                  *)
(***************************************************************************)

(* The trigger comes: the last sample is where the history starts.         *)
LEMMA AtTrigger ==
    ASSUME TypeOK, Follows, Pointers, ~adc_rst_do, adc_trig, ~adc_dly_do,
           \/ after' = 1 /\ Written
           \/ after' = 0 /\ ~Written,
           blank' = (adc_wp = adc_wp_cur)
    PROVE  At'
<1>1. CountersOK /\ N \in Nat \ {0}
  BY ScopeAssumption DEF TypeOK
<1>2. adc_wp_trig' = adc_wp_cur
  BY PointerCases, Zenon
<1>3. CASE after' = 0 /\ ~Written
  <2>1. adc_wp_cur' = adc_wp_cur /\ adc_wp' = adc_wp
    BY <1>3, PointerCases, Zenon
  <2>2. ~(after' > 0)
    BY <1>3, SMT
  <2>3. Reached' = (adc_wp_cur + 0 - 0) % N
    BY <1>2, <1>3, <2>2, Zenon DEF Reached
  <2>4. Reached' = adc_wp_cur
    BY <2>3, <1>1, SMT DEF CountersOK
  <2> QED
    BY <1>3, <2>1, <2>2, <2>4, Zenon DEF At
<1>4. CASE after' = 1 /\ Written
  <2>1. adc_wp_cur' = adc_wp /\ adc_wp' = (adc_wp + 1) % N
    BY <1>4, PointerCases, Zenon
  <2>2. after' > 0 /\ after' # 0
    BY <1>4, SMT
  <2>3. CASE blank'
    <3>1. adc_wp = adc_wp_cur
      BY <2>3, Zenon
    <3>2. Reached' = (adc_wp_cur + 1 - 1) % N
      BY <1>2, <1>4, <2>2, <2>3, Zenon DEF Reached
    <3>3. Reached' = adc_wp
      BY <3>1, <3>2, <1>1, SMT DEF CountersOK
    <3> QED
      BY <2>1, <2>2, <3>3, Zenon DEF At
  <2>4. CASE ~blank'
    <3>1. adc_wp = (adc_wp_cur + 1) % N
      BY <2>4, Zenon DEF Follows
    <3>2. Reached' = (adc_wp_cur + 1 - 0) % N
      BY <1>2, <1>4, <2>4, Zenon DEF Reached
    <3>3. Reached' = adc_wp
      BY <3>1, <3>2, <1>1, SMT DEF CountersOK
    <3> QED
      BY <2>1, <2>2, <3>3, Zenon DEF At
  <2> QED
    BY <2>3, <2>4
<1> QED
  BY <1>3, <1>4

(* While the delay runs the trigger's position stays, and the last sample  *)
(* moves with the history.                                                 *)
LEMMA AtNext ==
    ASSUME TypeOK, Follows, At, Pointers, ~adc_rst_do, adc_dly_do,
           \/ after' = after + 1 /\ Written
           \/ after' = after /\ ~Written,
           blank' = blank
    PROVE  At'
<1>1. CountersOK /\ N \in Nat \ {0} /\ after \in Nat
  BY ScopeAssumption, AfterMaxBounds DEF TypeOK, HistoryOK
<1>2. adc_wp_trig' = adc_wp_trig
  BY PointerCases, Zenon
<1>3. CASE after' = after /\ ~Written
  <2>1. adc_wp_cur' = adc_wp_cur /\ adc_wp' = adc_wp
    BY <1>3, PointerCases, Zenon
  <2>2. Reached' = Reached
    BY <1>2, <1>3, Zenon DEF Reached
  <2> QED
    BY <1>3, <2>1, <2>2, Zenon DEF At
<1>4. CASE after' = after + 1 /\ Written
  <2>1. adc_wp_cur' = adc_wp /\ adc_wp' = (adc_wp + 1) % N
    BY <1>4, PointerCases, Zenon
  <2>2. after' > 0 /\ after' # 0
    BY <1>1, <1>4, SMT
  <2>3. adc_wp = Reached'
    <3>1. CASE after = 0
      <4>1. ~(after > 0)
        BY <3>1, SMT
      <4>2. adc_wp_cur = (adc_wp_trig + 0 - 0) % N
        BY <3>1, <4>1, Zenon DEF At, Reached
      <4>3. adc_wp_cur = adc_wp_trig
        BY <4>2, <1>1, SMT DEF CountersOK
      <4>4. CASE blank
        <5>1. Reached' = (adc_wp_trig + (0 + 1) - 1) % N
          BY <1>2, <1>4, <2>2, <3>1, <4>4, Zenon DEF Reached
        <5>2. adc_wp = adc_wp_cur
          BY <3>1, <4>4, Zenon DEF At
        <5> QED
          BY <5>1, <5>2, <4>3, <1>1, SMT DEF CountersOK
      <4>5. CASE ~blank
        <5>1. Reached' = (adc_wp_trig + (0 + 1) - 0) % N
          BY <1>2, <1>4, <3>1, <4>5, Zenon DEF Reached
        <5>2. adc_wp = (adc_wp_cur + 1) % N
          BY <3>1, <4>5, Zenon DEF At, Follows
        <5> QED
          BY <5>1, <5>2, <4>3, <1>1, SMT DEF CountersOK
      <4> QED
        BY <4>4, <4>5
    <3>2. CASE after # 0
      <4>1. after > 0
        BY <1>1, <3>2, SMT
      <4> DEFINE b == IF blank THEN 1 ELSE 0
                 x == adc_wp_trig + after - b
      <4>2. adc_wp = (adc_wp_cur + 1) % N
        BY <4>1 DEF At
      <4>3. adc_wp_cur = x % N
        BY <4>1, Zenon DEF At, Reached
      <4>4. Reached' = (adc_wp_trig + (after + 1) - b) % N
        BY <1>2, <1>4, <2>2, Zenon DEF Reached
      <4>5. b \in {0, 1}
        BY Zenon
      <4> HIDE DEF b
      <4>6. x \in Nat /\ adc_wp_trig + (after + 1) - b = x + 1
        BY <1>1, <4>1, <4>5, SMT DEF CountersOK
      <4> HIDE DEF x
      <4> QED
        BY <4>2, <4>3, <4>4, <4>6, PositionAfter, Zenon
    <3> QED
      BY <3>1, <3>2
  <2> QED
    BY <2>1, <2>2, <2>3, Zenon DEF At
<1> QED
  BY <1>3, <1>4

(* Told to trigger: the acquisition waits.                                 *)
LEMMA Told ==
    ASSUME NEW w, Clocked(w), w.reg = "trig_source", asked'
    PROVE  Waiting'
<1>1. History(w) /\ SelectTrigger(w)
  BY DEF Clocked, Edge
<1>2. w.value # "disabled" /\ adc_we' /\ ~adc_dly_do'
  BY <1>1, HistoryCases, Zenon
<1>3. set_trig_src' = w.value
  BY <1>1, Zenon DEF SelectTrigger
<1> QED
  BY <1>2, <1>3 DEF Waiting

(* What goes on with the trigger asked for, step by step.                  *)
LEMMA SourceStays ==
    ASSUME NEW w, SelectTrigger(w), w.reg # "trig_source", ~adc_rst_do
    PROVE  /\ Ends => set_trig_src' = "disabled"
           /\ ~Ends => set_trig_src' = set_trig_src
BY Zenon DEF SelectTrigger

LEMMA EnableCases ==
    ASSUME Enable, ~adc_arm_do, ~adc_rst_do, ~adc_we_keep
    PROVE  adc_we' <=> adc_we /\ ~Ends
BY Zenon DEF Enable

LEMMA FromWaiting ==
    ASSUME TypeOK, Follows, Waiting, NEW w, Clocked(w), w.reg # "trig_source",
           asked', ~adc_arm_do, ~adc_rst_do, ~adc_we_keep
    PROVE  (Waiting \/ Running \/ Ended)'
<1>1. CountersOK /\ SettingsOK /\ HistoryOK
  BY DEF TypeOK
<1>2. /\ History(w) /\ SelectTrigger(w) /\ Enable /\ Pointers /\ DelayAfterTrigger
  BY DEF Clocked, Edge
<1>3. adc_we /\ set_trig_src # "disabled" /\ ~adc_dly_do
  BY DEF Waiting
<1>4. CASE ~adc_trig
  <2>1. ~Ends
    BY <1>3, <1>4 DEF Ends
  <2>2. adc_we' /\ set_trig_src' # "disabled"
    BY <2>1, <1>2, <1>3, EnableCases, SourceStays, Zenon
  <2>3. ~adc_dly_do'
    BY <1>2, <1>3, <1>4, Zenon DEF DelayAfterTrigger
  <2> QED
    BY <2>2, <2>3 DEF Waiting
<1>5. CASE adc_trig
  <2>1. Fires
    BY <1>3, <1>5 DEF Fires
  <2>2. /\ \/ delay' = 0 /\ adc_dly_cnt = 0
           \/ delay' = set_dly /\ adc_dly_cnt # 0
        /\ \/ after' = 1 /\ Written
           \/ after' = 0 /\ ~Written
        /\ blank' = (adc_wp = adc_wp_cur)
    BY <2>1, <1>2, HistoryCases, Zenon
  <2>3. At'
    BY <2>2, <1>2, <1>3, <1>5, AtTrigger
  <2>4. CASE adc_dly_cnt = 0
    <3>1. Ends
      BY <1>5, <2>4 DEF Ends
    <3>2. ~adc_we' /\ set_trig_src' = "disabled"
      BY <3>1, <1>2, EnableCases, SourceStays, Zenon
    <3>3. delay' = 0 /\ (after' = 1 \/ after' = 0)
      BY <2>2, <2>4, Zenon
    <3>4. after' \in delay' .. delay' + 2
      BY <3>3, SMT
    <3> QED
      BY <3>2, <3>4, <2>3, Zenon DEF Ended
  <2>5. CASE adc_dly_cnt # 0
    <3>1. ~Ends
      BY <2>5 DEF Ends
    <3>2. adc_we' /\ set_trig_src' # "disabled"
      BY <3>1, <1>2, <1>3, EnableCases, SourceStays, Zenon
    <3>3. adc_dly_do'
      BY <1>2, <1>5, Zenon DEF DelayAfterTrigger
    <3>4. delay' = set_dly /\ adc_dly_cnt' = set_dly /\ (after' = 1 \/ after' = 0)
      BY <2>2, <2>5, <1>2, <1>3, DelayCases, Zenon
    <3>5. set_dly \in Nat
      BY <1>1, ScopeAssumption, SMT DEF SettingsOK
    <3>6. after' + adc_dly_cnt' \in delay' .. delay' + 1
      BY <3>4, <3>5, SMT
    <3> QED
      BY <3>2, <3>3, <3>6, <2>3, Zenon DEF Running
  <2> QED
    BY <2>4, <2>5
<1> QED
  BY <1>4, <1>5

LEMMA FromRunning ==
    ASSUME TypeOK, Follows, Running, NEW w, Clocked(w), w.reg # "trig_source",
           asked', ~adc_arm_do, ~adc_rst_do, ~adc_we_keep
    PROVE  (Running \/ Ended)'
<1>1. CountersOK /\ SettingsOK /\ HistoryOK
  BY DEF TypeOK
<1>2. /\ History(w) /\ SelectTrigger(w) /\ Enable /\ Pointers /\ DelayAfterTrigger
  BY DEF Clocked, Edge
<1>3. /\ adc_we /\ set_trig_src # "disabled" /\ adc_dly_do
      /\ after + adc_dly_cnt \in delay .. delay + 1 /\ At
  BY DEF Running
<1>4. /\ COUNTS \in Nat /\ after \in Nat /\ delay \in Nat /\ AfterMax \in Nat
      /\ adc_dly_cnt \in 0 .. COUNTS - 1
  BY <1>1, ScopeAssumption, AfterMaxBounds, SMT DEF CountersOK, HistoryOK
<1>5. after < AfterMax
  <2>1. delay + 3 <= AfterMax
    BY <1>1, AfterMaxBounds DEF HistoryOK
  <2> QED
    BY <2>1, <1>3, <1>4, SMT
<1>6. ~Fires
  BY <1>3 DEF Fires
<1>7. /\ \/ after' = after + 1 /\ Written
         \/ after' = after /\ ~Written
      /\ delay' = delay /\ blank' = blank
  BY <1>2, <1>5, <1>6, HistoryCases, Zenon
<1>8. At'
  BY <1>2, <1>3, <1>7, AtNext
<1>9. CASE adc_dly_cnt = 0
  <2>1. Ends
    BY <1>3, <1>9 DEF Ends
  <2>2. ~adc_we' /\ set_trig_src' = "disabled"
    BY <2>1, <1>2, EnableCases, SourceStays, Zenon
  <2>3. after' = after \/ after' = after + 1
    BY <1>7, Zenon
  <2>4. after' \in delay' .. delay' + 2
    BY <2>3, <1>3, <1>4, <1>7, <1>9, SMT
  <2> QED
    BY <2>2, <2>4, <1>8, Zenon DEF Ended
<1>10. CASE adc_dly_cnt # 0
  <2>1. ~Ends
    BY <1>10 DEF Ends
  <2>2. adc_we' /\ set_trig_src' # "disabled"
    BY <2>1, <1>2, <1>3, EnableCases, SourceStays, Zenon
  <2>3. adc_dly_do'
    BY <1>2, <1>3, <1>10, Zenon DEF DelayAfterTrigger
  <2>4. (adc_dly_cnt + COUNTS - 1) % COUNTS = adc_dly_cnt - 1
    BY <1>4, <1>10, LastOfDelay, ScopeAssumption
  <2>5. \/ after' = after + 1 /\ adc_dly_cnt' = adc_dly_cnt - 1
        \/ after' = after /\ adc_dly_cnt' = adc_dly_cnt
    BY <2>4, <1>2, <1>3, <1>7, DelayCases, Zenon
  <2>6. after' + adc_dly_cnt' \in delay' .. delay' + 1
    BY <2>5, <1>3, <1>4, <1>7, SMT
  <2> QED
    BY <2>2, <2>3, <2>6, <1>8, Zenon DEF Running
<1> QED
  BY <1>9, <1>10

LEMMA FromEnded ==
    ASSUME TypeOK, Ended, NEW w, Clocked(w), w.reg # "trig_source",
           asked', ~adc_arm_do, ~adc_rst_do, ~adc_we_keep
    PROVE  Ended'
<1>2. /\ History(w) /\ SelectTrigger(w) /\ Enable /\ Pointers /\ DelayAfterTrigger
  BY DEF Clocked, Edge
<1>3. /\ ~adc_we /\ set_trig_src = "disabled"
      /\ after \in delay .. delay + 2 /\ (adc_wp_cur = adc_wp_trig \/ At)
  BY DEF Ended
<1>4. ~Fires /\ ~Written
  BY <1>3 DEF Fires, Written
<1>5. after' = after /\ delay' = delay /\ blank' = blank
  BY <1>2, <1>4, HistoryCases, Zenon
<1>6. ~adc_we' /\ set_trig_src' = "disabled"
  BY <1>2, <1>3, EnableCases, SourceStays, Zenon
<1>7. adc_wp' = adc_wp /\ adc_wp_cur' = adc_wp_cur
  BY <1>2, <1>4, PointerCases, Zenon
<1>8. adc_wp_cur' = adc_wp_trig' \/ At'
  <2>1. CASE adc_trig /\ ~adc_dly_do
    BY <2>1, <1>2, <1>7, PointerCases, Zenon
  <2>2. CASE ~(adc_trig /\ ~adc_dly_do)
    <3>1. adc_wp_trig' = adc_wp_trig
      BY <2>2, <1>2, PointerCases, Zenon
    <3>2. Reached' = Reached
      BY <3>1, <1>5 DEF Reached
    <3> QED
      BY <3>1, <3>2, <1>3, <1>5, <1>7 DEF At
  <2> QED
    BY <2>1, <2>2
<1> QED
  BY <1>3, <1>5, <1>6, <1>8 DEF Ended

LEMMA ClockedPhases ==
    ASSUME TypeOK, Quiet, Follows, Phases, NEW w, Clocked(w)
    PROVE  Phases'
<1> SUFFICES ASSUME asked', ~adc_we_keep'
             PROVE  (Waiting \/ Running \/ Ended)'
  BY DEF Phases
<1>1. Edge(w) /\ History(w)
  BY DEF Clocked
<1>2. CASE w.reg = "trig_source"
  BY <1>2, Told
<1>3. CASE w.reg # "trig_source"
  <2>1. w.reg # "conf"
    BY <1>1, HistoryCases, Zenon
  <2>2. asked' = asked
    BY <1>1, <1>3, <2>1, HistoryCases, Zenon
  <2>3. ~adc_we_keep /\ ~adc_arm_do /\ ~adc_rst_do
    BY <1>1, <2>1, <2>2, PulsesOfConf DEF Quiet
  <2>4. Waiting \/ Running \/ Ended
    BY <2>2, <2>3 DEF Phases
  <2> QED
    BY <1>3, <2>3, <2>4, FromWaiting, FromRunning, FromEnded
<1> QED
  BY <1>2, <1>3

-----------------------------------------------------------------------------
(***************************************************************************)
(* The theorems.                                                           *)
(***************************************************************************)
LEMMA IInvInit == Init => IInv
<1> SUFFICES ASSUME Init PROVE IInv
  OBVIOUS
<1>1. /\ N \in Nat \ {0} /\ COUNTS \in Nat /\ COUNTS > N /\ 1 \in Decs
      /\ 0 \in 0 .. N - 1 /\ 0 \in 0 .. COUNTS - 1 /\ 0 \in 0 .. AfterMax
  BY ScopeAssumption, AfterMaxBounds, SMT
<1>2. SettingsOK /\ PulsesOK
  BY <1>1, Zenon DEF Init, ScopeInit, SettingsOK, PulsesOK, Sources
<1>3. CountersOK
  BY <1>1 DEF Init, ScopeInit, CountersOK
<1>4. HistoryOK
  BY <1>1, Zenon DEF Init, HistoryOK
<1>5. call \in [Procs -> Calls]
  BY DEF Init, Idle, Calls, ConfOps
<1>6. Quiet /\ Follows /\ Phases
  BY DEF Init, ScopeInit, Quiet, Follows, Phases
<1>7. PreTriggerIsThere
  BY DEF Init, ScopeInit, PreTriggerIsThere
<1> QED
  BY <1>2, <1>3, <1>4, <1>5, <1>6, <1>7 DEF IInv, TypeOK

LEMMA IInvNext == IInv /\ [Next]_vars => IInv'
<1> SUFFICES ASSUME IInv, [Next]_vars PROVE IInv'
  OBVIOUS
<1> USE DEF IInv
<1>1. CASE Next
  <2>1. PICK w : Clocked(w)
    BY <1>1, StepIsClocked
  <2>2. call' \in [Procs -> Calls]
    BY <1>1, StepIsClocked
  <2>3. TypeOK'
    BY <2>1, <2>2, ClockedSettings, ClockedCounters, ClockedHistory DEF TypeOK
  <2>4. Quiet' /\ Follows' /\ Phases' /\ PreTriggerIsThere'
    BY <2>1, ClockedQuiet, ClockedFollows, ClockedPhases, ClockedPreTrigger
  <2> QED
    BY <2>3, <2>4
<1>2. CASE UNCHANGED vars
  BY <1>2 DEF vars, scopeVars, callVars, TypeOK, SettingsOK, PulsesOK, CountersOK,
       HistoryOK, Quiet, Follows, Phases, Waiting, Running, Ended, At, Reached,
       PreTriggerIsThere
<1> QED
  BY <1>1, <1>2

(* The invariant of the acquisition: every register and every call has its *)
(* type; no start or reset is under way while a trigger is asked for; the  *)
(* pointers follow each other; an acquisition told to trigger waits, lets  *)
(* its delay run, or has ended.                                            *)
THEOREM InvariantHolds == Spec => []IInv
BY IInvInit, IInvNext, PTL DEF Spec

(* The registers keep to their widths, whatever is written and whenever.   *)
THEOREM TypeCorrect == Spec => []TypeOK
<1>1. IInv => TypeOK
  BY DEF IInv
<1> QED
  BY <1>1, InvariantHolds, PTL

(* A scope that was told to trigger and says TD (red_pitaya_scope.v) has   *)
(* stopped, with the samples of the delay and at most two more, for every  *)
(* ring and every delay.                                                   *)
THEOREM TdIsTrue == Spec => []TdMeansDone
<1>1. IInv => TdMeansDone
  <2> SUFFICES ASSUME IInv, Done
               PROVE  /\ ~adc_we
                      /\ after \in delay .. delay + 2
                      /\ adc_wp_cur \in {adc_wp_trig, Reached}
    BY DEF TdMeansDone
  <2>1. Ended
    BY DEF IInv, Done, Phases, Waiting, Running
  <2> QED
    BY <2>1 DEF Ended, At
<1> QED
  BY <1>1, InvariantHolds, PTL

(* The counter of the samples before the trigger claims none that were not *)
(* written since the start, except after a reset it counted through.       *)
THEOREM PreTriggerSamplesAreThere == Spec => []PreTriggerIsThere
<1>1. IInv => PreTriggerIsThere
  BY DEF IInv
<1> QED
  BY <1>1, InvariantHolds, PTL
=============================================================================
