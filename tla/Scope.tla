--------------------------------- MODULE Scope ---------------------------------
(***************************************************************************)
(* The acquisition of red_pitaya_scope (fpga/rtl/classic/                  *)
(* red_pitaya_scope.v): decimation, the write side of the ring of samples, *)
(* the trigger selector and the registers software sees of them.  A step is*)
(* one clock edge, on which software may write one register.  The samples  *)
(* themselves are not looked at; an edge of whatever signal the trigger    *)
(* source selects comes when it likes.                                     *)
(***************************************************************************)
EXTENDS Naturals

CONSTANTS
    N,          \* 2^RSZ, the positions of the ring
    COUNTS,     \* 2^32, the values of the counters
    Decs,       \* the decimations
    Delays      \* the delays, in samples after the trigger

ASSUME ScopeAssumption ==
    /\ N \in Nat \ {0}
    /\ COUNTS \in Nat /\ COUNTS > N
    /\ 1 \in Decs /\ Decs \subseteq Nat \ {0}
    /\ N \div 2 \in Delays /\ Delays \subseteq 0 .. COUNTS - 2

(* set_trig_src: off, by software, or by an edge of one of the signals.    *)
Sources == {"disabled", "now", "edge"}

VARIABLES
    set_dec, set_dly, set_trig_src, adc_we_keep,    \* the settings
    adc_arm_do, adc_rst_do, adc_trig_sw,            \* pulses of one clock
    edge,                                           \* adc_trig_ap and the like
    adc_trig,
    adc_dec_cnt, adc_dv,                            \* a sample is there
    adc_we,                                         \* the ring is written
    adc_we_cnt,                                     \* samples before the trigger
    adc_wp, adc_wp_cur, adc_wp_trig,                \* positions in the ring
    adc_dly_cnt, adc_dly_do                         \* the delay runs

scopeVars == <<set_dec, set_dly, set_trig_src, adc_we_keep, adc_arm_do,
               adc_rst_do, adc_trig_sw, edge, adc_trig, adc_dec_cnt, adc_dv,
               adc_we, adc_we_cnt, adc_wp, adc_wp_cur, adc_wp_trig,
               adc_dly_cnt, adc_dly_do>>

-----------------------------------------------------------------------------
(* What software writes on a clock: nothing, or one register.              *)
NoWrite == [reg |-> "none", value |-> 0]
Conf(arm, rst, keep) ==
    [reg |-> "conf", value |-> [arm |-> arm, rst |-> rst, keep |-> keep]]
TrigSrc(source) == [reg |-> "trig_source", value |-> source]
Delay(n) == [reg |-> "trigger_delay", value |-> n]
Dec(n) == [reg |-> "data_dec", value |-> n]

(* A sample goes into the ring on this clock. *)
Written == adc_we /\ adc_dv

(* Fault: the delay ends one sample early. *)
Ends_early == (adc_dly_do \/ adc_trig) /\ adc_dly_cnt \in {0, 1}

(* The delay after a trigger is over. *)
Ends == (adc_dly_do \/ adc_trig) /\ adc_dly_cnt = 0

Decimate ==
    /\ adc_dec_cnt' = IF adc_dec_cnt >= set_dec \/ adc_arm_do
                      THEN 1 ELSE adc_dec_cnt + 1
    /\ adc_dv' = (adc_dec_cnt >= set_dec)

Enable ==
    adc_we' = \/ adc_arm_do
              \/ adc_we /\ ~(Ends /\ ~adc_we_keep) /\ ~adc_rst_do

(* Fault: the counter is not reset by a start. *)
CountBeforeTrigger_kept ==
    adc_we_cnt' = IF Written /\ ~adc_dly_do /\ adc_we_cnt # COUNTS - 1
                  THEN adc_we_cnt + 1
                  ELSE IF adc_rst_do THEN 0 ELSE adc_we_cnt

(* A sample that is counted on the clock of a reset or of a start takes    *)
(* precedence over it.                                                     *)
CountBeforeTrigger ==
    adc_we_cnt' = IF Written /\ ~adc_dly_do /\ adc_we_cnt # COUNTS - 1
                  THEN adc_we_cnt + 1
                  ELSE IF adc_rst_do \/ adc_arm_do THEN 0 ELSE adc_we_cnt

Pointers ==
    /\ adc_wp' = CASE adc_rst_do -> 0
                   [] ~adc_rst_do /\ Written -> (adc_wp + 1) % N
                   [] OTHER -> adc_wp
    /\ adc_wp_cur' = CASE adc_rst_do -> 0
                       [] ~adc_rst_do /\ Written -> adc_wp
                       [] OTHER -> adc_wp_cur
    /\ adc_wp_trig' = CASE adc_rst_do -> 0
                        [] ~adc_rst_do /\ adc_trig /\ ~adc_dly_do -> adc_wp_cur
                        [] OTHER -> adc_wp_trig

(* The counter of the delay wraps if its last sample is written after zero.*)
DelayAfterTrigger ==
    /\ adc_dly_do' = \/ adc_trig
                     \/ adc_dly_do /\ adc_dly_cnt # 0 /\ ~adc_rst_do /\ ~adc_arm_do
    /\ adc_dly_cnt' = CASE adc_dly_do /\ Written -> (adc_dly_cnt + COUNTS - 1) % COUNTS
                        [] ~adc_dly_do -> set_dly
                        [] OTHER -> adc_dly_cnt

(* Fault: the pulse of software comes before the source lets it through.   *)
SelectTrigger_lost(w) ==
    /\ set_trig_src' = CASE w.reg = "trig_source" -> w.value
                         [] w.reg # "trig_source" /\ (Ends \/ adc_rst_do) -> "disabled"
                         [] OTHER -> set_trig_src
    /\ adc_trig_sw' = (w = TrigSrc("now"))
    /\ edge' \in IF edge \/ set_trig_src' # "edge" THEN {FALSE} ELSE BOOLEAN
    /\ adc_trig' = CASE set_trig_src = "now" -> w = TrigSrc("now")
                     [] set_trig_src = "edge" -> edge
                     [] set_trig_src = "disabled" -> FALSE

(* The trigger selector.  An edge is a pulse of one clock; one that the    *)
(* selector does not look at is left out.                                  *)
SelectTrigger(w) ==
    /\ set_trig_src' = CASE w.reg = "trig_source" -> w.value
                         [] w.reg # "trig_source" /\ (Ends \/ adc_rst_do) -> "disabled"
                         [] OTHER -> set_trig_src
    /\ adc_trig_sw' = (w = TrigSrc("now"))
    /\ edge' \in IF edge \/ set_trig_src' # "edge" THEN {FALSE} ELSE BOOLEAN
    /\ adc_trig' = CASE set_trig_src = "now" -> adc_trig_sw
                     [] set_trig_src = "edge" -> edge
                     [] set_trig_src = "disabled" -> FALSE

Registers(w) ==
    /\ adc_arm_do' = (w.reg = "conf" /\ w.value.arm)
    /\ adc_rst_do' = (w.reg = "conf" /\ w.value.rst)
    /\ adc_we_keep' = IF w.reg = "conf" THEN w.value.keep ELSE adc_we_keep
    /\ set_dly' = IF w.reg = "trigger_delay" THEN w.value ELSE set_dly
    /\ set_dec' = IF w.reg = "data_dec" THEN w.value ELSE set_dec

Edge(w) ==
    /\ Decimate /\ Enable /\ CountBeforeTrigger /\ Pointers
    /\ DelayAfterTrigger /\ SelectTrigger(w) /\ Registers(w)

(* After the reset of the gateware. *)
ScopeInit ==
    /\ set_dec = 1 /\ set_dly = 0 /\ set_trig_src = "disabled" /\ adc_we_keep = FALSE
    /\ adc_arm_do = FALSE /\ adc_rst_do = FALSE /\ adc_trig_sw = FALSE
    /\ edge = FALSE /\ adc_trig = FALSE
    /\ adc_dec_cnt = 0 /\ adc_dv = FALSE
    /\ adc_we = FALSE /\ adc_we_cnt = 0
    /\ adc_wp = 0 /\ adc_wp_cur = 0 /\ adc_wp_trig = 0
    /\ adc_dly_cnt = 0 /\ adc_dly_do = FALSE
=============================================================================
