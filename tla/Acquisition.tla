------------------------------ MODULE Acquisition ------------------------------
(***************************************************************************)
(* The acquisition as the API drives it (api/src/acq_handler.c,            *)
(* api/src/oscilloscope.c): processes that start, stop, reset and trigger  *)
(* the scope.  A call is a few accesses to its registers; a bit of conf is *)
(* changed by a load and a store, as in LockboxConfig.  An access takes    *)
(* several clocks: no pulse of the one before is still under way.          *)
(***************************************************************************)
EXTENDS Scope, FiniteSetsExt

CONSTANT Procs      \* SCPI children, the statistics thread of the monitor

VARIABLES
    call,       \* what each process is doing
    asked,      \* history: told to trigger while it ran, and no conf since
    after,      \* history: samples written after that of the trigger
    delay,      \* history: the delay in force when the trigger came
    blank,      \* history: no sample since the reset when the trigger came
    run,        \* history: samples written in one go
    misled      \* history: the counter went on over a reset

callVars == <<call, asked, after, delay, blank, run, misled>>
vars == <<scopeVars, callVars>>

-----------------------------------------------------------------------------
Idle == [pc |-> "idle", op |-> "none", we |-> FALSE, keep |-> FALSE]

(* osc_WriteDataIntoMemory, osc_ResetWriteStateMachine, osc_SetArmKeep.    *)
ConfOps == {"start", "stop", "reset", "keep", "unkeep"}

(* What a call stores in conf: the bits it loaded with its own changed.    *)
(* The bit that starts the scope reads as adc_we: to store it set starts   *)
(* anew, to store it cleared does nothing.                                 *)
Changed(op, q) ==
    Conf(CASE op = "start" -> TRUE
           [] op = "stop"  -> FALSE
           [] OTHER        -> q.we,
         op = "reset",
         CASE op = "keep" -> TRUE [] op = "unkeep" -> FALSE [] OTHER -> q.keep)

(* The trigger is taken: its position is saved. *)
Fires == adc_trig /\ ~adc_dly_do /\ (adc_we \/ adc_arm_do)

(* No more samples than these are counted. *)
AfterMax == Max(Delays) + 3

(* What the history says of the trigger matters while it is asked for.     *)
TriggerHistory ==
    \/ /\ ~asked'
       /\ delay' = 0 /\ after' = 0 /\ blank' = FALSE
    \/ /\ asked' /\ Fires
       /\ delay' = IF adc_dly_cnt = 0 THEN 0 ELSE set_dly
       /\ after' = IF Written THEN 1 ELSE 0
       /\ blank' = (adc_wp = adc_wp_cur)
    \/ /\ asked' /\ ~Fires
       /\ after' = IF Written /\ after < AfterMax THEN after + 1 ELSE after
       /\ UNCHANGED <<delay, blank>>

History(w) ==
    /\ asked' = CASE w.reg = "trig_source" -> w.value # "disabled" /\ adc_we' /\ ~adc_dly_do'
                  [] w.reg = "conf"        -> FALSE
                  [] OTHER                 -> asked
    /\ TriggerHistory
    /\ run' = CASE adc_rst_do \/ (adc_arm_do /\ ~adc_we) -> 0
                [] ~adc_rst_do /\ Written /\ run < COUNTS - 1 -> run + 1
                [] OTHER -> run
    /\ misled' = (adc_we_cnt' # 0 /\ (misled \/ adc_rst_do))

(* The pulses of an access are over when the next begins. *)
Access(w) ==
    /\ ~adc_arm_do /\ ~adc_rst_do /\ ~adc_trig_sw
    /\ Edge(w) /\ History(w)

(* No access on this clock. *)
Tick == Edge(NoWrite) /\ History(NoWrite) /\ UNCHANGED call

(* acq_SetTriggerSrc, acq_SetTriggerDelay: one store.                      *)
Store(p, w) ==
    /\ call[p] = Idle
    /\ Access(w)
    /\ UNCHANGED call

SetTriggerSrc(p) == \E source \in Sources : Store(p, TrigSrc(source))
SetTriggerDelay(p) == \E n \in Delays : Store(p, Delay(n))

(* acq_SetDecimation stores, and then, if the delay was given in           *)
(* nanoseconds, the delay that makes at the new decimation; a call of a    *)
(* reset goes on with the next setting.                                    *)
SetDecimation(p) ==
    \/ /\ call[p] = Idle
       /\ \E n \in Decs : Access(Dec(n))
       /\ \E pc \in {"idle", "delay_ns"} :
             call' = [call EXCEPT ![p].pc = pc]
    \/ /\ call[p].pc = "delay_ns"
       /\ \E n \in Delays : Access(Delay(n))
       /\ call' = [call EXCEPT ![p] =
                     IF @.op = "reset" THEN [@ EXCEPT !.pc = "trig_source"] ELSE Idle]

(* acq_Reset, first acq_SetDefault: decimation, with the delay if it was   *)
(* given in nanoseconds, trigger source, delay.  The settings it repeats,  *)
(* and those that are not modelled, are left out.                          *)
Defaults ==
    [data_dec |-> Dec(1), trig_source |-> TrigSrc("disabled"),
     trigger_delay |-> Delay(N \div 2)]

SetDefault(p) ==
    \/ /\ call[p] = Idle
       /\ Access(Defaults.data_dec)
       /\ \E pc \in {"delay_ns", "trig_source"} :
             call' = [call EXCEPT ![p] = [Idle EXCEPT !.pc = pc, !.op = "reset"]]
    \/ /\ call[p].pc \in {"trig_source", "trigger_delay"}
       /\ Access(Defaults[call[p].pc])
       /\ call' = [call EXCEPT ![p].pc =
                     IF @ = "trig_source" THEN "trigger_delay" ELSE "load"]

(* The load of conf.  acq_Start, acq_Stop and acq_SetArmKeep begin with it.*)
LoadConf(p) ==
    /\ Access(NoWrite)
    /\ \E op \in ConfOps :
          /\ \/ call[p] = Idle /\ op # "reset"
             \/ call[p].pc = "load" /\ op = "reset"
          /\ call' = [call EXCEPT ![p] =
                        [pc |-> "store", op |-> op, we |-> adc_we, keep |-> adc_we_keep]]

(* Its store. *)
StoreConf(p) ==
    /\ call[p].pc = "store"
    /\ Access(Changed(call[p].op, call[p]))
    /\ call' = [call EXCEPT ![p] = Idle]

Next ==
    \/ Tick
    \/ \E p \in Procs : \/ SetTriggerSrc(p) \/ SetTriggerDelay(p) \/ SetDecimation(p)
                        \/ SetDefault(p) \/ LoadConf(p) \/ StoreConf(p)

Init ==
    /\ ScopeInit
    /\ call = [p \in Procs |-> Idle]
    /\ asked = FALSE /\ after = 0 /\ delay = 0 /\ blank = FALSE /\ run = 0
    /\ misled = FALSE

Spec == Init /\ [][Next]_vars

(* The clock runs on, and no access takes every edge of it. *)
FairSpec == Spec /\ WF_vars(Tick)
-----------------------------------------------------------------------------
(***************************************************************************)
(* Properties.                                                             *)
(***************************************************************************)

(* "ACQ:TRIG:STAT? ... If DISABLED -> TD else WAIT"                        *)
(* (doc/SCPI_commands.rst): the scope was told to trigger, and says TD.    *)
Done == asked /\ set_trig_src = "disabled" /\ ~adc_we_keep

(* Where the last sample is, counted from the trigger.  The first sample   *)
(* after a reset is written at the position the reset left.                *)
Reached == (adc_wp_trig + after - (IF blank /\ after > 0 THEN 1 ELSE 0)) % N

(* TD means that the ring stands still, with the samples of the delay      *)
(* after the trigger: those, and up to two that were under way.  The       *)
(* position saved is that of the trigger, or, of an edge on the last clock,*)
(* the end.                                                                *)
TdMeansDone ==
    Done => /\ ~adc_we
            /\ after \in delay .. delay + 2
            /\ adc_wp_cur \in {adc_wp_trig, Reached}

(* The counter of the samples before the trigger never claims more than    *)
(* were written since the start, or since a reset moved the pointer, unless*)
(* it was counting in the clock of the reset.                              *)
PreTriggerIsThere == misled \/ adc_we_cnt <= run

(* A running acquisition that is told to trigger at once says TD, or is    *)
(* told something else.                                                    *)
TriggerEndsIt ==
    (asked /\ set_trig_src = "now" /\ ~adc_trig_sw)
        ~> (~asked \/ set_trig_src # "now" \/ adc_trig_sw)
=============================================================================
