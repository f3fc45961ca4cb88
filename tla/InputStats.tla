----------------------------- MODULE InputStats -----------------------------
(***************************************************************************)
(* The input statistics of the lockbox monitor daemon: the statistics      *)
(* thread, which owns the scope, pools buffers of samples into windows and *)
(* stages them; the poll thread, which takes what is staged without ever   *)
(* waiting; the consumers, which request another decimation through a word *)
(* of the shared block; and the settings file that keeps the decimation    *)
(* (monitor/src/lockbox-monitor.c, api/src/monitor.c).                     *)
(*                                                                         *)
(* A buffer is known by the decimation the scope had when it was taken;    *)
(* statistics are known by the decimations and number of the buffers they  *)
(* were computed from.                                                     *)
(***************************************************************************)
EXTENDS Integers, FiniteSets

CONSTANTS
    Decs,               \* the valid decimations
    Default,            \* the one used without a settings file
    BuffersPerWindow,   \* buffers that make up a window, per decimation
    Channels,           \* LOCKBOX_MONITOR_INPUTS fast inputs
    Consumers,          \* processes that may request a decimation
    MaxRequests,        \* bound on the requests
    MaxStarts,          \* bound on the daemon's starts
    MaxCrashes          \* bound on its crashes

ASSUME DecsAssumption == IsFiniteSet(Decs) /\ 0 \notin Decs /\ Default \in Decs
ASSUME WindowAssumption == BuffersPerWindow \in [Decs -> Nat \ {0}]
ASSUME BoundAssumption == {MaxRequests, MaxStarts, MaxCrashes} \subseteq Nat

(* What a channel's entry of the block says: the statistics of n buffers   *)
(* taken at the decimations `over`, and the decimation it is labelled with.*)
NoWindow == [over |-> {}, n |-> 0, decimation |-> 0]
NoSamples == [over |-> {}, n |-> 0]

VARIABLES
    life,           \* the daemon: "down", "up" or "stopping"
    starts, crashes,
    conf,           \* the settings file, 0 = absent
    gen,            \* the block linked under the name, counted; 0 = none
    req,            \* stats_decimation_request of that block
    opts,           \* opts.stats_decimation
    holder,         \* staging.lock: the thread that holds it, or "none"
    staged,         \* staging.inputs
    fresh,          \* staging.fresh
    inputs,         \* work.inputs, which the poll thread publishes
    pc,             \* what the statistics thread does next
    request,        \* its local variables
    dec, acc, buffers,
    filled,         \* the channels its loop over the channels has done
    scope,          \* the decimation register of the scope
    cpc,            \* what a consumer does next
    cdec, cgen,     \* the decimation it requests, the block it has opened
    requests,       \* requests begun so far
    failed          \* history: the last save_conf of this daemon failed

daemon == <<life, starts, crashes>>
shared == <<holder, staged, fresh, inputs>>
thread == <<opts, pc, request, dec, acc, buffers, filled, scope>>
consumer == <<cpc, cdec, cgen, requests>>
vars == <<daemon, conf, gen, req, shared, thread, consumer, failed>>

-----------------------------------------------------------------------------
Init ==
    /\ life = "down" /\ starts = 0 /\ crashes = 0
    /\ conf \in {0, Default}
    /\ gen = 0 /\ req = 0 /\ opts = Default
    /\ holder = "none" /\ fresh = FALSE
    /\ staged = [ch \in Channels |-> NoWindow]
    /\ inputs = [ch \in Channels |-> NoWindow]
    /\ pc = "done" /\ request = 0 /\ dec = 0 /\ buffers = 0 /\ filled = {}
    /\ acc = [ch \in Channels |-> NoSamples]
    /\ scope = 0
    /\ cpc = [c \in Consumers |-> "idle"]
    /\ cdec = [c \in Consumers |-> 0]
    /\ cgen = [c \in Consumers |-> 0]
    /\ requests = 0 /\ failed = FALSE

(***************************************************************************)
(* The daemon's life.                                                      *)
(***************************************************************************)

(* parse_options and load_conf, create_block (which zeroes the request     *)
(* word of a block that a crash has left), the first publish, and the      *)
(* statistics thread.                                                      *)
Start ==
    /\ life = "down" /\ starts < MaxStarts
    /\ life' = "up" /\ starts' = starts + 1
    /\ opts' = IF conf \in Decs THEN conf ELSE Default
    /\ gen' = IF gen = 0 THEN starts' ELSE gen
    /\ req' = 0
    /\ holder' = "none" /\ fresh' = FALSE
    /\ staged' = [ch \in Channels |-> NoWindow]
    /\ inputs' = [ch \in Channels |-> NoWindow]
    /\ pc' = "loop" /\ dec' = 0 /\ buffers' = 0
    /\ failed' = FALSE
    /\ UNCHANGED <<crashes, conf, request, acc, filled, scope, consumer>>

(* on_signal; the poll loop ends, the thread is woken and joined. *)
Signal ==
    /\ life = "up"
    /\ life' = "stopping"
    /\ UNCHANGED <<starts, crashes, conf, gen, req, shared, thread, consumer, failed>>

(* After the join: the last publish and shm_unlink. *)
Exit ==
    /\ life = "stopping" /\ pc = "done"
    /\ life' = "down" /\ gen' = 0 /\ req' = 0
    /\ UNCHANGED <<starts, crashes, conf, shared, thread, consumer, failed>>

Crash ==
    /\ life # "down" /\ crashes < MaxCrashes
    /\ life' = "down" /\ crashes' = crashes + 1 /\ pc' = "done"
    /\ UNCHANGED <<starts, conf, gen, req, shared, opts, request, dec, acc,
                   buffers, filled, scope, consumer, failed>>

-----------------------------------------------------------------------------
(***************************************************************************)
(* stats_thread.                                                           *)
(***************************************************************************)
outside == <<daemon, gen, consumer, inputs>>

(* Fault: a request in the middle of a window is taken and dropped. *)
Loop_drops ==
    /\ pc = "loop"
    /\ IF life = "stopping"
       THEN pc' = "done" /\ UNCHANGED <<request, req>>
       ELSE /\ request' = IF req \in Decs /\ buffers = 0 THEN req ELSE 0
            /\ req' = 0
            /\ pc' = IF request' \notin {0, dec} THEN "save"
                     ELSE IF dec = 0 \/ request' # 0 THEN "configure" ELSE "start"
    /\ UNCHANGED <<outside, conf, opts, dec, acc, buffers, filled, scope,
                   holder, staged, fresh, failed>>

(* The head of the loop: the stop flag, then the atomic exchange of the    *)
(* request word.                                                           *)
Loop ==
    /\ pc = "loop"
    /\ IF life = "stopping"
       THEN pc' = "done" /\ UNCHANGED <<request, req>>
       ELSE /\ request' = IF req \in Decs THEN req ELSE 0
            /\ req' = 0
            /\ pc' = IF request' \notin {0, dec} THEN "save"
                     ELSE IF dec = 0 \/ request' # 0 THEN "configure" ELSE "start"
    /\ UNCHANGED <<outside, conf, opts, dec, acc, buffers, filled, scope,
                   holder, staged, fresh, failed>>

(* Fault: the settings file is not written. *)
Save_nothing ==
    /\ pc = "save"
    /\ opts' = request
    /\ pc' = "configure"
    /\ UNCHANGED <<outside, conf, req, request, dec, acc, buffers, filled, scope,
                   holder, staged, fresh, failed>>

(* A new decimation goes to opts, then through a file beside it to the     *)
(* settings file.                                                          *)
Save ==
    /\ pc = "save"
    /\ opts' = request
    /\ pc' = "rename"
    /\ UNCHANGED <<outside, conf, req, request, dec, acc, buffers, filled, scope,
                   holder, staged, fresh, failed>>

(* The file stays as it was if the one beside it cannot be opened or       *)
(* renamed.  Whether it was written is not looked at: one that was not     *)
(* holds nothing, or the beginning of a number that is no decimation, and  *)
(* replaces the settings file all the same.                                *)
Rename ==
    /\ pc = "rename"
    /\ \/ conf' = opts /\ failed' = FALSE
       \/ conf' \in {conf, 0} /\ failed' = TRUE
    /\ pc' = "configure"
    /\ UNCHANGED <<outside, opts, req, request, dec, acc, buffers, filled, scope,
                   holder, staged, fresh>>

(* Fault: the samples of the window given up are kept. *)
Configure_keeps_samples ==
    /\ pc = "configure"
    /\ dec' = IF request # 0 THEN request ELSE opts
    /\ scope' = dec'
    /\ buffers' = 0
    /\ pc' = "stage"
    /\ UNCHANGED <<outside, conf, opts, req, request, acc, filled, holder, staged,
                   fresh, failed>>

(* The scope gets the decimation; the window under way is given up. *)
Configure ==
    /\ pc = "configure"
    /\ dec' = IF request # 0 THEN request ELSE opts
    /\ scope' = dec'
    /\ acc' = [ch \in Channels |-> NoSamples]
    /\ buffers' = 0
    /\ pc' = "stage"
    /\ UNCHANGED <<outside, conf, opts, req, request, filled, holder, staged,
                   fresh, failed>>

(* stage_decimation and the end of a window both lock the staging area and *)
(* go through the channels.                                                *)
Lock(from, to) ==
    /\ pc = from /\ holder = "none"
    /\ holder' = "stats" /\ filled' = {}
    /\ pc' = to
    /\ UNCHANGED <<outside, conf, opts, req, request, dec, acc, buffers, scope,
                   staged, fresh, failed>>

(* Fault: the lock is not released. *)
Unlock_forgotten(from, to) ==
    /\ pc = from /\ filled = Channels
    /\ fresh' = TRUE
    /\ pc' = to
    /\ UNCHANGED <<outside, conf, opts, req, request, dec, acc, filled, scope,
                   holder, staged, failed>>

Unlock(from, to) ==
    /\ pc = from /\ filled = Channels
    /\ fresh' = TRUE /\ holder' = "none"
    /\ pc' = to
    /\ UNCHANGED <<outside, conf, opts, req, request, dec, acc, filled, scope,
                   staged, failed>>

StageLock == Lock("stage", "staging")

(* The new decimation is staged next to the statistics of the last window. *)
Stage ==
    /\ pc = "staging"
    /\ \E ch \in Channels \ filled :
          /\ staged' = [staged EXCEPT ![ch].decimation = dec]
          /\ filled' = filled \cup {ch}
    /\ UNCHANGED <<outside, conf, opts, req, pc, request, dec, acc, buffers, scope,
                   holder, fresh, failed>>

StageUnlock == Unlock("staging", "start") /\ UNCHANGED buffers

(* rp_AcqStart and the sleep while the scope fills its ring. *)
AcqStart ==
    /\ pc = "start"
    /\ pc' = "sleep"
    /\ UNCHANGED <<outside, conf, opts, req, request, dec, acc, buffers, filled,
                   scope, holder, staged, fresh, failed>>

(* Fault: one buffer too many. *)
Read_one_more ==
    /\ pc = "sleep"
    /\ IF life = "stopping"
       THEN pc' = "done" /\ UNCHANGED <<acc, buffers>>
       ELSE /\ acc' = [ch \in Channels |->
                         [over |-> acc[ch].over \cup {scope}, n |-> acc[ch].n + 1]]
            /\ buffers' = buffers + 1
            /\ pc' = IF buffers' <= BuffersPerWindow[dec] THEN "loop" ELSE "window"
    /\ UNCHANGED <<outside, conf, opts, req, request, dec, filled, scope, holder,
                   staged, fresh, failed>>

(* The sleep ends, by itself or by a signal; the buffer of every channel   *)
(* is accumulated.                                                         *)
Read ==
    /\ pc = "sleep"
    /\ IF life = "stopping"
       THEN pc' = "done" /\ UNCHANGED <<acc, buffers>>
       ELSE /\ acc' = [ch \in Channels |->
                         [over |-> acc[ch].over \cup {scope}, n |-> acc[ch].n + 1]]
            /\ buffers' = buffers + 1
            /\ pc' = IF buffers' < BuffersPerWindow[dec] THEN "loop" ELSE "window"
    /\ UNCHANGED <<outside, conf, opts, req, request, dec, filled, scope, holder,
                   staged, fresh, failed>>

WindowLock == Lock("window", "filling")

(* acc_finish, with the decimation of the window.  Fault: the decimation   *)
(* of the request, which is over by then.                                  *)
finish_with_request(ch) ==
    [over |-> acc[ch].over, n |-> acc[ch].n, decimation |-> request]
finish(ch) == [over |-> acc[ch].over, n |-> acc[ch].n, decimation |-> dec]

(* The window is complete: its statistics, one channel after the other. *)
Fill ==
    /\ pc = "filling"
    /\ \E ch \in Channels \ filled :
          /\ staged' = [staged EXCEPT ![ch] = finish(ch)]
          /\ acc' = [acc EXCEPT ![ch] = NoSamples]
          /\ filled' = filled \cup {ch}
    /\ UNCHANGED <<outside, conf, opts, req, pc, request, dec, buffers, scope,
                   holder, fresh, failed>>

WindowUnlock == Unlock("filling", "loop") /\ buffers' = 0

StatsThread ==
    \/ Loop \/ Save \/ Rename \/ Configure
    \/ StageLock \/ Stage \/ StageUnlock
    \/ AcqStart \/ Read \/ WindowLock \/ Fill \/ WindowUnlock

(* Fault: the lock is not tried. *)
TakeStats_unlocked ==
    /\ life = "up" /\ fresh
    /\ inputs' = staged
    /\ fresh' = FALSE
    /\ UNCHANGED <<daemon, conf, gen, req, thread, consumer, holder, staged, failed>>

(* take_stats: the poll thread takes what is fresh if the lock is free.    *)
TakeStats ==
    /\ life = "up" /\ holder = "none" /\ fresh
    /\ inputs' = staged
    /\ fresh' = FALSE
    /\ UNCHANGED <<daemon, conf, gen, req, thread, consumer, holder, staged, failed>>

-----------------------------------------------------------------------------
(***************************************************************************)
(* mon_SetStatsDecimation: only a running monitor takes requests; then the *)
(* block is opened by its name and its request word is stored.  A block    *)
(* that a crash has left looks alive for a while.                          *)
(***************************************************************************)
Check(c) ==
    /\ cpc[c] = "idle" /\ requests < MaxRequests
    /\ gen # 0
    /\ \E d \in Decs : cdec' = [cdec EXCEPT ![c] = d]
    /\ cpc' = [cpc EXCEPT ![c] = "open"]
    /\ requests' = requests + 1
    /\ UNCHANGED <<daemon, conf, gen, req, shared, thread, cgen, failed>>

OpenBlock(c) ==
    /\ cpc[c] = "open"
    /\ cgen' = [cgen EXCEPT ![c] = gen]
    /\ cpc' = [cpc EXCEPT ![c] = IF gen = 0 THEN "idle" ELSE "put"]
    /\ UNCHANGED <<daemon, conf, gen, req, shared, thread, cdec, requests, failed>>

(* The store reaches the daemon only if its block is still the linked one. *)
Put(c) ==
    /\ cpc[c] = "put"
    /\ req' = IF cgen[c] = gen THEN cdec[c] ELSE req
    /\ cpc' = [cpc EXCEPT ![c] = "idle"]
    /\ UNCHANGED <<daemon, conf, gen, shared, thread, cdec, cgen, requests, failed>>

Next ==
    \/ Start \/ Signal \/ Exit \/ Crash
    \/ StatsThread \/ TakeStats
    \/ \E c \in Consumers : Check(c) \/ OpenBlock(c) \/ Put(c)

Spec == Init /\ [][Next]_vars

(* The scheduler runs both threads of the daemon; a buffer's sleep ends;   *)
(* the main thread joins the statistics thread.  The poll thread never     *)
(* waits for the lock: it tries again at every poll, so it is only         *)
(* strongly fair.                                                          *)
Fairness == WF_vars(StatsThread) /\ SF_vars(TakeStats) /\ WF_vars(Exit)

FairSpec == Spec /\ Fairness

-----------------------------------------------------------------------------
(***************************************************************************)
(* Properties.                                                             *)
(***************************************************************************)
MaxBuffers == CHOOSE m \in {BuffersPerWindow[d] : d \in Decs} :
                 \A d \in Decs : BuffersPerWindow[d] <= m
Samples == [over : SUBSET Decs, n : 0 .. MaxBuffers]
Window == [over : SUBSET Decs, n : 0 .. MaxBuffers, decimation : Decs \cup {0}]

TypeOK ==
    /\ life \in {"down", "up", "stopping"}
    /\ starts \in 0 .. MaxStarts /\ crashes \in 0 .. MaxCrashes
    /\ conf \in Decs \cup {0} /\ gen \in 0 .. MaxStarts
    /\ req \in Decs \cup {0} /\ opts \in Decs
    /\ holder \in {"none", "stats"} /\ fresh \in BOOLEAN
    /\ staged \in [Channels -> Window] /\ inputs \in [Channels -> Window]
    /\ pc \in {"loop", "save", "rename", "configure", "stage", "staging", "start",
               "sleep", "window", "filling", "done"}
    /\ request \in Decs \cup {0} /\ dec \in Decs \cup {0}
    /\ acc \in [Channels -> Samples] /\ buffers \in 0 .. MaxBuffers
    /\ filled \subseteq Channels /\ scope \in Decs \cup {0}
    /\ cpc \in [Consumers -> {"idle", "open", "put"}]
    /\ cdec \in [Consumers -> Decs \cup {0}] /\ cgen \in [Consumers -> 0 .. MaxStarts]
    /\ requests \in 0 .. MaxRequests /\ failed \in BOOLEAN

(* A published window is pooled from buffers of one decimation only, and   *)
(* from as many as make up a window: a request in the middle of a window   *)
(* gives that window up.                                                   *)
WindowsArePure ==
    \A ch \in Channels :
       LET in == inputs[ch]
       IN  in.n > 0 => \E d \in Decs : in.over = {d} /\ in.n = BuffersPerWindow[d]

(* The two channels are published together: the poll thread never sees a   *)
(* window that the statistics thread has filled for one of them only.      *)
ChannelsArePublishedTogether ==
    \A c1, c2 \in Channels : inputs[c1] = inputs[c2]

(* The label of a window catches up with its samples: between a            *)
(* reconfiguration and the first window after it they disagree, and with   *)
(* finitely many requests that window comes.                               *)
LabelCatchesUp ==
    \A ch \in Channels :
       (life = "up" /\ inputs[ch].n > 0 /\ inputs[ch].over # {inputs[ch].decimation})
          ~> (life # "up" \/ inputs[ch].over = {inputs[ch].decimation})

(* The decimation in use is the stored one, so a restart goes on with it,  *)
(* unless the settings file could not be written the last time: then it is *)
(* again from the next save or start on.                                   *)
InUseIsStored ==
    ~failed /\ life = "up" /\ dec # 0 /\ pc \notin {"rename", "configure"} =>
       dec = IF conf = 0 THEN Default ELSE conf

(* A request that reaches the word of a running daemon is measured with,   *)
(* unless a later one replaces it or the daemon goes down.                 *)
RequestsAreServed ==
    \A d \in Decs :
       (req = d /\ life = "up") ~> (dec = d \/ req \notin {0, d} \/ life # "up")

(* A daemon told to stop does: the thread leaves its loop, from any point  *)
(* of it, also while it waits for the staging lock.                        *)
StopCompletes == (life = "stopping") ~> (life = "down")
=============================================================================
