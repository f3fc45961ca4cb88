---------------------------- MODULE LockboxConfig ----------------------------
(***************************************************************************)
(* The settings of the lockbox: the registers several processes change,    *)
(* and the file they are saved to and restored from.  The SCPI server      *)
(* forks a child for each connection, the web interface is a process of    *)
(* its own; all of them map the same registers and share no lock.  A       *)
(* setter loads the register word and stores it back changed; a save reads *)
(* one setting after the other, truncates the file and writes it; a load   *)
(* or a reset calls one setter after the other.                            *)
(*                                                                         *)
(* A numeric setting is the count in its register, a switch 0 or 1; 0 is   *)
(* also what a reset leaves, and the sine.  A limit is the distance of its *)
(* count from the end of the range, where a reset leaves it.  A value in   *)
(* the file is a float; it is named by the count that it was read from.    *)
(***************************************************************************)
EXTENDS Integers, Sequences

CONSTANTS
    Children,     \* children of the SCPI server, one per connection
    Webs,         \* processes that attach: the web interface
    Settings,     \* the settings in the model, <<name, PID or output>>
    MaxCount,     \* bound: the largest count of a numeric setting
    Rounded,      \* the count that a count, read as a float and set again, becomes
    FreqLoses,    \* the most that a frequency loses that way
    Clipped,      \* the counts at the end of the range a limit cannot be set to
    Serial,       \* TRUE: no call begins before the one under way has ended
    MaxCalls,     \* bound: the calls clients begin
    MaxRestarts   \* bound: restarts and power losses

-----------------------------------------------------------------------------
(* The order in which a save reads and a load sets: the settings of each   *)
(* of the four PIDs, then those of each of the two outputs.                *)
PidOrder ==
    << "setpoint", "kp", "ki", "kd", "kii", "kg", "int_reset", "inverted",
       "reset_when_railed", "hold", "relock_enabled", "enabled",
       "relock_stepsize", "relock_minimum", "relock_maximum", "relock_input",
       "lso_enabled", "ext_reset_enabled", "ext_reset_input" >>

OutOrder ==
    << "limit_min", "limit_max", "gen_enabled", "gen_poffset_enabled",
       "gen_amp", "gen_offset", "gen_freq", "gen_waveform" >>

Places == 1 .. 4 * 19 + 2 * 8

SettingAt(k) ==
    IF k <= 4 * 19
    THEN << PidOrder[((k - 1) % 19) + 1], (k - 1) \div 19 >>
    ELSE << OutOrder[((k - 77) % 8) + 1], (k - 77) \div 8 >>

(* The order in which a reset sets them, both outputs in turn.             *)
ResetRank == [gen_enabled |-> 1, gen_poffset_enabled |-> 2, gen_freq |-> 3,
              gen_waveform |-> 4, gen_offset |-> 5, gen_amp |-> 6]

IsReset(s) == s[1] \in DOMAIN ResetRank

Rank(op, k) ==
    IF op = "reset" THEN 2 * ResetRank[SettingAt(k)[1]] + SettingAt(k)[2] ELSE k

(* Fault: the PIDs are switched on first. *)
ComesNextEnableFirst(op, k, todo) ==
    /\ k \in todo
    /\ \/ SettingAt(k)[1] = "enabled"
       \/ \A j \in todo : SettingAt(j)[1] # "enabled" /\ Rank(op, k) <= Rank(op, j)

(* The place of the setting dealt with next. *)
ComesNext(op, k, todo) == k \in todo /\ \A j \in todo : Rank(op, k) <= Rank(op, j)

ASSUME SettingsAssumption == Settings \subseteq {SettingAt(k) : k \in Places}
ASSUME BoundsAssumption ==
    /\ MaxCount \in Nat
    /\ Serial \in BOOLEAN /\ MaxCalls \in Nat /\ MaxRestarts \in Nat

(* The settings whose counts a float of 24 bits does not always bring back.*)
Gains == {"ki", "kd", "kii", "relock_stepsize"}
Bounds == {"relock_minimum", "relock_maximum"}
Limits == {"limit_min", "limit_max"}

(* A gain or a step may come back a count off, either way; a relock bound, *)
(* which is truncated, one lower.  The calibration offset of an output     *)
(* keeps one of its limits off the end of the range.  The frequency of a   *)
(* reset is a whole number of Hz.                                          *)
ASSUME RoundedAssumption ==
    /\ Rounded \in [Gains \cup Bounds \cup {"gen_freq"} -> [0 .. MaxCount -> 0 .. MaxCount]]
    /\ FreqLoses \in Nat /\ Rounded["gen_freq"][0] = 0
    /\ Clipped \in [Limits -> 0 .. MaxCount]
    /\ \A n \in 0 .. MaxCount :
          /\ \A g \in Gains : Rounded[g][n] \in {n - 1, n, n + 1}
          /\ \A b \in Bounds : Rounded[b][n] \in {n - 1, n}
          /\ Rounded["gen_freq"][n] - n \in -FreqLoses .. FreqLoses

Todo == {k \in Places : SettingAt(k) \in Settings}

ConfFlags == {"int_reset", "inverted", "reset_when_railed", "hold",
              "relock_enabled", "enabled", "lso_enabled"}
GenFlags == {"gen_enabled", "gen_poffset_enabled"}
Waveform(ch) == <<"gen_waveform", ch>>
IsWaveform(s) == s[1] = "gen_waveform"
Waveforms == {s \in Settings : IsWaveform(s)}

Counts(s) ==
    IF s[1] \in ConfFlags \cup GenFlags \cup {"ext_reset_enabled", "gen_waveform"}
    THEN {0, 1}
    ELSE 0 .. MaxCount

(* The settings in the word that the setter of s loads and stores back:    *)
(* the switches of all PIDs are bits of one word.  The frequency setter    *)
(* restarts both generators through the word that holds their switches.    *)
Rewritten(s) ==
    {t \in Settings :
       \/ s[1] \in ConfFlags /\ t[1] \in ConfFlags
       \/ s[1] = "ext_reset_enabled" /\ t[1] = "ext_reset_enabled"
       \/ s[1] \in GenFlags \cup {"gen_freq"} /\ t[1] \in GenFlags}

(* The counts a client can set: a setter clips a limit.                    *)
Settable(s) == IF s[1] \in Limits THEN Clipped[s[1]] .. MaxCount ELSE Counts(s)

(* What the getter and then the setter make of a count: both compute in    *)
(* floats, the getter of a frequency rounds to the whole Hz, the setter of *)
(* a relock bound truncates, that of a limit clips.  A count of 14 bits,   *)
(* kp, kg and a switch come back as they were.                             *)
Restored(s, n) ==
    CASE s[1] \in DOMAIN Rounded -> Rounded[s[1]][n]
      [] s[1] \in Limits /\ n < Clipped[s[1]] -> Clipped[s[1]]
      [] OTHER -> n

-----------------------------------------------------------------------------
Server == "server"
Procs == {Server} \cup Children \cup Webs
Clients == Children \cup Webs

VARIABLES
    reg,       \* the registers and the waveform tables
    file,      \* the configuration file
    call,      \* what each process is doing
    wave,      \* the waveforms each process remembers
    left,      \* the configuration left on the stack of each process
    calls,     \* calls begun
    restarts,  \* restarts so far
    acked,     \* history: the value last set, or left by the last reset
    atSave     \* history: the registers at the end of the last save

vars == <<reg, file, call, wave, left, calls, restarts, acked, atSave>>

Zeros == [s \in Settings |-> 0]
Config == {f \in [Settings -> Nat] : \A s \in Settings : f[s] \in Counts(s)}

NoSetting == <<"none", 0>>
At(pc) == [pc |-> pc, op |-> "none", target |-> NoSetting, value |-> 0,
           todo |-> {}, cfg |-> Zeros, word |-> Zeros]

Unknown == [known |-> FALSE, cfg |-> Zeros]

Sine == [s \in Waveforms |-> 0]

Init ==
    /\ reg = Zeros /\ acked = Zeros /\ atSave = Zeros
    /\ file = [kind |-> "none", cfg |-> Zeros]
    /\ call = [c \in Procs |-> At(IF c = Server THEN "boot" ELSE "down")]
    /\ wave = [c \in Procs |-> Sine]
    /\ left = [c \in Procs |-> Unknown]
    /\ calls = 0 /\ restarts = 0

Busy(c) == call[c].pc \notin {"down", "idle"}

MayCall(c) ==
    /\ call[c].pc = "idle"
    /\ calls < MaxCalls
    /\ Serial => \A d \in Procs : ~Busy(d)
    /\ calls' = calls + 1

-----------------------------------------------------------------------------
(* A setter, first step: the word is loaded.  The setter of a waveform or  *)
(* of a register of its own loads nothing that it stores back.             *)
Loaded(op, s, n, todo, cfg) ==
    [pc |-> "store", op |-> op, target |-> s, value |-> n, todo |-> todo,
     cfg |-> cfg,
     word |-> [t \in Settings |-> IF t \in Rewritten(s) THEN reg[t] ELSE 0]]

Set(c, s, n) ==
    /\ MayCall(c)
    /\ n \in Settable(s)
    /\ call' = [call EXCEPT ![c] = Loaded("set", s, n, {}, Zeros)]
    /\ UNCHANGED <<reg, file, wave, left, restarts, acked, atSave>>

(* Fault: the registers after a store that clears the PID's hold.          *)
StoredClearingHold(q, remembered) ==
    [t \in Settings |->
       CASE t = q.target -> q.value
         [] t # q.target /\ t[1] = "hold" /\ t[2] = q.target[2] -> 0
         [] t # q.target /\ t \in Rewritten(q.target) -> q.word[t]
         [] OTHER -> reg[t]]

(* The registers after the store.  The frequency setter also fills the     *)
(* table again, with the waveform its process remembers.                   *)
Stored(q, remembered) ==
    [t \in Settings |->
       IF t = q.target THEN q.value
       ELSE IF t \in Rewritten(q.target) THEN q.word[t]
       ELSE IF q.target[1] = "gen_freq" /\ t = Waveform(q.target[2])
            THEN remembered[t]
       ELSE reg[t]]

(* A setter, second step.  In a load the next setter follows.              *)
Store(c) ==
    LET q == call[c]
    IN  /\ q.pc = "store"
        /\ reg' = Stored(q, wave[c])
        /\ acked' = [acked EXCEPT ![q.target] = q.value]
        /\ wave' = IF IsWaveform(q.target)
                   THEN [wave EXCEPT ![c][q.target] = q.value] ELSE wave
        /\ call' = [call EXCEPT ![c] =
                      IF q.todo = {} THEN At("idle") ELSE [q EXCEPT !.pc = "apply"]]
        /\ UNCHANGED <<file, left, calls, restarts, atSave>>

-----------------------------------------------------------------------------
(* rp_SaveLockboxConfig: the getters, the fopen that truncates the file,   *)
(* the fwrite that fclose sends to it.                                     *)
StartSave(c) ==
    /\ MayCall(c)
    /\ call' = [call EXCEPT ![c] = [At("read") EXCEPT !.op = "save", !.todo = Todo]]
    /\ UNCHANGED <<reg, file, wave, left, restarts, acked, atSave>>

(* Fault: the hold is not saved. *)
GetWithoutHold(c, s) ==
    CASE IsWaveform(s) -> wave[c][s]
      [] s[1] = "hold" -> 0
      [] OTHER -> reg[s]

(* What the getter of s returns in process c: the waveform is the          *)
(* process's own variable, all else is read from the registers.            *)
Get(c, s) == IF IsWaveform(s) THEN wave[c][s] ELSE reg[s]

ReadSetting(c) ==
    LET q == call[c]
    IN  /\ q.pc = "read"
        /\ IF q.todo = {}
           THEN call' = [call EXCEPT ![c].pc = "open"]
           ELSE \E k \in q.todo :
                   /\ ComesNext(q.op, k, q.todo)
                   /\ call' = [call EXCEPT ![c] =
                        [q EXCEPT !.todo = @ \ {k},
                                  !.cfg = [@ EXCEPT ![SettingAt(k)] = Get(c, SettingAt(k))]]]
        /\ UNCHANGED <<reg, file, wave, left, calls, restarts, acked, atSave>>

OpenToSave(c) ==
    /\ call[c].pc = "open"
    /\ \/ /\ file' = [kind |-> "empty", cfg |-> Zeros]
          /\ call' = [call EXCEPT ![c].pc = "write"]
       \/ /\ call' = [call EXCEPT ![c] = At("idle")]    \* RP_EOCF
          /\ UNCHANGED file
    /\ UNCHANGED <<reg, wave, left, calls, restarts, acked, atSave>>

WriteFile(c) ==
    /\ call[c].pc = "write"
    /\ file' = [kind |-> "whole", cfg |-> call[c].cfg]
    /\ left' = [left EXCEPT ![c] = [known |-> TRUE, cfg |-> call[c].cfg]]
    /\ call' = [call EXCEPT ![c] = At("idle")]
    /\ atSave' = reg
    /\ UNCHANGED <<reg, wave, calls, restarts, acked>>

-----------------------------------------------------------------------------
(* rp_LoadLockboxConfig.  What fread leaves in config: the file, or, if    *)
(* the file is empty, what the stack held, which may be the configuration  *)
(* of an earlier save or load of the process.                              *)
FileContents(c) ==
    CASE file.kind = "whole" -> {file.cfg}
      [] file.kind = "empty" /\ left[c].known -> {left[c].cfg}
      [] OTHER -> {}

ReadFile(c) ==
    \E cfg \in FileContents(c) :
       /\ call' = [call EXCEPT ![c] =
                     [At("apply") EXCEPT !.op = "load", !.todo = Todo, !.cfg = cfg]]
       /\ left' = [left EXCEPT ![c] = [known |-> TRUE, cfg |-> cfg]]

(* Fault: a file of the wrong version is never answered. *)
RefuseFileNever(c) == FALSE /\ call' = [call EXCEPT ![c] = At("idle")] /\ UNCHANGED left

(* No file (RP_EOCF), or a version that is not LOCKBOX_CONFIG_VERSION      *)
(* (RP_EICV): nothing is set.                                              *)
RefuseFile(c) ==
    /\ file.kind # "whole"
    /\ call' = [call EXCEPT ![c] = At("idle")]
    /\ UNCHANGED left

StartLoad(c) ==
    /\ MayCall(c)
    /\ ReadFile(c) \/ RefuseFile(c)
    /\ UNCHANGED <<reg, file, wave, restarts, acked, atSave>>

(* A reset by a client of the SCPI server (RP:RST, RP:INIT): of the        *)
(* settings the generators' are set to their defaults, each by its setter. *)
StartReset(c) ==
    /\ c \in Children
    /\ MayCall(c)
    /\ call' = [call EXCEPT ![c] =
                  [At("apply") EXCEPT !.op = "reset",
                                      !.todo = {k \in Todo : IsReset(SettingAt(k))}]]
    /\ UNCHANGED <<reg, file, wave, left, restarts, acked, atSave>>

(* The next setter of a load or a reset. *)
Apply(c) ==
    LET q == call[c]
    IN  /\ q.pc = "apply"
        /\ IF q.todo = {}
           THEN call' = [call EXCEPT ![c] = At("idle")]
           ELSE \E k \in q.todo :
                   /\ ComesNext(q.op, k, q.todo)
                   /\ LET s == SettingAt(k)
                      IN  call' = [call EXCEPT ![c] =
                                     Loaded(q.op, s, Restored(s, q.cfg[s]),
                                            q.todo \ {k}, q.cfg)]
        /\ UNCHANGED <<reg, file, wave, left, calls, restarts, acked, atSave>>

-----------------------------------------------------------------------------
(* Processes come and go.  A child inherits the variables of the server;   *)
(* the web interface starts with its own, all zero.                        *)
Connect(c) ==
    /\ call[Server].pc = "idle" /\ call[c].pc = "down"
    /\ call' = [call EXCEPT ![c] = At("idle")]
    /\ wave' = [wave EXCEPT ![c] = wave[Server]]
    /\ left' = [left EXCEPT ![c] = left[Server]]
    /\ UNCHANGED <<reg, file, calls, restarts, acked, atSave>>

Disconnect(c) ==
    /\ call[c].pc = "idle"
    /\ call' = [call EXCEPT ![c] = At("down")]
    /\ wave' = [wave EXCEPT ![c] = Sine]
    /\ left' = [left EXCEPT ![c] = Unknown]
    /\ UNCHANGED <<reg, file, calls, restarts, acked, atSave>>

Attach(c) ==
    /\ call[c].pc = "down"
    /\ call' = [call EXCEPT ![c] = At("idle")]
    /\ UNCHANGED <<reg, file, wave, left, calls, restarts, acked, atSave>>

(* The reset of the server's start: nobody else runs then.                 *)
GenReset(r) == [s \in Settings |-> IF IsReset(s) THEN 0 ELSE r[s]]

(* Every process ends and the server starts: rp_Init, then the load.       *)
Reboot(registers) ==
    /\ restarts < MaxRestarts
    /\ restarts' = restarts + 1
    /\ reg' = registers
    /\ acked' = registers
    /\ call' = [c \in Procs |-> At(IF c = Server THEN "boot" ELSE "down")]
    /\ wave' = [c \in Procs |-> Sine]
    /\ left' = [c \in Procs |-> Unknown]
    /\ UNCHANGED <<file, calls, atSave>>

(* The services are restarted, with or without loading the gateware again. *)
(* A child ends its command first; the web interface is killed anywhere.   *)
RestartServices ==
    /\ \A c \in {Server} \cup Children : ~Busy(c)
    /\ Reboot(Zeros) \/ Reboot(GenReset(reg))

PowerLoss == Reboot(Zeros)

BootLoad ==
    /\ call[Server].pc = "boot"
    /\ ReadFile(Server) \/ RefuseFile(Server)
    /\ UNCHANGED <<reg, file, wave, calls, restarts, acked, atSave>>

ServerStep == BootLoad \/ Apply(Server) \/ Store(Server)

ClientStep(c) ==
    \/ \E s \in Settings, n \in 0 .. MaxCount : Set(c, s, n)
    \/ Store(c)
    \/ StartSave(c) \/ ReadSetting(c) \/ OpenToSave(c) \/ WriteFile(c)
    \/ StartLoad(c) \/ StartReset(c) \/ Apply(c)
    \/ Disconnect(c)

Next ==
    \/ ServerStep
    \/ \E c \in Clients : ClientStep(c)
    \/ \E c \in Children : Connect(c)
    \/ \E c \in Webs : Attach(c)
    \/ RestartServices
    \/ PowerLoss

(* The server runs to the end of its start, whatever the clients do.       *)
Spec == Init /\ [][Next]_vars /\ WF_vars(ServerStep)

-----------------------------------------------------------------------------
(* Properties.                                                             *)

Call == [pc : {"boot", "down", "idle", "store", "read", "open", "write", "apply"},
         op : {"none", "set", "save", "load", "reset"}, target : Settings \cup {NoSetting},
         value : Nat, todo : SUBSET Todo, cfg : Config, word : Config]

(* Every register, table, file and call keeps its type, and a saved count  *)
(* is again one the register can hold (the getters and setters).           *)
TypeOK ==
    /\ reg \in Config /\ acked \in Config /\ atSave \in Config
    /\ file \in [kind : {"none", "empty", "whole"}, cfg : Config]
    /\ call \in [Procs -> Call]
    /\ wave \in [Procs -> [Waveforms -> {0, 1}]]
    /\ left \in [Procs -> [known : BOOLEAN, cfg : Config]]
    /\ calls \in 0 .. MaxCalls /\ restarts \in 0 .. MaxRestarts

Quiet == \A c \in Procs : ~Busy(c)

(* With no call under way, a setting has the value it was last set to, by  *)
(* a client or by a load, or the one the last reset left: no setter        *)
(* changes another setting (scpi-server.c serves its connections           *)
(* "simultaneously").  The waveform is not among them.                     *)
SettingsStick ==
    Quiet => \A s \in Settings : IsWaveform(s) \/ reg[s] = acked[s]

LoadStores(c) ==
    call[c].pc = "store" /\ call[c].op = "load" /\ call'[c].pc \in {"apply", "idle"}

(* m is n to the resolution of the getter and the setter of s: a count of  *)
(* a gain, a step or a relock bound, what a frequency may lose, or the     *)
(* limit nearest to the end of the range, if it was left there at start.   *)
Within(s, m, n) ==
    \/ m = n
    \/ s[1] \in Gains \cup Bounds /\ m - n \in -1 .. 1
    \/ s[1] = "gen_freq" /\ m - n \in -FreqLoses .. FreqLoses
    \/ s[1] \in Limits /\ n < m /\ m = Clipped[s[1]]

(* When a load of a whole file ends, every setting is again what it was    *)
(* when that file was saved, to the resolution of its getter and setter,   *)
(* through any restart and power loss in between (README: the current      *)
(* configuration can be saved and restored).  The waveform is not.         *)
RestoresTheSave ==
    [][\A c \in Procs :
          LoadStores(c) /\ call[c].todo = {} /\ file.kind = "whole" =>
             \A s \in Settings : IsWaveform(s) \/ Within(s, reg'[s], atSave[s])]_vars

IsPid(s) == s[2] \in 0 .. 3 /\ \E i \in DOMAIN PidOrder : s[1] = PidOrder[i]

(* A load of what the PIDs' registers already hold, to the resolution of   *)
(* getter and setter, leaves them there at every step: no switch, setpoint *)
(* or kp changes for a moment, and a gain stays within a count of the one  *)
(* in the file.  A restart of the services with the gateware left running  *)
(* keeps a lock (README, update.sh).                                       *)
LoadOfSameIsQuiet ==
    [][\A c \in Procs :
          LET held(r) == \A s \in Settings : IsPid(s) => Within(s, r[s], call[c].cfg[s])
          IN  LoadStores(c) /\ held(reg) => held(reg')]_vars

(* A load switches a PID on only after its setpoint, gains, polarity and   *)
(* hold are those of the file (the order in rp_LoadLockboxConfig).         *)
GainsBeforeEnable ==
    [][\A c \in Procs, p \in 0 .. 3 :
          LET on == <<"enabled", p>>
          IN  on \in Settings /\ LoadStores(c) /\ reg[on] = 0 /\ reg'[on] = 1 =>
                 \A s \in Settings :
                    s[2] = p /\ s[1] \in {"setpoint", "kp", "ki", "kd", "kii", "kg",
                                          "int_reset", "inverted", "hold"}
                    => reg[s] = Restored(s, call[c].cfg[s])]_vars

(* The server comes up after every restart, whatever the file holds:       *)
(* nothing, half a save, a configuration (scpi-server.c logs a load that   *)
(* fails and goes on).                                                     *)
ServerComesUp == (call[Server].pc # "idle") ~> (call[Server].pc = "idle")
=============================================================================
