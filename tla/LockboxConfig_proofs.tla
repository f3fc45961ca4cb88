------------------------ MODULE LockboxConfig_proofs ------------------------
(***************************************************************************)
(* For every set of settings and of processes: the registers, the file and *)
(* the calls keep their types; with calls that do not overlap no setting   *)
(* changes but by its own setter, a load or a reset, and a load restores   *)
(* what was saved, in its order and without disturbing what is right.      *)
(***************************************************************************)
EXTENDS LockboxConfig, TLAPS

(* A call that is about to store has a setting and a count of it.          *)
StoreTyped ==
    \A c \in Procs : call[c].pc = "store" =>
       call[c].target \in Settings /\ call[c].value \in Counts(call[c].target)

TInv == TypeOK /\ StoreTyped

-----------------------------------------------------------------------------
(* Counts, getters and setters.                                            *)
LEMMA CountsNat == ASSUME NEW s PROVE Counts(s) \subseteq Nat /\ 0 \in Counts(s)
<1>1. MaxCount \in Nat
  BY BoundsAssumption
<1> QED
  BY <1>1, SMT DEF Counts

(* A count that is read and set again is one of the setting, and the one   *)
(* it was, to the resolution.                                              *)
LEMMA RestoredIs ==
    ASSUME NEW s, NEW n \in Counts(s)
    PROVE  Restored(s, n) \in Counts(s) /\ Within(s, Restored(s, n), n)
<1>0. MaxCount \in Nat /\ FreqLoses \in Nat
  BY BoundsAssumption, RoundedAssumption
<1>. DEFINE Kinds == Gains \cup Bounds \cup {"gen_freq"}
<1>1. DOMAIN Rounded = Kinds
  BY RoundedAssumption
<1>2. ASSUME s[1] \in Kinds \cup Limits PROVE Counts(s) = 0 .. MaxCount
  BY <1>2 DEF Counts, ConfFlags, GenFlags, Gains, Bounds, Limits
<1>3. CASE s[1] \in Kinds
  <2>1. n \in 0 .. MaxCount /\ n \in Nat
    BY <1>0, <1>2, <1>3
  <2>2. PICK m : m = Rounded[s[1]][n]
    OBVIOUS
  <2>3. Restored(s, n) = m
    <3>1. s[1] \in DOMAIN Rounded
      BY <1>1, <1>3, Zenon
    <3>2. s[1] \notin Limits
      BY <1>3 DEF Gains, Bounds, Limits
    <3>. QED
      BY <2>2, <3>1, <3>2 DEF Restored
  <2>4. m \in 0 .. MaxCount
    BY <1>3, <2>1, <2>2, RoundedAssumption
  <2>5. CASE s[1] \in Gains \cup Bounds
    <3>1. m \in {n - 1, n, n + 1}
      BY <2>1, <2>2, <2>5, RoundedAssumption
    <3>2. m - n \in -1 .. 1
      BY <2>1, <3>1
    <3>. QED
      BY <1>2, <1>3, <2>3, <2>4, <2>5, <3>2 DEF Within
  <2>6. CASE s[1] = "gen_freq"
    <3>1. m - n \in -FreqLoses .. FreqLoses
      BY <2>1, <2>2, <2>6, RoundedAssumption
    <3>. QED
      BY <1>2, <1>3, <2>3, <2>4, <2>6, <3>1 DEF Within
  <2>. QED
    BY <1>3, <2>5, <2>6
<1>4. CASE s[1] \notin Kinds /\ s[1] \in Limits /\ n < Clipped[s[1]]
  <2>1. Restored(s, n) = Clipped[s[1]]
    BY <1>1, <1>4 DEF Restored
  <2>2. Clipped[s[1]] \in 0 .. MaxCount
    BY <1>4, RoundedAssumption
  <2>. QED
    BY <1>2, <1>4, <2>1, <2>2 DEF Within
<1>5. CASE s[1] \notin Kinds /\ ~(s[1] \in Limits /\ n < Clipped[s[1]])
  <2>1. Restored(s, n) = n
    BY <1>1, <1>5 DEF Restored
  <2>. QED
    BY <2>1 DEF Within
<1> QED
  BY <1>3, <1>4, <1>5

LEMMA WaveformCounts == ASSUME NEW s, IsWaveform(s) PROVE Counts(s) = {0, 1}
BY DEF IsWaveform, Counts

LEMMA ZerosType == Zeros \in Config
BY CountsNat DEF Zeros, Config

LEMMA AtType ==
    ASSUME NEW pc \in {"boot", "down", "idle", "store", "read", "open", "write", "apply"}
    PROVE  At(pc) \in Call
BY ZerosType, Zenon DEF At, Call

LEMMA LoadedType ==
    ASSUME TypeOK, NEW op \in {"none", "set", "save", "load", "reset"},
           NEW s \in Settings, NEW n \in Counts(s),
           NEW todo \in SUBSET Todo, NEW cfg \in Config
    PROVE  Loaded(op, s, n, todo, cfg) \in Call
<1>1. reg \in Config
  BY DEF TypeOK
<1>2. [t \in Settings |-> IF t \in Rewritten(s) THEN reg[t] ELSE 0] \in Config
  BY <1>1, CountsNat DEF Config
<1>3. n \in Nat
  BY CountsNat
<1> QED
  BY <1>2, <1>3, Zenon DEF Loaded, Call

LEMMA StoredType ==
    ASSUME TypeOK, NEW q \in Call, q.target \in Settings, q.value \in Counts(q.target),
           NEW remembered \in [Waveforms -> {0, 1}]
    PROVE  Stored(q, remembered) \in Config
<1>1. reg \in Config /\ q.word \in Config
  BY DEF TypeOK, Call
<1>2. ASSUME NEW t \in Settings
      PROVE  Stored(q, remembered)[t] \in Counts(t)
  <2>1. reg[t] \in Counts(t) /\ q.word[t] \in Counts(t)
    BY <1>1 DEF Config
  <2>2. CASE t = Waveform(q.target[2])
    <3>1. IsWaveform(t) /\ t \in Waveforms
      BY <2>2 DEF Waveform, IsWaveform, Waveforms
    <3>2. remembered[t] \in Counts(t)
      BY <3>1, WaveformCounts
    <3> QED
      BY <2>1, <3>2 DEF Stored
  <2>3. CASE t # Waveform(q.target[2])
    BY <2>1, <2>3 DEF Stored
  <2> QED
    BY <2>2, <2>3
<1>3. Stored(q, remembered) = [t \in Settings |-> Stored(q, remembered)[t]]
  BY DEF Stored
<1>4. \A t \in Settings : Stored(q, remembered)[t] \in Nat
  BY <1>2, CountsNat
<1> QED
  BY <1>2, <1>3, <1>4 DEF Config

(* One process goes on to x, the others stay where they are. *)
LEMMA CallStep ==
    ASSUME TInv, NEW c \in Procs, NEW x \in Call,
           x.pc = "store" => x.target \in Settings /\ x.value \in Counts(x.target),
           call' = [call EXCEPT ![c] = x]
    PROVE  call' \in [Procs -> Call] /\ StoreTyped'
BY DEF TInv, TypeOK, StoreTyped

LEMMA CallStepAt ==
    ASSUME TInv, NEW c \in Procs,
           NEW pc \in {"boot", "down", "idle", "read", "open", "write", "apply"},
           call' = [call EXCEPT ![c] = At(pc)]
    PROVE  call' \in [Procs -> Call] /\ StoreTyped'
<1>1. At(pc) \in Call /\ At(pc).pc # "store"
  BY AtType, Zenon DEF At
<1> QED
  BY <1>1, CallStep

(* The call of c goes on from pc "store", "read", "apply" to another.      *)
LEMMA CallType == ASSUME TypeOK, NEW c \in Procs PROVE call[c] \in Call
BY DEF TypeOK

-----------------------------------------------------------------------------
(* The steps of a call.                                                    *)
LEMMA SetType ==
    ASSUME TInv, NEW c \in Procs, NEW s \in Settings, NEW n, Set(c, s, n)
    PROVE  TInv'
<1>0. n \in Counts(s)
  <2>1. CASE s[1] \in Limits
    <3>1. Clipped[s[1]] \in 0 .. MaxCount /\ MaxCount \in Nat
      BY <2>1, BoundsAssumption, RoundedAssumption
    <3>2. Counts(s) = 0 .. MaxCount
      BY <2>1 DEF Counts, ConfFlags, GenFlags, Limits
    <3>3. n \in Clipped[s[1]] .. MaxCount
      BY <2>1 DEF Set, Settable
    <3>. QED
      BY <3>1, <3>2, <3>3
  <2>2. CASE s[1] \notin Limits
    BY <2>2 DEF Set, Settable
  <2>. QED
    BY <2>1, <2>2
<1> DEFINE x == Loaded("set", s, n, {}, Zeros)
<1>1. x \in Call
  BY <1>0, LoadedType, ZerosType DEF TInv, Set
<1>2. x.target \in Settings /\ x.value \in Counts(x.target)
  BY <1>0 DEF Loaded, Set
<1>3. call' \in [Procs -> Call] /\ StoreTyped'
  BY <1>1, <1>2, CallStep DEF Set
<1>4. calls' \in 0 .. MaxCalls
  BY BoundsAssumption, SMT DEF Set, MayCall, TInv, TypeOK
<1> QED
  BY <1>3, <1>4, Zenon DEF Set, TInv, TypeOK

LEMMA StoreType == ASSUME TInv, NEW c \in Procs, Store(c) PROVE TInv'
<1> DEFINE q == call[c]
<1>1. q \in Call /\ q.target \in Settings /\ q.value \in Counts(q.target)
  BY CallType DEF TInv, StoreTyped, Store
<1>2. wave[c] \in [Waveforms -> {0, 1}]
  BY DEF TInv, TypeOK
<1>3. reg' \in Config
  BY <1>1, <1>2, StoredType DEF TInv, Store
<1>4. acked' \in Config
  <2>1. acked \in Config /\ acked' = [acked EXCEPT ![q.target] = q.value]
    BY DEF TInv, TypeOK, Store
  <2>2. q.value \in Nat
    BY <1>1, CountsNat
  <2> QED
    BY <1>1, <2>1, <2>2 DEF Config
<1>5. wave' \in [Procs -> [Waveforms -> {0, 1}]]
  <2>1. CASE IsWaveform(q.target)
    <3>1. q.target \in Waveforms /\ q.value \in {0, 1}
      BY <1>1, <2>1, WaveformCounts DEF Waveforms
    <3>2. wave' = [wave EXCEPT ![c][q.target] = q.value]
      BY <2>1 DEF Store
    <3> QED
      BY <3>1, <3>2 DEF TInv, TypeOK
  <2>2. CASE ~IsWaveform(q.target)
    BY <2>2 DEF Store, TInv, TypeOK
  <2> QED
    BY <2>1, <2>2
<1>6. call' \in [Procs -> Call] /\ StoreTyped'
  <2>1. CASE q.todo = {}
    BY <2>1, CallStepAt DEF Store
  <2>2. CASE q.todo # {}
    <3>1. call' = [call EXCEPT ![c] = [q EXCEPT !.pc = "apply"]]
      BY <2>2, Zenon DEF Store
    <3>2. [q EXCEPT !.pc = "apply"] \in Call
      BY <1>1, Zenon DEF Call
    <3>3. [q EXCEPT !.pc = "apply"].pc # "store"
      BY <1>1, Zenon DEF Call
    <3> QED
      BY <3>1, <3>2, <3>3, CallStep, Zenon
  <2> QED
    BY <2>1, <2>2
<1> QED
  BY <1>3, <1>4, <1>5, <1>6, Zenon DEF Store, TInv, TypeOK

LEMMA StartSaveType == ASSUME TInv, NEW c \in Procs, StartSave(c) PROVE TInv'
<1> DEFINE x == [At("read") EXCEPT !.op = "save", !.todo = Todo]
<1>1. At("read") \in Call
  BY AtType
<1>2. x \in Call
  BY <1>1, Zenon DEF Call
<1>3. x.pc # "store"
  BY <1>1, Zenon DEF At, Call
<1>4. call' = [call EXCEPT ![c] = x]
  BY DEF StartSave
<1>5. call' \in [Procs -> Call] /\ StoreTyped'
  BY <1>2, <1>3, <1>4, CallStep, Zenon
<1>6. calls' \in 0 .. MaxCalls
  BY BoundsAssumption, SMT DEF StartSave, MayCall, TInv, TypeOK
<1> QED
  BY <1>5, <1>6, Zenon DEF StartSave, TInv, TypeOK

LEMMA TodoSetting == ASSUME NEW k \in Todo PROVE SettingAt(k) \in Settings
BY DEF Todo

LEMMA GetType ==
    ASSUME TInv, NEW c \in Procs, NEW s \in Settings PROVE Get(c, s) \in Counts(s)
<1>1. CASE IsWaveform(s)
  <2>1. s \in Waveforms
    BY <1>1 DEF Waveforms
  <2>2. wave[c][s] \in {0, 1}
    BY <2>1 DEF TInv, TypeOK
  <2> QED
    BY <1>1, <2>2, WaveformCounts DEF Get
<1>2. CASE ~IsWaveform(s)
  <2>1. reg[s] \in Counts(s)
    BY DEF TInv, TypeOK, Config
  <2> QED
    BY <1>2, <2>1 DEF Get
<1> QED
  BY <1>1, <1>2

LEMMA ReadSettingType == ASSUME TInv, NEW c \in Procs, ReadSetting(c) PROVE TInv'
<1> DEFINE q == call[c]
<1>1. q \in Call
  BY CallType DEF TInv
<1>2. call' \in [Procs -> Call] /\ StoreTyped'
  <2>1. CASE q.todo = {}
    <3> DEFINE x == [q EXCEPT !.pc = "open"]
    <3>1. x \in Call /\ x.pc # "store"
      BY <1>1, Zenon DEF Call
    <3>2. call' = [call EXCEPT ![c] = x]
      BY <2>1 DEF ReadSetting, TInv, TypeOK
    <3> QED
      BY <3>1, <3>2, CallStep, Zenon
  <2>2. CASE q.todo # {}
    <3>1. PICK k \in q.todo :
             call' = [call EXCEPT ![c] =
                [q EXCEPT !.todo = @ \ {k},
                          !.cfg = [@ EXCEPT ![SettingAt(k)] = Get(c, SettingAt(k))]]]
      BY <2>2, Zenon DEF ReadSetting
    <3> DEFINE s == SettingAt(k)
               f == [q.cfg EXCEPT ![s] = Get(c, s)]
               x == [q EXCEPT !.todo = q.todo \ {k}, !.cfg = f]
    <3>2. q.todo \ {k} \in SUBSET Todo /\ q.cfg \in Config /\ s \in Settings
      BY <1>1, TodoSetting DEF Call
    <3>3. Get(c, s) \in Counts(s) /\ Get(c, s) \in Nat
      BY <3>2, GetType, CountsNat
    <3>4. f \in Config
      <4> HIDE DEF s
      <4> QED BY <3>2, <3>3 DEF Config
    <3>5. x \in Call /\ x.pc = q.pc
      <4> HIDE DEF f
      <4> QED BY <1>1, <3>2, <3>4, Zenon DEF Call
    <3>6. q.pc = "read"
      BY DEF ReadSetting
    <3>7. call' = [call EXCEPT ![c] = x]
      BY <3>1
    <3>8. x.pc # "store"
      BY <3>5, <3>6, Zenon
    <3> QED
      <4> HIDE DEF x
      <4> QED BY <3>5, <3>7, <3>8, CallStep, Zenon
  <2> QED
    BY <2>1, <2>2
<1> QED
  BY <1>2, Zenon DEF ReadSetting, TInv, TypeOK

LEMMA OpenToSaveType == ASSUME TInv, NEW c \in Procs, OpenToSave(c) PROVE TInv'
<1> DEFINE x == [call[c] EXCEPT !.pc = "write"]
<1>1. CASE /\ file' = [kind |-> "empty", cfg |-> Zeros]
           /\ call' = [call EXCEPT ![c].pc = "write"]
  <2>1. file' \in [kind : {"none", "empty", "whole"}, cfg : Config]
    BY <1>1, ZerosType
  <2>2. x \in Call /\ x.pc # "store"
    BY CallType, Zenon DEF Call, TInv
  <2>3. call' = [call EXCEPT ![c] = x]
    BY <1>1
  <2>4. call' \in [Procs -> Call] /\ StoreTyped'
    BY <2>2, <2>3, CallStep, Zenon
  <2> QED
    BY <2>1, <2>4, Zenon DEF OpenToSave, TInv, TypeOK
<1>2. CASE call' = [call EXCEPT ![c] = At("idle")] /\ UNCHANGED file
  <2>1. call' \in [Procs -> Call] /\ StoreTyped'
    BY <1>2, CallStepAt
  <2> QED
    BY <1>2, <2>1, Zenon DEF OpenToSave, TInv, TypeOK
<1> QED
  BY <1>1, <1>2, Zenon DEF OpenToSave

LEMMA WriteFileType == ASSUME TInv, NEW c \in Procs, WriteFile(c) PROVE TInv'
<1>1. call[c].cfg \in Config
  BY CallType DEF TInv, Call
<1>2. file' \in [kind : {"none", "empty", "whole"}, cfg : Config]
  BY <1>1, Zenon DEF WriteFile
<1>3. left' \in [Procs -> [known : BOOLEAN, cfg : Config]]
  <2>1. [known |-> TRUE, cfg |-> call[c].cfg] \in [known : BOOLEAN, cfg : Config]
    BY <1>1, Zenon
  <2> QED
    BY <2>1, Zenon DEF WriteFile, TInv, TypeOK
<1>4. call' \in [Procs -> Call] /\ StoreTyped'
  BY CallStepAt, Zenon DEF WriteFile
<1> QED
  BY <1>2, <1>3, <1>4, Zenon DEF WriteFile, TInv, TypeOK

LEMMA ReadFileType ==
    ASSUME TInv, NEW c \in Procs, ReadFile(c)
    PROVE  /\ call' \in [Procs -> Call] /\ StoreTyped'
           /\ left' \in [Procs -> [known : BOOLEAN, cfg : Config]]
<1>1. PICK cfg \in FileContents(c) :
         /\ call' = [call EXCEPT ![c] =
                       [At("apply") EXCEPT !.op = "load", !.todo = Todo, !.cfg = cfg]]
         /\ left' = [left EXCEPT ![c] = [known |-> TRUE, cfg |-> cfg]]
  BY Zenon DEF ReadFile
<1>2. file.cfg \in Config /\ left[c].cfg \in Config
  BY DEF TInv, TypeOK
<1>3. cfg \in Config
  BY <1>2 DEF FileContents
<1> DEFINE x == [At("apply") EXCEPT !.op = "load", !.todo = Todo, !.cfg = cfg]
<1>4. At("apply") \in Call
  BY AtType
<1>5. x \in Call
  BY <1>3, <1>4, Zenon DEF Call
<1>6. x.pc # "store"
  BY <1>4, Zenon DEF At, Call
<1>7. call' = [call EXCEPT ![c] = x]
  BY <1>1
<1>8. call' \in [Procs -> Call] /\ StoreTyped'
  <2> HIDE DEF x
  <2> QED BY <1>5, <1>6, <1>7, CallStep, Zenon
<1>9. [known |-> TRUE, cfg |-> cfg] \in [known : BOOLEAN, cfg : Config]
  BY <1>3, Zenon
<1> QED
  BY <1>1, <1>8, <1>9, Zenon DEF TInv, TypeOK

LEMMA RefuseFileType ==
    ASSUME TInv, NEW c \in Procs, RefuseFile(c)
    PROVE  /\ call' \in [Procs -> Call] /\ StoreTyped'
           /\ left' \in [Procs -> [known : BOOLEAN, cfg : Config]]
BY CallStepAt, Zenon DEF RefuseFile, TInv, TypeOK

LEMMA StartResetType == ASSUME TInv, NEW c \in Procs, StartReset(c) PROVE TInv'
<1> DEFINE todo == {k \in Todo : IsReset(SettingAt(k))}
           x == [At("apply") EXCEPT !.op = "reset", !.todo = todo]
<1>1. At("apply") \in Call /\ todo \in SUBSET Todo
  BY AtType
<1>2. call' = [call EXCEPT ![c] = x]
  BY Zenon DEF StartReset
<1> HIDE DEF todo
<1>3. x \in Call
  BY <1>1, Zenon DEF Call
<1>4. x.pc # "store"
  BY <1>1, Zenon DEF At, Call
<1>5. call' \in [Procs -> Call] /\ StoreTyped'
  BY <1>2, <1>3, <1>4, CallStep, Zenon
<1>6. calls' \in 0 .. MaxCalls
  BY BoundsAssumption, SMT DEF StartReset, MayCall, TInv, TypeOK
<1> QED
  BY <1>5, <1>6, Zenon DEF StartReset, TInv, TypeOK

LEMMA StartLoadType == ASSUME TInv, NEW c \in Procs, StartLoad(c) PROVE TInv'
<1>1. /\ call' \in [Procs -> Call] /\ StoreTyped'
      /\ left' \in [Procs -> [known : BOOLEAN, cfg : Config]]
  BY ReadFileType, RefuseFileType, Zenon DEF StartLoad
<1>2. calls' \in 0 .. MaxCalls
  BY BoundsAssumption, SMT DEF StartLoad, MayCall, TInv, TypeOK
<1> QED
  BY <1>1, <1>2, Zenon DEF StartLoad, TInv, TypeOK

LEMMA BootLoadType == ASSUME TInv, BootLoad PROVE TInv'
<1>1. Server \in Procs
  BY DEF Procs
<1>2. /\ call' \in [Procs -> Call] /\ StoreTyped'
      /\ left' \in [Procs -> [known : BOOLEAN, cfg : Config]]
  BY <1>1, ReadFileType, RefuseFileType, Zenon DEF BootLoad
<1> QED
  BY <1>2, Zenon DEF BootLoad, TInv, TypeOK

LEMMA ApplyType == ASSUME TInv, NEW c \in Procs, Apply(c) PROVE TInv'
<1> DEFINE q == call[c]
<1>1. q \in Call
  BY CallType DEF TInv
<1>2. call' \in [Procs -> Call] /\ StoreTyped'
  <2>1. CASE q.todo = {}
    BY <2>1, CallStepAt, Zenon DEF Apply
  <2>2. CASE q.todo # {}
    <3>1. PICK k \in q.todo :
             call' = [call EXCEPT ![c] =
                        Loaded(q.op, SettingAt(k),
                               Restored(SettingAt(k), q.cfg[SettingAt(k)]),
                               q.todo \ {k}, q.cfg)]
      BY <2>2, Zenon DEF Apply
    <3> DEFINE s == SettingAt(k)
               n == Restored(s, q.cfg[s])
               x == Loaded(q.op, s, n, q.todo \ {k}, q.cfg)
    <3>2. /\ q.todo \ {k} \in SUBSET Todo /\ q.cfg \in Config /\ s \in Settings
          /\ q.op \in {"none", "set", "save", "load", "reset"}
      BY <1>1, TodoSetting DEF Call
    <3>3. q.cfg[s] \in Counts(s)
      BY <3>2 DEF Config
    <3>4. n \in Counts(s)
      BY <3>3, RestoredIs
    <3>5. x \in Call
      <4> HIDE DEF n, s
      <4> QED BY <3>2, <3>4, LoadedType DEF TInv
    <3>6. x.target \in Settings /\ x.value \in Counts(x.target)
      <4> HIDE DEF n, s
      <4> QED BY <3>2, <3>4 DEF Loaded
    <3>7. call' = [call EXCEPT ![c] = x]
      BY <3>1
    <3> QED
      <4> HIDE DEF x
      <4> QED BY <3>5, <3>6, <3>7, CallStep, Zenon
  <2> QED
    BY <2>1, <2>2
<1> QED
  BY <1>2, Zenon DEF Apply, TInv, TypeOK

-----------------------------------------------------------------------------
(* Processes come and go.                                                  *)
LEMMA FreshType == Sine \in [Waveforms -> {0, 1}] /\ Unknown \in [known : BOOLEAN, cfg : Config]
<1>1. Sine \in [Waveforms -> {0, 1}]
  BY DEF Sine
<1>2. Unknown \in [known : BOOLEAN, cfg : Config]
  BY ZerosType, Zenon DEF Unknown
<1> QED
  BY <1>1, <1>2

LEMMA ConnectType == ASSUME TInv, NEW c \in Procs, Connect(c) PROVE TInv'
<1>1. Server \in Procs
  BY DEF Procs
<1>2. call' \in [Procs -> Call] /\ StoreTyped'
  BY CallStepAt, Zenon DEF Connect
<1>3. /\ wave' \in [Procs -> [Waveforms -> {0, 1}]]
      /\ left' \in [Procs -> [known : BOOLEAN, cfg : Config]]
  BY <1>1 DEF Connect, TInv, TypeOK
<1> QED
  BY <1>2, <1>3, Zenon DEF Connect, TInv, TypeOK

LEMMA DisconnectType == ASSUME TInv, NEW c \in Procs, Disconnect(c) PROVE TInv'
<1>1. call' \in [Procs -> Call] /\ StoreTyped'
  BY CallStepAt, Zenon DEF Disconnect
<1>2. /\ wave' \in [Procs -> [Waveforms -> {0, 1}]]
      /\ left' \in [Procs -> [known : BOOLEAN, cfg : Config]]
  BY FreshType, Zenon DEF Disconnect, TInv, TypeOK
<1> QED
  BY <1>1, <1>2, Zenon DEF Disconnect, TInv, TypeOK

LEMMA AttachType == ASSUME TInv, NEW c \in Procs, Attach(c) PROVE TInv'
<1>1. call' \in [Procs -> Call] /\ StoreTyped'
  BY CallStepAt, Zenon DEF Attach
<1> QED
  BY <1>1, Zenon DEF Attach, TInv, TypeOK

LEMMA RebootType ==
    ASSUME TInv, NEW registers \in Config, Reboot(registers) PROVE TInv'
<1>1. call' \in [Procs -> Call]
  BY AtType DEF Reboot
<1>2. StoreTyped'
  BY DEF Reboot, StoreTyped, At
<1>3. restarts' \in 0 .. MaxRestarts
  BY BoundsAssumption, SMT DEF Reboot, TInv, TypeOK
<1>4. /\ wave' \in [Procs -> [Waveforms -> {0, 1}]]
      /\ left' \in [Procs -> [known : BOOLEAN, cfg : Config]]
  BY FreshType, Zenon DEF Reboot
<1> QED
  BY <1>1, <1>2, <1>3, <1>4, Zenon DEF Reboot, TInv, TypeOK

LEMMA GenResetType == ASSUME NEW r \in Config PROVE GenReset(r) \in Config
BY CountsNat DEF GenReset, Config

-----------------------------------------------------------------------------
LEMMA ClientStepType ==
    ASSUME TInv, NEW c \in Procs, ClientStep(c) PROVE TInv'
BY SetType, StoreType, StartSaveType, ReadSettingType, OpenToSaveType,
   WriteFileType, StartLoadType, StartResetType, ApplyType, DisconnectType, Zenon
   DEF ClientStep

LEMMA TInvInit == Init => TInv
<1> SUFFICES ASSUME Init PROVE TInv
  OBVIOUS
<1>1. call \in [Procs -> Call]
  BY AtType DEF Init
<1>2. StoreTyped
  BY DEF Init, StoreTyped, At
<1>3. file \in [kind : {"none", "empty", "whole"}, cfg : Config]
  BY ZerosType DEF Init
<1>4. /\ wave \in [Procs -> [Waveforms -> {0, 1}]]
      /\ left \in [Procs -> [known : BOOLEAN, cfg : Config]]
  BY FreshType, Zenon DEF Init
<1>5. calls \in 0 .. MaxCalls /\ restarts \in 0 .. MaxRestarts
  BY BoundsAssumption, SMT DEF Init
<1>6. reg \in Config /\ acked \in Config /\ atSave \in Config
  BY ZerosType DEF Init
<1> QED
  BY <1>1, <1>2, <1>3, <1>4, <1>5, <1>6, Zenon DEF TInv, TypeOK

LEMMA TInvStep == TInv /\ [Next]_vars => TInv'
<1> SUFFICES ASSUME TInv, [Next]_vars PROVE TInv'
  OBVIOUS
<1> USE DEF Procs, Clients
<1>1. CASE ServerStep
  BY <1>1, BootLoadType, ApplyType, StoreType, Zenon DEF ServerStep
<1>2. CASE \E c \in Clients : ClientStep(c)
  BY <1>2, ClientStepType, Zenon
<1>3. CASE \E c \in Children : Connect(c)
  BY <1>3, ConnectType, Zenon
<1>4. CASE \E c \in Webs : Attach(c)
  BY <1>4, AttachType, Zenon
<1>5. CASE RestartServices \/ PowerLoss
  <2>1. reg \in Config
    BY DEF TInv, TypeOK
  <2> QED
    BY <1>5, <2>1, ZerosType, GenResetType, RebootType, Zenon DEF RestartServices, PowerLoss
<1>6. CASE UNCHANGED vars
  BY <1>6, Zenon DEF vars, TInv, TypeOK, StoreTyped
<1> QED
  BY <1>1, <1>2, <1>3, <1>4, <1>5, <1>6, Zenon DEF Next

(* The settings, the file and the calls keep their types: what a getter    *)
(* reads and a save stores, the setter takes back, whatever the processes  *)
(* and their interleaving.                                                 *)
THEOREM TypeCorrect == Spec => []TypeOK
<1>1. TInv => TypeOK
  BY DEF TInv
<1> QED
  BY <1>1, TInvInit, TInvStep, PTL DEF Spec

-----------------------------------------------------------------------------
(***************************************************************************)
(* Calls that do not overlap.                                              *)
(***************************************************************************)
Serialized == \A c, d \in Procs : Busy(c) /\ Busy(d) => c = d

(* What a setter loaded is still what the word holds.                      *)
WordsCurrent ==
    \A c \in Procs : call[c].pc = "store" =>
       \A t \in Rewritten(call[c].target) : call[c].word[t] = reg[t]

Sticks == \A s \in Settings : IsWaveform(s) \/ reg[s] = acked[s]

SInv == TInv /\ Serialized /\ WordsCurrent /\ Sticks

(* A step of one process that leaves the registers alone.                  *)
LEMMA QuietStep ==
    ASSUME SInv, NEW c \in Procs, NEW x,
           call' = [call EXCEPT ![c] = x],
           x.pc \in {"down", "idle"} \/ Busy(c) \/ \A d \in Procs : ~Busy(d),
           x.pc = "store" => \A t \in Rewritten(x.target) : x.word[t] = reg[t],
           UNCHANGED <<reg, acked>>
    PROVE  Serialized' /\ WordsCurrent' /\ Sticks'
<1>1. call'[c] = x /\ \A d \in Procs : d # c => call'[d] = call[d]
  BY DEF SInv, TInv, TypeOK
<1>2. Serialized'
  BY <1>1 DEF SInv, Serialized, Busy
<1>3. WordsCurrent'
  BY <1>1 DEF SInv, WordsCurrent, Rewritten
<1>4. Sticks'
  BY DEF SInv, Sticks
<1> QED
  BY <1>2, <1>3, <1>4

LEMMA QuietStepTo ==
    ASSUME SInv, NEW c \in Procs, NEW pc \in {"down", "idle"},
           call' = [call EXCEPT ![c] = At(pc)], UNCHANGED <<reg, acked>>
    PROVE  Serialized' /\ WordsCurrent' /\ Sticks'
<1>1. At(pc).pc = pc
  BY DEF At
<1> QED
  BY <1>1, QuietStep

LEMMA LoadedWord ==
    ASSUME NEW op, NEW s, NEW n, NEW todo, NEW cfg
    PROVE  \A t \in Rewritten(s) : Loaded(op, s, n, todo, cfg).word[t] = reg[t]
BY DEF Loaded, Rewritten

LEMMA SetSerial ==
    ASSUME SInv, Serial, NEW c \in Procs, NEW s, NEW n, Set(c, s, n)
    PROVE  Serialized' /\ WordsCurrent' /\ Sticks'
<1> DEFINE x == Loaded("set", s, n, {}, Zeros)
<1>1. \A d \in Procs : ~Busy(d)
  BY DEF Set, MayCall
<1>2. x.target = s /\ \A t \in Rewritten(s) : x.word[t] = reg[t]
  BY LoadedWord DEF Loaded
<1>3. call' = [call EXCEPT ![c] = x] /\ UNCHANGED <<reg, acked>>
  BY DEF Set
<1> QED
  <2> HIDE DEF x
  <2> QED BY <1>1, <1>2, <1>3, QuietStep

LEMMA StoreSerial ==
    ASSUME SInv, NEW c \in Procs, Store(c)
    PROVE  Serialized' /\ WordsCurrent' /\ Sticks'
<1> DEFINE q == call[c]
<1>1. /\ q \in Call /\ q.pc = "store" /\ q.target \in Settings
      /\ \A t \in Rewritten(q.target) : q.word[t] = reg[t]
  BY CallType DEF SInv, TInv, StoreTyped, WordsCurrent, Store
<1>2. Busy(c)
  BY <1>1 DEF Busy
<1>3. \A d \in Procs : d # c => ~Busy(d) /\ call'[d] = call[d]
  BY <1>2 DEF SInv, Serialized, Store, TInv, TypeOK
<1>4. call'[c].pc \in {"idle", "apply"}
  BY <1>1 DEF Store, At, Call, SInv, TInv, TypeOK
<1>5. Serialized'
  BY <1>3 DEF Serialized, Busy
<1>6. WordsCurrent'
  BY <1>3, <1>4 DEF WordsCurrent, Busy
<1>7. ASSUME NEW s \in Settings, ~IsWaveform(s) PROVE reg'[s] = acked'[s]
  <2>1. reg' = Stored(q, wave[c]) /\ acked' = [acked EXCEPT ![q.target] = q.value]
    BY DEF Store
  <2>2. acked \in Config /\ reg[s] = acked[s]
    BY <1>7 DEF SInv, TInv, TypeOK, Sticks
  <2>3. CASE s = q.target
    BY <2>1, <2>2, <2>3 DEF Stored, Config
  <2>4. CASE s # q.target
    <3>1. s # Waveform(q.target[2])
      BY <1>7 DEF Waveform, IsWaveform
    <3>2. reg'[s] = reg[s]
      BY <1>1, <2>1, <2>4, <3>1 DEF Stored
    <3>3. acked'[s] = acked[s]
      BY <2>1, <2>2, <2>4 DEF Config
    <3> QED
      BY <2>2, <3>2, <3>3
  <2> QED
    BY <2>3, <2>4
<1>8. Sticks'
  BY <1>7 DEF Sticks
<1> QED
  BY <1>5, <1>6, <1>8

LEMMA StartSaveSerial ==
    ASSUME SInv, Serial, NEW c \in Procs, StartSave(c)
    PROVE  Serialized' /\ WordsCurrent' /\ Sticks'
<1> DEFINE x == [At("read") EXCEPT !.op = "save", !.todo = Todo]
<1>1. \A d \in Procs : ~Busy(d)
  BY DEF StartSave, MayCall
<1>2. x.pc # "store"
  BY DEF At
<1>3. call' = [call EXCEPT ![c] = x] /\ UNCHANGED <<reg, acked>>
  BY DEF StartSave
<1> QED
  <2> HIDE DEF x
  <2> QED BY <1>1, <1>2, <1>3, QuietStep

LEMMA ReadSettingSerial ==
    ASSUME SInv, NEW c \in Procs, ReadSetting(c)
    PROVE  Serialized' /\ WordsCurrent' /\ Sticks'
<1>1. call[c] \in Call /\ call[c].pc = "read" /\ Busy(c) /\ UNCHANGED <<reg, acked>>
  BY CallType DEF SInv, TInv, ReadSetting, Busy
<1>2. PICK x : call' = [call EXCEPT ![c] = x] /\ x.pc \in {"read", "open"}
  <2>1. CASE call[c].todo = {}
    <3>1. call' = [call EXCEPT ![c] = [call[c] EXCEPT !.pc = "open"]]
      BY <2>1 DEF ReadSetting, SInv, TInv, TypeOK
    <3>2. [call[c] EXCEPT !.pc = "open"].pc = "open"
      BY <1>1, Zenon DEF Call
    <3> QED
      BY <3>1, <3>2, Zenon
  <2>2. CASE call[c].todo # {}
    <3>1. PICK k \in call[c].todo :
             call' = [call EXCEPT ![c] =
                [call[c] EXCEPT !.todo = @ \ {k},
                          !.cfg = [@ EXCEPT ![SettingAt(k)] = Get(c, SettingAt(k))]]]
      BY <2>2, Zenon DEF ReadSetting
    <3> DEFINE x == [call[c] EXCEPT !.todo = @ \ {k},
                          !.cfg = [@ EXCEPT ![SettingAt(k)] = Get(c, SettingAt(k))]]
    <3>2. x.pc = "read"
      BY <1>1, Zenon DEF Call
    <3> QED
      BY <3>1, <3>2, Zenon
  <2> QED
    BY <2>1, <2>2
<1> QED
  BY <1>1, <1>2, QuietStep

LEMMA OpenToSaveSerial ==
    ASSUME SInv, NEW c \in Procs, OpenToSave(c)
    PROVE  Serialized' /\ WordsCurrent' /\ Sticks'
<1>1. call[c] \in Call /\ Busy(c) /\ UNCHANGED <<reg, acked>>
  BY CallType DEF SInv, TInv, OpenToSave, Busy
<1>2. CASE call' = [call EXCEPT ![c].pc = "write"]
  <2> DEFINE x == [call[c] EXCEPT !.pc = "write"]
  <2>1. x.pc # "store" /\ call' = [call EXCEPT ![c] = x]
    BY <1>1, <1>2 DEF Call
  <2> QED
    <3> HIDE DEF x
    <3> QED BY <1>1, <2>1, QuietStep
<1>3. CASE call' = [call EXCEPT ![c] = At("idle")]
  BY <1>1, <1>3, QuietStepTo
<1> QED
  BY <1>2, <1>3 DEF OpenToSave

LEMMA WriteFileSerial ==
    ASSUME SInv, NEW c \in Procs, WriteFile(c)
    PROVE  Serialized' /\ WordsCurrent' /\ Sticks'
BY QuietStepTo, Zenon DEF WriteFile

(* The call that reads the file is the one under way, or there is none.    *)
LEMMA ReadFileSerial ==
    ASSUME SInv, NEW c \in Procs, ReadFile(c), UNCHANGED <<reg, acked>>,
           Busy(c) \/ \A d \in Procs : ~Busy(d)
    PROVE  Serialized' /\ WordsCurrent' /\ Sticks'
<1>1. PICK cfg \in FileContents(c) :
         call' = [call EXCEPT ![c] =
                    [At("apply") EXCEPT !.op = "load", !.todo = Todo, !.cfg = cfg]]
  BY Zenon DEF ReadFile
<1> DEFINE x == [At("apply") EXCEPT !.op = "load", !.todo = Todo, !.cfg = cfg]
<1>2. x.pc # "store"
  BY DEF At
<1>3. call' = [call EXCEPT ![c] = x]
  BY <1>1
<1> QED
  <2> HIDE DEF x
  <2> QED BY <1>2, <1>3, QuietStep

LEMMA RefuseFileSerial ==
    ASSUME SInv, NEW c \in Procs, RefuseFile(c), UNCHANGED <<reg, acked>>
    PROVE  Serialized' /\ WordsCurrent' /\ Sticks'
BY QuietStepTo, Zenon DEF RefuseFile

LEMMA StartLoadSerial ==
    ASSUME SInv, Serial, NEW c \in Procs, StartLoad(c)
    PROVE  Serialized' /\ WordsCurrent' /\ Sticks'
<1>1. (\A d \in Procs : ~Busy(d)) /\ UNCHANGED <<reg, acked>>
  BY DEF StartLoad, MayCall
<1> QED
  BY <1>1, ReadFileSerial, RefuseFileSerial, Zenon DEF StartLoad

LEMMA StartResetSerial ==
    ASSUME SInv, Serial, NEW c \in Procs, StartReset(c)
    PROVE  Serialized' /\ WordsCurrent' /\ Sticks'
<1> DEFINE todo == {k \in Todo : IsReset(SettingAt(k))}
           x == [At("apply") EXCEPT !.op = "reset", !.todo = todo]
<1>1. \A d \in Procs : ~Busy(d)
  BY DEF StartReset, MayCall
<1>2. x.pc # "store"
  BY DEF At
<1>3. call' = [call EXCEPT ![c] = x] /\ UNCHANGED <<reg, acked>>
  BY DEF StartReset
<1> QED
  <2> HIDE DEF x
  <2> QED BY <1>1, <1>2, <1>3, QuietStep

LEMMA BootLoadSerial ==
    ASSUME SInv, BootLoad
    PROVE  Serialized' /\ WordsCurrent' /\ Sticks'
<1>1. Server \in Procs /\ Busy(Server) /\ UNCHANGED <<reg, acked>>
  BY DEF BootLoad, Procs, Busy
<1> QED
  BY <1>1, ReadFileSerial, RefuseFileSerial, Zenon DEF BootLoad

LEMMA ApplySerial ==
    ASSUME SInv, NEW c \in Procs, Apply(c)
    PROVE  Serialized' /\ WordsCurrent' /\ Sticks'
<1>1. Busy(c) /\ UNCHANGED <<reg, acked>>
  BY DEF Apply, Busy
<1>2. CASE call[c].todo = {}
  <2>1. call' = [call EXCEPT ![c] = At("idle")]
    BY <1>2, Zenon DEF Apply
  <2> QED
    BY <1>1, <2>1, QuietStepTo
<1>3. CASE call[c].todo # {}
  <2>1. PICK k \in call[c].todo :
           call' = [call EXCEPT ![c] =
                      Loaded(call[c].op, SettingAt(k),
                             Restored(SettingAt(k), call[c].cfg[SettingAt(k)]),
                             call[c].todo \ {k}, call[c].cfg)]
    BY <1>3, Zenon DEF Apply
  <2> DEFINE s == SettingAt(k)
             n == Restored(s, call[c].cfg[s])
             x == Loaded(call[c].op, s, n, call[c].todo \ {k}, call[c].cfg)
  <2>2. x.target = s /\ \A t \in Rewritten(s) : x.word[t] = reg[t]
    <3> HIDE DEF s, n
    <3> QED BY LoadedWord DEF Loaded
  <2>3. call' = [call EXCEPT ![c] = x]
    BY <2>1
  <2> QED
    <3> HIDE DEF x, s
    <3> QED BY <1>1, <2>2, <2>3, QuietStep
<1> QED
  BY <1>2, <1>3

LEMMA ComeAndGoSerial ==
    ASSUME SInv, NEW c \in Procs, Connect(c) \/ Disconnect(c) \/ Attach(c)
    PROVE  Serialized' /\ WordsCurrent' /\ Sticks'
<1>1. UNCHANGED <<reg, acked>>
  BY DEF Connect, Disconnect, Attach
<1>2. PICK pc \in {"down", "idle"} : call' = [call EXCEPT ![c] = At(pc)]
  BY Zenon DEF Connect, Disconnect, Attach
<1> QED
  BY <1>1, <1>2, QuietStepTo

LEMMA RebootSerial ==
    ASSUME NEW registers, Reboot(registers)
    PROVE  Serialized' /\ WordsCurrent' /\ Sticks'
<1>1. \A c \in Procs : c # Server => call'[c].pc = "down"
  BY DEF Reboot, At
<1>2. \A c \in Procs : call'[c].pc \in {"boot", "down"}
  BY DEF Reboot, At
<1>3. Serialized'
  BY <1>1 DEF Serialized, Busy
<1>4. WordsCurrent'
  BY <1>2 DEF WordsCurrent
<1>5. Sticks'
  BY DEF Reboot, Sticks
<1> QED
  BY <1>3, <1>4, <1>5

-----------------------------------------------------------------------------
LEMMA ClientStepSerial ==
    ASSUME SInv, Serial, NEW c \in Procs, ClientStep(c)
    PROVE  Serialized' /\ WordsCurrent' /\ Sticks'
BY SetSerial, StoreSerial, StartSaveSerial, ReadSettingSerial, OpenToSaveSerial,
   WriteFileSerial, StartLoadSerial, StartResetSerial, ApplySerial, ComeAndGoSerial, Zenon
   DEF ClientStep

LEMMA SInvInit == Init => SInv
<1> SUFFICES ASSUME Init PROVE Serialized /\ WordsCurrent /\ Sticks
  BY TInvInit DEF SInv
<1>1. \A c \in Procs : c # Server => call[c].pc = "down"
  BY DEF Init, At
<1>2. \A c \in Procs : call[c].pc \in {"boot", "down"}
  BY DEF Init, At
<1>3. Serialized
  BY <1>1 DEF Serialized, Busy
<1>4. WordsCurrent
  BY <1>2 DEF WordsCurrent
<1>5. Sticks
  BY DEF Init, Sticks
<1> QED
  BY <1>3, <1>4, <1>5

LEMMA SInvStep == Serial /\ SInv /\ [Next]_vars => SInv'
<1> SUFFICES ASSUME Serial, SInv, [Next]_vars
             PROVE  Serialized' /\ WordsCurrent' /\ Sticks'
  BY TInvStep DEF SInv
<1> USE DEF Procs, Clients
<1>1. CASE ServerStep
  BY <1>1, BootLoadSerial, ApplySerial, StoreSerial, Zenon DEF ServerStep
<1>2. CASE \E c \in Clients : ClientStep(c)
  BY <1>2, ClientStepSerial, Zenon
<1>3. CASE \E c \in Children : Connect(c)
  BY <1>3, ComeAndGoSerial, Zenon
<1>4. CASE \E c \in Webs : Attach(c)
  BY <1>4, ComeAndGoSerial, Zenon
<1>5. CASE RestartServices \/ PowerLoss
  BY <1>5, RebootSerial, Zenon DEF RestartServices, PowerLoss
<1>6. CASE UNCHANGED vars
  BY <1>6, Zenon DEF vars, SInv, Serialized, WordsCurrent, Sticks, Busy
<1> QED
  BY <1>1, <1>2, <1>3, <1>4, <1>5, <1>6, Zenon DEF Next

(* As long as no call begins before the one under way has ended, a setting *)
(* changes by its own setter, a load or a reset and by nothing else: the   *)
(* setters that store a whole word back (the switches of the PIDs, those   *)
(* of the generators) leave the other settings of the word as they were,   *)
(* for every set of settings and any number of processes, restarts and     *)
(* power losses.                                                           *)
THEOREM SerialSettingsStick == Serial => (Spec => []SettingsStick)
<1> SUFFICES ASSUME Serial PROVE Spec => []SettingsStick
  OBVIOUS
<1>1. Serial
  OBVIOUS
<1>2. SInv /\ [Next]_vars => SInv'
  BY <1>1, SInvStep
<1>3. SInv => SettingsStick
  BY DEF SInv, Sticks, SettingsStick
<1> QED
  BY <1>2, <1>3, SInvInit, PTL DEF Spec
-----------------------------------------------------------------------------
(***************************************************************************)
(* Loads and saves, one call at a time.                                    *)
(***************************************************************************)

(* The setting at place j is as a load of cfg leaves it; as a save that    *)
(* keeps cfg has read it.  The waveform is neither.                        *)
IsLoaded(j, cfg) ==
    \/ IsWaveform(SettingAt(j))
    \/ reg[SettingAt(j)] = Restored(SettingAt(j), cfg[SettingAt(j)])
IsRead(j, cfg) ==
    \/ IsWaveform(SettingAt(j))
    \/ cfg[SettingAt(j)] = reg[SettingAt(j)]

(* A load has set what comes before the rest of its todo.                  *)
LoadOK(q) ==
    /\ file.kind = "whole" => q.cfg = file.cfg
    /\ \A j \in Todo \ q.todo, i \in q.todo : j < i
    /\ \A j \in Todo \ q.todo :
          \/ q.pc = "store" /\ SettingAt(j) = q.target
          \/ IsLoaded(j, q.cfg)
    /\ q.pc = "store" =>
          /\ q.value = Restored(q.target, q.cfg[q.target])
          /\ \E k \in Todo \ q.todo : q.target = SettingAt(k)

SaveOK(q) ==
    /\ \A j \in Todo \ q.todo : IsRead(j, q.cfg)
    /\ q.pc # "read" => q.todo = {}

CallOK(q) ==
    /\ q.pc \in {"apply", "store"} /\ q.op = "load" => LoadOK(q)
    /\ q.pc \in {"read", "open", "write"} => SaveOK(q)

(* A whole file holds what the registers read at the last save.            *)
FileOK ==
    file.kind = "whole" =>
       \A s \in Settings : IsWaveform(s) \/ file.cfg[s] = atSave[s]

CallsOK == \A c \in Procs : CallOK(call[c])

CInv == SInv /\ CallsOK /\ FileOK

LEMMA AtIsOK ==
    ASSUME NEW pc \in {"boot", "down", "idle"}
    PROVE  CallOK(At(pc))' /\ CallOK(At(pc))
BY DEF CallOK, At

(* A step of the one call under way. *)
LEMMA CallGoesOn ==
    ASSUME SInv, NEW c \in Procs, NEW x, call' = [call EXCEPT ![c] = x],
           \A d \in Procs : d # c => ~Busy(d),
           CallOK(x)'
    PROVE  CallsOK'
<1>1. call'[c] = x /\ \A d \in Procs : d # c => call'[d] = call[d]
  BY DEF SInv, TInv, TypeOK
<1>2. ASSUME NEW d \in Procs, d # c PROVE CallOK(call[d])'
  <2>1. call'[d].pc \in {"down", "idle"}
    BY <1>1, <1>2 DEF Busy
  <2> QED
    BY <2>1 DEF CallOK
<1> QED
  BY <1>1, <1>2 DEF CallsOK

(* A process that comes, goes or has nothing to do disturbs no call.       *)
LEMMA NoCallGoesOn ==
    ASSUME SInv, CallsOK, NEW c \in Procs, NEW pc \in {"down", "idle"},
           call' = [call EXCEPT ![c] = At(pc)], UNCHANGED <<reg, file>>
    PROVE  CallsOK'
<1>1. call'[c] = At(pc) /\ \A d \in Procs : d # c => call'[d] = call[d]
  BY DEF SInv, TInv, TypeOK
<1>2. CallOK(call[c])'
  <2>1. call'[c].pc \in {"down", "idle"}
    BY <1>1 DEF At
  <2> QED
    BY <2>1 DEF CallOK
<1>3. ASSUME NEW d \in Procs, d # c PROVE CallOK(call[d])'
  <2>1. call'[d] = call[d] /\ CallOK(call[d])
    BY <1>1, <1>3 DEF CallsOK
  <2> QED
    BY <2>1 DEF CallOK, LoadOK, SaveOK, IsLoaded, IsRead
<1> QED
  BY <1>2, <1>3 DEF CallsOK

LEMMA FileStays ==
    ASSUME FileOK, UNCHANGED <<file, atSave>> PROVE FileOK'
BY DEF FileOK

(* A setter sets its own setting; of the others only a waveform changes.   *)
LEMMA StoreSets ==
    ASSUME SInv, NEW c \in Procs, Store(c)
    PROVE  /\ reg'[call[c].target] = call[c].value
           /\ \A s \in Settings :
                 IsWaveform(s) \/ s = call[c].target \/ reg'[s] = reg[s]
<1> DEFINE q == call[c]
<1>1. /\ q \in Call /\ q.pc = "store" /\ q.target \in Settings
      /\ \A t \in Rewritten(q.target) : q.word[t] = reg[t]
      /\ reg' = Stored(q, wave[c])
  BY CallType DEF SInv, TInv, StoreTyped, WordsCurrent, Store
<1> HIDE DEF q
<1>2. reg'[q.target] = q.value
  BY <1>1 DEF Stored
<1>3. ASSUME NEW s \in Settings, ~IsWaveform(s), s # q.target
      PROVE  reg'[s] = reg[s]
  <2>1. s # Waveform(q.target[2])
    BY <1>3 DEF Waveform, IsWaveform
  <2> QED
    BY <1>1, <1>3, <2>1 DEF Stored
<1> QED
  BY <1>2, <1>3 DEF q

LEMMA OthersRest ==
    ASSUME SInv, NEW c \in Procs, Busy(c)
    PROVE  \A d \in Procs : d # c => ~Busy(d)
BY DEF SInv, Serialized

LEMMA SetOK ==
    ASSUME CInv, Serial, NEW c \in Procs, NEW s, NEW n, Set(c, s, n)
    PROVE  CallsOK' /\ FileOK'
<1>1. PICK x : x = Loaded("set", s, n, {}, Zeros)
  OBVIOUS
<1>2. x.pc = "store" /\ x.op = "set"
  BY <1>1 DEF Loaded
<1>3. CallOK(x)'
  BY <1>2 DEF CallOK
<1>4. /\ call' = [call EXCEPT ![c] = x] /\ \A d \in Procs : ~Busy(d)
      /\ UNCHANGED <<file, atSave>>
  BY <1>1 DEF Set, MayCall
<1> QED
  BY <1>3, <1>4, CallGoesOn, FileStays DEF CInv

LEMMA StoreOK ==
    ASSUME CInv, NEW c \in Procs, Store(c)
    PROVE  CallsOK' /\ FileOK'
<1>0. PICK q : q = call[c]
  OBVIOUS
<1>1. /\ q \in Call /\ q.pc = "store" /\ q.target \in Settings /\ Busy(c) /\ SInv
      /\ UNCHANGED <<file, atSave>> /\ CallOK(q)
  BY <1>0, CallType DEF CInv, SInv, TInv, StoreTyped, Store, Busy, CallsOK
<1>2. PICK x : /\ x = IF q.todo = {} THEN At("idle") ELSE [q EXCEPT !.pc = "apply"]
               /\ call' = [call EXCEPT ![c] = x]
  BY <1>0, Zenon DEF Store
<1>3. CallOK(x)'
  <2>1. CASE q.todo = {}
    BY <1>2, <2>1, AtIsOK
  <2>2. CASE q.todo # {}
    <3>1. /\ x.pc = "apply" /\ x.op = q.op /\ x.cfg = q.cfg /\ x.todo = q.todo
      <4>1. x = [q EXCEPT !.pc = "apply"]
        BY <1>2, <2>2
      <4> QED
        BY <1>1, <4>1 DEF Call
    <3>2. SUFFICES ASSUME q.op = "load" PROVE LoadOK(x)'
      BY <3>1 DEF CallOK
    <3>3. LoadOK(q)
      BY <1>1, <3>2 DEF CallOK
    <3>4. \A j \in Todo \ q.todo : IsLoaded(j, q.cfg)'
      <4> TAKE j \in Todo \ q.todo
      <4>1. PICK s : s = SettingAt(j)
        OBVIOUS
      <4>2. /\ s \in Settings
            /\ s = q.target \/ IsWaveform(s) \/ reg[s] = Restored(s, q.cfg[s])
            /\ q.value = Restored(q.target, q.cfg[q.target])
        BY <1>1, <3>3, <4>1, TodoSetting, Zenon DEF LoadOK, IsLoaded
      <4>3. /\ reg'[q.target] = q.value
            /\ IsWaveform(s) \/ s = q.target \/ reg'[s] = reg[s]
        BY <1>0, <1>1, <4>2, StoreSets
      <4>4. IsWaveform(s) \/ reg'[s] = Restored(s, q.cfg[s])
        BY <4>2, <4>3, Zenon
      <4> QED
        BY <4>1, <4>4, Zenon DEF IsLoaded
    <3> QED
      <4> QED
        BY <1>1, <3>1, <3>3, <3>4 DEF LoadOK
  <2> QED
    BY <2>1, <2>2
<1> QED
  BY <1>1, <1>2, <1>3, OthersRest, CallGoesOn, FileStays DEF CInv

LEMMA StartSaveOK ==
    ASSUME CInv, Serial, NEW c \in Procs, StartSave(c)
    PROVE  CallsOK' /\ FileOK'
<1>1. PICK x : /\ x = [At("read") EXCEPT !.op = "save", !.todo = Todo]
               /\ call' = [call EXCEPT ![c] = x]
  BY DEF StartSave
<1>2. x.pc = "read" /\ x.todo = Todo
  BY <1>1 DEF At
<1>3. CallOK(x)'
  BY <1>2 DEF CallOK, SaveOK
<1>4. (\A d \in Procs : ~Busy(d)) /\ UNCHANGED <<file, atSave>>
  BY DEF StartSave, MayCall
<1> QED
  BY <1>1, <1>3, <1>4, CallGoesOn, FileStays DEF CInv

LEMMA ReadSettingOK ==
    ASSUME CInv, NEW c \in Procs, ReadSetting(c)
    PROVE  CallsOK' /\ FileOK'
<1>0. PICK q : q = call[c]
  OBVIOUS
<1>1. /\ q \in Call /\ q.pc = "read" /\ Busy(c) /\ SInv /\ SaveOK(q)
      /\ UNCHANGED <<reg, file, atSave>>
  BY <1>0, CallType DEF CInv, SInv, TInv, ReadSetting, Busy, CallsOK, CallOK
<1>2. CASE q.todo = {}
  <2>1. PICK x : /\ x = [q EXCEPT !.pc = "open"]
                 /\ call' = [call EXCEPT ![c] = x]
    BY <1>0, <1>2 DEF ReadSetting, CInv, SInv, TInv, TypeOK
  <2>2. x.pc = "open" /\ x.todo = {} /\ x.cfg = q.cfg
    <3> QED BY <1>1, <1>2, <2>1 DEF Call
  <2>3. CallOK(x)'
    <3>1. \A j \in Todo : IsRead(j, q.cfg)'
      BY <1>1, <1>2, Zenon DEF SaveOK, IsRead
    <3> QED
      BY <2>2, <3>1 DEF CallOK, SaveOK
  <2> QED
    BY <1>1, <2>1, <2>3, OthersRest, CallGoesOn, FileStays DEF CInv
<1>3. CASE q.todo # {}
  <2>0. PICK k \in q.todo :
           call' = [call EXCEPT ![c] = [q EXCEPT !.todo = @ \ {k},
                       !.cfg = [@ EXCEPT ![SettingAt(k)] = Get(c, SettingAt(k))]]]
    BY <1>0, <1>3, Zenon DEF ReadSetting
  <2>1. PICK x :
           /\ x = [q EXCEPT !.todo = @ \ {k},
                            !.cfg = [@ EXCEPT ![SettingAt(k)] = Get(c, SettingAt(k))]]
           /\ call' = [call EXCEPT ![c] = x]
    BY <2>0, Zenon
  <2>2. PICK s : s = SettingAt(k)
    OBVIOUS
  <2>3. s \in Settings /\ k \in Todo
    BY <1>1, <2>1, <2>2, TodoSetting DEF Call
  <2>4. /\ x.pc = "read" /\ x.todo = q.todo \ {k}
        /\ x.cfg[s] = Get(c, s)
        /\ \A t \in Settings : t # s => x.cfg[t] = q.cfg[t]
    <3>1. x = [q EXCEPT !.todo = q.todo \ {k}, !.cfg = [q.cfg EXCEPT ![s] = Get(c, s)]]
      BY <2>1, <2>2
    <3> QED
      BY <1>1, <2>3, <3>1 DEF Call, Config
  <2>5. \A j \in Todo \ x.todo : IsRead(j, x.cfg)'
    <3> TAKE j \in Todo \ x.todo
    <3>1. PICK t : t = SettingAt(j)
      OBVIOUS
    <3>2. t \in Settings /\ (j = k \/ j \in Todo \ q.todo)
      BY <2>4, <3>1, TodoSetting
    <3>3. CASE t = s
      BY <1>1, <2>4, <3>1, <3>3, Zenon DEF IsRead, Get
    <3>4. CASE t # s
      <4>1. IsRead(j, q.cfg)
        BY <1>1, <2>2, <3>1, <3>2, <3>4 DEF SaveOK
      <4> QED
        BY <1>1, <2>4, <3>1, <3>2, <3>4, <4>1, Zenon DEF IsRead
    <3> QED
      BY <3>3, <3>4
  <2>6. CallOK(x)'
    BY <2>4, <2>5 DEF CallOK, SaveOK
  <2> QED
    BY <1>1, <2>1, <2>6, OthersRest, CallGoesOn, FileStays DEF CInv
<1> QED
  BY <1>2, <1>3

LEMMA OpenToSaveOK ==
    ASSUME CInv, NEW c \in Procs, OpenToSave(c)
    PROVE  CallsOK' /\ FileOK'
<1>0. PICK q : q = call[c]
  OBVIOUS
<1>1. /\ q \in Call /\ q.pc = "open" /\ Busy(c) /\ SInv /\ SaveOK(q)
      /\ UNCHANGED <<reg, atSave>>
  BY <1>0, CallType DEF CInv, SInv, TInv, OpenToSave, Busy, CallsOK, CallOK
<1>2. CASE file' = [kind |-> "empty", cfg |-> Zeros] /\ call' = [call EXCEPT ![c].pc = "write"]
  <2>1. PICK x : /\ x = [q EXCEPT !.pc = "write"]
                 /\ call' = [call EXCEPT ![c] = x]
    BY <1>0, <1>2 DEF CInv, SInv, TInv, TypeOK
  <2>2. x.pc = "write" /\ x.todo = q.todo /\ x.cfg = q.cfg
    <3> QED BY <1>1, <2>1 DEF Call
  <2>3. CallOK(x)'
    <3>1. \A j \in Todo \ q.todo : IsRead(j, q.cfg)'
      BY <1>1, Zenon DEF SaveOK, IsRead
    <3> QED
      BY <1>1, <2>2, <3>1 DEF CallOK, SaveOK
  <2>4. FileOK'
    BY <1>2 DEF FileOK
  <2> QED
    BY <1>1, <2>1, <2>3, <2>4, OthersRest, CallGoesOn
<1>3. CASE call' = [call EXCEPT ![c] = At("idle")] /\ UNCHANGED file
  BY <1>1, <1>3, NoCallGoesOn, FileStays DEF CInv
<1> QED
  BY <1>2, <1>3 DEF OpenToSave

(* Every setting has its place. *)
LEMMA HasPlace == \A s \in Settings : \E k \in Todo : SettingAt(k) = s
BY SettingsAssumption DEF Todo

LEMMA WriteFileOK ==
    ASSUME CInv, NEW c \in Procs, WriteFile(c)
    PROVE  CallsOK' /\ FileOK'
<1> DEFINE q == call[c]
<1>1. /\ q \in Call /\ q.pc = "write" /\ Busy(c) /\ SInv /\ SaveOK(q)
  BY CallType DEF CInv, SInv, TInv, WriteFile, Busy, CallsOK, CallOK
<1>2. CallsOK'
  BY <1>1, AtIsOK, OthersRest, CallGoesOn DEF WriteFile
<1>3. FileOK'
  <2>1. file'.cfg = q.cfg /\ atSave' = reg /\ q.todo = {}
    BY <1>1 DEF WriteFile, SaveOK
  <2>2. ASSUME NEW s \in Settings
        PROVE  IsWaveform(s) \/ q.cfg[s] = reg[s]
    <3>1. PICK k \in Todo : SettingAt(k) = s
      BY HasPlace
    <3>2. IsRead(k, q.cfg)
      BY <1>1, <2>1 DEF SaveOK
    <3> QED
      BY <3>1, <3>2, Zenon DEF IsRead
  <2> QED
    BY <2>1, <2>2, Zenon DEF FileOK
<1> QED
  BY <1>2, <1>3

LEMMA ReadFileOK ==
    ASSUME CInv, NEW c \in Procs, ReadFile(c), UNCHANGED <<reg, file, atSave>>,
           \A d \in Procs : d # c => ~Busy(d)
    PROVE  CallsOK' /\ FileOK'
<1>1. PICK cfg \in FileContents(c) :
         call' = [call EXCEPT ![c] =
                    [At("apply") EXCEPT !.op = "load", !.todo = Todo, !.cfg = cfg]]
  BY Zenon DEF ReadFile
<1>2. PICK x : x = [At("apply") EXCEPT !.op = "load", !.todo = Todo, !.cfg = cfg]
  OBVIOUS
<1>3. x.pc = "apply" /\ x.todo = Todo /\ x.cfg = cfg
  BY <1>2 DEF At
<1>4. file.kind = "whole" => cfg = file.cfg
  BY <1>1, Zenon DEF FileContents
<1>5. CallOK(x)'
  BY <1>3, <1>4 DEF CallOK, LoadOK
<1> QED
  BY <1>1, <1>2, <1>5, CallGoesOn, FileStays DEF CInv

LEMMA RefuseFileOK ==
    ASSUME CInv, NEW c \in Procs, RefuseFile(c), UNCHANGED <<reg, file, atSave>>
    PROVE  CallsOK' /\ FileOK'
BY NoCallGoesOn, FileStays DEF RefuseFile, CInv

LEMMA StartLoadOK ==
    ASSUME CInv, Serial, NEW c \in Procs, StartLoad(c)
    PROVE  CallsOK' /\ FileOK'
<1>1. (\A d \in Procs : ~Busy(d)) /\ UNCHANGED <<reg, file, atSave>>
  BY DEF StartLoad, MayCall
<1> QED
  BY <1>1, ReadFileOK, RefuseFileOK, Zenon DEF StartLoad

LEMMA BootLoadOK ==
    ASSUME CInv, BootLoad
    PROVE  CallsOK' /\ FileOK'
<1>1. Server \in Procs /\ Busy(Server) /\ UNCHANGED <<reg, file, atSave>> /\ SInv
  BY DEF BootLoad, Procs, Busy, CInv
<1> QED
  BY <1>1, OthersRest, ReadFileOK, RefuseFileOK, Zenon DEF BootLoad

LEMMA StartResetOK ==
    ASSUME CInv, Serial, NEW c \in Procs, StartReset(c)
    PROVE  CallsOK' /\ FileOK'
<1>1. PICK x : /\ x = [At("apply") EXCEPT !.op = "reset",
                                          !.todo = {k \in Todo : IsReset(SettingAt(k))}]
               /\ call' = [call EXCEPT ![c] = x]
  BY DEF StartReset
<1>2. x.pc = "apply" /\ x.op = "reset"
  BY <1>1 DEF At
<1>3. CallOK(x)'
  BY <1>2 DEF CallOK
<1>4. (\A d \in Procs : ~Busy(d)) /\ UNCHANGED <<file, atSave>>
  BY DEF StartReset, MayCall
<1> QED
  BY <1>1, <1>3, <1>4, CallGoesOn, FileStays DEF CInv

LEMMA ApplyOK ==
    ASSUME CInv, NEW c \in Procs, Apply(c)
    PROVE  CallsOK' /\ FileOK'
<1> DEFINE q == call[c]
<1>1. /\ q \in Call /\ q.pc = "apply" /\ Busy(c) /\ SInv /\ CallOK(q)
      /\ UNCHANGED <<reg, file, atSave>>
  BY CallType DEF CInv, SInv, TInv, Apply, Busy, CallsOK
<1>2. CASE q.todo = {}
  <2>1. call' = [call EXCEPT ![c] = At("idle")]
    BY <1>2, Zenon DEF Apply
  <2> QED
    BY <1>1, <2>1, NoCallGoesOn, FileStays DEF CInv
<1>3. CASE q.todo # {}
  <2>1. PICK k \in q.todo :
           /\ ComesNext(q.op, k, q.todo)
           /\ call' = [call EXCEPT ![c] =
                      Loaded(q.op, SettingAt(k),
                             Restored(SettingAt(k), q.cfg[SettingAt(k)]),
                             q.todo \ {k}, q.cfg)]
    BY <1>3, Zenon DEF Apply
  <2>2. PICK x : x = Loaded(q.op, SettingAt(k),
                            Restored(SettingAt(k), q.cfg[SettingAt(k)]),
                            q.todo \ {k}, q.cfg)
    OBVIOUS
  <2>3. /\ x.pc = "store" /\ x.op = q.op /\ x.target = SettingAt(k)
        /\ x.value = Restored(x.target, q.cfg[x.target])
        /\ x.todo = q.todo \ {k} /\ x.cfg = q.cfg
    <3> HIDE DEF q
    <3> QED BY <2>2, Zenon DEF Loaded
  <2>4. q.todo \subseteq Todo /\ k \in Todo /\ Todo \subseteq Nat
    BY <1>1, <2>1 DEF Call, Todo, Places
  <2>5. ASSUME q.op = "load" PROVE LoadOK(x)'
    <3>1. LoadOK(q)
      BY <1>1, <2>5 DEF CallOK
    <3>2. \A i \in q.todo : k <= i
      BY <2>1, <2>5, Zenon DEF ComesNext, Rank
    <3> HIDE DEF q
    <3>3. \A j \in Todo \ x.todo, i \in x.todo : j < i
      <4> TAKE j \in Todo \ x.todo, i \in x.todo
      <4>1. i \in q.todo /\ i # k /\ (j = k \/ j \in Todo \ q.todo)
        BY <2>3
      <4>2. CASE j = k
        BY <2>4, <3>2, <4>1, <4>2
      <4>3. CASE j \in Todo \ q.todo
        BY <3>1, <4>1, <4>3 DEF LoadOK
      <4> QED
        BY <4>1, <4>2, <4>3
    <3>4. \A j \in Todo \ x.todo : SettingAt(j) = x.target \/ IsLoaded(j, x.cfg)'
      <4> TAKE j \in Todo \ x.todo
      <4>1. j = k \/ j \in Todo \ q.todo
        BY <2>3
      <4>2. CASE j = k
        BY <2>3, <4>2
      <4>3. CASE j \in Todo \ q.todo
        <5>1. IsLoaded(j, q.cfg)
          BY <1>1, <3>1, <4>3 DEF LoadOK
        <5> QED
          BY <1>1, <2>3, <5>1, Zenon DEF IsLoaded
      <4> QED
        BY <4>1, <4>2, <4>3
    <3>5. \E j \in Todo \ x.todo : x.target = SettingAt(j)
      BY <2>3, <2>4
    <3>6. file'.kind = "whole" => x.cfg = file'.cfg
      BY <1>1, <2>3, <3>1 DEF LoadOK
    <3> QED
      BY <2>3, <3>3, <3>4, <3>5, <3>6, Zenon DEF LoadOK
  <2>6. CallOK(x)'
    BY <2>3, <2>5 DEF CallOK
  <2> QED
    BY <1>1, <2>1, <2>2, <2>6, OthersRest, CallGoesOn, FileStays DEF CInv
<1> QED
  BY <1>2, <1>3

LEMMA ComeAndGoOK ==
    ASSUME CInv, NEW c \in Procs, Connect(c) \/ Disconnect(c) \/ Attach(c)
    PROVE  CallsOK' /\ FileOK'
<1>1. UNCHANGED <<reg, file, atSave>>
  BY DEF Connect, Disconnect, Attach
<1>2. PICK pc \in {"down", "idle"} : call' = [call EXCEPT ![c] = At(pc)]
  BY Zenon DEF Connect, Disconnect, Attach
<1> QED
  BY <1>1, <1>2, NoCallGoesOn, FileStays DEF CInv

LEMMA RebootOK ==
    ASSUME CInv, NEW registers, Reboot(registers)
    PROVE  CallsOK' /\ FileOK'
<1>1. \A c \in Procs : call'[c].pc \in {"boot", "down"}
  BY DEF Reboot, At
<1>2. CallsOK'
  BY <1>1 DEF CallsOK, CallOK
<1> QED
  BY <1>2, FileStays DEF Reboot, CInv

LEMMA CInvInit == Init => CInv
<1> SUFFICES ASSUME Init PROVE CallsOK /\ FileOK
  BY SInvInit DEF CInv
<1>1. \A c \in Procs : call[c].pc \in {"boot", "down"}
  BY DEF Init, At
<1>2. CallsOK
  BY <1>1 DEF CallsOK, CallOK
<1> QED
  BY <1>2 DEF Init, FileOK

LEMMA CInvStep == Serial /\ CInv /\ [Next]_vars => CInv'
<1> SUFFICES ASSUME Serial, CInv, [Next]_vars
             PROVE  CallsOK' /\ FileOK'
  BY SInvStep DEF CInv
<1> USE DEF Procs, Clients
<1>1. CASE ServerStep
  BY <1>1, BootLoadOK, ApplyOK, StoreOK, Zenon DEF ServerStep
<1>2. CASE \E c \in Clients : ClientStep(c)
  BY <1>2, SetOK, StoreOK, StartSaveOK, ReadSettingOK, OpenToSaveOK, WriteFileOK,
     StartLoadOK, StartResetOK, ApplyOK, ComeAndGoOK, Zenon DEF ClientStep
<1>3. CASE \E c \in Children : Connect(c)
  BY <1>3, ComeAndGoOK, Zenon
<1>4. CASE \E c \in Webs : Attach(c)
  BY <1>4, ComeAndGoOK, Zenon
<1>5. CASE RestartServices \/ PowerLoss
  BY <1>5, RebootOK, Zenon DEF RestartServices, PowerLoss
<1>6. CASE UNCHANGED vars
  <2>1. CallsOK'
    <3>1. \A d \in Procs : call'[d] = call[d] /\ CallOK(call[d])
      BY <1>6 DEF vars, CInv, CallsOK
    <3>2. ASSUME NEW d \in Procs PROVE CallOK(call[d])'
      BY <1>6, <3>1 DEF vars, CallOK, LoadOK, SaveOK, IsLoaded, IsRead
    <3> QED
      BY <3>2 DEF CallsOK
  <2> QED
    BY <1>6, <2>1, FileStays DEF vars, CInv
<1> QED
  BY <1>1, <1>2, <1>3, <1>4, <1>5, <1>6, Zenon DEF Next

-----------------------------------------------------------------------------
(* A step that takes a process out of a setter is that setter's own.       *)
Elsewhere(d) == call[d].pc # "store" /\ \E x : call' = [call EXCEPT ![d] = x]

LEMMA ElsewhereOf ==
    ASSUME NEW d
    PROVE  /\ \A s, n : Set(d, s, n) => Elsewhere(d)
           /\ StartSave(d) \/ ReadSetting(d) \/ OpenToSave(d) \/ WriteFile(d) => Elsewhere(d)
           /\ StartLoad(d) \/ StartReset(d) \/ Apply(d) => Elsewhere(d)
           /\ Connect(d) \/ Disconnect(d) \/ Attach(d) => Elsewhere(d)
           /\ call[d].pc # "store" /\ (ReadFile(d) \/ RefuseFile(d)) => Elsewhere(d)
<1>1. \A s, n : Set(d, s, n) => Elsewhere(d)
  BY Zenon DEF Set, MayCall, Elsewhere
<1>2. StartSave(d) \/ ReadSetting(d) \/ OpenToSave(d) \/ WriteFile(d) => Elsewhere(d)
  <2>1. StartSave(d) => Elsewhere(d)
    BY Zenon DEF StartSave, MayCall, Elsewhere
  <2>2. ReadSetting(d) => Elsewhere(d)
    <3>1. ASSUME ReadSetting(d) PROVE \E x : call' = [call EXCEPT ![d] = x]
      <4>1. CASE call[d].todo = {}
        <5>1. call' = [call EXCEPT ![d].pc = "open"]
          BY <3>1, <4>1, Zenon DEF ReadSetting
        <5>2. [call EXCEPT ![d].pc = "open"] = [call EXCEPT ![d] = [call[d] EXCEPT !.pc = "open"]]
          OBVIOUS
        <5> QED
          BY <5>1, <5>2, Zenon
      <4>2. CASE call[d].todo # {}
        BY <3>1, <4>2, Zenon DEF ReadSetting
      <4> QED
        BY <4>1, <4>2
    <3> QED
      BY <3>1 DEF ReadSetting, Elsewhere
  <2>3. OpenToSave(d) => Elsewhere(d)
    <3>1. [call EXCEPT ![d].pc = "write"] = [call EXCEPT ![d] = [call[d] EXCEPT !.pc = "write"]]
      OBVIOUS
    <3> QED
      BY <3>1, Zenon DEF OpenToSave, Elsewhere
  <2>4. WriteFile(d) => Elsewhere(d)
    BY Zenon DEF WriteFile, Elsewhere
  <2> QED
    BY <2>1, <2>2, <2>3, <2>4
<1>3. call[d].pc # "store" /\ (ReadFile(d) \/ RefuseFile(d)) => Elsewhere(d)
  BY Zenon DEF ReadFile, RefuseFile, Elsewhere
<1>4. StartLoad(d) \/ StartReset(d) \/ Apply(d) => Elsewhere(d)
  <2>1. StartLoad(d) => Elsewhere(d)
    BY <1>3, Zenon DEF StartLoad, MayCall
  <2>2. StartReset(d) => Elsewhere(d)
    BY Zenon DEF StartReset, MayCall, Elsewhere
  <2>3. Apply(d) => Elsewhere(d)
    BY Zenon DEF Apply, Elsewhere
  <2> QED
    BY <2>1, <2>2, <2>3
<1>5. Connect(d) \/ Disconnect(d) \/ Attach(d) => Elsewhere(d)
  BY Zenon DEF Connect, Disconnect, Attach, Elsewhere
<1> QED
  BY <1>1, <1>2, <1>3, <1>4, <1>5

LEMMA OnlyTheSetterStores ==
    ASSUME TInv, [Next]_vars, NEW c \in Procs, LoadStores(c)
    PROVE  Store(c)
<1> SUFFICES ASSUME ~Store(c) PROVE FALSE
  OBVIOUS
<1>1. call[c].pc = "store" /\ call'[c].pc \in {"apply", "idle"}
  BY DEF LoadStores
<1>2. call \in [Procs -> Call]
  BY DEF TInv, TypeOK
<1>3. ASSUME NEW d \in Procs, Elsewhere(d) PROVE FALSE
  <2>1. PICK x : call' = [call EXCEPT ![d] = x]
    BY <1>3 DEF Elsewhere
  <2>2. d # c
    BY <1>1, <1>3 DEF Elsewhere
  <2> QED
    BY <1>1, <1>2, <2>1, <2>2
<1>4. ASSUME NEW d \in Procs, Store(d) PROVE FALSE
  <2>1. d # c
    BY <1>4
  <2>2. \E x : call' = [call EXCEPT ![d] = x]
    BY <1>4, Zenon DEF Store
  <2> QED
    BY <1>1, <1>2, <2>1, <2>2
<1> USE DEF Procs, Clients
<1>5. CASE ServerStep
  <2>1. BootLoad => Elsewhere(Server)
    BY ElsewhereOf DEF BootLoad
  <2> QED
    BY <1>3, <1>4, <1>5, <2>1, ElsewhereOf, Zenon DEF ServerStep
<1>6. CASE \E d \in Clients : ClientStep(d)
  BY <1>3, <1>4, <1>6, ElsewhereOf, Zenon DEF ClientStep
<1>7. CASE (\E d \in Children : Connect(d)) \/ (\E d \in Webs : Attach(d))
  BY <1>3, <1>7, ElsewhereOf, Zenon
<1>8. CASE RestartServices \/ PowerLoss
  <2>1. PICK registers : Reboot(registers)
    BY <1>8, Zenon DEF RestartServices, PowerLoss
  <2>2. call'[c].pc \in {"boot", "down"}
    BY <2>1 DEF Reboot, At
  <2> QED
    BY <1>1, <2>2
<1>9. CASE UNCHANGED vars
  BY <1>1, <1>9 DEF vars
<1> QED
  BY <1>5, <1>6, <1>7, <1>8, <1>9, Zenon DEF Next

(* What a setter of a load sets, and what it finds set.                    *)
LEMMA LoadStep ==
    ASSUME CInv, [Next]_vars, NEW c \in Procs, LoadStores(c),
           NEW q, q = call[c]
    PROVE  /\ Store(c) /\ LoadOK(q) /\ q.pc = "store"
           /\ q.target \in Settings /\ q.todo \subseteq Todo /\ q.cfg \in Config
           /\ reg'[q.target] = Restored(q.target, q.cfg[q.target])
           /\ \A s \in Settings : IsWaveform(s) \/ s = q.target \/ reg'[s] = reg[s]
<1>1. Store(c) /\ SInv /\ TInv
  BY OnlyTheSetterStores DEF CInv, SInv
<1>2. q \in Call /\ q.target \in Settings /\ q.pc = "store" /\ q.op = "load"
  BY <1>1, CallType DEF TInv, StoreTyped, LoadStores
<1>3. LoadOK(q)
  BY <1>2 DEF CInv, CallsOK, CallOK
<1> QED
  BY <1>1, <1>2, <1>3, StoreSets DEF LoadOK, Call

(* A load of what a PID's registers hold, to the resolution of getter and  *)
(* setter, leaves them there at every step, as long as no other call is    *)
(* under way: what a setter stores back of the other switches of its word  *)
(* is what it has just loaded.                                             *)
THEOREM SerialLoadOfSame == Serial => (Spec => LoadOfSameIsQuiet)
<1> SUFFICES ASSUME Serial PROVE Spec => LoadOfSameIsQuiet
  OBVIOUS
<1>1. Serial
  OBVIOUS
<1>2. CInv /\ [Next]_vars => CInv'
  BY <1>1, CInvStep
<1> DEFINE Held(c, r) == \A s \in Settings : IsPid(s) => Within(s, r[s], call[c].cfg[s])
           A == \A c \in Procs : LoadStores(c) /\ Held(c, reg) => Held(c, reg')
<1>3. CInv /\ [Next]_vars => A
  <2> SUFFICES ASSUME CInv, [Next]_vars, NEW c \in Procs, LoadStores(c), Held(c, reg),
                      NEW s \in Settings, IsPid(s)
               PROVE  Within(s, reg'[s], call[c].cfg[s])
    OBVIOUS
  <2>1. PICK q : q = call[c]
    OBVIOUS
  <2>2. /\ reg'[q.target] = Restored(q.target, q.cfg[q.target])
        /\ IsWaveform(s) \/ s = q.target \/ reg'[s] = reg[s]
        /\ q.cfg \in Config
    BY <2>1, LoadStep
  <2>3. ~IsWaveform(s)
    BY DEF IsPid, IsWaveform, PidOrder
  <2>4. Within(s, reg[s], q.cfg[s])
    BY <2>1
  <2>5. q.cfg[s] \in Counts(s)
    BY <2>2 DEF Config
  <2>6. Within(s, Restored(s, q.cfg[s]), q.cfg[s])
    BY <2>5, RestoredIs
  <2>7. Within(s, reg'[s], q.cfg[s])
    BY <2>2, <2>3, <2>4, <2>6, Zenon
  <2> QED
    BY <2>1, <2>7
<1>4. CInv /\ [Next]_vars => [A]_vars
  BY <1>3
<1> QED
  <2>1. Spec => [][A]_vars
    <3> HIDE DEF A
    <3> QED
      BY <1>2, <1>4, CInvInit, PTL DEF Spec
  <2> QED
    BY <2>1 DEF LoadOfSameIsQuiet

(* The settings a PID is to have before it is switched on come before its  *)
(* switch in the order of a load.                                          *)
Before == {"setpoint", "kp", "ki", "kd", "kii", "kg", "int_reset", "inverted", "hold"}

LEMMA PlaceOf ==
    ASSUME NEW k \in Places, NEW name, NEW p, SettingAt(k) = <<name, p>>,
           name \in Before \cup {"enabled"}
    PROVE  /\ k - 1 \in Nat /\ p = (k - 1) \div 19
           /\ name = PidOrder[((k - 1) % 19) + 1]
<1>1. k \in 1 .. 92
  BY DEF Places
<1>2. CASE k <= 76
  <2>1. SettingAt(k) = << PidOrder[((k - 1) % 19) + 1], (k - 1) \div 19 >>
    BY <1>1, <1>2 DEF SettingAt
  <2>2. k - 1 \in Nat
    BY <1>1, SMT
  <2> QED
    BY <2>1, <2>2
<1>3. CASE ~(k <= 76)
  <2>1. PICK i : i = ((k - 77) % 8) + 1
    OBVIOUS
  <2>2. i \in 1 .. 8 /\ name = OutOrder[i]
    BY <1>1, <1>3, <2>1 DEF SettingAt
  <2> QED
    BY <2>2 DEF Before, OutOrder
<1> QED
  BY <1>2, <1>3

LEMMA BeforeEnabled ==
    ASSUME NEW j \in Places, NEW k \in Places, NEW name \in Before, NEW p,
           SettingAt(j) = <<name, p>>, SettingAt(k) = <<"enabled", p>>
    PROVE  j < k
<1>1. /\ j - 1 \in Nat /\ p = (j - 1) \div 19 /\ name = PidOrder[((j - 1) % 19) + 1]
  BY PlaceOf
<1>2. /\ k - 1 \in Nat /\ p = (k - 1) \div 19 /\ "enabled" = PidOrder[((k - 1) % 19) + 1]
  BY PlaceOf
<1>3. \A i \in 1 .. 19 : /\ PidOrder[i] \in Before => i <= 10
                         /\ PidOrder[i] = "enabled" => i = 12
  BY DEF PidOrder, Before
<1>4. PICK x \in Nat, y \in Nat : x = j - 1 /\ y = k - 1
  BY <1>1, <1>2
<1>5. (x % 19) + 1 \in 1 .. 19 /\ (y % 19) + 1 \in 1 .. 19
  BY SMT
<1>6. x % 19 < y % 19
  <2>1. PidOrder[(x % 19) + 1] \in Before /\ PidOrder[(y % 19) + 1] = "enabled"
    BY <1>1, <1>2, <1>4
  <2>2. (x % 19) + 1 <= 10 /\ (y % 19) + 1 = 12
    BY <1>3, <1>5, <2>1
  <2> QED
    BY <1>5, <2>2, SMT
<1>7. x < y
  BY <1>1, <1>2, <1>4, <1>6, SMT
<1> QED
  BY <1>4, <1>7, SMT DEF Places

(* With calls that do not overlap a load switches a PID on only after its  *)
(* setpoint, its gains, its polarity and its hold are those of the file:   *)
(* each has its place before the switch, and no other call undoes it.      *)
THEOREM SerialGainsFirst == Serial => (Spec => GainsBeforeEnable)
<1> SUFFICES ASSUME Serial PROVE Spec => GainsBeforeEnable
  OBVIOUS
<1>1. Serial
  OBVIOUS
<1>2. CInv /\ [Next]_vars => CInv'
  BY <1>1, CInvStep
<1> DEFINE A == \A c \in Procs, p \in 0 .. 3 :
             LET on == <<"enabled", p>>
             IN  on \in Settings /\ LoadStores(c) /\ reg[on] = 0 /\ reg'[on] = 1 =>
                    \A s \in Settings :
                       s[2] = p /\ s[1] \in {"setpoint", "kp", "ki", "kd", "kii", "kg",
                                             "int_reset", "inverted", "hold"}
                       => reg[s] = Restored(s, call[c].cfg[s])
<1>3. CInv /\ [Next]_vars => A
  <2> SUFFICES ASSUME CInv, [Next]_vars, NEW c \in Procs, NEW p \in 0 .. 3,
                      <<"enabled", p>> \in Settings, LoadStores(c),
                      reg[<<"enabled", p>>] = 0, reg'[<<"enabled", p>>] = 1,
                      NEW s \in Settings, s[2] = p, s[1] \in Before
               PROVE  reg[s] = Restored(s, call[c].cfg[s])
    BY DEF Before
  <2>1. PICK q : q = call[c]
    OBVIOUS
  <2>2. PICK on : on = <<"enabled", p>>
    OBVIOUS
  <2>3. /\ LoadOK(q) /\ q.pc = "store" /\ q.todo \subseteq Todo
        /\ \A t \in Settings : IsWaveform(t) \/ t = q.target \/ reg'[t] = reg[t]
    BY <2>1, LoadStep
  <2>4. on = q.target
    <3>1. ~IsWaveform(on) /\ on \in Settings /\ reg'[on] # reg[on]
      BY <2>2 DEF IsWaveform
    <3> QED
      BY <2>3, <3>1, Zenon
  <2>5. PICK k \in Todo \ q.todo : SettingAt(k) = on
    BY <2>3, <2>4 DEF LoadOK
  <2>6. PICK j \in Todo : SettingAt(j) = s
    BY HasPlace
  <2>7. j \in Places /\ k \in Places /\ j < k
    <3>1. j \in Places /\ k \in Places
      BY DEF Todo
    <3>2. s = <<s[1], p>>
      <4>1. PICK i \in Places : s = SettingAt(i)
        BY SettingsAssumption
      <4>2. \E a, b : s = <<a, b>>
        BY <4>1, Zenon DEF SettingAt
      <4> QED
        BY <4>2
    <3>3. SettingAt(j) = <<s[1], p>> /\ SettingAt(k) = <<"enabled", p>>
      BY <2>2, <2>5, <2>6, <3>2
    <3> QED
      BY <3>1, <3>3, BeforeEnabled
  <2>8. j \notin q.todo
    <3>1. \A i \in q.todo : k < i
      BY <2>3, <2>5 DEF LoadOK
    <3>2. j \in Nat /\ k \in Nat
      BY <2>7 DEF Places
    <3> QED
      BY <2>7, <3>1, <3>2
  <2>9. ~IsWaveform(s) /\ s # on
    BY <2>2 DEF IsWaveform, Before
  <2>10. IsLoaded(j, q.cfg)
    BY <2>3, <2>4, <2>6, <2>8, <2>9 DEF LoadOK
  <2>11. reg[s] = Restored(s, q.cfg[s])
    BY <2>6, <2>9, <2>10, Zenon DEF IsLoaded
  <2> QED
    BY <2>1, <2>11
<1>4. CInv /\ [Next]_vars => [A]_vars
  BY <1>3
<1> QED
  <2>1. Spec => [][A]_vars
    <3> HIDE DEF A
    <3> QED
      BY <1>2, <1>4, CInvInit, PTL DEF Spec
  <2> QED
    BY <2>1 DEF GainsBeforeEnable

(* With calls that do not overlap the load of a whole file brings back     *)
(* every setting but the waveform as it was at the end of the save that    *)
(* wrote the file, to the resolution of its getter and its setter, however *)
(* the registers were changed, reset or lost in between.                   *)
THEOREM SerialLoadRestores == Serial => (Spec => RestoresTheSave)
<1> SUFFICES ASSUME Serial PROVE Spec => RestoresTheSave
  OBVIOUS
<1>1. Serial
  OBVIOUS
<1>2. CInv /\ [Next]_vars => CInv'
  BY <1>1, CInvStep
<1> DEFINE A == \A c \in Procs :
             LoadStores(c) /\ call[c].todo = {} /\ file.kind = "whole" =>
                \A s \in Settings : IsWaveform(s) \/ Within(s, reg'[s], atSave[s])
<1>3. CInv /\ [Next]_vars => A
  <2> SUFFICES ASSUME CInv, [Next]_vars, NEW c \in Procs, LoadStores(c),
                      call[c].todo = {}, file.kind = "whole",
                      NEW s \in Settings, ~IsWaveform(s)
               PROVE  Within(s, reg'[s], atSave[s])
    OBVIOUS
  <2>1. PICK q : q = call[c]
    OBVIOUS
  <2>2. /\ LoadOK(q) /\ q.pc = "store" /\ q.todo = {}
        /\ reg'[q.target] = Restored(q.target, q.cfg[q.target])
        /\ s = q.target \/ reg'[s] = reg[s]
    BY <2>1, LoadStep
  <2>3. reg'[s] = Restored(s, q.cfg[s])
    <3>1. PICK k \in Todo : SettingAt(k) = s
      BY HasPlace
    <3>2. s = q.target \/ IsLoaded(k, q.cfg)
      BY <2>2, <3>1 DEF LoadOK
    <3> QED
      BY <2>2, <3>1, <3>2, Zenon DEF IsLoaded
  <2>4. q.cfg[s] = atSave[s]
    <3>1. q.cfg = file.cfg
      BY <2>2 DEF LoadOK
    <3> QED
      BY <3>1 DEF CInv, FileOK
  <2>5. atSave[s] \in Counts(s)
    BY DEF CInv, SInv, TInv, TypeOK, Config
  <2> QED
    BY <2>3, <2>4, <2>5, RestoredIs
<1>4. CInv /\ [Next]_vars => [A]_vars
  BY <1>3
<1> QED
  <2>1. Spec => [][A]_vars
    <3> HIDE DEF A
    <3> QED
      BY <1>2, <1>4, CInvInit, PTL DEF Spec
  <2> QED
    BY <2>1 DEF RestoresTheSave
=============================================================================
