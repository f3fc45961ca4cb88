--------------------------- MODULE MonitorBlock_proofs ---------------------------
(***************************************************************************)
(* The monitor's block keeps its promises to the readers, for any number   *)
(* of readers, restarts and crashes, and for every modulus of the sequence *)
(* word.                                                                   *)
(***************************************************************************)
EXTENDS MonitorBlock, FiniteSetTheorems, TLAPS

-----------------------------------------------------------------------------
(* The inductive invariant.                                                *)

Blank == [w \in Words |-> Zero]

(* Objects are numbered in order; the daemon works on the linked one; what *)
(* is not created yet is blank.                                            *)
Numbered ==
    /\ \E k \in 0 .. starts : created = 1 .. k
    /\ name \in created \cup {None}
    /\ IF dpc = "off" THEN shm = None ELSE shm = name /\ shm \in created /\ starts > 0
    /\ dpc \notin {"off", "truncate"} => shm \in sized
    /\ dpc = "store" => todo \subseteq Words
    /\ \A o \in Objects \ created : seq[o] = 0 /\ word[o] = Blank

(* A reader has mapped what it is about to use, and its attempts are       *)
(* counted.                                                                *)
Located ==
    \A r \in Readers :
       /\ rpc[r] # "idle" => attempt[r] \in {1, 2}
       /\ rpc[r] = "check" => fd[r] \in created
       /\ block[r] \in created \cup {None}
       /\ rpc[r] \in {"load1", "copy", "load2", "alive"} => block[r] # None
       /\ rpc[r] \in {"load2", "alive"} => DOMAIN copy[r] = Words

(* The sequence word of an object is odd while its words are written, and  *)
(* they are equal whenever it is even; unless a daemon has taken over the  *)
(* object, and with it a sequence word that another has left odd.          *)
SeqLock ==
    \A o \in Objects \ reused :
       /\ seq[o] % 2 = 0 => word[o]["head"] = word[o]["tail"]
       /\ o = shm /\ dpc \in {"truncate", "memset"} => seq[o] = 0 /\ word[o] = Blank
       /\ o = shm /\ dpc \in {"poll", "begin", "unlink"} => seq[o] % 2 = 0
       /\ o = shm /\ dpc \in {"store", "end"} => seq[o] % 2 = 1

(* What a publish has written so far. *)
Stored ==
    /\ dpc = "store" => \A w \in Words \ todo : word[shm][w] = work
    /\ dpc = "end" => \A w \in Words : word[shm][w] = work

(* A version is of the past, and of a daemon unless it is the last one; no *)
(* object holds a later one than the daemon's; an object without the name  *)
(* was left by a clean exit.                                               *)
Dated(v) == v.t <= clock /\ (v.pid # 0 => v.n # 0 /\ v.t # 0)
Dates ==
    /\ Dated(work)
    /\ \A o \in Objects, w \in Words : Dated(word[o][w]) /\ word[o][w].t <= work.t
    /\ dpc = "unlink" => word[shm]["head"].pid = 0
    /\ \A o \in created \ {name} : word[o]["head"].pid = 0

(* As long as the sequence word is what a reader has loaded, its copy is    *)
(* what the object holds.                                                  *)
UntornAt(r) ==
    /\ rpc[r] \in {"copy", "load2"} =>
          /\ s1[r] % 2 = 0
          /\ seq[block[r]] = s1[r] =>
                \A w \in DOMAIN copy[r] : copy[r][w] = word[block[r]][w]
    /\ rpc[r] = "alive" \/ Answered(r, "ok") => ~Torn(r)
Untorn == \A r \in Readers : block[r] \notin reused => UntornAt(r)

(* No publish takes the sequence word around its modulus and back to the   *)
(* value a copy under way has begun with.  At one poll a millisecond and   *)
(* a modulus of 2^32 that copy would take 24 days.                         *)
NoLap ==
    \A r \in Readers :
       rpc[r] \in {"copy", "load2"} /\ block[r] = shm /\ shm \notin reused /\ End =>
          seq'[shm] # s1[r]

(* The sequence word counts twice the versions, and grows under a reader.  *)
Counted ==
    /\ \A o \in Objects : seq[o] <= 2 * work.n
    /\ dpc = "begin" => seq[shm] + 2 <= 2 * work.n
    /\ dpc \in {"store", "end"} => seq[shm] + 1 <= 2 * work.n
Grows ==
    \A r \in Readers :
       rpc[r] \in {"copy", "load2"} /\ block[r] \notin reused => s1[r] <= seq[block[r]]

(* A version that is no answer any more. *)
Lapsed(v) == v.pid = 0 \/ clock - v.t > STALE

(* A reader whose whole call has seen no daemon has copied nothing that    *)
(* could be an answer.                                                     *)
Unanswered(r) ==
    /\ Dead
    /\ rpc[r] \in {"copy", "load2", "alive"} /\ "head" \in DOMAIN copy[r] =>
          Lapsed(copy[r]["head"])
    /\ ~Answered(r, "ok")
DeadInv == \A r \in Readers : down[r] => Unanswered(r)

(* A reader whose whole call is served maps the block of that daemon, and  *)
(* what it copies from it is no older than its call, but for one tick.     *)
Served(r) ==
    /\ Serving /\ clock - since[r] < STALE
    /\ rpc[r] = "check" => fd[r] = shm
    /\ rpc[r] \in {"load1", "copy", "load2", "alive"} /\ attempt[r] = 2 => block[r] = shm
    /\ rpc[r] \in {"copy", "load2", "alive"} /\ block[r] = shm /\ "head" \in DOMAIN copy[r] =>
          /\ copy[r]["head"].pid = starts /\ copy[r]["head"].t + 1 >= since[r]
          /\ Dated(copy[r]["head"])
    /\ Answered(r, "emon") => tries[r] = MaxTries
ServedInv == \A r \in Readers : since[r] <= clock /\ (up[r] => Served(r))

-----------------------------------------------------------------------------
(* The records and partial copies the program handles.                     *)
LEMMA VersionType ==
    /\ Zero \in Version /\ Blank \in [Words -> Version]
    /\ <<>> \in Copies
<1>1. Zero \in Version
  BY BoundAssumption DEF Zero, Version
<1>2. <<>> \in [{} -> Version]
  OBVIOUS
<1> QED
  BY <1>1, <1>2 DEF Blank, Copies

(* A word is stored in an object. *)
LEMMA WordStored ==
    ASSUME word \in [Objects -> [Words -> Version]], NEW v \in Version, NEW w, NEW o
    PROVE  [word EXCEPT ![o][w] = v] \in [Objects -> [Words -> Version]]
<1>1. [word[o] EXCEPT ![w] = v] = [x \in DOMAIN word[o] |-> IF x = w THEN v ELSE word[o][x]]
  OBVIOUS
<1> QED
  BY <1>1

(* The number of the next object. *)
LEMMA NextObject ==
    ASSUME TypeOK, Numbered, starts < MaxStarts, NEW k \in 0 .. starts, created = 1 .. k
    PROVE  Cardinality(created) + 1 = k + 1 /\ k + 1 \in Objects
<1>1. Cardinality(1 .. k) = k
  BY FS_Interval DEF TypeOK
<1> QED
  BY <1>1, BoundAssumption DEF TypeOK, Objects

(* What the history may be, whatever the step. *)
LEMMA HistoryType ==
    ASSUME TypeOK, Observe, clock' \in 1 .. MaxTime, created \subseteq created'
    PROVE  /\ since' \in [Readers -> 1 .. MaxTime]
           /\ up' \in [Readers -> BOOLEAN] /\ down' \in [Readers -> BOOLEAN]
           /\ reused' \subseteq created'
<1>1. since' \in [Readers -> 1 .. MaxTime]
  BY DEF TypeOK, Observe
<1>2. up' \in [Readers -> BOOLEAN]
  BY Zenon DEF Observe
<1>3. down' \in [Readers -> BOOLEAN]
  BY Zenon DEF Observe
<1>4. reused' \subseteq created'
  BY DEF TypeOK, Observe
<1> QED
  BY <1>1, <1>2, <1>3, <1>4

(* No step leaves the types. *)
LEMMA TypeNext ==
    ASSUME TypeOK, Numbered, Located, [Next]_vars
    PROVE  TypeOK'
<1>1. CASE Open /\ Observe
  <2>1. PICK k \in 0 .. starts : created = 1 .. k
    BY DEF Numbered
  <2>2. shm' \in Objects /\ starts' \in 0 .. MaxStarts
    <3>1. Cardinality(created) + 1 \in Objects
      BY <1>1, <2>1, NextObject DEF Open
    <3>2. starts + 1 \in 0 .. MaxStarts
      BY <1>1, BoundAssumption DEF TypeOK, Open
    <3> QED
      BY <1>1, <3>1, <3>2 DEF TypeOK, Open
  <2>3. clock' \in 1 .. MaxTime /\ created \subseteq created'
    BY <1>1 DEF TypeOK, Open, locals
  <2> QED
    BY <1>1, <2>2, <2>3, HistoryType DEF TypeOK, Open, locals
<1>2. CASE Truncate /\ Observe
  <2>1. clock' \in 1 .. MaxTime /\ created \subseteq created'
    BY <1>2 DEF TypeOK, Truncate, memory, daemon, locals
  <2>2. sized' \subseteq created'
    BY <1>2 DEF TypeOK, Numbered, Truncate
  <2> QED
    BY <1>2, <2>1, <2>2, HistoryType DEF TypeOK, Truncate, memory, daemon,
       locals
<1>3. CASE Memset /\ Observe
  <2>1. clock' \in 1 .. MaxTime /\ created \subseteq created'
    BY <1>3 DEF TypeOK, Memset, locals
  <2>2. shm \in Objects
    BY <1>3 DEF TypeOK, Numbered, Memset
  <2>3. PICK w \in todo : /\ todo' = todo \ {w}
                       /\ IF w = "seq"
                          THEN seq' = [seq EXCEPT ![shm] = 0] /\ UNCHANGED word
                          ELSE word' = [word EXCEPT ![shm][w] = Zero] /\ UNCHANGED seq
    BY <1>3 DEF Memset
  <2>4. seq' \in [Objects -> 0 .. SEQMOD - 1]
    BY <2>3, SeqAssumption DEF TypeOK
  <2>5. word' \in [Objects -> [Words -> Version]]
    <3>1. [word EXCEPT ![shm][w] = Zero] \in [Objects -> [Words -> Version]]
      BY VersionType, WordStored DEF TypeOK
    <3> QED
      BY <2>3, <3>1 DEF TypeOK
  <2> QED
    BY <1>3, <2>1, <2>3, <2>4, <2>5, HistoryType DEF TypeOK, Memset, locals
<1>4. CASE Poll /\ Observe
  <2>1. clock' \in 1 .. MaxTime /\ created \subseteq created'
    BY <1>4 DEF TypeOK, Poll, memory, daemon, locals
  <2>2. work' \in Version
    BY <1>4, BoundAssumption DEF TypeOK, Version, Poll
  <2> QED
    BY <1>4, <2>1, <2>2, HistoryType DEF TypeOK, Poll, memory, daemon, locals
<1>5. CASE Stop /\ Observe
  <2>1. clock' \in 1 .. MaxTime /\ created \subseteq created'
    BY <1>5 DEF TypeOK, Stop, memory, daemon, locals
  <2>2. work.n + 1 \in 0 .. MaxVersions /\ 0 \in 0 .. MaxStarts
    BY <1>5, BoundAssumption DEF TypeOK, Version, Stop
  <2>3. work' \in Version
    BY <1>5, <2>2 DEF TypeOK, Version, Stop
  <2> QED
    BY <1>5, <2>1, <2>3, HistoryType DEF TypeOK, Stop, memory, daemon, locals
<1>6. CASE Begin /\ Observe
  <2>1. clock' \in 1 .. MaxTime /\ created \subseteq created'
    BY <1>6 DEF TypeOK, Begin, locals
  <2>2. \A x \in 0 .. SEQMOD - 1 : (x + 1) % SEQMOD \in 0 .. SEQMOD - 1
    BY SeqAssumption, SMT
  <2>3. seq' \in [Objects -> 0 .. SEQMOD - 1]
    BY <1>6, <2>2 DEF TypeOK, Begin
  <2> QED
    BY <1>6, <2>1, <2>3, HistoryType DEF TypeOK, Begin, locals
<1>7. CASE Store /\ Observe
  <2>1. clock' \in 1 .. MaxTime /\ created \subseteq created'
    BY <1>7 DEF TypeOK, Store, locals
  <2>2. PICK w \in todo : word' = [word EXCEPT ![shm][w] = work] /\ todo' = todo \ {w}
    BY <1>7 DEF Store
  <2>3. word' \in [Objects -> [Words -> Version]]
    BY <2>2, WordStored DEF TypeOK
  <2> QED
    BY <1>7, <2>1, <2>2, <2>3, HistoryType DEF TypeOK, Store, locals
<1>8. CASE End /\ Observe
  <2>1. clock' \in 1 .. MaxTime /\ created \subseteq created'
    BY <1>8 DEF TypeOK, End, locals
  <2>2. \A x \in 0 .. SEQMOD - 1 : (x + 1) % SEQMOD \in 0 .. SEQMOD - 1
    BY SeqAssumption, SMT
  <2>3. seq' \in [Objects -> 0 .. SEQMOD - 1]
    BY <1>8, <2>2 DEF TypeOK, End
  <2> QED
    BY <1>8, <2>1, <2>3, HistoryType DEF TypeOK, End, locals
<1>9. CASE Unlink /\ Observe
  <2>1. clock' \in 1 .. MaxTime /\ created \subseteq created'
    BY <1>9 DEF TypeOK, Unlink, memory, daemon, locals
  <2> QED
    BY <1>9, <2>1, HistoryType DEF TypeOK, Unlink, memory, daemon, locals
<1>10. CASE Crash /\ Observe
  <2>1. clock' \in 1 .. MaxTime /\ created \subseteq created'
    BY <1>10 DEF TypeOK, Crash, memory, daemon, locals
  <2>2. crashes' \in 0 .. MaxCrashes
    BY <1>10, BoundAssumption DEF TypeOK, Crash
  <2> QED
    BY <1>10, <2>1, <2>2, HistoryType DEF TypeOK, Crash, memory, daemon, locals
<1>11. CASE Tick /\ Observe
  <2>1. clock' \in 1 .. MaxTime /\ created \subseteq created'
    BY <1>11, BoundAssumption DEF TypeOK, Tick, memory
  <2> QED
    BY <1>11, <2>1, HistoryType DEF TypeOK, Tick, memory, daemon, locals
<1>12. ASSUME NEW r \in Readers, Call(r), Observe PROVE TypeOK'
  <2>1. clock' \in 1 .. MaxTime /\ created \subseteq created'
    BY <1>12 DEF TypeOK, Call, reader_frame, memory
  <2>2. attempt' \in [Readers -> 0 .. 3] /\ tries' \in [Readers -> 0 .. MaxTries]
    BY <1>12, BlockAssumption DEF TypeOK, Call
  <2> QED
    BY <1>12, <2>1, <2>2, HistoryType DEF TypeOK, Call, Goto, Return,
       reader_frame, memory, daemon
<1>13. ASSUME NEW r \in Readers, MapOpen(r), Observe PROVE TypeOK'
  <2>1. clock' \in 1 .. MaxTime /\ created \subseteq created'
    BY <1>13 DEF TypeOK, MapOpen, reader_frame, memory
  <2> QED
    BY <1>13, <2>1, HistoryType DEF TypeOK, MapOpen, Goto, Return, reader_frame,
       memory, daemon
<1>14. ASSUME NEW r \in Readers, MapCheck(r), Observe PROVE TypeOK'
  <2>1. clock' \in 1 .. MaxTime /\ created \subseteq created'
    BY <1>14 DEF TypeOK, MapCheck, reader_frame, memory
  <2> QED
    BY <1>14, <2>1, HistoryType DEF TypeOK, MapCheck, Goto, Return,
       reader_frame, memory, daemon
<1>15. ASSUME NEW r \in Readers, Load1(r), Observe PROVE TypeOK'
  <2>1. clock' \in 1 .. MaxTime /\ created \subseteq created'
    BY <1>15 DEF TypeOK, Load1, reader_frame, memory
  <2>2. CASE tries[r] = MaxTries
    BY <1>15, <2>1, <2>2, HistoryType DEF TypeOK, Load1, Return, Goto,
       reader_frame, memory, daemon
  <2>3. CASE tries[r] # MaxTries
    <3>1. /\ tries' = [tries EXCEPT ![r] = @ + 1] /\ s1' = [s1 EXCEPT ![r] = seq[block[r]]]
          /\ copy' = [copy EXCEPT ![r] = <<>>]
          /\ Goto(r, IF seq[block[r]] % 2 = 1 THEN "load1" ELSE "copy")
      BY <1>15, <2>3 DEF Load1
    <3>2. tries[r] + 1 \in 0 .. MaxTries /\ seq[block[r]] \in 0 .. SEQMOD - 1
      BY <1>15, <2>3, BlockAssumption DEF TypeOK, Located, Load1, None
    <3>3. /\ tries' \in [Readers -> 0 .. MaxTries] /\ s1' \in [Readers -> 0 .. SEQMOD - 1]
          /\ copy' \in [Readers -> Copies]
      BY <3>1, <3>2, VersionType DEF TypeOK
    <3>4. rpc' \in [Readers -> {"idle", "map", "check", "load1", "copy", "load2", "alive"}]
      BY <3>1 DEF TypeOK, Goto
    <3> QED
      BY <1>15, <2>1, <2>3, <3>3, <3>4, HistoryType DEF TypeOK, Load1,
         reader_frame, memory, daemon
  <2> QED
    BY <2>2, <2>3
<1>16. ASSUME NEW r \in Readers, CopyWord(r), Observe PROVE TypeOK'
  <2>1. clock' \in 1 .. MaxTime /\ created \subseteq created'
    BY <1>16 DEF TypeOK, CopyWord, reader_frame, memory
  <2>2. PICK w \in Words \ DOMAIN copy[r] :
           LET c == [v \in DOMAIN copy[r] \cup {w} |->
                       IF v = w THEN word[block[r]][w] ELSE copy[r][v]]
           IN  /\ copy' = [copy EXCEPT ![r] = c]
               /\ Goto(r, IF DOMAIN c = Words THEN "load2" ELSE "copy")
    BY <1>16 DEF CopyWord
  <2> DEFINE c == [v \in DOMAIN copy[r] \cup {w} |->
                     IF v = w THEN word[block[r]][w] ELSE copy[r][v]]
  <2>3. word[block[r]][w] \in Version
    BY <1>16 DEF TypeOK, Located, CopyWord, None
  <2>4. PICK W \in SUBSET Words : copy[r] \in [W -> Version]
    BY DEF TypeOK, Copies
  <2>5. W \cup {w} \in SUBSET Words /\ c \in [W \cup {w} -> Version]
    BY <2>3, <2>4
  <2>6. c \in Copies
    BY <2>5 DEF Copies
  <2>7. copy' \in [Readers -> Copies]
    BY <2>2, <2>6 DEF TypeOK
  <2>8. rpc' \in [Readers -> {"idle", "map", "check", "load1", "copy", "load2", "alive"}]
    BY <2>2 DEF TypeOK, Goto
  <2> QED
    BY <1>16, <2>1, <2>7, <2>8, HistoryType DEF TypeOK, CopyWord, reader_frame,
       memory, daemon
<1>17. ASSUME NEW r \in Readers, Load2(r), Observe PROVE TypeOK'
  <2>1. clock' \in 1 .. MaxTime /\ created \subseteq created'
    BY <1>17 DEF TypeOK, Load2, reader_frame, memory
  <2> QED
    BY <1>17, <2>1, HistoryType DEF TypeOK, Load2, Goto, Return, reader_frame,
       memory, daemon
<1>18. ASSUME NEW r \in Readers, Judge(r), Observe PROVE TypeOK'
  <2>1. clock' \in 1 .. MaxTime /\ created \subseteq created'
    BY <1>18 DEF TypeOK, Judge, reader_frame, memory
  <2>2. attempt' \in [Readers -> 0 .. 3] /\ tries' \in [Readers -> 0 .. MaxTries]
    BY <1>18, BlockAssumption DEF TypeOK, Located, Judge
  <2> QED
    BY <1>18, <2>1, <2>2, HistoryType DEF TypeOK, Judge, Goto, Return,
       reader_frame, memory, daemon
<1>19. CASE UNCHANGED vars
  BY <1>19 DEF TypeOK, vars, history, memory, daemon, locals
<1> QED
  BY <1>1, <1>2, <1>3, <1>4, <1>5, <1>6, <1>7, <1>8, <1>9, <1>10, <1>11, <1>12,
     <1>13, <1>14, <1>15, <1>16, <1>17, <1>18, <1>19 DEF Next, Daemon, Reader

(* A reader leaves the daemon, its memory and the clock alone. *)
LEMMA ReaderFrame ==
    ASSUME NEW r \in Readers, Reader(r)
    PROVE  UNCHANGED <<clock, name, created, sized, seq, word, daemon>>
BY DEF Reader, Call, MapOpen, MapCheck, Load1, CopyWord, Load2, Judge,
   reader_frame,
       memory

(* The daemon and the clock leave the readers alone.                       *)
LEMMA DaemonFrame ==
    ASSUME Daemon \/ Tick
    PROVE  UNCHANGED locals
BY DEF Daemon, Tick, Open, Truncate, Memset, Poll, Stop, Begin, Store, End,
   Unlink, Crash

(* Objects stay numbered. *)
LEMMA NumberedNext ==
    ASSUME TypeOK, Numbered, [Next]_vars
    PROVE  Numbered'
<1>1. CASE Open /\ Observe
  <2>1. PICK k \in 0 .. starts : created = 1 .. k
    BY DEF Numbered
  <2>2. k \in Nat /\ starts \in Nat /\ k <= starts /\ starts' = starts + 1
    BY <1>1 DEF TypeOK, Open
  <2>3. CASE name = None
    <3>1. shm' = k + 1 /\ created' = created \cup {k + 1}
      BY <1>1, <2>1, <2>3, NextObject DEF Open
    <3>2. created' = 1 .. k + 1 /\ k + 1 \in 0 .. starts'
      BY <2>1, <2>2, <3>1
    <3> QED
      BY <1>1, <2>2, <3>1, <3>2 DEF Numbered, Open
  <2>4. CASE name # None
    <3>1. shm' = name /\ name \in created /\ created' = created
      BY <1>1, <2>4 DEF Numbered, Open
    <3>2. k \in 0 .. starts'
      BY <2>2
    <3> QED
      BY <1>1, <2>1, <2>2, <3>1, <3>2 DEF Numbered, Open
  <2> QED
    BY <2>3, <2>4
<1>2. CASE Truncate /\ Observe
  BY <1>2 DEF TypeOK, Numbered, Truncate, daemon, memory
<1>3. CASE Memset /\ Observe
  <2>1. PICK w \in todo : IF w = "seq"
                          THEN seq' = [seq EXCEPT ![shm] = 0] /\ UNCHANGED word
                          ELSE word' = [word EXCEPT ![shm][w] = Zero] /\ UNCHANGED seq
    BY <1>3 DEF Memset
  <2>2. \A o \in Objects \ created : seq'[o] = seq[o] /\ word'[o] = word[o]
    BY <1>3, <2>1 DEF TypeOK, Numbered, Memset
  <2> QED
    BY <1>3, <2>2 DEF TypeOK, Numbered, Memset
<1>4. CASE Poll /\ Observe
  BY <1>4 DEF TypeOK, Numbered, Poll, daemon, memory
<1>5. CASE Stop /\ Observe
  BY <1>5 DEF TypeOK, Numbered, Stop, daemon, memory
<1>6. CASE Begin /\ Observe
  BY <1>6 DEF TypeOK, Numbered, Begin, daemon, memory
<1>7. CASE Store /\ Observe
  <2>1. PICK w \in todo : word' = [word EXCEPT ![shm][w] = work] /\ todo' = todo \ {w}
    BY <1>7 DEF Store
  <2>2. \A o \in Objects \ created : word'[o] = word[o]
    BY <1>7, <2>1 DEF TypeOK, Numbered, Store
  <2> QED
    BY <1>7, <2>1, <2>2 DEF TypeOK, Numbered, Store
<1>8. CASE End /\ Observe
  BY <1>8 DEF TypeOK, Numbered, End, daemon, memory
<1>9. CASE Unlink /\ Observe
  BY <1>9 DEF TypeOK, Numbered, Unlink, daemon, memory
<1>10. CASE Crash /\ Observe
  BY <1>10 DEF TypeOK, Numbered, Crash, daemon, memory
<1>11. CASE Tick /\ Observe
  BY <1>11 DEF TypeOK, Numbered, Tick, daemon, memory
<1>12. ASSUME NEW r \in Readers, Reader(r), Observe PROVE Numbered'
  <2>1. UNCHANGED <<starts, created, name, dpc, shm, sized, todo, seq, word>>
    BY <1>12, ReaderFrame DEF daemon
  <2> QED
    BY <2>1 DEF Numbered
<1>13. CASE UNCHANGED vars
  BY <1>13 DEF Numbered, vars, daemon, memory
<1> QED
  BY <1>1, <1>2, <1>3, <1>4, <1>5, <1>6, <1>7, <1>8, <1>9, <1>10, <1>11, <1>12,
     <1>13 DEF Next, Daemon

(* Readers only look at what they have mapped. *)
LEMMA LocatedNext ==
    ASSUME TypeOK, Numbered, Located, [Next]_vars
    PROVE  Located'
<1>1. CASE Open /\ Observe
  <2>1. UNCHANGED locals
    BY <1>1, DaemonFrame DEF Daemon
  <2>2. created \subseteq created'
    BY <1>1 DEF Open, memory
  <2> QED
    BY <2>1, <2>2 DEF Located, locals
<1>2. CASE Truncate /\ Observe
  <2>1. UNCHANGED locals
    BY <1>2, DaemonFrame DEF Daemon
  <2>2. created \subseteq created'
    BY <1>2 DEF Truncate, memory
  <2> QED
    BY <2>1, <2>2 DEF Located, locals
<1>3. CASE Memset /\ Observe
  <2>1. UNCHANGED locals
    BY <1>3, DaemonFrame DEF Daemon
  <2>2. created \subseteq created'
    BY <1>3 DEF Memset, memory
  <2> QED
    BY <2>1, <2>2 DEF Located, locals
<1>4. CASE Poll /\ Observe
  <2>1. UNCHANGED locals
    BY <1>4, DaemonFrame DEF Daemon
  <2>2. created \subseteq created'
    BY <1>4 DEF Poll, memory
  <2> QED
    BY <2>1, <2>2 DEF Located, locals
<1>5. CASE Stop /\ Observe
  <2>1. UNCHANGED locals
    BY <1>5, DaemonFrame DEF Daemon
  <2>2. created \subseteq created'
    BY <1>5 DEF Stop, memory
  <2> QED
    BY <2>1, <2>2 DEF Located, locals
<1>6. CASE Begin /\ Observe
  <2>1. UNCHANGED locals
    BY <1>6, DaemonFrame DEF Daemon
  <2>2. created \subseteq created'
    BY <1>6 DEF Begin, memory
  <2> QED
    BY <2>1, <2>2 DEF Located, locals
<1>7. CASE Store /\ Observe
  <2>1. UNCHANGED locals
    BY <1>7, DaemonFrame DEF Daemon
  <2>2. created \subseteq created'
    BY <1>7 DEF Store, memory
  <2> QED
    BY <2>1, <2>2 DEF Located, locals
<1>8. CASE End /\ Observe
  <2>1. UNCHANGED locals
    BY <1>8, DaemonFrame DEF Daemon
  <2>2. created \subseteq created'
    BY <1>8 DEF End, memory
  <2> QED
    BY <2>1, <2>2 DEF Located, locals
<1>9. CASE Unlink /\ Observe
  <2>1. UNCHANGED locals
    BY <1>9, DaemonFrame DEF Daemon
  <2>2. created \subseteq created'
    BY <1>9 DEF Unlink, memory
  <2> QED
    BY <2>1, <2>2 DEF Located, locals
<1>10. CASE Crash /\ Observe
  <2>1. UNCHANGED locals
    BY <1>10, DaemonFrame DEF Daemon
  <2>2. created \subseteq created'
    BY <1>10 DEF Crash, memory
  <2> QED
    BY <2>1, <2>2 DEF Located, locals
<1>11. CASE Tick /\ Observe
  <2>1. UNCHANGED locals
    BY <1>11, DaemonFrame DEF Daemon
  <2>2. created \subseteq created'
    BY <1>11 DEF Tick, memory
  <2> QED
    BY <2>1, <2>2 DEF Located, locals
<1>12. ASSUME NEW r \in Readers, Call(r), Observe PROVE Located'
  <2>1. created' = created
    BY <1>12 DEF Call, reader_frame, memory
  <2> QED
    BY <1>12, <2>1 DEF TypeOK, Located, Numbered, Call, Goto, Return, None
<1>13. ASSUME NEW r \in Readers, MapOpen(r), Observe PROVE Located'
  <2>1. created' = created
    BY <1>13 DEF MapOpen, reader_frame, memory
  <2> QED
    BY <1>13, <2>1 DEF TypeOK, Located, Numbered, MapOpen, Goto, Return, None
<1>14. ASSUME NEW r \in Readers, MapCheck(r), Observe PROVE Located'
  <2>1. created' = created
    BY <1>14 DEF MapCheck, reader_frame, memory
  <2> QED
    BY <1>14, <2>1 DEF TypeOK, Located, Numbered, MapCheck, Goto, Return, None
<1>15. ASSUME NEW r \in Readers, Load1(r), Observe PROVE Located'
  <2>1. created' = created /\ UNCHANGED <<attempt, fd, block>>
    BY <1>15 DEF Load1, reader_frame, memory
  <2>2. /\ rpc[r] = "load1" /\ rpc'[r] \in {"idle", "load1", "copy"}
        /\ \A q \in Readers \ {r} : rpc'[q] = rpc[q] /\ copy'[q] = copy[q]
    BY <1>15 DEF TypeOK, Load1, Goto, Return
  <2> QED
    BY <2>1, <2>2 DEF Located
<1>16. ASSUME NEW r \in Readers, CopyWord(r), Observe PROVE Located'
  <2>1. created' = created
    BY <1>16 DEF CopyWord, reader_frame, memory
  <2>2. UNCHANGED <<block, fd, attempt>> /\ rpc[r] = "copy"
    BY <1>16 DEF CopyWord
  <2>3. PICK c :
           /\ copy' = [copy EXCEPT ![r] = c]
           /\ rpc' = [rpc EXCEPT ![r] = IF DOMAIN c = Words THEN "load2" ELSE "copy"]
    BY <1>16, Zenon DEF CopyWord, Goto
  <2>4. rpc \in [Readers -> {"idle", "map", "check", "load1", "copy", "load2", "alive"}]
        /\ copy \in [Readers -> Copies]
    BY DEF TypeOK
  <2>5. /\ \A q \in Readers \ {r} : rpc'[q] = rpc[q] /\ copy'[q] = copy[q]
        /\ copy'[r] = c
        /\ rpc'[r] = IF DOMAIN c = Words THEN "load2" ELSE "copy"
    BY <2>3, <2>4
  <2> QED
    BY <2>1, <2>2, <2>5 DEF Located
<1>17. ASSUME NEW r \in Readers, Load2(r), Observe PROVE Located'
  <2>1. created' = created
    BY <1>17 DEF Load2, reader_frame, memory
  <2> QED
    BY <1>17, <2>1 DEF TypeOK, Located, Numbered, Load2, Goto, Return, None
<1>18. ASSUME NEW r \in Readers, Judge(r), Observe PROVE Located'
  <2>1. created' = created /\ UNCHANGED <<fd, copy>>
    BY <1>18 DEF Judge, reader_frame, memory
  <2>2. /\ rpc[r] = "alive"
        /\ \A q \in Readers \ {r} : /\ rpc'[q] = rpc[q] /\ attempt'[q] = attempt[q]
                                    /\ block'[q] = block[q]
    BY <1>18 DEF TypeOK, Judge, Goto, Return
  <2>3. \/ rpc'[r] = "idle" /\ block'[r] \in {block[r], None}
        \/ rpc'[r] = "map" /\ block'[r] = None /\ attempt[r] # 2 /\ attempt'[r] = attempt[r] + 1
    BY <1>18 DEF TypeOK, Judge, Goto, Return
  <2> QED
    BY <2>1, <2>2, <2>3 DEF Located
<1>19. CASE UNCHANGED vars
  BY <1>19 DEF Located, vars, memory, locals
<1> QED
  BY <1>1, <1>2, <1>3, <1>4, <1>5, <1>6, <1>7, <1>8, <1>9, <1>10, <1>11, <1>12,
     <1>13, <1>14, <1>15, <1>16, <1>17, <1>18, <1>19 DEF Next, Daemon, Reader

(* The modulus is even: one step of the sequence word changes its parity,  *)
(* also where it wraps.                                                    *)
LEMMA ParityFlips ==
    ASSUME NEW x \in 0 .. SEQMOD - 1
    PROVE  ((x + 1) % SEQMOD) % 2 = 1 - (x % 2)
<1>1. x \in Nat /\ SEQMOD \in Nat /\ SEQMOD % 2 = 0 /\ SEQMOD > 2 /\ x < SEQMOD
  BY SeqAssumption
<1>2. CASE x + 1 < SEQMOD
  <2>1. (x + 1) % SEQMOD = x + 1
    BY <1>1, <1>2, SMT
  <2> QED
    BY <1>1, <2>1, SMT
<1>3. CASE x + 1 = SEQMOD
  <2>1. (x + 1) % SEQMOD = 0
    BY <1>1, <1>3, SMT
  <2>2. x % 2 = 1
    BY <1>1, <1>3, SMT
  <2> QED
    BY <2>1, <2>2, SMT
<1> QED
  BY <1>1, <1>2, <1>3, SMT

(* An object that is taken over stays so. *)
LEMMA ReusedGrows ==
    ASSUME TypeOK, Numbered, Observe
    PROVE  /\ reused \subseteq reused'
           /\ dpc = "off" /\ dpc' # "off" /\ shm' \in created => shm' \in reused'
BY DEF Observe

(* The sequence word guards the words. *)
LEMMA SeqLockNext ==
    ASSUME TypeOK, Numbered, Stored, SeqLock, [Next]_vars
    PROVE  SeqLock'
<1>1. CASE Open /\ Observe
  <2>1. UNCHANGED <<word, seq>> /\ dpc' = "truncate" /\ dpc = "off"
    BY <1>1 DEF Open
  <2>2. ASSUME NEW o \in Objects \ reused', o = shm'
        PROVE  seq[o] = 0 /\ word[o] = Blank
    <3>1. o \notin created
      BY <1>1, <2>1, <2>2, ReusedGrows
    <3> QED
      BY <3>1 DEF Numbered
  <2> QED
    BY <1>1, <2>1, <2>2, ReusedGrows DEF SeqLock
<1>2. CASE Truncate /\ Observe
  BY <1>2, ReusedGrows DEF SeqLock, Truncate, memory
<1>3. CASE Memset /\ Observe
  <2>1. PICK w \in todo : IF w = "seq"
                          THEN seq' = [seq EXCEPT ![shm] = 0] /\ UNCHANGED word
                          ELSE word' = [word EXCEPT ![shm][w] = Zero] /\ UNCHANGED seq
    BY <1>3 DEF Memset
  <2>2. shm' = shm /\ dpc = "memset" /\ dpc' \in {"memset", "poll"}
    BY <1>3 DEF Memset
  <2>3. \A o \in Objects \ {shm} : seq'[o] = seq[o] /\ word'[o] = word[o]
    BY <2>1 DEF TypeOK
  <2>4. ASSUME NEW o \in Objects \ reused, o = shm
        PROVE  seq'[o] = 0 /\ word'[o] = Blank
    <3>1. seq[o] = 0 /\ word[o] = Blank
      BY <2>2, <2>4 DEF SeqLock
    <3>2. [word[o] EXCEPT ![w] = Zero] = Blank
      BY <3>1 DEF Blank
    <3> QED
      BY <2>1, <2>4, <3>1, <3>2 DEF TypeOK
  <2>5. Blank["head"] = Blank["tail"] /\ 0 % 2 = 0
    BY DEF Blank, Words
  <2> QED
    BY <1>3, <2>2, <2>3, <2>4, <2>5, ReusedGrows DEF SeqLock
<1>4. CASE Poll /\ Observe
  BY <1>4, ReusedGrows DEF SeqLock, Poll, memory
<1>5. CASE Stop /\ Observe
  BY <1>5, ReusedGrows DEF SeqLock, Stop, memory
<1>6. CASE Begin /\ Observe
  <2>1. shm' = shm /\ dpc = "begin" /\ dpc' = "store" /\ word' = word
    BY <1>6 DEF Begin
  <2>2. \A o \in Objects : seq'[o] = IF o = shm THEN (seq[o] + 1) % SEQMOD ELSE seq[o]
    BY <1>6 DEF TypeOK, Begin
  <2>3. ASSUME NEW o \in Objects \ reused, o = shm
        PROVE  seq'[o] % 2 = 1
    <3>1. seq[o] \in 0 .. SEQMOD - 1 /\ seq[o] % 2 = 0
      BY <2>1, <2>3 DEF TypeOK, SeqLock
    <3>2. ((seq[o] + 1) % SEQMOD) % 2 = 1 - (seq[o] % 2)
      BY <3>1, ParityFlips
    <3> QED
      BY <2>2, <2>3, <3>1, <3>2
  <2> QED
    BY <1>6, <2>1, <2>2, <2>3, ReusedGrows DEF SeqLock
<1>7. CASE Store /\ Observe
  <2>1. shm' = shm /\ dpc = "store" /\ dpc' \in {"store", "end"} /\ seq' = seq
    BY <1>7 DEF Store
  <2>2. \A o \in Objects \ {shm} : word'[o] = word[o]
    BY <1>7 DEF TypeOK, Store
  <2> QED
    BY <1>7, <2>1, <2>2, ReusedGrows DEF SeqLock
<1>8. CASE End /\ Observe
  <2>1. shm' = shm /\ dpc = "end" /\ dpc' \in {"poll", "unlink"} /\ word' = word
    BY <1>8 DEF End
  <2>2. \A o \in Objects : seq'[o] = IF o = shm THEN (seq[o] + 1) % SEQMOD ELSE seq[o]
    BY <1>8 DEF TypeOK, End
  <2>3. ASSUME NEW o \in Objects \ reused, o = shm
        PROVE  seq'[o] % 2 = 0
    <3>1. seq[o] \in 0 .. SEQMOD - 1 /\ seq[o] % 2 = 1
      BY <2>1, <2>3 DEF TypeOK, SeqLock
    <3>2. ((seq[o] + 1) % SEQMOD) % 2 = 1 - (seq[o] % 2)
      BY <3>1, ParityFlips
    <3> QED
      BY <2>2, <2>3, <3>1, <3>2
  <2>4. word[shm]["head"] = word[shm]["tail"]
    BY <2>1 DEF Stored, Words
  <2> QED
    BY <1>8, <2>1, <2>2, <2>3, <2>4, ReusedGrows DEF SeqLock
<1>9. CASE Unlink /\ Observe
  <2>1. /\ UNCHANGED <<word, seq>> /\ shm' \in {shm, None}
        /\ dpc' = dpc \/ (dpc = "unlink" /\ dpc' = "off") \/ dpc' = "off"
    BY <1>9 DEF Unlink, memory, daemon
  <2> QED
    BY <1>9, <2>1, ReusedGrows DEF SeqLock, Objects, None
<1>10. CASE Crash /\ Observe
  <2>1. /\ UNCHANGED <<word, seq>> /\ shm' \in {shm, None}
        /\ dpc' = dpc \/ (dpc = "unlink" /\ dpc' = "off") \/ dpc' = "off"
    BY <1>10 DEF Crash, memory, daemon
  <2> QED
    BY <1>10, <2>1, ReusedGrows DEF SeqLock, Objects, None
<1>11. CASE Tick /\ Observe
  <2>1. /\ UNCHANGED <<word, seq>> /\ shm' \in {shm, None}
        /\ dpc' = dpc \/ (dpc = "unlink" /\ dpc' = "off") \/ dpc' = "off"
    BY <1>11 DEF Tick, memory, daemon
  <2> QED
    BY <1>11, <2>1, ReusedGrows DEF SeqLock, Objects, None
<1>12. ASSUME NEW r \in Readers, Reader(r), Observe PROVE SeqLock'
  <2>1. UNCHANGED <<dpc, shm, seq, word>>
    BY <1>12, ReaderFrame DEF daemon
  <2> QED
    BY <1>12, <2>1, ReusedGrows DEF SeqLock
<1>13. CASE UNCHANGED vars
  BY <1>13 DEF SeqLock, vars, daemon, memory, history
<1> QED
  BY <1>1, <1>2, <1>3, <1>4, <1>5, <1>6, <1>7, <1>8, <1>9, <1>10, <1>11, <1>12,
     <1>13 DEF Next, Daemon

(* A publish writes the working copy. *)
LEMMA StoredNext ==
    ASSUME TypeOK, Numbered, Stored, [Next]_vars
    PROVE  Stored'
<1>1. CASE Open /\ Observe
  BY <1>1 DEF TypeOK, Numbered, Stored, Open, daemon, memory
<1>2. CASE Truncate /\ Observe
  BY <1>2 DEF TypeOK, Numbered, Stored, Truncate, daemon, memory
<1>3. CASE Memset /\ Observe
  BY <1>3 DEF TypeOK, Numbered, Stored, Memset, daemon, memory
<1>4. CASE Poll /\ Observe
  BY <1>4 DEF TypeOK, Numbered, Stored, Poll, daemon, memory
<1>5. CASE Stop /\ Observe
  BY <1>5 DEF TypeOK, Numbered, Stored, Stop, daemon, memory
<1>6. CASE Begin /\ Observe
  BY <1>6 DEF TypeOK, Numbered, Stored, Begin, daemon, memory
<1>7. CASE Store /\ Observe
  <2>1. PICK w \in todo : word' = [word EXCEPT ![shm][w] = work] /\ todo' = todo \ {w}
    BY <1>7 DEF Store
  <2>2. shm \in Objects /\ w \in Words
    BY <1>7, <2>1 DEF TypeOK, Numbered, Store
  <2>3. \A x \in Words : word'[shm][x] = IF x = w THEN work ELSE word[shm][x]
    BY <2>1, <2>2 DEF TypeOK
  <2> QED
    BY <1>7, <2>1, <2>3 DEF Stored, Store
<1>8. CASE End /\ Observe
  BY <1>8 DEF TypeOK, Numbered, Stored, End, daemon, memory
<1>9. CASE Unlink /\ Observe
  BY <1>9 DEF TypeOK, Numbered, Stored, Unlink, daemon, memory
<1>10. CASE Crash /\ Observe
  BY <1>10 DEF TypeOK, Numbered, Stored, Crash, daemon, memory
<1>11. CASE Tick /\ Observe
  BY <1>11 DEF TypeOK, Numbered, Stored, Tick, daemon, memory
<1>12. ASSUME NEW r \in Readers, Reader(r), Observe PROVE Stored'
  BY <1>12, ReaderFrame DEF Stored, daemon
<1>13. CASE UNCHANGED vars
  BY <1>13 DEF Stored, vars, daemon, memory
<1> QED
  BY <1>1, <1>2, <1>3, <1>4, <1>5, <1>6, <1>7, <1>8, <1>9, <1>10, <1>11, <1>12,
     <1>13 DEF Next, Daemon

(* What a write of one word leaves.                                        *)
LEMMA OneWord ==
    ASSUME TypeOK, NEW o \in Objects, NEW w \in Words, NEW v,
           word' = [word EXCEPT ![o][w] = v]
    PROVE  \A p \in Objects, x \in Words :
              word'[p][x] = IF p = o /\ x = w THEN v ELSE word[p][x]
BY DEF TypeOK

(* Versions only get older, and an unlinked object says that it is over.   *)
LEMMA DatesNext ==
    ASSUME TypeOK, Numbered, Stored, Dates, [Next]_vars
    PROVE  Dates'
<1>1. CASE Open /\ Observe
  <2>1. /\ UNCHANGED <<clock, word, work>> /\ dpc' # "unlink"
        /\ \A o \in created' \ {name'} : o \in created \ {name}
    BY <1>1 DEF TypeOK, Numbered, Open, Objects, None
  <2> QED
    BY <2>1 DEF Dates, Dated
<1>2. CASE Truncate /\ Observe
  <2>1. /\ UNCHANGED <<clock, word, work, name, created>>
        /\ dpc' = "unlink" => dpc = "unlink" /\ shm' = shm
    BY <1>2 DEF Truncate, memory
  <2> QED
    BY <2>1 DEF Dates, Dated
<1>3. CASE Memset /\ Observe
  <2>1. /\ UNCHANGED <<clock, work, name, created>> /\ dpc' # "unlink"
        /\ shm = name /\ shm \in Objects
    BY <1>3 DEF TypeOK, Numbered, Memset
  <2>2. \A p \in Objects, x \in Words : word'[p][x] \in {word[p][x], IF p = shm THEN Zero ELSE word[p][x]}
    <3>1. PICK w \in todo : IF w = "seq" THEN UNCHANGED word
                                          ELSE word' = [word EXCEPT ![shm][w] = Zero]
      BY <1>3 DEF Memset
    <3> QED
      BY <2>1, <3>1 DEF TypeOK
  <2>3. Zero.t = 0 /\ Zero.pid = 0
    BY DEF Zero
  <2>4. work.t \in Nat /\ clock \in Nat
    BY DEF TypeOK, Version
  <2>5. created \subseteq Objects /\ "head" \in Words
    BY DEF TypeOK, Words
  <2> QED
    BY <2>1, <2>2, <2>3, <2>4, <2>5 DEF Dates, Dated
<1>4. CASE Poll /\ Observe
  <2>1. /\ UNCHANGED <<clock, word, name, created>> /\ dpc' # "unlink"
    BY <1>4 DEF Poll, memory
  <2>2. work' = [n |-> work.n + 1, t |-> work'.t, pid |-> work'.pid] /\ work'.t \in {work.t, clock}
    BY <1>4 DEF TypeOK, Version, Poll
  <2>3. /\ work.t \in Nat /\ clock \in Nat /\ clock # 0 /\ work.n \in Nat
        /\ \A o \in Objects, w \in Words : word[o][w].t \in Nat
    BY DEF TypeOK, Version
  <2>4. Dated(work)' /\ work.t <= work'.t
    BY <1>4, <2>1, <2>2, <2>3 DEF Dates, Dated, Poll
  <2> QED
    BY <2>1, <2>2, <2>3, <2>4 DEF Dates, Dated
<1>5. CASE Stop /\ Observe
  <2>1. /\ UNCHANGED <<clock, word, name, created>> /\ dpc' # "unlink"
    BY <1>5 DEF Stop, memory
  <2>2. work' = [n |-> work.n + 1, t |-> work'.t, pid |-> work'.pid] /\ work'.t \in {work.t, clock}
    BY <1>5 DEF TypeOK, Version, Stop
  <2>3. /\ work.t \in Nat /\ clock \in Nat /\ clock # 0 /\ work.n \in Nat
        /\ \A o \in Objects, w \in Words : word[o][w].t \in Nat
    BY DEF TypeOK, Version
  <2>4. Dated(work)' /\ work.t <= work'.t
    BY <1>5, <2>1, <2>2, <2>3 DEF Dates, Dated, Stop
  <2> QED
    BY <2>1, <2>2, <2>3, <2>4 DEF Dates, Dated
<1>6. CASE Begin /\ Observe
  <2>1. /\ UNCHANGED <<clock, word, work, name, created>>
        /\ dpc' = "unlink" => dpc = "unlink" /\ shm' = shm
    BY <1>6 DEF Begin, memory
  <2> QED
    BY <2>1 DEF Dates, Dated
<1>7. CASE Store /\ Observe
  <2>1. /\ UNCHANGED <<clock, work, name, created>> /\ dpc' # "unlink"
        /\ shm = name /\ shm \in Objects
    BY <1>7 DEF TypeOK, Numbered, Store
  <2>2. \A p \in Objects, x \in Words : word'[p][x] \in {word[p][x], IF p = shm THEN work ELSE word[p][x]}
    <3>1. PICK w \in todo : word' = [word EXCEPT ![shm][w] = work]
      BY <1>7 DEF Store
    <3>2. w \in Words
      BY <1>7, <3>1 DEF Numbered, Store
    <3> QED
      BY <2>1, <3>1, <3>2, OneWord
  <2>3. work.t \in Nat /\ clock \in Nat
    BY DEF TypeOK, Version
  <2>4. created \subseteq Objects /\ "head" \in Words
    BY DEF TypeOK, Words
  <2> QED
    BY <2>1, <2>2, <2>3, <2>4 DEF Dates, Dated
<1>8. CASE End /\ Observe
  <2>1. /\ UNCHANGED <<clock, word, work, name, created>> /\ shm' = shm
        /\ dpc' = "unlink" => work.pid = 0
    BY <1>8 DEF End
  <2>2. word[shm]["head"] = work
    BY <1>8 DEF Stored, End, Words
  <2> QED
    BY <2>1, <2>2 DEF Dates, Dated
<1>9. CASE Unlink /\ Observe
  <2>1. /\ UNCHANGED <<clock, word, work, created>> /\ dpc' # "unlink" /\ shm = name
        /\ word[shm]["head"].pid = 0
    BY <1>9 DEF Numbered, Dates, Unlink
  <2> QED
    BY <2>1 DEF Dates, Dated
<1>10. CASE Crash /\ Observe
  <2>1. /\ UNCHANGED <<clock, word, work, name, created>>
        /\ dpc' = "unlink" => dpc = "unlink" /\ shm' = shm
    BY <1>10 DEF Crash, memory
  <2> QED
    BY <2>1 DEF Dates, Dated
<1>11. CASE Tick /\ Observe
  <2>1. UNCHANGED <<word, work, name, created, dpc, shm>> /\ clock' = clock + 1
    BY <1>11 DEF Tick, memory, daemon
  <2>2. /\ work.t \in Nat /\ clock \in Nat
        /\ \A o \in Objects, w \in Words : word[o][w].t \in Nat
    BY DEF TypeOK, Version
  <2> QED
    BY <2>1, <2>2 DEF Dates, Dated
<1>12. ASSUME NEW r \in Readers, Reader(r), Observe PROVE Dates'
  <2>1. UNCHANGED <<clock, word, work, name, created, dpc, shm>>
    BY <1>12, ReaderFrame DEF daemon
  <2> QED
    BY <2>1 DEF Dates, Dated
<1>13. CASE UNCHANGED vars
  BY <1>13 DEF Dates, Dated, vars, daemon, memory
<1> QED
  BY <1>1, <1>2, <1>3, <1>4, <1>5, <1>6, <1>7, <1>8, <1>9, <1>10, <1>11, <1>12,
     <1>13 DEF Next, Daemon

-----------------------------------------------------------------------------
(* No answer is torn.                                                      *)

(* While the sequence word keeps an even value, so do the words.           *)
LEMMA QuietStep ==
    ASSUME TypeOK, SeqLock, Daemon \/ Tick,
           NEW o \in Objects \ reused, NEW s, s % 2 = 0, seq'[o] = s,
           o = shm => ~End
    PROVE  seq[o] = s /\ word'[o] = word[o]
<1>1. CASE Open
  BY <1>1 DEF Open, memory
<1>2. CASE Truncate
  BY <1>2 DEF Truncate, memory
<1>3. CASE Memset
  <2>1. PICK w \in todo : IF w = "seq"
                          THEN seq' = [seq EXCEPT ![shm] = 0] /\ UNCHANGED word
                          ELSE word' = [word EXCEPT ![shm][w] = Zero] /\ UNCHANGED seq
    BY <1>3 DEF Memset
  <2>2. CASE o = shm
    <3>1. seq[o] = 0 /\ word[o] = Blank
      BY <1>3, <2>2 DEF SeqLock, Memset
    <3>2. [word[o] EXCEPT ![w] = Zero] = Blank
      BY <3>1 DEF Blank
    <3> QED
      BY <2>1, <2>2, <3>1, <3>2 DEF TypeOK
  <2>3. CASE o # shm
    BY <2>1, <2>3 DEF TypeOK
  <2> QED
    BY <2>2, <2>3
<1>4. CASE Poll
  BY <1>4 DEF Poll, memory
<1>5. CASE Stop
  BY <1>5 DEF Stop, memory
<1>6. CASE Begin
  <2>1. word' = word /\ dpc = "begin" /\ seq[o] \in 0 .. SEQMOD - 1
        /\ seq'[o] = IF o = shm THEN (seq[o] + 1) % SEQMOD ELSE seq[o]
    BY <1>6 DEF TypeOK, Begin
  <2>2. CASE o = shm
    <3>1. seq[o] % 2 = 0
      BY <2>1, <2>2 DEF SeqLock
    <3>2. seq'[o] % 2 = 1
      BY <2>1, <2>2, <3>1, ParityFlips
    <3> QED
      BY <3>2
  <2> QED
    BY <2>1, <2>2
<1>7. CASE Store
  <2>1. seq' = seq /\ dpc = "store" /\ (o # shm => word'[o] = word[o])
    BY <1>7 DEF TypeOK, Store
  <2>2. o = shm => seq[o] % 2 = 1
    BY <2>1 DEF SeqLock
  <2> QED
    BY <2>1, <2>2
<1>8. CASE End
  BY <1>8 DEF TypeOK, End
<1>9. CASE Unlink
  BY <1>9 DEF Unlink, memory
<1>10. CASE Crash
  BY <1>10 DEF Crash, memory
<1>11. CASE Tick
  BY <1>11 DEF Tick, memory
<1> QED
  BY <1>1, <1>2, <1>3, <1>4, <1>5, <1>6, <1>7, <1>8, <1>9, <1>10, <1>11 DEF
     Daemon

(* The reader of a copy under way or done is not disturbed by the daemon.  *)
LEMMA UntornDaemon ==
    ASSUME TypeOK, Numbered, Located, SeqLock, Untorn, Daemon \/ Tick, Observe, NoLap
    PROVE  Untorn'
<1> SUFFICES ASSUME NEW r \in Readers, block[r] \notin reused'
             PROVE  /\ rpc[r] \in {"copy", "load2"} =>
                          /\ s1[r] % 2 = 0
                          /\ seq'[block[r]] = s1[r] =>
                                \A w \in DOMAIN copy[r] : copy[r][w] = word'[block[r]][w]
                    /\ rpc[r] = "alive" \/ Answered(r, "ok") => ~Torn(r)
  <2>1. UNCHANGED <<block, rpc, s1, copy, result>>
    BY DaemonFrame DEF locals
  <2> QED
    BY <2>1 DEF Untorn, UntornAt, Answered, Torn
<1>1. block[r] \notin reused
  BY ReusedGrows
<1>2. ASSUME rpc[r] \in {"copy", "load2"}, seq'[block[r]] = s1[r]
      PROVE  \A w \in DOMAIN copy[r] : copy[r][w] = word'[block[r]][w]
  <2>1. block[r] \in Objects \ reused /\ s1[r] % 2 = 0
    BY <1>1, <1>2 DEF TypeOK, Located, Untorn, UntornAt
  <2>2. block[r] = shm => ~End
    BY <1>2, <2>1 DEF NoLap
  <2>3. seq[block[r]] = s1[r] /\ word'[block[r]] = word[block[r]]
    BY <1>2, <2>1, <2>2, QuietStep
  <2> QED
    BY <1>1, <1>2, <2>3 DEF Untorn, UntornAt
<1> QED
  BY <1>1, <1>2 DEF Untorn, UntornAt

(* What a reader's step makes of its own copy. *)
LEMMA UntornOwn ==
    ASSUME TypeOK, Located, SeqLock, Untorn, NEW r \in Readers, Reader(r),
           block'[r] \notin reused
    PROVE  UntornAt(r)'
<1>0. UNCHANGED <<seq, word>>
  BY ReaderFrame
<1> SUFFICES /\ rpc'[r] \in {"copy", "load2"} =>
                   /\ s1'[r] % 2 = 0
                   /\ seq[block'[r]] = s1'[r] =>
                         \A w \in DOMAIN copy'[r] : copy'[r][w] = word[block'[r]][w]
             /\ rpc'[r] = "alive" \/ (rpc'[r] = "idle" /\ result'[r] = "ok") =>
                   copy'[r]["head"] = copy'[r]["tail"]
  BY <1>0 DEF UntornAt, Answered, Torn
<1>1. CASE Call(r)
  <2>1. UNCHANGED <<block, s1, copy>> /\ rpc'[r] \in {"map", "load1"} /\ result'[r] = "none"
    BY <1>1 DEF TypeOK, Call, Goto
  <2> QED
    BY <2>1
<1>2. CASE MapOpen(r)
  <2>1. /\ UNCHANGED <<block, s1, copy>> /\ rpc'[r] \in {"check", "idle"}
        /\ rpc'[r] = "idle" => result'[r] = "emon"
    BY <1>2 DEF TypeOK, MapOpen, Goto, Return
  <2> QED
    BY <2>1
<1>3. CASE MapCheck(r)
  <2>1. /\ UNCHANGED <<s1, copy>> /\ rpc'[r] \in {"load1", "idle"}
        /\ rpc'[r] = "idle" => result'[r] = "emon"
    BY <1>3 DEF TypeOK, MapCheck, Goto, Return
  <2> QED
    BY <2>1
<1>4. CASE Load1(r)
  <2>1. CASE tries[r] = MaxTries
    BY <1>4, <2>1 DEF TypeOK, Load1, Return, Goto
  <2>2. CASE tries[r] # MaxTries
    <3>1. /\ rpc'[r] = IF seq[block[r]] % 2 = 1 THEN "load1" ELSE "copy"
          /\ s1'[r] = seq[block[r]] /\ copy'[r] = <<>>
      BY <1>4, <2>2 DEF TypeOK, Load1, Goto
    <3>2. rpc'[r] = "copy" => seq[block[r]] % 2 = 0
      <4>1. seq[block[r]] \in Nat
        BY <1>4 DEF TypeOK, Located, Load1, None
      <4>2. seq[block[r]] % 2 \in {0, 1}
        BY <4>1
      <4> QED
        BY <3>1, <4>2
    <3> QED
      BY <3>1, <3>2
  <2> QED
    BY <2>1, <2>2
<1>5. CASE CopyWord(r)
  <2>1. PICK w \in Words \ DOMAIN copy[r] :
           copy' = [copy EXCEPT ![r] = [v \in DOMAIN copy[r] \cup {w} |->
                                          IF v = w THEN word[block[r]][w] ELSE copy[r][v]]]
    BY <1>5 DEF CopyWord
  <2>2. /\ UNCHANGED <<block, s1>> /\ rpc[r] = "copy" /\ rpc'[r] \in {"copy", "load2"}
    BY <1>5 DEF TypeOK, CopyWord, Goto
  <2>3. \A v \in DOMAIN copy'[r] :
           copy'[r][v] = IF v = w THEN word[block[r]][w] ELSE copy[r][v]
    BY <2>1 DEF TypeOK
  <2>4. \A v \in DOMAIN copy'[r] : v = w \/ v \in DOMAIN copy[r]
    BY <2>1 DEF TypeOK
  <2> QED
    BY <2>2, <2>3, <2>4 DEF Untorn, UntornAt
<1>6. CASE Load2(r)
  <2>1. /\ UNCHANGED <<block, s1, copy>> /\ rpc[r] = "load2"
        /\ rpc'[r] = IF seq[block[r]] = s1[r] THEN "alive" ELSE "load1"
    BY <1>6 DEF TypeOK, Load2, Goto
  <2>2. ASSUME seq[block[r]] = s1[r]
        PROVE  ~Torn(r)
    <3>1. block[r] \in Objects \ reused /\ DOMAIN copy[r] = Words
      BY <2>1 DEF TypeOK, Located
    <3>2. seq[block[r]] % 2 = 0 /\ \A w \in Words : copy[r][w] = word[block[r]][w]
      BY <2>1, <2>2, <3>1 DEF Untorn, UntornAt
    <3> QED
      BY <3>1, <3>2 DEF SeqLock, Torn, Words
  <2> QED
    BY <2>1, <2>2 DEF Torn
<1>7. CASE Judge(r)
  <2>1. /\ rpc[r] = "alive" /\ copy' = copy /\ rpc'[r] \in {"idle", "map"}
        /\ rpc'[r] = "idle" /\ result'[r] = "ok" => block'[r] = block[r]
    BY <1>7 DEF TypeOK, Judge, Goto, Return
  <2> QED
    BY <2>1 DEF Untorn, UntornAt, Answered, Torn
<1> QED
  BY <1>1, <1>2, <1>3, <1>4, <1>5, <1>6, <1>7 DEF Reader

(* A reader's step leaves the copies of the others alone.                  *)
LEMMA OtherReaders ==
    ASSUME TypeOK, NEW r \in Readers, Reader(r), NEW q \in Readers, q # r
    PROVE  /\ rpc'[q] = rpc[q] /\ block'[q] = block[q] /\ fd'[q] = fd[q]
           /\ attempt'[q] = attempt[q] /\ tries'[q] = tries[q] /\ s1'[q] = s1[q]
           /\ copy'[q] = copy[q] /\ result'[q] = result[q]
<1>1. CASE Call(r)
  BY <1>1 DEF TypeOK, Call, Goto
<1>2. CASE MapOpen(r)
  BY <1>2 DEF TypeOK, MapOpen, Goto, Return
<1>3. CASE MapCheck(r)
  BY <1>3 DEF TypeOK, MapCheck, Goto, Return
<1>4. CASE Load1(r)
  BY <1>4 DEF TypeOK, Load1, Goto, Return
<1>5. CASE CopyWord(r)
  BY <1>5 DEF TypeOK, CopyWord, Goto
<1>6. CASE Load2(r)
  BY <1>6 DEF TypeOK, Load2, Goto
<1>7. CASE Judge(r)
  BY <1>7 DEF TypeOK, Judge, Goto, Return
<1> QED
  BY <1>1, <1>2, <1>3, <1>4, <1>5, <1>6, <1>7 DEF Reader

LEMMA UntornNext ==
    ASSUME TypeOK, Numbered, Located, SeqLock, Untorn, [Next]_vars, NoLap
    PROVE  Untorn'
<1>1. CASE (Daemon \/ Tick) /\ Observe
  BY <1>1, UntornDaemon
<1>2. ASSUME NEW r \in Readers, Reader(r), Observe
      PROVE  Untorn'
  <2>1. UNCHANGED <<seq, word>>
    BY <1>2, ReaderFrame
  <2>2. reused \subseteq reused'
    BY <1>2, ReusedGrows
  <2>3. ASSUME NEW q \in Readers, block'[q] \notin reused'
        PROVE  UntornAt(q)'
    <3>1. CASE q = r
      <4>1. block'[r] \notin reused
        BY <2>2, <2>3, <3>1
      <4> QED
        BY <1>2, <3>1, <4>1, UntornOwn
    <3>2. CASE q # r
      BY <1>2, <2>1, <2>2, <2>3, <3>2, OtherReaders DEF Untorn, UntornAt,
         Answered, Torn
    <3> QED
      BY <3>1, <3>2
  <2> QED
    BY <2>3 DEF Untorn
<1>3. CASE UNCHANGED vars
  BY <1>3 DEF Untorn, UntornAt, Answered, Torn, vars, memory, locals, history
<1> QED
  BY <1>1, <1>2, <1>3 DEF Next

-----------------------------------------------------------------------------
(* The invariant of the daemon and its memory, and of where readers are.   *)
BlockInv == TypeOK /\ Numbered /\ Located /\ SeqLock /\ Stored /\ Dates

LEMMA BlockInit == Init => BlockInv
<1> SUFFICES ASSUME Init PROVE BlockInv
  OBVIOUS
<1>1. TypeOK
  <2>1. seq \in [Objects -> 0 .. SEQMOD - 1] /\ word \in [Objects -> [Words -> Version]]
    BY VersionType, SeqAssumption DEF Init, Blank
  <2>2. copy \in [Readers -> Copies] /\ s1 \in [Readers -> 0 .. SEQMOD - 1]
    BY VersionType, SeqAssumption DEF Init
  <2>3. tries \in [Readers -> 0 .. MaxTries] /\ since \in [Readers -> 1 .. MaxTime]
    BY BlockAssumption, BoundAssumption DEF Init
  <2>4. clock \in 1 .. MaxTime /\ starts \in 0 .. MaxStarts /\ crashes \in 0 .. MaxCrashes
    BY BoundAssumption DEF Init
  <2> QED
    BY <2>1, <2>2, <2>3, <2>4, VersionType DEF Init, TypeOK
<1>2. Numbered
  <2>1. 0 \in 0 .. starts /\ created = 1 .. 0
    BY DEF Init
  <2> QED
    BY <2>1 DEF Init, Numbered, Blank
<1>3. Located
  BY DEF Init, Located
<1>4. SeqLock /\ Stored
  BY DEF Init, SeqLock, Stored, Words, Objects, None
<1>5. Dates
  BY DEF Init, Dates, Dated, Zero
<1> QED
  BY <1>1, <1>2, <1>3, <1>4, <1>5 DEF BlockInv

LEMMA BlockNext == BlockInv /\ [Next]_vars => BlockInv'
BY TypeNext, NumberedNext, LocatedNext, SeqLockNext, StoredNext, DatesNext DEF
   BlockInv

(* The inductive invariant: the sequence word, what is stored, and what    *)
(* the readers have copied of it (publish, mon_Copy) fit together at every *)
(* memory access.                                                          *)
THEOREM BlockInvHolds == Spec => []BlockInv
BY BlockInit, BlockNext, PTL DEF Spec

(* Every variable stays within its type.                                   *)
THEOREM TypeCorrect == Spec => []TypeOK
<1>1. BlockInv => TypeOK
  BY DEF BlockInv
<1> QED
  BY <1>1, BlockInvHolds, PTL

(* No answer is torn unless a daemon has taken over the block it comes     *)
(* from, for any number of readers, crashes and restarts, as long as the   *)
(* sequence word does not come around within one copy.                     *)
THEOREM NotTorn == Spec /\ [][NoLap]_vars => []TornOnlyIfReused
<1>1. Init => Untorn
  BY DEF Init, Untorn, UntornAt, Answered
<1>2. BlockInv /\ Untorn /\ [Next]_vars /\ [NoLap]_vars => Untorn'
  <2> SUFFICES ASSUME BlockInv, Untorn, [Next]_vars, [NoLap]_vars
               PROVE  Untorn'
    OBVIOUS
  <2>1. CASE NoLap
    BY <2>1, UntornNext DEF BlockInv
  <2>2. CASE UNCHANGED vars
    BY <2>2 DEF Untorn, UntornAt, Answered, Torn, vars, memory, locals, history
  <2> QED
    BY <2>1, <2>2
<1>3. Untorn => TornOnlyIfReused
  BY DEF Untorn, UntornAt, TornOnlyIfReused
<1> QED
  BY <1>1, <1>2, <1>3, BlockInvHolds, PTL DEF Spec

-----------------------------------------------------------------------------
(* With so few versions that the sequence word never comes around, no copy *)
(* meets a value again.                                                    *)
LEMMA NoWrap ==
    ASSUME 2 * MaxVersions < SEQMOD, TypeOK, Counted, NEW o \in Objects,
           seq[o] + 1 <= 2 * work.n
    PROVE  (seq[o] + 1) % SEQMOD = seq[o] + 1
<1>1. seq[o] \in Nat /\ work.n \in Nat /\ work.n <= MaxVersions /\ SEQMOD \in Nat
  BY SeqAssumption, BoundAssumption DEF TypeOK, Version
<1>2. seq[o] + 1 < SEQMOD
  BY <1>1, BoundAssumption
<1> QED
  BY <1>1, <1>2, SMT

(* Every version takes two steps of the sequence word. *)
LEMMA CountedNext ==
    ASSUME 2 * MaxVersions < SEQMOD, TypeOK, Numbered, Counted, [Next]_vars
    PROVE  Counted'
<1>1. CASE Open /\ Observe
  <2>1. /\ UNCHANGED <<seq, work>>
        /\ \/ dpc' = dpc /\ shm' = shm
           \/ dpc' \notin {"begin", "store", "end"}
    BY <1>1 DEF Open, memory, daemon
  <2> QED
    BY <2>1 DEF Counted
<1>2. CASE Truncate /\ Observe
  <2>1. /\ UNCHANGED <<seq, work>>
        /\ \/ dpc' = dpc /\ shm' = shm
           \/ dpc' \notin {"begin", "store", "end"}
    BY <1>2 DEF Truncate, memory, daemon
  <2> QED
    BY <2>1 DEF Counted
<1>3. CASE Memset /\ Observe
  <2>1. /\ work' = work /\ dpc' \in {"memset", "poll"} /\ work.n \in Nat
        /\ \A o \in Objects : seq[o] \in Nat /\ seq'[o] \in {seq[o], 0}
    BY <1>3 DEF TypeOK, Version, Memset
  <2> QED
    BY <2>1 DEF Counted
<1>4. CASE Poll /\ Observe
  <2>1. /\ seq' = seq /\ dpc' = "begin" /\ shm' = shm /\ work'.n = work.n + 1
        /\ shm \in Objects
    BY <1>4 DEF TypeOK, Numbered, Version, memory, Poll
  <2>2. work.n \in Nat /\ \A o \in Objects : seq[o] \in Nat
    BY DEF TypeOK, Version
  <2> QED
    BY <2>1, <2>2 DEF Counted
<1>5. CASE Stop /\ Observe
  <2>1. /\ seq' = seq /\ dpc' = "begin" /\ shm' = shm /\ work'.n = work.n + 1
        /\ shm \in Objects
    BY <1>5 DEF TypeOK, Numbered, Version, memory, Stop
  <2>2. work.n \in Nat /\ \A o \in Objects : seq[o] \in Nat
    BY DEF TypeOK, Version
  <2> QED
    BY <2>1, <2>2 DEF Counted
<1>6. CASE Begin /\ Observe
  <2>1. /\ work' = work /\ dpc' = "store" /\ shm' = shm /\ shm \in Objects
        /\ seq[shm] + 2 <= 2 * work.n
    BY <1>6 DEF TypeOK, Numbered, Counted, Begin
  <2>2. work.n \in Nat /\ \A o \in Objects : seq[o] \in Nat
    BY DEF TypeOK, Version
  <2>3. \A o \in Objects : seq'[o] = IF o = shm THEN seq[o] + 1 ELSE seq[o]
    BY <1>6, <2>1, <2>2, NoWrap DEF TypeOK, Begin
  <2> QED
    BY <2>1, <2>2, <2>3 DEF Counted
<1>7. CASE Store /\ Observe
  <2>1. UNCHANGED <<seq, work, shm>> /\ dpc = "store" /\ dpc' # "begin"
    BY <1>7 DEF Store
  <2> QED
    BY <2>1 DEF Counted
<1>8. CASE End /\ Observe
  <2>1. /\ work' = work /\ dpc' \in {"poll", "unlink"} /\ shm \in Objects
        /\ seq[shm] + 1 <= 2 * work.n
    BY <1>8 DEF TypeOK, Numbered, Counted, End
  <2>2. work.n \in Nat /\ \A o \in Objects : seq[o] \in Nat
    BY DEF TypeOK, Version
  <2>3. \A o \in Objects : seq'[o] = IF o = shm THEN seq[o] + 1 ELSE seq[o]
    BY <1>8, <2>1, <2>2, NoWrap DEF TypeOK, End
  <2> QED
    BY <2>1, <2>2, <2>3 DEF Counted
<1>9. CASE Unlink /\ Observe
  <2>1. /\ UNCHANGED <<seq, work>>
        /\ \/ dpc' = dpc /\ shm' = shm
           \/ dpc' \notin {"begin", "store", "end"}
    BY <1>9 DEF Unlink, memory, daemon
  <2> QED
    BY <2>1 DEF Counted
<1>10. CASE Crash /\ Observe
  <2>1. /\ UNCHANGED <<seq, work>>
        /\ \/ dpc' = dpc /\ shm' = shm
           \/ dpc' \notin {"begin", "store", "end"}
    BY <1>10 DEF Crash, memory, daemon
  <2> QED
    BY <2>1 DEF Counted
<1>11. CASE Tick /\ Observe
  <2>1. /\ UNCHANGED <<seq, work>>
        /\ \/ dpc' = dpc /\ shm' = shm
           \/ dpc' \notin {"begin", "store", "end"}
    BY <1>11 DEF Tick, memory, daemon
  <2> QED
    BY <2>1 DEF Counted
<1>12. ASSUME NEW r \in Readers, Reader(r), Observe PROVE Counted'
  <2>1. UNCHANGED <<seq, work, dpc, shm>>
    BY <1>12, ReaderFrame DEF daemon
  <2> QED
    BY <2>1 DEF Counted
<1>13. CASE UNCHANGED vars
  BY <1>13 DEF Counted, vars, daemon, memory
<1> QED
  BY <1>1, <1>2, <1>3, <1>4, <1>5, <1>6, <1>7, <1>8, <1>9, <1>10, <1>11, <1>12,
     <1>13 DEF Next, Daemon

(* Then it grows. *)
LEMMA SeqGrows ==
    ASSUME 2 * MaxVersions < SEQMOD, TypeOK, SeqLock, Counted, Daemon \/ Tick,
           NEW o \in Objects \ reused
    PROVE  /\ seq[o] <= seq'[o] /\ seq[o] \in Nat
           /\ End /\ o = shm => seq[o] < seq'[o]
<1> seq[o] \in Nat
  BY DEF TypeOK
<1>1. CASE Open
  BY <1>1 DEF End, Open, memory
<1>2. CASE Truncate
  BY <1>2 DEF End, Truncate, memory
<1>3. CASE Memset
  BY <1>3 DEF End, TypeOK, SeqLock, Memset
<1>4. CASE Poll
  BY <1>4 DEF End, Poll, memory
<1>5. CASE Stop
  BY <1>5 DEF End, Stop, memory
<1>6. CASE Begin
  <2>1. /\ seq[o] \in Nat /\ work.n \in Nat
        /\ seq'[o] = IF o = shm THEN (seq[o] + 1) % SEQMOD ELSE seq[o]
    BY <1>6 DEF TypeOK, Version, Begin
  <2>2. o = shm => seq[o] + 1 <= 2 * work.n
    BY <1>6, <2>1 DEF Counted, Begin
  <2> QED
    BY <1>6, <2>1, <2>2, NoWrap DEF Begin, End
<1>7. CASE Store
  BY <1>7 DEF End, Store, memory
<1>8. CASE End
  <2>1. /\ seq[o] \in Nat /\ work.n \in Nat
        /\ seq'[o] = IF o = shm THEN (seq[o] + 1) % SEQMOD ELSE seq[o]
    BY <1>8 DEF TypeOK, Version, End
  <2>2. o = shm => seq[o] + 1 <= 2 * work.n
    BY <1>8, <2>1 DEF Counted, End
  <2> QED
    BY <2>1, <2>2, NoWrap
<1>9. CASE Unlink
  BY <1>9 DEF End, Unlink, memory
<1>10. CASE Crash
  BY <1>10 DEF End, Crash, memory
<1>11. CASE Tick
  BY <1>11 DEF End, Tick, memory
<1> QED
  BY <1>1, <1>2, <1>3, <1>4, <1>5, <1>6, <1>7, <1>8, <1>9, <1>10, <1>11 DEF
     Daemon

LEMMA GrowsNext ==
    ASSUME 2 * MaxVersions < SEQMOD, TypeOK, Numbered, Located, SeqLock, Counted, Grows,
           [Next]_vars
    PROVE  Grows'
<1>1. CASE (Daemon \/ Tick) /\ Observe
  <2>1. UNCHANGED <<rpc, block, s1>>
    BY <1>1, DaemonFrame DEF locals
  <2>2. ASSUME NEW r \in Readers, rpc[r] \in {"copy", "load2"}, block[r] \notin reused'
        PROVE  s1[r] <= seq'[block[r]]
    <3>1. block[r] \in Objects \ reused
      BY <1>1, <2>2, ReusedGrows DEF TypeOK, Located
    <3>2. seq[block[r]] <= seq'[block[r]] /\ seq[block[r]] \in Nat
      BY <1>1, <3>1, SeqGrows
    <3>3. s1[r] <= seq[block[r]] /\ s1[r] \in Nat
      BY <2>2, <3>1 DEF TypeOK, Grows
    <3>4. seq'[block[r]] \in Nat
      BY <3>1, TypeNext DEF TypeOK
    <3> QED
      BY <3>2, <3>3, <3>4
  <2> QED
    BY <2>1, <2>2 DEF Grows
<1>2. ASSUME NEW r \in Readers, Reader(r), Observe
      PROVE  Grows'
  <2>1. seq' = seq /\ reused \subseteq reused'
    BY <1>2, ReaderFrame, ReusedGrows
  <2>2. rpc'[r] \in {"copy", "load2"} /\ rpc[r] \notin {"copy", "load2"} => s1'[r] = seq[block'[r]]
    BY <1>2 DEF TypeOK, Reader, Call, MapOpen, MapCheck, Load1, CopyWord, Load2,
       Judge, Goto, Return
  <2>3. rpc[r] \in {"copy", "load2"} => block'[r] = block[r] /\ s1'[r] = s1[r]
    BY <1>2 DEF Reader, Call, MapOpen, MapCheck, Load1, CopyWord, Load2, Judge
  <2>4. rpc'[r] \in {"copy", "load2"} => block'[r] # None
    BY <1>2, LocatedNext DEF Located
  <2>5. block'[r] # None => seq[block'[r]] \in Nat
    BY <1>2, TypeNext DEF TypeOK
  <2> QED
    BY <1>2, <2>1, <2>2, <2>3, <2>4, <2>5, OtherReaders DEF Grows
<1>3. CASE UNCHANGED vars
  BY <1>3 DEF Grows, vars, memory, locals, history
<1> QED
  BY <1>1, <1>2, <1>3 DEF Next

(* So no answer is torn, without an assumption on the steps.               *)
THEOREM NotTornByFewVersions ==
    ASSUME 2 * MaxVersions < SEQMOD
    PROVE  Spec => []TornOnlyIfReused
<1>1. Init => Counted /\ Grows
  BY DEF Init, Counted, Grows, Zero
<1>2. BlockInv /\ Counted /\ Grows /\ [Next]_vars => (Counted /\ Grows)'
  BY CountedNext, GrowsNext DEF BlockInv
<1>3. BlockInv /\ Counted /\ Grows /\ [Next]_vars => [NoLap]_vars
  <2> SUFFICES ASSUME BlockInv, Counted, Grows, Next, NEW r \in Readers,
                      rpc[r] \in {"copy", "load2"}, block[r] = shm, shm \notin reused, End
               PROVE  seq'[shm] # s1[r]
    BY DEF NoLap
  <2>1. shm \in Objects \ reused
    BY DEF BlockInv, TypeOK, Numbered, End
  <2>2. seq[shm] < seq'[shm] /\ seq[shm] \in Nat
    BY <2>1, SeqGrows DEF BlockInv, Daemon
  <2>3. s1[r] <= seq[shm] /\ s1[r] \in Nat
    BY DEF BlockInv, TypeOK, Grows
  <2> QED
    BY <2>2, <2>3
<1> QED
  BY <1>1, <1>2, <1>3, BlockInvHolds, NotTorn, PTL DEF Spec

-----------------------------------------------------------------------------
(* Without a daemon there is no answer.                                    *)

(* What a reader copies is a version.                                      *)
LEMMA CopyType ==
    ASSUME TypeOK, NEW r \in Readers, NEW w \in DOMAIN copy[r]
    PROVE  /\ w \in Words /\ copy[r][w] \in Version
           /\ copy[r][w].t \in Nat /\ copy[r][w].pid \in Nat
BY DEF TypeOK, Copies, Version

(* No object that a dead daemon has left would answer.                     *)
LEMMA DeadBlocks ==
    ASSUME TypeOK, Dates, Dead, NEW o \in created
    PROVE  Lapsed(word[o]["head"])
<1>1. o \in Objects /\ "head" \in Words
  BY DEF TypeOK, Words
<1>2. clock \in Nat /\ work.t \in Nat /\ word[o]["head"].t \in Nat /\ STALE \in Nat
  BY <1>1, BlockAssumption DEF TypeOK, Version
<1>3. CASE o = name
  <2>1. clock - work.t > STALE
    BY <1>1, <1>3 DEF Dead, TypeOK, Objects, None
  <2>2. word[o]["head"].t <= work.t
    BY <1>1 DEF Dates
  <2> QED
    BY <1>2, <2>1, <2>2 DEF Lapsed
<1>4. CASE o # name
  BY <1>4 DEF Dates, Lapsed
<1> QED
  BY <1>3, <1>4

(* Where no daemon is and none comes only readers and the clock move.      *)
LEMMA DeadStep ==
    ASSUME TypeOK, Next, dpc = "off", dpc' = "off"
    PROVE  /\ word' = word /\ created' = created /\ clock <= clock'
           /\ Tick \/ \E r \in Readers : Reader(r)
<1>1. ~Daemon
  BY DEF Daemon, Open, Truncate, Memset, Poll, Stop, Begin, Store, End, Unlink,
     Crash
<1>2. CASE Tick
  BY <1>2 DEF TypeOK, Tick, memory
<1>3. ASSUME NEW r \in Readers, Reader(r)
      PROVE  word' = word /\ created' = created /\ clock <= clock'
  BY <1>3, ReaderFrame DEF TypeOK
<1> QED
  BY <1>1, <1>2, <1>3 DEF Next

(* What a reader's step makes of its own call. *)
LEMMA UnansweredOwn ==
    ASSUME TypeOK, Located, Dates, NEW r \in Readers, Reader(r), Dead,
           Unanswered(r) \/ Starts(r)
    PROVE  /\ rpc'[r] \in {"copy", "load2", "alive"} /\ "head" \in DOMAIN copy'[r] =>
                 Lapsed(copy'[r]["head"])
           /\ ~(rpc'[r] = "idle" /\ result'[r] = "ok")
<1>1. CASE Call(r)
  BY <1>1 DEF TypeOK, Call, Goto
<1>2. CASE MapOpen(r) \/ MapCheck(r)
  BY <1>2 DEF TypeOK, MapOpen, MapCheck, Goto, Return
<1>3. CASE Load1(r)
  BY <1>3 DEF TypeOK, Load1, Goto, Return
<1>4. CASE CopyWord(r)
  <2>1. PICK w \in Words \ DOMAIN copy[r] :
           copy' = [copy EXCEPT ![r] = [v \in DOMAIN copy[r] \cup {w} |->
                                          IF v = w THEN word[block[r]][w] ELSE copy[r][v]]]
    BY <1>4 DEF CopyWord
  <2>2. rpc[r] = "copy" /\ rpc'[r] # "idle" /\ block[r] \in created
    BY <1>4 DEF TypeOK, Located, CopyWord, Goto
  <2>3. Lapsed(word[block[r]]["head"])
    BY <2>2, DeadBlocks
  <2>4. Unanswered(r)
    BY <2>2 DEF Starts
  <2>5. ASSUME "head" \in DOMAIN copy'[r]
        PROVE  Lapsed(copy'[r]["head"])
    <3>1. CASE w = "head"
      <4>1. copy'[r]["head"] = word[block[r]]["head"]
        BY <2>1, <3>1 DEF TypeOK
      <4> QED
        BY <2>3, <4>1
    <3>2. CASE w # "head"
      <4>1. "head" \in DOMAIN copy[r] /\ copy'[r]["head"] = copy[r]["head"]
        BY <2>1, <2>5, <3>2 DEF TypeOK
      <4> QED
        BY <2>2, <2>4, <4>1 DEF Unanswered
    <3> QED
      BY <3>1, <3>2
  <2> QED
    BY <2>2, <2>5
<1>5. CASE Load2(r)
  BY <1>5 DEF TypeOK, Load2, Goto, Unanswered, Starts
<1>6. CASE Judge(r)
  <2>1. rpc[r] = "alive" /\ "head" \in DOMAIN copy[r]
    BY <1>6 DEF Located, Judge, Words
  <2>2. Lapsed(copy[r]["head"]) /\ copy[r]["head"].t \in Nat
    BY <2>1, CopyType DEF Unanswered, Starts
  <2>3. ~mon_Alive(copy[r]["head"], clock)
    BY <2>2, BlockAssumption DEF Lapsed, mon_Alive, TypeOK
  <2> QED
    BY <1>6, <2>3 DEF TypeOK, Judge, Goto, Return
<1> QED
  BY <1>1, <1>2, <1>3, <1>4, <1>5, <1>6 DEF Reader

LEMMA DeadNext ==
    ASSUME TypeOK, Located, Dates, DeadInv, [Next]_vars, TypeOK'
    PROVE  DeadInv'
<1>1. CASE Next
  <2> SUFFICES ASSUME NEW q \in Readers, down'[q]
               PROVE  Unanswered(q)'
    BY DEF DeadInv
  <2>1. Dead' /\ (down[q] \/ (Starts(q) /\ Dead))
    BY <1>1 DEF Next, Observe
  <2>2. Dead /\ (Unanswered(q) \/ Starts(q))
    BY <2>1 DEF DeadInv, Unanswered
  <2>3. /\ word' = word /\ created' = created /\ clock <= clock'
        /\ Tick \/ \E r \in Readers : Reader(r)
    BY <1>1, <2>1, <2>2, DeadStep DEF Dead
  <2>4. /\ rpc'[q] \in {"copy", "load2", "alive"} /\ "head" \in DOMAIN copy'[q] =>
              Lapsed(copy'[q]["head"])
        /\ ~(rpc'[q] = "idle" /\ result'[q] = "ok")
    <3>1. CASE Reader(q)
      BY <2>2, <3>1, UnansweredOwn
    <3>2. ASSUME NEW r \in Readers, Reader(r), r # q
          PROVE  UNCHANGED <<rpc[q], copy[q], result[q]>>
      BY <3>2, OtherReaders
    <3>3. ASSUME Tick
          PROVE  UNCHANGED <<rpc[q], copy[q], result[q]>>
      BY <3>3, DaemonFrame DEF locals
    <3>4. CASE UNCHANGED <<rpc[q], copy[q], result[q]>>
      <4>1. ~Starts(q)
        BY <3>4 DEF Starts
      <4> QED
        BY <2>2, <3>4, <4>1 DEF Unanswered, Answered
    <3> QED
      BY <2>3, <3>1, <3>2, <3>3, <3>4
  <2>5. ASSUME rpc'[q] \in {"copy", "load2", "alive"}, "head" \in DOMAIN copy'[q]
        PROVE  Lapsed(copy[q]["head"])'
    <3>1. Lapsed(copy'[q]["head"])
      BY <2>4, <2>5
    <3>2. copy'[q]["head"].t \in Nat /\ clock \in Nat /\ clock' \in Nat
      BY <2>5 DEF TypeOK, Copies, Version
    <3> QED
      BY <2>3, <3>1, <3>2, BlockAssumption DEF Lapsed
  <2> QED
    BY <2>1, <2>4, <2>5 DEF Unanswered, Answered
<1>2. CASE UNCHANGED vars
  BY <1>2 DEF DeadInv, Unanswered, Answered, Dead, Lapsed, vars, memory, daemon,
     locals,
              history
<1> QED
  BY <1>1, <1>2

(* A call during which no daemon is there is not answered, by whichever    *)
(* object the reader has mapped.                                           *)
THEOREM NoAnswerFromTheDead == Spec => []DeadCallsFail
<1>1. Init => DeadInv
  BY DEF Init, DeadInv
<1>2. BlockInv /\ DeadInv /\ [Next]_vars /\ BlockInv' => DeadInv'
  BY DeadNext DEF BlockInv
<1>3. DeadInv => DeadCallsFail
  BY DEF DeadInv, Unanswered, DeadCallsFail
<1> QED
  BY <1>1, <1>2, <1>3, BlockInvHolds, PTL DEF Spec

-----------------------------------------------------------------------------
(* With a daemon there is one.                                             *)

(* A daemon that serves, before a step and after it, is the same.          *)
LEMMA SameDaemon ==
    ASSUME TypeOK, Numbered, Next, Serving, Serving'
    PROVE  /\ shm' = shm /\ starts' = starts /\ clock <= clock'
           /\ Daemon \/ Tick \/ \E r \in Readers : Reader(r)
<1>1. clock \in Nat /\ starts # 0
  BY DEF TypeOK, Numbered, Serving
<1>2. CASE Daemon
  <2>1. dpc \in {"poll", "begin", "store", "end"} /\ dpc' \in {"poll", "begin", "store", "end"}
    BY DEF Serving
  <2>2. UNCHANGED <<shm, starts, clock>>
    BY <1>2, <2>1 DEF Daemon, Open, Truncate, Memset, Poll, Stop, Begin, Store,
       End,
                      Unlink, Crash, memory
  <2> QED
    BY <1>1, <1>2, <2>2
<1>3. CASE Tick
  BY <1>1, <1>3 DEF Tick, daemon
<1>4. ASSUME NEW r \in Readers, Reader(r)
      PROVE  shm' = shm /\ starts' = starts /\ clock <= clock'
  BY <1>1, <1>4, ReaderFrame DEF daemon
<1> QED
  BY <1>2, <1>3, <1>4 DEF Next

(* What a reader's step makes of its own call. *)
ServedAt(r) ==
    /\ rpc'[r] = "check" => fd'[r] = shm
    /\ rpc'[r] \in {"load1", "copy", "load2", "alive"} /\ attempt'[r] = 2 => block'[r] = shm
    /\ rpc'[r] \in {"copy", "load2", "alive"} /\ block'[r] = shm /\ "head" \in DOMAIN copy'[r] =>
          /\ copy'[r]["head"].pid = starts /\ copy'[r]["head"].t + 1 >= since[r]
          /\ Dated(copy'[r]["head"])
    /\ rpc'[r] = "idle" /\ result'[r] = "emon" => tries'[r] = MaxTries

LEMMA ServedOwn ==
    ASSUME TypeOK, Numbered, Located, Dates, NEW r \in Readers, Reader(r), Serving,
           since[r] <= clock, Served(r) \/ Starts(r)
    PROVE  ServedAt(r)
<1> USE DEF ServedAt
<1>1. CASE Call(r)
  <2>1. /\ rpc'[r] \in {"map", "load1"} /\ attempt'[r] = 1
    BY <1>1 DEF TypeOK, Call, Goto
  <2> QED
    BY <2>1
<1>2. CASE MapOpen(r)
  <2>1. name = shm /\ name # None
    BY DEF TypeOK, Numbered, Serving, Objects, None
  <2>2. fd'[r] = shm /\ rpc'[r] = "check"
    BY <1>2, <2>1 DEF TypeOK, MapOpen, Goto
  <2> QED
    BY <2>2
<1>3. CASE MapCheck(r)
  <2>1. fd[r] = shm /\ shm \in sized /\ shm \in Objects
    BY <1>3 DEF TypeOK, Numbered, Served, Starts, MapCheck, Serving
  <2>2. word[shm]["head"].n # 0
    <3>1. word[shm]["head"].pid # 0 /\ "head" \in Words
      BY DEF TypeOK, Numbered, Serving, Words
    <3> QED
      BY <2>1, <3>1 DEF Dates, Dated
  <2>3. block'[r] = shm /\ rpc'[r] = "load1"
    BY <1>3, <2>1, <2>2 DEF TypeOK, MapCheck, Goto
  <2> QED
    BY <2>3
<1>4. CASE Load1(r)
  <2>1. UNCHANGED <<block, attempt>> /\ rpc[r] = "load1" /\ Served(r)
    BY <1>4 DEF Load1, Starts
  <2>2. CASE tries[r] = MaxTries
    BY <1>4, <2>2 DEF TypeOK, Load1, Goto, Return
  <2>3. CASE tries[r] # MaxTries
    <3>1. copy'[r] = <<>> /\ rpc'[r] \in {"load1", "copy"}
      BY <1>4, <2>3 DEF TypeOK, Load1, Goto
    <3> QED
      BY <2>1, <3>1 DEF Served
  <2> QED
    BY <2>2, <2>3
<1>5. CASE CopyWord(r)
  <2>1. PICK w \in Words \ DOMAIN copy[r] :
           copy' = [copy EXCEPT ![r] = [v \in DOMAIN copy[r] \cup {w} |->
                                          IF v = w THEN word[block[r]][w] ELSE copy[r][v]]]
    BY <1>5 DEF CopyWord
  <2>2. /\ UNCHANGED <<block, attempt>> /\ rpc[r] = "copy" /\ rpc'[r] \in {"copy", "load2"}
        /\ Served(r)
    BY <1>5 DEF TypeOK, CopyWord, Goto, Starts
  <2>3. ASSUME block[r] = shm, "head" \in DOMAIN copy'[r]
        PROVE  /\ copy'[r]["head"].pid = starts /\ copy'[r]["head"].t + 1 >= since[r]
               /\ Dated(copy'[r]["head"])
    <3>1. CASE w = "head"
      <4>1. copy'[r]["head"] = word[shm]["head"] /\ shm \in Objects /\ "head" \in Words
        BY <2>1, <2>3, <3>1 DEF TypeOK, Numbered, Serving
      <4>2. clock - word[shm]["head"].t <= 1 /\ word[shm]["head"].pid = starts
        BY DEF Serving
      <4>3. clock \in Nat /\ word[shm]["head"].t \in Nat /\ since[r] \in Nat
        BY <4>1 DEF TypeOK, Version
      <4> QED
        BY <4>1, <4>2, <4>3 DEF Dates
    <3>2. CASE w # "head"
      <4>1. "head" \in DOMAIN copy[r] /\ copy'[r]["head"] = copy[r]["head"]
        BY <2>1, <2>3, <3>2 DEF TypeOK
      <4> QED
        BY <2>2, <2>3, <4>1 DEF Served
    <3> QED
      BY <3>1, <3>2
  <2> QED
    BY <2>2, <2>3 DEF Served
<1>6. CASE Load2(r)
  <2>1. /\ UNCHANGED <<block, attempt, copy>> /\ rpc[r] = "load2"
        /\ rpc'[r] \in {"alive", "load1"} /\ Served(r)
    BY <1>6 DEF TypeOK, Load2, Goto, Starts
  <2> QED
    BY <2>1 DEF Served
<1>7. CASE Judge(r)
  <2>1. rpc[r] = "alive" /\ "head" \in DOMAIN copy[r] /\ Served(r)
    BY <1>7 DEF Located, Judge, Words, Starts
  <2>2. ASSUME attempt[r] = 2
        PROVE  mon_Alive(copy[r]["head"], clock)
    <3>1. /\ copy[r]["head"].pid = starts /\ copy[r]["head"].t + 1 >= since[r]
          /\ Dated(copy[r]["head"])
      BY <2>1, <2>2 DEF Served
    <3>2. clock \in Nat /\ since[r] \in Nat /\ copy[r]["head"].t \in Nat /\ STALE \in Nat
      BY <2>1, CopyType, BlockAssumption DEF TypeOK
    <3>3. starts # 0 /\ clock - since[r] < STALE
      BY <2>1 DEF Numbered, TypeOK, Served, Serving
    <3> QED
      BY <3>1, <3>2, <3>3 DEF mon_Alive, Dated
  <2>3. \/ rpc'[r] = "idle" /\ result'[r] = "ok"
        \/ rpc'[r] = "map"
    BY <1>7, <2>2 DEF TypeOK, Judge, Goto, Return
  <2> QED
    BY <2>3
<1> QED
  BY <1>1, <1>2, <1>3, <1>4, <1>5, <1>6, <1>7 DEF Reader

(* A call begins with its head: it has copied nothing yet.                 *)
LEMMA StartsWithACall ==
    ASSUME TypeOK, Next, NEW q \in Readers, Starts(q)
    PROVE  rpc'[q] \in {"map", "load1"}
<1>1. CASE Daemon \/ Tick
  BY <1>1, DaemonFrame DEF Starts, locals
<1>2. ASSUME NEW r \in Readers, Reader(r), r # q
      PROVE  FALSE
  BY <1>2, OtherReaders DEF Starts
<1>3. CASE Reader(q)
  BY <1>3 DEF TypeOK, Reader, Starts, Call, Goto, MapOpen, MapCheck, Load1,
     CopyWord,
              Load2, Judge
<1> QED
  BY <1>1, <1>2, <1>3 DEF Next

LEMMA ServedNext ==
    ASSUME TypeOK, Numbered, Located, Dates, ServedInv, [Next]_vars, TypeOK'
    PROVE  ServedInv'
<1>1. CASE Next
  <2> SUFFICES ASSUME NEW q \in Readers
               PROVE  since'[q] <= clock' /\ (up'[q] => Served(q)')
    BY DEF ServedInv
  <2>1. since'[q] = IF Starts(q) THEN clock ELSE since[q]
    BY <1>1 DEF Next, Observe
  <2>2. clock <= clock' /\ clock \in Nat /\ clock' \in Nat
    BY <1>1 DEF TypeOK, Next, Daemon, Tick, Open, Truncate, Memset, Poll, Stop,
       Begin,
                Store, End, Unlink, Crash, Reader, Call, MapOpen, MapCheck, Load1,
                CopyWord, Load2, Judge, reader_frame
  <2>3. since[q] <= clock /\ since[q] \in Nat
    BY DEF TypeOK, ServedInv
  <2>4. since'[q] <= clock'
    BY <2>1, <2>2, <2>3
  <2>5. ASSUME up'[q]
        PROVE  Served(q)'
    <3>1. Serving' /\ clock' - since'[q] < STALE /\ (up[q] \/ (Starts(q) /\ Serving))
      BY <1>1, <2>5 DEF Next, Observe
    <3>2. Serving /\ (Served(q) \/ Starts(q))
      BY <3>1 DEF ServedInv, Served
    <3>3. /\ shm' = shm /\ starts' = starts
          /\ Daemon \/ Tick \/ \E r \in Readers : Reader(r)
      BY <1>1, <3>1, <3>2, SameDaemon
    <3>4. ServedAt(q)
      <4>1. CASE Reader(q)
        BY <2>3, <3>2, <4>1, ServedOwn
      <4>2. ASSUME NEW r \in Readers, Reader(r), r # q
            PROVE  UNCHANGED <<rpc[q], copy[q], result[q], fd[q], block[q], attempt[q], tries[q]>>
        BY <4>2, OtherReaders
      <4>3. ASSUME Daemon \/ Tick
            PROVE  UNCHANGED <<rpc[q], copy[q], result[q], fd[q], block[q], attempt[q], tries[q]>>
        BY <4>3, DaemonFrame DEF locals
      <4>4. CASE UNCHANGED <<rpc[q], copy[q], result[q], fd[q], block[q], attempt[q], tries[q]>>
        <5>1. Served(q)
          BY <3>2, <4>4 DEF Starts
        <5> QED
          BY <4>4, <5>1 DEF Served, ServedAt, Answered
      <4> QED
        BY <3>3, <4>1, <4>2, <4>3, <4>4
    <3>5. ASSUME rpc'[q] \in {"copy", "load2", "alive"}, block'[q] = shm',
                 "head" \in DOMAIN copy'[q]
          PROVE  /\ copy'[q]["head"].pid = starts' /\ copy'[q]["head"].t + 1 >= since'[q]
                 /\ Dated(copy[q]["head"])'
      <4>1. /\ copy'[q]["head"].pid = starts /\ copy'[q]["head"].t + 1 >= since[q]
            /\ Dated(copy'[q]["head"])
        BY <3>3, <3>4, <3>5 DEF ServedAt
      <4>2. copy'[q]["head"].t \in Nat
        BY <3>5 DEF TypeOK, Copies, Version
      <4>3. ~Starts(q)
        BY <1>1, <3>5, StartsWithACall
      <4> QED
        BY <2>1, <2>2, <3>3, <4>1, <4>2, <4>3 DEF Dated
    <3> QED
      BY <3>1, <3>3, <3>4, <3>5 DEF Served, ServedAt, Answered
  <2> QED
    BY <2>4, <2>5
<1>2. CASE UNCHANGED vars
  BY <1>2 DEF ServedInv, Served, Answered, Serving, Dated, vars, memory, daemon,
     locals,
              history
<1> QED
  BY <1>1, <1>2

(* A call that a daemon serves all along, and that takes less than STALE,  *)
(* is answered, unless its copies collided with a publish on every try.    *)
THEOREM ServedCallsAreAnswered == Spec => []ServedCallsSucceed
<1>1. Init => ServedInv
  BY DEF Init, ServedInv
<1>2. BlockInv /\ ServedInv /\ [Next]_vars /\ BlockInv' => ServedInv'
  BY ServedNext DEF BlockInv
<1>3. ServedInv => ServedCallsSucceed
  BY DEF ServedInv, Served, ServedCallsSucceed
<1> QED
  BY <1>1, <1>2, <1>3, BlockInvHolds, PTL DEF Spec
=============================================================================
