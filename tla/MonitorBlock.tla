---------------------------- MODULE MonitorBlock ----------------------------
(***************************************************************************)
(* The lockbox monitor's shared-memory block: the daemon that creates,     *)
(* publishes and unlinks it (monitor/src/lockbox-monitor.c), and readers   *)
(* that map it and copy it under the seqlock (api/src/monitor.c).          *)
(*                                                                         *)
(* A block is a memory object: a sequence word and the words the seqlock   *)
(* protects.  Two words stand for the protected struct, which is enough to *)
(* tear it: Head (layout, pid, last_poll_ns) and Tail (the bookkeeping).   *)
(* Each is written and read on its own, in any order, as memset and memcpy *)
(* may.  The content of a word is the version of the working copy it was   *)
(* taken from.  The objects are numbered in order of creation; name is the *)
(* one that shm_open finds.  An object lives on, for whoever mapped it,    *)
(* after it is unlinked or its daemon dies.                                *)
(***************************************************************************)
EXTENDS Integers, FiniteSets

CONSTANTS
    Readers,        \* processes that link liblockbox
    SEQMOD,         \* the sequence word counts modulo SEQMOD (2^32)
    STALE,          \* LOCKBOX_MONITOR_STALE_NS
    MaxTries,       \* tries of one mon_Copy (1000)
    MaxTime,        \* bound on the clock
    MaxVersions,    \* bound on the versions the daemons publish
    MaxStarts,      \* bound on the daemon's starts
    MaxCrashes      \* bound on its crashes

ASSUME SeqAssumption == SEQMOD \in Nat /\ SEQMOD % 2 = 0 /\ SEQMOD > 2
ASSUME BlockAssumption == STALE \in Nat /\ MaxTries \in Nat \ {0}
ASSUME BoundAssumption ==
    MaxTime \in Nat \ {0} /\ {MaxVersions, MaxStarts, MaxCrashes} \subseteq Nat

Words == {"head", "tail"}

(* What a word holds: nothing but zeros, or the n-th version of the        *)
(* working copy, of a poll at time t by daemon pid (0 = clean exit).       *)
Zero == [n |-> 0, t |-> 0, pid |-> 0]
Version == [n : 0 .. MaxVersions, t : 0 .. MaxTime, pid : 0 .. MaxStarts]

(* What a reader has copied so far: some of the words.                     *)
Copies == UNION {[W -> Version] : W \in SUBSET Words}

Objects == 1 .. MaxStarts
None == 0

VARIABLES
    clock,          \* CLOCK_MONOTONIC
    name,           \* the object linked as LOCKBOX_MONITOR_SHM, or None
    created,        \* the objects created so far
    sized,          \* the objects ftruncate has given their size
    seq,            \* the sequence word of every object
    word,           \* the protected words of every object
    dpc,            \* what the daemon does next
    starts,         \* the daemon's starts so far; the last one is its pid
    crashes,
    shm,            \* the object the daemon has mapped, or None
    work,           \* the version of its working copy
    todo,           \* words its memset or memcpy has still to write
    rpc,            \* what the reader does next
    block,          \* the object it has mapped, or None
    fd,             \* the object mon_Map has opened
    attempt,        \* the pass of mon_Snapshot
    tries,          \* the pass of mon_Copy
    s1,             \* the sequence word it read first
    copy,           \* the words copied so far
    result,         \* of the last call: "none", "ok" or "emon"
    \* history, which the program does not have:
    since,          \* the time a reader's call began
    up,             \* a daemon has served the block for the whole call
    down,           \* no daemon has been there for the whole call
    reused          \* objects that a second daemon has taken over

daemon == <<dpc, starts, crashes, shm, work, todo>>
memory == <<name, created, sized, seq, word>>
locals == <<rpc, block, fd, attempt, tries, s1, copy, result>>
history == <<since, up, down, reused>>
vars == <<clock, memory, daemon, locals, history>>

-----------------------------------------------------------------------------
Init ==
    /\ clock = 1
    /\ name = None /\ created = {} /\ sized = {}
    /\ seq = [o \in Objects |-> 0]
    /\ word = [o \in Objects |-> [w \in Words |-> Zero]]
    /\ dpc = "off" /\ starts = 0 /\ crashes = 0
    /\ shm = None /\ work = Zero /\ todo = {}
    /\ rpc = [r \in Readers |-> "idle"]
    /\ block = [r \in Readers |-> None]
    /\ fd = [r \in Readers |-> None]
    /\ attempt = [r \in Readers |-> 0]
    /\ tries = [r \in Readers |-> 0]
    /\ s1 = [r \in Readers |-> 0]
    /\ copy = [r \in Readers |-> <<>>]
    /\ result = [r \in Readers |-> "none"]
    /\ since = [r \in Readers |-> 1]
    /\ up = [r \in Readers |-> FALSE]
    /\ down = [r \in Readers |-> FALSE]
    /\ reused = {}

-----------------------------------------------------------------------------
(***************************************************************************)
(* The daemon.                                                             *)
(***************************************************************************)

(* create_block opens the block under its name; it is created, with no     *)
(* size, only if the name is free.  Nothing is unlinked first.             *)
Open ==
    /\ dpc = "off" /\ starts < MaxStarts
    /\ starts' = starts + 1
    /\ shm' = IF name = None THEN Cardinality(created) + 1 ELSE name
    /\ name' = shm'
    /\ created' = created \cup {shm'}
    /\ dpc' = "truncate"
    /\ UNCHANGED <<clock, sized, seq, word, crashes, work, todo, locals>>

(* ftruncate: an object of the right size keeps its content. *)
Truncate ==
    /\ dpc = "truncate"
    /\ sized' = sized \cup {shm}
    /\ todo' = Words \cup {"seq"}
    /\ dpc' = "memset"
    /\ UNCHANGED <<clock, name, created, seq, word, starts, crashes, shm, work,
                   locals>>

(* memset of the whole block, the sequence word included. *)
Memset ==
    /\ dpc = "memset"
    /\ \E w \in todo :
          /\ todo' = todo \ {w}
          /\ IF w = "seq"
             THEN seq' = [seq EXCEPT ![shm] = 0] /\ UNCHANGED word
             ELSE word' = [word EXCEPT ![shm][w] = Zero] /\ UNCHANGED seq
    /\ dpc' = IF todo' = {} THEN "poll" ELSE "memset"
    /\ UNCHANGED <<clock, name, created, sized, starts, crashes, shm, work, locals>>

(* One poll fills the working copy; the first one starts it from zeros.    *)
Poll ==
    /\ dpc = "poll" /\ work.n < MaxVersions
    /\ work' = [n |-> work.n + 1, t |-> clock, pid |-> starts]
    /\ dpc' = "begin"
    /\ UNCHANGED <<clock, memory, starts, crashes, shm, todo, locals>>

(* The stop path after a signal: the last working copy with pid 0.  The    *)
(* signal takes effect once the first version is out.                      *)
Stop ==
    /\ dpc = "poll" /\ work.n < MaxVersions
    /\ work.pid = starts
    /\ work' = [work EXCEPT !.n = @ + 1, !.pid = 0]
    /\ dpc' = "begin"
    /\ UNCHANGED <<clock, memory, starts, crashes, shm, todo, locals>>

(* publish: the sequence word becomes odd, the words are copied, the       *)
(* sequence word becomes even.  Only the daemon writes the sequence word,  *)
(* so its read at the head of publish goes with the store.                 *)
Begin ==
    /\ dpc = "begin"
    /\ seq' = [seq EXCEPT ![shm] = (@ + 1) % SEQMOD]
    /\ todo' = Words
    /\ dpc' = "store"
    /\ UNCHANGED <<clock, name, created, sized, word, starts, crashes, shm, work,
                   locals>>

Store ==
    /\ dpc = "store"
    /\ \E w \in todo :
          /\ word' = [word EXCEPT ![shm][w] = work]
          /\ todo' = todo \ {w}
    /\ dpc' = IF todo' = {} THEN "end" ELSE "store"
    /\ UNCHANGED <<clock, name, created, sized, seq, starts, crashes, shm, work,
                   locals>>

End ==
    /\ dpc = "end"
    /\ seq' = [seq EXCEPT ![shm] = (@ + 1) % SEQMOD]
    /\ dpc' = IF work.pid = 0 THEN "unlink" ELSE "poll"
    /\ UNCHANGED <<clock, name, created, sized, word, starts, crashes, shm, work,
                   todo, locals>>

(* The clean exit: shm_unlink, munmap. *)
Unlink ==
    /\ dpc = "unlink"
    /\ name' = None
    /\ shm' = None
    /\ dpc' = "off"
    /\ UNCHANGED <<clock, created, sized, seq, word, starts, crashes, work, todo,
                   locals>>

(* The daemon dies anywhere; the block stays as it is. *)
Crash ==
    /\ dpc # "off" /\ crashes < MaxCrashes
    /\ crashes' = crashes + 1
    /\ dpc' = "off" /\ shm' = None /\ todo' = {}
    /\ UNCHANGED <<clock, memory, starts, work, locals>>

Daemon ==
    \/ Open \/ Truncate \/ Memset \/ Poll \/ Stop
    \/ Begin \/ Store \/ End \/ Unlink \/ Crash

Tick ==
    /\ clock < MaxTime
    /\ clock' = clock + 1
    /\ UNCHANGED <<memory, daemon, locals>>

-----------------------------------------------------------------------------
(***************************************************************************)
(* A reader: mon_Snapshot.                                                 *)
(***************************************************************************)
Goto(r, pc) == rpc' = [rpc EXCEPT ![r] = pc]

Return(r, res) ==
    /\ Goto(r, "idle")
    /\ result' = [result EXCEPT ![r] = res]

reader_frame == <<clock, memory, daemon>>

(* The head of mon_Snapshot's loop: map the block if it is not mapped. *)
Call(r) ==
    /\ rpc[r] = "idle"
    /\ attempt' = [attempt EXCEPT ![r] = 1]
    /\ tries' = [tries EXCEPT ![r] = 0]
    /\ result' = [result EXCEPT ![r] = "none"]
    /\ Goto(r, IF block[r] = None THEN "map" ELSE "load1")
    /\ UNCHANGED <<reader_frame, block, fd, s1, copy>>

(* mon_Map: shm_open finds the name, or not. *)
MapOpen(r) ==
    /\ rpc[r] = "map"
    /\ IF name = None
       THEN Return(r, "emon") /\ UNCHANGED fd
       ELSE /\ fd' = [fd EXCEPT ![r] = name]
            /\ Goto(r, "check")
            /\ UNCHANGED result
    /\ UNCHANGED <<reader_frame, block, attempt, tries, s1, copy>>

(* mon_Map: the size and the layout of what was opened. *)
MapCheck(r) ==
    /\ rpc[r] = "check"
    /\ IF fd[r] \in sized /\ word[fd[r]]["head"].n # 0
       THEN /\ block' = [block EXCEPT ![r] = fd[r]]
            /\ Goto(r, "load1")
            /\ UNCHANGED result
       ELSE Return(r, "emon") /\ UNCHANGED block
    /\ UNCHANGED <<reader_frame, fd, attempt, tries, s1, copy>>

(* Fault: a pass that finds a publish under way is not counted. *)
Load1_uncounted(r) ==
    LET s == seq[block[r]]
    IN  /\ rpc[r] = "load1"
        /\ IF tries[r] = MaxTries
           THEN Return(r, "emon") /\ UNCHANGED <<tries, s1, copy>>
           ELSE /\ tries' = [tries EXCEPT ![r] = @ + (1 - (s % 2))]
                /\ s1' = [s1 EXCEPT ![r] = s]
                /\ copy' = [copy EXCEPT ![r] = <<>>]
                /\ Goto(r, IF s % 2 = 1 THEN "load1" ELSE "copy")
                /\ UNCHANGED result
        /\ UNCHANGED <<reader_frame, block, fd, attempt>>

(* mon_Copy: one more try, or the tries are used up. *)
Load1(r) ==
    LET s == seq[block[r]]
    IN  /\ rpc[r] = "load1"
        /\ IF tries[r] = MaxTries
           THEN Return(r, "emon") /\ UNCHANGED <<tries, s1, copy>>
           ELSE /\ tries' = [tries EXCEPT ![r] = @ + 1]
                /\ s1' = [s1 EXCEPT ![r] = s]
                /\ copy' = [copy EXCEPT ![r] = <<>>]
                /\ Goto(r, IF s % 2 = 1 THEN "load1" ELSE "copy")
                /\ UNCHANGED result
        /\ UNCHANGED <<reader_frame, block, fd, attempt>>

CopyWord(r) ==
    /\ rpc[r] = "copy"
    /\ \E w \in Words \ DOMAIN copy[r] :
          LET c == [v \in DOMAIN copy[r] \cup {w} |->
                      IF v = w THEN word[block[r]][w] ELSE copy[r][v]]
          IN  /\ copy' = [copy EXCEPT ![r] = c]
              /\ Goto(r, IF DOMAIN c = Words THEN "load2" ELSE "copy")
    /\ UNCHANGED <<reader_frame, block, fd, attempt, tries, s1, result>>

(* Fault: the sequence word is not compared. *)
Load2_unchecked(r) ==
    /\ rpc[r] = "load2"
    /\ Goto(r, "alive")
    /\ UNCHANGED <<reader_frame, block, fd, attempt, tries, s1, copy, result>>

(* mon_Copy: the sequence word again. *)
Load2(r) ==
    /\ rpc[r] = "load2"
    /\ Goto(r, IF seq[block[r]] = s1[r] THEN "alive" ELSE "load1")
    /\ UNCHANGED <<reader_frame, block, fd, attempt, tries, s1, copy, result>>

(* Fault: a clean exit does not show. *)
mon_Alive_any_pid(head, t) == head.t # 0 /\ t >= head.t /\ t - head.t <= STALE

(* mon_Alive *)
mon_Alive(head, t) ==
    /\ head.pid # 0
    /\ head.t # 0
    /\ t >= head.t
    /\ t - head.t <= STALE

(* Faults: a dead block is not mapped anew; the loop is not bounded. *)
Judge_once(r) ==
    /\ rpc[r] = "alive"
    /\ Return(r, IF mon_Alive(copy[r]["head"], clock) THEN "ok" ELSE "emon")
    /\ UNCHANGED <<reader_frame, block, attempt, tries, fd, s1, copy>>

Judge_unbounded(r) ==
    /\ rpc[r] = "alive"
    /\ IF mon_Alive(copy[r]["head"], clock)
       THEN Return(r, "ok") /\ UNCHANGED <<block, attempt, tries>>
       ELSE /\ block' = [block EXCEPT ![r] = None]
            /\ attempt' = [attempt EXCEPT ![r] = @ + 1]
            /\ tries' = [tries EXCEPT ![r] = 0]
            /\ Goto(r, "map") /\ UNCHANGED result
    /\ UNCHANGED <<reader_frame, fd, s1, copy>>

(* mon_Snapshot: a live block is the answer; any other mapping is dropped, *)
(* and the block is mapped anew once.                                      *)
Judge(r) ==
    /\ rpc[r] = "alive"
    /\ IF mon_Alive(copy[r]["head"], clock)
       THEN Return(r, "ok") /\ UNCHANGED <<block, attempt, tries>>
       ELSE /\ block' = [block EXCEPT ![r] = None]
            /\ attempt' = [attempt EXCEPT ![r] = @ + 1]
            /\ tries' = [tries EXCEPT ![r] = 0]
            /\ IF attempt[r] = 2
               THEN Return(r, "emon")
               ELSE Goto(r, "map") /\ UNCHANGED result
    /\ UNCHANGED <<reader_frame, fd, s1, copy>>

Reader(r) ==
    \/ Call(r) \/ MapOpen(r) \/ MapCheck(r) \/ Load1(r)
    \/ CopyWord(r) \/ Load2(r) \/ Judge(r)

-----------------------------------------------------------------------------
(***************************************************************************)
(* History: what happened while a reader was busy.                         *)
(***************************************************************************)

(* A daemon serves the block: it has published a version, it polls on      *)
(* time, and it is neither starting nor stopping.                          *)
Serving ==
    /\ dpc \in {"poll", "begin", "store", "end"}
    /\ work.pid = starts
    /\ word[shm]["head"].pid = starts
    /\ clock - word[shm]["head"].t <= 1

(* No daemon runs, and the block is gone or stale. *)
Dead ==
    /\ dpc = "off"
    /\ name = None \/ clock - work.t > STALE

Starts(r) == rpc[r] = "idle" /\ rpc'[r] # "idle"

Observe ==
    /\ since' = [r \in Readers |-> IF Starts(r) THEN clock ELSE since[r]]
    /\ up' = [r \in Readers |->
                /\ Serving'
                /\ clock' - since'[r] < STALE
                /\ up[r] \/ (Starts(r) /\ Serving)]
    /\ down' = [r \in Readers |-> Dead' /\ (down[r] \/ (Starts(r) /\ Dead))]
    /\ reused' = IF dpc = "off" /\ dpc' # "off" /\ shm' \in created
                 THEN reused \cup {shm'} ELSE reused

Next ==
    /\ \/ Daemon
       \/ Tick
       \/ \E r \in Readers : Reader(r)
    /\ Observe

Spec == Init /\ [][Next]_vars

(* A reader in the middle of a call is scheduled again.  Nothing is        *)
(* assumed of the daemon, and no reader has to call.                       *)
ReaderStep(r) == (MapOpen(r) \/ MapCheck(r) \/ Load1(r) \/ CopyWord(r)
                    \/ Load2(r) \/ Judge(r)) /\ Observe

FairSpec == Spec /\ \A r \in Readers : WF_vars(ReaderStep(r))

-----------------------------------------------------------------------------
(***************************************************************************)
(* Properties.                                                             *)
(***************************************************************************)
TypeOK ==
    /\ clock \in 1 .. MaxTime
    /\ name \in Objects \cup {None} /\ shm \in Objects \cup {None}
    /\ created \subseteq Objects /\ sized \subseteq created
    /\ seq \in [Objects -> 0 .. SEQMOD - 1]
    /\ word \in [Objects -> [Words -> Version]]
    /\ dpc \in {"off", "truncate", "memset", "poll", "begin", "store", "end", "unlink"}
    /\ starts \in 0 .. MaxStarts /\ crashes \in 0 .. MaxCrashes
    /\ work \in Version /\ todo \subseteq Words \cup {"seq"}
    /\ rpc \in [Readers -> {"idle", "map", "check", "load1", "copy", "load2", "alive"}]
    /\ block \in [Readers -> Objects \cup {None}]
    /\ fd \in [Readers -> Objects \cup {None}]
    /\ attempt \in [Readers -> 0 .. 3] /\ tries \in [Readers -> 0 .. MaxTries]
    /\ s1 \in [Readers -> 0 .. SEQMOD - 1]
    /\ copy \in [Readers -> Copies]
    /\ result \in [Readers -> {"none", "ok", "emon"}]
    /\ since \in [Readers -> 1 .. MaxTime]
    /\ up \in [Readers -> BOOLEAN] /\ down \in [Readers -> BOOLEAN]
    /\ reused \subseteq created

Answered(r, res) == rpc[r] = "idle" /\ result[r] = res
Torn(r) == copy[r]["head"] # copy[r]["tail"]

(* An answer comes from one publish, whatever the daemon did during the    *)
(* copy, with one exception: a daemon took over, and zeroed, the block of  *)
(* one that had died, its sequence word included.                          *)
TornOnlyIfReused ==
    \A r \in Readers : Answered(r, "ok") /\ Torn(r) => block[r] \in reused

(* If a daemon serves the block during the whole call and the call takes   *)
(* less than STALE, the reader gets an answer, also when it still holds    *)
(* the mapping of a block that was unlinked or whose daemon died; unless   *)
(* its copies collided with a publish on every try.                        *)
ServedCallsSucceed ==
    \A r \in Readers : up[r] /\ Answered(r, "emon") => tries[r] = MaxTries

(* If no daemon is there during the whole call, the reader is told so: an  *)
(* old mapping of a block that was unlinked, or of one left by a crash,    *)
(* never answers.                                                          *)
DeadCallsFail == \A r \in Readers : down[r] => ~Answered(r, "ok")

(* Every call returns: the tries and the attempts are bounded, whatever    *)
(* the daemon does (a daemon that died with an odd sequence word           *)
(* included).                                                              *)
CallsReturn == \A r \in Readers : (rpc[r] # "idle") ~> (rpc[r] = "idle")
=============================================================================
