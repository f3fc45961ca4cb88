------------------------------ MODULE LockStat ------------------------------
(***************************************************************************)
(* The lock-drop bookkeeping of one PID controller: the record             *)
(* struct lockbox_monitor_pid and the two functions that change it,        *)
(* lockstat_init and lockstat_poll (monitor/src/lockstat.c), driven by the *)
(* daemon's poll loop (main in monitor/src/lockbox-monitor.c).             *)
(*                                                                         *)
(* A poll reads the lock flag and the hold flag of the FPGA at a time      *)
(* later than the previous poll's.  Flags are BOOLEAN; times are ns since  *)
(* boot, so 0 is before every poll and the code uses it as "none".         *)
(***************************************************************************)
EXTENDS Integers

CONSTANTS
    StartNs,        \* the time of the first poll
    Gaps,           \* the possible times between two polls
    MergeNs,        \* lock time that closes a drop
    GraceNs,        \* startup time during which nothing is counted
    EVENTS,         \* LOCKBOX_MONITOR_EVENTS, the size of the ring of drops
    MaxNow          \* bound: no poll is taken after this time

ASSUME StartAssumption == StartNs \in Nat \ {0}
ASSUME GapsAssumption == Gaps \subseteq Nat \ {0}
ASSUME OptionsAssumption == MergeNs \in Nat /\ GraceNs \in Nat
ASSUME EventsAssumption == EVENTS \in Nat \ {0}
ASSUME BoundAssumption == MaxNow \in Nat

VARIABLES
    now,            \* time of the last poll (last_poll_ns)
    p               \* the bookkeeping record of the PID

vars == <<now, p>>

-----------------------------------------------------------------------------
(***************************************************************************)
(* The record.                                                             *)
(***************************************************************************)
Event == [index : Nat, start_ns : Nat, duration_ns : Nat]

NoEvent == [index |-> 0, start_ns |-> 0, duration_ns |-> 0]

Pid == [ locked : BOOLEAN, held : BOOLEAN, raw_locked : BOOLEAN,
         drop_open : BOOLEAN, state_since_ns : Nat, servo_since_ns : Nat,
         unlock_count : Nat, unlocked_ns : Nat, raw_unlock_edges : Nat,
         count_at_servo : Nat, unlocked_ns_at_servo : Nat,
         longest_since_servo_ns : Nat, last_unlock_start_ns : Nat,
         last_unlock_ns : Nat, event_head : Nat, streak_since_ns : Nat,
         drop_base_ns : Nat, events : [0 .. EVENTS - 1 -> Event] ]

(* lockstat_init: nothing is an edge yet; a servo already on is on since t. *)
lockstat_init(t, locked, held) ==
    [ locked |-> locked, held |-> held, raw_locked |-> locked,
      drop_open |-> FALSE, state_since_ns |-> t,
      servo_since_ns |-> IF held THEN 0 ELSE t,
      unlock_count |-> 0, unlocked_ns |-> 0, raw_unlock_edges |-> 0,
      count_at_servo |-> 0, unlocked_ns_at_servo |-> 0,
      longest_since_servo_ns |-> 0, last_unlock_start_ns |-> 0,
      last_unlock_ns |-> 0, event_head |-> 0, streak_since_ns |-> 0,
      drop_base_ns |-> 0, events |-> [i \in 0 .. EVENTS - 1 |-> NoEvent] ]

(* close_drop: the open drop lasted from its start to end. *)
close_drop(q, end) ==
    LET duration == end - q.last_unlock_start_ns
    IN  [q EXCEPT
           !.drop_open = FALSE,
           !.streak_since_ns = 0,
           !.unlocked_ns = q.drop_base_ns + duration,
           !.last_unlock_ns = duration,
           !.longest_since_servo_ns = IF duration > @ THEN duration ELSE @,
           !.events = [@ EXCEPT ![q.event_head % EVENTS] =
                         [index |-> q.event_head + 1,
                          start_ns |-> q.last_unlock_start_ns,
                          duration_ns |-> duration]],
           !.event_head = @ + 1,
           !.locked = TRUE,
           !.state_since_ns = end]

(* Fault: the total so far is not kept as the base of the new drop. *)
open_drop_without_base(q, t) ==
    [q EXCEPT
       !.drop_open = TRUE,
       !.streak_since_ns = 0,
       !.last_unlock_start_ns = t,
       !.unlock_count = @ + 1,
       !.raw_unlock_edges = @ + 1,
       !.locked = FALSE,
       !.state_since_ns = t]

open_drop(q, t) ==
    [q EXCEPT
       !.drop_open = TRUE,
       !.streak_since_ns = 0,
       !.drop_base_ns = q.unlocked_ns,
       !.last_unlock_start_ns = t,
       !.unlock_count = @ + 1,
       !.raw_unlock_edges = @ + 1,
       !.locked = FALSE,
       !.state_since_ns = t]

(* The merged lock state changes without a drop being opened or closed. *)
set_locked(q, t, locked) ==
    [q EXCEPT !.locked = locked, !.state_since_ns = t]

(* The record at the hold off->on edge, and at the hold on->off edge.      *)
servo_off(q) == [q EXCEPT !.servo_since_ns = 0]
servo_on(q, t) ==
    [q EXCEPT !.servo_since_ns = t,
              !.count_at_servo = q.unlock_count,
              !.unlocked_ns_at_servo = q.unlocked_ns,
              !.longest_since_servo_ns = 0]

(* Fault: the longest drop is kept when the servo goes on. *)
mode_edge_keeps_longest(q, t, held) ==
    CASE held /\ ~q.held ->
           servo_off(IF q.drop_open THEN close_drop(q, t) ELSE q)
      [] ~held /\ q.held ->
           [servo_on(q, t) EXCEPT !.longest_since_servo_ns = q.longest_since_servo_ns]
      [] OTHER -> q

(***************************************************************************)
(* The mode edges at the head of lockstat_poll.  held is the flag just     *)
(* read; q still holds the previous one.                                   *)
(***************************************************************************)
mode_edge(q, t, held) ==
    CASE held /\ ~q.held ->
           servo_off(IF q.drop_open THEN close_drop(q, t) ELSE q)
      [] ~held /\ q.held -> servo_on(q, t)
      [] OTHER -> q

(* The record after the flags of this poll are stored and the mode edges   *)
(* are dealt with.                                                         *)
polled(q, t, locked, held) ==
    [mode_edge(q, t, held) EXCEPT !.raw_locked = locked, !.held = held]

(* The running total of a drop that stays open. *)
live_total(q, t) ==
    [q EXCEPT !.unlocked_ns = q.drop_base_ns + (t - q.last_unlock_start_ns)]

(* Hold is on: follow the flag, count nothing. *)
poll_held(q, t, locked) ==
    IF locked # q.locked THEN set_locked(q, t, locked) ELSE q

(* No drop is open.  A falling edge opens one unless it is in the grace;   *)
(* a rising edge is the acquisition.                                       *)
poll_closed(q, t, prev_raw, locked, counting) ==
    CASE prev_raw /\ ~locked /\ counting -> open_drop(q, t)
      [] prev_raw /\ ~locked /\ ~counting -> set_locked(q, t, FALSE)
      [] ~prev_raw /\ locked -> set_locked(q, t, TRUE)
      [] OTHER -> q

(* Faults: the drop closes one poll late; it closes at this poll. *)
poll_open_locked_late(q, t, prev_raw) ==
    LET s == [q EXCEPT !.streak_since_ns = IF prev_raw THEN @ ELSE t]
    IN  IF s.streak_since_ns # 0 /\ t - s.streak_since_ns > MergeNs
        THEN close_drop(s, s.streak_since_ns)
        ELSE live_total(s, t)

poll_open_locked_at_poll(q, t, prev_raw) ==
    LET s == [q EXCEPT !.streak_since_ns = IF prev_raw THEN @ ELSE t]
    IN  IF s.streak_since_ns # 0 /\ t - s.streak_since_ns >= MergeNs
        THEN close_drop(s, t)
        ELSE live_total(s, t)

(* A drop is open and the flag reads locked: the drop closes at the start  *)
(* of the lock stretch once that has lasted MergeNs.                       *)
poll_open_locked(q, t, prev_raw) ==
    LET s == [q EXCEPT !.streak_since_ns = IF prev_raw THEN @ ELSE t]
    IN  IF s.streak_since_ns # 0 /\ t - s.streak_since_ns >= MergeNs
        THEN close_drop(s, s.streak_since_ns)
        ELSE live_total(s, t)

(* Fault: a dip in the lock stretch does not end it. *)
poll_open_unlocked_keeps_streak(q, t, prev_raw) ==
    live_total([q EXCEPT !.raw_unlock_edges = IF prev_raw THEN @ + 1 ELSE @], t)

(* A drop is open and the flag reads unlocked. *)
poll_open_unlocked(q, t, prev_raw) ==
    live_total([q EXCEPT !.streak_since_ns = 0,
                         !.raw_unlock_edges = IF prev_raw THEN @ + 1 ELSE @],
               t)

-----------------------------------------------------------------------------
(***************************************************************************)
(* The daemon: the first poll is the baseline, every later one goes        *)
(* through lockstat_poll.  The alternatives of lockstat_poll are the       *)
(* actions; t is the time of the poll.                                     *)
(***************************************************************************)
Init ==
    /\ now = StartNs
    /\ \E locked, held \in BOOLEAN : p = lockstat_init(StartNs, locked, held)

counting(t) == t - StartNs >= GraceNs

PollHeld(t) ==
    \E locked \in BOOLEAN :
       p' = poll_held(polled(p, t, locked, TRUE), t, locked)

PollClosed(t) ==
    \E locked \in BOOLEAN :
       LET q == polled(p, t, locked, FALSE)
       IN  /\ ~q.drop_open
           /\ p' = poll_closed(q, t, p.raw_locked, locked, counting(t))

PollOpenLocked(t) ==
    LET q == polled(p, t, TRUE, FALSE)
    IN  /\ q.drop_open
        /\ p' = poll_open_locked(q, t, p.raw_locked)

PollOpenUnlocked(t) ==
    LET q == polled(p, t, FALSE, FALSE)
    IN  /\ q.drop_open
        /\ p' = poll_open_unlocked(q, t, p.raw_locked)

Poll ==
    \E gap \in Gaps :
       /\ now + gap <= MaxNow
       /\ now' = now + gap
       /\ \/ PollHeld(now + gap)
          \/ PollClosed(now + gap)
          \/ PollOpenLocked(now + gap)
          \/ PollOpenUnlocked(now + gap)

Next == Poll

Spec == Init /\ [][Next]_vars

-----------------------------------------------------------------------------
(***************************************************************************)
(* Properties.                                                             *)
(***************************************************************************)

(* Every field of the record keeps its type; the ring always has EVENTS    *)
(* slots, whatever event_head has grown to (lockstat.c, all of it).        *)
TypeOK == now \in Nat /\ p \in Pid

(* Counting and closing go together: every counted drop is either in the   *)
(* ring's count or the one open drop, across merges, hold edges and the    *)
(* grace (open_drop counts, close_drop pushes).                            *)
EveryDropIsPushedOnce ==
    p.unlock_count = p.event_head + IF p.drop_open THEN 1 ELSE 0

(* mon_GetPID subtracts unsigned fields of the block: none of its          *)
(* differences may wrap, at any poll, also while the live total of an      *)
(* open drop is replaced by the exact one.                                 *)
NoDifferenceWraps ==
    /\ p.count_at_servo <= p.unlock_count
    /\ p.unlocked_ns_at_servo <= p.unlocked_ns
    /\ p.last_unlock_start_ns <= now
    /\ p.state_since_ns <= now
    /\ p.servo_since_ns <= now

(* The time unlocked since the servo went on fits in the time the servo    *)
(* has been on, and the longest drop fits in the time unlocked: a drop is  *)
(* never counted over time spent scanning.                                 *)
UnlockedFitsInServoTime ==
    ~p.held =>
        /\ p.servo_since_ns # 0
        /\ p.unlocked_ns - p.unlocked_ns_at_servo <= now - p.servo_since_ns
        /\ p.longest_since_servo_ns <= p.unlocked_ns - p.unlocked_ns_at_servo

(* The time unlocked never exceeds the time the daemon has counted, the    *)
(* time after the grace.                                                   *)
UnlockedFitsInCountedTime ==
    p.unlocked_ns > 0 => p.unlocked_ns + GraceNs <= now - StartNs

(* A drop is open only while the servo is on and the lock has not yet      *)
(* lasted MergeNs; while it is open the merged state is unlocked since the *)
(* drop began, and the total is live.                                      *)
OpenDropIsUnsettled ==
    p.drop_open =>
        /\ ~p.held /\ ~p.locked
        /\ p.state_since_ns = p.last_unlock_start_ns
        /\ p.servo_since_ns <= p.last_unlock_start_ns
        /\ p.raw_locked = (p.streak_since_ns # 0)
        /\ p.raw_locked => now - p.streak_since_ns < MergeNs
        /\ p.unlocked_ns = p.drop_base_ns + (now - p.last_unlock_start_ns)

(* With no drop open the merged state is the flag: merging delays the      *)
(* close of a drop, it never loses an acquisition.                         *)
ClosedMeansFlag == ~p.drop_open => p.locked = p.raw_locked

(* The time unlocked never goes back (api/include/redpitaya/lockbox.h:     *)
(* "monotonic, the open drop included"; doc/SCPI_commands.rst says the     *)
(* same): a logger takes the difference between two polls.                 *)
TotalIsMonotonic == [][p'.unlocked_ns >= p.unlocked_ns]_vars
=============================================================================
