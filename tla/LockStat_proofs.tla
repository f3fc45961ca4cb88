--------------------------- MODULE LockStat_proofs ---------------------------
(***************************************************************************)
(* The lock-drop bookkeeping keeps its record well formed and its counters *)
(* consistent for every poll schedule, merge time, grace and ring size,    *)
(* and counts the drops the history of the polled flags shows.             *)
(***************************************************************************)
EXTENDS LockStatHistory, FiniteSetTheorems, SequenceTheorems, WellFoundedInduction,
        TLAPS

USE StartAssumption, OptionsAssumption

(* The slot of an event lies in the ring. *)
LEMMA SlotInRing ==
  ASSUME NEW i \in Nat PROVE i % EVENTS \in 0 .. EVENTS - 1
  BY EventsAssumption, SMT

(***************************************************************************)
(* What each helper of lockstat_poll returns for a well-formed record.     *)
(***************************************************************************)
(* The types of the fields of a record, one by one. *)
Fields(q) ==
    /\ q.locked \in BOOLEAN /\ q.held \in BOOLEAN
    /\ q.raw_locked \in BOOLEAN /\ q.drop_open \in BOOLEAN
    /\ q.state_since_ns \in Nat /\ q.servo_since_ns \in Nat
    /\ q.unlock_count \in Nat /\ q.unlocked_ns \in Nat
    /\ q.raw_unlock_edges \in Nat /\ q.count_at_servo \in Nat
    /\ q.unlocked_ns_at_servo \in Nat
    /\ q.longest_since_servo_ns \in Nat
    /\ q.last_unlock_start_ns \in Nat /\ q.last_unlock_ns \in Nat
    /\ q.event_head \in Nat /\ q.streak_since_ns \in Nat
    /\ q.drop_base_ns \in Nat

LEMMA PidFields ==
  ASSUME NEW q \in Pid
  PROVE  Fields(q) /\ q.events \in [0 .. EVENTS - 1 -> Event]
  BY Zenon DEF Pid, Fields

LEMMA ClosedRecordType ==
  ASSUME NEW q \in Pid, NEW total \in Nat, NEW last \in Nat,
         NEW longest \in Nat, NEW end \in Nat, NEW head \in Nat,
         NEW ring \in [0 .. EVENTS - 1 -> Event]
  PROVE  [q EXCEPT !.drop_open = FALSE, !.streak_since_ns = 0,
                   !.unlocked_ns = total, !.last_unlock_ns = last,
                   !.longest_since_servo_ns = longest,
                   !.events = ring, !.event_head = head,
                   !.locked = TRUE, !.state_since_ns = end] \in Pid
  BY Zenon DEF Pid

LEMMA CloseDropType ==
  ASSUME NEW q \in Pid, NEW end \in Nat, q.last_unlock_start_ns <= end
  PROVE  close_drop(q, end) \in Pid
<1>1. q.event_head % EVENTS \in 0 .. EVENTS - 1
  BY SlotInRing, PidFields DEF Fields
<1>. DEFINE duration == end - q.last_unlock_start_ns
            longest == IF duration > q.longest_since_servo_ns
                         THEN duration ELSE q.longest_since_servo_ns
            ring == [q.events EXCEPT ![q.event_head % EVENTS] =
                       [index |-> q.event_head + 1,
                        start_ns |-> q.last_unlock_start_ns,
                        duration_ns |-> duration]]
<1>2. duration \in Nat /\ longest \in Nat /\ q.drop_base_ns + duration \in Nat
      /\ q.event_head + 1 \in Nat
  BY PidFields DEF Fields
<1>3. ring \in [0 .. EVENTS - 1 -> Event]
  BY <1>1, <1>2, PidFields DEF Event, Fields
<1>. HIDE DEF duration, longest, ring
<1>4. [q EXCEPT !.drop_open = FALSE, !.streak_since_ns = 0,
                !.unlocked_ns = q.drop_base_ns + duration,
                !.last_unlock_ns = duration,
                !.longest_since_servo_ns = longest,
                !.events = ring, !.event_head = q.event_head + 1,
                !.locked = TRUE, !.state_since_ns = end] \in Pid
  BY <1>2, <1>3, ClosedRecordType
<1>. QED
  BY <1>4 DEF close_drop, duration, longest, ring

LEMMA OpenDropType ==
  ASSUME NEW q \in Pid, NEW t \in Nat
  PROVE  open_drop(q, t) \in Pid
<1>1. /\ q.unlock_count + 1 \in Nat /\ q.raw_unlock_edges + 1 \in Nat
      /\ q.unlocked_ns \in Nat /\ 0 \in Nat
  BY PidFields DEF Fields
<1>. QED
  BY <1>1, Zenon DEF open_drop, Pid

LEMMA SetLockedType ==
  ASSUME NEW q \in Pid, NEW t \in Nat, NEW locked \in BOOLEAN
  PROVE  set_locked(q, t, locked) \in Pid
  BY Zenon DEF set_locked, Pid

LEMMA LiveTotalType ==
  ASSUME NEW q \in Pid, NEW t \in Nat, q.last_unlock_start_ns <= t
  PROVE  live_total(q, t) \in Pid
<1>1. q.drop_base_ns + (t - q.last_unlock_start_ns) \in Nat
  BY PidFields DEF Fields
<1>. QED
  BY <1>1, Zenon DEF live_total, Pid

LEMMA ModeEdgeType ==
  ASSUME NEW q \in Pid, NEW t \in Nat, NEW held \in BOOLEAN,
         q.last_unlock_start_ns <= t
  PROVE  mode_edge(q, t, held) \in Pid
<1>1. CASE held /\ ~q.held
  <2>. DEFINE r == IF q.drop_open THEN close_drop(q, t) ELSE q
  <2>1. r \in Pid
    BY CloseDropType
  <2>2. mode_edge(q, t, held) = [r EXCEPT !.servo_since_ns = 0]
    BY <1>1 DEF mode_edge, servo_on, servo_off
  <2>3. 0 \in Nat
    OBVIOUS
  <2>. HIDE DEF r
  <2>. QED
    BY <2>1, <2>2, <2>3, Zenon DEF Pid
<1>2. CASE ~held /\ q.held
  <2>1. mode_edge(q, t, held) =
          [q EXCEPT !.servo_since_ns = t, !.count_at_servo = q.unlock_count,
                    !.unlocked_ns_at_servo = q.unlocked_ns,
                    !.longest_since_servo_ns = 0]
    BY <1>2 DEF mode_edge, servo_on, servo_off
  <2>2. q.unlock_count \in Nat /\ q.unlocked_ns \in Nat /\ 0 \in Nat
    BY PidFields DEF Fields
  <2>. QED
    BY <2>1, <2>2, Zenon DEF Pid
<1>3. CASE ~(held /\ ~q.held) /\ ~(~held /\ q.held)
  BY <1>3 DEF mode_edge, servo_on, servo_off
<1>. QED
  BY <1>1, <1>2, <1>3

LEMMA PolledType ==
  ASSUME NEW q \in Pid, NEW t \in Nat, NEW locked \in BOOLEAN,
         NEW held \in BOOLEAN, q.last_unlock_start_ns <= t
  PROVE  polled(q, t, locked, held) \in Pid
<1>1. mode_edge(q, t, held) \in Pid
  BY ModeEdgeType
<1>. QED
  BY <1>1, Zenon DEF polled, Pid

-----------------------------------------------------------------------------
(***************************************************************************)
(* The inductive invariant.  Core is the part that every helper preserves  *)
(* and that only gets weaker as time passes; it relates the counters to    *)
(* each other and to the times.  Flags ties them to the flags at the end   *)
(* of a poll.                                                              *)
(***************************************************************************)
OpenCore(q, t) ==
    /\ ~q.held
    /\ q.servo_since_ns <= q.last_unlock_start_ns
    /\ q.unlocked_ns_at_servo <= q.drop_base_ns
    /\ q.drop_base_ns - q.unlocked_ns_at_servo
          <= q.last_unlock_start_ns - q.servo_since_ns
    /\ q.longest_since_servo_ns <= q.drop_base_ns - q.unlocked_ns_at_servo
    /\ q.drop_base_ns > 0 =>
          q.drop_base_ns + GraceNs <= q.last_unlock_start_ns - StartNs
    /\ GraceNs <= q.last_unlock_start_ns - StartNs
    /\ q.streak_since_ns # 0 =>
          q.last_unlock_start_ns <= q.streak_since_ns /\ q.streak_since_ns <= t
    /\ q.drop_base_ns <= q.unlocked_ns
    /\ q.unlocked_ns <= q.drop_base_ns + (t - q.last_unlock_start_ns)

Core(q, t) ==
    /\ q.unlock_count = q.event_head + IF q.drop_open THEN 1 ELSE 0
    /\ q.count_at_servo <= q.unlock_count
    /\ q.unlocked_ns_at_servo <= q.unlocked_ns
    /\ q.last_unlock_start_ns <= t
    /\ q.state_since_ns <= t
    /\ q.servo_since_ns <= t
    /\ ~q.held =>
          /\ q.servo_since_ns # 0
          /\ q.unlocked_ns - q.unlocked_ns_at_servo <= t - q.servo_since_ns
          /\ q.longest_since_servo_ns <= q.unlocked_ns - q.unlocked_ns_at_servo
    /\ q.unlocked_ns > 0 => q.unlocked_ns + GraceNs <= t - StartNs
    /\ q.drop_open => OpenCore(q, t)

Flags(q, t) ==
    /\ ~q.drop_open => q.locked = q.raw_locked
    /\ q.drop_open =>
          /\ ~q.locked
          /\ q.state_since_ns = q.last_unlock_start_ns
          /\ q.raw_locked = (q.streak_since_ns # 0)
          /\ q.raw_locked => t - q.streak_since_ns < MergeNs
          /\ q.unlocked_ns = q.drop_base_ns + (t - q.last_unlock_start_ns)

Inv == TypeOK /\ StartNs <= now /\ Core(p, now) /\ Flags(p, now)

(* Core gets weaker as time passes. *)
LEMMA CoreLater ==
  ASSUME NEW q \in Pid, NEW s \in Nat, NEW t \in Nat, s <= t, Core(q, s)
  PROVE  Core(q, t)
<1>1. Fields(q)
  BY PidFields
<1>2. q.drop_open => OpenCore(q, t)
  BY <1>1 DEF Fields, Core, OpenCore
<1>. QED
  BY <1>1, <1>2 DEF Fields, Core

LEMMA OpenDropFields ==
  ASSUME NEW q \in Pid, NEW t \in Nat
  PROVE  LET r == open_drop(q, t)
         IN  /\ ~r.locked /\ r.drop_open
             /\ r.held = q.held /\ r.raw_locked = q.raw_locked
             /\ r.state_since_ns = t /\ r.servo_since_ns = q.servo_since_ns
             /\ r.unlock_count = q.unlock_count + 1
             /\ r.unlocked_ns = q.unlocked_ns
             /\ r.count_at_servo = q.count_at_servo
             /\ r.unlocked_ns_at_servo = q.unlocked_ns_at_servo
             /\ r.longest_since_servo_ns = q.longest_since_servo_ns
             /\ r.last_unlock_start_ns = t
             /\ r.event_head = q.event_head
             /\ r.streak_since_ns = 0
             /\ r.drop_base_ns = q.unlocked_ns
  BY DEF open_drop, Pid

LEMMA CloseDropFields ==
  ASSUME NEW q \in Pid, NEW end \in Nat, q.last_unlock_start_ns <= end
  PROVE  LET r == close_drop(q, end)
             d == end - q.last_unlock_start_ns
         IN  /\ r.locked /\ ~r.drop_open
             /\ r.held = q.held /\ r.raw_locked = q.raw_locked
             /\ r.state_since_ns = end /\ r.servo_since_ns = q.servo_since_ns
             /\ r.unlock_count = q.unlock_count
             /\ r.unlocked_ns = q.drop_base_ns + d
             /\ r.count_at_servo = q.count_at_servo
             /\ r.unlocked_ns_at_servo = q.unlocked_ns_at_servo
             /\ r.longest_since_servo_ns \in {d, q.longest_since_servo_ns}
             /\ r.last_unlock_start_ns = q.last_unlock_start_ns
             /\ r.event_head = q.event_head + 1
  BY DEF close_drop, Pid

(* Opening a drop when the servo is on and the grace is over keeps Core. *)
LEMMA OpenDropCore ==
  ASSUME NEW q \in Pid, NEW t \in Nat, Core(q, t),
         ~q.drop_open, ~q.held, t - StartNs >= GraceNs
  PROVE  Core(open_drop(q, t), t)
<1>. DEFINE r == open_drop(q, t)
<1>1. Fields(q)
  BY PidFields
<1>2. Fields(r)
  BY PidFields, OpenDropType
<1>3. /\ r.drop_open
      /\ r.held = q.held
      /\ r.state_since_ns = t /\ r.servo_since_ns = q.servo_since_ns
      /\ r.unlock_count = q.unlock_count + 1
      /\ r.unlocked_ns = q.unlocked_ns
      /\ r.count_at_servo = q.count_at_servo
      /\ r.unlocked_ns_at_servo = q.unlocked_ns_at_servo
      /\ r.longest_since_servo_ns = q.longest_since_servo_ns
      /\ r.last_unlock_start_ns = t
      /\ r.event_head = q.event_head
      /\ r.streak_since_ns = 0
      /\ r.drop_base_ns = q.unlocked_ns
  BY OpenDropFields
<1>. HIDE DEF r
<1>4. OpenCore(r, t)
  BY <1>1, <1>2, <1>3 DEF Fields, Core, OpenCore
<1>. QED
  BY <1>1, <1>2, <1>3, <1>4 DEF Fields, Core, r

(* Closing the open drop at a time within it keeps Core: the exact total   *)
(* stays within the time the servo has been on.                            *)
LEMMA CloseDropCore ==
  ASSUME NEW q \in Pid, NEW t \in Nat, NEW end \in Nat, Core(q, t),
         q.drop_open, q.last_unlock_start_ns <= end, end <= t
  PROVE  Core(close_drop(q, end), t)
<1>. DEFINE r == close_drop(q, end)
            d == end - q.last_unlock_start_ns
<1>1. Fields(q)
  BY PidFields
<1>2. Fields(r)
  BY PidFields, CloseDropType
<1>3. /\ ~r.drop_open
      /\ r.held = q.held
      /\ r.state_since_ns = end /\ r.servo_since_ns = q.servo_since_ns
      /\ r.unlock_count = q.unlock_count
      /\ r.unlocked_ns = q.drop_base_ns + d
      /\ r.count_at_servo = q.count_at_servo
      /\ r.unlocked_ns_at_servo = q.unlocked_ns_at_servo
      /\ r.longest_since_servo_ns = d \/ r.longest_since_servo_ns = q.longest_since_servo_ns
      /\ r.last_unlock_start_ns = q.last_unlock_start_ns
      /\ r.event_head = q.event_head + 1
  BY CloseDropFields
<1>. HIDE DEF r
<1>4. /\ OpenCore(q, t) /\ d \in Nat
      /\ q.last_unlock_start_ns + d = end
  BY <1>1 DEF Core, Fields
<1>. HIDE DEF d
<1>5. /\ r.servo_since_ns # 0
      /\ r.unlocked_ns - r.unlocked_ns_at_servo <= t - r.servo_since_ns
      /\ r.longest_since_servo_ns <= r.unlocked_ns - r.unlocked_ns_at_servo
  BY <1>1, <1>2, <1>3, <1>4 DEF Fields, Core, OpenCore
<1>6. r.unlocked_ns > 0 => r.unlocked_ns + GraceNs <= t - StartNs
  BY <1>1, <1>2, <1>3, <1>4 DEF Fields, OpenCore
<1>7. /\ r.unlock_count = r.event_head
      /\ r.count_at_servo <= r.unlock_count
      /\ r.unlocked_ns_at_servo <= r.unlocked_ns
      /\ r.last_unlock_start_ns <= t
      /\ r.state_since_ns <= t
      /\ r.servo_since_ns <= t
  BY <1>1, <1>2, <1>3, <1>4 DEF Fields, Core, OpenCore
<1>. QED
  BY <1>2, <1>3, <1>5, <1>6, <1>7 DEF Fields, Core, r

-----------------------------------------------------------------------------
(***************************************************************************)
(* The head of a poll: storing the flags and the mode edges.               *)
(***************************************************************************)
LEMMA ModeEdgeFields ==
  ASSUME NEW q \in Pid, NEW t \in Nat, ~q.held
  PROVE  /\ mode_edge(q, t, TRUE) =
               [IF q.drop_open THEN close_drop(q, t) ELSE q
                  EXCEPT !.servo_since_ns = 0]
         /\ mode_edge(q, t, FALSE) = q
  BY Zenon DEF mode_edge, servo_on, servo_off

(* Turning the hold on closes the open drop, so nothing is open while the  *)
(* hold is on.                                                             *)
LEMMA PolledHeld ==
  ASSUME NEW q \in Pid, NEW t \in Nat, NEW locked \in BOOLEAN, Core(q, t)
  PROVE  LET r == polled(q, t, locked, TRUE)
         IN  r \in Pid /\ Core(r, t) /\ ~r.drop_open /\ r.held
             /\ r.raw_locked = locked
<1>. DEFINE r == polled(q, t, locked, TRUE)
            m == mode_edge(q, t, TRUE)
<1>1. Fields(q) /\ q.last_unlock_start_ns <= t
  BY PidFields DEF Core
<1>2. r \in Pid /\ m \in Pid
  BY <1>1, PolledType, ModeEdgeType
<1>3. m \in Pid => /\ r.held /\ r.raw_locked = locked
                   /\ r.drop_open = m.drop_open
                   /\ r.state_since_ns = m.state_since_ns
                   /\ r.servo_since_ns = m.servo_since_ns
                   /\ r.unlock_count = m.unlock_count
                   /\ r.unlocked_ns = m.unlocked_ns
                   /\ r.count_at_servo = m.count_at_servo
                   /\ r.unlocked_ns_at_servo = m.unlocked_ns_at_servo
                   /\ r.last_unlock_start_ns = m.last_unlock_start_ns
                   /\ r.event_head = m.event_head
  <2>. HIDE DEF m
  <2>. QED
    BY DEF polled, Pid, m
<1>4. PICK c \in Pid : /\ Core(c, t) /\ ~c.drop_open
                       /\ m.drop_open = c.drop_open
                       /\ m.state_since_ns = c.state_since_ns
                       /\ m.servo_since_ns = c.servo_since_ns \/ m.servo_since_ns = 0
                       /\ m.unlock_count = c.unlock_count
                       /\ m.unlocked_ns = c.unlocked_ns
                       /\ m.count_at_servo = c.count_at_servo
                       /\ m.unlocked_ns_at_servo = c.unlocked_ns_at_servo
                       /\ m.last_unlock_start_ns = c.last_unlock_start_ns
                       /\ m.event_head = c.event_head
  <2>1. CASE q.held
    <3>1. m = q
      BY <2>1, Zenon DEF mode_edge, servo_on, servo_off
    <3>2. ~q.drop_open
      BY <2>1 DEF Core, OpenCore
    <3>. QED
      BY <3>1, <3>2
  <2>2. CASE ~q.held
    <3>. DEFINE c == IF q.drop_open THEN close_drop(q, t) ELSE q
    <3>1. c \in Pid /\ Core(c, t)
      BY <1>1, CloseDropType, CloseDropCore
    <3>2. ~c.drop_open
      BY <1>1, CloseDropFields
    <3>3. m = [c EXCEPT !.servo_since_ns = 0]
      BY <2>2, ModeEdgeFields
    <3>. HIDE DEF c, m
    <3>4. /\ m.drop_open = c.drop_open
          /\ m.state_since_ns = c.state_since_ns
          /\ m.servo_since_ns = 0
          /\ m.unlock_count = c.unlock_count
          /\ m.unlocked_ns = c.unlocked_ns
          /\ m.count_at_servo = c.count_at_servo
          /\ m.unlocked_ns_at_servo = c.unlocked_ns_at_servo
          /\ m.last_unlock_start_ns = c.last_unlock_start_ns
          /\ m.event_head = c.event_head
      BY <3>1, <3>3 DEF Pid
    <3>. QED
      BY <3>1, <3>2, <3>4
  <2>. QED
    BY <2>1, <2>2
<1>. HIDE DEF r, m
<1>5. Fields(c) /\ Fields(r)
  BY <1>2, PidFields
<1>6. Core(r, t)
  BY <1>2, <1>3, <1>4, <1>5 DEF Core, Fields
<1>. QED
  BY <1>2, <1>3, <1>4, <1>6 DEF r

(* With the hold off an open drop stays as it was; the counters "since     *)
(* servo on" restart when the hold has just gone off.                      *)
LEMMA PolledServo ==
  ASSUME NEW q \in Pid, NEW t \in Nat \ {0}, NEW locked \in BOOLEAN, Core(q, t)
  PROVE  LET r == polled(q, t, locked, FALSE)
         IN  /\ r \in Pid /\ Core(r, t) /\ ~r.held /\ r.raw_locked = locked
             /\ r.drop_open = q.drop_open /\ r.locked = q.locked
             /\ r.state_since_ns = q.state_since_ns
             /\ r.streak_since_ns = q.streak_since_ns
             /\ r.last_unlock_start_ns = q.last_unlock_start_ns
<1>. DEFINE r == polled(q, t, locked, FALSE)
<1>1. Fields(q) /\ q.last_unlock_start_ns <= t
  BY PidFields DEF Core
<1>2. r \in Pid
  BY <1>1, PolledType
<1>3. CASE q.held
  <2>1. r = [[q EXCEPT !.servo_since_ns = t,
                       !.count_at_servo = q.unlock_count,
                       !.unlocked_ns_at_servo = q.unlocked_ns,
                       !.longest_since_servo_ns = 0]
               EXCEPT !.raw_locked = locked, !.held = FALSE]
    BY <1>3, Zenon DEF polled, mode_edge, servo_on, servo_off
  <2>2. /\ ~r.held /\ r.raw_locked = locked
        /\ r.drop_open = q.drop_open /\ r.locked = q.locked
        /\ r.state_since_ns = q.state_since_ns
        /\ r.servo_since_ns = t
        /\ r.unlock_count = q.unlock_count
        /\ r.unlocked_ns = q.unlocked_ns
        /\ r.count_at_servo = q.unlock_count
        /\ r.unlocked_ns_at_servo = q.unlocked_ns
        /\ r.longest_since_servo_ns = 0
        /\ r.last_unlock_start_ns = q.last_unlock_start_ns
        /\ r.event_head = q.event_head
        /\ r.streak_since_ns = q.streak_since_ns
    <3>. HIDE DEF r
    <3>. QED
      BY <2>1 DEF Pid
  <2>3. ~q.drop_open
    BY <1>3 DEF Core, OpenCore
  <2>. HIDE DEF r
  <2>4. Core(r, t)
    BY <1>1, <2>2, <2>3 DEF Core, Fields
  <2>. QED
    BY <1>2, <2>2, <2>4 DEF r
<1>4. CASE ~q.held
  <2>1. r = [q EXCEPT !.raw_locked = locked, !.held = FALSE]
    BY <1>4, ModeEdgeFields DEF polled
  <2>2. /\ ~r.held /\ r.raw_locked = locked
        /\ r.drop_open = q.drop_open /\ r.locked = q.locked
        /\ r.state_since_ns = q.state_since_ns
        /\ r.servo_since_ns = q.servo_since_ns
        /\ r.unlock_count = q.unlock_count
        /\ r.unlocked_ns = q.unlocked_ns
        /\ r.count_at_servo = q.count_at_servo
        /\ r.unlocked_ns_at_servo = q.unlocked_ns_at_servo
        /\ r.longest_since_servo_ns = q.longest_since_servo_ns
        /\ r.last_unlock_start_ns = q.last_unlock_start_ns
        /\ r.event_head = q.event_head
        /\ r.streak_since_ns = q.streak_since_ns
        /\ r.drop_base_ns = q.drop_base_ns
    <3>. HIDE DEF r
    <3>. QED
      BY <2>1 DEF Pid
  <2>. HIDE DEF r
  <2>3. Core(r, t)
    BY <1>1, <1>4, <2>2 DEF Core, OpenCore, Fields
  <2>. QED
    BY <1>2, <2>2, <2>3 DEF r
<1>. QED
  BY <1>3, <1>4

-----------------------------------------------------------------------------
(***************************************************************************)
(* The alternatives of a poll.                                             *)
(***************************************************************************)

(* Changing the merged state now touches none of the counters. *)
LEMMA SetLockedCore ==
  ASSUME NEW q \in Pid, NEW t \in Nat, NEW locked \in BOOLEAN, Core(q, t)
  PROVE  LET r == set_locked(q, t, locked)
         IN  Core(r, t) /\ r.locked = locked /\ r.raw_locked = q.raw_locked
             /\ r.held = q.held /\ r.drop_open = q.drop_open
<1>. DEFINE r == set_locked(q, t, locked)
<1>1. /\ r.locked = locked /\ r.raw_locked = q.raw_locked
      /\ r.held = q.held
      /\ r.drop_open = q.drop_open
      /\ r.state_since_ns = t
      /\ r.servo_since_ns = q.servo_since_ns
      /\ r.unlock_count = q.unlock_count
      /\ r.unlocked_ns = q.unlocked_ns
      /\ r.count_at_servo = q.count_at_servo
      /\ r.unlocked_ns_at_servo = q.unlocked_ns_at_servo
      /\ r.longest_since_servo_ns = q.longest_since_servo_ns
      /\ r.last_unlock_start_ns = q.last_unlock_start_ns
      /\ r.event_head = q.event_head
      /\ r.streak_since_ns = q.streak_since_ns
      /\ r.drop_base_ns = q.drop_base_ns
  BY DEF set_locked, Pid
<1>2. Fields(q)
  BY PidFields
<1>. HIDE DEF r
<1>3. Core(r, t)
  BY <1>1, <1>2 DEF Core, OpenCore, Fields
<1>. QED
  BY <1>1, <1>3 DEF r

LEMMA HeldStep ==
  ASSUME NEW q \in Pid, NEW t \in Nat, NEW locked \in BOOLEAN,
         Core(q, t), ~q.drop_open, q.raw_locked = locked
  PROVE  LET r == poll_held(q, t, locked)
         IN  r \in Pid /\ Core(r, t) /\ Flags(r, t)
<1>1. q.locked \in BOOLEAN
  BY PidFields DEF Fields
<1>2. CASE locked # q.locked
  <2>. DEFINE r == set_locked(q, t, locked)
  <2>1. r \in Pid /\ Core(r, t) /\ r.locked = r.raw_locked /\ ~r.drop_open
    BY SetLockedType, SetLockedCore
  <2>2. poll_held(q, t, locked) = r
    BY <1>2 DEF poll_held
  <2>. HIDE DEF r
  <2>. QED
    BY <2>1, <2>2 DEF Flags
<1>3. CASE locked = q.locked
  BY <1>3 DEF poll_held, Flags
<1>. QED
  BY <1>2, <1>3

LEMMA ClosedStep ==
  ASSUME NEW q \in Pid, NEW t \in Nat, NEW prev_raw \in BOOLEAN,
         NEW locked \in BOOLEAN, NEW c \in BOOLEAN,
         c => t - StartNs >= GraceNs,
         Core(q, t), ~q.drop_open, ~q.held,
         q.locked = prev_raw, q.raw_locked = locked
  PROVE  LET r == poll_closed(q, t, prev_raw, locked, c)
         IN  r \in Pid /\ Core(r, t) /\ Flags(r, t)
<1>. DEFINE r == poll_closed(q, t, prev_raw, locked, c)
<1>1. CASE prev_raw /\ ~locked /\ c
  <2>1. r = open_drop(q, t)
    BY <1>1, Zenon DEF poll_closed
  <2>2. r \in Pid /\ Core(r, t)
    BY <1>1, <2>1, OpenDropType, OpenDropCore
  <2>3. /\ r.drop_open /\ ~r.locked
        /\ r.state_since_ns = t /\ r.last_unlock_start_ns = t
        /\ r.raw_locked = q.raw_locked /\ r.streak_since_ns = 0
        /\ r.unlocked_ns = q.unlocked_ns /\ r.drop_base_ns = q.unlocked_ns
    BY <2>1, OpenDropFields
  <2>4. Fields(q) /\ Fields(r) /\ q.raw_locked = FALSE
    BY <1>1, <2>2, PidFields
  <2>. HIDE DEF r
  <2>5. Flags(r, t)
    BY <2>3, <2>4 DEF Flags, Fields
  <2>. QED
    BY <2>2, <2>5 DEF r
<1>2. CASE prev_raw /\ ~locked /\ ~c
  <2>1. r = set_locked(q, t, FALSE)
    BY <1>2, Zenon DEF poll_closed
  <2>. DEFINE w == set_locked(q, t, FALSE)
  <2>2. w \in Pid /\ Core(w, t)
    BY SetLockedType, SetLockedCore
  <2>3. w.locked = FALSE
    BY SetLockedCore, FALSE \in BOOLEAN, Zenon
  <2>5. w.raw_locked = q.raw_locked /\ w.drop_open = q.drop_open
    BY SetLockedCore
  <2>4. q.raw_locked = FALSE
    BY <1>2
  <2>. HIDE DEF r, w
  <2>. QED
    BY <2>1, <2>2, <2>3, <2>4, <2>5 DEF Flags, r, w
<1>3. CASE ~prev_raw /\ locked
  <2>1. r = set_locked(q, t, TRUE)
    BY <1>3, Zenon DEF poll_closed
  <2>. DEFINE w == set_locked(q, t, TRUE)
  <2>2. w \in Pid /\ Core(w, t)
    BY SetLockedType, SetLockedCore
  <2>3. w.locked = TRUE
    BY SetLockedCore, TRUE \in BOOLEAN, Zenon
  <2>5. w.raw_locked = q.raw_locked /\ w.drop_open = q.drop_open
    BY SetLockedCore
  <2>4. q.raw_locked = TRUE
    BY <1>3
  <2>. HIDE DEF r, w
  <2>. QED
    BY <2>1, <2>2, <2>3, <2>4, <2>5 DEF Flags, r, w
<1>4. CASE prev_raw = locked
  <2>1. r = q
    BY <1>4, Zenon DEF poll_closed
  <2>2. Flags(q, t)
    BY <1>4 DEF Flags
  <2>. QED
    BY <2>1, <2>2
<1>. QED
  BY <1>1, <1>2, <1>3, <1>4

(* The live total of a drop that stays open, after its streak is updated.  *)
LEMMA OpenStep ==
  ASSUME NEW q \in Pid, NEW t \in Nat, NEW streak \in Nat, NEW edges \in Nat,
         Core(q, t), q.drop_open, ~q.locked,
         q.state_since_ns = q.last_unlock_start_ns,
         streak # 0 => q.last_unlock_start_ns <= streak /\ streak <= t,
         q.raw_locked = (streak # 0),
         q.raw_locked => t - streak < MergeNs
  PROVE  LET r == live_total([q EXCEPT !.streak_since_ns = streak,
                                       !.raw_unlock_edges = edges], t)
         IN  r \in Pid /\ Core(r, t) /\ Flags(r, t)
<1>. DEFINE m == [q EXCEPT !.streak_since_ns = streak, !.raw_unlock_edges = edges]
            r == live_total(m, t)
<1>1. m \in Pid
  BY Zenon DEF Pid
<1>2. /\ m.locked = q.locked /\ m.held = q.held /\ m.raw_locked = q.raw_locked
      /\ m.drop_open = q.drop_open
      /\ m.state_since_ns = q.state_since_ns
      /\ m.servo_since_ns = q.servo_since_ns
      /\ m.unlock_count = q.unlock_count
      /\ m.count_at_servo = q.count_at_servo
      /\ m.unlocked_ns_at_servo = q.unlocked_ns_at_servo
      /\ m.longest_since_servo_ns = q.longest_since_servo_ns
      /\ m.last_unlock_start_ns = q.last_unlock_start_ns
      /\ m.event_head = q.event_head
      /\ m.streak_since_ns = streak
      /\ m.drop_base_ns = q.drop_base_ns
  BY DEF Pid
<1>. HIDE DEF m
<1>3. r \in Pid
  BY <1>1, <1>2, LiveTotalType DEF Core
<1>4. /\ r.locked = m.locked /\ r.held = m.held /\ r.raw_locked = m.raw_locked
      /\ r.drop_open = m.drop_open
      /\ r.state_since_ns = m.state_since_ns
      /\ r.servo_since_ns = m.servo_since_ns
      /\ r.unlock_count = m.unlock_count
      /\ r.unlocked_ns = m.drop_base_ns + (t - m.last_unlock_start_ns)
      /\ r.count_at_servo = m.count_at_servo
      /\ r.unlocked_ns_at_servo = m.unlocked_ns_at_servo
      /\ r.longest_since_servo_ns = m.longest_since_servo_ns
      /\ r.last_unlock_start_ns = m.last_unlock_start_ns
      /\ r.event_head = m.event_head
      /\ r.streak_since_ns = m.streak_since_ns
      /\ r.drop_base_ns = m.drop_base_ns
  BY <1>1 DEF live_total, Pid
<1>5. Fields(q) /\ Fields(m) /\ Fields(r) /\ OpenCore(q, t)
  BY <1>1, <1>3, PidFields DEF Core
<1>. HIDE DEF r
<1>6. OpenCore(r, t)
  BY <1>2, <1>4, <1>5 DEF Fields, OpenCore
<1>7. Core(r, t)
  <2>1. /\ r.unlocked_ns_at_servo <= r.unlocked_ns
        /\ r.unlocked_ns - r.unlocked_ns_at_servo <= t - r.servo_since_ns
        /\ r.longest_since_servo_ns <= r.unlocked_ns - r.unlocked_ns_at_servo
    BY <1>2, <1>4, <1>5 DEF Fields, OpenCore, Core
  <2>2. r.unlocked_ns > 0 => r.unlocked_ns + GraceNs <= t - StartNs
    BY <1>2, <1>4, <1>5 DEF Fields, OpenCore, Core
  <2>. QED
    BY <1>2, <1>4, <1>5, <1>6, <2>1, <2>2 DEF Fields, Core
<1>8. Flags(r, t)
  BY <1>2, <1>4, <1>5 DEF Fields, Flags
<1>. QED
  BY <1>3, <1>7, <1>8 DEF r, m

(* The drop closes at the start of its lock stretch. *)
LEMMA CloseStep ==
  ASSUME NEW q \in Pid, NEW t \in Nat, NEW streak \in Nat,
         Core(q, t), q.drop_open, q.raw_locked = TRUE,
         q.last_unlock_start_ns <= streak, streak <= t
  PROVE  LET r == close_drop([q EXCEPT !.streak_since_ns = streak], streak)
         IN  r \in Pid /\ Core(r, t) /\ Flags(r, t)
<1>. DEFINE m == [q EXCEPT !.streak_since_ns = streak]
            r == close_drop(m, streak)
<1>1. m \in Pid
  BY Zenon DEF Pid
<1>2. /\ m.held = q.held /\ m.raw_locked = q.raw_locked
      /\ m.drop_open = q.drop_open
      /\ m.state_since_ns = q.state_since_ns
      /\ m.servo_since_ns = q.servo_since_ns
      /\ m.unlock_count = q.unlock_count
      /\ m.unlocked_ns = q.unlocked_ns
      /\ m.count_at_servo = q.count_at_servo
      /\ m.unlocked_ns_at_servo = q.unlocked_ns_at_servo
      /\ m.longest_since_servo_ns = q.longest_since_servo_ns
      /\ m.last_unlock_start_ns = q.last_unlock_start_ns
      /\ m.event_head = q.event_head
      /\ m.streak_since_ns = streak
      /\ m.drop_base_ns = q.drop_base_ns
  BY DEF Pid
<1>3. Fields(q)
  BY PidFields
<1>. HIDE DEF m
<1>4. Core(m, t)
  BY <1>2, <1>3 DEF Core, OpenCore, Fields
<1>5. r \in Pid /\ Core(r, t)
  BY <1>1, <1>2, <1>4, CloseDropType, CloseDropCore
<1>6. r.locked /\ ~r.drop_open /\ r.raw_locked = m.raw_locked
  BY <1>1, <1>2, CloseDropFields
<1>7. Fields(r)
  BY <1>5, PidFields
<1>. HIDE DEF r
<1>8. Flags(r, t)
  BY <1>2, <1>6, <1>7 DEF Flags, Fields
<1>. QED
  BY <1>5, <1>8 DEF r, m

-----------------------------------------------------------------------------
(***************************************************************************)
(* The invariant.                                                          *)
(***************************************************************************)
LEMMA InitInv == Init => Inv
<1>. SUFFICES ASSUME Init PROVE Inv
  OBVIOUS
<1>1. PICK locked \in BOOLEAN, held \in BOOLEAN :
          p = lockstat_init(StartNs, locked, held)
  BY DEF Init
<1>2. [i \in 0 .. EVENTS - 1 |-> NoEvent] \in [0 .. EVENTS - 1 -> Event]
  BY DEF NoEvent, Event
<1>3. p \in Pid
  <2>1. 0 \in Nat /\ StartNs \in Nat
    OBVIOUS
  <2>2. (IF held THEN 0 ELSE StartNs) \in Nat
    BY <2>1
  <2>. QED
    BY <1>1, <1>2, <2>1, <2>2, Zenon DEF lockstat_init, Pid
<1>4. Core(p, StartNs) /\ Flags(p, StartNs)
  BY <1>1 DEF lockstat_init, Core, Flags
<1>. QED
  BY <1>3, <1>4 DEF Init, Inv, TypeOK

LEMMA PollInv ==
  ASSUME Inv, Poll
  PROVE  Inv'
<1>1. PICK gap \in Gaps : /\ now' = now + gap
                          /\ \/ PollHeld(now + gap)
                             \/ PollClosed(now + gap)
                             \/ PollOpenLocked(now + gap)
                             \/ PollOpenUnlocked(now + gap)
  BY DEF Poll
<1>. DEFINE t == now + gap
<1>2. now \in Nat /\ t \in Nat \ {0} /\ now < t /\ StartNs <= t
  BY GapsAssumption DEF Inv, TypeOK
<1>3. p \in Pid /\ Fields(p) /\ Core(p, now) /\ Flags(p, now)
  BY PidFields DEF Inv, TypeOK
<1>. HIDE DEF t
<1>4. Core(p, t)
  BY <1>2, <1>3, CoreLater
<1>5. SUFFICES p' \in Pid /\ Core(p', t) /\ Flags(p', t)
  BY <1>1, <1>2 DEF Inv, TypeOK, t
<1>6. CASE PollHeld(t)
  <2>1. PICK locked \in BOOLEAN :
             p' = poll_held(polled(p, t, locked, TRUE), t, locked)
    BY <1>6 DEF PollHeld
  <2>. DEFINE q == polled(p, t, locked, TRUE)
  <2>2. q \in Pid /\ Core(q, t) /\ ~q.drop_open /\ q.raw_locked = locked
    BY <1>2, <1>3, <1>4, PolledHeld
  <2>. HIDE DEF q
  <2>3. p' = poll_held(q, t, locked)
    BY <2>1 DEF q
  <2>. QED
    BY <1>2, <2>2, <2>3, HeldStep
<1>7. CASE PollClosed(t)
  <2>1. PICK locked \in BOOLEAN :
             LET q == polled(p, t, locked, FALSE)
             IN  /\ ~q.drop_open
                 /\ p' = poll_closed(q, t, p.raw_locked, locked, counting(t))
    BY <1>7 DEF PollClosed
  <2>. DEFINE q == polled(p, t, locked, FALSE)
  <2>2. /\ q \in Pid /\ Core(q, t) /\ ~q.held /\ q.raw_locked = locked
        /\ q.drop_open = p.drop_open /\ q.locked = p.locked
    BY <1>2, <1>3, <1>4, PolledServo
  <2>. HIDE DEF q
  <2>3. ~q.drop_open /\ p' = poll_closed(q, t, p.raw_locked, locked, counting(t))
    BY <2>1 DEF q
  <2>4. q.locked = p.raw_locked
    BY <1>3, <2>2, <2>3 DEF Flags
  <2>5. counting(t) \in BOOLEAN /\ (counting(t) => t - StartNs >= GraceNs)
    BY DEF counting
  <2>6. p.raw_locked \in BOOLEAN /\ t \in Nat
    BY <1>2, <1>3 DEF Fields
  <2>. QED
    BY <2>2, <2>3, <2>4, <2>5, <2>6, ClosedStep
<1>8. CASE PollOpenLocked(t)
  <2>. DEFINE q == polled(p, t, TRUE, FALSE)
              streak == IF p.raw_locked THEN q.streak_since_ns ELSE t
              m == [q EXCEPT !.streak_since_ns = streak]
  <2>1. /\ q \in Pid /\ Core(q, t) /\ ~q.held /\ q.raw_locked = TRUE
        /\ q.drop_open = p.drop_open /\ q.locked = p.locked
        /\ q.state_since_ns = p.state_since_ns
        /\ q.streak_since_ns = p.streak_since_ns
        /\ q.last_unlock_start_ns = p.last_unlock_start_ns
    <3>1. TRUE \in BOOLEAN
      OBVIOUS
    <3>. QED
      BY <1>2, <1>3, <1>4, <3>1, PolledServo, Zenon
  <2>2. /\ q.drop_open
        /\ p' = IF m.streak_since_ns # 0 /\ t - m.streak_since_ns >= MergeNs
                THEN close_drop(m, m.streak_since_ns) ELSE live_total(m, t)
    BY <1>8, Zenon DEF PollOpenLocked, poll_open_locked
  <2>. HIDE DEF q
  <2>3. Fields(q) /\ OpenCore(q, t)
    BY <2>1, <2>2, PidFields DEF Core
  <2>4. /\ streak \in Nat /\ streak # 0
        /\ q.last_unlock_start_ns <= streak /\ streak <= t
        /\ ~q.locked /\ q.state_since_ns = q.last_unlock_start_ns
    <3>1. /\ ~p.locked /\ p.state_since_ns = p.last_unlock_start_ns
          /\ p.raw_locked = (p.streak_since_ns # 0)
      BY <1>3, <2>1, <2>2, Zenon DEF Flags
    <3>2. ~q.locked /\ q.state_since_ns = q.last_unlock_start_ns
      BY <2>1, <3>1, Zenon
    <3>3. /\ q.streak_since_ns \in Nat /\ q.last_unlock_start_ns \in Nat
          /\ t \in Nat /\ t # 0 /\ q.last_unlock_start_ns <= t
      BY <1>2, <2>1, <2>3 DEF Fields, Core
    <3>4. CASE p.raw_locked
      <4>1. streak = q.streak_since_ns /\ q.streak_since_ns # 0
        BY <2>1, <3>1, <3>4, Zenon
      <4>2. q.last_unlock_start_ns <= q.streak_since_ns /\ q.streak_since_ns <= t
        BY <2>3, <4>1, Zenon DEF OpenCore
      <4> QED
        BY <3>2, <3>3, <4>1, <4>2, Zenon
    <3>5. CASE ~p.raw_locked
      <4>1. streak = t
        BY <3>5, Zenon
      <4> QED
        BY <3>2, <3>3, <4>1
    <3>. QED
      BY <3>4, <3>5
  <2>5. m.streak_since_ns = streak
    BY <2>1 DEF Pid
  <2>. HIDE DEF streak
  <2>6. CASE t - streak >= MergeNs
    <3>1. p' = close_drop(m, streak)
      BY <2>2, <2>4, <2>5, <2>6
    <3>. QED
      BY <1>2, <2>1, <2>2, <2>4, <3>1, CloseStep
  <2>7. CASE ~(t - streak >= MergeNs)
    <3>1. p' = live_total(m, t)
      BY <2>2, <2>5, <2>7
    <3>2. m = [q EXCEPT !.streak_since_ns = streak,
                        !.raw_unlock_edges = q.raw_unlock_edges]
      BY <2>1 DEF Pid
    <3>3. q.raw_unlock_edges \in Nat /\ t - streak < MergeNs /\ t \in Nat
      BY <1>2, <2>3, <2>4, <2>7 DEF Fields
    <3>4. q.raw_locked = (streak # 0)
      BY <2>1, <2>4
    <3>5. LET r == live_total([q EXCEPT !.streak_since_ns = streak,
                                        !.raw_unlock_edges = q.raw_unlock_edges],
                              t)
          IN  r \in Pid /\ Core(r, t) /\ Flags(r, t)
      BY <2>1, <2>2, <2>4, <3>3, <3>4, OpenStep
    <3>. HIDE DEF m
    <3>. QED
      BY <3>1, <3>2, <3>5
  <2>. QED
    BY <2>6, <2>7
<1>9. CASE PollOpenUnlocked(t)
  <2>. DEFINE q == polled(p, t, FALSE, FALSE)
              edges == IF p.raw_locked THEN q.raw_unlock_edges + 1
                                       ELSE q.raw_unlock_edges
  <2>1. /\ q \in Pid /\ Core(q, t) /\ ~q.held /\ q.raw_locked = FALSE
        /\ q.drop_open = p.drop_open /\ q.locked = p.locked
        /\ q.state_since_ns = p.state_since_ns
        /\ q.last_unlock_start_ns = p.last_unlock_start_ns
    <3>1. FALSE \in BOOLEAN
      OBVIOUS
    <3>. QED
      BY <1>2, <1>3, <1>4, <3>1, PolledServo, Zenon
  <2>2. /\ q.drop_open
        /\ p' = live_total([q EXCEPT !.streak_since_ns = 0,
                                     !.raw_unlock_edges = edges], t)
    BY <1>9 DEF PollOpenUnlocked, poll_open_unlocked
  <2>. HIDE DEF q
  <2>3. edges \in Nat /\ t \in Nat
    BY <1>2, <2>1, PidFields DEF Fields
  <2>4. ~q.locked /\ q.state_since_ns = q.last_unlock_start_ns
    BY <1>3, <2>1, <2>2 DEF Flags
  <2>. HIDE DEF edges
  <2>. QED
    BY <2>1, <2>2, <2>3, <2>4, OpenStep
<1>. QED
  BY <1>1, <1>6, <1>7, <1>8, <1>9 DEF t

(* The inductive invariant holds at every poll of the daemon. *)
THEOREM InvHolds == Spec => []Inv
<1>1. Init => Inv
  BY InitInv
<1>2. Inv /\ [Next]_vars => Inv'
  <2>1. ASSUME Inv, Next PROVE Inv'
    BY <2>1, PollInv DEF Next
  <2>2. ASSUME Inv, UNCHANGED vars PROVE Inv'
    BY <2>2 DEF vars, Inv, TypeOK
  <2>. QED
    BY <2>1, <2>2
<1>. QED
  BY <1>1, <1>2, PTL DEF Spec

-----------------------------------------------------------------------------
(***************************************************************************)
(* What the invariant gives.                                               *)
(***************************************************************************)

(* The record is well formed and the ring has EVENTS slots at every poll   *)
(* (lockstat_init, lockstat_poll).                                         *)
THEOREM TypeCorrect == Spec => []TypeOK
<1>1. Inv => TypeOK
  BY DEF Inv
<1>. QED
  BY <1>1, InvHolds, PTL

(* Every counted drop is pushed to the ring once, when it closes           *)
(* (open_drop, close_drop).                                                *)
THEOREM PushedOnce == Spec => []EveryDropIsPushedOnce
<1>1. Inv => EveryDropIsPushedOnce
  BY DEF Inv, Core, EveryDropIsPushedOnce
<1>. QED
  BY <1>1, InvHolds, PTL

(* None of the unsigned differences mon_GetPID forms of a published record *)
(* wraps.                                                                  *)
THEOREM DifferencesNeverWrap == Spec => []NoDifferenceWraps
<1>1. Inv => NoDifferenceWraps
  BY DEF Inv, Core, NoDifferenceWraps
<1>. QED
  BY <1>1, InvHolds, PTL

(* The time unlocked since the servo went on fits in the time since then,  *)
(* whatever the flag and the hold do between polls.                        *)
THEOREM UnlockedInServoTime == Spec => []UnlockedFitsInServoTime
<1>1. Inv => UnlockedFitsInServoTime
  BY DEF Inv, Core, UnlockedFitsInServoTime
<1>. QED
  BY <1>1, InvHolds, PTL

(* Nothing is counted over the startup grace. *)
THEOREM UnlockedInCountedTime == Spec => []UnlockedFitsInCountedTime
<1>1. Inv => UnlockedFitsInCountedTime
  BY DEF Inv, Core, UnlockedFitsInCountedTime
<1>. QED
  BY <1>1, InvHolds, PTL

(* A drop stays open only while the servo is on and the lock has lasted    *)
(* less than MergeNs.                                                      *)
THEOREM OpenUnsettled == Spec => []OpenDropIsUnsettled
<1>1. Inv => OpenDropIsUnsettled
  BY DEF Inv, Core, OpenCore, Flags, OpenDropIsUnsettled
<1>. QED
  BY <1>1, InvHolds, PTL

(* With no drop open the merged state is the FPGA's flag. *)
THEOREM ClosedFollowsFlag == Spec => []ClosedMeansFlag
<1>1. Inv => ClosedMeansFlag
  BY DEF Inv, Flags, ClosedMeansFlag
<1>. QED
  BY <1>1, InvHolds, PTL

-----------------------------------------------------------------------------
(***************************************************************************)
(* What one poll does to the fields the history is about.                  *)
(***************************************************************************)

(* The drop fields after the hold flag went or stayed off.                 *)
servo(q, t) == IF q.held THEN t ELSE q.servo_since_ns
base(q) == IF q.held THEN q.unlock_count ELSE q.count_at_servo
longest(q) == IF q.held THEN 0 ELSE q.longest_since_servo_ns
streak(q, t) == IF q.raw_locked THEN q.streak_since_ns ELSE t

(* The ring of drops is left alone, or gets the drop that ended at e.      *)
Keeps(q, r) == r.event_head = q.event_head /\ r.events = q.events
Pushes(q, r, e) ==
    /\ r.event_head = q.event_head + 1
    /\ r.events = [q.events EXCEPT ![q.event_head % EVENTS] =
                     [index |-> q.event_head + 1,
                      start_ns |-> q.last_unlock_start_ns,
                      duration_ns |-> e - q.last_unlock_start_ns]]
    /\ r.unlocked_ns = q.drop_base_ns + (e - q.last_unlock_start_ns)

Falls(q, r, t) == q.raw_locked /\ ~r.raw_locked /\ counting(t)

EndsOpen(q, r, t) ==
    /\ r.unlock_count = q.unlock_count
    /\ ~q.drop_open => Keeps(q, r) /\ r.unlocked_ns = q.unlocked_ns
    /\ q.drop_open => Pushes(q, r, t)

TurnsOff(q, r, t) == r.held /\ ~r.drop_open /\ EndsOpen(q, r, t)

Opens(q, r, t) ==
    /\ ~q.drop_open /\ Falls(q, r, t)
    /\ r.drop_open /\ r.last_unlock_start_ns = t
    /\ r.unlock_count = q.unlock_count + 1
    /\ r.longest_since_servo_ns = longest(q)
    /\ Keeps(q, r) /\ r.drop_base_ns = q.unlocked_ns

Rests(q, r, t) ==
    /\ ~q.drop_open /\ ~Falls(q, r, t)
    /\ ~r.drop_open
    /\ r.unlock_count = q.unlock_count
    /\ r.longest_since_servo_ns = longest(q)
    /\ Keeps(q, r) /\ r.unlocked_ns = q.unlocked_ns

StaysOpen(q, r, t) ==
    /\ q.drop_open /\ r.drop_open
    /\ r.raw_locked => /\ r.streak_since_ns = streak(q, t)
                       /\ ~(t - streak(q, t) >= MergeNs)
    /\ r.last_unlock_start_ns = q.last_unlock_start_ns
    /\ r.unlock_count = q.unlock_count
    /\ r.longest_since_servo_ns = longest(q)
    /\ Keeps(q, r) /\ r.drop_base_ns = q.drop_base_ns

Closes(q, r, t) ==
    /\ q.drop_open /\ ~r.drop_open
    /\ r.raw_locked /\ t - streak(q, t) >= MergeNs
    /\ r.unlock_count = q.unlock_count
    /\ LET d == streak(q, t) - q.last_unlock_start_ns
       IN  r.longest_since_servo_ns = IF d > longest(q) THEN d ELSE longest(q)
    /\ Pushes(q, r, streak(q, t))

Polled(q, r, t) ==
    \/ TurnsOff(q, r, t)
    \/ /\ ~r.held
       /\ r.servo_since_ns = servo(q, t) /\ r.count_at_servo = base(q)
       /\ \/ Opens(q, r, t) \/ Rests(q, r, t)
          \/ StaysOpen(q, r, t) \/ Closes(q, r, t)

(* What the helpers of lockstat_poll leave alone, and what they change.    *)
Same(q, r) ==
    /\ r.held = q.held /\ r.raw_locked = q.raw_locked
    /\ r.servo_since_ns = q.servo_since_ns
    /\ r.count_at_servo = q.count_at_servo

SameDrop(q, r) ==
    /\ Same(q, r)
    /\ r.drop_open = q.drop_open
    /\ r.longest_since_servo_ns = q.longest_since_servo_ns
    /\ r.unlock_count = q.unlock_count
    /\ r.drop_base_ns = q.drop_base_ns
    /\ Keeps(q, r)

HoldOff(q, r, t, locked) ==
    /\ r \in Pid
    /\ ~r.held /\ r.raw_locked = locked
    /\ r.drop_open = q.drop_open
    /\ r.servo_since_ns = servo(q, t) /\ r.count_at_servo = base(q)
    /\ r.longest_since_servo_ns = longest(q)
    /\ r.unlock_count = q.unlock_count
    /\ r.last_unlock_start_ns = q.last_unlock_start_ns
    /\ r.streak_since_ns = q.streak_since_ns
    /\ r.unlocked_ns = q.unlocked_ns /\ r.drop_base_ns = q.drop_base_ns
    /\ Keeps(q, r)

Opened(q, r, t) ==
    /\ Same(q, r)
    /\ r.drop_open
    /\ r.longest_since_servo_ns = q.longest_since_servo_ns
    /\ r.unlock_count = q.unlock_count + 1
    /\ r.last_unlock_start_ns = t
    /\ r.drop_base_ns = q.unlocked_ns
    /\ Keeps(q, r)

Live(q, r, s) ==
    /\ SameDrop(q, r)
    /\ r.last_unlock_start_ns = q.last_unlock_start_ns
    /\ r.streak_since_ns = s

Closed(q, r, s) ==
    /\ Same(q, r)
    /\ ~r.drop_open
    /\ r.longest_since_servo_ns =
          IF s - q.last_unlock_start_ns > q.longest_since_servo_ns
          THEN s - q.last_unlock_start_ns ELSE q.longest_since_servo_ns
    /\ r.unlock_count = q.unlock_count
    /\ Pushes(q, r, s)

(* The record as the branches of a poll with the hold off find it.         *)
LEMMA PolledFields ==
  ASSUME NEW q \in Pid, NEW t \in Nat, NEW locked \in BOOLEAN,
         q.last_unlock_start_ns <= t
  PROVE  HoldOff(q, polled(q, t, locked, FALSE), t, locked)
<1>. DEFINE r == polled(q, t, locked, FALSE)
<1>1. r \in Pid
  BY PolledType
<1>2. CASE q.held
  <2>1. r = [[q EXCEPT !.servo_since_ns = t,
                       !.count_at_servo = q.unlock_count,
                       !.unlocked_ns_at_servo = q.unlocked_ns,
                       !.longest_since_servo_ns = 0]
               EXCEPT !.raw_locked = locked, !.held = FALSE]
    BY <1>2, Zenon DEF polled, mode_edge, servo_on, servo_off
  <2>. HIDE DEF r
  <2>2. /\ ~r.held /\ r.raw_locked = locked
        /\ r.drop_open = q.drop_open
        /\ r.servo_since_ns = t /\ r.count_at_servo = q.unlock_count
        /\ r.longest_since_servo_ns = 0
        /\ r.unlock_count = q.unlock_count
        /\ r.last_unlock_start_ns = q.last_unlock_start_ns
        /\ r.streak_since_ns = q.streak_since_ns
        /\ r.unlocked_ns = q.unlocked_ns /\ r.drop_base_ns = q.drop_base_ns
        /\ r.event_head = q.event_head /\ r.events = q.events
    BY <2>1 DEF Pid
  <2>3. HoldOff(q, r, t, locked)
    BY <1>1, <1>2, <2>2, Zenon DEF HoldOff, Keeps, servo, base, longest
  <2>. QED
    BY <2>3 DEF r
<1>3. CASE ~q.held
  <2>1. r = [q EXCEPT !.raw_locked = locked, !.held = FALSE]
    BY <1>3, ModeEdgeFields DEF polled
  <2>. HIDE DEF r
  <2>2. /\ ~r.held /\ r.raw_locked = locked
        /\ r.drop_open = q.drop_open
        /\ r.servo_since_ns = q.servo_since_ns
        /\ r.count_at_servo = q.count_at_servo
        /\ r.longest_since_servo_ns = q.longest_since_servo_ns
        /\ r.unlock_count = q.unlock_count
        /\ r.last_unlock_start_ns = q.last_unlock_start_ns
        /\ r.streak_since_ns = q.streak_since_ns
        /\ r.unlocked_ns = q.unlocked_ns /\ r.drop_base_ns = q.drop_base_ns
        /\ r.event_head = q.event_head /\ r.events = q.events
    BY <2>1 DEF Pid
  <2>3. HoldOff(q, r, t, locked)
    BY <1>1, <1>3, <2>2, Zenon DEF HoldOff, Keeps, servo, base, longest
  <2>. QED
    BY <2>3 DEF r
<1>. QED
  BY <1>2, <1>3

LEMMA SetLockedFields ==
  ASSUME NEW q \in Pid, NEW t \in Nat, NEW locked \in BOOLEAN
  PROVE  /\ SameDrop(q, set_locked(q, t, locked))
         /\ set_locked(q, t, locked).unlocked_ns = q.unlocked_ns
  BY DEF SameDrop, Same, Keeps, set_locked, Pid

LEMMA OpenFields ==
  ASSUME NEW q \in Pid, NEW t \in Nat
  PROVE  Opened(q, open_drop(q, t), t)
  BY DEF Opened, Same, Keeps, open_drop, Pid

LEMMA LiveFields ==
  ASSUME NEW q \in Pid, NEW t \in Nat, NEW s \in Nat, NEW edges \in Nat
  PROVE  Live(q, live_total([q EXCEPT !.streak_since_ns = s,
                                      !.raw_unlock_edges = edges], t), s)
  BY DEF Live, SameDrop, Same, Keeps, live_total, Pid

LEMMA ClosePushes ==
  ASSUME NEW q \in Pid, NEW e \in Nat
  PROVE  Pushes(q, close_drop(q, e), e)
<1>1. /\ close_drop(q, e).event_head = q.event_head + 1
      /\ close_drop(q, e).unlocked_ns = q.drop_base_ns + (e - q.last_unlock_start_ns)
  BY DEF close_drop, Pid
<1>2. close_drop(q, e).events = [q.events EXCEPT ![q.event_head % EVENTS] =
                     [index |-> q.event_head + 1,
                      start_ns |-> q.last_unlock_start_ns,
                      duration_ns |-> e - q.last_unlock_start_ns]]
  BY DEF close_drop, Pid
<1>. QED
  BY <1>1, <1>2, Zenon DEF Pushes

LEMMA CloseFields ==
  ASSUME NEW q \in Pid, NEW s \in Nat
  PROVE  Closed(q, close_drop([q EXCEPT !.streak_since_ns = s], s), s)
<1>. DEFINE m == [q EXCEPT !.streak_since_ns = s]
            r == close_drop(m, s)
<1>1. /\ Same(q, r) /\ ~r.drop_open /\ r.unlock_count = q.unlock_count
  BY DEF Same, close_drop, Pid
<1>2. r.longest_since_servo_ns =
          IF s - q.last_unlock_start_ns > q.longest_since_servo_ns
          THEN s - q.last_unlock_start_ns ELSE q.longest_since_servo_ns
  BY DEF close_drop, Pid
<1>3. Pushes(q, r, s)
  <2>1. /\ r.event_head = m.event_head + 1
        /\ r.events = [m.events EXCEPT ![m.event_head % EVENTS] =
                         [index |-> m.event_head + 1,
                          start_ns |-> m.last_unlock_start_ns,
                          duration_ns |-> s - m.last_unlock_start_ns]]
        /\ r.unlocked_ns = m.drop_base_ns + (s - m.last_unlock_start_ns)
    <3>1. m \in Pid
      BY DEF Pid
    <3>. HIDE DEF m
    <3>. QED
      BY <3>1, ClosePushes, Zenon DEF Pushes
  <2>2. /\ m.event_head = q.event_head /\ m.events = q.events
        /\ m.last_unlock_start_ns = q.last_unlock_start_ns
        /\ m.drop_base_ns = q.drop_base_ns
    BY DEF Pid
  <2>. HIDE DEF m, r
  <2>. QED
    BY <2>1, <2>2, Zenon DEF Pushes
<1>. QED
  BY <1>1, <1>2, <1>3 DEF Closed

LEMMA HeldEffect ==
  ASSUME NEW q \in Pid, NEW t \in Nat, NEW locked \in BOOLEAN, Core(q, t)
  PROVE  TurnsOff(q, poll_held(polled(q, t, locked, TRUE), t, locked), t)
<1>. DEFINE m == polled(q, t, locked, TRUE)
            r == poll_held(m, t, locked)
<1>1. m \in Pid /\ ~m.drop_open /\ m.held
  BY PolledHeld
<1>2. EndsOpen(q, m, t)
  <2>. DEFINE e == mode_edge(q, t, TRUE)
  <2>1. e \in Pid
    BY ModeEdgeType DEF Core
  <2>2. e \in Pid => /\ m.unlock_count = e.unlock_count
                     /\ m.event_head = e.event_head /\ m.events = e.events
                     /\ m.unlocked_ns = e.unlocked_ns
    <3>. HIDE DEF e
    <3>. QED
      BY DEF polled, e, Pid
  <2>3. CASE q.held
    <3>1. e = q
      BY <2>3, Zenon DEF mode_edge
    <3>2. ~q.drop_open
      BY <2>3, Zenon DEF Core, OpenCore
    <3>. QED
      BY <2>1, <2>2, <3>1, <3>2, Zenon DEF EndsOpen, Keeps
  <2>4. CASE ~q.held
    <3>. DEFINE c == IF q.drop_open THEN close_drop(q, t) ELSE q
    <3>1. e = [c EXCEPT !.servo_since_ns = 0]
      BY <2>4, ModeEdgeFields
    <3>2. c \in Pid /\ EndsOpen(q, c, t)
      <4>1. q.last_unlock_start_ns <= t
        BY DEF Core
      <4>2. /\ close_drop(q, t) \in Pid
            /\ close_drop(q, t).unlock_count = q.unlock_count
            /\ Pushes(q, close_drop(q, t), t)
        BY <4>1, CloseDropType, CloseDropFields, ClosePushes
      <4>3. CASE q.drop_open
        BY <4>2, <4>3, Zenon DEF EndsOpen
      <4>4. CASE ~q.drop_open
        BY <4>4, Zenon DEF EndsOpen, Keeps
      <4>. QED
        BY <4>3, <4>4
    <3>. HIDE DEF c, e
    <3>3. /\ e.unlock_count = c.unlock_count
          /\ e.event_head = c.event_head /\ e.events = c.events
          /\ e.unlocked_ns = c.unlocked_ns
      BY <3>1, <3>2 DEF Pid
    <3>. HIDE DEF m
    <3>. QED
      BY <2>1, <2>2, <3>2, <3>3, Zenon DEF EndsOpen, Keeps, Pushes
  <2>. QED
    BY <2>3, <2>4
<1>. HIDE DEF m
<1>3. /\ r.held = m.held /\ r.drop_open = m.drop_open
      /\ r.unlock_count = m.unlock_count /\ r.unlocked_ns = m.unlocked_ns
      /\ r.event_head = m.event_head /\ r.events = m.events
  <2>1. r = m \/ r = set_locked(m, t, locked)
    BY Zenon DEF poll_held
  <2>2. /\ SameDrop(m, set_locked(m, t, locked))
        /\ set_locked(m, t, locked).unlocked_ns = m.unlocked_ns
    BY <1>1, SetLockedFields
  <2>. HIDE DEF r
  <2>. QED
    BY <2>1, <2>2, Zenon DEF SameDrop, Same, Keeps
<1>. HIDE DEF r
<1>4. EndsOpen(q, r, t)
  BY <1>2, <1>3, Zenon DEF EndsOpen, Keeps, Pushes
<1>. QED
  BY <1>1, <1>3, <1>4, Zenon DEF TurnsOff, r, m

LEMMA ClosedEffect ==
  ASSUME NEW q \in Pid, NEW t \in Nat, NEW locked \in BOOLEAN, NEW r,
         q.last_unlock_start_ns <= t,
         ~polled(q, t, locked, FALSE).drop_open,
         r = poll_closed(polled(q, t, locked, FALSE), t, q.raw_locked, locked, counting(t))
  PROVE  Polled(q, r, t) /\ ~r.held /\ r.raw_locked = locked
<1>. DEFINE m == polled(q, t, locked, FALSE)
<1>1. /\ m \in Pid /\ ~m.held /\ m.raw_locked = locked
      /\ m.drop_open = q.drop_open
      /\ m.servo_since_ns = servo(q, t) /\ m.count_at_servo = base(q)
      /\ m.longest_since_servo_ns = longest(q)
      /\ m.unlock_count = q.unlock_count
      /\ m.unlocked_ns = q.unlocked_ns /\ m.drop_base_ns = q.drop_base_ns
      /\ Keeps(q, m)
  <2>1. HoldOff(q, m, t, locked)
    BY PolledFields
  <2>. QED
    BY <2>1 DEF HoldOff
<1>2. ~m.drop_open /\ r = poll_closed(m, t, q.raw_locked, locked, counting(t))
  OBVIOUS
<1>. HIDE DEF m
<1>3. q.raw_locked \in BOOLEAN
  BY PidFields DEF Fields
<1>4. CASE q.raw_locked /\ ~locked /\ counting(t)
  <2>1. r = open_drop(m, t)
    BY <1>2, <1>4, Zenon DEF poll_closed
  <2>2. Opened(m, open_drop(m, t), t)
    BY <1>1, OpenFields
  <2>3. Opened(m, r, t)
    BY <2>1, <2>2
  <2>. QED
    BY <1>1, <1>2, <1>4, <2>3, Zenon DEF Polled, Opens, Falls, Opened, Same, Keeps
<1>5. CASE ~(q.raw_locked /\ ~locked /\ counting(t))
  <2>1. \/ r = m
        \/ \E l \in BOOLEAN : r = set_locked(m, t, l)
    <3>1. r = CASE q.raw_locked /\ ~locked /\ counting(t) -> open_drop(m, t)
                [] q.raw_locked /\ ~locked /\ ~counting(t) -> set_locked(m, t, FALSE)
                [] ~q.raw_locked /\ locked -> set_locked(m, t, TRUE)
                [] OTHER -> m
      BY <1>2 DEF poll_closed
    <3>. QED
      BY <3>1, <1>5, Zenon
  <2>2. SameDrop(m, r) /\ r.unlocked_ns = m.unlocked_ns
    <3>1. \A l \in BOOLEAN : /\ SameDrop(m, set_locked(m, t, l))
                             /\ set_locked(m, t, l).unlocked_ns = m.unlocked_ns
      BY <1>1, SetLockedFields
    <3>2. SameDrop(m, m)
      BY DEF SameDrop, Same, Keeps
    <3>. QED
      BY <2>1, <3>1, <3>2, Zenon
  <2>. QED
    BY <1>1, <1>2, <1>5, <2>2, Zenon DEF Polled, Rests, Falls, SameDrop, Same, Keeps
<1>. QED
  BY <1>4, <1>5

LEMMA OpenLockedEffect ==
  ASSUME NEW q \in Pid, NEW t \in Nat \ {0}, NEW r, Core(q, t),
         q.raw_locked => q.streak_since_ns # 0, q.drop_open,
         r = poll_open_locked(polled(q, t, TRUE, FALSE), t, q.raw_locked)
  PROVE  Polled(q, r, t) /\ ~r.held /\ r.raw_locked
<1>. DEFINE m == polled(q, t, TRUE, FALSE)
            s == streak(q, t)
<1>1. q.last_unlock_start_ns <= t /\ TRUE \in BOOLEAN /\ t \in Nat
  BY DEF Core
<1>2. /\ m \in Pid /\ ~m.held /\ m.raw_locked = TRUE
      /\ m.drop_open = q.drop_open
      /\ m.servo_since_ns = servo(q, t) /\ m.count_at_servo = base(q)
      /\ m.longest_since_servo_ns = longest(q)
      /\ m.unlock_count = q.unlock_count
      /\ m.last_unlock_start_ns = q.last_unlock_start_ns
      /\ m.streak_since_ns = q.streak_since_ns
      /\ m.drop_base_ns = q.drop_base_ns /\ Keeps(q, m)
  <2>1. HoldOff(q, m, t, TRUE)
    BY <1>1, PolledFields
  <2>. QED
    BY <2>1 DEF HoldOff
<1>3. r = poll_open_locked(m, t, q.raw_locked)
  OBVIOUS
<1>. HIDE DEF m
<1>4. Fields(q) /\ Fields(m)
  BY <1>2, PidFields
<1>5. s \in Nat /\ s # 0
  BY <1>4, Zenon DEF streak, Fields
<1>. DEFINE n == [m EXCEPT !.streak_since_ns = s]
<1>6. r = IF n.streak_since_ns # 0 /\ t - n.streak_since_ns >= MergeNs
          THEN close_drop(n, n.streak_since_ns) ELSE live_total(n, t)
  BY <1>2, <1>3 DEF poll_open_locked, streak
<1>. HIDE DEF s
<1>7. n.streak_since_ns = s
  BY <1>2 DEF Pid
<1>8. CASE t - s >= MergeNs
  <2>1. r = close_drop(n, s)
    BY <1>5, <1>6, <1>7, <1>8, Zenon
  <2>2. Closed(m, close_drop(n, s), s)
    BY <1>2, <1>5, CloseFields
  <2>. HIDE DEF n
  <2>3. Closed(m, r, s)
    BY <2>1, <2>2
  <2>. QED
    BY <1>2, <1>8, <2>3, Zenon DEF Polled, Closes, s, Closed, Same, Keeps, Pushes
<1>9. CASE ~(t - s >= MergeNs)
  <2>1. r = live_total(n, t)
    BY <1>6, <1>7, <1>9, Zenon
  <2>2. n = [m EXCEPT !.streak_since_ns = s, !.raw_unlock_edges = m.raw_unlock_edges]
    BY <1>2 DEF Pid
  <2>3. m.raw_unlock_edges \in Nat
    BY <1>4 DEF Fields
  <2>. HIDE DEF n
  <2>4. Live(m, live_total([m EXCEPT !.streak_since_ns = s,
                                     !.raw_unlock_edges = m.raw_unlock_edges], t), s)
    BY <2>3, <1>1, <1>2, <1>5, LiveFields
  <2>5. Live(m, r, s)
    BY <2>1, <2>2, <2>4
  <2>. QED
    BY <1>2, <1>9, <2>5, Zenon DEF Polled, StaysOpen, s, Live, SameDrop, Same, Keeps
<1>. QED
  BY <1>8, <1>9

LEMMA OpenUnlockedEffect ==
  ASSUME NEW q \in Pid, NEW t \in Nat, NEW r, Core(q, t), q.drop_open,
         r = poll_open_unlocked(polled(q, t, FALSE, FALSE), t, q.raw_locked)
  PROVE  Polled(q, r, t) /\ ~r.held /\ ~r.raw_locked
<1>. DEFINE m == polled(q, t, FALSE, FALSE)
            edges == IF q.raw_locked THEN m.raw_unlock_edges + 1 ELSE m.raw_unlock_edges
<1>1. q.last_unlock_start_ns <= t /\ FALSE \in BOOLEAN
  BY DEF Core
<1>2. /\ m \in Pid /\ ~m.held /\ m.raw_locked = FALSE
      /\ m.drop_open = q.drop_open
      /\ m.servo_since_ns = servo(q, t) /\ m.count_at_servo = base(q)
      /\ m.longest_since_servo_ns = longest(q)
      /\ m.unlock_count = q.unlock_count
      /\ m.last_unlock_start_ns = q.last_unlock_start_ns
      /\ m.drop_base_ns = q.drop_base_ns /\ Keeps(q, m)
  <2>1. HoldOff(q, m, t, FALSE)
    BY <1>1, PolledFields
  <2>. QED
    BY <2>1 DEF HoldOff
<1>3. r = live_total([m EXCEPT !.streak_since_ns = 0, !.raw_unlock_edges = edges], t)
  BY DEF poll_open_unlocked
<1>. HIDE DEF m
<1>4. edges \in Nat /\ 0 \in Nat
  BY <1>2, PidFields DEF Fields
<1>. HIDE DEF edges
<1>5. Live(m, r, 0)
  <2>1. Live(m, live_total([m EXCEPT !.streak_since_ns = 0,
                                     !.raw_unlock_edges = edges], t), 0)
    BY <1>2, <1>4, LiveFields
  <2>. QED
    BY <1>3, <2>1
<1>. QED
  BY <1>2, <1>5, Zenon DEF Polled, StaysOpen, Live, SameDrop, Same, Keeps

(* Every poll is one of these. *)
LEMMA PollEffect ==
  ASSUME Inv, Poll
  PROVE  /\ now' \in Nat \ {0} /\ now < now'
         /\ Polled(p, p', now')
         /\ p'.raw_locked \in BOOLEAN /\ p'.held \in BOOLEAN /\ p'.drop_open \in BOOLEAN
<1>1. PICK gap \in Gaps : /\ now' = now + gap
                          /\ \/ PollHeld(now + gap)
                             \/ PollClosed(now + gap)
                             \/ PollOpenLocked(now + gap)
                             \/ PollOpenUnlocked(now + gap)
  BY DEF Poll
<1>2. now \in Nat /\ now + gap \in Nat \ {0} /\ now < now + gap
  BY GapsAssumption DEF Inv, TypeOK
<1>. SUFFICES Polled(p, p', now') /\ now' \in Nat \ {0} /\ now < now'
  <2>1. p' \in Pid
    BY PollInv DEF Inv, TypeOK
  <2>2. p'.raw_locked \in BOOLEAN /\ p'.held \in BOOLEAN /\ p'.drop_open \in BOOLEAN
    BY <2>1, PidFields DEF Fields
  <2>. QED
    BY <2>2
<1>. DEFINE t == now'
<1>3. t \in Nat \ {0} /\ now < t /\ now \in Nat
  BY <1>1, <1>2
<1>4. PollHeld(t) \/ PollClosed(t) \/ PollOpenLocked(t) \/ PollOpenUnlocked(t)
  BY <1>1
<1>5. p \in Pid /\ Core(p, t) /\ Flags(p, now) /\ t \in Nat
  <2>1. p \in Pid /\ Core(p, now) /\ Flags(p, now)
    BY DEF Inv, TypeOK
  <2>2. now <= t
    BY <1>3
  <2>3. Core(p, t)
    BY <2>1, <2>2, <1>3, CoreLater
  <2>. QED
    BY <2>1, <2>3, <1>3
<1>6. p.last_unlock_start_ns <= t
  BY <1>5 DEF Core
<1>. SUFFICES Polled(p, p', t)
  BY <1>3
<1>. HIDE DEF t
<1>7. CASE PollHeld(t)
  BY <1>5, <1>7, HeldEffect DEF PollHeld, Polled
<1>8. CASE PollClosed(t)
  <2>1. PICK locked \in BOOLEAN :
             /\ ~polled(p, t, locked, FALSE).drop_open
             /\ p' = poll_closed(polled(p, t, locked, FALSE), t, p.raw_locked, locked, counting(t))
    BY <1>8 DEF PollClosed
  <2>. QED
    BY <2>1, <1>5, <1>6, ClosedEffect
<1>9. CASE PollOpenLocked(t)
  <2>1. /\ polled(p, t, TRUE, FALSE).drop_open
        /\ p' = poll_open_locked(polled(p, t, TRUE, FALSE), t, p.raw_locked)
    BY <1>9 DEF PollOpenLocked
  <2>2. p.drop_open
    <3>1. TRUE \in BOOLEAN
      OBVIOUS
    <3>2. HoldOff(p, polled(p, t, TRUE, FALSE), t, TRUE)
      BY <3>1, <1>5, <1>6, PolledFields
    <3>. QED
      BY <2>1, <3>2, Zenon DEF HoldOff
  <2>3. p.raw_locked => p.streak_since_ns # 0
    BY <2>2, <1>5, Zenon DEF Flags
  <2>. QED
    BY <2>1, <2>2, <2>3, <1>3, <1>5, OpenLockedEffect
<1>10. CASE PollOpenUnlocked(t)
  <2>1. /\ polled(p, t, FALSE, FALSE).drop_open
        /\ p' = poll_open_unlocked(polled(p, t, FALSE, FALSE), t, p.raw_locked)
    BY <1>10 DEF PollOpenUnlocked
  <2>2. p.drop_open
    <3>1. FALSE \in BOOLEAN
      OBVIOUS
    <3>2. HoldOff(p, polled(p, t, FALSE, FALSE), t, FALSE)
      BY <3>1, <1>5, <1>6, PolledFields
    <3>. QED
      BY <2>1, <3>2, Zenon DEF HoldOff
  <2>. QED
    BY <2>1, <2>2, <1>5, OpenUnlockedEffect
<1>. QED
  BY <1>4, <1>7, <1>8, <1>9, <1>10, Zenon

-----------------------------------------------------------------------------
(***************************************************************************)
(* The history.                                                            *)
(***************************************************************************)
Samples == [t : Nat, locked : BOOLEAN, held : BOOLEAN]

(* One more sample. *)
Grows(n, x) ==
    /\ n \in Nat \ {0} /\ Len(samples) = n /\ Len(samples') = n + 1
    /\ x \in Samples /\ samples'[n + 1] = x
    /\ \A i \in 1 .. n : samples[i] \in Samples /\ samples'[i] = samples[i]

(* Sample k is the first of the locked stretch that sample i is in.        *)
IsStart(k, i) ==
    /\ k \in 1 .. i
    /\ \A j \in k .. i : samples[j].locked
    /\ k = 1 \/ ~samples[k - 1].locked

StartIsChosen == \A i \in Nat : \A k : IsStart(k, i) => StretchStart(i) = k

LEMMA StartChosen == StartIsChosen
<1>. SUFFICES ASSUME NEW i \in Nat, NEW k, IsStart(k, i)
              PROVE  StretchStart(i) = k
  BY DEF StartIsChosen
<1>. DEFINE m == StretchStart(i)
<1>1. \E j \in 1 .. i : /\ \A l \in j .. i : samples[l].locked
                        /\ j = 1 \/ ~samples[j - 1].locked
  BY Zenon DEF IsStart
<1>2. IsStart(m, i)
  BY <1>1, Zenon DEF IsStart, StretchStart
<1>. HIDE DEF m
<1>3. k \in 1 .. i /\ m \in 1 .. i
  BY <1>2 DEF IsStart
<1>4. ~(k < m)
  <2>. SUFFICES ASSUME k < m PROVE FALSE
    OBVIOUS
  <2>1. m # 1 /\ m - 1 \in k .. i
    BY <1>3, SMT
  <2>. QED
    BY <1>2, <2>1, Zenon DEF IsStart
<1>5. ~(m < k)
  <2>. SUFFICES ASSUME m < k PROVE FALSE
    OBVIOUS
  <2>1. k # 1 /\ k - 1 \in m .. i
    BY <1>3, SMT
  <2>. QED
    BY <1>2, <2>1, Zenon DEF IsStart
<1>6. m = k
  BY <1>3, <1>4, <1>5, SMT
<1>. QED
  BY <1>6 DEF m

(* Every locked sample is in a stretch. *)
Stretches ==
    \A i \in 1 .. Len(samples) : samples[i].locked => \E k : IsStart(k, i)

LEMMA StretchHasStart ==
  ASSUME Stretches, NEW i \in 1 .. Len(samples), samples[i].locked
  PROVE  /\ StretchStart(i) \in 1 .. i
         /\ IsStart(StretchStart(i), i)
<1>1. PICK k : IsStart(k, i)
  BY DEF Stretches
<1>2. StretchStart(i) = k
  <2>1. i \in Nat
    OBVIOUS
  <2>. QED
    BY <1>1, <2>1, StartChosen, Zenon DEF StartIsChosen
<1>. QED
  BY <1>1, <1>2 DEF IsStart

LEMMA OldStart ==
  ASSUME NEW n, NEW x, Grows(n, x), NEW i \in 1 .. n, NEW k
  PROVE  IsStart(k, i)' <=> IsStart(k, i)
<1>1. n \in Nat /\ \A j \in 1 .. n : samples'[j] = samples[j]
  BY DEF Grows
<1>2. CASE k \notin 1 .. i
  BY <1>2, Zenon DEF IsStart
<1>3. CASE k \in 1 .. i
  <2>1. \A j \in k .. i : samples'[j] = samples[j]
    <3>1. \A j \in k .. i : j \in 1 .. n
      BY <1>1, <1>3, SMT
    <3>. QED
      BY <3>1, <1>1, Zenon
  <2>2. k # 1 => samples'[k - 1] = samples[k - 1]
    <3>1. k # 1 => k - 1 \in 1 .. n
      BY <1>1, <1>3, SMT
    <3>. QED
      BY <3>1, <1>1, Zenon
  <2>. QED
    BY <2>1, <2>2, Zenon DEF IsStart
<1>. QED
  BY <1>2, <1>3

(* The stretch of the new sample goes on from that of the last one.        *)
LEMMA StretchesGrow ==
  ASSUME NEW n, NEW x, Grows(n, x), Stretches
  PROVE  /\ Stretches'
         /\ \A i \in 1 .. n : samples[i].locked =>
               StretchStart(i)' = StretchStart(i) /\ StretchStart(i) \in 1 .. i
         /\ x.locked => (StretchStart(n + 1))' =
               IF samples[n].locked THEN StretchStart(n) ELSE n + 1
<1>1. /\ n \in Nat \ {0} /\ Len(samples) = n /\ Len(samples') = n + 1
      /\ samples'[n + 1] = x
      /\ \A i \in 1 .. n : samples'[i] = samples[i]
  BY DEF Grows
<1>2. n \in 1 .. n /\ n + 1 \in Nat /\ \A i \in 1 .. n : i \in Nat
  BY <1>1, SMT
<1>3. StartIsChosen'
  BY StartChosen, PTL
<1>4. ASSUME NEW i \in 1 .. n, samples[i].locked
      PROVE  \E m : /\ m \in 1 .. i /\ IsStart(m, i) /\ IsStart(m, i)'
                    /\ StretchStart(i) = m /\ StretchStart(i)' = m
  <2>1. PICK m : m = StretchStart(i)
    OBVIOUS
  <2>2. IsStart(m, i) /\ m \in 1 .. i
    BY <1>1, <1>4, <2>1, StretchHasStart
  <2>3. IsStart(m, i)'
    BY <2>2, OldStart
  <2>4. StretchStart(i)' = m
    BY <1>2, <1>3, <2>3, Zenon DEF StartIsChosen
  <2>. QED
    BY <2>1, <2>2, <2>3, <2>4
<1>5. \A i \in 1 .. n : samples[i].locked =>
               StretchStart(i)' = StretchStart(i) /\ StretchStart(i) \in 1 .. i
  BY <1>4
<1>6. ASSUME x.locked
      PROVE  \E m : /\ IsStart(m, n + 1)'
                    /\ m = IF samples[n].locked THEN StretchStart(n) ELSE n + 1
  <2>1. CASE ~samples[n].locked
    <3>1. ~samples'[n].locked /\ samples'[n + 1].locked
      BY <2>1, <1>1, <1>2, <1>6
    <3>2. /\ n + 1 \in 1 .. n + 1 /\ (n + 1) - 1 = n
          /\ \A j \in n + 1 .. n + 1 : j = n + 1
      BY <1>1, SMT
    <3>3. IsStart(n + 1, n + 1)'
      BY <3>1, <3>2, Zenon DEF IsStart
    <3>. QED
      BY <2>1, <3>3, Zenon
  <2>2. CASE samples[n].locked
    <3>1. PICK m : m \in 1 .. n /\ IsStart(m, n)' /\ StretchStart(n) = m
      BY <1>2, <1>4, <2>2
    <3>2. samples'[n + 1].locked
      BY <1>1, <1>6
    <3>3. /\ m \in 1 .. n + 1
          /\ \A j \in m .. n + 1 : j = n + 1 \/ j \in m .. n
      BY <1>1, <3>1, SMT
    <3>4. IsStart(m, n + 1)'
      BY <3>1, <3>2, <3>3, Zenon DEF IsStart
    <3>. QED
      BY <2>2, <3>1, <3>4, Zenon
  <2>. QED
    BY <2>1, <2>2
<1>7. x.locked => (StretchStart(n + 1))' =
               IF samples[n].locked THEN StretchStart(n) ELSE n + 1
  BY <1>2, <1>3, <1>6, Zenon DEF StartIsChosen
<1>8. Stretches'
  <2>1. SUFFICES ASSUME NEW i \in 1 .. n + 1, samples'[i].locked
                 PROVE  \E m : IsStart(m, i)'
    BY <1>1, Zenon DEF Stretches
  <2>2. CASE i \in 1 .. n
    BY <1>1, <1>4, <2>1, <2>2
  <2>3. CASE i \notin 1 .. n
    <3>1. i = n + 1
      BY <1>1, <2>3, SMT
    <3>. QED
      BY <1>1, <1>6, <2>1, <3>1
  <2>. QED
    BY <2>2, <2>3
<1>. QED
  BY <1>5, <1>7, <1>8

(* What is settled or a counted fall stays so.                             *)
LEMMA OldSamples ==
  ASSUME NEW n, NEW x, Grows(n, x), Stretches, NEW i \in 1 .. n
  PROVE  /\ Settled(i)' <=> Settled(i)
         /\ CountedFall(i)' <=> CountedFall(i)
         /\ InDrop(i)' <=> InDrop(i)
<1>1. /\ n \in Nat \ {0} /\ \A j \in 1 .. n : samples'[j] = samples[j]
  BY DEF Grows
<1>2. ASSUME NEW j \in 1 .. n
      PROVE  /\ Settled(j)' <=> Settled(j)
             /\ CountedFall(j)' <=> CountedFall(j)
  <2>1. samples'[j] = samples[j] /\ samples'[1] = samples[1]
    <3>1. 1 \in 1 .. n
      BY <1>1, SMT
    <3>. QED
      BY <1>1, <3>1
  <2>2. CountedFall(j)' <=> CountedFall(j)
    <3>1. j > 1 => samples'[j - 1] = samples[j - 1]
      <4>1. j > 1 => j - 1 \in 1 .. n
        BY <1>1, SMT
      <4>. QED
        BY <1>1, <4>1
    <3>. QED
      BY <2>1, <3>1, Zenon DEF CountedFall
  <2>3. CASE samples[j].locked
    <3>1. PICK k : k = StretchStart(j)
      OBVIOUS
    <3>2. StretchStart(j)' = k /\ k \in 1 .. j
      BY <2>3, <3>1, StretchesGrow
    <3>3. samples'[k] = samples[k]
      <4>1. k \in 1 .. n
        BY <1>1, <3>2, SMT
      <4>. QED
        BY <1>1, <4>1
    <3>4. Settled(j)' <=> Settled(j)
      BY <2>1, <3>1, <3>2, <3>3, Zenon DEF Settled
    <3>. QED
      BY <2>2, <3>4
  <2>4. CASE ~samples[j].locked
    <3>1. Settled(j)' <=> Settled(j)
      BY <2>1, <2>4, Zenon DEF Settled
    <3>. QED
      BY <2>2, <3>1
  <2>. QED
    BY <2>3, <2>4
<1>3. InDrop(i)' <=> InDrop(i)
  <2>1. /\ \A s \in 1 .. i : s \in 1 .. n
        /\ \A s \in 1 .. i : \A j \in s .. i : j \in 1 .. n
    BY <1>1, SMT
  <2>2. \A s \in 1 .. i : /\ CountedFall(s)' <=> CountedFall(s)
                          /\ \A j \in s .. i : Settled(j)' <=> Settled(j)
    BY <1>2, <2>1
  <2>. QED
    BY <2>2, Zenon DEF InDrop
<1>. QED
  BY <1>2, <1>3

(* What the new sample is. *)
LEMMA NewSample ==
  ASSUME NEW n, NEW x, Grows(n, x), Stretches,
         NEW b, b = IF samples[n].locked THEN samples[StretchStart(n)].t ELSE x.t
  PROVE  /\ (Settled(n + 1))' <=> x.held \/ (x.locked /\ x.t - b >= MergeNs)
         /\ (CountedFall(n + 1))' <=>
               samples[n].locked /\ ~x.locked /\ ~x.held /\ x.t - samples[1].t >= GraceNs
         /\ (InDrop(n + 1))' <=>
               ~(Settled(n + 1))' /\ (InDrop(n) \/ (CountedFall(n + 1))')
<1>1. /\ n \in Nat \ {0} /\ samples'[n + 1] = x
      /\ \A j \in 1 .. n : samples'[j] = samples[j]
  BY DEF Grows
<1>2. /\ n \in 1 .. n /\ 1 \in 1 .. n /\ (n + 1) - 1 = n /\ n + 1 > 1
      /\ n + 1 \in 1 .. n + 1
  BY <1>1, SMT
<1>3. (CountedFall(n + 1))' <=>
        samples[n].locked /\ ~x.locked /\ ~x.held /\ x.t - samples[1].t >= GraceNs
  <2>1. samples'[n] = samples[n] /\ samples'[1] = samples[1]
    BY <1>1, <1>2
  <2>. QED
    BY <1>1, <1>2, <2>1, Zenon DEF CountedFall
<1>4. (Settled(n + 1))' <=> x.held \/ (x.locked /\ x.t - b >= MergeNs)
  <2>1. x.locked => (samples[StretchStart(n + 1)].t)' = b
    <3>1. SUFFICES ASSUME x.locked PROVE (samples[StretchStart(n + 1)].t)' = b
      OBVIOUS
    <3>2. CASE samples[n].locked
      <4>1. PICK k : k = StretchStart(n)
        OBVIOUS
      <4>2. (StretchStart(n + 1))' = k /\ k \in 1 .. n
        BY <1>2, <3>1, <3>2, <4>1, StretchesGrow
      <4>. QED
        BY <1>1, <3>2, <4>1, <4>2
    <3>3. CASE ~samples[n].locked
      <4>1. (StretchStart(n + 1))' = n + 1
        BY <3>1, <3>3, StretchesGrow
      <4>. QED
        BY <1>1, <3>3, <4>1
    <3>. QED
      BY <3>2, <3>3
  <2>. QED
    BY <1>1, <2>1, Zenon DEF Settled
<1>5. (InDrop(n + 1))' <=>
        ~(Settled(n + 1))' /\ (InDrop(n) \/ (CountedFall(n + 1))')
  <2>1. /\ \A s \in 1 .. n : s \in 1 .. n + 1 /\ n + 1 \in s .. n + 1
        /\ \A s \in 1 .. n : \A j \in s .. n : j \in s .. n + 1 /\ j \in 1 .. n
        /\ \A s \in 1 .. n : \A j \in s .. n + 1 : j \in s .. n \/ j = n + 1
        /\ \A s \in 1 .. n + 1 : s \in 1 .. n \/ s = n + 1
        /\ n + 1 \in n + 1 .. n + 1 /\ \A j \in n + 1 .. n + 1 : j = n + 1
    BY <1>1, SMT
  <2>2. \A j \in 1 .. n : /\ CountedFall(j)' <=> CountedFall(j)
                          /\ Settled(j)' <=> Settled(j)
    BY OldSamples
  <2>3. ASSUME (InDrop(n + 1))'
        PROVE  ~(Settled(n + 1))' /\ (InDrop(n) \/ (CountedFall(n + 1))')
    <3>1. PICK s \in 1 .. n + 1 : CountedFall(s)' /\ \A j \in s .. n + 1 : ~Settled(j)'
      BY <2>3, Zenon DEF InDrop
    <3>2. CASE s \in 1 .. n
      BY <2>1, <2>2, <3>1, <3>2, Zenon DEF InDrop
    <3>3. CASE s = n + 1
      BY <2>1, <3>1, <3>3, Zenon
    <3>. QED
      BY <2>1, <3>2, <3>3, Zenon
  <2>4. ASSUME ~(Settled(n + 1))', InDrop(n)
        PROVE  (InDrop(n + 1))'
    <3>1. PICK s \in 1 .. n : CountedFall(s) /\ \A j \in s .. n : ~Settled(j)
      BY <2>4, Zenon DEF InDrop
    <3>2. CountedFall(s)' /\ \A j \in s .. n + 1 : ~Settled(j)'
      BY <2>1, <2>2, <2>4, <3>1, Zenon
    <3>. QED
      BY <2>1, <3>2, Zenon DEF InDrop
  <2>5. ASSUME ~(Settled(n + 1))', (CountedFall(n + 1))'
        PROVE  (InDrop(n + 1))'
    BY <1>2, <2>1, <2>5, Zenon DEF InDrop
  <2>. QED
    BY <2>3, <2>4, <2>5
<1>. QED
  BY <1>3, <1>4, <1>5

-----------------------------------------------------------------------------
(***************************************************************************)
(* The drops of the history.                                               *)
(***************************************************************************)

(* Something has settled since sample s. *)
Over(s) == \E j \in s .. Len(samples) : Settled(j)

LEMMA LeastOf ==
  ASSUME NEW T, T \subseteq Nat, T # {}
  PROVE  \E m \in T : \A y \in T : m <= y
<1>1. PICK m \in T : \A y \in T : ~(<<y, m>> \in OpToRel(<, Nat))
  BY NatLessThanWellFounded, WFMin, Zenon
<1>2. ASSUME NEW y \in T PROVE m <= y
  <2>1. y \in Nat /\ m \in Nat
    OBVIOUS
  <2>2. ~(y < m)
    BY <1>1, <2>1 DEF OpToRel
  <2>. QED
    BY <2>1, <2>2, SMT
<1>. QED
  BY <1>2

LEMMA ChooseOne == ASSUME NEW e PROVE (CHOOSE x \in {e} : TRUE) = e
  OBVIOUS

(* A drop ends once, at the first sample that is settled.                  *)
EndsOnce ==
    Len(samples) \in Nat =>
    \A s \in Nat \ {0} :
       /\ Over(s) => \E e : /\ e \in s .. Len(samples) /\ Settled(e)
                            /\ \A j \in s .. e - 1 : ~Settled(j)
                            /\ Ends(s) = {e}
       /\ Ends(s) # {} => Over(s)

LEMMA DropsEndOnce == EndsOnce
<1>. SUFFICES ASSUME Len(samples) \in Nat, NEW s \in Nat \ {0}
     PROVE  /\ Over(s) => \E e : /\ e \in s .. Len(samples) /\ Settled(e)
                                 /\ \A j \in s .. e - 1 : ~Settled(j)
                                 /\ Ends(s) = {e}
            /\ Ends(s) # {} => Over(s)
  BY DEF EndsOnce
<1>1. Ends(s) # {} => Over(s)
  BY Zenon DEF Ends, Over
<1>2. ASSUME Over(s)
      PROVE  \E e : /\ e \in s .. Len(samples) /\ Settled(e)
                    /\ \A j \in s .. e - 1 : ~Settled(j)
                    /\ Ends(s) = {e}
  <2>. DEFINE T == {j \in s .. Len(samples) : Settled(j)}
  <2>1. T \subseteq Nat
    OBVIOUS
  <2>2. T # {}
    BY <1>2, Zenon DEF Over
  <2>3. PICK e \in T : \A y \in T : e <= y
    <3>. HIDE DEF T
    <3>. QED
      BY <2>1, <2>2, LeastOf
  <2>4. e \in s .. Len(samples) /\ Settled(e)
    BY <2>3, Zenon
  <2>5. \A y \in s .. Len(samples) : Settled(y) => e <= y
    BY <2>3, Zenon
  <2>. HIDE DEF T
  <2>6. ASSUME NEW j \in s .. e - 1 PROVE ~Settled(j)
    <3>1. j \in s .. Len(samples) /\ ~(e <= j)
      BY <2>4, SMT
    <3>. QED
      BY <2>5, <3>1
  <2>7. ASSUME NEW f \in Ends(s) PROVE f = e
    <3>1. f \in s .. Len(samples) /\ Settled(f) /\ \A j \in s .. f - 1 : ~Settled(j)
      BY Zenon DEF Ends
    <3>2. e <= f
      BY <2>5, <3>1
    <3>3. ~(e < f)
      <4>1. e < f => e \in s .. f - 1
        BY <2>4, <3>1, SMT
      <4>. QED
        BY <2>4, <3>1, <4>1, Zenon
    <3>. QED
      BY <2>4, <3>1, <3>2, <3>3, SMT
  <2>8. e \in Ends(s)
    BY <2>4, <2>6, Zenon DEF Ends
  <2>9. Ends(s) = {e}
    BY <2>7, <2>8, Zenon
  <2>. QED
    BY <2>4, <2>6, <2>9
<1>. QED
  BY <1>1, <1>2

(* The closed drops are those over, at every state.                        *)
ClosedOver ==
    Len(samples) \in Nat => ClosedStarts = {s \in DropStarts : Over(s)}

LEMMA ClosedAreOver == ClosedOver
<1>. SUFFICES ASSUME Len(samples) \in Nat
              PROVE  \A s \in DropStarts : Ends(s) # {} <=> Over(s)
  BY Zenon DEF ClosedOver, ClosedStarts
<1>. TAKE s \in DropStarts
<1>1. s \in 2 .. Len(samples)
  BY Zenon DEF DropStarts
<1>2. s \in Nat \ {0}
  BY <1>1, SMT
<1>. QED
  BY <1>2, DropsEndOnce, Zenon DEF EndsOnce

LEMMA OverGrows ==
  ASSUME NEW n, NEW x, Grows(n, x), Stretches
  PROVE  /\ \A s \in 1 .. n : Over(s)' <=> Over(s) \/ (Settled(n + 1))'
         /\ (Over(n + 1))' <=> (Settled(n + 1))'
<1>1. /\ n \in Nat \ {0} /\ Len(samples) = n /\ Len(samples') = n + 1
  BY DEF Grows
<1>2. \A j \in 1 .. n : Settled(j)' <=> Settled(j)
  BY OldSamples
<1>3. /\ \A s \in 1 .. n : n + 1 \in s .. n + 1
      /\ \A s \in 1 .. n : \A j \in s .. n : j \in s .. n + 1 /\ j \in 1 .. n
      /\ \A s \in 1 .. n : \A j \in s .. n + 1 : j \in s .. n \/ j = n + 1
      /\ n + 1 \in n + 1 .. n + 1 /\ \A j \in n + 1 .. n + 1 : j = n + 1
  BY <1>1, SMT
<1>4. ASSUME NEW s \in 1 .. n
      PROVE  Over(s)' <=> Over(s) \/ (Settled(n + 1))'
  BY <1>1, <1>2, <1>3, Zenon DEF Over
<1>5. (Over(n + 1))' <=> (Settled(n + 1))'
  BY <1>1, <1>3, Zenon DEF Over
<1>. QED
  BY <1>4, <1>5

(* A new drop starts at the new sample or not at all.                      *)
LEMMA DropStartsGrow ==
  ASSUME NEW n, NEW x, Grows(n, x), Stretches
  PROVE  /\ DropStarts \subseteq 2 .. n
         /\ (CountedFall(n + 1))' /\ ~InDrop(n) => DropStarts' = DropStarts \cup {n + 1}
         /\ ~((CountedFall(n + 1))' /\ ~InDrop(n)) => DropStarts' = DropStarts
<1>1. /\ n \in Nat \ {0} /\ Len(samples) = n /\ Len(samples') = n + 1
  BY DEF Grows
<1>2. \A j \in 1 .. n : /\ CountedFall(j)' <=> CountedFall(j)
                        /\ InDrop(j)' <=> InDrop(j)
  BY OldSamples
<1>3. /\ \A s \in 2 .. n : s \in 1 .. n /\ s - 1 \in 1 .. n /\ s \in 2 .. n + 1
      /\ \A s \in 2 .. n + 1 : s \in 2 .. n \/ s = n + 1
      /\ n + 1 \in 2 .. n + 1 /\ (n + 1) - 1 = n /\ n \in 1 .. n
      /\ n + 1 \notin 2 .. n
  BY <1>1, SMT
<1>4. DropStarts = {s \in 2 .. n : CountedFall(s) /\ ~InDrop(s - 1)}
  BY <1>1 DEF DropStarts
<1>5. \A s : s \in DropStarts' <=>
               s \in 2 .. n + 1 /\ CountedFall(s)' /\ ~(InDrop(s - 1))'
  BY <1>1, Zenon DEF DropStarts
<1>6. \A s : s \in DropStarts' <=>
               \/ s \in DropStarts
               \/ s = n + 1 /\ (CountedFall(n + 1))' /\ ~InDrop(n)
  <2>1. ASSUME NEW s \in 2 .. n
        PROVE  s \in DropStarts' <=> s \in DropStarts
    BY <1>2, <1>3, <1>4, <1>5, Zenon
  <2>2. n + 1 \in DropStarts' <=> (CountedFall(n + 1))' /\ ~InDrop(n)
    <3>1. (InDrop((n + 1) - 1))' <=> InDrop(n)
      BY <1>2, <1>3
    <3>. QED
      BY <1>3, <1>5, <3>1, Zenon
  <2>3. n + 1 \notin DropStarts
    BY <1>3, <1>4
  <2>4. \A s : s \in DropStarts => s \in 2 .. n
    BY <1>4
  <2>5. \A s : s \in DropStarts' => s \in 2 .. n \/ s = n + 1
    BY <1>3, <1>5
  <2>. QED
    BY <2>1, <2>2, <2>3, <2>4, <2>5, Zenon
<1>. QED
  BY <1>4, <1>6, Zenon

(* A drop that is over has its duration for good.                          *)
LEMMA OldDuration ==
  ASSUME NEW n, NEW x, Grows(n, x), Stretches, NEW s \in 1 .. n, Over(s)
  PROVE  Duration(s)' = Duration(s)
<1>1. /\ n \in Nat \ {0} /\ Len(samples) = n /\ Len(samples') = n + 1
      /\ \A j \in 1 .. n : samples'[j] = samples[j]
  BY DEF Grows
<1>2. s \in Nat \ {0} /\ n \in Nat /\ n + 1 \in Nat
  BY <1>1, SMT
<1>3. PICK e : /\ e \in s .. n /\ Settled(e)
               /\ \A j \in s .. e - 1 : ~Settled(j)
               /\ Ends(s) = {e}
  BY <1>1, <1>2, DropsEndOnce DEF EndsOnce
<1>4. Over(s)'
  BY OverGrows
<1>5. EndsOnce'
  BY DropsEndOnce, PTL
<1>6. PICK f : /\ f \in s .. n + 1 /\ Settled(f)'
               /\ \A j \in s .. f - 1 : ~Settled(j)'
               /\ Ends(s)' = {f}
  BY <1>1, <1>2, <1>4, <1>5 DEF EndsOnce
<1>7. \A j \in 1 .. n : Settled(j)' <=> Settled(j)
  BY OldSamples
<1>8. e \in 1 .. n /\ \A j \in s .. e : j \in 1 .. n
  BY <1>1, <1>3, SMT
<1>9. f = e
  <2>1. ~(f < e)
    <3>1. f < e => f \in s .. e - 1 /\ f \in 1 .. n
      BY <1>1, <1>3, <1>6, SMT
    <3>. QED
      BY <1>3, <1>6, <1>7, <3>1
  <2>2. ~(e < f)
    <3>1. e < f => e \in s .. f - 1
      BY <1>1, <1>3, <1>6, SMT
    <3>. QED
      BY <1>3, <1>6, <1>7, <1>8, <3>1
  <2>. QED
    BY <1>3, <1>6, <2>1, <2>2, SMT
<1>10. EndTime(e)' = EndTime(e)
  <2>1. samples'[e] = samples[e]
    BY <1>1, <1>8
  <2>2. CASE samples[e].held
    BY <2>1, <2>2, Zenon DEF EndTime
  <2>3. CASE ~samples[e].held
    <3>1. samples[e].locked
      BY <1>3, <2>3, Zenon DEF Settled
    <3>2. PICK k : k = StretchStart(e)
      OBVIOUS
    <3>3. StretchStart(e)' = k /\ k \in 1 .. e
      BY <1>8, <3>1, <3>2, StretchesGrow
    <3>4. samples'[k] = samples[k]
      <4>1. k \in 1 .. n
        BY <1>1, <1>8, <3>3, SMT
      <4>. QED
        BY <1>1, <4>1
    <3>. QED
      BY <2>1, <2>3, <3>2, <3>3, <3>4, Zenon DEF EndTime
  <2>. QED
    BY <2>2, <2>3
<1>11. (CHOOSE y \in Ends(s) : TRUE) = e
  BY <1>3, ChooseOne, Zenon
<1>12. (CHOOSE y \in Ends(s) : TRUE)' = e
  BY <1>6, <1>9, ChooseOne, Zenon
<1>. QED
  BY <1>1, <1>10, <1>11, <1>12, Zenon DEF Duration

(* The duration of a drop that the new sample settles.                     *)
LEMMA NewDuration ==
  ASSUME NEW n, NEW x, Grows(n, x), Stretches, NEW s \in 1 .. n, ~Over(s),
         (Settled(n + 1))'
  PROVE  Duration(s)' = (EndTime(n + 1))' - samples[s].t
<1>1. /\ n \in Nat \ {0} /\ Len(samples) = n /\ Len(samples') = n + 1
      /\ \A j \in 1 .. n : samples'[j] = samples[j]
  BY DEF Grows
<1>2. s \in Nat \ {0} /\ n \in Nat /\ n + 1 \in Nat /\ \A j \in s .. n : j \in 1 .. n
  BY <1>1, SMT
<1>3. Over(s)'
  BY OverGrows
<1>4. EndsOnce'
  BY DropsEndOnce, PTL
<1>5. PICK f : /\ f \in s .. n + 1 /\ Settled(f)'
               /\ Ends(s)' = {f}
  BY <1>1, <1>2, <1>3, <1>4 DEF EndsOnce
<1>6. \A j \in s .. n : ~Settled(j)'
  <2>1. \A j \in 1 .. n : Settled(j)' <=> Settled(j)
    BY OldSamples
  <2>. QED
    BY <1>1, <1>2, <2>1, Zenon DEF Over
<1>7. f = n + 1
  <2>1. f \in s .. n \/ f = n + 1
    BY <1>1, <1>5, SMT
  <2>. QED
    BY <1>5, <1>6, <2>1, Zenon
<1>8. (CHOOSE y \in Ends(s) : TRUE)' = n + 1
  BY <1>5, <1>7, ChooseOne, Zenon
<1>. QED
  BY <1>1, <1>8, Zenon DEF Duration

-----------------------------------------------------------------------------
(***************************************************************************)
(* The record and the history.                                             *)
(***************************************************************************)
Recorded ==
    /\ samples \in Seq(Samples) /\ Len(samples) \in Nat \ {0}
    /\ samples[1].t = StartNs
    /\ samples[Len(samples)] =
          [t |-> now, locked |-> p.raw_locked, held |-> p.held]

(* The streak of an open drop is the stretch the last sample is in.        *)
StreakIsStretch ==
    p.drop_open /\ p.raw_locked =>
        p.streak_since_ns = samples[StretchStart(Len(samples))].t

OpenIsInDrop == p.drop_open <=> InDrop(Len(samples))

(* Of the drops of the history at most one is not over, the open one.      *)
OneOpen ==
    /\ p.drop_open =>
          \E s \in DropStarts :
             /\ ~Over(s) /\ samples[s].t = p.last_unlock_start_ns
             /\ \A r \in DropStarts : ~Over(r) => r = s
    /\ ~p.drop_open => \A r \in DropStarts : Over(r)

Counted == IsFiniteSet(DropStarts) /\ p.unlock_count = Cardinality(DropStarts)

HistoryInv ==
    /\ Inv /\ Recorded /\ Stretches /\ StreakIsStretch
    /\ OpenIsInDrop /\ OneOpen /\ Counted

(* A poll adds one sample. *)
LEMMA PollGrows ==
  ASSUME HistoryInv, HNext
  PROVE  LET n == Len(samples)
             x == [t |-> now', locked |-> p'.raw_locked, held |-> p'.held]
         IN  /\ Grows(n, x) /\ Recorded'
             /\ Polled(p, p', now')
             /\ now' \in Nat /\ n \in Nat \ {0}
             /\ samples[n].locked = p.raw_locked /\ samples[n].held = p.held
             /\ samples[n].t = now
<1>. DEFINE n == Len(samples)
            x == [t |-> now', locked |-> p'.raw_locked, held |-> p'.held]
<1>1. /\ samples \in Seq(Samples) /\ n \in Nat \ {0}
      /\ samples[1].t = StartNs
      /\ samples[n] = [t |-> now, locked |-> p.raw_locked, held |-> p.held]
  BY DEF HistoryInv, Recorded
<1>2. /\ now' \in Nat \ {0} /\ Polled(p, p', now')
      /\ p'.raw_locked \in BOOLEAN /\ p'.held \in BOOLEAN
  BY PollEffect DEF HistoryInv, HNext, Next
<1>3. x \in Samples
  BY <1>2, Zenon DEF Samples
<1>4. samples' = Append(samples, x)
  BY DEF HNext, Sample
<1>. HIDE DEF x
<1>5. /\ Append(samples, x) \in Seq(Samples)
      /\ Len(Append(samples, x)) = n + 1
      /\ \A i \in 1 .. n : Append(samples, x)[i] = samples[i]
      /\ Append(samples, x)[n + 1] = x
  <2>1. ASSUME NEW S, NEW seq \in Seq(S), NEW elt \in S
        PROVE  /\ Append(seq, elt) \in Seq(S)
               /\ Len(Append(seq, elt)) = Len(seq) + 1
               /\ \A i \in 1 .. Len(seq) : Append(seq, elt)[i] = seq[i]
               /\ Append(seq, elt)[Len(seq) + 1] = elt
    BY AppendProperties
  <2>. QED
    BY <1>1, <1>3, <2>1
<1>6. \A i \in 1 .. n : samples[i] \in Samples
  BY <1>1, ElementOfSeq, Zenon
<1>10. /\ samples' \in Seq(Samples) /\ Len(samples') = n + 1
       /\ \A i \in 1 .. n : samples'[i] = samples[i]
       /\ samples'[n + 1] = x
  BY <1>4, <1>5
<1>. HIDE DEF n
<1>7. Grows(n, x)
  BY <1>1, <1>3, <1>10, <1>6 DEF Grows, n
<1>8. Recorded'
  <2>1. n + 1 \in Nat \ {0} /\ 1 \in 1 .. n
    BY <1>1, SMT
  <2>2. samples'[1].t = StartNs
    BY <1>1, <1>10, <2>1
  <2>. QED
    BY <1>10, <2>1, <2>2 DEF Recorded, x
<1>9. samples[n].locked = p.raw_locked /\ samples[n].held = p.held /\ samples[n].t = now
  BY <1>1
<1>. QED
  BY <1>1, <1>2, <1>7, <1>8, <1>9 DEF n, x

(* What a poll does to the history, in the terms of the record.            *)
LEMMA PollHistory ==
  ASSUME HistoryInv, HNext, NEW n, n = Len(samples)
  PROVE  /\ n \in Nat \ {0}
         /\ (Settled(n + 1))' <=>
               p'.held \/ (p'.raw_locked /\ now' - (IF p.raw_locked THEN samples[StretchStart(n)].t ELSE now') >= MergeNs)
         /\ (CountedFall(n + 1))' <=> Falls(p, p', now') /\ ~p'.held
         /\ (InDrop(n + 1))' <=>
               ~(Settled(n + 1))' /\ (p.drop_open \/ (CountedFall(n + 1))')
         /\ p'.raw_locked => (samples[StretchStart(n + 1)].t)' =
               IF p.raw_locked THEN samples[StretchStart(n)].t ELSE now'
<1>. DEFINE x == [t |-> now', locked |-> p'.raw_locked, held |-> p'.held]
<1>1. /\ Grows(n, x) /\ n \in Nat \ {0}
      /\ samples[n].locked = p.raw_locked /\ samples[n].held = p.held
  BY PollGrows
<1>2. x.t = now' /\ x.locked = p'.raw_locked /\ x.held = p'.held
  OBVIOUS
<1>3. samples[1].t = StartNs /\ (p.drop_open <=> InDrop(n)) /\ Stretches
  BY DEF HistoryInv, Recorded, OpenIsInDrop
<1>. HIDE DEF x
<1>4. PICK b : b = IF samples[n].locked THEN samples[StretchStart(n)].t ELSE x.t
  OBVIOUS
<1>5. /\ (Settled(n + 1))' <=> x.held \/ (x.locked /\ x.t - b >= MergeNs)
      /\ (CountedFall(n + 1))' <=>
            samples[n].locked /\ ~x.locked /\ ~x.held /\ x.t - samples[1].t >= GraceNs
      /\ (InDrop(n + 1))' <=>
            ~(Settled(n + 1))' /\ (InDrop(n) \/ (CountedFall(n + 1))')
  BY <1>1, <1>3, <1>4, NewSample
<1>6. x.locked => (samples[StretchStart(n + 1)].t)' = b
  <2>1. /\ \A i \in 1 .. n : samples[i].locked =>
               StretchStart(i)' = StretchStart(i) /\ StretchStart(i) \in 1 .. i
        /\ x.locked => (StretchStart(n + 1))' =
               IF samples[n].locked THEN StretchStart(n) ELSE n + 1
    BY <1>1, <1>3, StretchesGrow
  <2>2. /\ samples'[n + 1] = x /\ \A j \in 1 .. n : samples'[j] = samples[j]
        /\ n \in 1 .. n
    BY <1>1, SMT DEF Grows
  <2>. QED
    BY <1>4, <2>1, <2>2, Zenon
<1>7. b = IF p.raw_locked THEN samples[StretchStart(n)].t ELSE now'
  BY <1>1, <1>2, <1>4, Zenon
<1>8. (CountedFall(n + 1))' <=> Falls(p, p', now') /\ ~p'.held
  BY <1>1, <1>2, <1>3, <1>5, Zenon DEF Falls, counting
<1>. QED
  BY <1>1, <1>2, <1>3, <1>5, <1>6, <1>7, <1>8, Zenon

(* The drop of the record and the drop of the history at a poll: one       *)
(* starts, none does, the open one goes on, or the open one ends.          *)
Starts ==
    ~p.drop_open /\ p'.drop_open /\ p'.last_unlock_start_ns = now'
    /\ p'.unlock_count = p.unlock_count + 1
NoDrop == ~p.drop_open /\ ~p'.drop_open /\ p'.unlock_count = p.unlock_count
GoesOn ==
    p.drop_open /\ p'.drop_open
    /\ p'.last_unlock_start_ns = p.last_unlock_start_ns
    /\ p'.unlock_count = p.unlock_count
Stops == p.drop_open /\ ~p'.drop_open /\ p'.unlock_count = p.unlock_count

LEMMA PollCases ==
  ASSUME HistoryInv, HNext, NEW n, n = Len(samples)
  PROVE  /\ \/ Starts /\ (CountedFall(n + 1))' /\ ~(Settled(n + 1))'
            \/ NoDrop /\ ~(CountedFall(n + 1))'
            \/ GoesOn /\ ~(Settled(n + 1))'
            \/ Stops /\ (Settled(n + 1))'
         /\ p'.drop_open <=> (InDrop(n + 1))'
         /\ p'.drop_open /\ p'.raw_locked =>
               p'.streak_since_ns = (samples[StretchStart(n + 1)].t)'
<1>. DEFINE S == (Settled(n + 1))'
            C == (CountedFall(n + 1))'
            D == (InDrop(n + 1))'
            B == (samples[StretchStart(n + 1)].t)'
<1>1. /\ Polled(p, p', now') /\ samples[n].locked = p.raw_locked
      /\ p.drop_open \in BOOLEAN /\ p'.drop_open \in BOOLEAN
  <2>1. Inv /\ Poll
    BY DEF HistoryInv, HNext, Next
  <2>2. p'.drop_open \in BOOLEAN
    BY <2>1, PollEffect
  <2>3. p \in Pid
    BY <2>1 DEF Inv, TypeOK
  <2>4. Fields(p)
    BY <2>3, PidFields
  <2>. QED
    BY <2>2, <2>4, PollGrows DEF Fields
<1>2. PICK b : b = IF p.raw_locked THEN samples[StretchStart(n)].t ELSE now'
  OBVIOUS
<1>3. /\ S <=> p'.held \/ (p'.raw_locked /\ now' - b >= MergeNs)
      /\ C <=> Falls(p, p', now') /\ ~p'.held
      /\ D <=> ~S /\ (p.drop_open \/ C)
      /\ p'.raw_locked => B = b
  BY <1>2, PollHistory
<1>4. p.drop_open => streak(p, now') = b
  BY <1>2, Zenon DEF HistoryInv, StreakIsStretch, streak
<1>. HIDE DEF S, C, D, B
<1>. SUFFICES /\ \/ Starts /\ C /\ ~S
                 \/ NoDrop /\ ~C
                 \/ GoesOn /\ ~S
                 \/ Stops /\ S
              /\ p'.drop_open <=> D
              /\ p'.drop_open /\ p'.raw_locked => p'.streak_since_ns = B
  BY DEF S, C, D, B
<1>5. CASE TurnsOff(p, p', now')
  BY <1>1, <1>3, <1>5, Zenon DEF TurnsOff, EndsOpen, NoDrop, Stops
<1>6. CASE ~p'.held /\ Opens(p, p', now')
  BY <1>1, <1>3, <1>6, Zenon DEF Opens, Falls, Starts
<1>7. CASE ~p'.held /\ Rests(p, p', now')
  BY <1>1, <1>3, <1>7, Zenon DEF Rests, NoDrop
<1>8. CASE ~p'.held /\ StaysOpen(p, p', now')
  BY <1>1, <1>3, <1>4, <1>8, Zenon DEF StaysOpen, GoesOn
<1>9. CASE ~p'.held /\ Closes(p, p', now')
  BY <1>1, <1>3, <1>4, <1>9, Zenon DEF Closes, Stops
<1>. QED
  BY <1>1, <1>5, <1>6, <1>7, <1>8, <1>9, Zenon DEF Polled

LEMMA PollKeepsHistory ==
  ASSUME HistoryInv, HNext
  PROVE  HistoryInv'
<1>1. Inv'
  BY PollInv DEF HistoryInv, HNext, Next
<1>2. PICK n : n = Len(samples)
  OBVIOUS
<1>3. PICK x : /\ Grows(n, x) /\ x.t = now'
  BY <1>2, PollGrows
<1>4. /\ Recorded' /\ n \in Nat \ {0}
      /\ Len(samples') = n + 1 /\ samples'[n + 1] = x
      /\ \A i \in 1 .. n : samples'[i] = samples[i]
  BY <1>2, <1>3, PollGrows DEF Grows
<1>5. Stretches /\ Stretches'
  BY <1>3, StretchesGrow DEF HistoryInv
<1>. DEFINE S == (Settled(n + 1))'
            C == (CountedFall(n + 1))'
<1>6. /\ \/ Starts /\ C /\ ~S
         \/ NoDrop /\ ~C
         \/ GoesOn /\ ~S
         \/ Stops /\ S
      /\ p'.drop_open <=> (InDrop(n + 1))'
      /\ p'.drop_open /\ p'.raw_locked =>
               p'.streak_since_ns = (samples[StretchStart(n + 1)].t)'
  BY <1>2, PollCases
<1>7. StreakIsStretch' /\ OpenIsInDrop'
  BY <1>4, <1>6 DEF StreakIsStretch, OpenIsInDrop
<1>8. p.drop_open <=> InDrop(n)
  BY <1>2 DEF HistoryInv, OpenIsInDrop
<1>9. /\ DropStarts \subseteq 2 .. n
      /\ C /\ ~p.drop_open => DropStarts' = DropStarts \cup {n + 1}
      /\ ~(C /\ ~p.drop_open) => DropStarts' = DropStarts
      /\ \A s \in 1 .. n : Over(s)' <=> Over(s) \/ S
      /\ (Over(n + 1))' <=> S
  BY <1>3, <1>5, <1>8, DropStartsGrow, OverGrows, Zenon
<1>10. /\ \A s \in DropStarts : s \in 1 .. n
       /\ n + 1 \notin DropStarts
  BY <1>4, <1>9
<1>. HIDE DEF S, C
<1>11. CASE Starts /\ C /\ ~S
  <2>1. /\ DropStarts' = DropStarts \cup {n + 1} /\ ~(Over(n + 1))'
        /\ \A s \in DropStarts : Over(s)'
    BY <1>9, <1>10, <1>11, Zenon DEF Starts, HistoryInv, OneOpen
  <2>2. samples'[n + 1].t = p'.last_unlock_start_ns
    BY <1>3, <1>4, <1>11 DEF Starts
  <2>3. OneOpen'
    BY <1>11, <2>1, <2>2, Zenon DEF Starts, OneOpen
  <2>4. Counted'
    <3>1. IsFiniteSet(DropStarts) /\ p.unlock_count = Cardinality(DropStarts)
      BY DEF HistoryInv, Counted
    <3>2. /\ IsFiniteSet(DropStarts \cup {n + 1})
          /\ Cardinality(DropStarts \cup {n + 1}) = Cardinality(DropStarts) + 1
      BY <1>10, <3>1, FS_AddElement
    <3>. QED
      BY <1>11, <2>1, <3>1, <3>2 DEF Starts, Counted
  <2>. QED
    BY <1>1, <1>4, <1>5, <1>7, <2>3, <2>4, Zenon DEF HistoryInv
<1>12. CASE ~(Starts /\ C /\ ~S)
  <2>1. DropStarts' = DropStarts /\ p'.unlock_count = p.unlock_count
    BY <1>6, <1>9, <1>12, Zenon DEF NoDrop, GoesOn, Stops
  <2>2. OneOpen'
    <3>1. CASE NoDrop
      <4>1. \A s \in DropStarts : Over(s)'
        BY <1>9, <1>10, <3>1, Zenon DEF NoDrop, HistoryInv, OneOpen
      <4>. QED
        BY <2>1, <3>1, <4>1, Zenon DEF NoDrop, OneOpen
    <3>2. CASE GoesOn /\ ~S
      <4>1. PICK s \in DropStarts :
                /\ ~Over(s) /\ samples[s].t = p.last_unlock_start_ns
                /\ \A r \in DropStarts : ~Over(r) => r = s
        BY <3>2, Zenon DEF GoesOn, HistoryInv, OneOpen
      <4>2. /\ ~Over(s)' /\ samples'[s].t = p'.last_unlock_start_ns
            /\ \A r \in DropStarts : ~Over(r)' => r = s
        BY <1>4, <1>9, <1>10, <3>2, <4>1, Zenon DEF GoesOn
      <4>. QED
        BY <2>1, <3>2, <4>1, <4>2, Zenon DEF GoesOn, OneOpen
    <3>3. CASE Stops /\ S
      <4>1. \A s \in DropStarts : Over(s)'
        BY <1>9, <1>10, <3>3, Zenon
      <4>. QED
        BY <2>1, <3>3, <4>1, Zenon DEF Stops, OneOpen
    <3>. QED
      BY <1>6, <1>12, <3>1, <3>2, <3>3, Zenon
  <2>3. Counted'
    BY <2>1 DEF HistoryInv, Counted
  <2>. QED
    BY <1>1, <1>4, <1>5, <1>7, <2>2, <2>3, Zenon DEF HistoryInv
<1>. QED
  BY <1>11, <1>12

LEMMA InitHistory == HInit => HistoryInv
<1>. SUFFICES ASSUME HInit PROVE HistoryInv
  OBVIOUS
<1>1. Inv /\ now = StartNs
  BY InitInv DEF HInit, Init
<1>2. p.raw_locked \in BOOLEAN /\ p.held \in BOOLEAN /\ now \in Nat
  <2>1. p \in Pid /\ now \in Nat
    BY <1>1 DEF Inv, TypeOK
  <2>. QED
    BY <2>1, PidFields DEF Fields
<1>3. ~p.drop_open /\ p.unlock_count = 0
  BY DEF HInit, Init, lockstat_init
<1>. DEFINE x == [t |-> now, locked |-> p.raw_locked, held |-> p.held]
<1>4. samples = <<x>> /\ x \in Samples /\ x.t = now
  BY <1>2 DEF HInit, Samples
<1>. HIDE DEF x
<1>5. samples \in Seq(Samples) /\ Len(samples) = 1 /\ samples[1] = x
  BY <1>4
<1>6. Recorded
  BY <1>1, <1>4, <1>5 DEF Recorded, x
<1>7. Stretches
  <2>. SUFFICES ASSUME NEW i \in 1 .. 1, samples[i].locked PROVE \E k : IsStart(k, i)
    BY <1>5 DEF Stretches
  <2>1. i = 1 /\ 1 \in 1 .. 1 /\ \A j \in 1 .. 1 : j = 1
    OBVIOUS
  <2>2. IsStart(1, 1)
    BY <2>1, Zenon DEF IsStart
  <2>. QED
    BY <2>1, <2>2
<1>8. DropStarts = {}
  BY <1>5 DEF DropStarts
<1>9. ~InDrop(1)
  <2>1. ~CountedFall(1) /\ \A i \in 1 .. 1 : i = 1
    BY DEF CountedFall
  <2>. QED
    BY <2>1, Zenon DEF InDrop
<1>10. StreakIsStretch /\ OpenIsInDrop /\ OneOpen
  BY <1>3, <1>5, <1>8, <1>9, Zenon DEF StreakIsStretch, OpenIsInDrop, OneOpen
<1>11. Counted
  BY <1>3, <1>8, FS_EmptySet DEF Counted
<1>. QED
  BY <1>1, <1>6, <1>7, <1>10, <1>11 DEF HistoryInv

(* A step that leaves the samples alone leaves the drops alone.            *)
LEMMA HistoryStutters ==
  ASSUME samples' = samples
  PROVE  /\ \A i : StretchStart(i)' = StretchStart(i)
         /\ \A i : Settled(i)' <=> Settled(i)
         /\ \A i : InDrop(i)' <=> InDrop(i)
         /\ \A i : Over(i)' <=> Over(i)
         /\ DropStarts' = DropStarts
<1>1. \A i : StretchStart(i)' = StretchStart(i)
  BY DEF StretchStart
<1>2. \A i : Settled(i)' <=> Settled(i)
  BY <1>1, Zenon DEF Settled
<1>3. \A i : CountedFall(i)' <=> CountedFall(i)
  BY Zenon DEF CountedFall
<1>4. \A i : /\ InDrop(i)' <=> InDrop(i)
             /\ Over(i)' <=> Over(i)
  BY <1>2, <1>3, Zenon DEF InDrop, Over
<1>5. DropStarts' = DropStarts
  BY <1>3, <1>4, Zenon DEF DropStarts
<1>. QED
  BY <1>1, <1>2, <1>4, <1>5

(* What the daemon has recorded of the samples fits the drops they show.   *)
THEOREM HistoryInvHolds == HSpec => []HistoryInv
<1>1. HistoryInv /\ [HNext]_hvars => HistoryInv'
  <2>. SUFFICES ASSUME HistoryInv, [HNext]_hvars PROVE HistoryInv'
    OBVIOUS
  <2>1. CASE HNext
    BY <2>1, PollKeepsHistory
  <2>2. CASE UNCHANGED hvars
    <3>1. p' = p /\ now' = now /\ samples' = samples
      BY <2>2 DEF hvars, vars
    <3>2. Inv'
      BY <3>1 DEF HistoryInv, Inv, TypeOK, Core, OpenCore, Flags
    <3>3. Recorded' /\ Stretches'
      BY <3>1 DEF HistoryInv, Recorded, Stretches, IsStart
    <3>4. /\ \A i : StretchStart(i)' = StretchStart(i)
          /\ \A i : InDrop(i)' <=> InDrop(i)
          /\ \A i : Over(i)' <=> Over(i)
          /\ DropStarts' = DropStarts
      BY <3>1, HistoryStutters
    <3>9. StreakIsStretch' /\ OpenIsInDrop' /\ OneOpen' /\ Counted'
      BY <3>1, <3>4, Zenon
         DEF HistoryInv, StreakIsStretch, OpenIsInDrop, OneOpen, Counted
    <3>. QED
      BY <3>2, <3>3, <3>9, Zenon DEF HistoryInv
  <2>. QED
    BY <2>1, <2>2
<1>. QED
  BY <1>1, InitHistory, PTL DEF HSpec

(* The invariant gives the counters. *)
LEMMA HistoryCounts == HistoryInv => CountsTheDrops
<1>. SUFFICES ASSUME HistoryInv PROVE CountsTheDrops
  OBVIOUS
<1>1. p \in Pid /\ EveryDropIsPushedOnce /\ Len(samples) \in Nat
  BY DEF HistoryInv, Inv, TypeOK, Core, Recorded, EveryDropIsPushedOnce
<1>2. p.drop_open \in BOOLEAN /\ p.event_head \in Nat /\ p.unlock_count \in Nat
  BY <1>1, PidFields DEF Fields
<1>3. ClosedStarts = {s \in DropStarts : Over(s)}
  BY <1>1, ClosedAreOver DEF ClosedOver
<1>4. IsFiniteSet(DropStarts) /\ p.unlock_count = Cardinality(DropStarts)
  BY DEF HistoryInv, Counted
<1>5. p.drop_open = InDrop(Len(samples))
  <2>1. InDrop(Len(samples)) = TRUE \/ InDrop(Len(samples)) = FALSE
    BY Zenon DEF InDrop
  <2>2. p.drop_open = TRUE \/ p.drop_open = FALSE
    BY <1>2
  <2>3. p.drop_open <=> InDrop(Len(samples))
    BY DEF HistoryInv, OpenIsInDrop
  <2>. QED
    BY <2>1, <2>2, <2>3, Zenon
<1>6. p.event_head = Cardinality(ClosedStarts)
  <2>1. CASE ~p.drop_open
    <3>1. ClosedStarts = DropStarts
      BY <1>3, <2>1, Zenon DEF HistoryInv, OneOpen
    <3>. QED
      BY <1>1, <1>2, <1>4, <2>1, <3>1 DEF EveryDropIsPushedOnce
  <2>2. CASE p.drop_open
    <3>1. PICK s \in DropStarts : ~Over(s) /\ \A r \in DropStarts : ~Over(r) => r = s
      BY <2>2, Zenon DEF HistoryInv, OneOpen
    <3>2. ClosedStarts = DropStarts \ {s}
      BY <1>3, <3>1, Zenon
    <3>3. Cardinality(DropStarts \ {s}) = Cardinality(DropStarts) - 1
      BY <1>4, <3>1, FS_RemoveElement
    <3>. QED
      BY <1>1, <1>2, <1>4, <2>2, <3>2, <3>3 DEF EveryDropIsPushedOnce
  <2>. QED
    BY <2>1, <2>2
<1>. QED
  BY <1>4, <1>5, <1>6 DEF CountsTheDrops

(* The counters of the record are those of the drops of the history: one   *)
(* for each counted fall outside a drop, merged and closed by the rules of *)
(* lockstat.h, whatever way open_drop and close_drop came to them.         *)
THEOREM DropsAreCounted == HSpec => []CountsTheDrops
<1>. QED
  BY HistoryCounts, HistoryInvHolds, PTL

-----------------------------------------------------------------------------
(***************************************************************************)
(* The numbers since the servo went on.                                    *)
(***************************************************************************)

(* Sample k turned the hold off, and it has been off since.                *)
IsOn(k) ==
    /\ k \in 1 .. Len(samples)
    /\ \A j \in k .. Len(samples) : ~samples[j].held
    /\ k = 1 \/ samples[k - 1].held

Since(k) == {s \in DropStarts : s >= k}

SinceOn(k) ==
    /\ IsOn(k) /\ p.servo_since_ns = samples[k].t
    /\ p.unlock_count = p.count_at_servo + Cardinality(Since(k))
    /\ \A s \in Since(k) :
          Over(s) => Duration(s) \in Int /\ Duration(s) <= p.longest_since_servo_ns
    /\ \/ p.longest_since_servo_ns = 0
       \/ \E s \in Since(k) : Over(s) /\ Duration(s) = p.longest_since_servo_ns

ServoInv == ~p.held => \E k : SinceOn(k)

(* What a poll that leaves the hold off does to the longest drop.          *)
LEMMA LongestCases ==
  ASSUME HistoryInv, HNext, NEW n, n = Len(samples), ~p'.held
  PROVE  /\ p'.servo_since_ns = servo(p, now') /\ p'.count_at_servo = base(p)
         /\ \/ /\ Starts /\ (CountedFall(n + 1))' /\ ~(Settled(n + 1))'
               /\ p'.longest_since_servo_ns = longest(p)
            \/ /\ NoDrop /\ ~(CountedFall(n + 1))'
               /\ p'.longest_since_servo_ns = longest(p)
            \/ /\ GoesOn /\ ~(Settled(n + 1))'
               /\ p'.longest_since_servo_ns = longest(p)
            \/ /\ Stops /\ (Settled(n + 1))'
               /\ \E d : /\ d = (EndTime(n + 1))' - p.last_unlock_start_ns
                         /\ d \in Int
                         /\ p'.longest_since_servo_ns =
                               IF d > longest(p) THEN d ELSE longest(p)
<1>. DEFINE S == (Settled(n + 1))'
            C == (CountedFall(n + 1))'
            B == (samples[StretchStart(n + 1)].t)'
            E == (EndTime(n + 1))'
<1>1. /\ Polled(p, p', now') /\ n \in Nat
      /\ samples'[n + 1] = [t |-> now', locked |-> p'.raw_locked, held |-> p'.held]
  BY PollGrows DEF Grows
<1>2. PICK b : b = IF p.raw_locked THEN samples[StretchStart(n)].t ELSE now'
  OBVIOUS
<1>3. /\ S <=> p'.held \/ (p'.raw_locked /\ now' - b >= MergeNs)
      /\ C <=> Falls(p, p', now') /\ ~p'.held
      /\ p'.raw_locked => B = b
  BY <1>2, PollHistory
<1>4. p.drop_open => streak(p, now') = b
  BY <1>2, Zenon DEF HistoryInv, StreakIsStretch, streak
<1>5. E = B
  BY <1>1 DEF EndTime
<1>. HIDE DEF S, C, B, E
<1>. SUFFICES /\ p'.servo_since_ns = servo(p, now') /\ p'.count_at_servo = base(p)
              /\ \/ Starts /\ C /\ ~S /\ p'.longest_since_servo_ns = longest(p)
                 \/ NoDrop /\ ~C /\ p'.longest_since_servo_ns = longest(p)
                 \/ GoesOn /\ ~S /\ p'.longest_since_servo_ns = longest(p)
                 \/ /\ Stops /\ S
                    /\ \E d : /\ d = E - p.last_unlock_start_ns
                              /\ d \in Int
                              /\ p'.longest_since_servo_ns =
                                    IF d > longest(p) THEN d ELSE longest(p)
  BY DEF S, C, E
<1>6. /\ p'.servo_since_ns = servo(p, now') /\ p'.count_at_servo = base(p)
      /\ \/ Opens(p, p', now') \/ Rests(p, p', now')
         \/ StaysOpen(p, p', now') \/ Closes(p, p', now')
  BY <1>1, Zenon DEF Polled, TurnsOff
<1>7. CASE Opens(p, p', now')
  BY <1>3, <1>6, <1>7, Zenon DEF Opens, Falls, Starts
<1>8. CASE Rests(p, p', now')
  BY <1>3, <1>6, <1>8, Zenon DEF Rests, NoDrop
<1>9. CASE StaysOpen(p, p', now')
  BY <1>3, <1>4, <1>6, <1>9, Zenon DEF StaysOpen, GoesOn
<1>10. CASE Closes(p, p', now')
  <2>1. /\ Stops /\ S /\ E = streak(p, now')
        /\ p'.longest_since_servo_ns =
              IF streak(p, now') - p.last_unlock_start_ns > longest(p)
              THEN streak(p, now') - p.last_unlock_start_ns ELSE longest(p)
    BY <1>3, <1>4, <1>5, <1>10, Zenon DEF Closes, Stops
  <2>2. streak(p, now') - p.last_unlock_start_ns \in Int
    <3>1. p \in Pid /\ now' \in Nat
      BY PollGrows DEF HistoryInv, Inv, TypeOK
    <3>2. streak(p, now') \in Int /\ p.last_unlock_start_ns \in Int
      BY <3>1, PidFields DEF Fields, streak
    <3>. QED
      BY <3>2
  <2>. QED
    BY <1>6, <2>1, <2>2, Zenon
<1>. QED
  BY <1>6, <1>7, <1>8, <1>9, <1>10, Zenon

(* The servo goes on with this poll. *)
LEMMA ServoGoesOn ==
  ASSUME HistoryInv, HNext, p.held, ~p'.held
  PROVE  \E k : SinceOn(k)'
<1>1. PICK n : n = Len(samples)
  OBVIOUS
<1>2. PICK x : /\ Grows(n, x) /\ x.t = now' /\ ~x.held
  BY <1>1, PollGrows
<1>3. /\ n \in Nat \ {0} /\ Len(samples') = n + 1 /\ samples'[n + 1] = x
      /\ \A i \in 1 .. n : samples'[i] = samples[i]
      /\ Stretches /\ samples[n].held = p.held
  BY <1>1, <1>2, PollGrows DEF Grows, HistoryInv
<1>. DEFINE S == (Settled(n + 1))'
            C == (CountedFall(n + 1))'
<1>4. ~p.drop_open
  BY DEF HistoryInv, Inv, Core, OpenCore
<1>5. /\ p'.servo_since_ns = now' /\ p'.count_at_servo = p.unlock_count
      /\ p'.longest_since_servo_ns = 0
      /\ (Starts /\ C /\ ~S) \/ (NoDrop /\ ~C)
  BY <1>1, <1>4, LongestCases, Zenon DEF servo, base, longest, GoesOn, Stops
<1>6. p.drop_open <=> InDrop(n)
  BY <1>1 DEF HistoryInv, OpenIsInDrop
<1>7. /\ DropStarts \subseteq 2 .. n
      /\ C => DropStarts' = DropStarts \cup {n + 1}
      /\ ~C => DropStarts' = DropStarts
      /\ (Over(n + 1))' <=> S
  BY <1>2, <1>3, <1>4, <1>6, DropStartsGrow, OverGrows, Zenon
<1>8. p.unlock_count \in Nat
  <2>1. p \in Pid
    BY DEF HistoryInv, Inv, TypeOK
  <2>. QED
    BY <2>1, PidFields DEF Fields
<1>. HIDE DEF S, C
<1>9. IsOn(n + 1)'
  <2>1. /\ n + 1 \in 1 .. n + 1 /\ (n + 1) - 1 = n /\ n \in 1 .. n
        /\ \A j \in n + 1 .. n + 1 : j = n + 1
    BY <1>3, SMT
  <2>2. samples'[n].held
    BY <1>3, <2>1, Zenon
  <2>. QED
    BY <1>2, <1>3, <2>1, <2>2, Zenon DEF IsOn
<1>10. \A s \in DropStarts : ~(s >= n + 1)
  <2>1. \A s \in 2 .. n : ~(s >= n + 1)
    BY <1>3, SMT
  <2>. QED
    BY <1>7, <2>1
<1>11. n + 1 >= n + 1
  BY <1>3, SMT
<1>12. CASE Starts /\ C /\ ~S
  <2>1. Since(n + 1)' = {n + 1}
    BY <1>7, <1>10, <1>11, <1>12, Zenon DEF Since
  <2>2. p'.unlock_count = p'.count_at_servo + Cardinality(Since(n + 1)')
    <3>1. Cardinality({n + 1}) = 1
      BY FS_Singleton
    <3>. QED
      BY <1>5, <1>12, <2>1, <3>1 DEF Starts
  <2>3. \A s \in Since(n + 1)' : ~Over(s)'
    BY <1>7, <1>12, <2>1, Zenon
  <2>4. SinceOn(n + 1)'
    BY <1>2, <1>3, <1>5, <1>9, <2>2, <2>3, Zenon DEF SinceOn
  <2>. QED
    BY <2>4
<1>13. CASE NoDrop /\ ~C
  <2>1. Since(n + 1)' = {}
    BY <1>7, <1>10, <1>13, Zenon DEF Since
  <2>2. p'.unlock_count = p'.count_at_servo + Cardinality(Since(n + 1)')
    BY <1>5, <1>8, <1>13, <2>1, FS_EmptySet DEF NoDrop
  <2>3. SinceOn(n + 1)'
    BY <1>2, <1>3, <1>5, <1>9, <2>1, <2>2, Zenon DEF SinceOn
  <2>. QED
    BY <2>3
<1>. QED
  BY <1>5, <1>12, <1>13

(* A drop that the history leaves open started with the servo on.          *)
LEMMA OpenIsSince ==
  ASSUME Len(samples) \in Nat, NEW k, IsOn(k),
         NEW s \in 1 .. Len(samples), ~Over(s)
  PROVE  s >= k
<1>1. k \in 1 .. Len(samples) /\ (k = 1 \/ samples[k - 1].held)
  BY Zenon DEF IsOn
<1>2. ASSUME ~(s >= k) PROVE FALSE
  <2>1. k # 1 /\ k - 1 \in s .. Len(samples)
    BY <1>1, <1>2, SMT
  <2>2. Settled(k - 1)
    BY <1>1, <2>1, Zenon DEF Settled
  <2>. QED
    BY <2>1, <2>2, Zenon DEF Over
<1>. QED
  BY <1>2

(* The servo stays on: k is the sample it went on at.                      *)
LEMMA ServoStaysOn ==
  ASSUME HistoryInv, HNext, ~p.held, ~p'.held, NEW k, SinceOn(k)
  PROVE  SinceOn(k)'
<1>1. PICK n : n = Len(samples)
  OBVIOUS
<1>2. PICK x : Grows(n, x) /\ ~x.held
  BY <1>1, PollGrows
<1>3. /\ n \in Nat \ {0} /\ Len(samples') = n + 1 /\ samples'[n + 1] = x
      /\ \A i \in 1 .. n : samples'[i] = samples[i]
      /\ Stretches
  BY <1>2 DEF Grows, HistoryInv
<1>. DEFINE S == (Settled(n + 1))'
            C == (CountedFall(n + 1))'
            l == p.longest_since_servo_ns
            m == p'.longest_since_servo_ns
<1>4. /\ p'.servo_since_ns = p.servo_since_ns /\ p'.count_at_servo = p.count_at_servo
      /\ \/ Starts /\ C /\ ~S /\ m = l
         \/ NoDrop /\ ~C /\ m = l
         \/ GoesOn /\ ~S /\ m = l
         \/ /\ Stops /\ S
            /\ \E d : /\ d = (EndTime(n + 1))' - p.last_unlock_start_ns
                      /\ d \in Int /\ m = IF d > l THEN d ELSE l
  BY <1>1, LongestCases, Zenon DEF servo, base, longest
<1>5. p.drop_open <=> InDrop(n)
  BY <1>1 DEF HistoryInv, OpenIsInDrop
<1>6. /\ DropStarts \subseteq 2 .. n
      /\ C /\ ~p.drop_open => DropStarts' = DropStarts \cup {n + 1}
      /\ ~(C /\ ~p.drop_open) => DropStarts' = DropStarts
      /\ \A s \in 1 .. n : Over(s)' <=> Over(s) \/ S
      /\ (Over(n + 1))' <=> S
  BY <1>2, <1>3, <1>5, DropStartsGrow, OverGrows, Zenon
<1>7. /\ \A s \in DropStarts : s \in 1 .. n
      /\ n + 1 \notin DropStarts
  BY <1>3, <1>6
<1>8. \A s \in 1 .. n : Over(s) => Duration(s)' = Duration(s)
  BY <1>2, <1>3, OldDuration
<1>9. p.unlock_count \in Nat /\ p.count_at_servo \in Nat /\ l \in Nat
  <2>1. p \in Pid
    BY DEF HistoryInv, Inv, TypeOK
  <2>. QED
    BY <2>1, PidFields DEF Fields
<1>10. /\ IsOn(k) /\ k \in 1 .. n /\ p.servo_since_ns = samples[k].t
       /\ p.unlock_count = p.count_at_servo + Cardinality(Since(k))
       /\ \A s \in Since(k) : Over(s) => Duration(s) \in Int /\ Duration(s) <= l
       /\ l = 0 \/ \E s \in Since(k) : Over(s) /\ Duration(s) = l
  BY <1>1 DEF SinceOn, IsOn
<1>11. IsOn(k)' /\ p'.servo_since_ns = samples'[k].t
  <2>1. /\ k \in 1 .. n + 1
        /\ k # 1 => k - 1 \in 1 .. n
        /\ \A j \in k .. n + 1 : j = n + 1 \/ (j \in k .. n /\ j \in 1 .. n)
    BY <1>3, <1>10, SMT
  <2>2. \A j \in k .. n : ~samples[j].held
    BY <1>1, <1>10, Zenon DEF IsOn
  <2>3. \A j \in k .. n + 1 : ~samples'[j].held
    BY <1>2, <1>3, <2>1, <2>2
  <2>4. k = 1 \/ samples'[k - 1].held
    BY <1>3, <1>10, <2>1 DEF IsOn
  <2>. QED
    BY <1>3, <1>4, <1>10, <2>1, <2>3, <2>4, Zenon DEF IsOn
<1>. HIDE DEF S, C
<1>12. CASE Starts /\ C /\ ~S /\ m = l
  <2>1. n + 1 >= k
    BY <1>3, <1>10, SMT
  <2>2. DropStarts' = DropStarts \cup {n + 1}
    BY <1>6, <1>12, Zenon DEF Starts
  <2>3. Since(k)' = Since(k) \cup {n + 1} /\ n + 1 \notin Since(k)
    BY <1>7, <2>1, <2>2, Zenon DEF Since
  <2>4. p'.unlock_count = p'.count_at_servo + Cardinality(Since(k)')
    <3>1. IsFiniteSet(Since(k))
      <4>1. IsFiniteSet(DropStarts) /\ Since(k) \subseteq DropStarts
        BY DEF HistoryInv, Counted, Since
      <4>. QED
        BY <4>1, FS_Subset
    <3>2. Cardinality(Since(k) \cup {n + 1}) = Cardinality(Since(k)) + 1
      BY <2>3, <3>1, FS_AddElement
    <3>3. Cardinality(Since(k)) \in Nat
      BY <3>1, FS_CardinalityType
    <3>. QED
      BY <1>4, <1>9, <1>10, <1>12, <2>3, <3>2, <3>3 DEF Starts
  <2>5. \A s \in Since(k)' : Over(s)' =>
           s \in Since(k) /\ Over(s) /\ Duration(s)' = Duration(s)
    BY <1>6, <1>7, <1>8, <1>12, <2>3, Zenon DEF Since
  <2>6. \A s \in Since(k) : Over(s) => s \in Since(k)' /\ Over(s)'
    BY <1>6, <1>7, <2>3, Zenon DEF Since
  <2>. QED
    BY <1>8, <1>7, <1>10, <1>11, <1>12, <2>4, <2>5, <2>6, Zenon DEF SinceOn, Since
<1>13. CASE ~(Starts /\ C /\ ~S /\ m = l)
  <2>1. DropStarts' = DropStarts /\ p'.unlock_count = p.unlock_count
    BY <1>4, <1>6, <1>13, Zenon DEF NoDrop, GoesOn, Stops
  <2>2. Since(k)' = Since(k) /\ \A s \in Since(k) : s \in DropStarts /\ s \in 1 .. n
    BY <1>7, <2>1, Zenon DEF Since
  <2>3. p'.unlock_count = p'.count_at_servo + Cardinality(Since(k)')
    BY <1>4, <1>10, <2>1, <2>2
  <2>4. CASE ((NoDrop /\ ~C) \/ (GoesOn /\ ~S)) /\ m = l
    <3>1. \A s \in Since(k) : Over(s)' <=> Over(s)
      <4>1. CASE NoDrop
        BY <1>6, <2>2, <4>1, Zenon DEF NoDrop, HistoryInv, OneOpen
      <4>2. CASE GoesOn /\ ~S
        BY <1>6, <2>2, <4>2, Zenon
      <4>. QED
        BY <2>4, <4>1, <4>2
    <3>2. \A s \in Since(k) : Over(s) => Duration(s)' = Duration(s)
      BY <1>8, <2>2
    <3>. QED
      BY <1>10, <1>11, <2>2, <2>3, <2>4, <3>1, <3>2, Zenon DEF SinceOn
  <2>5. CASE Stops /\ S
    <3>1. PICK d : /\ d = (EndTime(n + 1))' - p.last_unlock_start_ns
                   /\ d \in Int /\ m = IF d > l THEN d ELSE l
      BY <1>4, <2>5, Zenon DEF Starts, NoDrop, GoesOn, Stops
    <3>2. PICK s \in DropStarts : /\ ~Over(s) /\ samples[s].t = p.last_unlock_start_ns
                                  /\ \A r \in DropStarts : ~Over(r) => r = s
      BY <2>5, Zenon DEF Stops, HistoryInv, OneOpen
    <3>3. s \in 1 .. n /\ n \in Nat
      BY <1>3, <1>7, <3>2
    <3>4. s \in Since(k)
      <4>1. s >= k
        BY <1>1, <1>10, <3>2, <3>3, OpenIsSince
      <4>. QED
        BY <3>2, <4>1 DEF Since
    <3>5. Duration(s)' = d
      <4>1. Duration(s)' = (EndTime(n + 1))' - samples[s].t
        BY <1>2, <1>3, <2>5, <3>2, <3>3, NewDuration DEF S
      <4>. QED
        BY <3>1, <3>2, <4>1
    <3>6. \A r \in Since(k) : /\ Over(r)'
                              /\ r = s \/ (Over(r) /\ Duration(r)' = Duration(r))
      BY <1>6, <1>8, <2>2, <2>5, <3>2, Zenon
    <3>7. /\ \A r \in Since(k) : Duration(r)' \in Int /\ Duration(r)' <= m
          /\ m = l \/ m = Duration(s)'
      <4>1. l <= m /\ d <= m /\ m \in Int /\ (m = l \/ m = d)
        BY <1>9, <3>1
      <4>2. ASSUME NEW r \in Since(k), NEW e, e = Duration(r)'
            PROVE  e \in Int /\ e <= m
        <5>1. e = d \/ (e \in Int /\ e <= l)
          BY <1>10, <3>5, <3>6, <4>2, Zenon
        <5>. HIDE DEF l, m
        <5>. QED
          BY <1>9, <3>1, <4>1, <5>1
      <4>. QED
        BY <3>5, <4>1, <4>2
    <3>8. m = 0 \/ \E r \in Since(k) : Over(r)' /\ Duration(r)' = m
      <4>1. CASE m = Duration(s)'
        BY <3>4, <3>6, <4>1
      <4>2. CASE m = l
        <5>1. ASSUME NEW r \in Since(k), Over(r), Duration(r) = l
              PROVE  Over(r)' /\ Duration(r)' = m
          BY <1>8, <2>2, <3>6, <4>2, <5>1, Zenon
        <5>. QED
          BY <1>10, <4>2, <5>1, Zenon
      <4>. QED
        BY <3>7, <4>1, <4>2
    <3>. QED
      BY <1>11, <2>2, <2>3, <3>7, <3>8, Zenon DEF SinceOn
  <2>. QED
    BY <1>4, <1>13, <2>4, <2>5, Zenon
<1>. QED
  BY <1>12, <1>13

LEMMA InitServo == HInit => ServoInv
<1>. SUFFICES ASSUME HInit, ~p.held PROVE SinceOn(1)
  BY DEF ServoInv
<1>. DEFINE x == [t |-> now, locked |-> p.raw_locked, held |-> p.held]
<1>1. /\ p.servo_since_ns = now /\ p.unlock_count = 0 /\ p.count_at_servo = 0
      /\ p.longest_since_servo_ns = 0
  BY DEF HInit, Init, lockstat_init
<1>2. Len(samples) = 1 /\ samples[1] = x
  BY DEF HInit
<1>3. ~samples[1].held /\ samples[1].t = now
  BY <1>2
<1>4. DropStarts = {}
  BY <1>2 DEF DropStarts
<1>5. Since(1) = {}
  BY <1>4, Zenon DEF Since
<1>6. IsOn(1)
  <2>1. 1 \in 1 .. 1 /\ \A j \in 1 .. 1 : j = 1
    OBVIOUS
  <2>. QED
    BY <1>2, <1>3, <2>1, Zenon DEF IsOn
<1>7. p.unlock_count = p.count_at_servo + Cardinality(Since(1))
  BY <1>1, <1>5, FS_EmptySet
<1>. QED
  BY <1>1, <1>3, <1>5, <1>6, <1>7, Zenon DEF SinceOn

LEMMA PollKeepsServo ==
  ASSUME HistoryInv, ServoInv, HNext
  PROVE  ServoInv'
<1>. SUFFICES ASSUME ~p'.held PROVE \E k : SinceOn(k)'
  BY Zenon DEF ServoInv
<1>1. CASE p.held
  BY <1>1, ServoGoesOn
<1>2. CASE ~p.held
  <2>1. PICK k : SinceOn(k)
    BY <1>2 DEF ServoInv
  <2>2. SinceOn(k)'
    BY <1>2, <2>1, ServoStaysOn
  <2>. QED
    BY <2>2
<1>. QED
  BY <1>1, <1>2

(* No other sample turned the servo on. *)
LEMMA OnIsChosen ==
  ASSUME NEW k, IsOn(k), Len(samples) \in Nat
  PROVE  ServoOn = k
<1>1. \E j \in 1 .. Len(samples) :
         /\ \A i \in j .. Len(samples) : ~samples[i].held
         /\ j = 1 \/ samples[j - 1].held
  BY Zenon DEF IsOn
<1>2. IsOn(ServoOn)
  BY <1>1, Zenon DEF IsOn, ServoOn
<1>. DEFINE m == ServoOn
<1>3. IsOn(m)
  BY <1>2
<1>. HIDE DEF m
<1>4. k \in 1 .. Len(samples) /\ m \in 1 .. Len(samples)
  BY <1>3 DEF IsOn
<1>5. ~(k < m)
  <2>1. k < m => m # 1 /\ m - 1 \in k .. Len(samples)
    BY <1>4, SMT
  <2>. QED
    BY <1>3, <2>1, Zenon DEF IsOn
<1>6. ~(m < k)
  <2>1. m < k => k # 1 /\ k - 1 \in m .. Len(samples)
    BY <1>4, SMT
  <2>. QED
    BY <1>3, <2>1, Zenon DEF IsOn
<1>7. m = k
  BY <1>4, <1>5, <1>6, SMT
<1>. QED
  BY <1>7 DEF m

(* Between the polls that turn the servo on and off the record counts the  *)
(* drops that started since it went on, and keeps the longest of those     *)
(* that are over (servo_on and servo_off in mode_edge, close_drop).        *)
THEOREM ServoInvHolds == HSpec => []ServoInv
<1>1. HistoryInv /\ ServoInv /\ [HNext]_hvars => ServoInv'
  <2>. SUFFICES ASSUME HistoryInv, ServoInv, [HNext]_hvars PROVE ServoInv'
    OBVIOUS
  <2>1. CASE HNext
    BY <2>1, PollKeepsServo
  <2>2. CASE UNCHANGED hvars
    <3>1. p' = p /\ now' = now /\ samples' = samples
      BY <2>2 DEF hvars, vars
    <3>2. UNCHANGED DropStarts
      BY <3>1, HistoryStutters
    <3>3. \A s : Over(s)' <=> Over(s)
      BY <3>1, HistoryStutters
    <3>4. \A s : Duration(s)' = Duration(s)
      <4>1. \A s : Ends(s)' = Ends(s)
        BY <3>1, HistoryStutters, Zenon DEF Ends
      <4>2. \A e : EndTime(e)' = EndTime(e)
        BY <3>1, HistoryStutters, Zenon DEF EndTime
      <4>. QED
        BY <3>1, <4>1, <4>2, Zenon DEF Duration
    <3>5. \A k : Since(k)' = Since(k) /\ (IsOn(k)' <=> IsOn(k))
      BY <3>1, <3>2, Zenon DEF Since, IsOn
    <3>. QED
      BY <3>1, <3>3, <3>4, <3>5, Zenon DEF ServoInv, SinceOn
  <2>. QED
    BY <2>1, <2>2
<1>. QED
  BY <1>1, InitServo, HistoryInvHolds, PTL DEF HSpec

(* The numbers since the servo went on are those of the drops of the       *)
(* history that started since: their number, their start, the longest.     *)
THEOREM ServoNumbersAreTheHistory == HSpec => []SinceServoIsTheHistory
<1>1. HistoryInv /\ ServoInv => SinceServoIsTheHistory
  <2>. DEFINE since == {s \in DropStarts : s >= ServoOn}
              durations == {Duration(s) : s \in since \cap ClosedStarts}
              l == p.longest_since_servo_ns
  <2>. SUFFICES ASSUME HistoryInv, ServoInv, ~p.held
                PROVE  /\ p.servo_since_ns = samples[ServoOn].t
                       /\ p.unlock_count - p.count_at_servo = Cardinality(since)
                       /\ \A d \in durations : d <= l
                       /\ l \in durations \cup {0}
    BY DEF SinceServoIsTheHistory
  <2>1. /\ Len(samples) \in Nat
        /\ IsFiniteSet(DropStarts) /\ p.count_at_servo \in Nat
    <3>1. p \in Pid /\ Len(samples) \in Nat
      BY DEF HistoryInv, Inv, TypeOK, Recorded
    <3>. QED
      BY <3>1, PidFields DEF Fields, HistoryInv, Counted
  <2>2. PICK k : SinceOn(k)
    BY DEF ServoInv
  <2>3. ServoOn = k
    BY <2>1, <2>2, OnIsChosen DEF SinceOn
  <2>4. since = Since(k)
    BY <2>3 DEF Since
  <2>5. ClosedStarts = {s \in DropStarts : Over(s)}
    BY <2>1, ClosedAreOver DEF ClosedOver
  <2>6. \A s : s \in since \cap ClosedStarts <=> s \in Since(k) /\ Over(s)
    BY <2>4, <2>5, Zenon DEF Since
  <2>. HIDE DEF since, l
  <2>7. /\ \A d \in durations : \E s \in Since(k) : Over(s) /\ d = Duration(s)
        /\ \A s \in Since(k) : Over(s) => Duration(s) \in durations
    BY <2>6, Zenon
  <2>8. p.unlock_count - p.count_at_servo = Cardinality(since)
    <3>1. IsFiniteSet(Since(k))
      <4>1. Since(k) \subseteq DropStarts
        BY DEF Since
      <4>. QED
        BY <2>1, <4>1, FS_Subset
    <3>2. Cardinality(Since(k)) \in Nat
      BY <3>1, FS_CardinalityType
    <3>. QED
      BY <2>1, <2>2, <2>4, <3>2 DEF SinceOn
  <2>. HIDE DEF durations
  <2>. QED
    BY <2>2, <2>3, <2>7, <2>8, Zenon DEF SinceOn, l
<1>. QED
  BY <1>1, HistoryInvHolds, ServoInvHolds, PTL

-----------------------------------------------------------------------------
(***************************************************************************)
(* The ring of events and the durations.                                   *)
(***************************************************************************)

(* What a poll does to the ring and to the total of the closed drops.      *)
LEMMA RingCases ==
  ASSUME HistoryInv, HNext, NEW n, n = Len(samples)
  PROVE  \/ /\ Starts /\ (CountedFall(n + 1))' /\ ~(Settled(n + 1))'
            /\ Keeps(p, p') /\ p'.drop_base_ns = p.unlocked_ns
         \/ /\ NoDrop /\ ~(CountedFall(n + 1))'
            /\ Keeps(p, p') /\ p'.unlocked_ns = p.unlocked_ns
         \/ /\ GoesOn /\ ~(Settled(n + 1))'
            /\ Keeps(p, p') /\ p'.drop_base_ns = p.drop_base_ns
         \/ /\ Stops /\ (Settled(n + 1))'
            /\ Pushes(p, p', (EndTime(n + 1))')
<1>. DEFINE S == (Settled(n + 1))'
            C == (CountedFall(n + 1))'
            B == (samples[StretchStart(n + 1)].t)'
            E == (EndTime(n + 1))'
<1>1. /\ Polled(p, p', now') /\ n \in Nat
      /\ samples'[n + 1] = [t |-> now', locked |-> p'.raw_locked, held |-> p'.held]
  BY PollGrows DEF Grows
<1>2. PICK b : b = IF p.raw_locked THEN samples[StretchStart(n)].t ELSE now'
  OBVIOUS
<1>3. /\ S <=> p'.held \/ (p'.raw_locked /\ now' - b >= MergeNs)
      /\ C <=> Falls(p, p', now') /\ ~p'.held
      /\ p'.raw_locked => B = b
  BY <1>2, PollHistory
<1>4. p.drop_open => streak(p, now') = b
  BY <1>2, Zenon DEF HistoryInv, StreakIsStretch, streak
<1>5. E = IF p'.held THEN now' ELSE B
  BY <1>1 DEF EndTime
<1>. HIDE DEF S, C, B, E
<1>. SUFFICES \/ /\ Starts /\ C /\ ~S
                 /\ Keeps(p, p') /\ p'.drop_base_ns = p.unlocked_ns
              \/ /\ NoDrop /\ ~C
                 /\ Keeps(p, p') /\ p'.unlocked_ns = p.unlocked_ns
              \/ /\ GoesOn /\ ~S
                 /\ Keeps(p, p') /\ p'.drop_base_ns = p.drop_base_ns
              \/ /\ Stops /\ S /\ Pushes(p, p', E)
  BY DEF S, C, E
<1>6. CASE TurnsOff(p, p', now')
  BY <1>3, <1>5, <1>6, Zenon DEF TurnsOff, EndsOpen, NoDrop, Stops
<1>7. CASE ~p'.held /\ Opens(p, p', now')
  BY <1>3, <1>7, Zenon DEF Opens, Falls, Starts
<1>8. CASE ~p'.held /\ Rests(p, p', now')
  BY <1>3, <1>8, Zenon DEF Rests, NoDrop
<1>9. CASE ~p'.held /\ StaysOpen(p, p', now')
  BY <1>3, <1>4, <1>9, Zenon DEF StaysOpen, GoesOn
<1>10. CASE ~p'.held /\ Closes(p, p', now')
  <2>1. E = streak(p, now')
    BY <1>3, <1>4, <1>5, <1>10, Zenon DEF Closes
  <2>. QED
    BY <1>3, <1>4, <1>10, <2>1, Zenon DEF Closes, Stops
<1>. QED
  BY <1>1, <1>6, <1>7, <1>8, <1>9, <1>10, Zenon DEF Polled

(* A drop is closed when the open one is settled, and it started after the *)
(* drops closed before it; these keep their start and their duration.      *)
LEMMA ClosedGrow ==
  ASSUME HistoryInv, HNext, NEW n, n = Len(samples)
  PROVE  /\ IsFiniteSet(ClosedStarts) /\ ClosedStarts \subseteq Nat
         /\ \A r \in ClosedStarts : samples'[r] = samples[r] /\ Duration(r)' = Duration(r)
         /\ ~Stops => ClosedStarts' = ClosedStarts
         /\ Stops => \E s \in Nat :
               /\ \A r \in ClosedStarts : r < s
               /\ ClosedStarts' = ClosedStarts \cup {s}
               /\ samples'[s].t = p.last_unlock_start_ns
               /\ Duration(s)' = (EndTime(n + 1))' - p.last_unlock_start_ns
<1>1. PICK x : Grows(n, x)
  BY PollGrows
<1>2. /\ n \in Nat \ {0} /\ Len(samples') = n + 1 /\ n + 1 \in Nat
      /\ \A i \in 1 .. n : samples'[i] = samples[i]
      /\ Stretches
  BY <1>1 DEF Grows, HistoryInv
<1>. DEFINE S == (Settled(n + 1))'
            C == (CountedFall(n + 1))'
<1>3. p.drop_open <=> InDrop(n)
  BY DEF HistoryInv, OpenIsInDrop
<1>4. /\ DropStarts \subseteq 2 .. n
      /\ C /\ ~p.drop_open => DropStarts' = DropStarts \cup {n + 1}
      /\ ~(C /\ ~p.drop_open) => DropStarts' = DropStarts
      /\ \A s \in 1 .. n : Over(s)' <=> Over(s) \/ S
      /\ (Over(n + 1))' <=> S
  BY <1>1, <1>2, <1>3, DropStartsGrow, OverGrows, Zenon
<1>5. /\ \A s \in DropStarts : s \in 1 .. n /\ s \in Nat
      /\ n + 1 \notin DropStarts
  BY <1>2, <1>4
<1>6. /\ ClosedStarts = {s \in DropStarts : Over(s)}
      /\ ClosedStarts' = {s \in DropStarts' : Over(s)'}
  <2>1. ClosedOver'
    BY ClosedAreOver, PTL
  <2>. QED
    BY <1>2, <2>1, ClosedAreOver DEF ClosedOver
<1>7. IsFiniteSet(ClosedStarts) /\ ClosedStarts \subseteq Nat
  <2>1. IsFiniteSet(DropStarts) /\ ClosedStarts \subseteq DropStarts
    BY <1>6 DEF HistoryInv, Counted
  <2>. QED
    BY <1>5, <2>1, FS_Subset
<1>8. \A r \in ClosedStarts : samples'[r] = samples[r] /\ Duration(r)' = Duration(r)
  BY <1>1, <1>2, <1>5, <1>6, OldDuration
<1>9. \/ Starts /\ C /\ ~S
      \/ NoDrop /\ ~C
      \/ GoesOn /\ ~S
      \/ Stops /\ S
  BY PollCases
<1>. HIDE DEF S, C
<1>10. ASSUME ~Stops PROVE ClosedStarts' = ClosedStarts
  <2>1. CASE Starts /\ C /\ ~S
    BY <1>4, <1>5, <1>6, <2>1, Zenon DEF Starts
  <2>2. CASE NoDrop /\ ~C
    <3>1. DropStarts' = DropStarts /\ \A s \in DropStarts : Over(s) /\ Over(s)'
      BY <1>4, <1>5, <2>2, Zenon DEF NoDrop, HistoryInv, OneOpen
    <3>. QED
      BY <1>6, <3>1, Zenon
  <2>3. CASE GoesOn /\ ~S
    BY <1>4, <1>5, <1>6, <2>3, Zenon DEF GoesOn
  <2>. QED
    BY <1>9, <1>10, <2>1, <2>2, <2>3
<1>11. ASSUME Stops
       PROVE  \E s \in Nat :
               /\ \A r \in ClosedStarts : r < s
               /\ ClosedStarts' = ClosedStarts \cup {s}
               /\ samples'[s].t = p.last_unlock_start_ns
               /\ Duration(s)' = (EndTime(n + 1))' - p.last_unlock_start_ns
  <2>1. S
    BY <1>9, <1>11, Zenon DEF Starts, NoDrop, GoesOn, Stops
  <2>2. PICK s \in DropStarts : /\ ~Over(s) /\ samples[s].t = p.last_unlock_start_ns
                                /\ \A r \in DropStarts : ~Over(r) => r = s
    BY <1>11, Zenon DEF Stops, HistoryInv, OneOpen
  <2>3. s \in 1 .. n /\ s \in Nat
    BY <1>5, <2>2
  <2>4. ClosedStarts' = ClosedStarts \cup {s}
    <3>1. DropStarts' = DropStarts /\ \A r \in DropStarts : Over(r)'
      BY <1>4, <1>5, <1>11, <2>1, Zenon DEF Stops
    <3>. QED
      BY <1>6, <2>2, <3>1, Zenon
  <2>5. \A r \in ClosedStarts : r < s
    <3>. SUFFICES ASSUME NEW r \in ClosedStarts, ~(r < s) PROVE FALSE
      OBVIOUS
    <3>1. r \in 1 .. n /\ Over(r)
      BY <1>5, <1>6
    <3>2. PICK j \in r .. n : Settled(j)
      BY <3>1, Zenon DEF Over
    <3>3. j \in s .. n
      BY <1>2, <2>3, <3>1, SMT
    <3>. QED
      BY <2>2, <3>2, <3>3, Zenon DEF Over
  <2>6. Duration(s)' = (EndTime(n + 1))' - samples[s].t
    BY <1>1, <1>2, <2>1, <2>2, <2>3, NewDuration DEF S
  <2>7. samples'[s].t = p.last_unlock_start_ns
    BY <1>2, <2>2, <2>3
  <2>. QED
    BY <2>2, <2>3, <2>4, <2>5, <2>6, <2>7
<1>. QED
  BY <1>7, <1>8, <1>10, <1>11

(* How many members of a set are at most s, as the set gets a new greatest *)
(* member.                                                                 *)
LEMMA RankGrows ==
  ASSUME NEW S, IsFiniteSet(S), S \subseteq Nat, NEW s \in Nat,
         \A r \in S : r < s
  PROVE  LET T == S \cup {s}
             n == Cardinality(S)
         IN  /\ n \in Nat /\ Cardinality(T) = n + 1
             /\ \A r \in S : {q \in T : q <= r} = {q \in S : q <= r}
             /\ Cardinality({q \in T : q <= s}) = n + 1
             /\ \A r \in S : Cardinality({q \in S : q <= r}) # n + 1
<1>. DEFINE T == S \cup {s}
            n == Cardinality(S)
<1>1. s \notin S
  OBVIOUS
<1>2. n \in Nat /\ Cardinality(T) = n + 1
  BY <1>1, FS_CardinalityType, FS_AddElement
<1>3. \A r \in S : {q \in T : q <= r} = {q \in S : q <= r}
  OBVIOUS
<1>4. {q \in T : q <= s} = T
  <2>1. \A q \in T : q <= s
    OBVIOUS
  <2>. QED
    BY <2>1
<1>5. ASSUME NEW r \in S PROVE Cardinality({q \in S : q <= r}) # n + 1
  <2>1. {q \in S : q <= r} \subseteq S
    OBVIOUS
  <2>2. Cardinality({q \in S : q <= r}) <= n
    BY <2>1, FS_Subset
  <2>. QED
    BY <1>2, <2>2
<1>. QED
  BY <1>2, <1>3, <1>4, <1>5

Nth(i) == CHOOSE s \in NthStart(i) : TRUE

(* The drops, one by one. *)
DropsAre ==
    Cardinality(ClosedStarts) \in Nat =>
       /\ Len(Drops) = Cardinality(ClosedStarts)
       /\ \A i \in 1 .. Cardinality(ClosedStarts) :
             Drops[i] = [index |-> i, start_ns |-> samples[Nth(i)].t,
                         duration_ns |-> Duration(Nth(i))]

LEMMA DropByDrop == DropsAre
  BY DEF DropsAre, Drops, Nth

LEMMA NthIsClosed ==
  ASSUME NEW i, NthStart(i) # {} PROVE Nth(i) \in ClosedStarts
  BY DEF Nth, NthStart

EachHasStart == \A i \in 1 .. Cardinality(ClosedStarts) : NthStart(i) # {}

(* The drop that a poll that stops one adds to the history.                *)
Stopped(n) ==
    [index |-> Cardinality(ClosedStarts) + 1, start_ns |-> p.last_unlock_start_ns,
     duration_ns |-> (EndTime(n))' - p.last_unlock_start_ns]

(* A poll adds the drop it stops at the end of the drops, or leaves them   *)
(* as they are.                                                            *)
LEMMA DropsGrow ==
  ASSUME HistoryInv, HNext, EachHasStart, NEW n, n = Len(samples)
  PROVE  /\ EachHasStart'
         /\ Cardinality(ClosedStarts) \in Nat
         /\ Len(Drops) = Cardinality(ClosedStarts)
         /\ Len(Drops') = Cardinality(ClosedStarts')
         /\ \A i \in 1 .. Len(Drops) : Drops'[i] = Drops[i] /\ Drops[i].index = i
         /\ ~Stops => Cardinality(ClosedStarts') = Cardinality(ClosedStarts)
         /\ Stops => /\ Cardinality(ClosedStarts') = Cardinality(ClosedStarts) + 1
                     /\ Drops'[Len(Drops) + 1] = Stopped(n + 1)
<1>. DEFINE N == Cardinality(ClosedStarts)
<1>1. /\ IsFiniteSet(ClosedStarts) /\ ClosedStarts \subseteq Nat
      /\ \A r \in ClosedStarts : samples'[r] = samples[r] /\ Duration(r)' = Duration(r)
      /\ ~Stops => ClosedStarts' = ClosedStarts
      /\ Stops => \E s \in Nat :
               /\ \A r \in ClosedStarts : r < s
               /\ ClosedStarts' = ClosedStarts \cup {s}
               /\ samples'[s].t = p.last_unlock_start_ns
               /\ Duration(s)' = (EndTime(n + 1))' - p.last_unlock_start_ns
  BY ClosedGrow
<1>2. N \in Nat
  BY <1>1, FS_CardinalityType
<1>3. /\ Len(Drops) = N
      /\ \A i \in 1 .. N : Drops[i] = [index |-> i, start_ns |-> samples[Nth(i)].t,
                                       duration_ns |-> Duration(Nth(i))]
  BY <1>2, DropByDrop DEF DropsAre
<1>4. DropsAre'
  BY DropByDrop, PTL
<1>5. \A i \in 1 .. N : NthStart(i) # {} /\ Nth(i) \in ClosedStarts
  BY NthIsClosed DEF EachHasStart
<1>6. ASSUME N' \in Nat, N <= N', \A i \in 1 .. N : NthStart(i)' = NthStart(i)
      PROVE  /\ Len(Drops') = N'
             /\ \A i \in 1 .. N : Drops'[i] = Drops[i] /\ Drops[i].index = i
  <2>1. \A i \in 1 .. N : i \in 1 .. N'
    BY <1>2, <1>6
  <2>2. Len(Drops') = N'
    BY <1>4, <1>6 DEF DropsAre
  <2>3. ASSUME NEW i \in 1 .. N
        PROVE  Drops'[i] = Drops[i] /\ Drops[i].index = i
    <3>1. Drops'[i] = [index |-> i, start_ns |-> (samples[Nth(i)].t)',
                       duration_ns |-> (Duration(Nth(i)))']
      BY <1>4, <1>6, <2>1, <2>3 DEF DropsAre
    <3>2. PICK r : r = Nth(i)
      OBVIOUS
    <3>3. Nth(i)' = r /\ r \in ClosedStarts
      BY <1>5, <1>6, <3>2, Zenon DEF Nth
    <3>4. (samples[Nth(i)].t)' = samples[r].t /\ (Duration(Nth(i)))' = Duration(r)
      BY <1>1, <3>3
    <3>. QED
      BY <1>3, <3>1, <3>2, <3>4
  <2>. QED
    BY <2>2, <2>3
<1>7. CASE ~Stops
  <2>1. ClosedStarts' = ClosedStarts
    BY <1>1, <1>7
  <2>2. \A i : NthStart(i)' = NthStart(i)
    BY <2>1 DEF NthStart
  <2>3. N' = N
    BY <2>1
  <2>4. EachHasStart'
    BY <2>2, <2>3 DEF EachHasStart
  <2>. QED
    BY <1>2, <1>3, <1>6, <1>7, <2>2, <2>3, <2>4
<1>8. CASE Stops
  <2>1. PICK s \in Nat :
               /\ \A r \in ClosedStarts : r < s
               /\ ClosedStarts' = ClosedStarts \cup {s}
               /\ samples'[s].t = p.last_unlock_start_ns
               /\ Duration(s)' = (EndTime(n + 1))' - p.last_unlock_start_ns
    BY <1>1, <1>8
  <2>. DEFINE T == ClosedStarts \cup {s}
              rank(r) == Cardinality({q \in ClosedStarts : q <= r})
              newRank(r) == Cardinality({q \in T : q <= r})
  <2>2. PICK k : k = N + 1
    OBVIOUS
  <2>3. /\ Cardinality(T) = k /\ newRank(s) = k
        /\ \A r \in ClosedStarts : newRank(r) = rank(r) /\ rank(r) # k
    <3>1. /\ Cardinality(T) = N + 1
          /\ \A r \in ClosedStarts : {q \in T : q <= r} = {q \in ClosedStarts : q <= r}
          /\ Cardinality({q \in T : q <= s}) = N + 1
          /\ \A r \in ClosedStarts : Cardinality({q \in ClosedStarts : q <= r}) # N + 1
      BY <1>1, <2>1, RankGrows
    <3>. HIDE DEF N, T
    <3>. QED
      BY <2>2, <3>1, Zenon
  <2>4. /\ \A i : NthStart(i)' = {r \in T : newRank(r) = i}
        /\ \A i : NthStart(i) = {r \in ClosedStarts : rank(r) = i}
    BY <2>1 DEF NthStart
  <2>5. N' = k
    BY <2>1, <2>3
  <2>6. /\ k \in Nat /\ k \in 1 .. k /\ N <= k
        /\ \A i \in 1 .. k : i \in 1 .. N \/ i = k
        /\ \A i \in 1 .. N : i # k
    BY <1>2, <2>2
  <2>. HIDE DEF rank, newRank
  <2>7. ASSUME NEW i \in 1 .. N PROVE NthStart(i)' = NthStart(i)
    <3>1. \A r : r \in NthStart(i)' <=> r \in NthStart(i)
      BY <2>3, <2>4, <2>6, Zenon
    <3>. QED
      BY <3>1, Zenon
  <2>8. NthStart(k)' = {s}
    <3>1. \A r : r \in NthStart(k)' <=> r = s
      BY <2>3, <2>4, Zenon
    <3>. QED
      BY <3>1, Zenon
  <2>9. EachHasStart'
    <3>. SUFFICES ASSUME NEW i \in 1 .. k PROVE NthStart(i)' # {}
      BY <2>5 DEF EachHasStart
    <3>. QED
      BY <1>5, <2>6, <2>7, <2>8
  <2>10. Drops'[k] = Stopped(n + 1)
    <3>1. Drops'[k] = [index |-> k, start_ns |-> (samples[Nth(k)].t)',
                       duration_ns |-> (Duration(Nth(k)))']
      BY <1>4, <2>5, <2>6 DEF DropsAre
    <3>2. Nth(k)' = s
      BY <2>8, ChooseOne, Zenon DEF Nth
    <3>. QED
      BY <2>1, <2>2, <3>1, <3>2 DEF Stopped
  <2>. QED
    BY <1>2, <1>3, <1>6, <1>8, <2>2, <2>5, <2>6, <2>7, <2>9, <2>10
<1>. QED
  BY <1>7, <1>8

Agree(f, g, i) == f[i] = g[i]

(* Two functions that agree at lo, and at each i where they agree at i - 1, *)
(* agree up to hi.                                                         *)
LEMMA SameUpTo ==
  ASSUME NEW lo \in Nat, NEW hi \in Nat, NEW f, NEW g, Agree(f, g, lo),
         \A i \in lo .. hi : i # lo /\ Agree(f, g, i - 1) => Agree(f, g, i)
  PROVE  \A i \in lo .. hi : Agree(f, g, i)
<1>. USE DEF Agree
<1>. DEFINE T == {i \in lo .. hi : f[i] # g[i]}
<1>. SUFFICES ASSUME T # {} PROVE FALSE
  BY Zenon
<1>1. T \subseteq Nat
  OBVIOUS
<1>2. PICK m \in T : \A y \in T : m <= y
  <2>. HIDE DEF T
  <2>. QED
    BY <1>1, LeastOf
<1>3. m \in lo .. hi /\ f[m] # g[m] /\ m # lo
  BY <1>2
<1>4. m - 1 \in lo .. hi /\ ~(m <= m - 1)
  BY <1>3
<1>5. f[m - 1] = g[m - 1]
  BY <1>2, <1>4
<1>. QED
  BY <1>3, <1>4, <1>5

(* f[i] is the time in the first i drops of d. *)
IsSum(f, d) ==
    f = [i \in 0 .. Len(d) |-> IF i = 0 THEN 0 ELSE f[i - 1] + d[i].duration_ns]

LEMMA SumIsUnique ==
  ASSUME NEW d, Len(d) \in Nat, NEW f, NEW g, IsSum(f, d), IsSum(g, d)
  PROVE  f[Len(d)] = g[Len(d)]
<1>. DEFINE n == Len(d)
<1>1. /\ \A i \in 0 .. n : f[i] = IF i = 0 THEN 0 ELSE f[i - 1] + d[i].duration_ns
      /\ \A i \in 0 .. n : g[i] = IF i = 0 THEN 0 ELSE g[i - 1] + d[i].duration_ns
  BY Zenon DEF IsSum
<1>. HIDE DEF n
<1>2. n \in Nat /\ 0 \in Nat /\ 0 \in 0 .. n /\ n \in 0 .. n
  BY DEF n
<1>3. f[0] = g[0]
  BY <1>1, <1>2
<1>4. /\ \A i \in 0 .. n : i # 0 /\ Agree(f, g, i - 1) => Agree(f, g, i)
      /\ Agree(f, g, 0)
  BY <1>1, <1>3, Zenon DEF Agree
<1>5. \A i \in 0 .. n : Agree(f, g, i)
  BY <1>2, <1>4, SameUpTo, Zenon
<1>. QED
  BY <1>2, <1>5 DEF n, Agree

LEMMA UnlockedInIs ==
  ASSUME NEW d, Len(d) \in Nat, NEW f, IsSum(f, d)
  PROVE  UnlockedIn(d)[Len(d)] = f[Len(d)]
<1>1. IsSum(UnlockedIn(d), d)
  <2>1. UnlockedIn(d) = CHOOSE g : IsSum(g, d)
    BY DEF UnlockedIn, IsSum
  <2>. QED
    BY <2>1, Zenon
<1>. QED
  BY <1>1, SumIsUnique

LEMMA SumsStay ==
  ASSUME NEW d, NEW e, NEW f, Len(d) \in Nat, Len(e) = Len(d),
         \A i \in 1 .. Len(d) : e[i] = d[i], IsSum(f, d)
  PROVE  IsSum(f, e)
<1>1. \A i \in 0 .. Len(d) : i = 0 \/ e[i] = d[i]
  OBVIOUS
<1>2. [i \in 0 .. Len(d) |-> IF i = 0 THEN 0 ELSE f[i - 1] + d[i].duration_ns]
      = [i \in 0 .. Len(e) |-> IF i = 0 THEN 0 ELSE f[i - 1] + e[i].duration_ns]
  BY <1>1
<1>. QED
  BY <1>2, Zenon DEF IsSum

(* e has one more drop than d. *)
OneMore(d, e, n) ==
    Len(d) = n /\ Len(e) = n + 1 /\ \A i \in 1 .. n : e[i] = d[i]

OneMoreSum(g, e, f, n) ==
    IsSum(g, e) /\ g[n + 1] = f[n] + e[n + 1].duration_ns

LEMMA SumsGrow ==
  ASSUME NEW d, NEW e, NEW f, NEW n \in Nat, OneMore(d, e, n), IsSum(f, d)
  PROVE  \E g : OneMoreSum(g, e, f, n)
<1>. USE DEF OneMore, OneMoreSum
<1>. DEFINE g == [i \in 0 .. n + 1 |-> IF i <= n THEN f[i] ELSE f[n] + e[n + 1].duration_ns]
<1>1. \A i \in 0 .. n : f[i] = IF i = 0 THEN 0 ELSE f[i - 1] + d[i].duration_ns
  BY Zenon DEF IsSum
<1>2. ASSUME NEW i \in 0 .. n + 1
      PROVE  g[i] = IF i = 0 THEN 0 ELSE g[i - 1] + e[i].duration_ns
  <2>1. CASE i = 0
    BY <1>1, <2>1
  <2>2. CASE i # 0 /\ i <= n
    <3>1. i \in 1 .. n /\ i \in 0 .. n + 1 /\ i - 1 \in 0 .. n + 1 /\ i - 1 <= n
          /\ i \in 0 .. n
      BY <2>2
    <3>2. g[i] = f[i] /\ g[i - 1] = f[i - 1]
      BY <2>2, <3>1
    <3>. HIDE DEF g
    <3>. QED
      BY <1>1, <2>2, <3>1, <3>2
  <2>3. CASE i = n + 1
    <3>1. n \in 0 .. n + 1 /\ n + 1 \in 0 .. n + 1 /\ i - 1 = n /\ i # 0 /\ n <= n
          /\ ~(n + 1 <= n)
      BY <2>3
    <3>2. g[n + 1] = f[n] + e[n + 1].duration_ns /\ g[n] = f[n]
      BY <3>1
    <3>. HIDE DEF g
    <3>. QED
      BY <2>3, <3>1, <3>2
  <2>. QED
    BY <2>1, <2>2, <2>3
<1>3. IsSum(g, e)
  <2>1. g = [i \in 0 .. n + 1 |-> g[i]]
    OBVIOUS
  <2>. HIDE DEF g
  <2>2. [i \in 0 .. n + 1 |-> g[i]]
        = [i \in 0 .. n + 1 |-> IF i = 0 THEN 0 ELSE g[i - 1] + e[i].duration_ns]
    BY <1>2, Zenon
  <2>. QED
    BY <2>1, <2>2, Zenon DEF IsSum
<1>4. g[n + 1] = f[n] + e[n + 1].duration_ns
  OBVIOUS
<1>. QED
  BY <1>3, <1>4, Zenon

(* Two positions less than a ring apart are in different slots. *)
LEMMA SlotsDiffer ==
  ASSUME NEW a \in Nat, NEW b \in Nat, a < b, b - a < EVENTS
  PROVE  a % EVENTS # b % EVENTS
<1>1. ASSUME NEW c \in Nat
      PROVE  \E q \in Int : c = EVENTS * q + (c % EVENTS)
  <2>1. c = EVENTS * (c \div EVENTS) + (c % EVENTS) /\ c \div EVENTS \in Int
    BY EventsAssumption
  <2>. QED
    BY <2>1
<1>2. PICK q \in Int : a = EVENTS * q + (a % EVENTS)
  BY <1>1
<1>3. PICK r \in Int : b = EVENTS * r + (b % EVENTS)
  BY <1>1
<1>. SUFFICES ASSUME a % EVENTS = b % EVENTS PROVE FALSE
  OBVIOUS
<1>4. PICK k \in Int : k = r - q
  OBVIOUS
<1>5. a % EVENTS \in Int /\ EVENTS \in Nat \ {0}
  BY EventsAssumption, SlotInRing
<1>6. b - a = EVENTS * k
  BY <1>2, <1>3, <1>4, <1>5
<1>7. CASE k <= 0
  <2>1. EVENTS * k <= 0
    BY <1>5, <1>7
  <2>. QED
    BY <1>6, <2>1
<1>8. CASE k >= 1
  <2>1. EVENTS * k >= EVENTS
    BY <1>5, <1>8
  <2>. QED
    BY <1>5, <1>6, <2>1
<1>. QED
  BY <1>7, <1>8

-----------------------------------------------------------------------------
(* The newest EVENTS drops of the history are in their slots of the ring.  *)
InSlots ==
    \A i \in 1 .. Len(Drops) :
       i > Len(Drops) - EVENTS => p.events[(i - 1) % EVENTS] = Drops[i]

(* The total of the record, without the drop that is open. *)
ClosedTotal == IF p.drop_open THEN p.drop_base_ns ELSE p.unlocked_ns

Summed == \E f : IsSum(f, Drops) /\ f[Len(Drops)] = ClosedTotal

RingInv == EachHasStart /\ InSlots /\ Summed

(* The number of drops and the head of the ring. *)
LEMMA HeadIsLast ==
  ASSUME HistoryInv
  PROVE  /\ p \in Pid /\ p.event_head \in Nat
         /\ p.event_head = Cardinality(ClosedStarts)
         /\ Len(Drops) = p.event_head
<1>1. p \in Pid /\ CountsTheDrops
  BY HistoryCounts DEF HistoryInv, Inv, TypeOK
<1>2. p.event_head \in Nat /\ p.event_head = Cardinality(ClosedStarts)
  BY <1>1, PidFields DEF Fields, CountsTheDrops
<1>. QED
  BY <1>1, <1>2, DropByDrop DEF DropsAre

LEMMA StoppedFillsSlots ==
  ASSUME NEW q \in Pid, NEW r, NEW e, NEW n \in Nat, q.event_head = n,
         Pushes(q, r, e)
  PROVE  /\ r.events[n % EVENTS] =
               [index |-> n + 1, start_ns |-> q.last_unlock_start_ns,
                duration_ns |-> e - q.last_unlock_start_ns]
         /\ \A i \in 1 .. n : i > (n + 1) - EVENTS =>
               r.events[(i - 1) % EVENTS] = q.events[(i - 1) % EVENTS]
<1>1. q.events \in [0 .. EVENTS - 1 -> Event]
  BY PidFields
<1>2. r.events = [q.events EXCEPT ![n % EVENTS] =
                   [index |-> n + 1, start_ns |-> q.last_unlock_start_ns,
                    duration_ns |-> e - q.last_unlock_start_ns]]
  BY Zenon DEF Pushes
<1>3. n % EVENTS \in 0 .. EVENTS - 1
  BY SlotInRing
<1>4. ASSUME NEW i \in 1 .. n, i > (n + 1) - EVENTS
      PROVE  r.events[(i - 1) % EVENTS] = q.events[(i - 1) % EVENTS]
  <2>1. i - 1 \in Nat /\ i - 1 < n /\ n - (i - 1) < EVENTS
    BY <1>4, EventsAssumption
  <2>2. (i - 1) % EVENTS \in 0 .. EVENTS - 1 /\ (i - 1) % EVENTS # n % EVENTS
    BY <2>1, SlotInRing, SlotsDiffer
  <2>. QED
    BY <1>1, <1>2, <2>2, Zenon
<1>5. r.events[n % EVENTS] =
               [index |-> n + 1, start_ns |-> q.last_unlock_start_ns,
                duration_ns |-> e - q.last_unlock_start_ns]
  BY <1>1, <1>2, <1>3, Zenon
<1>. QED
  BY <1>4, <1>5

LEMMA PollKeepsRing ==
  ASSUME HistoryInv, RingInv, HNext
  PROVE  RingInv'
<1>1. PICK n : n = Len(samples)
  OBVIOUS
<1>2. PICK N : N = Len(Drops)
  OBVIOUS
<1>3. /\ N \in Nat /\ p \in Pid /\ p.event_head = N /\ Cardinality(ClosedStarts) = N
  BY <1>2, HeadIsLast
<1>4. /\ EachHasStart'
      /\ Len(Drops') = Cardinality(ClosedStarts')
      /\ \A i \in 1 .. N : Drops'[i] = Drops[i]
      /\ ~Stops => Cardinality(ClosedStarts') = N
      /\ Stops => /\ Cardinality(ClosedStarts') = N + 1
                  /\ Drops'[N + 1] = Stopped(n + 1)
  BY <1>1, <1>2, <1>3, DropsGrow DEF RingInv
<1>5. PICK f : IsSum(f, Drops) /\ f[N] = ClosedTotal
  BY <1>2 DEF RingInv, Summed
<1>6. \A i \in 1 .. N : i > N - EVENTS => p.events[(i - 1) % EVENTS] = Drops[i]
  BY <1>2 DEF RingInv, InSlots
<1>7. CASE ~Stops
  <2>1. Len(Drops') = N
    BY <1>4, <1>7
  <2>2. Keeps(p, p') /\ ClosedTotal' = ClosedTotal
    BY <1>1, <1>7, RingCases, Zenon DEF Starts, NoDrop, GoesOn, ClosedTotal
  <2>3. InSlots'
    BY <1>4, <1>6, <2>1, <2>2 DEF InSlots, Keeps
  <2>4. IsSum(f, Drops')
    BY <1>2, <1>3, <1>4, <1>5, <2>1, SumsStay
  <2>5. Summed'
    BY <1>5, <2>1, <2>2, <2>4, Zenon DEF Summed, IsSum
  <2>. QED
    BY <1>4, <2>3, <2>5 DEF RingInv
<1>8. CASE Stops
  <2>1. /\ Len(Drops') = N + 1 /\ Drops'[N + 1] = Stopped(n + 1)
    BY <1>4, <1>8
  <2>2. Pushes(p, p', (EndTime(n + 1))')
    BY <1>1, <1>8, RingCases, Zenon DEF Starts, NoDrop, GoesOn, Stops
  <2>3. PICK e : e = (EndTime(n + 1))'
    OBVIOUS
  <2>4. Pushes(p, p', e)
    BY <2>2, <2>3
  <2>5. Stopped(n + 1) = [index |-> N + 1, start_ns |-> p.last_unlock_start_ns,
                          duration_ns |-> e - p.last_unlock_start_ns]
    BY <1>3, <2>3 DEF Stopped
  <2>6. /\ p'.events[N % EVENTS] = Drops'[N + 1]
        /\ \A i \in 1 .. N : i > (N + 1) - EVENTS =>
               p'.events[(i - 1) % EVENTS] = p.events[(i - 1) % EVENTS]
    <3>1. /\ p'.events[N % EVENTS] =
               [index |-> N + 1, start_ns |-> p.last_unlock_start_ns,
                duration_ns |-> e - p.last_unlock_start_ns]
          /\ \A i \in 1 .. N : i > (N + 1) - EVENTS =>
               p'.events[(i - 1) % EVENTS] = p.events[(i - 1) % EVENTS]
      BY <1>3, <2>4, StoppedFillsSlots, Zenon
    <3>. QED
      BY <2>1, <2>5, <3>1, Zenon
  <2>7. InSlots'
    <3>. SUFFICES ASSUME NEW i \in 1 .. N + 1, i > (N + 1) - EVENTS
                  PROVE  p'.events[(i - 1) % EVENTS] = Drops'[i]
      BY <2>1 DEF InSlots
    <3>1. CASE i = N + 1
      <4>1. i - 1 = N
        BY <1>3, <3>1
      <4>. QED
        BY <2>6, <3>1, <4>1
    <3>2. CASE i # N + 1
      <4>1. i \in 1 .. N /\ i > N - EVENTS
        BY <1>3, <3>2, EventsAssumption
      <4>. QED
        BY <1>4, <1>6, <2>6, <4>1
    <3>. QED
      BY <3>1, <3>2
  <2>8. Drops'[N + 1].duration_ns = e - p.last_unlock_start_ns
    BY <2>1, <2>5
  <2>9. PICK g : /\ IsSum(g, Drops')
                 /\ g[N + 1] = f[N] + Drops'[N + 1].duration_ns
    <3>1. PICK d : d = Drops
      OBVIOUS
    <3>2. PICK b : b = Drops'
      OBVIOUS
    <3>3. OneMore(d, b, N) /\ IsSum(f, d)
      BY <1>2, <1>4, <1>5, <2>1, <3>1, <3>2 DEF OneMore
    <3>4. \E g : OneMoreSum(g, b, f, N)
      BY <1>3, <3>3, SumsGrow, Zenon
    <3>. QED
      BY <3>2, <3>4 DEF OneMoreSum
  <2>10. g[N + 1] = ClosedTotal'
    <3>1. f[N] = p.drop_base_ns
      BY <1>5, <1>8, Zenon DEF ClosedTotal, Stops
    <3>2. ClosedTotal' = p'.unlocked_ns
      BY <1>8, Zenon DEF ClosedTotal, Stops
    <3>3. p'.unlocked_ns = p.drop_base_ns + (e - p.last_unlock_start_ns)
      BY <2>4, Zenon DEF Pushes
    <3>. QED
      BY <2>8, <2>9, <3>1, <3>2, <3>3
  <2>11. Summed'
    BY <2>1, <2>9, <2>10, Zenon DEF Summed, IsSum
  <2>. QED
    BY <1>4, <2>7, <2>11 DEF RingInv
<1>. QED
  BY <1>7, <1>8

LEMMA InitRing == HInit => RingInv
<1>. SUFFICES ASSUME HInit PROVE RingInv
  OBVIOUS
<1>1. HistoryInv
  BY InitHistory
<1>2. /\ ~p.drop_open /\ p.unlocked_ns = 0 /\ p.event_head = 0
  BY DEF HInit, Init, lockstat_init
<1>3. Cardinality(ClosedStarts) = 0 /\ Len(Drops) = 0
  BY <1>1, <1>2, HeadIsLast
<1>4. EachHasStart /\ InSlots
  BY <1>3 DEF EachHasStart, InSlots
<1>5. Summed
  <2>. DEFINE f == [i \in 0 .. 0 |-> 0]
  <2>1. f = [i \in 0 .. 0 |-> IF i = 0 THEN 0 ELSE f[i - 1] + Drops[i].duration_ns]
    <3>1. \A i \in 0 .. 0 : i = 0
      OBVIOUS
    <3>. QED
      BY <3>1
  <2>2. f[0] = 0
    OBVIOUS
  <2>. HIDE DEF f
  <2>3. IsSum(f, Drops)
    BY <1>3, <2>1 DEF IsSum
  <2>. QED
    BY <1>2, <1>3, <2>2, <2>3, Zenon DEF Summed, ClosedTotal
<1>. QED
  BY <1>4, <1>5 DEF RingInv

(* The ring holds the newest drops of the history, each in its slot, and   *)
(* the total is the sum of the drops that are over (close_drop, open_drop, *)
(* for every ring size, merge time, grace and poll schedule).              *)
THEOREM RingInvHolds == HSpec => []RingInv
<1>1. HistoryInv /\ RingInv /\ [HNext]_hvars => RingInv'
  <2>. SUFFICES ASSUME HistoryInv, RingInv, [HNext]_hvars PROVE RingInv'
    OBVIOUS
  <2>1. CASE HNext
    BY <2>1, PollKeepsRing
  <2>2. CASE UNCHANGED hvars
    <3>1. p' = p /\ now' = now /\ samples' = samples
      BY <2>2 DEF hvars, vars
    <3>2. /\ \A s : Settled(s)' <=> Settled(s)
          /\ \A s : StretchStart(s)' = StretchStart(s)
          /\ DropStarts' = DropStarts
      BY <3>1, HistoryStutters
    <3>3. \A s : Ends(s)' = Ends(s)
      BY <3>1, <3>2, Zenon DEF Ends
    <3>4. \A s : Duration(s)' = Duration(s)
      <4>1. \A e : EndTime(e)' = EndTime(e)
        BY <3>1, <3>2, Zenon DEF EndTime
      <4>. QED
        BY <3>1, <3>3, <4>1, Zenon DEF Duration
    <3>5. ClosedStarts' = ClosedStarts
      BY <3>2, <3>3, Zenon DEF ClosedStarts
    <3>6. \A i : NthStart(i)' = NthStart(i)
      BY <3>5, Zenon DEF NthStart
    <3>7. Drops' = Drops
      BY <3>1, <3>4, <3>5, <3>6, Zenon DEF Drops
    <3>8. EachHasStart'
      BY <3>5, <3>6, Zenon DEF RingInv, EachHasStart
    <3>9. InSlots' /\ Summed'
      BY <3>1, <3>7 DEF RingInv, InSlots, Summed, ClosedTotal, IsSum
    <3>. QED
      BY <3>8, <3>9 DEF RingInv
  <2>. QED
    BY <2>1, <2>2
<1>. QED
  BY <1>1, InitRing, HistoryInvHolds, PTL DEF HSpec

(* The total unlocked time is that of the drops of the history: the sum of *)
(* the durations of those that are over, and what an open one has lasted   *)
(* (drop_base_ns, the live total and the exact total of close_drop).       *)
THEOREM DurationsAreSummed == HSpec => []SumsTheDurations
<1>1. HistoryInv /\ RingInv => SumsTheDurations
  <2>. DEFINE n == Len(samples)
              lasted == IF samples[n].locked THEN samples[StretchStart(n)].t ELSE now
  <2>. SUFFICES ASSUME HistoryInv, RingInv
                PROVE  LET closed == UnlockedIn(Drops)[Len(Drops)]
                       IN  IF DropStarts = ClosedStarts
                           THEN p.unlocked_ns = closed
                           ELSE \E s \in DropStarts \ ClosedStarts :
                                   p.unlocked_ns - closed
                                      \in lasted - samples[s].t .. now - samples[s].t
    BY Zenon DEF SumsTheDurations
  <2>1. Len(Drops) \in Nat /\ p \in Pid /\ Len(samples) \in Nat
    BY HeadIsLast DEF HistoryInv, Recorded
  <2>2. UnlockedIn(Drops)[Len(Drops)] = ClosedTotal
    <3>1. PICK f : IsSum(f, Drops) /\ f[Len(Drops)] = ClosedTotal
      BY DEF RingInv, Summed
    <3>2. PICK d : d = Drops
      OBVIOUS
    <3>3. Len(d) \in Nat /\ IsSum(f, d)
      BY <2>1, <3>1, <3>2
    <3>4. UnlockedIn(d)[Len(d)] = f[Len(d)]
      BY <3>3, UnlockedInIs, Zenon
    <3>. QED
      BY <3>1, <3>2, <3>4
  <2>3. ClosedStarts = {s \in DropStarts : Over(s)}
    BY <2>1, ClosedAreOver DEF ClosedOver
  <2>4. Fields(p) /\ now \in Nat
    BY <2>1, PidFields DEF HistoryInv, Inv, TypeOK
  <2>. HIDE DEF n, lasted
  <2>5. CASE ~p.drop_open
    <3>1. DropStarts = ClosedStarts
      BY <2>3, <2>5, Zenon DEF HistoryInv, OneOpen
    <3>. QED
      BY <2>2, <2>5, <3>1, Zenon DEF ClosedTotal
  <2>6. CASE p.drop_open
    <3>1. PICK s \in DropStarts : ~Over(s) /\ samples[s].t = p.last_unlock_start_ns
      BY <2>6, Zenon DEF HistoryInv, OneOpen
    <3>2. s \in DropStarts \ ClosedStarts
      BY <2>3, <3>1, Zenon
    <3>3. lasted = IF p.raw_locked THEN p.streak_since_ns ELSE now
      <4>1. samples[n].locked = p.raw_locked
        BY DEF HistoryInv, Recorded, n
      <4>2. p.raw_locked => samples[StretchStart(n)].t = p.streak_since_ns
        BY <2>6, Zenon DEF HistoryInv, StreakIsStretch, n
      <4>. QED
        BY <4>1, <4>2 DEF lasted
    <3>4. p.unlocked_ns = p.drop_base_ns + (now - p.last_unlock_start_ns)
      BY <2>6, Zenon DEF HistoryInv, Inv, Flags
    <3>5. p.raw_locked => p.streak_since_ns <= now
      BY <2>4, <2>6 DEF HistoryInv, Inv, Flags, Core, OpenCore, Fields
    <3>6. p.unlocked_ns - p.drop_base_ns
             \in lasted - p.last_unlock_start_ns .. now - p.last_unlock_start_ns
      BY <2>4, <3>3, <3>4, <3>5 DEF Fields
    <3>7. UnlockedIn(Drops)[Len(Drops)] = p.drop_base_ns
      BY <2>2, <2>6 DEF ClosedTotal
    <3>8. DropStarts # ClosedStarts
      BY <3>2
    <3>. QED
      BY <3>1, <3>2, <3>6, <3>7, <3>8, Zenon
  <2>. QED
    BY <2>5, <2>6
<1>. QED
  BY <1>1, HistoryInvHolds, RingInvHolds, PTL

-----------------------------------------------------------------------------
(***************************************************************************)
(* The events that a client reads.                                         *)
(***************************************************************************)

(* out[i] is what the loop of mon_GetUnlockEvents has at slot i. *)
IsRead(out, ring, lo, hi, after) ==
    out = [i \in lo .. hi |->
             IF i = lo THEN <<>>
             ELSE LET ev == ring[(i - 1) % EVENTS]
                  IN  IF ev.index <= after THEN out[i - 1] ELSE Append(out[i - 1], ev)]

LEMMA ReadIsUnique ==
  ASSUME NEW ring, NEW lo \in Nat, NEW hi \in Nat, lo <= hi, NEW after,
         NEW f, NEW g, IsRead(f, ring, lo, hi, after), IsRead(g, ring, lo, hi, after)
  PROVE  Agree(f, g, hi)
<1>. DEFINE Out(h, i) == LET ev == ring[(i - 1) % EVENTS]
                         IN  IF ev.index <= after THEN h ELSE Append(h, ev)
<1>1. /\ \A i \in lo .. hi : f[i] = IF i = lo THEN <<>> ELSE Out(f[i - 1], i)
      /\ \A i \in lo .. hi : g[i] = IF i = lo THEN <<>> ELSE Out(g[i - 1], i)
  BY Zenon DEF IsRead
<1>. HIDE DEF Out
<1>2. lo \in lo .. hi /\ hi \in lo .. hi
  OBVIOUS
<1>3. f[lo] = g[lo]
  BY <1>1, <1>2, Zenon
<1>4. /\ \A i \in lo .. hi : i # lo /\ Agree(f, g, i - 1) => Agree(f, g, i)
      /\ Agree(f, g, lo)
  BY <1>1, <1>3, Zenon DEF Agree
<1>5. \A i \in lo .. hi : Agree(f, g, i)
  BY <1>4, SameUpTo, Zenon
<1>. QED
  BY <1>2, <1>5

(* What the loop reads when the slots hold the entries of d from lo on.    *)
HasTail(ring, d, lo, n) ==
    /\ Len(d) = n
    /\ \A i \in 1 .. n : d[i].index = i
    /\ \A i \in lo + 1 .. n : ring[(i - 1) % EVENTS] = d[i]

ReadsFrom(f, ring, d, lo, n, after) ==
    /\ IsRead(f, ring, lo, n, after)
    /\ f[n] = SubSeq(d, (IF after > lo THEN after ELSE lo) + 1, n)

LEMMA ReadsTail ==
  ASSUME NEW S, NEW d \in Seq(S), NEW ring, NEW n \in Nat,
         NEW lo \in 0 .. n, NEW after \in 0 .. n, HasTail(ring, d, lo, n)
  PROVE  \E f : ReadsFrom(f, ring, d, lo, n, after)
<1>. USE DEF HasTail
<1>. DEFINE a == IF after > lo THEN after ELSE lo
<1>. DEFINE f == [i \in lo .. n |-> IF i <= a THEN <<>> ELSE SubSeq(d, a + 1, i)]
<1>1. ASSUME NEW i \in lo .. n
      PROVE  f[i] = IF i = lo THEN <<>>
                    ELSE LET ev == ring[(i - 1) % EVENTS]
                         IN  IF ev.index <= after THEN f[i - 1] ELSE Append(f[i - 1], ev)
  <2>1. CASE i = lo
    BY <2>1
  <2>2. CASE i # lo
    <3>1. /\ i \in 1 .. n /\ i - 1 \in lo .. n /\ i \in lo + 1 .. n
      BY <2>2
    <3>2. PICK ev : ev = ring[(i - 1) % EVENTS]
      OBVIOUS
    <3>3. ev = d[i] /\ ev.index = i
      BY <3>1, <3>2
    <3>4. CASE i <= after
      <4>1. f[i] = <<>> /\ f[i - 1] = <<>>
        BY <3>1, <3>4
      <4>. QED
        BY <2>2, <3>2, <3>3, <3>4, <4>1, Zenon
    <3>5. CASE ~(i <= after)
      <4>1. ~(i <= a)
        BY <2>2, <3>5
      <4>2. f[i] = SubSeq(d, a + 1, i)
        BY <4>1
      <4>3. f[i - 1] = IF i - 1 <= a THEN <<>> ELSE SubSeq(d, a + 1, i - 1)
        BY <3>1
      <4>. HIDE DEF f
      <4>4. f[i] = Append(f[i - 1], d[i])
        <5>1. CASE i - 1 <= a
          <6>1. i = a + 1 /\ f[i - 1] = <<>>
            BY <4>1, <4>3, <5>1
          <6>2. SubSeq(d, i, i) = Append(SubSeq(d, i, i - 1), d[i])
            BY <3>1
          <6>3. SubSeq(d, i, i - 1) = <<>>
            BY <3>1
          <6>. QED
            BY <4>2, <6>1, <6>2, <6>3
        <5>2. CASE ~(i - 1 <= a)
          <6>1. SubSeq(d, a + 1, i) = Append(SubSeq(d, a + 1, i - 1), d[i])
            BY <3>1, <4>1, <5>2
          <6>. QED
            BY <4>2, <4>3, <5>2, <6>1
        <5>. QED
          BY <5>1, <5>2
      <4>. QED
        BY <2>2, <3>2, <3>3, <3>5, <4>4, Zenon
    <3>. QED
      BY <3>4, <3>5
  <2>. QED
    BY <2>1, <2>2
<1>2. IsRead(f, ring, lo, n, after)
  <2>1. f = [i \in lo .. n |-> f[i]]
    OBVIOUS
  <2>. HIDE DEF f
  <2>2. [i \in lo .. n |-> f[i]] =
           [i \in lo .. n |->
             IF i = lo THEN <<>>
             ELSE LET ev == ring[(i - 1) % EVENTS]
                  IN  IF ev.index <= after THEN f[i - 1] ELSE Append(f[i - 1], ev)]
    BY <1>1, Zenon
  <2>. QED
    BY <2>1, <2>2, Zenon DEF IsRead
<1>3. f[n] = SubSeq(d, a + 1, n)
  <2>1. n \in lo .. n
    OBVIOUS
  <2>2. CASE n <= a
    <3>1. a = n
      BY <2>2
    <3>2. SubSeq(d, n + 1, n) = <<>>
      OBVIOUS
    <3>. QED
      BY <2>1, <2>2, <3>1, <3>2
  <2>3. CASE ~(n <= a)
    BY <2>1, <2>3
  <2>. QED
    BY <2>2, <2>3
<1>. QED
  BY <1>2, <1>3, Zenon DEF ReadsFrom

LEMMA DropsAreASeq ==
  ASSUME Cardinality(ClosedStarts) \in Nat
  PROVE  \E S : Drops \in Seq(S)
<1>. DEFINE n == Cardinality(ClosedStarts)
            S == {Drops[i] : i \in 1 .. n}
<1>1. \A i \in 1 .. n : Drops[i] \in S
  BY Zenon
<1>2. Drops = [i \in 1 .. n |-> Drops[i]]
  BY DEF Drops
<1>. HIDE DEF S, n
<1>3. Drops \in [1 .. n -> S]
  BY <1>1, <1>2
<1>4. n \in Nat
  BY DEF n
<1>5. Drops \in Seq(S)
  BY <1>3, <1>4, SeqDef, Zenon
<1>. QED
  BY <1>5

(* A client that asks for the events after an index is given the drops of  *)
(* the history with a larger index that the ring still has, each once and  *)
(* oldest first (mon_GetUnlockEvents over the ring close_drop fills).      *)
THEOREM EventsAreRead == HSpec => []EventsAreTheHistory
<1>1. HistoryInv /\ RingInv => EventsAreTheHistory
  <2>. SUFFICES ASSUME HistoryInv, RingInv, NEW after \in 0 .. Len(Drops)
                PROVE  mon_GetUnlockEvents(after) =
                          SubSeq(Drops, (IF after > Len(Drops) - EVENTS
                                         THEN after ELSE Len(Drops) - EVENTS) + 1,
                                 Len(Drops))
    BY DEF EventsAreTheHistory
  <2>1. PICK d : d = Drops
    OBVIOUS
  <2>2. PICK n : n = Len(d)
    OBVIOUS
  <2>3. /\ n \in Nat /\ p.event_head = n /\ Cardinality(ClosedStarts) = n
    BY <2>1, <2>2, HeadIsLast
  <2>4. PICK S : d \in Seq(S)
    BY <2>1, <2>3, DropsAreASeq
  <2>5. PICK lo : lo = n - Held
    OBVIOUS
  <2>6. /\ lo \in 0 .. n /\ lo <= n /\ lo \in Nat
        /\ lo = IF n - EVENTS > 0 THEN n - EVENTS ELSE 0
    BY <2>3, <2>5, EventsAssumption DEF Held
  <2>7. after \in 0 .. n
    BY <2>1, <2>2
  <2>8. PICK a : a = IF after > lo THEN after ELSE lo
    OBVIOUS
  <2>9. a = IF after > n - EVENTS THEN after ELSE n - EVENTS
    BY <2>3, <2>6, <2>7, <2>8, EventsAssumption
  <2>10. PICK ring : ring = p.events
    OBVIOUS
  <2>11. \A i \in 1 .. n : d[i].index = i
    BY <2>1, <2>3, DropByDrop DEF DropsAre
  <2>12. \A i \in lo + 1 .. n : ring[(i - 1) % EVENTS] = d[i]
    <3>1. \A i \in lo + 1 .. n : i \in 1 .. n /\ i > n - EVENTS
      BY <2>3, <2>6, EventsAssumption
    <3>2. \A i \in 1 .. n : i > n - EVENTS => ring[(i - 1) % EVENTS] = d[i]
      BY <2>1, <2>2, <2>10, Zenon DEF RingInv, InSlots
    <3>. QED
      BY <3>1, <3>2, Zenon
  <2>13. PICK f : IsRead(f, ring, lo, n, after) /\ f[n] = SubSeq(d, a + 1, n)
    <3>1. HasTail(ring, d, lo, n)
      BY <2>2, <2>11, <2>12, Zenon DEF HasTail
    <3>2. \E g : ReadsFrom(g, ring, d, lo, n, after)
      BY <2>3, <2>4, <2>6, <2>7, <3>1, ReadsTail, Zenon
    <3>. QED
      BY <2>8, <3>2, Zenon DEF ReadsFrom
  <2>14. PICK out : /\ out = CHOOSE g : IsRead(g, ring, lo, n, after)
                    /\ mon_GetUnlockEvents(after) = out[n]
    <3>1. mon_GetUnlockEvents(after) =
             (CHOOSE g : IsRead(g, p.events, p.event_head - Held, p.event_head, after))[p.event_head]
      BY DEF mon_GetUnlockEvents, IsRead
    <3>. QED
      BY <2>3, <2>5, <2>10, <3>1, Zenon
  <2>15. IsRead(out, ring, lo, n, after)
    BY <2>13, <2>14, Zenon
  <2>16. out[n] = f[n]
    <3>1. Agree(out, f, n)
      BY <2>3, <2>6, <2>13, <2>15, ReadIsUnique, Zenon
    <3>. QED
      BY <3>1 DEF Agree
  <2>. QED
    BY <2>1, <2>2, <2>9, <2>13, <2>14, <2>16, Zenon
<1>. QED
  BY <1>1, HistoryInvHolds, RingInvHolds, PTL
=============================================================================
