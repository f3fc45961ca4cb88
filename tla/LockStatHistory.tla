--------------------------- MODULE LockStatHistory ---------------------------
(***************************************************************************)
(* What the lock-drop bookkeeping promises, stated over the whole history  *)
(* of the polled flags, and LockStat with that history.  The definition of *)
(* a drop here looks at the samples only; it keeps no state and shares no  *)
(* operator with lockstat_poll.                                            *)
(***************************************************************************)
EXTENDS LockStat, Sequences, FiniteSets

VARIABLE samples    \* every poll so far: its time and the two flags read

hvars == <<vars, samples>>

Sample(t) == [t |-> t, locked |-> p'.raw_locked, held |-> p'.held]

HInit ==
    /\ Init
    /\ samples = <<[t |-> now, locked |-> p.raw_locked, held |-> p.held]>>

HNext == Next /\ samples' = Append(samples, Sample(now'))

HSpec == HInit /\ [][HNext]_hvars

-----------------------------------------------------------------------------
(* The first sample of the stretch of locked samples that holds sample i.  *)
StretchStart(i) ==
    CHOOSE k \in 1 .. i :
       /\ \A j \in k .. i : samples[j].locked
       /\ k = 1 \/ ~samples[k - 1].locked

(* Sample i ends a drop: the hold is on, or the flag has read locked for   *)
(* MergeNs in a row.                                                       *)
Settled(i) ==
    \/ samples[i].held
    \/ /\ samples[i].locked
       /\ samples[i].t - samples[StretchStart(i)].t >= MergeNs

(* Sample i is a falling edge of the flag with the servo on, after the     *)
(* grace.                                                                  *)
CountedFall(i) ==
    /\ i > 1
    /\ samples[i - 1].locked
    /\ ~samples[i].locked
    /\ ~samples[i].held
    /\ samples[i].t - samples[1].t >= GraceNs

(* Sample i lies in a drop: since some counted fall nothing has settled.   *)
InDrop(i) ==
    \E s \in 1 .. i : CountedFall(s) /\ \A j \in s .. i : ~Settled(j)

DropStarts == {s \in 2 .. Len(samples) : CountedFall(s) /\ ~InDrop(s - 1)}

(* The sample that settles the drop that started at s, or none. *)
Ends(s) == {e \in s .. Len(samples) : Settled(e) /\ \A j \in s .. e - 1 : ~Settled(j)}

(* A drop ends at the sample that turned the hold on, or at the start of   *)
(* the lock stretch that settled it.                                       *)
EndTime(e) ==
    IF samples[e].held THEN samples[e].t ELSE samples[StretchStart(e)].t

ClosedStarts == {s \in DropStarts : Ends(s) # {}}

Duration(s) == EndTime(CHOOSE e \in Ends(s) : TRUE) - samples[s].t

(* The start of the i-th closed drop, or none. *)
NthStart(i) == {s \in ClosedStarts : Cardinality({r \in ClosedStarts : r <= s}) = i}

(* The closed drops, oldest first, as events. *)
Drops ==
    [i \in 1 .. Cardinality(ClosedStarts) |->
       LET s == CHOOSE s \in NthStart(i) : TRUE
       IN  [index |-> i, start_ns |-> samples[s].t, duration_ns |-> Duration(s)]]

(* The time unlocked in the first i of them. *)
UnlockedIn(drops) ==
    LET sum[i \in 0 .. Len(drops)] ==
          IF i = 0 THEN 0 ELSE sum[i - 1] + drops[i].duration_ns
    IN  sum

(* The sample of the last hold on->off edge (or the first sample).         *)
ServoOn ==
    CHOOSE k \in 1 .. Len(samples) :
       /\ \A j \in k .. Len(samples) : ~samples[j].held
       /\ k = 1 \/ samples[k - 1].held

-----------------------------------------------------------------------------
(* The number of events held in the ring. *)
Held == IF p.event_head < EVENTS THEN p.event_head ELSE EVENTS

(* Fault: the event `after` is returned again. *)
mon_GetUnlockEvents_from(after) ==
    LET oldest == p.event_head - Held
        out[i \in oldest .. p.event_head] ==
           IF i = oldest THEN <<>>
           ELSE LET ev == p.events[(i - 1) % EVENTS]
                IN  IF ev.index < after THEN out[i - 1] ELSE Append(out[i - 1], ev)
    IN  out[p.event_head]

(* What mon_GetUnlockEvents (api/src/monitor.c) reads out of the ring: it  *)
(* visits the slots from the oldest event to the head and keeps the events *)
(* with an index above `after`; out[i] is what it has when it is at i.     *)
mon_GetUnlockEvents(after) ==
    LET oldest == p.event_head - Held
        out[i \in oldest .. p.event_head] ==
           IF i = oldest THEN <<>>
           ELSE LET ev == p.events[(i - 1) % EVENTS]
                IN  IF ev.index <= after THEN out[i - 1] ELSE Append(out[i - 1], ev)
    IN  out[p.event_head]

-----------------------------------------------------------------------------
(* Properties.                                                             *)

(* The counters agree with the history: the drops counted are the counted  *)
(* falls no open drop swallowed, one of them is open exactly when the last *)
(* sample lies in a drop (lockstat.h: the rules of a DROP).                *)
CountsTheDrops ==
    /\ p.unlock_count = Cardinality(DropStarts)
    /\ p.drop_open = InDrop(Len(samples))
    /\ p.event_head = Cardinality(ClosedStarts)

(* The time unlocked is the sum of the durations of the drops that are     *)
(* over, exactly; while a drop is open, that and no less than the open drop*)
(* has lasted for certain (to the start of a lock stretch that may still   *)
(* end it) and no more than its age.                                       *)
SumsTheDurations ==
    LET n == Len(samples)
        closed == UnlockedIn(Drops)[Len(Drops)]
        lasted == IF samples[n].locked THEN samples[StretchStart(n)].t ELSE now
    IN  IF DropStarts = ClosedStarts
        THEN p.unlocked_ns = closed
        ELSE \E s \in DropStarts \ ClosedStarts :
                p.unlocked_ns - closed \in lasted - samples[s].t .. now - samples[s].t

(* A client that asks for the drops after an index gets, oldest first, the *)
(* drops of the history with a larger index that are among the last EVENTS *)
(* ones: no drop twice, none skipped.                                      *)
EventsAreTheHistory ==
    \A after \in 0 .. Len(Drops) :
       LET lost == Len(Drops) - EVENTS
           first == (IF after > lost THEN after ELSE lost) + 1
       IN  mon_GetUnlockEvents(after) = SubSeq(Drops, first, Len(Drops))

(* The numbers "since servo on" are those of the drops that began after    *)
(* the last Lock press.                                                    *)
SinceServoIsTheHistory ==
    ~p.held =>
       LET since == {s \in DropStarts : s >= ServoOn}
           durations == {Duration(s) : s \in since \cap ClosedStarts}
       IN  /\ p.servo_since_ns = samples[ServoOn].t
           /\ p.unlock_count - p.count_at_servo = Cardinality(since)
           /\ \A d \in durations : d <= p.longest_since_servo_ns
           /\ p.longest_since_servo_ns \in durations \cup {0}
=============================================================================
