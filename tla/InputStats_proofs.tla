--------------------------- MODULE InputStats_proofs ---------------------------
(***************************************************************************)
(* The input statistics keep their promises, for all decimations, window   *)
(* lengths, channels, consumers and bounds.                                *)
(***************************************************************************)
EXTENDS InputStats, FiniteSetTheorems, WellFoundedInduction, TLAPS

-----------------------------------------------------------------------------
(* The longest window: Decs is finite, so of the sets of the decimations   *)
(* with a longer window than d one is smallest.                            *)
LEMMA MaxBuffersBounds ==
    /\ MaxBuffers \in Nat
    /\ \A d \in Decs : BuffersPerWindow[d] <= MaxBuffers
<1> DEFINE Longer(d) == {e \in Decs : BuffersPerWindow[e] > BuffersPerWindow[d]}
           T == {Longer(d) : d \in Decs}
<1>1. IsWellFoundedOn(StrictSubsetOrdering(Decs), FiniteSubsetsOf(Decs))
  BY FS_StrictSubsetOrderingWellFounded
<1>2. FiniteSubsetsOf(Decs) = SUBSET Decs
  BY FS_FiniteSubsetsOfFinite, DecsAssumption
<1>3. T \subseteq FiniteSubsetsOf(Decs) /\ T # {}
  <2>1. \A d \in Decs : Longer(d) \in SUBSET Decs
    OBVIOUS
  <2>2. Longer(Default) \in T
    BY DecsAssumption
  <2> HIDE DEF Longer
  <2>3. T \subseteq SUBSET Decs
    BY <2>1
  <2> HIDE DEF T
  <2> QED
    BY <1>2, <2>2, <2>3
<1>4. PICK x \in T : \A y \in T : ~(<<y, x>> \in StrictSubsetOrdering(Decs))
  <2> HIDE DEF T
  <2> QED
    BY <1>1, <1>3, WFMin
<1>5. PICK m \in Decs : x = Longer(m)
  BY <1>4
<1>6. ASSUME NEW d \in Decs, BuffersPerWindow[d] > BuffersPerWindow[m]
      PROVE  FALSE
  <2>1. Longer(d) \subseteq Longer(m) /\ d \in Longer(m) /\ d \notin Longer(d)
    BY <1>6, WindowAssumption, SMT
  <2>2. Longer(d) \in T
    OBVIOUS
  <2>3. <<Longer(d), Longer(m)>> \in StrictSubsetOrdering(Decs)
    BY <2>1 DEF StrictSubsetOrdering
  <2> QED
    BY <1>4, <1>5, <2>2, <2>3
<1>7. \A d \in Decs : BuffersPerWindow[d] <= BuffersPerWindow[m]
  BY <1>6, WindowAssumption, SMT
<1>8. \E n \in {BuffersPerWindow[d] : d \in Decs} : \A d \in Decs : BuffersPerWindow[d] <= n
  BY <1>7
<1> HIDE DEF T, Longer
<1>9. /\ MaxBuffers \in {BuffersPerWindow[d] : d \in Decs}
      /\ \A d \in Decs : BuffersPerWindow[d] <= MaxBuffers
  BY <1>8, Zenon DEF MaxBuffers
<1> QED
  BY <1>9, WindowAssumption

-----------------------------------------------------------------------------
(* The inductive invariant.                                                *)

(* The decimation that the settings file stands for. *)
Stored == IF conf = 0 THEN Default ELSE conf

(* The statistics thread holds the lock while it goes through the channels.*)
Holding == {"staging", "filling"}

(* What n buffers of the window under way amount to. *)
Pool(n) == [over |-> IF n = 0 THEN {} ELSE {dec}, n |-> n]

(* A window that is published or staged is a whole one, of one decimation. *)
Whole(w) == w.n > 0 => \E d \in Decs : w.over = {d} /\ w.n = BuffersPerWindow[d]

Scheduled ==
    /\ life = "down" => pc = "done"
    /\ life # "down" => (holder = "stats" <=> pc \in Holding)

(* From the request to the settings file: opts is the stored decimation,   *)
(* but for the step between the two, and the one in use, but for the two   *)
(* steps in which it changes.                                              *)
Remembered ==
    life # "down" =>
       /\ pc \in {"save", "rename"} => request # 0
       /\ pc = "rename" \/ (pc = "configure" /\ request # 0) => opts = request
       /\ dec # 0 /\ pc \notin {"rename", "configure"} => dec = opts
       /\ ~failed /\ pc # "rename" => opts = Stored

(* The samples of every channel are the buffers since the last window or   *)
(* configuration, all at the decimation in use.                            *)
Pooled ==
    /\ dec # 0 => scope = dec
    /\ dec = 0 => buffers = 0 /\ pc \in {"loop", "save", "rename", "configure", "done"}
    /\ dec # 0 /\ pc \notin {"window", "filling", "done"} =>
          /\ buffers < BuffersPerWindow[dec]
          /\ \A ch \in Channels : acc[ch] = Pool(buffers)
    /\ pc \in {"window", "filling"} => buffers = BuffersPerWindow[dec]
    /\ pc = "window" => \A ch \in Channels : acc[ch] = Pool(buffers)
    /\ pc = "filling" => \A ch \in Channels :
          acc[ch] = IF ch \in filled THEN NoSamples ELSE Pool(buffers)

(* While the lock is held the channels differ only by whether the loop has *)
(* done them.                                                              *)
Together ==
    life # "down" => \A c1, c2 \in Channels :
       /\ pc \notin Holding \/ (c1 \in filled <=> c2 \in filled) =>
             staged[c1] = staged[c2]
       /\ pc = "staging" => /\ staged[c1].over = staged[c2].over
                            /\ staged[c1].n = staged[c2].n
                            /\ c1 \in filled => staged[c1].decimation = dec

FilledWhole ==
    pc = "filling" => \A ch \in filled :
       staged[ch] = [over |-> {dec}, n |-> buffers, decimation |-> dec]

StagedWhole == \A ch \in Channels : Whole(staged[ch])

IInv ==
    /\ TypeOK /\ Scheduled /\ Remembered /\ Pooled
    /\ Together /\ FilledWhole /\ StagedWhole
    /\ WindowsArePure /\ ChannelsArePublishedTogether

(* The records the statistics are made of. *)
LEMMA WindowType ==
    /\ NoWindow \in Window /\ NoSamples \in Samples
    /\ \A w \in Window, d \in Decs \cup {0} : [w EXCEPT !.decimation = d] \in Window
    /\ \A s \in Samples, d \in Decs \cup {0} :
          [over |-> s.over, n |-> s.n, decimation |-> d] \in Window
BY MaxBuffersBounds DEF NoWindow, NoSamples, Window, Samples

(* No step leaves the types. *)
LEMMA TypeNext ==
    ASSUME TypeOK, Remembered, Pooled, Scheduled, [Next]_vars
    PROVE  TypeOK'
<1>1. CASE Start
  <2>1. staged' \in [Channels -> Window] /\ inputs' \in [Channels -> Window]
    BY <1>1, WindowType DEF Start
  <2>2. opts' \in Decs /\ starts' \in 0 .. MaxStarts /\ gen' \in 0 .. MaxStarts
    BY <1>1, DecsAssumption, BoundAssumption DEF TypeOK, Start
  <2>3. buffers' \in 0 .. MaxBuffers
    BY <1>1, MaxBuffersBounds DEF Start
  <2> QED
    BY <1>1, <2>1, <2>2, <2>3 DEF TypeOK, Start, outside, daemon, shared,
       thread, consumer, vars
<1>2. CASE Signal
  BY <1>2 DEF TypeOK, Signal, outside, daemon, shared, thread, consumer, vars
<1>3. CASE Exit
  BY <1>3, BoundAssumption DEF TypeOK, Exit, outside, daemon, shared, thread,
     consumer, vars
<1>4. CASE Crash
  BY <1>4, BoundAssumption DEF TypeOK, Crash, outside, daemon, shared, thread,
     consumer, vars
<1>5. CASE Loop
  BY <1>5 DEF TypeOK, Loop, outside, daemon, shared, thread, consumer, vars
<1>6. CASE Save
  BY <1>6 DEF TypeOK, Scheduled, Remembered, Save, outside, daemon, shared,
     thread, consumer, vars
<1>7. CASE Rename
  BY <1>7 DEF TypeOK, Rename, outside, daemon, shared, thread, consumer, vars
<1>8. CASE Configure
  BY <1>8, WindowType, MaxBuffersBounds DEF TypeOK, Configure, outside, daemon,
     shared, thread, consumer, vars
<1>9. CASE StageLock
  BY <1>9 DEF TypeOK, StageLock, Lock, outside, daemon, shared, thread,
     consumer, vars
<1>10. CASE Stage
  <2>1. PICK ch \in Channels \ filled :
             staged' = [staged EXCEPT ![ch].decimation = dec] /\ filled' = filled \cup {ch}
    BY <1>10 DEF Stage
  <2>2. staged' \in [Channels -> Window]
    BY <2>1, WindowType DEF TypeOK
  <2> QED
    BY <1>10, <2>1, <2>2 DEF TypeOK, Stage, outside, daemon, shared, thread,
       consumer, vars
<1>11. CASE StageUnlock
  BY <1>11 DEF TypeOK, StageUnlock, Unlock, outside, daemon, shared, thread,
     consumer, vars
<1>12. CASE AcqStart
  BY <1>12 DEF TypeOK, AcqStart, outside, daemon, shared, thread, consumer, vars
<1>13. CASE Read
  <2>1. CASE life = "stopping"
    BY <1>13, <2>1 DEF TypeOK, Read, outside, daemon, shared, thread, consumer,
       vars
  <2>2. CASE life # "stopping"
    <3>1. /\ dec \in Decs /\ scope = dec /\ buffers + 1 <= BuffersPerWindow[dec]
          /\ \A ch \in Channels : acc[ch].n = buffers /\ acc[ch].over \subseteq Decs
      BY <1>13, WindowAssumption DEF TypeOK, Samples, Pooled, Pool, Read
    <3>2. buffers + 1 \in 0 .. MaxBuffers
      BY <3>1, MaxBuffersBounds, WindowAssumption DEF TypeOK
    <3>3. \A ch \in Channels :
             [over |-> acc[ch].over \cup {scope}, n |-> acc[ch].n + 1] \in Samples
      BY <3>1, <3>2 DEF Samples
    <3>4. acc' \in [Channels -> Samples]
      BY <1>13, <2>2, <3>3 DEF Read
    <3> QED
      BY <1>13, <2>2, <3>1, <3>2, <3>4 DEF TypeOK, Read, outside, daemon,
         shared, thread, consumer, vars
  <2> QED
    BY <2>1, <2>2
<1>14. CASE WindowLock
  BY <1>14 DEF TypeOK, WindowLock, Lock, outside, daemon, shared, thread,
     consumer, vars
<1>15. CASE Fill
  <2>1. PICK ch \in Channels \ filled :
             /\ staged' = [staged EXCEPT ![ch] = finish(ch)]
             /\ acc' = [acc EXCEPT ![ch] = NoSamples]
             /\ filled' = filled \cup {ch}
    BY <1>15 DEF Fill
  <2>2. staged' \in [Channels -> Window] /\ acc' \in [Channels -> Samples]
    BY <2>1, WindowType DEF TypeOK, finish
  <2> QED
    BY <1>15, <2>1, <2>2 DEF TypeOK, Fill, outside, daemon, shared, thread,
       consumer, vars
<1>16. CASE WindowUnlock
  BY <1>16, MaxBuffersBounds DEF TypeOK, WindowUnlock, Unlock, outside, daemon,
     shared, thread, consumer, vars
<1>17. CASE TakeStats
  BY <1>17 DEF TypeOK, TakeStats, outside, daemon, shared, thread, consumer,
     vars
<1>18. ASSUME NEW c \in Consumers, Check(c) PROVE TypeOK'
  BY <1>18, BoundAssumption DEF TypeOK, Check, outside, daemon, shared, thread,
     consumer, vars
<1>19. ASSUME NEW c \in Consumers, OpenBlock(c) PROVE TypeOK'
  BY <1>19 DEF TypeOK, OpenBlock, outside, daemon, shared, thread, consumer,
     vars
<1>20. ASSUME NEW c \in Consumers, Put(c) PROVE TypeOK'
  BY <1>20 DEF TypeOK, Put, outside, daemon, shared, thread, consumer, vars
<1>21. CASE UNCHANGED vars
  BY <1>21 DEF TypeOK, outside, daemon, shared, thread, consumer, vars
<1> QED
  BY <1>1, <1>2, <1>3, <1>4, <1>5, <1>6, <1>7, <1>8, <1>9, <1>10, <1>11, <1>12,
     <1>13, <1>14, <1>15, <1>16, <1>17, <1>18, <1>19, <1>20, <1>21 DEF Next,
     StatsThread

(* The lock goes with the place of the statistics thread. *)
LEMMA ScheduledNext ==
    ASSUME TypeOK, Scheduled, [Next]_vars
    PROVE  Scheduled'
<1>1. CASE Start
  BY <1>1 DEF TypeOK, Scheduled, Holding, Start, outside, daemon, shared,
     thread, consumer, vars
<1>2. CASE Signal
  BY <1>2 DEF TypeOK, Scheduled, Holding, Signal, outside, daemon, shared,
     thread, consumer, vars
<1>3. CASE Exit
  BY <1>3 DEF TypeOK, Scheduled, Holding, Exit, outside, daemon, shared, thread,
     consumer, vars
<1>4. CASE Crash
  BY <1>4 DEF TypeOK, Scheduled, Holding, Crash, outside, daemon, shared,
     thread, consumer, vars
<1>5. CASE Loop
  BY <1>5 DEF TypeOK, Scheduled, Holding, Loop, outside, daemon, shared, thread,
     consumer, vars
<1>6. CASE Save
  BY <1>6 DEF TypeOK, Scheduled, Holding, Save, outside, daemon, shared, thread,
     consumer, vars
<1>7. CASE Rename
  BY <1>7 DEF TypeOK, Scheduled, Holding, Rename, outside, daemon, shared,
     thread, consumer, vars
<1>8. CASE Configure
  BY <1>8 DEF TypeOK, Scheduled, Holding, Configure, outside, daemon, shared,
     thread, consumer, vars
<1>9. CASE StageLock
  BY <1>9 DEF TypeOK, Scheduled, Holding, StageLock, Lock, outside, daemon,
     shared, thread, consumer, vars
<1>10. CASE Stage
  BY <1>10 DEF TypeOK, Scheduled, Holding, Stage, outside, daemon, shared,
     thread, consumer, vars
<1>11. CASE StageUnlock
  BY <1>11 DEF TypeOK, Scheduled, Holding, StageUnlock, Unlock, outside, daemon,
     shared, thread, consumer, vars
<1>12. CASE AcqStart
  BY <1>12 DEF TypeOK, Scheduled, Holding, AcqStart, outside, daemon, shared,
     thread, consumer, vars
<1>13. CASE Read
  BY <1>13 DEF TypeOK, Scheduled, Holding, Read, outside, daemon, shared,
     thread, consumer, vars
<1>14. CASE WindowLock
  BY <1>14 DEF TypeOK, Scheduled, Holding, WindowLock, Lock, outside, daemon,
     shared, thread, consumer, vars
<1>15. CASE Fill
  BY <1>15 DEF TypeOK, Scheduled, Holding, Fill, finish, outside, daemon,
     shared, thread, consumer, vars
<1>16. CASE WindowUnlock
  BY <1>16 DEF TypeOK, Scheduled, Holding, WindowUnlock, Unlock, outside,
     daemon, shared, thread, consumer, vars
<1>17. CASE TakeStats
  BY <1>17 DEF TypeOK, Scheduled, Holding, TakeStats, outside, daemon, shared,
     thread, consumer, vars
<1>18. ASSUME NEW c \in Consumers, Check(c) PROVE Scheduled'
  BY <1>18 DEF TypeOK, Scheduled, Holding, Check, outside, daemon, shared,
     thread, consumer, vars
<1>19. ASSUME NEW c \in Consumers, OpenBlock(c) PROVE Scheduled'
  BY <1>19 DEF TypeOK, Scheduled, Holding, OpenBlock, outside, daemon, shared,
     thread, consumer, vars
<1>20. ASSUME NEW c \in Consumers, Put(c) PROVE Scheduled'
  BY <1>20 DEF TypeOK, Scheduled, Holding, Put, outside, daemon, shared, thread,
     consumer, vars
<1>21. CASE UNCHANGED vars
  BY <1>21 DEF TypeOK, Scheduled, Holding, outside, daemon, shared, thread,
     consumer, vars
<1> QED
  BY <1>1, <1>2, <1>3, <1>4, <1>5, <1>6, <1>7, <1>8, <1>9, <1>10, <1>11, <1>12,
     <1>13, <1>14, <1>15, <1>16, <1>17, <1>18, <1>19, <1>20, <1>21 DEF Next,
     StatsThread

(* What is stored and what is used. *)
LEMMA RememberedNext ==
    ASSUME TypeOK, Scheduled, Remembered, [Next]_vars
    PROVE  Remembered'
<1>1. CASE Start
  BY <1>1, DecsAssumption DEF TypeOK, Remembered, Stored, Start
<1>2. CASE Signal
  BY <1>2 DEF TypeOK, Scheduled, Remembered, Stored, Signal, outside, daemon,
     shared, thread, consumer, vars
<1>3. CASE Exit
  BY <1>3 DEF TypeOK, Scheduled, Remembered, Stored, Exit, outside, daemon,
     shared, thread, consumer, vars
<1>4. CASE Crash
  BY <1>4 DEF TypeOK, Scheduled, Remembered, Stored, Crash, outside, daemon,
     shared, thread, consumer, vars
<1>5. CASE Loop
  BY <1>5 DEF TypeOK, Scheduled, Remembered, Stored, Loop, outside, daemon,
     shared, thread, consumer, vars
<1>6. CASE Save
  BY <1>6 DEF TypeOK, Scheduled, Remembered, Stored, Save, outside, daemon,
     shared, thread, consumer, vars
<1>7. CASE Rename
  BY <1>7 DEF TypeOK, Scheduled, Remembered, Stored, Rename, outside, daemon,
     shared, thread, consumer, vars
<1>8. CASE Configure
  BY <1>8 DEF TypeOK, Scheduled, Remembered, Stored, Configure, outside, daemon,
     shared, thread, consumer, vars
<1>9. CASE StageLock
  BY <1>9 DEF TypeOK, Scheduled, Remembered, Stored, StageLock, Lock, outside,
     daemon, shared, thread, consumer, vars
<1>10. CASE Stage
  BY <1>10 DEF TypeOK, Scheduled, Remembered, Stored, Stage, outside, daemon,
     shared, thread, consumer, vars
<1>11. CASE StageUnlock
  BY <1>11 DEF TypeOK, Scheduled, Remembered, Stored, StageUnlock, Unlock,
     outside, daemon, shared, thread, consumer, vars
<1>12. CASE AcqStart
  BY <1>12 DEF TypeOK, Scheduled, Remembered, Stored, AcqStart, outside, daemon,
     shared, thread, consumer, vars
<1>13. CASE Read
  BY <1>13 DEF TypeOK, Scheduled, Remembered, Stored, Read, outside, daemon,
     shared, thread, consumer, vars
<1>14. CASE WindowLock
  BY <1>14 DEF TypeOK, Scheduled, Remembered, Stored, WindowLock, Lock, outside,
     daemon, shared, thread, consumer, vars
<1>15. CASE Fill
  BY <1>15 DEF TypeOK, Scheduled, Remembered, Stored, Fill, finish, outside,
     daemon, shared, thread, consumer, vars
<1>16. CASE WindowUnlock
  BY <1>16 DEF TypeOK, Scheduled, Remembered, Stored, WindowUnlock, Unlock,
     outside, daemon, shared, thread, consumer, vars
<1>17. CASE TakeStats
  BY <1>17 DEF TypeOK, Scheduled, Remembered, Stored, TakeStats, outside,
     daemon, shared, thread, consumer, vars
<1>18. ASSUME NEW c \in Consumers, Check(c) PROVE Remembered'
  BY <1>18 DEF TypeOK, Scheduled, Remembered, Stored, Check, outside, daemon,
     shared, thread, consumer, vars
<1>19. ASSUME NEW c \in Consumers, OpenBlock(c) PROVE Remembered'
  BY <1>19 DEF TypeOK, Scheduled, Remembered, Stored, OpenBlock, outside,
     daemon, shared, thread, consumer, vars
<1>20. ASSUME NEW c \in Consumers, Put(c) PROVE Remembered'
  BY <1>20 DEF TypeOK, Scheduled, Remembered, Stored, Put, outside, daemon,
     shared, thread, consumer, vars
<1>21. CASE UNCHANGED vars
  BY <1>21 DEF TypeOK, Scheduled, Remembered, Stored, outside, daemon, shared,
     thread, consumer, vars
<1> QED
  BY <1>1, <1>2, <1>3, <1>4, <1>5, <1>6, <1>7, <1>8, <1>9, <1>10, <1>11, <1>12,
     <1>13, <1>14, <1>15, <1>16, <1>17, <1>18, <1>19, <1>20, <1>21 DEF Next,
     StatsThread

(* The samples that are pooled. *)
LEMMA PooledNext ==
    ASSUME TypeOK, Scheduled, Pooled, [Next]_vars
    PROVE  Pooled'
<1>1. CASE Start
  BY <1>1 DEF Pooled, Pool, Start, outside, daemon, shared, thread, consumer,
     vars
<1>2. CASE Signal
  BY <1>2 DEF Pooled, Pool, Signal, outside, daemon, shared, thread, consumer,
     vars
<1>3. CASE Exit
  BY <1>3 DEF Pooled, Pool, Exit, outside, daemon, shared, thread, consumer,
     vars
<1>4. CASE Crash
  BY <1>4 DEF Pooled, Pool, Crash, outside, daemon, shared, thread, consumer,
     vars
<1>5. CASE Loop
  BY <1>5 DEF Pooled, Pool, Loop, outside, daemon, shared, thread, consumer,
     vars
<1>6. CASE Save
  BY <1>6 DEF Pooled, Pool, Save, outside, daemon, shared, thread, consumer,
     vars
<1>7. CASE Rename
  BY <1>7 DEF Pooled, Pool, Rename, outside, daemon, shared, thread, consumer,
     vars
<1>8. CASE Configure
  <2>1. dec' \in Decs /\ scope' = dec' /\ buffers' = 0 /\ pc' = "stage"
    BY <1>8 DEF TypeOK, Configure
  <2>2. \A ch \in Channels : acc'[ch] = Pool(buffers)'
    BY <1>8, <2>1 DEF Configure, Pool, NoSamples
  <2>3. buffers' < BuffersPerWindow[dec']
    BY <2>1, WindowAssumption
  <2> QED
    BY <2>1, <2>2, <2>3, DecsAssumption DEF Pooled
<1>9. CASE StageLock
  BY <1>9 DEF Pooled, Pool, StageLock, Lock, outside, daemon, shared, thread,
     consumer, vars
<1>10. CASE Stage
  BY <1>10 DEF Pooled, Pool, Stage, outside, daemon, shared, thread, consumer,
     vars
<1>11. CASE StageUnlock
  BY <1>11 DEF Pooled, Pool, StageUnlock, Unlock, outside, daemon, shared,
     thread, consumer, vars
<1>12. CASE AcqStart
  BY <1>12 DEF Pooled, Pool, AcqStart, outside, daemon, shared, thread,
     consumer, vars
<1>13. CASE Read
  <2>1. CASE life = "stopping"
    BY <1>13, <2>1 DEF Pooled, Read, outside, daemon, shared, thread, consumer,
       vars
  <2>2. CASE life # "stopping"
    <3>1. /\ dec \in Decs /\ scope = dec /\ buffers < BuffersPerWindow[dec]
          /\ \A ch \in Channels : acc[ch] = Pool(buffers)
      BY <1>13 DEF TypeOK, Pooled, Read
    <3>2. /\ buffers \in Nat /\ BuffersPerWindow[dec] \in Nat
          /\ buffers' = buffers + 1 /\ dec' = dec /\ scope' = scope
          /\ pc' = IF buffers' < BuffersPerWindow[dec] THEN "loop" ELSE "window"
      BY <1>13, <2>2, <3>1, MaxBuffersBounds, WindowAssumption DEF TypeOK, Read
    <3>3. \A ch \in Channels : acc'[ch] = Pool(buffers)'
      <4> SUFFICES ASSUME NEW ch \in Channels
                   PROVE  acc'[ch] = Pool(buffers)'
        OBVIOUS
      <4>1. acc'[ch] = [over |-> acc[ch].over \cup {scope}, n |-> acc[ch].n + 1]
        BY <1>13, <2>2 DEF Read
      <4>2. acc[ch].over \cup {scope} = {dec} /\ acc[ch].n = buffers
        BY <3>1 DEF Pool
      <4>3. Pool(buffers)' = [over |-> {dec}, n |-> buffers + 1]
        BY <3>2 DEF Pool
      <4> QED
        BY <4>1, <4>2, <4>3
    <3>4. (buffers + 1 < BuffersPerWindow[dec]) \/ buffers + 1 = BuffersPerWindow[dec]
      BY <3>1, <3>2
    <3> QED
      BY <3>1, <3>2, <3>3, <3>4, DecsAssumption DEF Pooled
  <2> QED
    BY <2>1, <2>2
<1>14. CASE WindowLock
  BY <1>14 DEF Pooled, Pool, WindowLock, Lock, outside, daemon, shared, thread,
     consumer, vars
<1>15. CASE Fill
  <2>1. PICK ch \in Channels \ filled :
             acc' = [acc EXCEPT ![ch] = NoSamples] /\ filled' = filled \cup {ch}
    BY <1>15 DEF Fill
  <2> QED
    BY <1>15, <2>1 DEF TypeOK, Pooled, Pool, Fill, outside, daemon, shared,
       thread, consumer, vars
<1>16. CASE WindowUnlock
  <2>1. \A ch \in Channels : acc[ch] = NoSamples
    BY <1>16 DEF Pooled, WindowUnlock, Unlock
  <2>2. dec \in Decs /\ scope = dec
    BY <1>16 DEF TypeOK, Pooled, WindowUnlock, Unlock
  <2>3. 0 < BuffersPerWindow[dec]
    BY <2>2, WindowAssumption
  <2>4. dec' = dec /\ scope' = scope /\ acc' = acc /\ buffers' = 0 /\ pc' = "loop"
    BY <1>16 DEF WindowUnlock, Unlock
  <2> QED
    BY <2>1, <2>2, <2>3, <2>4, DecsAssumption DEF Pooled, Pool, NoSamples
<1>17. CASE TakeStats
  BY <1>17 DEF Pooled, Pool, TakeStats, outside, daemon, shared, thread,
     consumer, vars
<1>18. ASSUME NEW c \in Consumers, Check(c) PROVE Pooled'
  BY <1>18 DEF Pooled, Pool, Check, outside, daemon, shared, thread, consumer,
     vars
<1>19. ASSUME NEW c \in Consumers, OpenBlock(c) PROVE Pooled'
  BY <1>19 DEF Pooled, Pool, OpenBlock, outside, daemon, shared, thread,
     consumer, vars
<1>20. ASSUME NEW c \in Consumers, Put(c) PROVE Pooled'
  BY <1>20 DEF Pooled, Pool, Put, outside, daemon, shared, thread, consumer,
     vars
<1>21. CASE UNCHANGED vars
  BY <1>21 DEF Pooled, Pool, outside, daemon, shared, thread, consumer, vars
<1> QED
  BY <1>1, <1>2, <1>3, <1>4, <1>5, <1>6, <1>7, <1>8, <1>9, <1>10, <1>11, <1>12,
     <1>13, <1>14, <1>15, <1>16, <1>17, <1>18, <1>19, <1>20, <1>21 DEF Next,
     StatsThread

(* What a window holds when it is finished. *)
LEMMA Finished ==
    ASSUME TypeOK, Pooled, pc = "filling", NEW ch \in Channels \ filled
    PROVE  /\ finish(ch) = [over |-> {dec}, n |-> buffers, decimation |-> dec]
           /\ dec \in Decs /\ buffers = BuffersPerWindow[dec]
<1>1. dec \in Decs /\ buffers = BuffersPerWindow[dec] /\ acc[ch] = Pool(buffers)
  BY DEF TypeOK, Pooled
<1>2. buffers # 0
  BY <1>1, WindowAssumption
<1> QED
  BY <1>1, <1>2 DEF finish, Pool

(* The channels differ only by whether the loop has done them. *)
LEMMA TogetherNext ==
    ASSUME TypeOK, Scheduled, Pooled, Together, FilledWhole, [Next]_vars
    PROVE  Together' /\ FilledWhole'
<1>1. CASE Start
  BY <1>1 DEF Scheduled, Holding, Together, FilledWhole, Start, outside, daemon,
     shared, thread, consumer, vars
<1>2. CASE Signal
  BY <1>2 DEF Scheduled, Holding, Together, FilledWhole, Signal, outside,
     daemon, shared, thread, consumer, vars
<1>3. CASE Exit
  BY <1>3 DEF Scheduled, Holding, Together, FilledWhole, Exit, outside, daemon,
     shared, thread, consumer, vars
<1>4. CASE Crash
  BY <1>4 DEF Scheduled, Holding, Together, FilledWhole, Crash, outside, daemon,
     shared, thread, consumer, vars
<1>5. CASE Loop
  BY <1>5 DEF Scheduled, Holding, Together, FilledWhole, Loop, outside, daemon,
     shared, thread, consumer, vars
<1>6. CASE Save
  BY <1>6 DEF Scheduled, Holding, Together, FilledWhole, Save, outside, daemon,
     shared, thread, consumer, vars
<1>7. CASE Rename
  BY <1>7 DEF Scheduled, Holding, Together, FilledWhole, Rename, outside,
     daemon, shared, thread, consumer, vars
<1>8. CASE Configure
  BY <1>8 DEF Scheduled, Holding, Together, FilledWhole, Configure, outside,
     daemon, shared, thread, consumer, vars
<1>9. CASE StageLock
  BY <1>9 DEF Scheduled, Holding, Together, FilledWhole, StageLock, Lock,
     outside, daemon, shared, thread, consumer, vars
<1>10. CASE Stage
  <2>1. PICK ch \in Channels \ filled :
             staged' = [staged EXCEPT ![ch].decimation = dec] /\ filled' = filled \cup {ch}
    BY <1>10 DEF Stage
  <2>2. /\ dec' = dec /\ pc' = pc /\ pc = "staging" /\ life' = life
    BY <1>10 DEF Stage, outside, daemon
  <2>3. \A c \in Channels : staged'[c] = [over |-> staged[c].over, n |-> staged[c].n,
               decimation |-> IF c = ch THEN dec ELSE staged[c].decimation]
    BY <2>1 DEF TypeOK, Window
  <2>4. \A c1, c2 \in Channels : /\ staged[c1].over = staged[c2].over
                                 /\ staged[c1].n = staged[c2].n
                                 /\ c1 \in filled => staged[c1].decimation = dec
    BY <1>10, <2>2 DEF Scheduled, Holding, Together
  <2>5. Together'
    <3> SUFFICES ASSUME NEW c1 \in Channels, NEW c2 \in Channels
                 PROVE  /\ (c1 \in filled' <=> c2 \in filled') => staged'[c1] = staged'[c2]
                        /\ staged'[c1].over = staged'[c2].over
                        /\ staged'[c1].n = staged'[c2].n
                        /\ c1 \in filled' => staged'[c1].decimation = dec
      BY <2>2 DEF Together, Holding
    <3>1. (c1 \in filled <=> c2 \in filled) => staged[c1].decimation = staged[c2].decimation
      BY <1>10, <2>2 DEF Scheduled, Holding, Together
    <3> DEFINE label(c) == IF c = ch THEN dec ELSE staged[c].decimation
    <3>2. (c1 \in filled' => label(c1) = dec) /\ (c2 \in filled' => label(c2) = dec)
      BY <2>1, <2>4
    <3>3. (c1 \in filled' <=> c2 \in filled') => label(c1) = label(c2)
      BY <2>1, <3>1, <3>2
    <3>4. \A c \in Channels : staged'[c] = [over |-> staged[c].over, n |-> staged[c].n,
                                           decimation |-> label(c)]
      BY <2>3
    <3> HIDE DEF label
    <3>5. /\ staged'[c1].over = staged'[c2].over /\ staged'[c1].n = staged'[c2].n
          /\ staged'[c1].decimation = label(c1)
      <4>1. \A c \in Channels : /\ staged'[c].over = staged[c].over
                              /\ staged'[c].n = staged[c].n
                              /\ staged'[c].decimation = label(c)
        BY <2>1 DEF TypeOK, Window, label
      <4> QED
        BY <2>4, <4>1
    <3>6. label(c1) = label(c2) => staged'[c1] = staged'[c2]
      BY <2>4, <3>4
    <3> QED
      BY <3>2, <3>3, <3>5, <3>6, Zenon
  <2> QED
    BY <2>2, <2>5 DEF FilledWhole
<1>11. CASE StageUnlock
  BY <1>11 DEF Scheduled, Holding, Together, FilledWhole, StageUnlock, Unlock,
     outside, daemon, shared, thread, consumer, vars
<1>12. CASE AcqStart
  BY <1>12 DEF Scheduled, Holding, Together, FilledWhole, AcqStart, outside,
     daemon, shared, thread, consumer, vars
<1>13. CASE Read
  BY <1>13 DEF Scheduled, Holding, Together, FilledWhole, Read, outside, daemon,
     shared, thread, consumer, vars
<1>14. CASE WindowLock
  BY <1>14 DEF Scheduled, Holding, Together, FilledWhole, WindowLock, Lock,
     outside, daemon, shared, thread, consumer, vars
<1>15. CASE Fill
  <2>1. PICK ch \in Channels \ filled :
             /\ staged' = [staged EXCEPT ![ch] = finish(ch)]
             /\ acc' = [acc EXCEPT ![ch] = NoSamples]
             /\ filled' = filled \cup {ch}
    BY <1>15 DEF Fill
  <2>2. /\ pc = "filling" /\ pc' = pc /\ dec' = dec /\ buffers' = buffers /\ life' = life
    BY <1>15 DEF Fill, outside, daemon
  <2>3. finish(ch) = [over |-> {dec}, n |-> buffers, decimation |-> dec]
    BY <2>1, <2>2, Finished
  <2>4. \A c \in filled' :
           staged'[c] = [over |-> {dec}, n |-> buffers, decimation |-> dec]
    BY <2>1, <2>2, <2>3 DEF TypeOK, FilledWhole
  <2>5. \A c \in Channels \ filled' : staged'[c] = staged[c] /\ c \notin filled
    BY <2>1 DEF TypeOK
  <2> QED
    BY <2>2, <2>4, <2>5 DEF Together, FilledWhole, Holding
<1>16. CASE WindowUnlock
  BY <1>16 DEF Scheduled, Holding, Together, FilledWhole, WindowUnlock, Unlock,
     outside, daemon, shared, thread, consumer, vars
<1>17. CASE TakeStats
  BY <1>17 DEF Scheduled, Holding, Together, FilledWhole, TakeStats, outside,
     daemon, shared, thread, consumer, vars
<1>18. ASSUME NEW c \in Consumers, Check(c) PROVE Together' /\ FilledWhole'
  BY <1>18 DEF Scheduled, Holding, Together, FilledWhole, Check, outside,
     daemon, shared, thread, consumer, vars
<1>19. ASSUME NEW c \in Consumers, OpenBlock(c) PROVE Together' /\ FilledWhole'
  BY <1>19 DEF Scheduled, Holding, Together, FilledWhole, OpenBlock, outside,
     daemon, shared, thread, consumer, vars
<1>20. ASSUME NEW c \in Consumers, Put(c) PROVE Together' /\ FilledWhole'
  BY <1>20 DEF Scheduled, Holding, Together, FilledWhole, Put, outside, daemon,
     shared, thread, consumer, vars
<1>21. CASE UNCHANGED vars
  BY <1>21 DEF Scheduled, Holding, Together, FilledWhole, outside, daemon,
     shared, thread, consumer, vars
<1> QED
  BY <1>1, <1>2, <1>3, <1>4, <1>5, <1>6, <1>7, <1>8, <1>9, <1>10, <1>11, <1>12,
     <1>13, <1>14, <1>15, <1>16, <1>17, <1>18, <1>19, <1>20, <1>21 DEF Next,
     StatsThread

(* Whatever is staged or published is a whole window. *)
LEMMA WholeNext ==
    ASSUME TypeOK, Scheduled, Pooled, StagedWhole, WindowsArePure, [Next]_vars
    PROVE  StagedWhole' /\ WindowsArePure'
<1>1. CASE Start
  BY <1>1 DEF StagedWhole, WindowsArePure, Whole, NoWindow, Start, outside,
     daemon, shared, thread, consumer, vars
<1>2. CASE Signal
  BY <1>2 DEF StagedWhole, WindowsArePure, Whole, NoWindow, Signal, outside,
     daemon, shared, thread, consumer, vars
<1>3. CASE Exit
  BY <1>3 DEF StagedWhole, WindowsArePure, Whole, NoWindow, Exit, outside,
     daemon, shared, thread, consumer, vars
<1>4. CASE Crash
  BY <1>4 DEF StagedWhole, WindowsArePure, Whole, NoWindow, Crash, outside,
     daemon, shared, thread, consumer, vars
<1>5. CASE Loop
  BY <1>5 DEF StagedWhole, WindowsArePure, Whole, NoWindow, Loop, outside,
     daemon, shared, thread, consumer, vars
<1>6. CASE Save
  BY <1>6 DEF StagedWhole, WindowsArePure, Whole, NoWindow, Save, outside,
     daemon, shared, thread, consumer, vars
<1>7. CASE Rename
  BY <1>7 DEF StagedWhole, WindowsArePure, Whole, NoWindow, Rename, outside,
     daemon, shared, thread, consumer, vars
<1>8. CASE Configure
  BY <1>8 DEF StagedWhole, WindowsArePure, Whole, NoWindow, Configure, outside,
     daemon, shared, thread, consumer, vars
<1>9. CASE StageLock
  BY <1>9 DEF StagedWhole, WindowsArePure, Whole, NoWindow, StageLock, Lock,
     outside, daemon, shared, thread, consumer, vars
<1>10. CASE Stage
  <2>1. PICK ch \in Channels \ filled : staged' = [staged EXCEPT ![ch].decimation = dec]
    BY <1>10 DEF Stage
  <2>2. \A c \in Channels : staged'[c].over = staged[c].over /\ staged'[c].n = staged[c].n
    BY <2>1 DEF TypeOK, Window
  <2>3. inputs' = inputs
    BY <1>10 DEF Stage, outside
  <2> QED
    BY <2>2, <2>3 DEF StagedWhole, WindowsArePure, Whole
<1>11. CASE StageUnlock
  BY <1>11 DEF StagedWhole, WindowsArePure, Whole, NoWindow, StageUnlock,
     Unlock, outside, daemon, shared, thread, consumer, vars
<1>12. CASE AcqStart
  BY <1>12 DEF StagedWhole, WindowsArePure, Whole, NoWindow, AcqStart, outside,
     daemon, shared, thread, consumer, vars
<1>13. CASE Read
  BY <1>13 DEF StagedWhole, WindowsArePure, Whole, NoWindow, Read, outside,
     daemon, shared, thread, consumer, vars
<1>14. CASE WindowLock
  BY <1>14 DEF StagedWhole, WindowsArePure, Whole, NoWindow, WindowLock, Lock,
     outside, daemon, shared, thread, consumer, vars
<1>15. CASE Fill
  <2>1. PICK ch \in Channels \ filled : staged' = [staged EXCEPT ![ch] = finish(ch)]
    BY <1>15 DEF Fill
  <2>2. pc = "filling" /\ inputs' = inputs
    BY <1>15 DEF Fill, outside
  <2>3. Whole(finish(ch))
    BY <2>1, <2>2, Finished DEF Whole
  <2> QED
    BY <2>1, <2>2, <2>3 DEF TypeOK, StagedWhole, WindowsArePure, Whole
<1>16. CASE WindowUnlock
  BY <1>16 DEF StagedWhole, WindowsArePure, Whole, NoWindow, WindowUnlock,
     Unlock, outside, daemon, shared, thread, consumer, vars
<1>17. CASE TakeStats
  BY <1>17 DEF StagedWhole, WindowsArePure, Whole, NoWindow, TakeStats, outside,
     daemon, shared, thread, consumer, vars
<1>18. ASSUME NEW c \in Consumers, Check(c) PROVE StagedWhole' /\ WindowsArePure'
  BY <1>18 DEF StagedWhole, WindowsArePure, Whole, NoWindow, Check, outside,
     daemon, shared, thread, consumer, vars
<1>19. ASSUME NEW c \in Consumers, OpenBlock(c) PROVE StagedWhole' /\ WindowsArePure'
  BY <1>19 DEF StagedWhole, WindowsArePure, Whole, NoWindow, OpenBlock, outside,
     daemon, shared, thread, consumer, vars
<1>20. ASSUME NEW c \in Consumers, Put(c) PROVE StagedWhole' /\ WindowsArePure'
  BY <1>20 DEF StagedWhole, WindowsArePure, Whole, NoWindow, Put, outside,
     daemon, shared, thread, consumer, vars
<1>21. CASE UNCHANGED vars
  BY <1>21 DEF StagedWhole, WindowsArePure, Whole, NoWindow, outside, daemon,
     shared, thread, consumer, vars
<1> QED
  BY <1>1, <1>2, <1>3, <1>4, <1>5, <1>6, <1>7, <1>8, <1>9, <1>10, <1>11, <1>12,
     <1>13, <1>14, <1>15, <1>16, <1>17, <1>18, <1>19, <1>20, <1>21 DEF Next,
     StatsThread

(* What is published is the same for all channels. *)
LEMMA PublishedNext ==
    ASSUME TypeOK, Scheduled, Together, ChannelsArePublishedTogether, [Next]_vars
    PROVE  ChannelsArePublishedTogether'
<1>1. CASE Start
  BY <1>1 DEF Scheduled, Holding, Together, ChannelsArePublishedTogether, Start,
     outside, daemon, shared, thread, consumer, vars
<1>2. CASE Signal
  BY <1>2 DEF Scheduled, Holding, Together, ChannelsArePublishedTogether,
     Signal, outside, daemon, shared, thread, consumer, vars
<1>3. CASE Exit
  BY <1>3 DEF Scheduled, Holding, Together, ChannelsArePublishedTogether, Exit,
     outside, daemon, shared, thread, consumer, vars
<1>4. CASE Crash
  BY <1>4 DEF Scheduled, Holding, Together, ChannelsArePublishedTogether, Crash,
     outside, daemon, shared, thread, consumer, vars
<1>5. CASE Loop
  BY <1>5 DEF Scheduled, Holding, Together, ChannelsArePublishedTogether, Loop,
     outside, daemon, shared, thread, consumer, vars
<1>6. CASE Save
  BY <1>6 DEF Scheduled, Holding, Together, ChannelsArePublishedTogether, Save,
     outside, daemon, shared, thread, consumer, vars
<1>7. CASE Rename
  BY <1>7 DEF Scheduled, Holding, Together, ChannelsArePublishedTogether,
     Rename, outside, daemon, shared, thread, consumer, vars
<1>8. CASE Configure
  BY <1>8 DEF Scheduled, Holding, Together, ChannelsArePublishedTogether,
     Configure, outside, daemon, shared, thread, consumer, vars
<1>9. CASE StageLock
  BY <1>9 DEF Scheduled, Holding, Together, ChannelsArePublishedTogether,
     StageLock, Lock, outside, daemon, shared, thread, consumer, vars
<1>10. CASE Stage
  BY <1>10 DEF Scheduled, Holding, Together, ChannelsArePublishedTogether,
     Stage, outside, daemon, shared, thread, consumer, vars
<1>11. CASE StageUnlock
  BY <1>11 DEF Scheduled, Holding, Together, ChannelsArePublishedTogether,
     StageUnlock, Unlock, outside, daemon, shared, thread, consumer, vars
<1>12. CASE AcqStart
  BY <1>12 DEF Scheduled, Holding, Together, ChannelsArePublishedTogether,
     AcqStart, outside, daemon, shared, thread, consumer, vars
<1>13. CASE Read
  BY <1>13 DEF Scheduled, Holding, Together, ChannelsArePublishedTogether, Read,
     outside, daemon, shared, thread, consumer, vars
<1>14. CASE WindowLock
  BY <1>14 DEF Scheduled, Holding, Together, ChannelsArePublishedTogether,
     WindowLock, Lock, outside, daemon, shared, thread, consumer, vars
<1>15. CASE Fill
  BY <1>15 DEF Scheduled, Holding, Together, ChannelsArePublishedTogether, Fill,
     finish, outside, daemon, shared, thread, consumer, vars
<1>16. CASE WindowUnlock
  BY <1>16 DEF Scheduled, Holding, Together, ChannelsArePublishedTogether,
     WindowUnlock, Unlock, outside, daemon, shared, thread, consumer, vars
<1>17. CASE TakeStats
  BY <1>17 DEF Scheduled, Holding, Together, ChannelsArePublishedTogether,
     TakeStats, outside, daemon, shared, thread, consumer, vars
<1>18. ASSUME NEW c \in Consumers, Check(c) PROVE ChannelsArePublishedTogether'
  BY <1>18 DEF Scheduled, Holding, Together, ChannelsArePublishedTogether,
     Check, outside, daemon, shared, thread, consumer, vars
<1>19. ASSUME NEW c \in Consumers, OpenBlock(c) PROVE ChannelsArePublishedTogether'
  BY <1>19 DEF Scheduled, Holding, Together, ChannelsArePublishedTogether,
     OpenBlock, outside, daemon, shared, thread, consumer, vars
<1>20. ASSUME NEW c \in Consumers, Put(c) PROVE ChannelsArePublishedTogether'
  BY <1>20 DEF Scheduled, Holding, Together, ChannelsArePublishedTogether, Put,
     outside, daemon, shared, thread, consumer, vars
<1>21. CASE UNCHANGED vars
  BY <1>21 DEF Scheduled, Holding, Together, ChannelsArePublishedTogether,
     outside, daemon, shared, thread, consumer, vars
<1> QED
  BY <1>1, <1>2, <1>3, <1>4, <1>5, <1>6, <1>7, <1>8, <1>9, <1>10, <1>11, <1>12,
     <1>13, <1>14, <1>15, <1>16, <1>17, <1>18, <1>19, <1>20, <1>21 DEF Next,
     StatsThread

-----------------------------------------------------------------------------
(* The invariant holds at the start and at every step. *)
LEMMA IInvInit == Init => IInv
<1> SUFFICES ASSUME Init PROVE IInv
  OBVIOUS
<1>1. TypeOK
  <2>1. /\ staged \in [Channels -> Window] /\ inputs \in [Channels -> Window]
        /\ acc \in [Channels -> Samples]
    BY WindowType DEF Init
  <2>2. /\ 0 \in 0 .. MaxStarts /\ 0 \in 0 .. MaxCrashes /\ 0 \in 0 .. MaxRequests
        /\ 0 \in 0 .. MaxBuffers
    BY MaxBuffersBounds, BoundAssumption
  <2> QED
    BY <2>1, <2>2, DecsAssumption DEF Init, TypeOK
<1>2. Scheduled /\ Remembered /\ Together /\ FilledWhole
  BY DEF Init, Scheduled, Remembered, Together, FilledWhole
<1>3. Pooled
  BY DEF Init, Pooled
<1>4. StagedWhole /\ WindowsArePure /\ ChannelsArePublishedTogether
  BY DEF Init, StagedWhole, Whole, NoWindow, WindowsArePure,
     ChannelsArePublishedTogether
<1> QED
  BY <1>1, <1>2, <1>3, <1>4 DEF IInv

LEMMA IInvNext == IInv /\ [Next]_vars => IInv'
BY TypeNext, ScheduledNext, RememberedNext, PooledNext, TogetherNext, WholeNext,
   PublishedNext DEF IInv

(* The inductive invariant: what is scheduled, remembered, pooled, staged  *)
(* and published (stats_thread, take_stats) fits together at every step.   *)
THEOREM InvariantHolds == Spec => []IInv
BY IInvInit, IInvNext, PTL DEF Spec

-----------------------------------------------------------------------------
(* The invariants that the runs check.                                     *)

(* Every variable stays within its type, for every value of the constants. *)
THEOREM TypeCorrect == Spec => []TypeOK
<1>1. IInv => TypeOK
  BY DEF IInv
<1> QED
  BY <1>1, InvariantHolds, PTL

(* A published window is pooled from buffers of one decimation, and from   *)
(* as many as make up a window of it, however requests, stops and crashes  *)
(* fall into the window.                                                   *)
THEOREM PublishedWindowsArePure == Spec => []WindowsArePure
<1>1. IInv => WindowsArePure
  BY DEF IInv
<1> QED
  BY <1>1, InvariantHolds, PTL

(* The poll thread publishes all channels of one pass of the statistics    *)
(* thread, for any number of channels.                                     *)
THEOREM PublishedTogether == Spec => []ChannelsArePublishedTogether
<1>1. IInv => ChannelsArePublishedTogether
  BY DEF IInv
<1> QED
  BY <1>1, InvariantHolds, PTL

(* The decimation a running daemon measures with is that of the settings   *)
(* file, until a save fails.                                               *)
THEOREM UsedIsStored == Spec => []InUseIsStored
<1>1. IInv => InUseIsStored
  BY DEF IInv, Remembered, Stored, InUseIsStored
<1> QED
  BY <1>1, InvariantHolds, PTL
=============================================================================
