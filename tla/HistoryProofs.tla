---------------------------- MODULE HistoryProofs ---------------------------
(***************************************************************************)
(* History, for any number of shards and days, any window and retention,   *)
(* and any node: the buckets count the stored actions, a bucket that was   *)
(* dropped does not come back in part, and a health row that says live is  *)
(* about complete data.                                                    *)
(*                                                                         *)
(* The argument of the last one is Gapless.  Of what is in the window, the *)
(* collector has everything from the start of a shard's coverage to the    *)
(* last event it knows of (NoHoles), a replay has what it has passed       *)
(* (ReadIsKept), and the node has whatever comes after that                *)
(* (NodeHasTheRest).  A shard that is connected and has been replayed has  *)
(* no rest but today's, so its days are whole once its coverage begins     *)
(* before the window.                                                      *)
(***************************************************************************)
EXTENDS History, FiniteSetTheorems, WellFoundedInduction, TLAPS

(* The least and the greatest element of a set of naturals. *)
LEMMA MinOf ==
  ASSUME NEW S \in SUBSET Nat, S # {}
  PROVE  Min(S) \in S /\ \A x \in S : Min(S) <= x
<1>1. PICK m \in S : \A x \in S : ~(<<x, m>> \in OpToRel(<, Nat))
  BY NatLessThanWellFounded, WFMin
<1>2. ASSUME NEW x \in S PROVE m <= x
  <2>1. x \in Nat /\ m \in Nat
    OBVIOUS
  <2>2. ~(x < m)
    BY <1>1, <2>1, Zenon DEF OpToRel
  <2> QED BY <2>1, <2>2
<1>3. \E x \in S : \A y \in S : x =< y
  BY <1>2
<1>4. Min(S) \in S /\ \A y \in S : Min(S) =< y
  BY <1>3, Zenon DEF Min
<1> QED BY <1>4

(* The greatest element of a set of naturals that has a bound. *)
LEMMA MaxOf ==
  ASSUME NEW n \in Nat, NEW S \in SUBSET (0 .. n), S # {}
  PROVE  Max(S) \in S /\ \A x \in S : x <= Max(S)
<1> DEFINE T == {n - x : x \in S}
<1>0. \A x \in S : x \in 0 .. n
  OBVIOUS
<1>1. T \in SUBSET Nat /\ T # {}
  <2>1. \A x \in S : n - x \in Nat
    BY <1>0
  <2> QED BY <2>1
<1>2. PICK m \in S : n - m = Min(T)
  <2>1. Min(T) \in T
    BY <1>1, MinOf
  <2> QED BY <2>1
<1>3. \A x \in S : x <= m
  <2>1. ASSUME NEW x \in S PROVE x <= m
    <3>1. n - x \in T
      OBVIOUS
    <3>2. n - m <= n - x
      BY <1>1, <1>2, <3>1, MinOf
    <3> QED BY <1>0, <3>2
  <2> QED BY <2>1
<1>4. \E x \in S : \A y \in S : x >= y
  BY <1>0, <1>3
<1>5. Max(S) \in S /\ \A y \in S : Max(S) >= y
  BY <1>4 DEF Max
<1> QED BY <1>0, <1>5

(* The greater of two integers. *)
LEMMA MaxOfTwo ==
  ASSUME NEW a \in Int, NEW b \in Int
  PROVE  Max({a, b}) = IF a <= b THEN b ELSE a
<1> DEFINE m == IF a <= b THEN b ELSE a
<1>1. m \in {a, b} /\ \A y \in {a, b} : m >= y
  OBVIOUS
<1>2. Max({a, b}) \in {a, b} /\ \A y \in {a, b} : Max({a, b}) >= y
  BY <1>1 DEF Max
<1> QED BY <1>1, <1>2

(* A bucket begins no later than the days in it. *)
LEMMA BucketBegins ==
  ASSUME NEW d \in Int
  PROVE  BucketOf(d) \in Int /\ BucketOf(d) <= d /\ (d \in Nat => BucketOf(d) \in Nat)
  BY HistoryConstants DEF BucketOf

(* A later day is in the same bucket or in a later one. *)
LEMMA BucketsInOrder ==
  ASSUME NEW c \in Int, NEW d \in Int, c <= d
  PROVE  BucketOf(c) <= BucketOf(d)
<1> DEFINE p == c \div Bucket
           q == d \div Bucket
<1>1. /\ p \in Int /\ q \in Int
      /\ c = Bucket * p + (c % Bucket) /\ d = Bucket * q + (d % Bucket)
      /\ c % Bucket \in 0 .. Bucket - 1 /\ d % Bucket \in 0 .. Bucket - 1
  BY HistoryConstants
<1> HIDE DEF p, q
<1>2. CASE p <= q
  <2>1. Bucket * p <= Bucket * q
    BY <1>1, <1>2, HistoryConstants
  <2> QED BY <1>1, <2>1, HistoryConstants DEF BucketOf
<1>3. CASE q + 1 <= p
  <2>1. Bucket * (q + 1) <= Bucket * p
    BY <1>1, <1>3, HistoryConstants
  <2>2. Bucket * (q + 1) = Bucket * q + Bucket
    BY <1>1, HistoryConstants
  <2> QED BY <1>1, <2>1, <2>2, HistoryConstants
<1> QED BY <1>1, <1>2, <1>3

-----------------------------------------------------------------------------
(* The modes, and those in which events are read. *)
Modes == {"off", "idle", "run", "backfill", "batch"}
Sessions == {"run", "backfill"}

(* The types, and that nothing is later than today. *)
HistoryTypes ==
  /\ node \in Nodes /\ today \in 1 .. MaxDay /\ mode \in Modes
  /\ streams \subseteq Shards /\ (mode # "run" => streams = {})
  /\ position \in [Shards -> 0 .. today + 1] /\ (mode \in {"off", "idle"} => position = Nowhere)
  /\ cursors \in [Shards -> 0 .. today]
  /\ kept \subseteq Shards \X (1 .. today) /\ IsFiniteSet(kept)
  /\ received \in [Shards \X Events -> 0 .. today] /\ tally \in [Buckets -> Nat]
  /\ coverage \in [Shards -> 0 .. MaxDay + 1]
  /\ live \in 0 .. today /\ dropped \in Int /\ (dropped <= 0 \/ dropped <= today - Retention)

(* What an event's date is, and which events the node may have. *)
LEMMA DayFacts ==
  ASSUME HistoryTypes
  PROVE  /\ \A s \in Shards, e \in Events : Dated(s, e) \in Days /\ Dated(s, e) \in Nat /\ Dated(s, e) >= e
         /\ \A s \in Shards, e, f \in Events : e <= f => Dated(s, e) <= Dated(s, f)
         /\ \A s \in Shards, e, f \in Events : Dated(s, e) <= Dated(s, f) => e <= f
         /\ node.keeps \in Nat \ {0} /\ node.checked \in BOOLEAN /\ node.lasts \in 1 .. MaxDay
         /\ today \in Nat \ {0} /\ today \in Events /\ today \in Available /\ Available \subseteq 1 .. today
         /\ 1 .. today \subseteq Events
         /\ \A s \in Shards, e \in Events : BucketOf(Dated(s, e)) \in Buckets
         /\ Buckets \subseteq Nat
<1>1. node.keeps \in Nat \ {0} /\ node.checked \in BOOLEAN /\ node.lasts \in 1 .. MaxDay
  BY HistoryConstants DEF HistoryTypes
<1>2. MaxDay \in Nat /\ today \in 1 .. MaxDay
  BY HistoryConstants DEF HistoryTypes
<1>3. \A s \in Shards, e \in Events : Dated(s, e) \in Days /\ Dated(s, e) \in Nat /\ Dated(s, e) >= e
  BY <1>2 DEF Dated, Days, Events
<1>4. \A s \in Shards, e, f \in Events : e <= f <=> Dated(s, e) <= Dated(s, f)
  BY <1>2 DEF Dated, Events
<1>5. /\ today \in Nat \ {0} /\ today \in Events /\ 1 .. today \subseteq Events
  BY <1>2 DEF Events
<1>6. today \in Available /\ Available \subseteq 1 .. today
  BY <1>1, <1>2 DEF Events, Available
<1>7. (\A s \in Shards, e \in Events : BucketOf(Dated(s, e)) \in Buckets) /\ Buckets \subseteq Nat
  <2>1. \A d \in Days : BucketOf(d) \in Nat
    BY BucketBegins DEF Days
  <2> QED BY <1>3, <2>1 DEF Buckets
<1> QED BY <1>1, <1>3, <1>4, <1>5, <1>6, <1>7

(* The types hold in the first state. *)
LEMMA HistoryTypesStart == HistoryInit => HistoryTypes
  BY HistoryConstants, FS_EmptySet DEF HistoryInit, HistoryTypes, Modes, Nowhere, Events

(* What a cleanup leaves of the actions, their duplicates and buckets. *)
LEMMA CleanupFacts ==
  ASSUME HistoryTypes, Cleanup
  PROVE  /\ kept' \subseteq kept /\ IsFiniteSet(kept')
         /\ \A s \in Shards, e \in Events :
              <<s, e>> \in kept' <=> <<s, e>> \in kept /\ Dated(s, e) >= today - Retention
         /\ received' \in [Shards \X Events -> 0 .. today]
         /\ \A a \in Shards \X Events : received'[a] # 0 => received[a] # 0
         /\ tally' \in [Buckets -> Nat]
         /\ \A b \in Buckets : tally'[b] = IF b < BucketOf(today - Retention) THEN 0 ELSE tally[b]
         /\ dropped' = IF dropped <= today - Retention THEN today - Retention ELSE dropped
         /\ coverage' = coverage
<1>1. kept' \subseteq kept /\ IsFiniteSet(kept')
  BY FS_Subset DEF HistoryTypes, Cleanup
<1>2. \A s \in Shards, e \in Events :
        <<s, e>> \in kept' <=> <<s, e>> \in kept /\ Dated(s, e) >= today - Retention
  BY DEF Cleanup
<1>3. /\ received' \in [Shards \X Events -> 0 .. today]
      /\ \A a \in Shards \X Events : received'[a] # 0 => received[a] # 0
  BY HistoryConstants DEF HistoryTypes, Cleanup
<1>4. /\ tally' \in [Buckets -> Nat]
      /\ \A b \in Buckets : tally'[b] = IF b < BucketOf(today - Retention) THEN 0 ELSE tally[b]
  BY DEF HistoryTypes, Cleanup
<1>5. dropped' = IF dropped <= today - Retention THEN today - Retention ELSE dropped
  BY HistoryConstants, MaxOfTwo DEF HistoryTypes, Cleanup
<1> QED BY <1>1, <1>2, <1>3, <1>4, <1>5 DEF Cleanup

(* What an event changes: nothing, or only the coverage, or all of it. *)
LEMMA HandleFacts ==
  ASSUME HistoryTypes, NEW s \in Shards, NEW e \in 1 .. today, NEW cutoff \in Int, Handle(s, e, cutoff)
  PROVE  /\ kept' \subseteq Shards \X (1 .. today) /\ IsFiniteSet(kept')
         /\ received' \in [Shards \X Events -> 0 .. today] /\ tally' \in [Buckets -> Nat]
         /\ coverage' \in [Shards -> 0 .. MaxDay + 1]
         /\ \/ /\ Dated(s, e) < cutoff
               /\ UNCHANGED actions
            \/ /\ Dated(s, e) >= cutoff
               /\ \/ received[<<s, e>>] # 0 /\ UNCHANGED <<kept, received, tally>>
                  \/ /\ received' = [received EXCEPT ![<<s, e>>] = today]
                     /\ kept' = kept \cup {<<s, e>>}
                     /\ tally' = [tally EXCEPT ![BucketOf(Dated(s, e))] = @ + (IF <<s, e>> \in kept THEN 0 ELSE 1)]
               /\ \A q \in Shards \ {s} : coverage'[q] = coverage[q]
               /\ coverage'[s] = IF coverage[s] = 0 \/ Dated(s, e) < coverage[s] THEN Dated(s, e) ELSE coverage[s]
<1>1. e \in Events /\ Dated(s, e) \in Days /\ BucketOf(Dated(s, e)) \in Buckets
  BY DayFacts
<1>2. CASE Dated(s, e) < cutoff
  BY <1>2 DEF Handle, actions, HistoryTypes
<1>3. CASE Dated(s, e) >= cutoff
  <2>1. ~(Dated(s, e) < cutoff)
    BY <1>1, <1>3 DEF Days
  <2>2. coverage' = Covered(s, Dated(s, e))
    BY <2>1 DEF Handle
  <2>3. /\ coverage' \in [Shards -> 0 .. MaxDay + 1]
        /\ \A q \in Shards \ {s} : coverage'[q] = coverage[q]
        /\ coverage'[s] = IF coverage[s] = 0 \/ Dated(s, e) < coverage[s] THEN Dated(s, e) ELSE coverage[s]
    <3>1. /\ coverage \in [Shards -> 0 .. MaxDay + 1] /\ Dated(s, e) \in 0 .. MaxDay + 1
          /\ coverage' = [coverage EXCEPT ![s] = IF @ = 0 \/ Dated(s, e) < @ THEN Dated(s, e) ELSE @]
      BY <1>1, <2>2 DEF Covered, HistoryTypes, Days
    <3> QED BY <3>1
  <2>4. CASE received[<<s, e>>] # 0
    BY <1>3, <2>1, <2>3, <2>4 DEF Handle, HistoryTypes
  <2>5. CASE received[<<s, e>>] = 0
    <3>1. /\ received' = [received EXCEPT ![<<s, e>>] = today]
          /\ kept' = kept \cup {<<s, e>>}
          /\ tally' = [tally EXCEPT ![BucketOf(Dated(s, e))] = @ + (IF Inserted(<<s, e>>) THEN 1 ELSE 0)]
      BY <2>1, <2>5 DEF Handle
    <3>2. tally' = [tally EXCEPT ![BucketOf(Dated(s, e))] = @ + (IF <<s, e>> \in kept THEN 0 ELSE 1)]
      BY <3>1 DEF Inserted
    <3>3. kept' \subseteq Shards \X (1 .. today) /\ IsFiniteSet(kept')
      <4>1. IsFiniteSet(kept')
        BY <3>1, FS_AddElement DEF HistoryTypes
      <4> QED BY <3>1, <4>1 DEF HistoryTypes
    <3>4. received' \in [Shards \X Events -> 0 .. today] /\ tally' \in [Buckets -> Nat]
      BY <1>1, <3>1, <3>2 DEF HistoryTypes
    <3> QED BY <1>3, <2>3, <3>1, <3>2, <3>3, <3>4
  <2> QED BY <2>4, <2>5
<1>4. Dated(s, e) < cutoff \/ Dated(s, e) >= cutoff
  BY <1>1 DEF Days
<1> QED BY <1>2, <1>3, <1>4

(* The next event of a shard, of what the node still has. *)
LEMMA NextUnread ==
  ASSUME HistoryTypes, NEW s \in Shards, Unread(s) # {}
  PROVE  /\ Min(Unread(s)) \in Available /\ Min(Unread(s)) \in 1 .. today
         /\ position[s] <= Min(Unread(s))
         /\ \A f \in Available : position[s] <= f => Min(Unread(s)) <= f
<1>1. Unread(s) \in SUBSET Nat /\ Available \subseteq 1 .. today
  BY DayFacts DEF Unread
<1>2. Min(Unread(s)) \in Unread(s) /\ \A f \in Unread(s) : Min(Unread(s)) <= f
  BY <1>1, MinOf
<1>3. position[s] \in 0 .. today + 1
  BY DEF HistoryTypes
<1> HIDE DEF Available
<1> QED BY <1>1, <1>2, <1>3 DEF Unread

-----------------------------------------------------------------------------
(* Every step keeps the types. *)
LEMMA HistoryTypesStep ==
  ASSUME HistoryTypes, [HistoryNext]_historyVars
  PROVE  HistoryTypes'
<1> USE HistoryConstants
<1>1. CASE UNCHANGED historyVars
  BY <1>1 DEF historyVars, session, actions, HistoryTypes
<1>2. ASSUME Cleanup, UNCHANGED <<node, today, session, cursors>>, live' \in 0 .. today,
             mode' \in Modes, streams # {} => mode' = "run", mode' \in {"off", "idle"} => position = Nowhere
      PROVE  HistoryTypes'
  <2>1. kept' \subseteq Shards \X (1 .. today)
    BY <1>2, CleanupFacts DEF HistoryTypes
  <2> QED BY <1>2, <2>1, CleanupFacts DEF HistoryTypes, session
<1>3. CASE StartRun \/ Retain
  BY <1>2, <1>3 DEF StartRun, Retain, HistoryTypes, Modes
<1>4. ASSUME NEW b \in BOOLEAN, FinishBackfill(b) PROVE HistoryTypes'
  BY <1>2, <1>4 DEF FinishBackfill, FinalCleanup, HistoryTypes, Modes
<1>5. CASE OpenSession \/ StartBackfill \/ End
  BY <1>5 DEF OpenSession, StartBackfill, End, Publish, actions, session, HistoryTypes, Modes, Nowhere
<1>6. ASSUME NEW s \in Shards, Connect(s) \/ LoseShard(s) PROVE HistoryTypes'
  BY <1>6 DEF Connect, LoseShard, Publish, actions, HistoryTypes, Modes
<1>7. ASSUME NEW b \in BOOLEAN, Discover(b) PROVE HistoryTypes'
  BY <1>7 DEF Discover, Publish, actions, HistoryTypes, Modes
<1>8. ASSUME NEW to \in {"idle", "off"}, CloseSession(to) PROVE HistoryTypes'
  BY <1>8 DEF CloseSession, Publish, actions, HistoryTypes, Modes, Nowhere
<1>9. ASSUME NEW s \in Shards, NEW b \in BOOLEAN, Reconciled(s, b) PROVE HistoryTypes'
  <2>1. cursors[s] \in 0 .. today /\ position[s] - 1 \in -1 .. today
    BY DEF HistoryTypes
  <2>2. Max({cursors[s], position[s] - 1}) \in 0 .. today
    <3>1. today \in Nat /\ cursors[s] \in Int /\ position[s] - 1 \in Int
      BY <2>1 DEF HistoryTypes
    <3>2. Max({cursors[s], position[s] - 1}) =
            IF cursors[s] <= position[s] - 1 THEN position[s] - 1 ELSE cursors[s]
      BY <3>1, MaxOfTwo
    <3> QED BY <2>1, <3>1, <3>2
  <2>3. cursors' \in [Shards -> 0 .. today]
    BY <1>9, <2>2 DEF Reconciled, HistoryTypes
  <2> QED BY <1>9, <2>3 DEF Reconciled, Publish, actions, HistoryTypes, Modes
<1>10. ASSUME NEW s \in Shards, Read(s) \/ BackfillRead(s) PROVE HistoryTypes'
  <2> DEFINE e == Min(Unread(s))
  <2>1. e \in 1 .. today
    BY <1>10, NextUnread DEF Read, BackfillRead
  <2> HIDE DEF e
  <2>2. \E cutoff \in Int : Handle(s, e, cutoff)
    BY <1>10 DEF Read, BackfillRead, HistoryTypes, e
  <2>3. Max({cursors[s], e}) \in 0 .. today
    <3>1. cursors[s] \in 0 .. today /\ today \in Nat
      BY DEF HistoryTypes
    <3> QED BY <2>1, <3>1, MaxOfTwo
  <2>4. /\ position' = [position EXCEPT ![s] = e + 1]
        /\ cursors' = cursors \/ cursors' = [cursors EXCEPT ![s] = Max({cursors[s], e})]
        /\ UNCHANGED <<node, today, mode, streams, replaying, live, dropped>>
        /\ mode \in Sessions
    BY <1>10 DEF Read, BackfillRead, e, Sessions
  <2>5. cursors' \in [Shards -> 0 .. today] /\ position' \in [Shards -> 0 .. today + 1]
    BY <2>1, <2>3, <2>4 DEF HistoryTypes
  <2> QED BY <2>1, <2>2, <2>4, <2>5, HandleFacts DEF HistoryTypes, Sessions
<1>11. CASE Tomorrow
  <2>1. today' = today + 1 /\ today' \in 1 .. MaxDay
    BY <1>11, DayFacts DEF Tomorrow, HistoryTypes
  <2>2. 1 .. today \subseteq 1 .. today' /\ 0 .. today \subseteq 0 .. today' /\ 0 .. today + 1 \subseteq 0 .. today' + 1
    BY <2>1 DEF HistoryTypes
  <2>3. UNCHANGED <<node, mode, session, actions, cursors, live, dropped>>
    BY <1>11 DEF Tomorrow
  <2>4. kept' \subseteq Shards \X (1 .. today')
    BY <2>2, <2>3 DEF actions, HistoryTypes
  <2>5. /\ position' \in [Shards -> 0 .. today' + 1] /\ cursors' \in [Shards -> 0 .. today']
        /\ received' \in [Shards \X Events -> 0 .. today'] /\ live' \in 0 .. today'
    BY <2>2, <2>3 DEF session, actions, HistoryTypes
  <2> QED BY <2>1, <2>3, <2>4, <2>5 DEF session, actions, HistoryTypes
<1> QED
  BY <1>1, <1>3, <1>4, <1>5, <1>6, <1>7, <1>8, <1>9, <1>10, <1>11 DEF HistoryNext

(* So the types always hold. *)
LEMMA HistoryTyped == HistorySpec => []HistoryTypes
  BY HistoryTypesStart, HistoryTypesStep, PTL DEF HistorySpec

-----------------------------------------------------------------------------
(* The stored actions of a bucket, and the bucket of the latest cutoff.    *)
In(b) == {a \in kept : BucketOf(Dated(a[1], a[2])) = b}
Cut(b) == BucketOf(dropped) <= b /\ b < dropped

(* The property, with a name for what it compares. *)
LEMMA BucketsMatch ==
  BucketsMatchActions <=> \A b \in Buckets : /\ tally[b] >= Cardinality(In(b))
                                             /\ tally[b] > Cardinality(In(b)) => Cut(b)
  BY Zenon DEF BucketsMatchActions, In, Cut

(* What is stored of a bucket can be counted. *)
LEMMA InFacts ==
  ASSUME HistoryTypes, NEW b \in Buckets
  PROVE  IsFiniteSet(In(b)) /\ Cardinality(In(b)) \in Nat /\ tally[b] \in Nat
<1>1. IsFiniteSet(In(b))
  BY FS_Subset DEF In, HistoryTypes
<1> QED BY <1>1, FS_CardinalityType DEF HistoryTypes

(* A cleanup takes a bucket with all of its actions, or leaves both; of    *)
(* the cutoff's bucket it leaves the count and takes a part of the actions.*)
LEMMA CleanupKeepsBuckets ==
  ASSUME HistoryTypes, HistoryTypes', BucketsMatchActions, Cleanup
  PROVE  BucketsMatchActions'
<1> DEFINE cutoff == today - Retention
<1>0. /\ cutoff \in Int /\ dropped \in Int /\ (dropped <= 0 \/ dropped <= cutoff)
      /\ dropped' = (IF dropped <= cutoff THEN cutoff ELSE dropped)
      /\ BucketOf(cutoff) \in Int /\ BucketOf(cutoff) <= cutoff
      /\ BucketOf(dropped) \in Int /\ BucketOf(dropped) <= dropped
  BY HistoryConstants, CleanupFacts, BucketBegins DEF HistoryTypes
<1>1. \A s \in Shards, e \in Events :
        <<s, e>> \in kept' <=> <<s, e>> \in kept /\ Dated(s, e) >= cutoff
  BY CleanupFacts
<1>2. kept \subseteq Shards \X Events /\ kept' \subseteq kept
  BY CleanupFacts, DayFacts DEF HistoryTypes
<1> HIDE DEF cutoff
<1> SUFFICES ASSUME NEW b \in Buckets
             PROVE  /\ tally'[b] >= Cardinality(In(b)')
                    /\ tally'[b] > Cardinality(In(b)') => Cut(b)'
  BY BucketsMatch DEF BucketsMatchActions, In, Cut
<1>3. tally[b] >= Cardinality(In(b)) /\ (tally[b] > Cardinality(In(b)) => Cut(b))
  BY BucketsMatch
<1>4. b \in Nat /\ tally[b] \in Nat /\ Cardinality(In(b)) \in Nat /\ IsFiniteSet(In(b))
  BY InFacts, DayFacts
<1>5. tally'[b] = IF b < BucketOf(cutoff) THEN 0 ELSE tally[b]
  BY CleanupFacts DEF cutoff
<1>6. In(b)' \subseteq In(b)
  BY <1>2 DEF In
<1>7. CASE b < BucketOf(cutoff)
  <2>1. ASSUME NEW s \in Shards, NEW e \in Events, BucketOf(Dated(s, e)) = b
        PROVE  ~(Dated(s, e) >= cutoff)
    <3>1. Dated(s, e) \in Nat
      BY DayFacts
    <3>2. cutoff <= Dated(s, e) => BucketOf(cutoff) <= BucketOf(Dated(s, e))
      BY <1>0, <3>1, BucketsInOrder
    <3> QED BY <1>0, <1>4, <1>7, <2>1, <3>1, <3>2
  <2>2. In(b)' = {}
    BY <1>1, <1>2, <2>1 DEF In
  <2> QED BY <1>5, <1>7, <2>2, FS_EmptySet
<1>8. CASE BucketOf(cutoff) <= b /\ b < cutoff
  <2>1. dropped' = cutoff
    BY <1>0, <1>4, <1>8
  <2>2. Cut(b)'
    BY <1>8, <2>1 DEF Cut, BucketOf
  <2>3. Cardinality(In(b)') \in Nat /\ Cardinality(In(b)') <= Cardinality(In(b))
    BY <1>4, <1>6, FS_Subset, FS_CardinalityType
  <2> QED BY <1>0, <1>3, <1>4, <1>5, <1>8, <2>2, <2>3
<1>9. CASE cutoff <= b
  <2>1. ASSUME NEW s \in Shards, NEW e \in Events, BucketOf(Dated(s, e)) = b
        PROVE  Dated(s, e) >= cutoff
    <3>1. Dated(s, e) \in Nat /\ b <= Dated(s, e)
      BY <2>1, DayFacts, BucketBegins
    <3> QED BY <1>0, <1>4, <1>9, <3>1
  <2>2. In(b)' = In(b)
    BY <1>1, <1>2, <2>1 DEF In
  <2>3. ~Cut(b)
    BY <1>0, <1>4, <1>9 DEF Cut
  <2> QED BY <1>0, <1>3, <1>4, <1>5, <1>9, <2>2, <2>3
<1> QED BY <1>0, <1>4, <1>7, <1>8, <1>9

(* An action and its count come in one transaction.                        *)
LEMMA HandleKeepsBuckets ==
  ASSUME HistoryTypes, BucketsMatchActions, dropped' = dropped,
         NEW s \in Shards, NEW e \in 1 .. today, NEW cutoff \in Int, Handle(s, e, cutoff)
  PROVE  BucketsMatchActions'
<1> DEFINE a == <<s, e>>
           at == BucketOf(Dated(s, e))
<1>1. CASE UNCHANGED <<kept, tally>>
  BY <1>1 DEF BucketsMatchActions
<1>2. CASE /\ kept' = kept \cup {a}
           /\ tally' = [tally EXCEPT ![at] = @ + (IF a \in kept THEN 0 ELSE 1)]
  <2>0. at \in Buckets /\ tally \in [Buckets -> Nat]
    BY DayFacts DEF HistoryTypes
  <2> SUFFICES ASSUME NEW b \in Buckets
               PROVE  /\ tally'[b] >= Cardinality(In(b)')
                      /\ tally'[b] > Cardinality(In(b)') => Cut(b)
    BY BucketsMatch DEF BucketsMatchActions, In, Cut
  <2>1. /\ tally[b] >= Cardinality(In(b)) /\ (tally[b] > Cardinality(In(b)) => Cut(b))
        /\ tally[b] \in Nat /\ Cardinality(In(b)) \in Nat /\ IsFiniteSet(In(b))
    BY BucketsMatch, InFacts
  <2>2. a \in In(b) <=> a \in kept /\ at = b
    BY DEF In
  <2>3. CASE at = b
    <3>1. In(b)' = In(b) \cup {a}
      BY <1>2, <2>3 DEF In
    <3>2. Cardinality(In(b) \cup {a}) =
            IF a \in In(b) THEN Cardinality(In(b)) ELSE Cardinality(In(b)) + 1
      BY <2>1, FS_AddElement
    <3>3. tally'[b] = tally[b] + (IF a \in kept THEN 0 ELSE 1)
      BY <1>2, <2>0, <2>3
    <3> HIDE DEF a, at
    <3> QED BY <2>1, <2>2, <2>3, <3>1, <3>2, <3>3
  <2>4. CASE at # b
    <3>1. In(b)' = In(b) /\ tally'[b] = tally[b]
      BY <1>2, <2>0, <2>4 DEF In
    <3> QED BY <2>1, <3>1
  <2> QED BY <2>3, <2>4
<1> QED BY <1>1, <1>2, HandleFacts DEF actions

(* So no step takes the buckets away from their actions. *)
LEMMA BucketsStep ==
  ASSUME HistoryTypes, HistoryTypes', BucketsMatchActions, [HistoryNext]_historyVars
  PROVE  BucketsMatchActions'
<1>1. CASE StartRun \/ Retain \/ \E b \in BOOLEAN : FinishBackfill(b)
  BY <1>1, CleanupKeepsBuckets DEF StartRun, Retain, FinishBackfill, FinalCleanup
<1>2. ASSUME NEW s \in Shards, Read(s) \/ BackfillRead(s) PROVE BucketsMatchActions'
  <2>1. (\E cutoff \in Int : Handle(s, Min(Unread(s)), cutoff)) /\ dropped' = dropped
    BY <1>2, HistoryConstants DEF Read, BackfillRead, HistoryTypes
  <2>2. Min(Unread(s)) \in 1 .. today
    BY <1>2, NextUnread DEF Read, BackfillRead
  <2> QED BY <2>1, <2>2, HandleKeepsBuckets
<1>3. CASE UNCHANGED <<actions, dropped>>
  BY <1>3 DEF actions, BucketsMatchActions
<1>4. CASE UNCHANGED historyVars
  BY <1>3, <1>4 DEF historyVars
<1> QED
  BY <1>1, <1>2, <1>3, <1>4
  DEF HistoryNext, OpenSession, StartBackfill, End, Tomorrow, Connect, LoseShard, Reconciled, Discover, CloseSession

(* Whatever is replayed, backfilled and deleted, and by whichever of the   *)
(* three cutoffs, a bucket counts the actions stored for it, and more only *)
(* where the latest cutoff fell into it.                                   *)
THEOREM BucketsCount == HistorySpec => []BucketsMatchActions
<1>1. HistoryInit => BucketsMatchActions
  <2> SUFFICES ASSUME HistoryInit, NEW b \in Buckets PROVE tally[b] = 0 /\ Cardinality(In(b)) = 0
    BY BucketsMatch
  <2>1. In(b) = {} /\ tally[b] = 0
    BY DEF HistoryInit, In
  <2> QED BY <2>1, FS_EmptySet
<1> QED BY <1>1, BucketsStep, HistoryTyped, PTL DEF HistorySpec

(* A backfill may count old buckets again; it ends with a cleanup, and so  *)
(* does the first step of the run that follows one that did not end.       *)
LEMMA DroppedStep ==
  ASSUME HistoryTypes, NoPartialDayGoesOut, [HistoryNext]_historyVars
  PROVE  NoPartialDayGoesOut'
<1> USE HistoryConstants DEF NoPartialDayGoesOut
<1>1. CASE Cleanup
  <2> SUFFICES ASSUME NEW b \in Buckets, b < BucketOf(dropped') PROVE tally'[b] = 0
    BY DEF BucketOf
  <2>1. b \in Nat /\ dropped' \in Int /\ BucketOf(dropped') <= dropped' /\ BucketOf(dropped') \in Int
    BY <1>1, DayFacts, CleanupFacts, BucketBegins DEF HistoryTypes
  <2>2. dropped' = today - Retention
    BY <1>1, <2>1, CleanupFacts DEF HistoryTypes
  <2> QED BY <1>1, <2>2, CleanupFacts
<1>2. CASE mode = "run" /\ mode' = mode /\ dropped' = dropped /\ \E s \in Shards : Read(s)
  <2> SUFFICES ASSUME NEW b \in Buckets, b < BucketOf(dropped) PROVE tally'[b] = 0
    BY <1>2 DEF BucketOf
  <2>1. dropped <= today - Retention /\ tally[b] = 0 /\ b \in Nat /\ BucketOf(dropped) \in Int
    BY <1>2, DayFacts, BucketBegins DEF HistoryTypes
  <2>2. PICK s \in Shards : Unread(s) # {} /\ Handle(s, Min(Unread(s)), today - Retention)
    BY <1>2 DEF Read
  <2> DEFINE e == Min(Unread(s))
  <2>3. e \in 1 .. today
    BY <2>2, NextUnread
  <2> HIDE DEF e
  <2>4. CASE tally' = tally
    BY <2>1, <2>4
  <2>5. CASE /\ Dated(s, e) >= today - Retention
             /\ tally' = [tally EXCEPT ![BucketOf(Dated(s, e))] = @ + (IF <<s, e>> \in kept THEN 0 ELSE 1)]
    <3>1. Dated(s, e) \in Nat /\ dropped \in Int /\ dropped <= Dated(s, e)
      BY <2>1, <2>3, <2>5, DayFacts DEF HistoryTypes
    <3>2. BucketOf(dropped) <= BucketOf(Dated(s, e)) /\ BucketOf(Dated(s, e)) \in Int
      BY <3>1, BucketsInOrder, BucketBegins
    <3> QED BY <2>1, <2>5, <3>2 DEF HistoryTypes
  <2>6. Handle(s, e, today - Retention) /\ today - Retention \in Int
    BY <2>2 DEF HistoryTypes, e
  <2> QED BY <2>3, <2>4, <2>5, <2>6, HandleFacts DEF actions
<1>3. CASE UNCHANGED <<tally, dropped>> /\ (mode' \in {"run", "idle", "batch"} => mode \in {"run", "idle", "batch"})
  BY <1>3
<1>4. CASE mode' \notin {"run", "idle", "batch"}
  BY <1>4
<1> QED
  BY <1>1, <1>2, <1>3, <1>4
  DEF HistoryNext, historyVars, actions, OpenSession, StartBackfill, End, Tomorrow, Connect, LoseShard, Reconciled,
      Discover, CloseSession, StartRun, Retain, FinishBackfill, FinalCleanup, Read, BackfillRead

(* Whenever a batch may be made, nothing is there of a bucket that a       *)
(* cleanup has dropped.                                                    *)
THEOREM DroppedDaysStayDropped == HistorySpec => []NoPartialDayGoesOut
<1>1. HistoryInit => NoPartialDayGoesOut
  BY DEF HistoryInit, NoPartialDayGoesOut
<1> QED BY <1>1, DroppedStep, HistoryTyped, PTL DEF HistorySpec

-----------------------------------------------------------------------------
(* The metrics look at the event. *)
InWindow(s, e) == Dated(s, e) >= today - Window

(* The collector has the event e, or a later one, of the shard. *)
Within(s, e) == e <= cursors[s] \/ \E f \in Events : <<s, f>> \in kept /\ e <= f

(* A row that recognises a duplicate is about an action that is stored. *)
DuplicatesAreKept == \A s \in Shards, e \in Events :
  received[<<s, e>>] # 0 /\ InWindow(s, e) => <<s, e>> \in kept

(* e is covered, or could be read again. *)
Covers(s, e) == (coverage[s] # 0 /\ coverage[s] <= Dated(s, e)) \/ e \in Available

(* No event is missing between those that the collector has. *)
NoHoles == \A s \in Shards, e \in Events :
  Within(s, e) /\ InWindow(s, e) /\ Covers(s, e) => <<s, e>> \in kept

(* What a replay, a stream or a backfill has passed is stored. *)
ReadIsKept == mode \in Sessions => \A s \in Shards, e \in Available :
  e < position[s] /\ InWindow(s, e) => <<s, e>> \in kept

(* What comes after the last event that the collector has is still there  *)
(* to be read, of a shard that has been read from.                        *)
NodeHasTheRest == \A s \in Shards, e \in Events :
  (mode \in Sessions \/ ~(node.checked /\ cursors[s] # 0)) /\ coverage[s] # 0
    => (e <= today /\ InWindow(s, e) => Within(s, e) \/ e \in Available)

(* A shard that is not replayed any more has been read up to today. *)
StreamsAreRead == \A s \in streams \ replaying : position[s] >= today

(* The inductive invariant, and the same with the types. *)
Gapless == DuplicatesAreKept /\ NoHoles /\ ReadIsKept /\ NodeHasTheRest /\ StreamsAreRead

HistoryInv == HistoryTypes /\ Gapless

(* It holds before anything was read. *)
LEMMA GaplessStart == HistoryInit => Gapless
  BY HistoryConstants DEF HistoryInit, Gapless, DuplicatesAreKept, NoHoles, ReadIsKept, NodeHasTheRest,
     StreamsAreRead, Within, Covers, Sessions, Nowhere, Events

(* The collector has nothing from after today. *)
LEMMA WithinFacts ==
  ASSUME HistoryTypes, NEW s \in Shards, NEW e \in Events, Within(s, e)
  PROVE  e <= today
<1>1. CASE e <= cursors[s]
  BY <1>1, HistoryConstants DEF HistoryTypes, Events
<1>2. ASSUME NEW f \in Events, <<s, f>> \in kept, e <= f PROVE e <= today
  <2>1. f \in 1 .. today
    BY <1>2 DEF HistoryTypes
  <2> QED BY <1>2, <2>1, HistoryConstants DEF HistoryTypes, Events
<1> QED BY <1>1, <1>2 DEF Within

(* A cleanup drops nothing that is in the window. *)
LEMMA CleanupKeeps ==
  ASSUME HistoryInv, Cleanup, UNCHANGED <<node, today, session, cursors>>, mode' \in Sessions => mode \in Sessions
  PROVE  Gapless'
<1> USE HistoryConstants DEF HistoryInv
<1>1. \A s \in Shards, e \in Events : InWindow(s, e)' <=> InWindow(s, e)
  BY DEF InWindow
<1>2. \A s \in Shards, e \in Events : <<s, e>> \in kept' => <<s, e>> \in kept
  BY CleanupFacts
<1>3. \A s \in Shards, e \in Events : <<s, e>> \in kept /\ InWindow(s, e) => <<s, e>> \in kept'
  <2>1. ASSUME NEW s \in Shards, NEW e \in Events, InWindow(s, e) PROVE Dated(s, e) >= today - Retention
    <3>1. Dated(s, e) \in Nat /\ today \in Nat
      BY DayFacts
    <3> QED BY <2>1, <3>1 DEF InWindow
  <2> QED BY <2>1, CleanupFacts
<1>4. \A s \in Shards, e \in Events : Within(s, e)' => Within(s, e)
  BY <1>2 DEF Within
<1>5. \A s \in Shards, e \in Events : Within(s, e) /\ InWindow(s, e) => Within(s, e)'
  <2> SUFFICES ASSUME NEW s \in Shards, NEW e \in Events, InWindow(s, e), NEW f \in Events, <<s, f>> \in kept, e <= f
               PROVE  <<s, f>> \in kept'
    BY DEF Within
  <2>1. InWindow(s, f)
    <3>1. Dated(s, e) \in Nat /\ Dated(s, f) \in Nat /\ today \in Nat /\ Dated(s, e) <= Dated(s, f)
      BY DayFacts
    <3> QED BY <3>1 DEF InWindow
  <2> QED BY <1>3, <2>1
<1>6. Available' = Available /\ \A s \in Shards, e \in Events : Covers(s, e)' <=> Covers(s, e)
  BY CleanupFacts DEF Covers, Available
<1>7. DuplicatesAreKept'
  BY <1>1, <1>3, CleanupFacts DEF Gapless, DuplicatesAreKept
<1>8. NoHoles'
  BY <1>1, <1>3, <1>4, <1>6 DEF Gapless, NoHoles
<1>9. ReadIsKept'
  BY <1>1, <1>3, <1>6, DayFacts DEF Gapless, ReadIsKept, session
<1>10. NodeHasTheRest'
  BY <1>1, <1>5, <1>6, CleanupFacts DEF Gapless, NodeHasTheRest
<1>11. StreamsAreRead'
  BY DEF Gapless, StreamsAreRead, session
<1> QED BY <1>7, <1>8, <1>9, <1>10, <1>11 DEF Gapless

(* A session begins, ends or goes on, and replays begin at the cursors. *)
LEMMA ControlKeeps ==
  ASSUME HistoryInv, UNCHANGED <<node, today, actions, cursors>>,
         mode' \in Sessions => mode \in Sessions \/ Continuous,
         \A s \in Shards : \/ position'[s] = position[s] /\ (mode \in Sessions \/ position[s] = 0)
                           \/ position'[s] \in {0, cursors[s]},
         \A s \in streams' \ replaying' : s \in streams \ replaying /\ position'[s] = position[s]
  PROVE  Gapless'
<1> USE HistoryConstants DEF HistoryInv
<1>1. \A s \in Shards, e \in Events : /\ InWindow(s, e)' <=> InWindow(s, e)
                                      /\ Within(s, e)' <=> Within(s, e)
                                      /\ Covers(s, e)' <=> Covers(s, e)
  BY DEF InWindow, Within, Covers, Available, actions
<1>2. Available' = Available
  BY DEF Available
<1>3. DuplicatesAreKept' /\ NoHoles'
  BY <1>1 DEF Gapless, DuplicatesAreKept, NoHoles, actions
<1>4. ReadIsKept'
  <2> SUFFICES ASSUME NEW s \in Shards, NEW e \in Available, e < position'[s], InWindow(s, e) PROVE <<s, e>> \in kept
    BY <1>1, <1>2, DayFacts DEF ReadIsKept, actions
  <2>0. e \in Events /\ e \in Nat \ {0}
    BY DayFacts DEF HistoryTypes
  <2>1. CASE position'[s] = position[s] /\ mode \in Sessions
    BY <2>1 DEF Gapless, ReadIsKept
  <2>2. CASE position'[s] = 0
    BY <2>0, <2>2
  <2>3. CASE position'[s] = cursors[s]
    <3>1. Within(s, e) /\ Covers(s, e)
      BY <2>0, <2>3 DEF Within, Covers, HistoryTypes
    <3> QED BY <2>0, <3>1 DEF Gapless, NoHoles
  <2> QED BY <2>1, <2>2, <2>3
<1>5. NodeHasTheRest'
  <2> SUFFICES ASSUME NEW s \in Shards, NEW e \in Events, mode' \in Sessions, mode \notin Sessions, node.checked,
                      cursors[s] # 0, e <= today, InWindow(s, e), ~Within(s, e)
               PROVE  e \in Available
    BY <1>1, <1>2 DEF Gapless, NodeHasTheRest, actions
  <2>1. cursors[s] \in Available
    BY DEF Continuous
  <2>2. cursors[s] < e
    BY DEF Within, HistoryTypes, Events
  <2> QED BY <2>1, <2>2, DayFacts DEF Available, HistoryTypes, Events
<1>6. StreamsAreRead'
  BY DEF Gapless, StreamsAreRead
<1> QED BY <1>3, <1>4, <1>5, <1>6 DEF Gapless

(* The next event is read.  What lies between the last event that the      *)
(* collector has and this one is out of the window, has been read, or is   *)
(* before the first event of the shard that is recorded.                   *)
LEMMA ReadKeeps ==
  ASSUME HistoryInv, NEW s \in Shards, NEW e \in 1 .. today, e \in Available, position[s] <= e,
         \A f \in Available : position[s] <= f => e <= f,
         NEW cutoff \in Int, cutoff <= today - Window, Handle(s, e, cutoff), mode \in Sessions,
         position' = [position EXCEPT ![s] = e + 1],
         \/ cursors' = cursors
         \/ cursors' = [cursors EXCEPT ![s] = IF cursors[s] <= e THEN e ELSE cursors[s]],
         UNCHANGED <<node, today, mode, streams, replaying>>
  PROVE  Gapless'
<1> USE HistoryConstants
<1>0. HistoryTypes /\ Gapless
  BY DEF HistoryInv
<1>1. /\ \A q \in Shards, f \in Events : InWindow(q, f)' <=> InWindow(q, f)
      /\ Available' = Available /\ Available \subseteq 1 .. today /\ 1 .. today \subseteq Events
      /\ e \in Events /\ today \in Nat \ {0}
      /\ \A q \in Shards, f \in Events : Dated(q, f) \in Nat /\ Dated(q, f) >= f
  BY <1>0, DayFacts DEF InWindow, Available
<1>2. /\ \A q \in Shards : position[q] \in 0 .. today + 1 /\ cursors[q] \in 0 .. today /\ coverage[q] \in Nat
      /\ \A q \in Shards \ {s} : position'[q] = position[q] /\ cursors'[q] = cursors[q] /\ coverage'[q] = coverage[q]
      /\ position'[s] = e + 1
      /\ cursors'[s] = cursors[s] \/ (cursors'[s] = e /\ cursors[s] <= e)
  <2>1. /\ \A q \in Shards : position[q] \in 0 .. today + 1 /\ cursors[q] \in 0 .. today /\ coverage[q] \in Nat
        /\ position \in [Shards -> 0 .. today + 1] /\ cursors \in [Shards -> 0 .. today]
    BY <1>0 DEF HistoryTypes
  <2>2. \A q \in Shards \ {s} : coverage'[q] = coverage[q]
    BY <1>0, HandleFacts DEF actions
  <2> QED BY <1>1, <2>1, <2>2
<1>3. /\ \A a \in kept : a \in kept'
      /\ \A q \in Shards, f \in Events : <<q, f>> # <<s, e>> =>
           /\ <<q, f>> \in kept' <=> <<q, f>> \in kept
           /\ received'[<<q, f>>] = received[<<q, f>>]
  <2>1. CASE UNCHANGED <<kept, received>>
    BY <2>1
  <2>2. CASE kept' = kept \cup {<<s, e>>} /\ received' = [received EXCEPT ![<<s, e>>] = today]
    <3>1. \A q \in Shards, f \in Events : <<q, f>> # <<s, e>> => received'[<<q, f>>] = received[<<q, f>>]
      BY <1>0, <1>1, <2>2 DEF HistoryTypes
    <3> QED BY <2>2, <3>1
  <2> QED BY <1>0, <2>1, <2>2, HandleFacts DEF actions
<1>4. InWindow(s, e) => <<s, e>> \in kept'
  <2> SUFFICES ASSUME InWindow(s, e) PROVE <<s, e>> \in kept'
    OBVIOUS
  <2>1. ~(Dated(s, e) < cutoff)
    BY <1>1 DEF InWindow
  <2>2. CASE received[<<s, e>>] # 0
    BY <1>0, <1>1, <1>3, <2>2 DEF Gapless, DuplicatesAreKept
  <2>3. CASE kept' = kept \cup {<<s, e>>}
    BY <2>3
  <2> QED BY <1>0, <2>1, <2>2, <2>3, HandleFacts
<1>5. ASSUME NEW q \in Shards, NEW f \in Events, <<q, f>> # <<s, e>>, Within(q, f)', InWindow(q, f), Covers(q, f)'
      PROVE  <<q, f>> \in kept
  <2>1. CASE q # s
    BY <1>0, <1>1, <1>2, <1>3, <1>5, <2>1 DEF Gapless, NoHoles, Within, Covers
  <2>2. CASE q = s /\ Within(q, f)
    <3>1. CASE Covers(q, f)
      BY <1>0, <1>5, <2>2, <3>1 DEF Gapless, NoHoles
    <3>2. CASE ~Covers(q, f)
      <4>1. coverage'[s] = Dated(s, e) /\ Dated(s, e) <= Dated(s, f)
        <5>1. coverage'[s] # 0 /\ coverage'[s] <= Dated(s, f) /\ ~(coverage[s] # 0 /\ coverage[s] <= Dated(s, f))
          BY <1>1, <1>5, <2>2, <3>2 DEF Covers
        <5>2. coverage'[s] = coverage[s] \/ coverage'[s] = Dated(s, e)
          BY <1>0, HandleFacts DEF actions
        <5> QED BY <5>1, <5>2
      <4>2. e <= f
        BY <1>0, <1>1, <4>1, DayFacts
      <4>3. f <= today
        BY <1>0, <2>2, WithinFacts
      <4>4. f \in Available
        BY <1>0, <1>1, <4>2, <4>3, DayFacts DEF Available
      <4> QED BY <3>2, <4>4 DEF Covers
    <3> QED BY <3>1, <3>2
  <2>3. CASE q = s /\ ~Within(q, f)
    <3>1. f < e
      <4>1. f # e /\ ~(f <= cursors[s]) /\ \A g \in Events : <<s, g>> \in kept => ~(f <= g)
        BY <1>5, <2>3 DEF Within
      <4>2. f <= cursors'[s] \/ \E g \in Events : <<s, g>> \in kept' /\ f <= g
        BY <1>5, <2>3 DEF Within
      <4>3. CASE f <= cursors'[s]
        BY <1>1, <1>2, <4>1, <4>3 DEF Events
      <4>4. CASE \E g \in Events : <<s, g>> \in kept' /\ f <= g
        <5>1. PICK g \in Events : <<s, g>> \in kept' /\ f <= g
          BY <4>4
        <5>2. g = e
          BY <1>3, <4>1, <5>1
        <5> QED BY <1>1, <4>1, <5>1, <5>2 DEF Events
      <4> QED BY <4>2, <4>3, <4>4
    <3>2. CASE f \in Available
      <4>1. f < position[s]
        BY <1>1, <1>2, <3>1, <3>2 DEF Events
      <4> QED BY <1>0, <1>5, <2>3, <3>2, <4>1 DEF Gapless, ReadIsKept
    <3>3. CASE f \notin Available
      <4>1. coverage'[s] # 0 /\ coverage'[s] <= Dated(s, f)
        BY <1>1, <1>5, <2>3, <3>3 DEF Covers
      <4>2. Dated(s, f) <= Dated(s, e) /\ ~(Dated(s, e) <= Dated(s, f))
        BY <1>0, <1>1, <3>1, DayFacts DEF Events
      <4>3. coverage[s] # 0
        BY <1>0, <1>1, <1>2, <4>1, <4>2, HandleFacts DEF actions
      <4>4. f <= today
        BY <1>1, <3>1 DEF Events
      <4> QED BY <1>0, <1>5, <2>3, <3>3, <4>3, <4>4 DEF Gapless, NodeHasTheRest
    <3> QED BY <3>2, <3>3
  <2> QED BY <2>1, <2>2, <2>3
<1>6. DuplicatesAreKept'
  BY <1>0, <1>1, <1>3, <1>4 DEF Gapless, DuplicatesAreKept
<1>7. NoHoles'
  BY <1>1, <1>3, <1>4, <1>5 DEF NoHoles
<1>8. ReadIsKept'
  <2> SUFFICES ASSUME NEW q \in Shards, NEW f \in Available, f < position'[q], InWindow(q, f), <<q, f>> # <<s, e>>
               PROVE  <<q, f>> \in kept
    BY <1>1, <1>3, <1>4 DEF ReadIsKept
  <2>1. f < position[q]
    BY <1>1, <1>2
  <2> QED BY <1>0, <2>1 DEF Gapless, ReadIsKept
<1>9. NodeHasTheRest'
  <2> SUFFICES ASSUME NEW q \in Shards, NEW f \in Events, coverage'[q] # 0, f <= today, InWindow(q, f), ~Within(q, f)'
               PROVE  f \in Available
    BY <1>1 DEF NodeHasTheRest
  <2>1. ~Within(q, f)
    <3>1. ~(f <= cursors'[q]) /\ \A g \in Events : <<q, g>> \in kept' => ~(f <= g)
      BY DEF Within
    <3>2. ~(f <= cursors[q])
      <4>1. cursors[q] \in 0 .. today
        BY <1>2
      <4>2. cursors[q] \in Nat /\ f \in Nat /\ e \in Nat
        BY <1>1, <4>1 DEF Events
      <4>3. CASE q = s
        BY <1>2, <3>1, <4>2, <4>3
      <4>4. CASE q # s
        BY <1>2, <3>1, <4>4
      <4> QED BY <4>3, <4>4
    <3>3. \A g \in Events : <<q, g>> \in kept => ~(f <= g)
      BY <1>3, <3>1
    <3> QED BY <3>2, <3>3 DEF Within
  <2>2. CASE coverage[q] # 0
    BY <1>0, <2>1, <2>2 DEF Gapless, NodeHasTheRest
  <2>3. CASE coverage[q] = 0
    <3>1. q = s
      BY <1>2, <2>3
    <3>2. e < f
      <4> SUFFICES ASSUME f <= e PROVE FALSE
        BY <1>1 DEF Events
      <4>1. Dated(s, f) <= Dated(s, e)
        BY <1>0, <1>1, DayFacts
      <4>2. Dated(s, e) \in Nat /\ Dated(s, f) \in Nat /\ today \in Nat /\ InWindow(s, f)
        BY <1>1, <3>1
      <4>3. InWindow(s, e)
        BY <4>1, <4>2 DEF InWindow
      <4> QED BY <1>1, <1>4, <3>1, <4>3 DEF Within
    <3> QED BY <1>0, <1>1, <3>2, DayFacts DEF Available
  <2> QED BY <2>2, <2>3
<1>10. StreamsAreRead'
  BY <1>0, <1>1, <1>2 DEF Gapless, StreamsAreRead, HistoryTypes
<1> QED BY <1>6, <1>7, <1>8, <1>9, <1>10 DEF Gapless

(* A reconciliation moves the cursor to the last event that was read. *)
LEMMA ReconciledKeeps ==
  ASSUME HistoryInv, NEW s \in Shards, mode \in Sessions,
         cursors' = [cursors EXCEPT ![s] = IF cursors[s] <= position[s] - 1 THEN position[s] - 1 ELSE cursors[s]],
         UNCHANGED <<node, today, mode, position, actions>>,
         \A q \in streams' \ replaying' :
           q \in streams \ replaying \/ (q = s /\ \A e \in Available : e < position[s])
  PROVE  Gapless'
<1> USE HistoryConstants
<1>0. HistoryTypes /\ Gapless
  BY DEF HistoryInv
<1>1. /\ \A q \in Shards, f \in Events : InWindow(q, f)' <=> InWindow(q, f)
      /\ \A q \in Shards, f \in Events : Covers(q, f)' <=> Covers(q, f)
      /\ Available' = Available /\ today \in Available /\ today \in Nat \ {0}
  BY <1>0, DayFacts DEF InWindow, Covers, Available, actions
<1>2. /\ \A q \in Shards : position[q] \in 0 .. today + 1 /\ cursors[q] \in 0 .. today
      /\ \A q \in Shards \ {s} : cursors'[q] = cursors[q]
      /\ cursors'[s] = IF cursors[s] <= position[s] - 1 THEN position[s] - 1 ELSE cursors[s]
  BY <1>0 DEF HistoryTypes
<1>3. ASSUME NEW q \in Shards, NEW f \in Events, Within(q, f) PROVE Within(q, f)'
  BY <1>2, <1>3 DEF Within, actions, Events
<1>4. ASSUME NEW q \in Shards, NEW f \in Events, Within(q, f)', ~Within(q, f) PROVE q = s /\ f < position[s] /\ f <= today
  BY <1>1, <1>2, <1>4 DEF Within, actions, Events
<1>5. NoHoles'
  <2> SUFFICES ASSUME NEW q \in Shards, NEW f \in Events, Within(q, f)', InWindow(q, f), Covers(q, f)
               PROVE  <<q, f>> \in kept
    BY <1>1 DEF NoHoles, actions
  <2>1. CASE Within(q, f)
    BY <1>0, <2>1 DEF Gapless, NoHoles
  <2>2. CASE ~Within(q, f)
    <3>1. q = s /\ f < position[s] /\ f <= today
      BY <1>4, <2>2
    <3>2. f \in Available
      BY <1>0, <2>2, <3>1 DEF Covers, Gapless, NodeHasTheRest
    <3> QED BY <1>0, <3>1, <3>2 DEF Gapless, ReadIsKept
  <2> QED BY <2>1, <2>2
<1>6. NodeHasTheRest'
  BY <1>0, <1>1, <1>3 DEF Gapless, NodeHasTheRest, actions
<1>7. DuplicatesAreKept' /\ ReadIsKept'
  BY <1>0, <1>1, DayFacts DEF Gapless, DuplicatesAreKept, ReadIsKept, actions
<1>8. StreamsAreRead'
  BY <1>0, <1>1, <1>2 DEF Gapless, StreamsAreRead, HistoryTypes
<1> QED BY <1>5, <1>6, <1>7, <1>8 DEF Gapless

(* The last event of a shard that the collector has. *)
LEMMA FrontierFacts ==
  ASSUME HistoryTypes, NEW s \in Shards
  PROVE  /\ Frontier(s) \in 0 .. today
         /\ \A e \in Events : e <= Frontier(s) => Within(s, e)
<1> DEFINE S == {cursors[s]} \cup {e \in Events : <<s, e>> \in kept}
<1>1. today \in Nat /\ S \in SUBSET (0 .. today) /\ S # {}
  <2>1. ASSUME NEW e \in Events, <<s, e>> \in kept PROVE e \in 0 .. today
    BY <2>1 DEF HistoryTypes, Events
  <2>2. cursors[s] \in 0 .. today /\ today \in Nat
    BY DEF HistoryTypes
  <2> QED BY <2>1, <2>2
<1>2. Frontier(s) \in S
  BY <1>1, MaxOf DEF Frontier
<1> QED BY <1>1, <1>2 DEF Within

(* A day passes.  A node that is not forgetful keeps what is to be read. *)
LEMMA TomorrowKeeps ==
  ASSUME Forgetful = FALSE, HistoryInv, Tomorrow
  PROVE  Gapless'
<1> USE HistoryConstants
<1>0. HistoryTypes /\ Gapless
  BY DEF HistoryInv
<1>1. /\ today' = today + 1 /\ today \in Nat \ {0} /\ node.keeps \in Nat \ {0} /\ today \in Available
      /\ \A q \in Shards, f \in Events : Dated(q, f) \in Nat
      /\ UNCHANGED <<node, mode, session, actions, cursors>>
      /\ mode = "run" => streams = Shards /\ replaying = {} /\ \A s \in Shards : position[s] > today
      /\ mode # "backfill"
  BY <1>0, DayFacts DEF Tomorrow
<1>2. \A q \in Shards, f \in Events : /\ InWindow(q, f)' => InWindow(q, f)
                                      /\ Within(q, f)' <=> Within(q, f)
  BY <1>1 DEF InWindow, Within, actions
<1>3. \A f \in Available' : f \in Available \/ f = today + 1
  BY <1>1 DEF Available, Events
<1>4. \A q \in Shards : position[q] \in 0 .. today + 1 /\ cursors[q] \in 0 .. today
  BY <1>0 DEF HistoryTypes
<1>5. \A q \in Shards, f \in Events : Within(q, f) => f <= today
  BY <1>0, WithinFacts
<1>6. DuplicatesAreKept'
  BY <1>0, <1>1, <1>2 DEF Gapless, DuplicatesAreKept, actions
<1>7. NoHoles'
  <2> SUFFICES ASSUME NEW q \in Shards, NEW f \in Events, Within(q, f), InWindow(q, f), Covers(q, f)'
               PROVE  <<q, f>> \in kept
    BY <1>1, <1>2 DEF NoHoles, actions
  <2>1. f # today + 1
    BY <1>1, <1>5
  <2>2. Covers(q, f)
    BY <1>1, <1>3, <2>1 DEF Covers, actions
  <2> QED BY <1>0, <2>2 DEF Gapless, NoHoles
<1>8. ReadIsKept'
  <2> SUFFICES ASSUME mode \in Sessions, NEW q \in Shards, NEW f \in Available', f < position[q], InWindow(q, f)'
               PROVE  <<q, f>> \in kept
    BY <1>1 DEF ReadIsKept, actions, session
  <2>1. f \in Available
    BY <1>1, <1>3, <1>4
  <2>2. InWindow(q, f)
    BY <1>2, <2>1 DEF Available
  <2> QED BY <1>0, <2>1, <2>2 DEF Gapless, ReadIsKept
<1>9. NodeHasTheRest'
  <2> SUFFICES ASSUME NEW q \in Shards, NEW f \in Events, mode \in Sessions \/ ~(node.checked /\ cursors[q] # 0),
                      coverage[q] # 0, f <= today + 1, InWindow(q, f)', ~Within(q, f)
               PROVE  f \in Available'
    BY <1>1, <1>2 DEF NodeHasTheRest, actions
  <2>1. CASE ~(node.checked /\ cursors[q] # 0)
    <3>1. today + 1 - node.keeps <= Frontier(q)
      BY <2>1 DEF Tomorrow
    <3>2. Frontier(q) < f
      BY <1>0, FrontierFacts DEF Events
    <3> QED BY <1>0, <1>1, <3>1, <3>2, FrontierFacts DEF Available, Events
  <2>2. CASE mode \in Sessions
    <3>1. position[q] > today
      BY <1>1, <2>2 DEF Sessions
    <3>2. <<q, today>> \in kept
      <4>1. today \in Events /\ today < position[q]
        BY <1>0, <1>4, <3>1, DayFacts
      <4>2. InWindow(q, today)
        BY <1>0, <1>1, <4>1, DayFacts DEF InWindow
      <4> QED BY <1>0, <1>1, <2>2, <4>1, <4>2 DEF Gapless, ReadIsKept
    <3>3. f = today + 1
      BY <1>0, <1>1, <3>2, DayFacts DEF Within, Events
    <3> QED BY <1>1, <3>3 DEF Available
  <2> QED BY <2>1, <2>2
<1>10. StreamsAreRead'
  <2>1. streams # {} => mode = "run"
    BY <1>0 DEF HistoryTypes
  <2> QED BY <1>0, <1>1, <1>4, <2>1 DEF StreamsAreRead, HistoryTypes, session
<1> QED BY <1>6, <1>7, <1>8, <1>9, <1>10 DEF Gapless

(* Unless the node is forgetful, every step keeps the invariant. *)
LEMMA HistoryStep ==
  ASSUME Forgetful = FALSE, HistoryInv, [HistoryNext]_historyVars
  PROVE  HistoryInv'
<1> USE HistoryConstants
<1>0. HistoryTypes /\ HistoryTypes' /\ Gapless
  BY HistoryTypesStep DEF HistoryInv
<1>1. CASE UNCHANGED historyVars
  BY <1>0, <1>1
  DEF historyVars, session, actions, Gapless, DuplicatesAreKept, NoHoles, ReadIsKept, NodeHasTheRest, StreamsAreRead,
      InWindow, Within, Covers, Available, HistoryInv
<1>2. CASE StartRun \/ Retain \/ \E b \in BOOLEAN : FinishBackfill(b)
  BY <1>0, <1>2, CleanupKeeps DEF StartRun, Retain, FinishBackfill, FinalCleanup, Sessions, HistoryInv
<1>3. ASSUME OpenSession \/ StartBackfill \/ End \/ \E to \in {"idle", "off"} : CloseSession(to) PROVE Gapless'
  <2>1. \A s \in Shards : position'[s] = position[s] \/ position'[s] = 0
    BY <1>3 DEF OpenSession, StartBackfill, End, CloseSession, Nowhere
  <2>2. /\ UNCHANGED <<node, today, actions, cursors>>
        /\ mode' \in Sessions => Continuous
        /\ \A s \in streams' \ replaying' : s \in streams \ replaying /\ position'[s] = position[s]
    BY <1>0, <1>3
    DEF OpenSession, StartBackfill, End, CloseSession, Publish, Sessions, HistoryTypes
  <2>3. \A s \in Shards : position'[s] = position[s] => mode \in Sessions \/ position[s] = 0 \/ position'[s] = 0
    BY <1>0, <1>3
    DEF OpenSession, StartBackfill, End, CloseSession, Sessions, HistoryTypes, Nowhere
  <2> QED BY <2>1, <2>2, <2>3, ControlKeeps
<1>4. ASSUME NEW s \in Shards, Connect(s) \/ LoseShard(s) PROVE Gapless'
  <2>1. /\ UNCHANGED <<node, today, mode, actions, cursors>> /\ mode \in Sessions
        /\ \A q \in streams' \ replaying' : q \in streams \ replaying /\ q # s
        /\ position' = [position EXCEPT ![s] = cursors[s]] \/ position' = [position EXCEPT ![s] = 0]
    BY <1>4 DEF Connect, LoseShard, Publish, Sessions
  <2>2. \A q \in Shards : IF q = s THEN position'[q] \in {0, cursors[q]} ELSE position'[q] = position[q]
    BY <1>0, <2>1 DEF HistoryTypes
  <2>3. \A q \in streams' \ replaying' : position'[q] = position[q]
    BY <1>0, <2>1, <2>2 DEF HistoryTypes
  <2> QED BY <2>1, <2>2, <2>3, ControlKeeps
<1>5. ASSUME NEW b \in BOOLEAN, Discover(b) PROVE Gapless'
  BY <1>5, ControlKeeps DEF Discover, Publish, Sessions
<1>6. ASSUME NEW s \in Shards, NEW b \in BOOLEAN, Reconciled(s, b) PROVE Gapless'
  <2>1. cursors[s] \in Int /\ position[s] - 1 \in Int
    BY <1>0 DEF HistoryTypes
  <2>2. cursors' = [cursors EXCEPT ![s] = IF cursors[s] <= position[s] - 1 THEN position[s] - 1 ELSE cursors[s]]
    BY <1>6, <2>1, MaxOfTwo DEF Reconciled
  <2>3. ASSUME NEW q \in streams' \ replaying', q \notin streams \ replaying
        PROVE  q = s /\ \A e \in Available : e < position[s]
    <3>1. q = s /\ s \in replaying
      BY <1>6, <2>3 DEF Reconciled, Publish
    <3>2. Unread(s) = {}
      BY <1>6, <3>1 DEF Reconciled
    <3>3. \A e \in Available : ~(e >= position[s]) /\ e \in Nat
      BY <1>0, <3>2, DayFacts DEF Unread
    <3> QED BY <1>0, <3>1, <3>3 DEF HistoryTypes
  <2> QED BY <1>6, <2>2, <2>3, ReconciledKeeps DEF Reconciled, Sessions
<1>7. ASSUME NEW s \in Shards, Read(s) \/ BackfillRead(s) PROVE Gapless'
  <2> DEFINE e == Min(Unread(s))
  <2>1. /\ e \in 1 .. today /\ e \in Available /\ position[s] <= e
        /\ \A f \in Available : position[s] <= f => e <= f
    BY <1>0, <1>7, NextUnread DEF Read, BackfillRead
  <2> HIDE DEF e
  <2>2. \E cutoff \in Int : cutoff <= today - Window /\ Handle(s, e, cutoff)
    BY <1>0, <1>7 DEF Read, BackfillRead, HistoryTypes, e
  <2>3. Max({cursors[s], e}) = IF cursors[s] <= e THEN e ELSE cursors[s]
    <3>1. cursors[s] \in Int /\ e \in Int
      BY <1>0, <2>1 DEF HistoryTypes
    <3> QED BY <3>1, MaxOfTwo
  <2>4. /\ position' = [position EXCEPT ![s] = e + 1]
        /\ cursors' = cursors \/ cursors' = [cursors EXCEPT ![s] = Max({cursors[s], e})]
        /\ UNCHANGED <<node, today, mode, streams, replaying>>
        /\ mode \in Sessions
    BY <1>7 DEF Read, BackfillRead, e, Sessions
  <2> QED BY <2>1, <2>2, <2>3, <2>4, ReadKeeps
<1>8. CASE Tomorrow
  <2>1. Gapless'
    BY <1>8, TomorrowKeeps
  <2> QED BY <1>0, <2>1 DEF HistoryInv
<1> QED
  BY <1>0, <1>1, <1>2, <1>3, <1>4, <1>5, <1>6, <1>7, <1>8 DEF HistoryNext, HistoryInv

(* Of a shard whose coverage begins before the window, and that has been   *)
(* read up to the day, everything before the day is there.                 *)
LEMMA ShardIsWhole ==
  ASSUME HistoryInv, mode \in Sessions, Complete, NEW s \in Shards, position[s] >= today,
         NEW e \in Events, e < today, InWindow(s, e)
  PROVE  <<s, e>> \in kept
<1>0. HistoryTypes /\ Gapless
  BY DEF HistoryInv
<1>1. today \in Nat /\ Dated(s, e) \in Nat /\ position[s] \in Nat /\ e \in Nat /\ coverage[s] \in Nat
  BY <1>0, DayFacts DEF HistoryTypes, Events
<1>2. coverage[s] # 0 /\ coverage[s] <= Dated(s, e)
  <2> DEFINE S == {coverage[q] : q \in Shards}
  <2>1. S \in SUBSET (0 .. MaxDay + 1) /\ MaxDay + 1 \in Nat
    BY <1>0, HistoryConstants DEF HistoryTypes
  <2>2. coverage[s] \in S
    OBVIOUS
  <2>3. coverage[s] <= CoverageStart /\ CoverageStart \in 0 .. MaxDay + 1
    <3> HIDE DEF S
    <3>1. CoverageStart = Max(S)
      BY DEF CoverageStart, S
    <3> QED BY <2>1, <2>2, <3>1, MaxOf
  <2>4. coverage[s] # 0 /\ CoverageStart <= today - Window
    BY DEF Complete
  <2> QED BY <1>1, <2>3, <2>4, HistoryConstants DEF InWindow
<1>3. CASE Within(s, e)
  BY <1>0, <1>2, <1>3 DEF Gapless, NoHoles, Covers
<1>4. CASE ~Within(s, e)
  <2>1. e \in Available
    BY <1>0, <1>1, <1>2, <1>4 DEF Gapless, NodeHasTheRest
  <2>2. e < position[s]
    BY <1>1
  <2> QED BY <1>0, <2>1, <2>2 DEF Gapless, ReadIsKept
<1> QED BY <1>3, <1>4

(* The days of a health row that says live are whole. *)
LEMMA LiveStep ==
  ASSUME Forgetful = FALSE, HistoryInv, LiveMeansComplete, [HistoryNext]_historyVars
  PROVE  LiveMeansComplete'
<1> USE HistoryConstants
<1>0. HistoryTypes /\ Gapless /\ today \in Nat \ {0} /\ \A s \in Shards, e \in Events : Dated(s, e) \in Nat
  BY DayFacts DEF HistoryInv
<1>1. \A s \in Shards, e \in Events : e < live /\ InWindow(s, e) => <<s, e>> \in kept
  BY DEF LiveMeansComplete, InWindow
<1>2. ASSUME NEW s \in Shards, NEW e \in Events, e < live, Dated(s, e) >= today' - Window, live' = live,
             UNCHANGED actions \/ Cleanup
             \/ (\E q \in Shards : Read(q) \/ BackfillRead(q)), today' = today \/ Tomorrow
      PROVE  <<s, e>> \in kept'
  <2>1. InWindow(s, e)
    BY <1>0, <1>2 DEF InWindow, Tomorrow
  <2>2. <<s, e>> \in kept
    BY <1>1, <1>2, <2>1
  <2>3. CASE Cleanup
    <3>1. Dated(s, e) >= today - Retention
      BY <1>0, <2>1 DEF InWindow
    <3> QED BY <1>0, <2>2, <2>3, <3>1, CleanupFacts
  <2>4. ASSUME NEW q \in Shards, Read(q) \/ BackfillRead(q) PROVE <<s, e>> \in kept'
    BY <2>2, <2>4 DEF Read, BackfillRead, Handle
  <2> QED BY <1>2, <2>2, <2>3, <2>4 DEF actions
<1>3. CASE live' = live /\ (today' = today \/ Tomorrow) /\
           (UNCHANGED actions \/ Cleanup \/ \E q \in Shards : Read(q) \/ BackfillRead(q))
  BY <1>2, <1>3 DEF LiveMeansComplete
<1>4. CASE live' = 0
  BY <1>4 DEF LiveMeansComplete, Events
<1>5. ASSUME live' = today, today' = today, UNCHANGED actions \/ Cleanup, mode \in Sessions, Complete,
             \A s \in Shards : position[s] >= today
      PROVE  LiveMeansComplete'
  <2> SUFFICES ASSUME NEW s \in Shards, NEW e \in Events, e < today, InWindow(s, e) PROVE <<s, e>> \in kept'
    BY <1>5 DEF LiveMeansComplete, InWindow
  <2>1. <<s, e>> \in kept
    BY <1>5, ShardIsWhole
  <2>2. CASE Cleanup
    <3>1. Dated(s, e) >= today - Retention
      BY <1>0 DEF InWindow
    <3> QED BY <1>0, <2>1, <2>2, <3>1, CleanupFacts
  <2> QED BY <1>5, <2>1, <2>2 DEF actions
<1>6. CASE OpenSession \/ \E to \in {"idle", "off"} : CloseSession(to)
  BY <1>4, <1>6 DEF OpenSession, CloseSession, Publish
<1>7. ASSUME NEW s \in Shards, Connect(s) \/ LoseShard(s) PROVE LiveMeansComplete'
  BY <1>4, <1>7 DEF Connect, LoseShard, Publish
<1>8. ASSUME NEW b \in BOOLEAN, Discover(b) PROVE LiveMeansComplete'
  <2>1. CASE streams = Shards /\ replaying = {} /\ Complete
    BY <1>0, <1>4, <1>5, <1>8, <2>1 DEF Discover, Publish, Sessions, Gapless, StreamsAreRead
  <2>2. CASE ~(streams = Shards /\ replaying = {} /\ Complete)
    BY <1>4, <1>8, <2>2 DEF Discover, Publish
  <2> QED BY <2>1, <2>2
<1>9. ASSUME NEW s \in Shards, Unread(s) = {} PROVE position[s] >= today
  BY <1>0, <1>9, DayFacts DEF Unread, HistoryTypes
<1>10. ASSUME NEW s \in Shards, NEW b \in BOOLEAN, Reconciled(s, b) PROVE LiveMeansComplete'
  <2>1. CASE streams = Shards /\ replaying \ {s} = {} /\ Complete
    <3>1. \A q \in Shards : position[q] >= today
      <4>1. CASE s \in replaying
        BY <1>0, <1>9, <1>10, <2>1, <4>1 DEF Reconciled, Gapless, StreamsAreRead
      <4>2. CASE s \notin replaying
        BY <1>0, <2>1, <4>2 DEF Gapless, StreamsAreRead
      <4> QED BY <4>1, <4>2
    <3> QED BY <1>4, <1>5, <1>10, <2>1, <3>1 DEF Reconciled, Publish, Sessions
  <2>2. CASE ~(streams = Shards /\ replaying \ {s} = {} /\ Complete)
    BY <1>4, <1>10, <2>2 DEF Reconciled, Publish
  <2> QED BY <2>1, <2>2
<1>11. ASSUME NEW b \in BOOLEAN, FinishBackfill(b) PROVE LiveMeansComplete'
  BY <1>4, <1>5, <1>9, <1>11 DEF FinishBackfill, FinalCleanup, Sessions
<1>12. CASE StartRun \/ Retain \/ StartBackfill \/ End \/ Tomorrow \/ UNCHANGED historyVars
            \/ \E s \in Shards : Read(s) \/ BackfillRead(s)
  BY <1>3, <1>12 DEF StartRun, Retain, StartBackfill, End, Tomorrow, Read, BackfillRead, historyVars
<1> QED
  BY <1>6, <1>7, <1>8, <1>10, <1>11, <1>12 DEF HistoryNext

(* A health row that says live is about complete data, whatever crashed,   *)
(* was interrupted or was read twice, if the node keeps what is still to   *)
(* be read of a shard.                                                     *)
THEOREM LiveIsComplete ==
  ASSUME Forgetful = FALSE
  PROVE  HistorySpec => []LiveMeansComplete
<1>1. HistoryInit => HistoryInv /\ LiveMeansComplete
  BY HistoryTypesStart, GaplessStart DEF HistoryInv, HistoryInit, LiveMeansComplete, Events
<1>2. HistoryInv /\ LiveMeansComplete /\ [HistoryNext]_historyVars => HistoryInv' /\ LiveMeansComplete'
  BY HistoryStep, LiveStep
<1> QED BY <1>1, <1>2, PTL DEF HistorySpec
=============================================================================
