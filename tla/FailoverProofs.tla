---------------------------- MODULE FailoverProofs ---------------------------
(***************************************************************************)
(* Failover, for any finite set of shards, any thresholds and any changes  *)
(* of the endpoints: the published coverage is accurate and honest, and    *)
(* stored history is never dropped.                                        *)
(***************************************************************************)
EXTENDS Failover, FiniteSetTheorems, TLAPS

(* The types of a session. *)
SessionTypes ==
  /\ role \in Roles /\ next \in Roles /\ pc \in Places
  /\ topology \in [Roles -> SUBSET Shards] /\ enrolled \in [Roles -> SUBSET Shards]
  /\ cursors \subseteq Shards /\ expected \subseteq Shards
  /\ worker \in [Shards -> Stages] /\ orphans \in [Shards -> Nat]
  /\ synced \in BOOLEAN

(* The shards whose subscription was made. *)
Subscribed == {s \in Shards : worker[s] \in {"replaying", "live"}}

(* Nothing of a session is left when the next one is opened. *)
OpensClean == pc = "open" =>
  /\ \A s \in Shards : worker[s] = "none" /\ orphans[s] = 0
  /\ connected = {} /\ replaying = {}

(* A preferred endpoint is probed, and may be enrolled, from another one.  *)
ProbesFromFallback == pc = "probe" => role = "fallback"

(* An endpoint with an enrollment is followed with the shards it is pinned *)
(* to, so that no worker of it is ever orphaned.                           *)
Pinned == Enrolls =>
  /\ Active => expected = enrolled[role] /\ cursors \subseteq expected
  /\ \A s \in Shards : orphans[s] = 0

(* Workers and coverage belong to the expected shards, and a connected     *)
(* shard whose worker replays is known to replay.                          *)
Covered == Active =>
  /\ \A s \in Shards : worker[s] # "none" => s \in expected
  /\ connected \subseteq Subscribed
  /\ source = "hypersnap" => connected = Subscribed
  /\ \A s \in connected : worker[s] = "replaying" => s \in replaying

(* The inductive invariant. *)
SessionInv ==
  SessionTypes /\ OpensClean /\ ProbesFromFallback /\ Pinned /\ Covered /\ StatusIsHonest

(* Full coverage and nothing replaying is what "live" stands for. *)
LEMMA LiveMeansCovered ==
  ASSUME NEW shards \in SUBSET Shards, NEW up \in SUBSET shards, NEW behind, NEW ok \in BOOLEAN,
         Status(shards, up, behind, ok) = "live"
  PROVE  behind = {} /\ up = shards
<1>1. behind = {} /\ ~(Cardinality(up) < Cardinality(shards))
  BY DEF Status
<1>2. IsFiniteSet(shards) /\ IsFiniteSet(up)
  BY FS_Subset, ConstantsAssumption
<1>3. Cardinality(up) <= Cardinality(shards) /\ (Cardinality(up) = Cardinality(shards) => up = shards)
  BY <1>2, FS_Subset
<1>4. Cardinality(up) \in Nat /\ Cardinality(shards) \in Nat
  BY <1>2, FS_CardinalityType
<1> QED BY <1>1, <1>3, <1>4

(* A status that is published from the state of an active session is       *)
(* honest.                                                                 *)
LEMMA PublishedIsHonest ==
  ASSUME SessionTypes', Covered', PublishHealth
  PROVE  StatusIsHonest'
<1> SUFFICES ASSUME Active', Status(expected', connected', replaying', synced') = "live"
             PROVE  \A s \in expected' : worker'[s] = "live"
  BY DEF StatusIsHonest, PublishHealth
<1>1. connected' \subseteq expected' /\ expected' \subseteq Shards
  BY DEF SessionTypes, Covered, Subscribed
<1>2. replaying' = {} /\ connected' = expected'
  BY <1>1, LiveMeansCovered DEF SessionTypes
<1> QED BY <1>1, <1>2 DEF Covered, Subscribed

(* A shard set that keeps every worker's shard orphans none of them.       *)
LEMMA PinnedStays ==
  ASSUME SessionInv, Enrolls, NEW shards, Advertised(shards), NEW s \in Shards,
         worker[s] # "none" => s \in shards
  PROVE  orphans'[s] = 0
<1>1. orphans[s] = 0
  BY DEF SessionInv, Pinned
<1> QED BY <1>1 DEF Advertised

(* A NodeInfo that advertises the given shards brings workers and coverage *)
(* in line with them.                                                      *)
LEMMA DiscoveredKeeps ==
  ASSUME SessionInv, NEW shards \in SUBSET Shards, Discovered(shards),
         Active \/ pc = "open", Enrolls => shards = enrolled'[role'] /\ cursors \subseteq shards,
         Active /\ Enrolls => shards = enrolled[role],
         UNCHANGED <<source, topology, cursors, role, next>>,
         enrolled' \in [Roles -> SUBSET Shards],
         pc' \in {"wait", "probe"}, pc' = "probe" => role = "fallback"
  PROVE  SessionInv'
<1>1. SessionTypes'
  BY DEF SessionInv, SessionTypes, Discovered, Advertised, Following, Stages, Places
<1>2. OpensClean' /\ ProbesFromFallback'
  BY DEF OpensClean, ProbesFromFallback
<1>3. Pinned'
  <2>1. ASSUME Enrolls, NEW s \in Shards PROVE orphans'[s] = 0
    <3>1. worker[s] # "none" => s \in shards
      BY <2>1 DEF SessionInv, Pinned, Covered, OpensClean, Active
    <3> QED BY <2>1, <3>1, PinnedStays DEF Discovered
  <2> QED BY <2>1 DEF Pinned, Enrolls, Active, Discovered, Advertised
<1>4. Covered'
  <2>1. \A s \in Shards : worker'[s] = IF s \notin shards THEN "none"
                                       ELSE IF worker[s] = "none" THEN "subscribing" ELSE worker[s]
    BY DEF Discovered, Following
  <2>2. /\ connected \subseteq Subscribed
        /\ source = "hypersnap" => connected = Subscribed
        /\ \A s \in connected : worker[s] = "replaying" => s \in replaying
    <3>1. CASE Active
      BY <3>1 DEF SessionInv, Covered
    <3>2. CASE pc = "open"
      <4>1. connected = {} /\ Subscribed = {}
        BY <3>2 DEF SessionInv, OpensClean, Subscribed
      <4> QED BY <4>1
    <3> QED BY <3>1, <3>2
  <2>3. Subscribed' = Subscribed \cap shards
    BY <2>1 DEF Subscribed
  <2> QED BY <2>1, <2>2, <2>3 DEF Covered, Discovered, Advertised, Subscribed
<1>5. StatusIsHonest'
  BY <1>1, <1>4, PublishedIsHonest DEF Discovered
<1> QED BY <1>1, <1>2, <1>3, <1>4, <1>5 DEF SessionInv

(* A session that is being left promises nothing of its coverage.          *)
LEMMA LeaveKeeps ==
  ASSUME SessionInv, NEW to \in Roles, NEW running, Leave(to, running), SessionTypes',
         Enrolls => \A s \in Shards : orphans'[s] = 0, UNCHANGED source
  PROVE  SessionInv'
  BY DEF SessionInv, Leave, OpensClean, ProbesFromFallback, Pinned, Enrolls, Covered, StatusIsHonest, Active

(* So does one that is over. *)
LEMMA ClosedKeeps ==
  ASSUME SessionInv, pc' = "open", role' \in Roles, next' \in Roles, synced' = FALSE, expected' = {},
         \A s \in Shards : worker'[s] = "none", worker' \in [Shards -> Stages],
         orphans' = [s \in Shards |-> 0], connected' = {}, replaying' = {},
         UNCHANGED <<source, topology, enrolled, cursors>>
  PROVE  SessionInv'
  BY DEF SessionInv, SessionTypes, OpensClean, ProbesFromFallback, Pinned, Enrolls, Covered,
     StatusIsHonest, Active, Places

(* A step of the endpoints or of the loop that touches neither workers nor *)
(* coverage keeps the invariant.                                           *)
LEMMA LoopKeeps ==
  ASSUME SessionInv, SessionTypes', UNCHANGED <<source, cursors, role, workers, expected>>,
         enrolled'[role] = enrolled[role],
         pc' = pc \/ (Active /\ pc' \in {"wait", "discover"}),
         published' = published \/ PublishHealth
  PROVE  SessionInv'
<1>1. OpensClean' /\ ProbesFromFallback'
  BY DEF SessionInv, OpensClean, ProbesFromFallback, workers, Active
<1>2. Active' <=> Active
  BY DEF Active
<1>3. Pinned' /\ Covered'
  BY <1>2 DEF SessionInv, Pinned, Enrolls, Covered, Subscribed, workers, Active
<1>4. StatusIsHonest'
  <2>1. CASE published' = published
    BY <1>2, <2>1 DEF SessionInv, StatusIsHonest, workers
  <2>2. CASE PublishHealth
    BY <1>3, <2>2, PublishedIsHonest
  <2> QED BY <2>1, <2>2
<1> QED BY <1>1, <1>3, <1>4 DEF SessionInv

(* A step of one worker of an active session: afterwards it has a          *)
(* subscription and may be connected, or has none and is not connected.    *)
LEMMA WorkerKeeps ==
  ASSUME SessionInv, Active, NEW s \in Shards, worker[s] # "none",
         NEW stage \in Stages \ {"none"}, worker' = [worker EXCEPT ![s] = stage],
         connected' \subseteq connected \cup {s}, connected \ {s} \subseteq connected',
         s \in connected' => stage \in {"replaying", "live"} /\ (stage = "replaying" => s \in replaying'),
         source = "hypersnap" /\ stage \in {"replaying", "live"} => s \in connected',
         replaying \ {s} \subseteq replaying',
         \/ PublishHealth
         \/ (UNCHANGED published /\ worker[s] # "live"),
         UNCHANGED <<source, topology, enrolled, role, pc, next, orphans, expected, synced>>,
         cursors' \in {cursors, cursors \cup {s}}
  PROVE  SessionInv'
<1>1. SessionTypes'
  BY DEF SessionInv, SessionTypes
<1>2. OpensClean' /\ ProbesFromFallback'
  BY DEF SessionInv, OpensClean, ProbesFromFallback, Active
<1>3. s \in expected
  BY DEF SessionInv, Covered
<1>4. Pinned'
  BY <1>3 DEF SessionInv, Pinned, Enrolls, Active
<1>5. Covered'
  <2>1. \A x \in Shards : worker'[x] = IF x = s THEN stage ELSE worker[x]
    BY DEF SessionInv, SessionTypes
  <2>2. Subscribed' = IF stage \in {"replaying", "live"} THEN Subscribed \cup {s} ELSE Subscribed \ {s}
    BY <2>1 DEF Subscribed
  <2> QED BY <1>3, <2>1, <2>2 DEF SessionInv, Covered, Active
<1>6. StatusIsHonest'
  <2>1. CASE PublishHealth
    BY <1>1, <1>5, <2>1, PublishedIsHonest
  <2>2. CASE UNCHANGED published /\ worker[s] # "live"
    BY <1>3, <2>2 DEF SessionInv, StatusIsHonest, Active
  <2> QED BY <2>1, <2>2
<1> QED BY <1>1, <1>2, <1>4, <1>5, <1>6 DEF SessionInv

(* A worker that was aborted ends: it takes its shard's entries with it,   *)
(* and may publish a state that is replaying.  This is not an endpoint     *)
(* with an enrollment, unless the session is being left.                   *)
LEMMA AbortedKeeps ==
  ASSUME SessionInv, NEW s \in Shards, AbortedReady(s) \/ AbortedFails(s),
         \/ ~Active /\ pc # "open"
         \/ ~Enrolls /\ UNCHANGED worker,
         SessionTypes',
         Enrolls => UNCHANGED orphans, pc = "open" => UNCHANGED orphans,
         UNCHANGED <<source, topology, enrolled, cursors, role, pc, next, expected, synced>>
  PROVE  SessionInv'
<1>1. connected' = connected \ {s} /\ replaying' = replaying \ {s}
  BY DEF AbortedReady, AbortedFails
<1>2. published' = published \/ published' # "live"
  BY DEF AbortedReady, AbortedFails, Status
<1>3. OpensClean' /\ ProbesFromFallback' /\ Pinned'
  BY <1>1 DEF SessionInv, OpensClean, ProbesFromFallback, Pinned, Enrolls, Active
<1>4. Covered' /\ StatusIsHonest'
  BY <1>1, <1>2 DEF SessionInv, Covered, StatusIsHonest, Active, Enrolls, Subscribed
<1> QED BY <1>3, <1>4 DEF SessionInv

(* Every step keeps the invariant. *)
LEMMA NextKeeps ==
  ASSUME SessionInv, [Next]_vars
  PROVE  SessionInv'
<1> USE DEF endpoints, durable, counters, health
<1>0. SessionTypes /\ ProbesFromFallback
  BY DEF SessionInv
<1>1. ASSUME NEW r \in Roles, NEW c \in Conditions, Change(r, c) PROVE SessionInv'
  <2>1. SessionTypes'
    BY <1>0, <1>1 DEF Change, SessionTypes, workers
  <2> QED BY <1>1, <2>1, LoopKeeps DEF Change
<1>2. ASSUME NEW r \in Roles, NEW shards \in (SUBSET Shards) \ {{}}, Reshard(r, shards)
      PROVE  SessionInv'
  <2>1. SessionTypes'
    BY <1>0, <1>2 DEF Reshard, SessionTypes, workers
  <2> QED BY <1>2, <2>1, LoopKeeps DEF Reshard
<1>3. CASE Open
  <2>1. /\ topology[role] \in SUBSET Shards /\ enrolled' \in [Roles -> SUBSET Shards]
        /\ Enrolls => enrolled'[role] = topology[role]
    BY <1>0, <1>3 DEF Open, Enroll, SessionTypes
  <2>2. (Enrolls => cursors \subseteq topology[role]) /\ ~Active
    BY <1>3 DEF Open, Compatible, Active
  <2> QED BY <1>3, <2>1, <2>2, DiscoveredKeeps DEF Open
<1>4. CASE Reject
  <2>1. role' \in Roles /\ Alternate \in Roles
    BY <1>0, <1>4 DEF Reject, Alternate, Roles, SessionTypes
  <2> QED BY <1>4, <2>1 DEF Reject, SessionInv, SessionTypes, OpensClean, ProbesFromFallback,
        Pinned, Enrolls, Covered, StatusIsHonest, Active, workers
<1>5. ASSUME NEW probeDue \in BOOLEAN, Discover(probeDue) PROVE SessionInv'
  <2>1. Active /\ topology[role] \in SUBSET Shards /\ (Enrolls => topology[role] = enrolled[role])
    BY <1>0, <1>5 DEF Discover, Active, SessionTypes
  <2>2. Enrolls => cursors \subseteq topology[role]
    BY <2>1 DEF SessionInv, Pinned
  <2>3. enrolled' \in [Roles -> SUBSET Shards]
    BY <1>0, <1>5 DEF Discover, SessionTypes
  <2> QED BY <1>5, <2>1, <2>2, <2>3, DiscoveredKeeps DEF Discover
<1>6. Alternate \in Roles
  BY DEF Alternate, Roles
<1>7. CASE CoverageLost
  <2>1. SessionTypes'
    BY <1>0, <1>6, <1>7 DEF CoverageLost, Advertised, Following, Leave, SessionTypes, Places, Stages
  <2>2. ASSUME Enrolls, NEW s \in Shards PROVE orphans'[s] = 0
    <3>1. worker[s] # "none" => s \in topology[role]
      BY <1>7, <2>2 DEF CoverageLost, SessionInv, Pinned, Covered, Active
    <3> QED BY <1>7, <2>2, <3>1, PinnedStays DEF CoverageLost
  <2> QED BY <1>6, <1>7, <2>1, <2>2, LeaveKeeps DEF CoverageLost
<1>8. CASE IdentityChanged
  <2>1. SessionTypes'
    BY <1>0, <1>6, <1>8 DEF IdentityChanged, Leave, SessionTypes, Places, Stages
  <2>2. Enrolls => \A s \in Shards : orphans'[s] = 0
    BY <1>8 DEF IdentityChanged, SessionInv, Pinned
  <2> QED BY <1>6, <1>8, <2>1, <2>2, LeaveKeeps DEF IdentityChanged
<1>9. CASE DiscoveryFails
  <2>1. CASE Leave(Alternate, worker)
    <3>1. SessionTypes'
      BY <1>0, <1>6, <1>9, <2>1 DEF DiscoveryFails, Leave, SessionTypes, Places, Stages
    <3>2. Enrolls => \A s \in Shards : orphans'[s] = 0
      BY <1>9 DEF DiscoveryFails, SessionInv, Pinned
    <3> QED BY <1>6, <1>9, <2>1, <3>1, <3>2, LeaveKeeps DEF DiscoveryFails
  <2>2. CASE UNCHANGED <<pc, next, worker, connected, replaying>>
    <3>1. SessionTypes'
      BY <1>0, <1>9, <2>2 DEF DiscoveryFails, SessionTypes
    <3>2. PublishHealth
      BY <1>9, <2>2 DEF DiscoveryFails, PublishHealth
    <3> QED BY <1>9, <2>2, <3>1, <3>2, LoopKeeps DEF DiscoveryFails, workers
  <2> QED BY <1>9, <2>1, <2>2 DEF DiscoveryFails
<1>10. CASE Probe
  <2>1. enrolled' \in [Roles -> SUBSET Shards] /\ enrolled'[role] = enrolled[role]
    BY <1>0, <1>10 DEF Probe, Enroll, SessionTypes, ProbesFromFallback, Roles
  <2>2. CASE Leave("primary", worker)
    <3>1. SessionTypes'
      BY <1>0, <1>10, <2>1, <2>2 DEF Probe, Leave, SessionTypes, Places, Stages, Roles
    <3>2. Enrolls => \A s \in Shards : orphans'[s] = 0
      BY <1>10 DEF Probe, SessionInv, Pinned
    <3> QED BY <1>10, <2>2, <3>1, <3>2, LeaveKeeps DEF Probe, Roles
  <2>3. CASE pc' = "wait" /\ UNCHANGED <<next, worker, connected, replaying>>
    <3>1. SessionTypes'
      BY <1>0, <1>10, <2>1, <2>3 DEF Probe, SessionTypes, Places
    <3>2. Active
      BY <1>10 DEF Probe, Active
    <3> QED BY <1>10, <2>1, <2>3, <3>1, <3>2, LoopKeeps DEF Probe, workers
  <2> QED BY <1>10, <2>2, <2>3 DEF Probe
<1>11. CASE IntervalElapses
  <2>1. SessionTypes' /\ Active
    BY <1>0, <1>11 DEF IntervalElapses, SessionTypes, workers, Places, Active
  <2> QED BY <1>11, <2>1, LoopKeeps DEF IntervalElapses
<1>12. CASE DataPlaneLost
  <2>1. SessionTypes'
    BY <1>0, <1>6, <1>12 DEF DataPlaneLost, Leave, SessionTypes, Places, Stages
  <2>2. Enrolls => \A s \in Shards : orphans'[s] = 0
    BY <1>12 DEF DataPlaneLost, SessionInv, Pinned
  <2> QED BY <1>6, <1>12, <2>1, <2>2, LeaveKeeps DEF DataPlaneLost
<1>13. CASE Close
  BY <1>0, <1>13, ClosedKeeps DEF Close, Stopped, SessionTypes
<1>14. CASE Restart
  <2>1. worker' \in [Shards -> Stages] /\ \A s \in Shards : worker'[s] = "none"
    BY <1>14 DEF Restart, Stages
  <2> QED BY <1>14, <2>1, ClosedKeeps DEF Restart, Roles
<1>15. ASSUME NEW s \in Shards, Ready(s) PROVE SessionInv'
  <2>1. "replaying" \in Stages \ {"none"}
    BY DEF Stages
  <2> QED BY <1>15, <2>1, WorkerKeeps DEF Ready
<1>16. ASSUME NEW s \in Shards, CatchUp(s) PROVE SessionInv'
  <2>1. "live" \in Stages \ {"none"}
    BY DEF Stages
  <2>2. source = "hypersnap" => s \in connected
    BY <1>16 DEF CatchUp, SessionInv, Covered, Subscribed
  <2> QED BY <1>16, <2>1, <2>2, WorkerKeeps DEF CatchUp
<1>17. ASSUME NEW s \in Shards, WorkerFails(s) PROVE SessionInv'
  <2>1. "backoff" \in Stages \ {"none"}
    BY DEF Stages
  <2> QED BY <1>17, <2>1, WorkerKeeps DEF WorkerFails, Without
<1>18. ASSUME NEW s \in Shards, Retry(s) PROVE SessionInv'
  <2>1. "subscribing" \in Stages \ {"none"}
    BY DEF Stages
  <2>2. s \notin connected
    BY <1>18 DEF Retry, SessionInv, Covered, Subscribed
  <2> QED BY <1>18, <2>1, <2>2, WorkerKeeps DEF Retry
<1>19. ASSUME NEW s \in Shards, WorkerEnds(s) PROVE SessionInv'
  <2>1. SessionTypes'
    BY <1>0, <1>19 DEF WorkerEnds, SessionTypes, Stages
  <2> QED BY <1>19, <2>1, AbortedKeeps DEF WorkerEnds, Active
<1>20. ASSUME NEW s \in Shards, OrphanEnds(s) PROVE SessionInv'
  <2>1. SessionTypes'
    BY <1>0, <1>20 DEF OrphanEnds, SessionTypes
  <2>2. ~Enrolls /\ pc # "open"
    BY <1>0, <1>20 DEF OrphanEnds, SessionInv, SessionTypes, Pinned, OpensClean
  <2> QED BY <1>20, <2>1, <2>2, AbortedKeeps DEF OrphanEnds
<1>21. CASE UNCHANGED vars
  BY <1>21 DEF vars, workers, SessionInv, SessionTypes, OpensClean, ProbesFromFallback, Pinned,
     Enrolls, Covered, Subscribed, StatusIsHonest, Active
<1> QED
  BY <1>1, <1>2, <1>3, <1>4, <1>5, <1>7, <1>8, <1>9, <1>10, <1>11, <1>12, <1>13, <1>14, <1>15,
     <1>16, <1>17, <1>18, <1>19, <1>20, <1>21
  DEF Next

(* The invariant holds of every reachable state. *)
LEMMA SessionIsInvariant == Spec => []SessionInv
<1>1. ASSUME Init PROVE SessionInv
  <2>1. SessionTypes
    BY <1>1 DEF Init, SessionTypes, Roles, Places, Stages
  <2>2. OpensClean
    BY <1>1 DEF Init, OpensClean
  <2>3. ~Active /\ pc = "open" /\ \A s \in Shards : orphans[s] = 0
    BY <1>1 DEF Init, Active
  <2> QED BY <2>1, <2>2, <2>3 DEF SessionInv, ProbesFromFallback, Pinned, Covered, StatusIsHonest
<1>2. SessionInv /\ [Next]_vars => SessionInv'
  BY NextKeeps
<1> QED BY <1>1, <1>2, PTL DEF Spec

(* #publishHealth and the coverage check of the session never count a      *)
(* shard whose worker has no subscription.                                 *)
THEOREM CoverageIsAccurate == Spec => []ConnectedIsAccurate
<1>1. SessionInv => ConnectedIsAccurate
  BY DEF SessionInv, Covered, Subscribed, ConnectedIsAccurate
<1> QED BY <1>1, SessionIsInvariant, PTL

(* sourceStatus says live only while every expected shard is caught up.    *)
THEOREM PublishedStatusIsHonest == Spec => []StatusIsHonest
<1>1. SessionInv => StatusIsHonest
  BY DEF SessionInv
<1> QED BY <1>1, SessionIsInvariant, PTL

(* No switch, resharding, probe or restart lets #runSourceSession follow   *)
(* an enrolled endpoint without a shard whose cursor is durable.           *)
THEOREM StoredHistoryIsKept == Spec => []HistoryKept
<1>1. SessionInv => HistoryKept
  BY DEF SessionInv, Pinned, HistoryKept
<1> QED BY <1>1, SessionIsInvariant, PTL
=============================================================================
