------------------------------ MODULE Failover -------------------------------
(***************************************************************************)
(* The session loop of one source (CollectorRuntime.#runSource and         *)
(* #runSourceSession): opening a candidate endpoint, following its         *)
(* topology with a worker per shard, abandoning it, returning to the       *)
(* preferred one, and the health it publishes.  What a worker replays and  *)
(* stores is module ShardSync; here it subscribes, catches up and is live. *)
(*                                                                         *)
(* A worker whose signal is aborted ends at once, unless it awaits         *)
(* subscription.ready, which does not observe the signal.  Delays are      *)
(* counted in rounds of discovery.                                         *)
(***************************************************************************)
EXTENDS Naturals, FiniteSets

CONSTANTS
  Shards,         \* shards an endpoint may advertise
  Sources,        \* sources to consider
  Conditions,     \* conditions an endpoint may be in
  FailoverAfter,  \* config.failoverAfterFailures
  RecoveryAfter,  \* config.preferredRecoverySuccesses
  CoverageRounds, \* discoveries in config.disconnectedAfterMs
  MaxChanges,     \* bound: changes of an endpoint's condition
  MaxReshards,    \* bound: changes of an endpoint's shard set
  MaxRestarts     \* bound: restarts of the collector

ASSUME ConstantsAssumption ==
  /\ IsFiniteSet(Shards) /\ Shards # {}
  /\ Sources \subseteq {"snapchain", "hypersnap"}
  /\ "healthy" \in Conditions
  /\ Conditions \subseteq {"healthy", "failing", "silent", "down", "drifted"}
  /\ {FailoverAfter, RecoveryAfter, CoverageRounds} \subseteq Nat \ {0}
  /\ {MaxChanges, MaxReshards, MaxRestarts} \subseteq Nat

Roles == {"primary", "fallback"}

VARIABLES
  source,     \* the source
  condition,  \* the endpoints: how each one behaves
  topology,   \* the endpoints: the shards each one advertises
  enrolled,   \* SQLite: the shard set each role is pinned to, {} when none
  cursors,    \* SQLite: shards with a durable cursor
  role,       \* the role to open, or of the open session
  pc,         \* open, discover, probe, wait or closing
  next,       \* the role to open once the session is closed
  failures,   \* discoveryFailures
  uncovered,  \* rounds of discovery without coverage of every shard
  recovered,  \* preferredRecoverySuccesses
  shardFails, \* shardFailureCounts
  dataLost,   \* dataPlaneFailed
  worker,     \* the session's worker of each shard
  orphans,    \* workers of removed shards that still await readiness
  expected,   \* state.shardIds
  connected,  \* state.connectedShards
  replaying,  \* state.replayingShards
  synced,     \* state.synchronized
  published,  \* the source's status in source_health
  spent       \* how much of each bound is used

endpoints == <<condition, topology>>
durable == <<source, enrolled, cursors>>
counters == <<failures, uncovered, recovered, shardFails, dataLost>>
workers == <<worker, orphans, connected, replaying>>
health == <<expected, synced, published>>
vars == <<endpoints, durable, role, pc, next, counters, workers, health, spent>>

(* Hypersnap endpoints are enrolled with their shards and must have the    *)
(* stored cursors' events; only this source can have a fallback.           *)
Enrolls == source = "hypersnap"
HasFallback == source = "hypersnap"

(* A session is open and not being left. *)
Active == pc \in {"discover", "probe", "wait"}

(* Mutant: the loop stays with the endpoint it leaves. *)
AlternateNever == role

(* alternateRole *)
Alternate == IF role = "primary" /\ HasFallback THEN "fallback" ELSE "primary"

(* Mutant: shards that replay are not told apart. *)
StatusIgnoringReplay(shards, up, behind, ok) ==
  IF shards = {} \/ up = {} THEN "reconnecting"
  ELSE IF ~ok THEN "stale"
  ELSE IF Cardinality(up) < Cardinality(shards) THEN "partial"
  ELSE "live"

(* sourceStatus of a session in contact with a complete history. *)
Status(shards, up, behind, ok) ==
  IF behind # {} THEN "replaying"
  ELSE IF shards = {} \/ up = {} THEN "reconnecting"
  ELSE IF ~ok THEN "stale"
  ELSE IF Cardinality(up) < Cardinality(shards) THEN "partial"
  ELSE "live"

(* #publishHealth, on the state the step leaves. *)
PublishHealth == published' = Status(expected', connected', replaying', synced')

Init ==
  /\ source \in Sources
  /\ condition \in [Roles -> Conditions]
  /\ topology \in [Roles -> (SUBSET Shards) \ {{}}]
  /\ enrolled = [r \in Roles |-> {}] /\ cursors = {}
  /\ role = "primary" /\ pc = "open" /\ next = "primary"
  /\ failures = 0 /\ uncovered = 0 /\ recovered = 0
  /\ shardFails = [s \in Shards |-> 0] /\ dataLost = FALSE
  /\ worker = [s \in Shards |-> "none"] /\ orphans = [s \in Shards |-> 0]
  /\ connected = {} /\ replaying = {}
  /\ expected = {} /\ synced = FALSE /\ published = "disconnected"
  /\ spent = [changes |-> 0, reshards |-> 0, restarts |-> 0]

(* Part of a bound is used. *)
Spend(kind, max) ==
  /\ spent[kind] < max
  /\ spent' = [spent EXCEPT ![kind] = @ + 1]

-----------------------------------------------------------------------------
(* The endpoints. *)

(* An endpoint fails, falls silent, changes its identity or recovers. *)
Change(r, c) ==
  /\ condition[r] # c
  /\ Spend("changes", MaxChanges)
  /\ condition' = [condition EXCEPT ![r] = c]
  /\ UNCHANGED <<topology, durable, role, pc, next, counters, workers, health>>

(* An endpoint advertises another set of shards. *)
Reshard(r, shards) ==
  /\ topology[r] # shards
  /\ Spend("reshards", MaxReshards)
  /\ topology' = [topology EXCEPT ![r] = shards]
  /\ UNCHANGED <<condition, durable, role, pc, next, counters, workers, health>>

(* GetInfo of r answers and passes the identity and topology checks. *)
Valid(r) == condition[r] \notin {"down", "drifted"}

(* Subscriptions and GetEvents requests of r fail. *)
Broken(r) == condition[r] \in {"failing", "down"}

(* Mutant: the candidate's shards are not compared with the cursors. *)
CompatibleUnverified(r) ==
  Valid(r) /\ (Enrolls => enrolled[r] \in {{}, topology[r]})

(* #openEndpoint accepts r: every durable cursor's shard is advertised and *)
(* the enrollment, if there is one, matches.                               *)
Compatible(r) ==
  /\ Valid(r)
  /\ Enrolls => cursors \subseteq topology[r] /\ enrolled[r] \in {{}, topology[r]}

(* validateOrEnrollSourceEndpoint *)
Enroll(r) == enrolled' = IF Enrolls THEN [enrolled EXCEPT ![r] = topology[r]] ELSE enrolled

-----------------------------------------------------------------------------
(* The session. *)

(* The rounds without coverage after a discovery that was preceded by n. *)
UncoveredAfter(n) ==
  IF Cardinality(connected') >= Cardinality(expected') THEN 0 ELSE n + 1

(* The session's workers once its endpoint advertises the given shards:    *)
(* those of removed shards are aborted, new shards get one.                *)
Following(shards) ==
  [s \in Shards |-> IF s \notin shards THEN "none"
                    ELSE IF worker[s] = "none" THEN "subscribing" ELSE worker[s]]

(* A valid NodeInfo advertises the given shards.  A removed worker that    *)
(* awaits readiness lives on.                                              *)
Advertised(shards) ==
  /\ expected' = shards /\ synced' = TRUE
  /\ orphans' = [s \in Shards |-> IF s \notin shards /\ worker[s] = "subscribing"
                                  THEN orphans[s] + 1 ELSE orphans[s]]
  /\ failures' = 0

(* The session goes on with these shards. *)
Discovered(shards) ==
  /\ Advertised(shards)
  /\ worker' = Following(shards)
  /\ connected' = connected \cap shards
  /\ replaying' = replaying \cap shards
  /\ PublishHealth

(* The candidate is accepted; the session starts with the NodeInfo of the  *)
(* opening.                                                                *)
Open ==
  /\ pc = "open" /\ Compatible(role)
  /\ Enroll(role)
  /\ Discovered(topology[role])
  /\ uncovered' = UncoveredAfter(0)
  /\ pc' = "wait"
  /\ UNCHANGED <<source, endpoints, cursors, role, next, recovered, shardFails, dataLost, spent>>

(* The candidate is rejected: the source is published as without contact,  *)
(* and the other role is next.                                             *)
Reject ==
  /\ pc = "open" /\ ~Compatible(role)
  /\ role' = Alternate
  /\ synced' = FALSE /\ published' = "disconnected"
  /\ UNCHANGED <<endpoints, durable, pc, next, counters, workers, expected, spent>>

(* Mutant: a worker that backs off does not see the abort. *)
LeaveSleeping(to, running) ==
  /\ pc' = "closing" /\ next' = to
  /\ worker' = [s \in Shards |-> IF running[s] \in {"subscribing", "backoff"}
                                THEN running[s] ELSE "none"]
  /\ connected' = {} /\ replaying' = {}

(* The session throws: every worker that is running is aborted, and        *)
(* awaited.                                                                *)
Leave(to, running) ==
  /\ pc' = "closing" /\ next' = to
  /\ worker' = [s \in Shards |-> IF running[s] = "subscribing" THEN "subscribing" ELSE "none"]
  /\ connected' = {} /\ replaying' = {}

(* Discovery validates the endpoint again, and abandons it when coverage   *)
(* was incomplete for too long.                                            *)
Discover(probeDue) ==
  /\ pc = "discover" /\ Valid(role)
  /\ Enrolls => topology[role] = enrolled[role]
  /\ Discovered(topology[role])
  /\ UncoveredAfter(uncovered) <= CoverageRounds
  /\ uncovered' = UncoveredAfter(uncovered)
  /\ probeDue => role = "fallback"
  /\ pc' = IF probeDue THEN "probe" ELSE "wait"
  /\ UNCHANGED <<endpoints, durable, role, next, recovered, shardFails, dataLost, spent>>

(* Coverage is incomplete for disconnectedAfterMs: the session is left     *)
(* once it has taken note of what its endpoint advertises.                 *)
CoverageLost ==
  /\ pc = "discover" /\ Valid(role)
  /\ Enrolls => topology[role] = enrolled[role]
  /\ uncovered = CoverageRounds
  /\ Cardinality(connected \cap topology[role]) < Cardinality(topology[role])
  /\ Advertised(topology[role])
  /\ published' = Status(expected', connected \cap expected', replaying \cap expected', TRUE)
  /\ Leave(Alternate, Following(topology[role]))
  /\ UNCHANGED <<endpoints, durable, role, uncovered, recovered, shardFails, dataLost, spent>>

(* The identity or the pinned shard set of the endpoint changed. *)
IdentityChanged ==
  /\ pc = "discover"
  /\ \/ condition[role] = "drifted"
     \/ Valid(role) /\ Enrolls /\ topology[role] # enrolled[role]
  /\ Leave(Alternate, worker)
  /\ UNCHANGED <<endpoints, durable, role, counters, orphans, health, spent>>

(* GetInfo fails: the session backs off, or is left. *)
DiscoveryFails ==
  /\ pc = "discover" /\ condition[role] = "down"
  /\ failures' = failures + 1
  /\ synced' = FALSE
  /\ published' = Status(expected, connected, replaying, FALSE)
  /\ IF failures + 1 >= FailoverAfter
     THEN Leave(Alternate, worker)
     ELSE UNCHANGED <<pc, next, worker, connected, replaying>>
  /\ UNCHANGED <<endpoints, durable, role, uncovered, recovered, shardFails, dataLost,
                 orphans, expected, spent>>

(* Mutant: successes are not counted. *)
RecoveredNever == 0

(* Consecutive successful probes of the preferred endpoint. *)
Recovered == IF Compatible("primary") THEN recovered + 1 ELSE 0

(* The preferred endpoint is opened and closed again. *)
Probe ==
  /\ pc = "probe"
  /\ recovered' = Recovered
  /\ IF Compatible("primary") THEN Enroll("primary") ELSE UNCHANGED enrolled
  /\ IF recovered' >= RecoveryAfter
     THEN Leave("primary", worker)
     ELSE pc' = "wait" /\ UNCHANGED <<next, worker, connected, replaying>>
  /\ UNCHANGED <<source, endpoints, cursors, role, failures, uncovered, shardFails, dataLost,
                 orphans, health, spent>>

(* The discovery interval elapses.  An endpoint is healthy only if its     *)
(* subscriptions are ready by then; one that takes longer is silent.       *)
IntervalElapses ==
  /\ pc = "wait" /\ ~dataLost
  /\ condition[role] = "healthy" =>
       \A s \in Shards : worker[s] \notin {"subscribing", "backoff"}
  /\ pc' = "discover"
  /\ UNCHANGED <<endpoints, durable, role, next, counters, workers, health, spent>>

(* The workers reported repeated failures. *)
DataPlaneLost ==
  /\ pc = "wait" /\ dataLost
  /\ Leave(Alternate, worker)
  /\ UNCHANGED <<endpoints, durable, role, counters, orphans, health, spent>>

(* Every worker of the session has ended. *)
Stopped == \A s \in Shards : worker[s] = "none"

(* Once its workers have ended the client is closed, which also ends the   *)
(* orphans' subscriptions, and the connection state is reset.              *)
Close ==
  /\ pc = "closing" /\ Stopped
  /\ pc' = "open" /\ role' = next
  /\ failures' = 0 /\ uncovered' = 0 /\ recovered' = 0
  /\ shardFails' = [s \in Shards |-> 0] /\ dataLost' = FALSE
  /\ orphans' = [s \in Shards |-> 0]
  /\ connected' = {} /\ replaying' = {}
  /\ expected' = {} /\ synced' = FALSE /\ published' = "disconnected"
  /\ UNCHANGED <<endpoints, durable, next, worker, spent>>

(* The collector dies, or is stopped and publishes the end of its session, *)
(* and is started again.                                                   *)
Restart ==
  /\ Spend("restarts", MaxRestarts)
  /\ pc' = "open" /\ role' = "primary" /\ next' = "primary"
  /\ failures' = 0 /\ uncovered' = 0 /\ recovered' = 0
  /\ shardFails' = [s \in Shards |-> 0] /\ dataLost' = FALSE
  /\ worker' = [s \in Shards |-> "none"] /\ orphans' = [s \in Shards |-> 0]
  /\ connected' = {} /\ replaying' = {}
  /\ expected' = {} /\ synced' = FALSE
  /\ published' \in {published, "disconnected"}
  /\ UNCHANGED <<endpoints, durable>>

-----------------------------------------------------------------------------
(* The shard workers. *)

(* The subscription of s is ready and its replay begins. *)
Ready(s) ==
  /\ Active /\ worker[s] = "subscribing" /\ condition[role] \in {"healthy", "drifted"}
  /\ worker' = [worker EXCEPT ![s] = "replaying"]
  /\ connected' = connected \cup {s}
  /\ replaying' = replaying \cup {s}
  /\ UNCHANGED <<endpoints, durable, role, pc, next, counters, orphans, expected, synced, spent>>
  /\ PublishHealth

(* The replay of s is done: its cursor is durable and it is healthy. *)
CatchUp(s) ==
  /\ Active /\ worker[s] = "replaying" /\ ~Broken(role)
  /\ worker' = [worker EXCEPT ![s] = "live"]
  /\ replaying' = replaying \ {s}
  /\ cursors' = cursors \cup {s}
  /\ shardFails' = [shardFails EXCEPT ![s] = 0]
  /\ UNCHANGED <<source, endpoints, enrolled, role, pc, next, failures, uncovered, recovered,
                 dataLost, orphans, connected, expected, synced, spent>>
  /\ PublishHealth

(* Mutant: a worker that fails stays connected. *)
WithoutKept(S, s) == S

(* The shards of S that s no longer belongs to. *)
Without(S, s) == S \ {s}

(* The subscription or a request of s fails: it backs off. *)
WorkerFails(s) ==
  /\ Active /\ worker[s] \in {"subscribing", "replaying", "live"} /\ Broken(role)
  /\ worker' = [worker EXCEPT ![s] = "backoff"]
  /\ connected' = Without(connected, s)
  /\ replaying' = Without(replaying, s)
  /\ shardFails' = [shardFails EXCEPT ![s] = IF @ < FailoverAfter THEN @ + 1 ELSE @]
  /\ dataLost' = (dataLost \/ shardFails'[s] >= FailoverAfter)
  /\ UNCHANGED <<endpoints, durable, role, pc, next, failures, uncovered, recovered,
                 orphans, expected, synced, spent>>
  /\ PublishHealth

(* The backoff of s elapses and it subscribes again. *)
Retry(s) ==
  /\ Active /\ worker[s] = "backoff"
  /\ worker' = [worker EXCEPT ![s] = "subscribing"]
  /\ UNCHANGED <<endpoints, durable, role, pc, next, counters, orphans, connected,
                 replaying, health, spent>>

(* The subscription that an aborted worker awaits becomes ready: the       *)
(* worker enters s, publishes, sees the abort and removes s.               *)
AbortedReady(s) ==
  /\ condition[role] \in {"healthy", "drifted"}
  /\ connected' = connected \ {s}
  /\ replaying' = replaying \ {s}
  /\ published' = Status(expected, connected \cup {s}, replaying \cup {s}, synced)

(* It fails instead: the worker ends and removes s. *)
AbortedFails(s) ==
  /\ Broken(role)
  /\ connected' = connected \ {s}
  /\ replaying' = replaying \ {s}
  /\ UNCHANGED published

(* A worker of the session that is being left ends. *)
WorkerEnds(s) ==
  /\ pc = "closing" /\ worker[s] = "subscribing"
  /\ AbortedReady(s) \/ AbortedFails(s)
  /\ worker' = [worker EXCEPT ![s] = "none"]
  /\ UNCHANGED <<endpoints, durable, role, pc, next, counters, orphans, expected, synced, spent>>

(* A worker of a removed shard ends. *)
OrphanEnds(s) ==
  /\ orphans[s] > 0
  /\ AbortedReady(s) \/ AbortedFails(s)
  /\ orphans' = [orphans EXCEPT ![s] = @ - 1]
  /\ UNCHANGED <<endpoints, durable, role, pc, next, counters, worker, expected, synced, spent>>

-----------------------------------------------------------------------------
Next ==
  \/ \E r \in Roles, c \in Conditions : Change(r, c)
  \/ \E r \in Roles, shards \in (SUBSET Shards) \ {{}} : Reshard(r, shards)
  \/ Open
  \/ Reject
  \/ \E probeDue \in BOOLEAN : Discover(probeDue)
  \/ CoverageLost
  \/ IdentityChanged
  \/ DiscoveryFails
  \/ Probe
  \/ IntervalElapses
  \/ DataPlaneLost
  \/ Close
  \/ Restart
  \/ \E s \in Shards : Ready(s)
  \/ \E s \in Shards : CatchUp(s)
  \/ \E s \in Shards : WorkerFails(s)
  \/ \E s \in Shards : Retry(s)
  \/ \E s \in Shards : WorkerEnds(s)
  \/ \E s \in Shards : OrphanEnds(s)

Spec == Init /\ [][Next]_vars

(* Requests are answered or time out, timers fire, and the subscription of *)
(* an endpoint that is not silent becomes ready or fails.  The endpoints   *)
(* owe nothing.  The preferred endpoint's next probe time comes, however   *)
(* many discoveries go before it.                                          *)
Fairness ==
  /\ WF_vars(Open) /\ WF_vars(Reject)
  /\ WF_vars(Discover(FALSE)) /\ SF_vars(Discover(TRUE))
  /\ WF_vars(CoverageLost) /\ WF_vars(IdentityChanged) /\ WF_vars(DiscoveryFails)
  /\ WF_vars(Probe)
  /\ WF_vars(IntervalElapses) /\ WF_vars(DataPlaneLost)
  /\ WF_vars(Close)
  /\ \A s \in Shards :
       /\ WF_vars(Ready(s)) /\ WF_vars(CatchUp(s)) /\ WF_vars(WorkerFails(s))
       /\ WF_vars(Retry(s)) /\ WF_vars(WorkerEnds(s)) /\ WF_vars(OrphanEnds(s))

FairSpec == Spec /\ Fairness

-----------------------------------------------------------------------------
Places == {"open", "discover", "probe", "wait", "closing"}
Stages == {"none", "subscribing", "replaying", "live", "backoff"}
Statuses == {"disconnected", "reconnecting", "replaying", "stale", "partial", "live"}

(* Every variable keeps to its type, and between sessions nothing of a     *)
(* session is left.                                                        *)
TypeOK ==
  /\ source \in Sources
  /\ condition \in [Roles -> Conditions]
  /\ topology \in [Roles -> (SUBSET Shards) \ {{}}]
  /\ enrolled \in [Roles -> SUBSET Shards] /\ cursors \subseteq Shards
  /\ role \in Roles /\ next \in Roles /\ pc \in Places
  /\ (role = "fallback" \/ enrolled["fallback"] # {}) => HasFallback
  /\ failures \in 0..FailoverAfter /\ uncovered \in 0..CoverageRounds
  /\ recovered \in 0..RecoveryAfter
  /\ shardFails \in [Shards -> 0..FailoverAfter] /\ dataLost \in BOOLEAN
  /\ worker \in [Shards -> Stages] /\ orphans \in [Shards -> Nat]
  /\ connected \subseteq Shards /\ replaying \subseteq connected
  /\ expected \subseteq Shards /\ synced \in BOOLEAN /\ published \in Statuses
  /\ pc = "open" => Stopped /\ connected = {} /\ expected = {}
  /\ spent \in [{"changes", "reshards", "restarts"} -> Nat]

(* The coverage that is published, and that abandons an endpoint, never    *)
(* exceeds the shards whose worker has a subscription, through every       *)
(* failure, retry, removal and switch.  For Hypersnap, whose shards are    *)
(* pinned, it is exactly those; elsewhere the worker of a removed shard    *)
(* may take the entry of its successor with it.                            *)
ConnectedIsAccurate ==
  LET subscribed == {s \in Shards : worker[s] \in {"replaying", "live"}}
  IN  Active => /\ connected \subseteq subscribed
                /\ source = "hypersnap" => connected = subscribed

(* While a session is active the source is published as live only if every *)
(* shard it advertised has a worker that is caught up.                     *)
StatusIsHonest ==
  Active /\ published = "live" => \A s \in expected : worker[s] = "live"

(* An endpoint with an enrollment is never followed with a shard set that  *)
(* drops a shard whose history is stored, whichever of the two endpoints   *)
(* stored it.                                                              *)
HistoryKept ==
  Enrolls /\ Active => cursors \subseteq expected

(* A session that is being left is closed, and the next endpoint opened. *)
SwitchCompletes == pc = "closing" ~> pc = "open"

(* A preferred endpoint that stays healthy becomes the active one and      *)
(* stays it.                                                               *)
FailsBack ==
  <>[](condition["primary"] = "healthy") => <>[](role = "primary")

(* As long as one endpoint stays healthy the source keeps coming back to   *)
(* coverage of every shard, although the loop returns to a preferred       *)
(* endpoint that answers probes and nothing else.  Being caught up is not  *)
(* promised: such a return may interrupt a replay.                         *)
KeepsRecovering ==
  \A r \in Roles : <>[](condition[r] = "healthy" /\ (r = "primary" \/ HasFallback))
                     => []<>(Active /\ connected = expected)
=============================================================================
