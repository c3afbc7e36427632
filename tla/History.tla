------------------------------- MODULE History ------------------------------
(***************************************************************************)
(* How long a source's history is kept, and when it is called complete:    *)
(* recording, retention, the coverage of each shard, the continuity check  *)
(* of an endpoint, the backfill and the health row of CollectorRuntime and *)
(* CollectorDatabase, at the grain of days.                                *)
(*                                                                         *)
(* Every shard emits one event a day, the event e on the day e; its        *)
(* message may be dated later.  The node forgets its oldest events.  How   *)
(* events get from the node to the collector is ShardSync's; here a replay *)
(* reads them in order and takes less than a day, and a stream lags by     *)
(* less than a day.                                                        *)
(*                                                                         *)
(* A day is the finest time there is here, as a millisecond is in the      *)
(* code.  A bucket, a minute there, spans several days, so that a cutoff   *)
(* can fall inside of one.                                                 *)
(***************************************************************************)
EXTENDS Integers, FiniteSets, FiniteSetsExt

CONSTANTS
  Shards,        \* data shards of the source
  Ahead,         \* shards whose messages are dated a day ahead
  Window,        \* days the metrics look back (30)
  Retention,     \* retentionDays
  BackfillDays,  \* backfillDays
  Bucket,        \* the width of a bucket (60 000 ms), in days
  Nodes,         \* whether the cursors are checked against the node (they are
                 \* for hypersnap), the days it keeps its events, and a bound:
                 \* the last day
  Forgetful,     \* whether a node may forget what the collector has not read
                 \* and does not ask for (see Tomorrow)
  FirstDay,      \* the day the collector is first started
  MaxDay         \* bound: the last day of all

(* config.ts: both are 31 or more; a message cannot be dated so far ahead  *)
(* that a day would be missing from the window.  A node keeps the events   *)
(* of the day itself.                                                      *)
ASSUME HistoryConstants ==
  /\ Window \in Nat /\ Retention \in Nat /\ BackfillDays \in Nat
  /\ Retention > Window /\ BackfillDays > Window /\ Bucket \in Nat \ {0}
  /\ MaxDay \in Nat /\ FirstDay \in 1 .. MaxDay
  /\ Nodes \subseteq [checked : BOOLEAN, keeps : Nat \ {0}, lasts : 1 .. MaxDay]
  /\ Ahead \subseteq Shards /\ Forgetful \in BOOLEAN

VARIABLES
  node,      \* the one of Nodes the source has
  today,
  mode,      \* off; run; idle: a run without an endpoint; backfill; batch:
             \* the backfill's last step
  streams,   \* connectedShards of the run's session
  replaying, \* replayingShards
  position,  \* the event each of them, or the backfill, reads next
  kept,      \* activity_actions: events, as <<shard, event>>
  received,  \* event_dedupe: the day each was received, 0 if there is no row
  tally,     \* minute_buckets: the actions counted in each bucket
  coverage,  \* history_coverage: start_at_ms of each shard, 0 if no row
  cursors,   \* cursors: the last verified event of each shard
  live,      \* source_health: the day of a row that says live or derived, 0
             \* for any other status
  dropped    \* the latest day before which a cleanup dropped everything

session == <<streams, replaying, position>>
actions == <<kept, received, tally, coverage>>
historyVars == <<node, today, mode, session, actions, cursors, live, dropped>>

Days == 1 .. MaxDay + 1
Events == 1 .. MaxDay
Nowhere == [s \in Shards |-> 0]
Dated(s, e) == IF s \in Ahead THEN e + 1 ELSE e

(* The start of the bucket a day falls in. *)
BucketOf(d) == d - (d % Bucket)
Buckets == {BucketOf(d) : d \in Days}

(* The events of a shard that the node still has. *)
Available == {e \in Events : today - node.keeps < e /\ e <= today}

HistoryInit ==
  /\ node \in Nodes /\ today = FirstDay /\ mode = "off"
  /\ streams = {} /\ replaying = {} /\ position = Nowhere
  /\ kept = {} /\ received = [a \in Shards \X Events |-> 0] /\ tally = [b \in Buckets |-> 0]
  /\ coverage = Nowhere /\ cursors = Nowhere
  /\ live = 0 /\ dropped = 0

-----------------------------------------------------------------------------
(* The database. *)

(* cleanup: actions go by the day they are dated, the rows that recognise  *)
(* a duplicate by the day they were received, and buckets by the start of  *)
(* the cutoff's bucket: that one stays although some of its actions go.    *)
Cleanup ==
  LET cutoff == today - Retention IN
  /\ kept' = {a \in kept : Dated(a[1], a[2]) >= cutoff}
  /\ received' = [a \in DOMAIN received |-> IF received[a] < cutoff THEN 0 ELSE received[a]]
  /\ tally' = [b \in Buckets |-> IF b < BucketOf(cutoff) THEN 0 ELSE tally[b]]
  /\ dropped' = Max({dropped, cutoff})
  /\ UNCHANGED coverage

(* Mutant: an action is new if its duplicate row is not there. *)
InsertedAlways(a) == TRUE

(* INSERT OR IGNORE INTO activity_actions, and whether a row was inserted. *)
Inserted(a) == a \notin kept

(* recordHistoryCoverage: the start of a shard only ever moves back. *)
Covered(s, d) == [coverage EXCEPT ![s] = IF @ = 0 \/ d < @ THEN d ELSE @]

(* #handleEvent and recordEvent: what is dated before the cutoff is left   *)
(* out, the rest is recorded once and covers its day.                      *)
Handle(s, e, cutoff) ==
  LET a == <<s, e>> d == Dated(s, e) IN
  IF d < cutoff THEN UNCHANGED <<kept, received, tally, coverage>>
  ELSE /\ IF received[a] # 0 THEN UNCHANGED <<kept, received, tally>>
          ELSE /\ received' = [received EXCEPT ![a] = today]
               /\ kept' = kept \cup {a}
               /\ tally' = [tally EXCEPT ![BucketOf(d)] = @ + (IF Inserted(a) THEN 1 ELSE 0)]
       /\ coverage' = Covered(s, d)

(* Mutant: the earliest start of a shard is taken for all of them. *)
CoverageStartEarliest == Min({coverage[s] : s \in Shards})

(* historyCoverageStart, once every required shard has a row. *)
CoverageStart == Max({coverage[s] : s \in Shards})

(* historyComplete. *)
Complete == (\A s \in Shards : coverage[s] # 0) /\ CoverageStart <= today - Window

(* publishHealth of the session after the step, and sourceStatus: the last *)
(* ones on the way to live.  Contact and synchronisation with the node are *)
(* not modelled: healthy says whether they are as they should be.          *)
Publish(connected, behind, healthy) ==
  /\ streams' = connected /\ replaying' = behind
  /\ live' = IF healthy /\ behind = {} /\ connected = Shards /\ Complete THEN today ELSE 0

-----------------------------------------------------------------------------
(* The endpoint. *)

(* verifyCursorContinuity, for hypersnap: the node still has the event of  *)
(* each cursor.                                                            *)
Continuous == node.checked => \A s \in Shards : cursors[s] # 0 => cursors[s] \in Available

(* run: the cleanup comes before everything else. *)
StartRun ==
  /\ mode = "off" /\ mode' = "idle"
  /\ Cleanup
  /\ UNCHANGED <<node, today, session, cursors, live>>

(* An endpoint is opened, or refused. *)
OpenSession ==
  /\ mode = "idle"
  /\ mode' = IF Continuous THEN "run" ELSE "idle"
  /\ Publish({}, {}, FALSE)
  /\ UNCHANGED <<node, today, position, actions, cursors, dropped>>

(* Discovery succeeds or fails, and publishes what it found. *)
Discover(healthy) ==
  /\ mode = "run"
  /\ Publish(streams, replaying, healthy)
  /\ UNCHANGED <<node, today, mode, position, actions, cursors, dropped>>

(* #runShard: the stream is live, and the replay begins at the cursor. *)
Connect(s) ==
  /\ mode = "run" /\ s \notin streams
  /\ position' = [position EXCEPT ![s] = cursors[s]]
  /\ Publish(streams \cup {s}, replaying \cup {s}, TRUE)
  /\ UNCHANGED <<node, today, mode, actions, cursors, dropped>>

Unread(s) == {e \in Available : e >= position[s]}

(* The next event, of a replay or of the stream.  A replay is checkpointed *)
(* page by page; a page is one event here.                                 *)
Read(s) ==
  /\ mode = "run" /\ s \in streams /\ Unread(s) # {}
  /\ LET e == Min(Unread(s)) IN
       /\ Handle(s, e, today - Retention)
       /\ position' = [position EXCEPT ![s] = e + 1]
       /\ cursors' = IF s \in replaying THEN [cursors EXCEPT ![s] = Max({@, e})] ELSE cursors
  /\ UNCHANGED <<node, today, mode, streams, replaying, live, dropped>>

(* A reconciliation is done: that of the replay, or a periodic one. *)
Reconciled(s, healthy) ==
  /\ mode = "run" /\ s \in streams
  /\ s \in replaying => Unread(s) = {}
  /\ cursors' = [cursors EXCEPT ![s] = Max({@, position[s] - 1})]
  /\ Publish(streams, replaying \ {s}, healthy)
  /\ UNCHANGED <<node, today, mode, position, actions, dropped>>

LoseShard(s) ==
  /\ mode = "run" /\ s \in streams
  /\ position' = [position EXCEPT ![s] = 0]
  /\ Publish(streams \ {s}, replaying \ {s}, TRUE)
  /\ UNCHANGED <<node, today, mode, actions, cursors, dropped>>

(* resetSessionState; the collector looks for an endpoint again, or stops. *)
CloseSession(to) ==
  /\ mode = "run" /\ mode' = to
  /\ position' = Nowhere
  /\ Publish({}, {}, FALSE)
  /\ UNCHANGED <<node, today, actions, cursors, dropped>>

(* The hourly cleanup. *)
Retain ==
  /\ mode \in {"run", "idle"}
  /\ Cleanup
  /\ UNCHANGED <<node, today, mode, session, cursors, live>>

-----------------------------------------------------------------------------
(* backfill, under the same lock.  It reads each shard from its first      *)
(* event to the last.                                                      *)

StartBackfill ==
  /\ mode = "off" /\ Continuous
  /\ mode' = "backfill"
  /\ UNCHANGED <<node, today, streams, replaying, position, actions, cursors, live, dropped>>

BackfillRead(s) ==
  /\ mode = "backfill" /\ Unread(s) # {} /\ \A q \in Shards : q < s => Unread(q) = {}
  /\ LET e == Min(Unread(s)) IN
       /\ Handle(s, e, today - BackfillDays)
       /\ position' = [position EXCEPT ![s] = e + 1]
       /\ cursors' = IF e = today THEN [cursors EXCEPT ![s] = Max({@, e})] ELSE cursors
  /\ UNCHANGED <<node, today, mode, streams, replaying, live, dropped>>

(* Mutant: the final batch is made before the old days are dropped. *)
FinalCleanupLate == UNCHANGED <<actions, dropped>>

(* The cleanup before the final batch. *)
FinalCleanup == Cleanup

(* The health row, with every shard connected, and the cleanup. *)
FinishBackfill(healthy) ==
  /\ mode = "backfill" /\ \A s \in Shards : Unread(s) = {}
  /\ mode' = "batch"
  /\ live' = IF healthy /\ Complete THEN today ELSE 0
  /\ FinalCleanup
  /\ UNCHANGED <<node, today, session, cursors>>

-----------------------------------------------------------------------------
(* The process ends, or dies anywhere. *)
End ==
  /\ mode # "off" /\ mode' = "off"
  /\ streams' = {} /\ replaying' = {} /\ position' = Nowhere
  /\ UNCHANGED <<node, today, actions, cursors, live, dropped>>

(* The last event of the shard that the collector has. *)
Frontier(s) == Max({cursors[s]} \cup {e \in Events : <<s, e>> \in kept})

(* A day passes: no replay lasts that long, and a session is closed long   *)
(* before when one of its shards has no stream.  Unless the node is        *)
(* forgetful it keeps what is still to be read of a shard that has been    *)
(* read from; only where the cursor is checked it need not.                *)
Tomorrow ==
  /\ today < node.lasts /\ mode \in {"off", "idle", "run"}
  /\ mode = "run" => streams = Shards /\ replaying = {} /\ \A s \in Shards : position[s] > today
  /\ \A s \in Shards :
       ~Forgetful /\ coverage[s] # 0 /\ ~(node.checked /\ cursors[s] # 0)
         => today + 1 - node.keeps <= Frontier(s)
  /\ today' = today + 1
  /\ UNCHANGED <<node, mode, session, actions, cursors, live, dropped>>

HistoryNext ==
  \/ StartRun \/ OpenSession \/ Retain \/ StartBackfill \/ End \/ Tomorrow
  \/ \E s \in Shards : Connect(s) \/ LoseShard(s) \/ Read(s) \/ BackfillRead(s)
  \/ \E s \in Shards, b \in BOOLEAN : Reconciled(s, b)
  \/ \E b \in BOOLEAN : Discover(b) \/ FinishBackfill(b)
  \/ \E to \in {"idle", "off"} : CloseSession(to)

HistorySpec == HistoryInit /\ [][HistoryNext]_historyVars

-----------------------------------------------------------------------------
(* Properties. *)

(* A health row that says live (derived, for hypersnap) is about complete  *)
(* data: of every shard, whatever was emitted before the day of the row    *)
(* and is still in the window is stored, after crashes, outages, partial   *)
(* replays and backfills.                                                  *)
LiveMeansComplete == \A s \in Shards, e \in Events :
  e < live /\ Dated(s, e) >= today - Window => <<s, e>> \in kept

(* A bucket never counts less than the actions that are stored for it, and *)
(* never more either, with one exception: actions, duplicate rows and      *)
(* buckets are deleted by different times, and the bucket that the latest  *)
(* cutoff fell into still counts the actions of it that are gone (and a    *)
(* backfill may count those again).                                        *)
BucketsMatchActions == \A b \in Buckets :
  LET stored == Cardinality({a \in kept : BucketOf(Dated(a[1], a[2])) = b})
  IN  /\ tally[b] >= stored
      /\ tally[b] > stored => BucketOf(dropped) <= b /\ b < dropped

(* Whenever a batch may be made, no bucket is there that a cleanup has     *)
(* dropped: what a backfill, whole or interrupted, brings back of such a   *)
(* bucket is a part of it, and would replace the count the cloud has.      *)
NoPartialDayGoesOut == mode \in {"run", "idle", "batch"} =>
  \A b \in Buckets : b < BucketOf(dropped) => tally[b] = 0
=============================================================================
