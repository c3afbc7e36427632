------------------------------ MODULE Delivery -------------------------------
(***************************************************************************)
(* Delivery of aggregates from the collector to D1, for one source and one *)
(* UTC day: the pending buckets and actor days of SQLite, the durable      *)
(* outbox (enqueueIngestBatch, enqueueOutbox), the dispatcher              *)
(* (OutboxDispatcher.drainOnce), and the Worker's ingest handler           *)
(* (handleIngest, persistBatch, the rate window), which the collector's 15 *)
(* second timeout lets run concurrently with a retry of the same batch.    *)
(*                                                                         *)
(* Every await of the handler is a step of its own; one D1 batch is        *)
(* atomic.  The live publication that ends a request is one step that      *)
(* succeeds or throws.  Authentication and validation are left out: every  *)
(* modelled request passes them.                                           *)
(***************************************************************************)
EXTENDS Naturals, Sequences, FiniteSets, FiniteSetsExt, Functions

CONSTANTS
  MaxMinute,       \* minutes of the day that have activity
  NumActors,       \* actors of the day
  Requests,        \* ingest requests the Worker may be handling at once
  BucketsPerBatch, \* minute buckets of a full batch
  ActorsPerBatch,  \* actor days of a full batch
  MaxOutboxRows,   \* config.maxOutboxRows
  RateLimit,       \* batches a source may have accepted in a rate window
  MaxActions,      \* bound: recorded actions
  MaxSnapshots,    \* bound: batches enqueued for their snapshots
  MaxFaults,       \* bound: lost requests, late answers, D1 and Worker errors
  MaxCrashes,      \* bound: collector crashes
  MaxExpiries      \* bound: ledger rows that expire

None == 0

ASSUME ConstantsAssumption ==
  /\ {MaxMinute, NumActors, MaxActions, MaxSnapshots} \subseteq Nat
  /\ {MaxFaults, MaxCrashes, MaxExpiries} \subseteq Nat
  /\ {BucketsPerBatch, ActorsPerBatch, MaxOutboxRows, RateLimit} \subseteq Nat \ {0}
  /\ IsFiniteSet(Requests) /\ None \notin Requests

Minutes == 1..MaxMinute
Actors == 1..NumActors
(* Every batch carries a snapshot or a bucket or an actor that was pending. *)
MaxBatches == 2 * MaxActions + MaxSnapshots
Batches == 1..MaxBatches

VARIABLES
  now,        \* the clock, in minutes; MaxMinute + 2 stands for days later
  local,      \* SQLite minute_buckets: actions of each minute
  bucketIn,   \* SQLite minute_buckets.queued_batch_id, None when NULL
  seen,       \* SQLite actor_days: actors of the day
  actorIn,    \* SQLite actor_days.queued_batch_id, None when NULL
  sent,       \* history: the payload of each batch, in the order of creation
  outbox,     \* SQLite outbox: batches not acknowledged
  waiting,    \* SQLite outbox: rows whose next attempt is in the future
  pc,         \* the periodic task: down, idle or draining
  due,        \* drainOnce: rows of this drain not yet handled
  posting,    \* drainOnce: the batch posted and the request that carries it
  request,    \* the Worker: its ingest requests
  ledger,     \* D1 ingest_batches
  remote,     \* D1 minute_activity.actions
  counts,     \* D1 minute_activity.action_counts_json: their sum
  members,    \* D1 actor_day_membership
  daily,      \* D1 daily_metrics of the day
  latest,     \* D1 latest_snapshots: the batch of the stored snapshot
  rate,       \* D1 rate_windows: the current window's count
  spent       \* how much of each bound is used

aggregates == <<local, bucketIn, seen, actorIn, sent>>
dispatcher == <<outbox, waiting, pc, due, posting>>
stored == <<ledger, remote, counts, members, daily, latest>>
vars == <<now, aggregates, dispatcher, request, stored, rate, spent>>

NotPosting == [batch |-> None, via |-> None]
Free == [at |-> "free", batch |-> None, held |-> FALSE]
HandlerPoints == {"free", "arrived", "unknown", "limited", "charged", "persist",
                  "recheck", "refundDuplicate", "refundError", "publish"}

Init ==
  /\ now = 1
  /\ local = [m \in Minutes |-> 0]
  /\ bucketIn = [m \in Minutes |-> None]
  /\ seen = {}
  /\ actorIn = [a \in Actors |-> None]
  /\ sent = <<>>
  /\ outbox = {} /\ waiting = {}
  /\ pc = "idle" /\ due = {} /\ posting = NotPosting
  /\ request = [r \in Requests |-> Free]
  /\ ledger = {}
  /\ remote = [m \in Minutes |-> 0]
  /\ counts = [m \in Minutes |-> 0]
  /\ members = {}
  /\ daily = [fids |-> 0, actions |-> 0]
  /\ latest = None
  /\ rate = 0
  /\ spent = [snapshots |-> 0, faults |-> 0, crashes |-> 0, expiries |-> 0]

(* Part of a bound is used. *)
Spend(kind, max) ==
  /\ spent[kind] < max
  /\ spent' = [spent EXCEPT ![kind] = @ + 1]

SumOf(f) == FoldFunction(LAMBDA x, y : x + y, 0, f)

(* The n smallest elements of S, all of them when there are fewer. *)
First(n, S) == {x \in S : Cardinality({y \in S : y < x}) < n}

-----------------------------------------------------------------------------
(* The collector's aggregates. *)

(* The clock moves on. *)
Tick ==
  /\ now < MaxMinute + 2
  /\ now' = now + 1
  /\ UNCHANGED <<aggregates, dispatcher, request, stored, rate, spent>>

(* Mutant: an updated bucket keeps its queued_batch_id. *)
RequeuedNever(m) == bucketIn

(* An updated bucket is pending again. *)
Requeued(m) == [bucketIn EXCEPT ![m] = None]

(* recordEvent counts an action, live or late. *)
RecordAction(m, a) ==
  /\ pc # "down"
  /\ m <= now
  /\ SumOf(local) < MaxActions
  /\ local' = [local EXCEPT ![m] = @ + 1]
  /\ bucketIn' = Requeued(m)
  /\ seen' = seen \cup {a}
  /\ UNCHANGED <<now, actorIn, sent, dispatcher, request, stored, rate, spent>>

(* Minutes that are over and not queued. *)
PendingBuckets == {m \in Minutes : m < now /\ local[m] > 0 /\ bucketIn[m] = None}

(* Actor days that are not queued. *)
PendingActors == {a \in seen : actorIn[a] = None}

(* What a batch takes; a full batch leaves the rest for the next one. *)
BatchBuckets == First(BucketsPerBatch, PendingBuckets)
BatchActors == First(ActorsPerBatch, PendingActors)

(* enqueueIngestBatch and enqueueOutbox: the payload is frozen (0 for a    *)
(* minute it does not carry: a bucket has at least one action), and the    *)
(* row and the marks on what it carries are one transaction.               *)
Enqueue(snapshot) ==
  /\ pc = "idle"
  /\ Cardinality(outbox) < MaxOutboxRows
  /\ IF snapshot
     THEN Spend("snapshots", MaxSnapshots)
     ELSE PendingBuckets \cup PendingActors # {} /\ UNCHANGED spent
  /\ LET b == Len(sent) + 1
     IN  /\ sent' = Append(sent, [buckets |-> [m \in Minutes |->
                                                IF m \in BatchBuckets THEN local[m] ELSE 0],
                                  actors |-> BatchActors,
                                  snapshot |-> snapshot])
         /\ outbox' = outbox \cup {b}
         /\ bucketIn' = [m \in Minutes |-> IF m \in BatchBuckets THEN b ELSE bucketIn[m]]
         /\ actorIn' = [a \in Actors |-> IF a \in BatchActors THEN b ELSE actorIn[a]]
  /\ UNCHANGED <<now, local, seen, waiting, pc, due, posting, request, stored, rate>>

-----------------------------------------------------------------------------
(* The dispatcher. *)

(* drainOnce reads the rows that are due. *)
StartDrain ==
  /\ pc = "idle"
  /\ outbox \ waiting # {}
  /\ pc' = "draining"
  /\ due' = outbox \ waiting
  /\ UNCHANGED <<now, aggregates, outbox, waiting, posting, request, stored, rate, spent>>

(* The next due row is posted. *)
Post(r) ==
  /\ pc = "draining" /\ posting = NotPosting
  /\ request[r] = Free
  /\ posting' = [batch |-> Min(due), via |-> r]
  /\ request' = [request EXCEPT ![r] = [Free EXCEPT !.at = "arrived", !.batch = Min(due)]]
  /\ UNCHANGED <<now, aggregates, outbox, waiting, pc, due, stored, rate, spent>>

(* failOutbox: the row backs off and the drain stops. *)
FailRow(b) ==
  /\ waiting' = waiting \cup {b}
  /\ posting' = NotPosting
  /\ due' = {}
  /\ pc' = "idle"
  /\ UNCHANGED outbox

(* acknowledgeOutbox: the row is deleted and the drain goes on. *)
AcknowledgeRow(b) ==
  /\ outbox' = outbox \ {b}
  /\ posting' = NotPosting
  /\ due' = due \ {b}
  /\ pc' = IF due = {b} THEN "idle" ELSE "draining"
  /\ UNCHANGED waiting

(* The request never reaches the Worker. *)
PostFails ==
  /\ pc = "draining" /\ posting = NotPosting
  /\ Spend("faults", MaxFaults)
  /\ FailRow(Min(due))
  /\ UNCHANGED <<now, aggregates, request, stored, rate>>

(* The answer does not arrive in time; the Worker goes on. *)
Timeout ==
  /\ posting # NotPosting
  /\ Spend("faults", MaxFaults)
  /\ FailRow(posting.batch)
  /\ UNCHANGED <<now, aggregates, request, stored, rate>>

(* The backoff of a row elapses. *)
BackoffElapses(b) ==
  /\ b \in waiting
  /\ waiting' = waiting \ {b}
  /\ UNCHANGED <<now, aggregates, outbox, pc, due, posting, request, stored, rate, spent>>

(* The collector dies: only SQLite is left.  Requests go on. *)
Crash ==
  /\ pc # "down"
  /\ Spend("crashes", MaxCrashes)
  /\ pc' = "down" /\ due' = {} /\ posting' = NotPosting
  /\ UNCHANGED <<now, aggregates, outbox, waiting, request, stored, rate>>

Restart ==
  /\ pc = "down"
  /\ pc' = "idle"
  /\ UNCHANGED <<now, aggregates, outbox, waiting, due, posting, request, stored, rate, spent>>

-----------------------------------------------------------------------------
(* The Worker's ingest handler. *)

(* The handler of r, which is at the given point, moves on to another. *)
Go(r, from, to) ==
  /\ request[r].at = from
  /\ request' = [request EXCEPT ![r].at = to]

Known(r) == request[r].batch \in ledger

(* The request ends; its answer matters if the collector still waits. *)
Answer(r, ok) ==
  /\ request' = [request EXCEPT ![r] = Free]
  /\ IF posting.via # r THEN UNCHANGED dispatcher
     ELSE IF ok THEN AcknowledgeRow(posting.batch) ELSE FailRow(posting.batch)

(* knownIngestBatch. *)
LookUp(r) ==
  /\ Go(r, "arrived", IF Known(r) THEN "publish" ELSE "unknown")
  /\ UNCHANGED <<now, aggregates, dispatcher, stored, rate, spent>>

(* The current window has room for another batch. *)
UnderLimit == rate < RateLimit

(* checkRateLimit charges the window, or refuses. *)
CheckRateLimit(r) ==
  /\ request[r].at = "unknown"
  /\ rate' = IF UnderLimit THEN rate + 1 ELSE rate
  /\ request' = [request EXCEPT ![r].at = IF UnderLimit THEN "charged" ELSE "limited",
                                ![r].held = UnderLimit]
  /\ UNCHANGED <<now, aggregates, dispatcher, stored, spent>>

(* A refused batch that became known meanwhile is acknowledged. *)
LookUpAgain(r) ==
  /\ request[r].at = "limited"
  /\ IF Known(r)
     THEN Go(r, "limited", "publish") /\ UNCHANGED dispatcher
     ELSE Answer(r, FALSE)
  /\ UNCHANGED <<now, aggregates, stored, rate, spent>>

(* persistBatch looks for the batch before it writes. *)
SelectExisting(r) ==
  /\ Go(r, "charged", IF Known(r) THEN "refundDuplicate" ELSE "persist")
  /\ UNCHANGED <<now, aggregates, dispatcher, stored, rate, spent>>

(* Mutant: the stored row is overwritten. *)
MergedOverwriting(buckets) ==
  [m \in Minutes |-> IF buckets[m] > 0 THEN buckets[m] ELSE remote[m]]

(* The stored row of a minute once the batch's buckets are merged. *)
MergedActions(buckets) ==
  [m \in Minutes |-> IF buckets[m] > remote[m] THEN buckets[m] ELSE remote[m]]

(* The stored counts: those of the last batch that carried the minute. *)
MergedCounts(buckets) ==
  [m \in Minutes |-> IF buckets[m] > 0 THEN buckets[m] ELSE counts[m]]

(* latest_snapshots keeps the newest snapshot. *)
LatestAfter(b) == IF sent[b].snapshot /\ b > latest THEN b ELSE latest

(* The daily row recomputed from the membership and the minutes. *)
Daily(actors, actions) == [fids |-> Cardinality(actors), actions |-> SumOf(actions)]

(* The atomic D1 batch.  The daily row is recomputed only for the days the *)
(* batch's actors touch.                                                   *)
Apply(b) ==
  LET batch == sent[b]
  IN  /\ ledger' = ledger \cup {b}
      /\ remote' = MergedActions(batch.buckets)
      /\ counts' = MergedCounts(batch.buckets)
      /\ members' = members \cup batch.actors
      /\ daily' = IF batch.actors = {} THEN daily ELSE Daily(members', remote')
      /\ latest' = LatestAfter(b)

(* The batch commits; the charge is kept. *)
Persist(r) ==
  /\ request[r].at = "persist" /\ ~Known(r)
  /\ Apply(request[r].batch)
  /\ request' = [request EXCEPT ![r].at = "publish", ![r].held = FALSE]
  /\ UNCHANGED <<now, aggregates, dispatcher, rate, spent>>

(* A concurrent request has stored the batch: the primary key conflicts. *)
PersistConflicts(r) ==
  /\ Known(r)
  /\ Go(r, "persist", "recheck")
  /\ UNCHANGED <<now, aggregates, dispatcher, stored, rate, spent>>

(* D1 reports an error, before or after it committed. *)
PersistFails(r, committed) ==
  /\ ~Known(r)
  /\ Go(r, "persist", "recheck")
  /\ Spend("faults", MaxFaults)
  /\ IF committed THEN Apply(request[r].batch) ELSE UNCHANGED stored
  /\ UNCHANGED <<now, aggregates, dispatcher, rate>>

(* persistBatch asks whether the failed batch is stored after all. *)
Recheck(r) ==
  /\ Go(r, "recheck", IF Known(r) THEN "refundDuplicate" ELSE "refundError")
  /\ UNCHANGED <<now, aggregates, dispatcher, stored, rate, spent>>

(* Mutant: the refund goes to the current window. *)
RefundedNow(r) == IF rate > 0 THEN rate - 1 ELSE rate

(* The count of the current window after r's refund, which goes to the     *)
(* window that was charged.                                                *)
Refunded(r) == IF request[r].held /\ rate > 0 THEN rate - 1 ELSE rate

(* refundRateLimit on the two paths that store nothing. *)
RefundDuplicate(r) ==
  /\ request[r].at = "refundDuplicate"
  /\ rate' = Refunded(r)
  /\ request' = [request EXCEPT ![r].at = "publish", ![r].held = FALSE]
  /\ UNCHANGED <<now, aggregates, dispatcher, stored, spent>>

RefundError(r) ==
  /\ request[r].at = "refundError"
  /\ rate' = Refunded(r)
  /\ Answer(r, FALSE)
  /\ UNCHANGED <<now, aggregates, stored, spent>>

(* The accepted or known batch is published and acknowledged. *)
Publish(r) ==
  /\ request[r].at = "publish"
  /\ Answer(r, TRUE)
  /\ UNCHANGED <<now, aggregates, stored, rate, spent>>

(* Publication throws, another D1 call throws, or the Worker dies.  A      *)
(* charge that is held then stays.                                         *)
HandlerFails(r) ==
  /\ request[r].at # "free"
  /\ Spend("faults", MaxFaults)
  /\ Answer(r, FALSE)
  /\ UNCHANGED <<now, aggregates, stored, rate>>

-----------------------------------------------------------------------------
(* The Worker's clock and its scheduled tasks. *)

(* A new rate window begins. *)
NewWindow ==
  /\ rate > 0
  /\ rate' = 0
  /\ request' = [r \in Requests |-> [request[r] EXCEPT !.held = FALSE]]
  /\ UNCHANGED <<now, aggregates, dispatcher, stored, spent>>

(* The minute cron repairs the daily rows of today and yesterday. *)
RepairDaily ==
  /\ now <= MaxMinute + 1
  /\ members # {}
  /\ daily' = Daily(members, remote)
  /\ UNCHANGED <<now, aggregates, dispatcher, request, ledger, remote, counts, members,
                 latest, rate, spent>>

(* The cleanup cron deletes a ledger row a day after the batch, long after *)
(* every request that carried it has ended.                                *)
Expire(b) ==
  /\ b \in ledger
  /\ \A r \in Requests : request[r].batch # b
  /\ Spend("expiries", MaxExpiries)
  /\ ledger' = ledger \ {b}
  /\ UNCHANGED <<now, aggregates, dispatcher, request, remote, counts, members, daily,
                 latest, rate>>

-----------------------------------------------------------------------------
Handle(r) ==
  \/ LookUp(r) \/ CheckRateLimit(r) \/ LookUpAgain(r) \/ SelectExisting(r)
  \/ Persist(r) \/ PersistConflicts(r) \/ Recheck(r)
  \/ RefundDuplicate(r) \/ RefundError(r) \/ Publish(r)

Next ==
  \/ Tick
  \/ \E m \in Minutes, a \in Actors : RecordAction(m, a)
  \/ \E snapshot \in BOOLEAN : Enqueue(snapshot)
  \/ StartDrain
  \/ \E r \in Requests : Post(r)
  \/ PostFails
  \/ Timeout
  \/ \E b \in Batches : BackoffElapses(b)
  \/ Crash
  \/ Restart
  \/ \E r \in Requests : Handle(r)
  \/ \E r \in Requests, committed \in BOOLEAN : PersistFails(r, committed)
  \/ \E r \in Requests : HandlerFails(r)
  \/ NewWindow
  \/ RepairDaily
  \/ \E b \in Batches : Expire(b)

Spec == Init /\ [][Next]_vars

(* The periodic task runs every pulse interval, requests are answered,     *)
(* timers and crons fire, the process is restarted.                        *)
Fairness ==
  /\ WF_vars(Tick)
  /\ WF_vars(Enqueue(FALSE))
  /\ WF_vars(StartDrain)
  /\ WF_vars(\E r \in Requests : Post(r))
  /\ \A b \in Batches : WF_vars(BackoffElapses(b))
  /\ WF_vars(Restart)
  /\ \A r \in Requests : WF_vars(Handle(r))
  /\ WF_vars(NewWindow)

FairSpec == Spec /\ Fairness

-----------------------------------------------------------------------------
Payloads == [buckets : [Minutes -> Nat], actors : SUBSET Actors, snapshot : BOOLEAN]

(* Every variable keeps to its type, and batches exist once enqueued. *)
TypeOK ==
  /\ now \in 1..(MaxMinute + 2)
  /\ local \in [Minutes -> Nat] /\ remote \in [Minutes -> Nat] /\ counts \in [Minutes -> Nat]
  /\ seen \subseteq Actors /\ members \subseteq Actors
  /\ sent \in Seq(Payloads) /\ Len(sent) <= MaxBatches
  /\ bucketIn \in [Minutes -> 0..Len(sent)] /\ actorIn \in [Actors -> 0..Len(sent)]
  /\ outbox \subseteq 1..Len(sent) /\ ledger \subseteq 1..Len(sent)
  /\ waiting \subseteq outbox /\ due \subseteq outbox \ waiting
  /\ pc \in {"down", "idle", "draining"} /\ (pc = "draining" <=> due # {})
  /\ posting # NotPosting => posting.batch \in due /\ posting.via \in Requests
  /\ request \in [Requests -> [at : HandlerPoints, batch : 0..Len(sent), held : BOOLEAN]]
  /\ daily \in [fids : Nat, actions : Nat]
  /\ latest \in 0..Len(sent)
  /\ rate \in 0..RateLimit
  /\ spent \in [{"snapshots", "faults", "crashes", "expiries"} -> Nat]

(* What is marked as queued is never lost: it is still in the outbox, in   *)
(* the payload frozen for it, or D1 has it.  Timeouts, late answers,       *)
(* crashes, concurrent retries and errors after a commit do not matter.    *)
NothingLost ==
  /\ \A m \in Minutes : bucketIn[m] # None =>
       \/ bucketIn[m] \in outbox /\ sent[bucketIn[m]].buckets[m] = local[m]
       \/ remote[m] = local[m]
  /\ \A a \in seen : actorIn[a] # None =>
       actorIn[a] \in outbox \/ a \in members

(* A refund never takes a charge another request holds: the window's count *)
(* covers the charges of the requests in flight.                           *)
RefundsOwnCharge ==
  rate >= Cardinality({r \in Requests : request[r].held})

(* Every counted action and every actor eventually reaches D1. *)
EventuallyDelivered ==
  /\ \A m \in Minutes, n \in 1..MaxActions : (local[m] = n) ~> (remote[m] >= n)
  /\ \A a \in Actors : (a \in seen) ~> (a \in members)

(* D1 is a replica of the collector's aggregates. *)
Store == INSTANCE Replica WITH
  local <- local, seen <- seen, remote <- remote, members <- members,
  latest <- latest
ImplementsReplica == Store!Spec
=============================================================================
