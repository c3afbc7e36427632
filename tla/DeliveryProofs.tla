---------------------------- MODULE DeliveryProofs --------------------------
(***************************************************************************)
(* Delivery, for any number of minutes, actors, requests, batches, faults  *)
(* and crashes: what is queued is never lost, a refund takes the refunded  *)
(* request's own charge, and D1 is a replica of the collector's counts.    *)
(*                                                                         *)
(* The argument follows the batches.  A frozen payload never exceeds the   *)
(* counts it was taken from; a request is acknowledged only when its batch *)
(* is in the ledger or has just been stored, and what has been stored      *)
(* stays, though its ledger row may expire; so a batch that has left the   *)
(* outbox is covered by D1, however many requests carried it.  A minute    *)
(* that is still marked has not changed since, so that D1, which is never  *)
(* ahead of the collector, has exactly its count.                          *)
(***************************************************************************)
EXTENDS Delivery, FiniteSetTheorems, SequenceTheorems, WellFoundedInduction, TLAPS

(* A nonempty set of natural numbers has a least element, which Min picks. *)
LEMMA MinOf ==
  ASSUME NEW S \in SUBSET Nat, S # {}
  PROVE  Min(S) \in S
<1>1. PICK m \in S : \A x \in S : ~(<<x, m>> \in OpToRel(<, Nat))
  BY NatLessThanWellFounded, WFMin
<1>2. ASSUME NEW x \in S PROVE m <= x
  <2>1. x \in Nat /\ m \in Nat
    OBVIOUS
  <2>2. ~(x < m)
    BY <1>1, <2>1, Zenon DEF OpToRel
  <2> QED BY <2>1, <2>2
<1>3. \E x \in S : \A y \in S : x =< y
  BY <1>2
<1> QED BY <1>3 DEF Min

-----------------------------------------------------------------------------
(* The requests of the Worker. *)
Request == [at : HandlerPoints, batch : Nat, held : BOOLEAN]

(* The dispatcher waits for the request that carries the batch it posted, *)
(* and for no other: an answer that comes after a timeout finds no one.    *)
PostingTypes == posting # NotPosting =>
  /\ posting.batch \in due
  /\ posting.via \in Requests
  /\ request[posting.via].at # "free"
  /\ request[posting.via].batch = posting.batch

(* A drain is on as long as it has rows left. *)
DispatcherTypes ==
  /\ outbox \subseteq 1 .. Len(sent)
  /\ due \subseteq outbox
  /\ pc \in {"down", "idle", "draining"} /\ (pc = "draining" <=> due # {})
  /\ PostingTypes

(* The tables of SQLite, and the payloads. *)
AggregateTypes ==
  /\ local \in [Minutes -> Nat] /\ bucketIn \in [Minutes -> 0 .. Len(sent)]
  /\ seen \subseteq Actors /\ actorIn \in [Actors -> 0 .. Len(sent)]
  /\ sent \in Seq(Payloads)

(* The Worker and D1. *)
WorkerTypes ==
  /\ request \in [Requests -> Request]
  /\ \A r \in Requests : request[r].at # "free" => request[r].batch \in 1 .. Len(sent)
  /\ ledger \subseteq 1 .. Len(sent)
  /\ remote \in [Minutes -> Nat]
  /\ members \subseteq Actors
  /\ latest \in Nat
  /\ rate \in Nat

(* What the proofs need of the type invariant. *)
Types == DispatcherTypes /\ AggregateTypes /\ WorkerTypes

(* What a batch carries is in the given counts and actors, or later counts *)
(* are.                                                                    *)
Within(batch, actions, actors) ==
  /\ \A m \in Minutes : batch.buckets[m] <= actions[m]
  /\ batch.actors \subseteq actors

(* D1 has no more than was counted. *)
NeverAhead ==
  /\ \A m \in Minutes : remote[m] <= local[m]
  /\ members \subseteq seen

(* A batch carries no more than has been counted. *)
Frozen == \A b \in 1 .. Len(sent) : Within(sent[b], local, seen)

(* A mark names a batch that carries the current count. *)
MarksCarry ==
  /\ \A m \in Minutes : bucketIn[m] # None => sent[bucketIn[m]].buckets[m] = local[m]
  /\ \A a \in Actors : actorIn[a] # None => a \in sent[actorIn[a]].actors

(* Where a request is that will be acknowledged unless it fails. *)
Acknowledges == {"refundDuplicate", "publish"}

(* What the ledger knows, and what is about to be acknowledged, is in D1:  *)
(* as such, or as later counts.                                            *)
KnownIsApplied ==
  /\ \A b \in ledger : Within(sent[b], remote, members)
  /\ \A r \in Requests : request[r].at \in Acknowledges => Within(sent[request[r].batch], remote, members)

(* A batch that has left the outbox is in D1. *)
SentIsApplied == \A b \in 1 .. Len(sent) : b \in outbox \/ Within(sent[b], remote, members)

(* The inductive invariant. *)
DeliveryInv ==
  /\ Types /\ NeverAhead /\ Frozen /\ MarksCarry /\ KnownIsApplied /\ SentIsApplied

(* The charge is held where a refund may still follow. *)
Holding == {"charged", "persist", "recheck", "refundDuplicate", "refundError"}
(* The requests that hold a charge of the current window. *)
Holders == {r \in Requests : request[r].held}
(* Only they are where a refund may follow. *)
HoldersHold == \A r \in Holders : request[r].at \in Holding

-----------------------------------------------------------------------------
(* What the steps of a handler do to its request and to the dispatcher. *)

(* The request goes on, and the dispatcher waits. *)
Moves(r) ==
  /\ request' \in [Requests -> Request]
  /\ \A q \in Requests \ {r} : request'[q] = request[q]
  /\ request'[r].batch = request[r].batch
  /\ request'[r].at # "free"
  /\ UNCHANGED dispatcher

(* Any step of the handler of r. *)
Handling(r) ==
  \/ Handle(r)
  \/ \E committed \in BOOLEAN : PersistFails(r, committed)
  \/ HandlerFails(r)

(* A request that moves on within its record. *)
LEMMA GoMoves ==
  ASSUME Types, NEW r \in Requests, NEW a \in HandlerPoints \ {"free"}, NEW h \in BOOLEAN,
         request' = [request EXCEPT ![r] = [@ EXCEPT !.at = a, !.held = h]],
         UNCHANGED dispatcher
  PROVE  Moves(r)
<1>1. request \in [Requests -> Request] /\ request[r] \in Request
  BY DEF Types, WorkerTypes
<1>2. [request[r] EXCEPT !.at = a, !.held = h] \in Request
  BY <1>1 DEF Request
<1> QED BY <1>1, <1>2 DEF Moves, Request

(* A handler's step moves its request or answers it, leaves the collector's*)
(* tables alone, and stores nothing or the batch.                          *)
LEMMA HandlerSteps ==
  ASSUME Types, NEW r \in Requests, Handling(r)
  PROVE  /\ request[r].at # "free" /\ UNCHANGED <<now, aggregates>>
         /\ Moves(r) \/ \E ok \in BOOLEAN : Answer(r, ok)
         /\ UNCHANGED stored \/ Apply(request[r].batch)
<1>1. request[r] \in Request /\ request \in [Requests -> Request]
  BY DEF Types, WorkerTypes
<1>2. ASSUME NEW from \in HandlerPoints \ {"free"}, NEW to \in HandlerPoints \ {"free"},
             Go(r, from, to), UNCHANGED dispatcher
      PROVE  request[r].at # "free" /\ Moves(r)
  <2>1. request' = [request EXCEPT ![r] = [@ EXCEPT !.at = to, !.held = request[r].held]]
    BY <1>1, <1>2 DEF Go, Request
  <2> QED BY <1>1, <1>2, <2>1, GoMoves DEF Go, Request
<1>3. CASE LookUp(r)
  BY <1>2, <1>3 DEF LookUp, HandlerPoints
<1>4. CASE CheckRateLimit(r)
  <2>1. UnderLimit \in BOOLEAN
    BY DEF UnderLimit
  <2>2. request' = [request EXCEPT ![r] = [@ EXCEPT !.at = IF UnderLimit THEN "charged" ELSE "limited",
                                                    !.held = UnderLimit]]
    BY <1>1, <1>4 DEF CheckRateLimit
  <2>3. Moves(r)
    BY <1>4, <2>1, <2>2, GoMoves DEF CheckRateLimit, HandlerPoints
  <2> QED BY <1>4, <2>3 DEF CheckRateLimit
<1>5. CASE LookUpAgain(r)
  BY <1>2, <1>5 DEF LookUpAgain, HandlerPoints
<1>6. CASE SelectExisting(r)
  BY <1>2, <1>6 DEF SelectExisting, HandlerPoints
<1>7. CASE Persist(r)
  <2>1. request' = [request EXCEPT ![r] = [@ EXCEPT !.at = "publish", !.held = FALSE]]
    BY <1>1, <1>7 DEF Persist
  <2>2. Moves(r)
    BY <1>7, <2>1, GoMoves DEF Persist, HandlerPoints
  <2> QED BY <1>7, <2>2 DEF Persist
<1>8. CASE PersistConflicts(r)
  BY <1>2, <1>8 DEF PersistConflicts, HandlerPoints
<1>9. CASE Recheck(r)
  BY <1>2, <1>9 DEF Recheck, HandlerPoints
<1>10. CASE RefundDuplicate(r)
  <2>1. request' = [request EXCEPT ![r] = [@ EXCEPT !.at = "publish", !.held = FALSE]]
    BY <1>1, <1>10 DEF RefundDuplicate
  <2>2. Moves(r)
    BY <1>10, <2>1, GoMoves DEF RefundDuplicate, HandlerPoints
  <2> QED BY <1>10, <2>2 DEF RefundDuplicate
<1>11. CASE RefundError(r)
  BY <1>11 DEF RefundError
<1>12. CASE Publish(r)
  BY <1>12 DEF Publish
<1>13. CASE \E committed \in BOOLEAN : PersistFails(r, committed)
  <2>1. PICK committed \in BOOLEAN : PersistFails(r, committed)
    BY <1>13
  <2> QED BY <1>2, <2>1 DEF PersistFails, HandlerPoints
<1>14. CASE HandlerFails(r)
  BY <1>14 DEF HandlerFails
<1> QED
  BY <1>3, <1>4, <1>5, <1>6, <1>7, <1>8, <1>9, <1>10, <1>11, <1>12, <1>13, <1>14
  DEF Handling, Handle

(* A row's failure and its acknowledgement leave the dispatcher well typed. *)
LEMMA RowDone ==
  ASSUME DispatcherTypes, posting # NotPosting, UNCHANGED sent,
         FailRow(posting.batch) \/ AcknowledgeRow(posting.batch)
  PROVE  DispatcherTypes' /\ posting' = NotPosting
<1>1. posting.batch \in due
  BY DEF DispatcherTypes, PostingTypes
<1>2. CASE FailRow(posting.batch)
  BY <1>2 DEF FailRow, DispatcherTypes, PostingTypes
<1>3. CASE AcknowledgeRow(posting.batch)
  BY <1>1, <1>3 DEF AcknowledgeRow, DispatcherTypes, PostingTypes
<1> QED BY <1>2, <1>3

(* So does any answer, also one that nobody waits for any more. *)
LEMMA AnswerTypes ==
  ASSUME Types, UNCHANGED sent, NEW r \in Requests, NEW ok \in BOOLEAN, Answer(r, ok)
  PROVE  DispatcherTypes' /\ request' \in [Requests -> Request]
<1>1. request \in [Requests -> Request] /\ Free \in Request
  BY DEF Types, WorkerTypes, Free, Request, HandlerPoints, None
<1>2. CASE posting.via # r
  <2>1. UNCHANGED dispatcher
    BY <1>2 DEF Answer
  <2>2. PostingTypes'
    BY <1>1, <1>2, <2>1 DEF Answer, Types, DispatcherTypes, PostingTypes, dispatcher
  <2> QED BY <1>1, <2>1, <2>2 DEF Types, DispatcherTypes, dispatcher, Answer
<1>3. CASE posting.via = r
  <2>1. posting # NotPosting
    BY <1>3, ConstantsAssumption DEF NotPosting
  <2>2. FailRow(posting.batch) \/ AcknowledgeRow(posting.batch)
    BY <1>3 DEF Answer
  <2> QED BY <1>1, <2>1, <2>2, RowDone DEF Types, Answer
<1> QED BY <1>2, <1>3

(* What is sent, and what would be sent next, are payloads. *)
LEMMA BatchTypes ==
  ASSUME Types
  PROVE  /\ Len(sent) \in Nat /\ \A b \in 1 .. Len(sent) : sent[b] \in Payloads
         /\ BatchBuckets \subseteq PendingBuckets /\ BatchActors \subseteq PendingActors
         /\ PendingBuckets \subseteq Minutes /\ PendingActors \subseteq seen
         /\ \A snapshot \in BOOLEAN :
              [buckets |-> [m \in Minutes |-> IF m \in BatchBuckets THEN local[m] ELSE 0],
               actors |-> BatchActors, snapshot |-> snapshot] \in Payloads
<1>1. BatchBuckets \subseteq PendingBuckets /\ BatchActors \subseteq PendingActors
  BY DEF BatchBuckets, BatchActors, First
<1>2. PendingBuckets \subseteq Minutes /\ PendingActors \subseteq seen
  BY DEF PendingBuckets, PendingActors
<1>3. [m \in Minutes |-> IF m \in BatchBuckets THEN local[m] ELSE 0] \in [Minutes -> Nat]
  BY DEF Types, AggregateTypes
<1>4. BatchActors \in SUBSET Actors
  BY <1>1, <1>2 DEF Types, AggregateTypes
<1>5. Len(sent) \in Nat /\ \A b \in 1 .. Len(sent) : sent[b] \in Payloads
  BY DEF Types, AggregateTypes
<1> QED BY <1>1, <1>2, <1>3, <1>4, <1>5 DEF Payloads

(* Atomically storing a batch. *)
LEMMA ApplyTypes ==
  ASSUME Types, NEW b \in 1 .. Len(sent), Apply(b)
  PROVE  /\ ledger' = ledger \cup {b} /\ remote' \in [Minutes -> Nat] /\ members' \subseteq Actors
         /\ latest' \in Nat /\ latest <= latest'
         /\ \A m \in Minutes : remote'[m] = IF sent[b].buckets[m] > remote[m]
                                            THEN sent[b].buckets[m] ELSE remote[m]
         /\ members' = members \cup sent[b].actors
<1>1. /\ sent[b].buckets \in [Minutes -> Nat] /\ sent[b].actors \subseteq Actors
      /\ remote \in [Minutes -> Nat] /\ members \subseteq Actors /\ latest \in Nat /\ Len(sent) \in Nat
  <2>1. sent[b] \in Payloads /\ Len(sent) \in Nat
    BY BatchTypes
  <2> QED BY <2>1 DEF Payloads, Types, WorkerTypes
<1>2. ledger' = ledger \cup {b} /\ remote' = MergedActions(sent[b].buckets)
      /\ members' = members \cup sent[b].actors /\ latest' = LatestAfter(b)
  BY DEF Apply
<1>3. \A m \in Minutes : remote'[m] = IF sent[b].buckets[m] > remote[m]
                                      THEN sent[b].buckets[m] ELSE remote[m]
  BY <1>2 DEF MergedActions
<1>4. remote' \in [Minutes -> Nat]
  BY <1>1, <1>2 DEF MergedActions
<1>5. latest' \in Nat /\ latest <= latest'
  BY <1>1, <1>2 DEF LatestAfter
<1> QED BY <1>1, <1>2, <1>3, <1>4, <1>5

(* What a new batch and its marks are. *)
LEMMA EnqueueFacts ==
  ASSUME Types, NEW snapshot \in BOOLEAN, Enqueue(snapshot)
  PROVE  /\ sent' \in Seq(Payloads) /\ Len(sent') = Len(sent) + 1
         /\ \A b \in 1 .. Len(sent) : sent'[b] = sent[b]
         /\ sent'[Len(sent) + 1] = [buckets |-> [m \in Minutes |-> IF m \in BatchBuckets THEN local[m] ELSE 0],
                                    actors |-> BatchActors, snapshot |-> snapshot]
         /\ outbox' = outbox \cup {Len(sent) + 1}
         /\ bucketIn' = [m \in Minutes |-> IF m \in BatchBuckets THEN Len(sent) + 1 ELSE bucketIn[m]]
         /\ actorIn' = [a \in Actors |-> IF a \in BatchActors THEN Len(sent) + 1 ELSE actorIn[a]]
         /\ UNCHANGED <<now, local, seen, waiting, pc, due, posting, request, stored, rate>>
<1> DEFINE p == [buckets |-> [m \in Minutes |-> IF m \in BatchBuckets THEN local[m] ELSE 0],
                 actors |-> BatchActors, snapshot |-> snapshot]
<1>1. p \in Payloads
  BY BatchTypes
<1>2. sent' = Append(sent, p)
  BY DEF Enqueue
<1>3. sent \in Seq(Payloads)
  BY DEF Types, AggregateTypes
<1> HIDE DEF p
<1>4. /\ sent' \in Seq(Payloads) /\ Len(sent') = Len(sent) + 1
      /\ \A b \in 1 .. Len(sent) : sent'[b] = sent[b]
      /\ sent'[Len(sent) + 1] = p
  BY <1>1, <1>2, <1>3, AppendProperties
<1> USE DEF p
<1> QED BY <1>4 DEF Enqueue

(* At first all is well typed... *)
LEMMA TypesStart == Init => Types
<1> SUFFICES ASSUME Init PROVE Types
  OBVIOUS
<1>1. Len(sent) = 0 /\ sent \in Seq(Payloads)
  BY DEF Init
<1>2. Free \in Request
  BY DEF Free, Request, HandlerPoints, None
<1> QED BY <1>1, <1>2
  DEF Init, Types, DispatcherTypes, PostingTypes, AggregateTypes, WorkerTypes, Free, None

(* ... and every step keeps it so. *)
LEMMA TypesStep ==
  ASSUME Types, [Next]_vars
  PROVE  Types'
<1> DEFINE T == DispatcherTypes' /\ AggregateTypes' /\ WorkerTypes'
<1>1. Len(sent) \in Nat
  BY BatchTypes
<1>2. ASSUME Tick \/ UNCHANGED vars PROVE T
  BY <1>2 DEF Tick, vars, aggregates, dispatcher, stored, Types, DispatcherTypes, PostingTypes,
              AggregateTypes, WorkerTypes
<1>3. ASSUME NEW m \in Minutes, NEW a \in Actors, RecordAction(m, a) PROVE T
  <2>1. AggregateTypes'
    BY <1>1, <1>3 DEF RecordAction, Requeued, None, Types, AggregateTypes
  <2>2. DispatcherTypes' /\ WorkerTypes'
    BY <1>3 DEF RecordAction, dispatcher, stored, Types, DispatcherTypes, PostingTypes, WorkerTypes
  <2> QED BY <2>1, <2>2
<1>4. ASSUME NEW snapshot \in BOOLEAN, Enqueue(snapshot) PROVE T
  <2>1. /\ sent' \in Seq(Payloads) /\ Len(sent') = Len(sent) + 1
        /\ outbox' = outbox \cup {Len(sent) + 1}
        /\ bucketIn' = [m \in Minutes |-> IF m \in BatchBuckets THEN Len(sent) + 1 ELSE bucketIn[m]]
        /\ actorIn' = [a \in Actors |-> IF a \in BatchActors THEN Len(sent) + 1 ELSE actorIn[a]]
        /\ UNCHANGED <<now, local, seen, waiting, pc, due, posting, request, stored, rate>>
    BY <1>4, EnqueueFacts
  <2>2. AggregateTypes'
    BY <1>1, <2>1 DEF Types, AggregateTypes
  <2>3. DispatcherTypes'
    <3>1. outbox' \subseteq 1 .. Len(sent') /\ due' \subseteq outbox'
      <4>1. outbox \subseteq 1 .. Len(sent) /\ due \subseteq outbox
        BY DEF Types, DispatcherTypes
      <4>2. Len(sent') = Len(sent) + 1 /\ outbox' = outbox \cup {Len(sent) + 1} /\ due' = due
        BY <2>1
      <4>3. outbox \cup {Len(sent) + 1} \subseteq 1 .. Len(sent) + 1
        <5>1. \A n \in Nat : n + 1 \in 1 .. n + 1 /\ 1 .. n \subseteq 1 .. n + 1
          OBVIOUS
        <5> QED BY <1>1, <4>1, <5>1, Zenon
      <4>4. 1 .. Len(sent') = 1 .. Len(sent) + 1
        BY <4>2
      <4> QED BY <4>1, <4>2, <4>3, <4>4, Zenon
    <3>2. PostingTypes'
      BY <2>1 DEF Types, DispatcherTypes, PostingTypes
    <3> QED BY <2>1, <3>1, <3>2 DEF Types, DispatcherTypes
  <2>4. WorkerTypes'
    BY <1>1, <2>1 DEF stored, Types, WorkerTypes
  <2> QED BY <2>2, <2>3, <2>4
<1>5. ASSUME StartDrain \/ Crash \/ Restart \/ PostFails \/ Timeout
             \/ \E b \in Batches : BackoffElapses(b)
      PROVE T
  <2>1. UNCHANGED <<aggregates, request, stored, rate>>
    BY <1>5 DEF StartDrain, Crash, Restart, PostFails, Timeout, BackoffElapses
  <2>2. AggregateTypes' /\ WorkerTypes'
    BY <2>1 DEF aggregates, stored, Types, AggregateTypes, WorkerTypes
  <2>3. StartDrain => DispatcherTypes'
    BY <2>1 DEF StartDrain, aggregates, Types, DispatcherTypes, PostingTypes
  <2>4. Crash => DispatcherTypes'
    BY <2>1 DEF Crash, aggregates, Types, DispatcherTypes, PostingTypes
  <2>5. Restart => DispatcherTypes'
    BY <2>1 DEF Restart, aggregates, Types, DispatcherTypes, PostingTypes
  <2>6. PostFails => DispatcherTypes'
    BY <2>1 DEF PostFails, FailRow, aggregates, Types, DispatcherTypes, PostingTypes
  <2>7. Timeout => DispatcherTypes'
    BY <2>1 DEF Timeout, FailRow, aggregates, Types, DispatcherTypes, PostingTypes
  <2>8. (\E b \in Batches : BackoffElapses(b)) => DispatcherTypes'
    BY <2>1 DEF BackoffElapses, aggregates, Types, DispatcherTypes, PostingTypes
  <2> QED BY <1>5, <2>2, <2>3, <2>4, <2>5, <2>6, <2>7, <2>8
<1>6. ASSUME NEW r \in Requests, Post(r) PROVE T
  <2>1. Min(due) \in due /\ Min(due) \in 1 .. Len(sent)
    <3>1. due # {} /\ due \subseteq 1 .. Len(sent)
      BY <1>6 DEF Post, Types, DispatcherTypes
    <3>2. due \in SUBSET Nat
      BY <1>1, <3>1
    <3> QED BY <3>1, <3>2, MinOf
  <2> DEFINE fresh == [Free EXCEPT !.at = "arrived", !.batch = Min(due)]
  <2>2. fresh \in Request /\ fresh.at = "arrived" /\ fresh.batch = Min(due)
    <3>1. Free \in Request
      BY DEF Free, Request, HandlerPoints, None
    <3>2. Min(due) \in Nat
      BY <1>1, <2>1
    <3>3. fresh \in Request
      BY <3>1, <3>2 DEF Request, HandlerPoints
    <3>4. fresh.at = "arrived" /\ fresh.batch = Min(due)
      BY <3>1 DEF Request
    <3> QED BY <3>3, <3>4
  <2>3. /\ request' = [request EXCEPT ![r] = fresh]
        /\ posting' = [batch |-> Min(due), via |-> r]
        /\ UNCHANGED <<now, aggregates, outbox, waiting, pc, due, stored, rate, spent>>
    BY <1>6 DEF Post
  <2> HIDE DEF fresh
  <2>4. posting'.batch = Min(due) /\ posting'.via = r
    BY <2>3
  <2>5. AggregateTypes'
    BY <2>3 DEF aggregates, Types, AggregateTypes
  <2>6. WorkerTypes'
    BY <2>1, <2>2, <2>3 DEF aggregates, stored, Types, WorkerTypes
  <2>7. DispatcherTypes'
    BY <2>1, <2>2, <2>3, <2>4 DEF aggregates, Types, DispatcherTypes, PostingTypes, WorkerTypes
  <2> QED BY <2>5, <2>6, <2>7
<1>7. ASSUME NEW r \in Requests, Handling(r) PROVE T
  <2>1. /\ request[r].at # "free" /\ UNCHANGED <<now, aggregates>>
        /\ Moves(r) \/ \E ok \in BOOLEAN : Answer(r, ok)
        /\ UNCHANGED stored \/ Apply(request[r].batch)
    BY <1>7, HandlerSteps
  <2>2. AggregateTypes' /\ UNCHANGED sent
    BY <2>1 DEF aggregates, Types, AggregateTypes
  <2>3. request[r].batch \in 1 .. Len(sent)
    BY <2>1 DEF Types, WorkerTypes
  <2>4. ledger' \subseteq 1 .. Len(sent) /\ remote' \in [Minutes -> Nat] /\ members' \subseteq Actors
        /\ latest' \in Nat
    <3>1. CASE UNCHANGED stored
      BY <3>1 DEF stored, Types, WorkerTypes
    <3>2. CASE Apply(request[r].batch)
      BY <2>3, <3>2, ApplyTypes DEF Types, WorkerTypes
    <3> QED BY <2>1, <3>1, <3>2
  <2>5. rate' \in Nat
    <3>1. rate \in Nat
      BY DEF Types, WorkerTypes
    <3>2. rate' \in {rate, rate + 1, Refunded(r)}
      BY <1>7 DEF Handling, Handle, LookUp, CheckRateLimit, LookUpAgain, SelectExisting, Persist,
                  PersistConflicts, Recheck, RefundDuplicate, RefundError, Publish, PersistFails,
                  HandlerFails
    <3> QED BY <3>1, <3>2 DEF Refunded
  <2>6. DispatcherTypes' /\ request' \in [Requests -> Request]
        /\ \A q \in Requests : request'[q].at # "free" => request'[q].batch \in 1 .. Len(sent)
    <3>1. CASE Moves(r)
      BY <2>1, <2>2, <3>1
      DEF Moves, dispatcher, Types, DispatcherTypes, PostingTypes, WorkerTypes
    <3>2. ASSUME NEW ok \in BOOLEAN, Answer(r, ok)
          PROVE  DispatcherTypes' /\ request' \in [Requests -> Request]
                 /\ \A q \in Requests : request'[q].at # "free" => request'[q].batch \in 1 .. Len(sent)
      <4>1. DispatcherTypes' /\ request' \in [Requests -> Request]
        BY <2>2, <3>2, AnswerTypes
      <4>2. request' = [request EXCEPT ![r] = Free]
        BY <3>2 DEF Answer
      <4> QED BY <4>1, <4>2 DEF Free, Types, WorkerTypes
    <3> QED BY <2>1, <3>1, <3>2
  <2> QED BY <2>2, <2>4, <2>5, <2>6 DEF WorkerTypes
<1>8. ASSUME NewWindow PROVE T
  <2>1. /\ request' = [r \in Requests |-> [request[r] EXCEPT !.held = FALSE]]
        /\ rate' = 0 /\ UNCHANGED <<aggregates, dispatcher, stored>>
    BY <1>8 DEF NewWindow
  <2>2. /\ request' \in [Requests -> Request]
        /\ \A r \in Requests : request'[r].at = request[r].at /\ request'[r].batch = request[r].batch
    BY <2>1 DEF Types, WorkerTypes, Request
  <2> QED BY <2>1, <2>2 DEF aggregates, dispatcher, stored, Types, DispatcherTypes, PostingTypes,
                            AggregateTypes, WorkerTypes
<1>9. ASSUME RepairDaily \/ \E b \in Batches : Expire(b) PROVE T
  <2>1. /\ UNCHANGED <<aggregates, dispatcher, request, remote, members, latest, rate>>
        /\ ledger' \subseteq ledger
    BY <1>9 DEF RepairDaily, Expire
  <2> QED BY <2>1 DEF aggregates, dispatcher, Types, DispatcherTypes, PostingTypes,
                      AggregateTypes, WorkerTypes
<1> QED
  BY <1>2, <1>3, <1>4, <1>5, <1>6, <1>7, <1>8, <1>9 DEF Next, Handling, Types

-----------------------------------------------------------------------------
(* What a step may do to the counts, the batches and D1. *)

(* Steps that change none of them. *)
Bystanding ==
  /\ UNCHANGED <<local, bucketIn, seen, actorIn, sent, outbox, remote, members, latest>>
  /\ ledger' \subseteq ledger
  /\ \A r \in Requests : request'[r].at \in Acknowledges =>
       request[r].at \in Acknowledges /\ request'[r].batch = request[r].batch

(* The steps that matter below. *)
LEMMA StepKinds ==
  ASSUME Types, [Next]_vars
  PROVE  \/ \E m \in Minutes, a \in Actors : RecordAction(m, a)
         \/ \E snapshot \in BOOLEAN : Enqueue(snapshot)
         \/ \E r \in Requests : Handling(r)
         \/ Bystanding
<1>1. CASE \/ Tick \/ StartDrain \/ PostFails \/ Timeout \/ Crash \/ Restart \/ RepairDaily
           \/ (\E b \in Batches : BackoffElapses(b) \/ Expire(b)) \/ UNCHANGED vars
  BY <1>1 DEF Tick, StartDrain, PostFails, Timeout, FailRow, Crash, Restart, RepairDaily,
              BackoffElapses, Expire, vars, aggregates, dispatcher, stored, Bystanding
<1>2. CASE \E r \in Requests : Post(r)
  <2>1. PICK r \in Requests : Post(r)
    BY <1>2
  <2>2. request \in [Requests -> Request]
    BY DEF Types, WorkerTypes
  <2>3. request'[r].at = "arrived" /\ \A q \in Requests \ {r} : request'[q] = request[q]
    BY <2>1, <2>2 DEF Post, Free
  <2> QED BY <2>1, <2>3 DEF Post, aggregates, stored, Bystanding, Acknowledges
<1>3. CASE NewWindow
  <2>1. \A r \in Requests : request'[r].at = request[r].at /\ request'[r].batch = request[r].batch
    BY <1>3 DEF NewWindow, Types, WorkerTypes, Request
  <2> QED BY <1>3, <2>1 DEF NewWindow, aggregates, dispatcher, stored, Bystanding
<1> QED BY <1>1, <1>2, <1>3 DEF Next, Handling

(* A row is removed by the request that carried it. *)
LEMMA RemovedByItsRequest ==
  ASSUME Types, NEW r \in Requests, Handling(r)
  PROVE  \/ outbox' = outbox
         \/ request[r].at = "publish" /\ outbox' = outbox \ {request[r].batch}
<1>1. ASSUME NEW ok \in BOOLEAN, Answer(r, ok)
      PROVE  \/ outbox' = outbox
             \/ ok /\ outbox' = outbox \ {request[r].batch}
  <2>1. CASE posting.via # r
    BY <1>1, <2>1 DEF Answer, dispatcher
  <2>2. CASE posting.via = r
    <3>1. posting # NotPosting
      BY <2>2, ConstantsAssumption DEF NotPosting
    <3>2. posting.batch = request[r].batch
      BY <2>2, <3>1 DEF Types, DispatcherTypes, PostingTypes
    <3> QED BY <1>1, <2>2, <3>2 DEF Answer, FailRow, AcknowledgeRow
  <2> QED BY <2>1, <2>2
<1>2. CASE LookUpAgain(r)
  BY <1>1, <1>2 DEF LookUpAgain, dispatcher
<1>3. CASE RefundError(r)
  BY <1>1, <1>3 DEF RefundError
<1>4. CASE Publish(r)
  BY <1>1, <1>4 DEF Publish
<1>5. CASE HandlerFails(r)
  BY <1>1, <1>5 DEF HandlerFails
<1>6. CASE LookUp(r) \/ CheckRateLimit(r) \/ SelectExisting(r) \/ Persist(r) \/ PersistConflicts(r)
           \/ Recheck(r) \/ RefundDuplicate(r) \/ \E committed \in BOOLEAN : PersistFails(r, committed)
  BY <1>6 DEF LookUp, CheckRateLimit, SelectExisting, Persist, PersistConflicts, Recheck,
              RefundDuplicate, PersistFails, dispatcher
<1> QED BY <1>2, <1>3, <1>4, <1>5, <1>6 DEF Handling, Handle

(* A request gets to where it is acknowledged only with a batch that is    *)
(* known or has just been stored.                                          *)
LEMMA AcknowledgesTheKnown ==
  ASSUME Types, NEW r \in Requests, Handling(r), request'[r].at \in Acknowledges
  PROVE  /\ request[r].batch \in ledger \/ request[r].at \in Acknowledges \/ Apply(request[r].batch)
         /\ request'[r].batch = request[r].batch
<1>1. request \in [Requests -> Request] /\ request[r] \in Request
  BY DEF Types, WorkerTypes
<1>2. request'[r].at # "free"
  BY DEF Acknowledges
<1>3. ~ \E ok \in BOOLEAN : Answer(r, ok)
  BY <1>1, <1>2 DEF Answer, Free
<1>4. Moves(r)
  BY <1>3, HandlerSteps
<1>5. request'[r].batch = request[r].batch
  BY <1>4 DEF Moves
<1>6. ASSUME NEW from, NEW to, Go(r, from, to)
      PROVE  request'[r].at = to
  BY <1>1, <1>6 DEF Go, Request
<1> DEFINE C == request[r].batch \in ledger \/ request[r].at \in Acknowledges \/ Apply(request[r].batch)
<1>7. ASSUME LookUp(r) PROVE C
  BY <1>6, <1>7 DEF LookUp, Known, Acknowledges
<1>8. ASSUME CheckRateLimit(r) PROVE C
  BY <1>1, <1>8 DEF CheckRateLimit, Acknowledges, Request
<1>9. ASSUME LookUpAgain(r) PROVE C
  BY <1>3, <1>6, <1>9 DEF LookUpAgain, Known, Acknowledges
<1>10. ASSUME SelectExisting(r) PROVE C
  BY <1>6, <1>10 DEF SelectExisting, Known, Acknowledges
<1>11. ASSUME Persist(r) PROVE C
  BY <1>11 DEF Persist
<1>12. ASSUME PersistConflicts(r) PROVE C
  BY <1>12 DEF PersistConflicts, Known
<1>13. ASSUME Recheck(r) PROVE C
  BY <1>6, <1>13 DEF Recheck, Known, Acknowledges
<1>14. ASSUME RefundDuplicate(r) PROVE C
  BY <1>14 DEF RefundDuplicate, Acknowledges
<1>15. ASSUME \E committed \in BOOLEAN : PersistFails(r, committed) PROVE C
  BY <1>6, <1>15 DEF PersistFails, Acknowledges
<1>16. ASSUME RefundError(r) \/ Publish(r) \/ HandlerFails(r) PROVE C
  BY <1>3, <1>16 DEF RefundError, Publish, HandlerFails
<1> QED
  BY <1>5, <1>7, <1>8, <1>9, <1>10, <1>11, <1>12, <1>13, <1>14, <1>15, <1>16
  DEF Handling, Handle

(* What is stored, counted or sent stays. *)
LEMMA Grows ==
  ASSUME Types, [Next]_vars
  PROVE  /\ Len(sent) \in Nat /\ Len(sent') \in Nat /\ Len(sent) <= Len(sent')
         /\ \A b \in 1 .. Len(sent) : sent'[b] = sent[b]
         /\ \A m \in Minutes : local[m] <= local'[m] /\ remote[m] <= remote'[m]
         /\ seen \subseteq seen' /\ members \subseteq members'
<1> DEFINE G == /\ Len(sent') \in Nat /\ Len(sent) <= Len(sent')
                /\ \A b \in 1 .. Len(sent) : sent'[b] = sent[b]
                /\ \A m \in Minutes : local[m] <= local'[m] /\ remote[m] <= remote'[m]
                /\ seen \subseteq seen' /\ members \subseteq members'
<1>1. /\ Len(sent) \in Nat /\ local \in [Minutes -> Nat] /\ remote \in [Minutes -> Nat]
      /\ \A b \in 1 .. Len(sent) : sent[b] \in Payloads
  BY BatchTypes DEF Types, AggregateTypes, WorkerTypes
<1>2. ASSUME NEW m \in Minutes, NEW a \in Actors, RecordAction(m, a) PROVE G
  BY <1>1, <1>2 DEF RecordAction, stored
<1>3. ASSUME NEW snapshot \in BOOLEAN, Enqueue(snapshot) PROVE G
  <2>1. /\ Len(sent') = Len(sent) + 1 /\ \A b \in 1 .. Len(sent) : sent'[b] = sent[b]
        /\ UNCHANGED <<local, seen, stored>>
    BY <1>3, EnqueueFacts
  <2> QED BY <1>1, <2>1 DEF stored
<1>4. ASSUME NEW r \in Requests, Handling(r) PROVE G
  <2>1. UNCHANGED <<local, seen, sent>>
    BY <1>4, HandlerSteps DEF aggregates
  <2>2. CASE UNCHANGED stored
    BY <1>1, <2>1, <2>2 DEF stored
  <2>3. CASE Apply(request[r].batch)
    <3>1. request[r].batch \in 1 .. Len(sent)
      BY <1>4, HandlerSteps DEF Types, WorkerTypes
    <3> DEFINE b == request[r].batch
    <3>2. members \subseteq members'
          /\ \A m \in Minutes : remote'[m] = IF sent[b].buckets[m] > remote[m]
                                             THEN sent[b].buckets[m] ELSE remote[m]
      BY <2>3, <3>1, ApplyTypes
    <3>3. sent[b].buckets \in [Minutes -> Nat]
      BY <1>1, <3>1 DEF Payloads
    <3>4. \A m \in Minutes : remote[m] <= remote'[m]
      BY <1>1, <3>2, <3>3
    <3> QED BY <1>1, <2>1, <3>2, <3>4
  <2> QED BY <1>4, <2>2, <2>3, HandlerSteps
<1>5. ASSUME Bystanding PROVE G
  BY <1>1, <1>5 DEF Bystanding
<1> QED BY <1>1, <1>2, <1>3, <1>4, <1>5, StepKinds

(* So a batch stays covered by the counts and, once applied, applied. *)
LEMMA BatchesStay ==
  ASSUME Types, [Next]_vars, NEW b \in 1 .. Len(sent)
  PROVE  /\ b \in 1 .. Len(sent')
         /\ Within(sent[b], local, seen) => Within(sent'[b], local', seen')
         /\ Within(sent[b], remote, members) => Within(sent'[b], remote', members')
<1>1. /\ sent[b].buckets \in [Minutes -> Nat]
      /\ local \in [Minutes -> Nat] /\ remote \in [Minutes -> Nat]
  BY BatchTypes DEF Payloads, Types, AggregateTypes, WorkerTypes
<1>2. local' \in [Minutes -> Nat] /\ remote' \in [Minutes -> Nat]
  BY TypesStep DEF Types, AggregateTypes, WorkerTypes
<1>3. /\ sent'[b] = sent[b] /\ seen \subseteq seen' /\ members \subseteq members'
      /\ \A m \in Minutes : local[m] <= local'[m] /\ remote[m] <= remote'[m]
  BY Grows
<1>4. b \in 1 .. Len(sent')
  BY Grows
<1>5. ASSUME Within(sent[b], local, seen) PROVE Within(sent'[b], local', seen')
  BY <1>1, <1>2, <1>3, <1>5 DEF Within
<1>6. ASSUME Within(sent[b], remote, members) PROVE Within(sent'[b], remote', members')
  BY <1>1, <1>2, <1>3, <1>6 DEF Within
<1> QED BY <1>4, <1>5, <1>6

(* After it has been stored a batch is applied. *)
LEMMA ApplyApplies ==
  ASSUME Types, NEW b \in 1 .. Len(sent), Apply(b), UNCHANGED sent
  PROVE  Within(sent'[b], remote', members')
<1>1. sent[b].buckets \in [Minutes -> Nat] /\ remote \in [Minutes -> Nat]
  BY BatchTypes DEF Payloads, Types, WorkerTypes
<1>2. /\ members' = members \cup sent[b].actors
      /\ \A m \in Minutes : remote'[m] = IF sent[b].buckets[m] > remote[m]
                                         THEN sent[b].buckets[m] ELSE remote[m]
  BY ApplyTypes
<1> QED BY <1>1, <1>2 DEF Within

-----------------------------------------------------------------------------
(* Each part of the invariant is kept. *)

(* D1 gets only what a frozen payload carries. *)
LEMMA NeverAheadStep ==
  ASSUME Types, NeverAhead, Frozen, [Next]_vars
  PROVE  NeverAhead'
<1>1. /\ local \in [Minutes -> Nat] /\ remote \in [Minutes -> Nat]
      /\ \A b \in 1 .. Len(sent) : sent[b].buckets \in [Minutes -> Nat]
  BY BatchTypes DEF Payloads, Types, AggregateTypes, WorkerTypes
<1>2. /\ local' \in [Minutes -> Nat]
      /\ seen \subseteq seen' /\ \A m \in Minutes : local[m] <= local'[m]
  BY Grows, TypesStep DEF Types, AggregateTypes
<1>3. ASSUME UNCHANGED <<remote, members>> PROVE NeverAhead'
  BY <1>1, <1>2, <1>3 DEF NeverAhead
<1>4. ASSUME NEW m \in Minutes, NEW a \in Actors, RecordAction(m, a) PROVE NeverAhead'
  BY <1>3, <1>4 DEF RecordAction, stored
<1>5. ASSUME NEW snapshot \in BOOLEAN, Enqueue(snapshot) PROVE NeverAhead'
  BY <1>3, <1>5 DEF Enqueue, stored
<1>6. ASSUME NEW r \in Requests, Handling(r) PROVE NeverAhead'
  <2>1. UNCHANGED <<local, seen, sent>> /\ (UNCHANGED stored \/ Apply(request[r].batch))
    BY <1>6, HandlerSteps DEF aggregates
  <2>2. ASSUME Apply(request[r].batch) PROVE NeverAhead'
    <3> DEFINE b == request[r].batch
    <3>1. b \in 1 .. Len(sent)
      BY <1>6, HandlerSteps DEF Types, WorkerTypes
    <3>2. /\ members' = members \cup sent[b].actors
          /\ \A m \in Minutes : remote'[m] = IF sent[b].buckets[m] > remote[m]
                                             THEN sent[b].buckets[m] ELSE remote[m]
      BY <2>2, <3>1, ApplyTypes
    <3>3. Within(sent[b], local, seen)
      BY <3>1 DEF Frozen
    <3> HIDE DEF b
    <3> QED BY <1>1, <2>1, <3>1, <3>2, <3>3 DEF Within, NeverAhead
  <2> QED BY <1>3, <2>1, <2>2 DEF stored
<1>7. ASSUME Bystanding PROVE NeverAhead'
  BY <1>3, <1>7 DEF Bystanding
<1> QED BY <1>4, <1>5, <1>6, <1>7, StepKinds

(* A step either leaves the batches and their marks alone, or adds one.    *)
LEMMA BatchSteps ==
  ASSUME Types, [Next]_vars
  PROVE  \/ \E m \in Minutes, a \in Actors : RecordAction(m, a)
         \/ \E snapshot \in BOOLEAN : Enqueue(snapshot)
         \/ UNCHANGED <<local, bucketIn, seen, actorIn, sent>>
<1>1. ASSUME NEW r \in Requests, Handling(r) PROVE UNCHANGED <<local, bucketIn, seen, actorIn, sent>>
  BY <1>1, HandlerSteps DEF aggregates
<1> QED BY <1>1, StepKinds DEF Bystanding

(* A new payload carries the current counts, which only grow. *)
LEMMA FrozenStep ==
  ASSUME Types, Frozen, [Next]_vars
  PROVE  Frozen'
<1>1. \A b \in 1 .. Len(sent) : Within(sent'[b], local', seen')
  BY BatchesStay DEF Frozen
<1>2. ASSUME UNCHANGED sent PROVE Frozen'
  BY <1>1, <1>2 DEF Frozen
<1>3. ASSUME NEW snapshot \in BOOLEAN, Enqueue(snapshot) PROVE Frozen'
  <2>1. /\ Len(sent') = Len(sent) + 1 /\ Len(sent) \in Nat
        /\ sent'[Len(sent) + 1] = [buckets |-> [m \in Minutes |-> IF m \in BatchBuckets THEN local[m] ELSE 0],
                                   actors |-> BatchActors, snapshot |-> snapshot]
        /\ UNCHANGED <<local, seen>>
    BY <1>3, EnqueueFacts, BatchTypes
  <2>2. local \in [Minutes -> Nat] /\ BatchActors \subseteq seen
    BY BatchTypes DEF Types, AggregateTypes
  <2>3. Within(sent'[Len(sent) + 1], local', seen')
    BY <2>1, <2>2 DEF Within
  <2>4. \A b \in 1 .. Len(sent') : b \in 1 .. Len(sent) \/ b = Len(sent) + 1
    BY <2>1
  <2> QED BY <1>1, <2>3, <2>4 DEF Frozen
<1>4. ASSUME NEW m \in Minutes, NEW a \in Actors, RecordAction(m, a) PROVE Frozen'
  BY <1>2, <1>4 DEF RecordAction
<1> QED BY <1>2, <1>3, <1>4, BatchSteps

(* An action takes its minute's mark away, and a new batch sets marks on   *)
(* what it carries.                                                        *)
LEMMA MarksStep ==
  ASSUME Types, MarksCarry, [Next]_vars
  PROVE  MarksCarry'
<1>1. /\ local \in [Minutes -> Nat] /\ Len(sent) \in Nat
      /\ bucketIn \in [Minutes -> 0 .. Len(sent)] /\ actorIn \in [Actors -> 0 .. Len(sent)]
  BY BatchTypes DEF Types, AggregateTypes
<1>2. ASSUME UNCHANGED <<local, bucketIn, seen, actorIn, sent>> PROVE MarksCarry'
  BY <1>2 DEF MarksCarry
<1>3. ASSUME NEW m \in Minutes, NEW a \in Actors, RecordAction(m, a) PROVE MarksCarry'
  BY <1>1, <1>3 DEF RecordAction, Requeued, MarksCarry
<1>4. ASSUME NEW snapshot \in BOOLEAN, Enqueue(snapshot) PROVE MarksCarry'
  <2> DEFINE n == Len(sent) + 1
  <2>1. /\ \A b \in 1 .. Len(sent) : sent'[b] = sent[b]
        /\ sent'[n] = [buckets |-> [m \in Minutes |-> IF m \in BatchBuckets THEN local[m] ELSE 0],
                       actors |-> BatchActors, snapshot |-> snapshot]
        /\ bucketIn' = [m \in Minutes |-> IF m \in BatchBuckets THEN n ELSE bucketIn[m]]
        /\ actorIn' = [a \in Actors |-> IF a \in BatchActors THEN n ELSE actorIn[a]]
        /\ UNCHANGED local
    BY <1>4, EnqueueFacts
  <2> HIDE DEF n
  <2>2. \A m \in BatchBuckets : sent'[n].buckets[m] = local[m]
    BY <2>1, BatchTypes
  <2>3. sent'[n].actors = BatchActors
    BY <2>1
  <2>4. ASSUME NEW m \in Minutes, bucketIn'[m] # None
        PROVE  sent'[bucketIn'[m]].buckets[m] = local'[m]
    <3>1. CASE m \in BatchBuckets
      BY <2>1, <2>2, <3>1
    <3>2. CASE m \notin BatchBuckets
      <4>1. bucketIn'[m] = bucketIn[m]
        BY <2>1, <3>2
      <4>2. bucketIn[m] \in 1 .. Len(sent)
        BY <1>1, <2>4, <4>1 DEF None
      <4> QED BY <2>1, <2>4, <4>1, <4>2 DEF MarksCarry
    <3> QED BY <3>1, <3>2
  <2>5. ASSUME NEW a \in Actors, actorIn'[a] # None
        PROVE  a \in sent'[actorIn'[a]].actors
    <3>1. CASE a \in BatchActors
      BY <2>1, <2>3, <3>1
    <3>2. CASE a \notin BatchActors
      <4>1. actorIn'[a] = actorIn[a]
        BY <2>1, <3>2
      <4>2. actorIn[a] \in 1 .. Len(sent)
        BY <1>1, <2>5, <4>1 DEF None
      <4> QED BY <2>1, <2>5, <4>1, <4>2 DEF MarksCarry
    <3> QED BY <3>1, <3>2
  <2> QED BY <2>4, <2>5 DEF MarksCarry
<1> QED BY <1>2, <1>3, <1>4, BatchSteps

(* A batch becomes known when it is stored, and is acknowledged if known. *)
LEMMA KnownStep ==
  ASSUME Types, KnownIsApplied, [Next]_vars
  PROVE  KnownIsApplied'
<1> DEFINE K == /\ \A b \in ledger' : Within(sent'[b], remote', members')
                /\ \A r \in Requests : request'[r].at \in Acknowledges => Within(sent'[request'[r].batch], remote', members')
<1>0. ASSUME K PROVE KnownIsApplied'
  <2>1. ASSUME NEW b \in ledger' PROVE Within(sent[b], remote, members)'
    BY <1>0, <2>1 DEF Within
  <2>2. ASSUME NEW r \in Requests, request'[r].at \in Acknowledges
        PROVE  Within(sent[request[r].batch], remote, members)'
    <3>1. Within(sent'[request'[r].batch], remote', members')
      BY <1>0, <2>2
    <3> QED BY <3>1 DEF Within
  <2> QED BY <2>1, <2>2 DEF KnownIsApplied
<1>1. \A b \in 1 .. Len(sent) : Within(sent[b], remote, members) => Within(sent'[b], remote', members')
  BY BatchesStay
<1>2. /\ ledger \subseteq 1 .. Len(sent)
      /\ \A r \in Requests : request[r].at # "free" => request[r].batch \in 1 .. Len(sent)
  BY DEF Types, WorkerTypes
<1>3. \A b \in ledger : Within(sent'[b], remote', members')
  BY <1>1, <1>2 DEF KnownIsApplied
<1>4. ASSUME NEW r \in Requests, request[r].at \in Acknowledges
      PROVE  Within(sent[request[r].batch], remote, members) /\ request[r].batch \in 1 .. Len(sent)
  BY <1>2, <1>4 DEF KnownIsApplied, Acknowledges
<1>5. ASSUME ledger' \subseteq ledger,
             \A r \in Requests : request'[r].at \in Acknowledges =>
               request[r].at \in Acknowledges /\ request'[r].batch = request[r].batch
      PROVE  K
  <2>1. ASSUME NEW r \in Requests, request'[r].at \in Acknowledges PROVE Within(sent'[request'[r].batch], remote', members')
    <3>1. request[r].at \in Acknowledges /\ request'[r].batch = request[r].batch
      BY <1>5, <2>1
    <3>2. Within(sent'[request[r].batch], remote', members')
      BY <1>1, <1>4, <3>1
    <3> QED BY <3>1, <3>2
  <2> QED BY <1>3, <1>5, <2>1
<1>6. ASSUME NEW m \in Minutes, NEW a \in Actors, RecordAction(m, a) PROVE K
  BY <1>5, <1>6 DEF RecordAction, stored
<1>7. ASSUME NEW snapshot \in BOOLEAN, Enqueue(snapshot) PROVE K
  BY <1>5, <1>7 DEF Enqueue, stored
<1>8. ASSUME Bystanding PROVE K
  BY <1>5, <1>8 DEF Bystanding
<1>9. ASSUME NEW r \in Requests, Handling(r) PROVE K
  <2> DEFINE b == request[r].batch
  <2>1. b \in 1 .. Len(sent) /\ UNCHANGED sent
    BY <1>2, <1>9, HandlerSteps DEF aggregates
  <2>2. Apply(b) => Within(sent'[b], remote', members')
    BY <2>1, ApplyApplies
  <2>3. ledger' = ledger \/ (Apply(b) /\ ledger' = ledger \cup {b})
    BY <1>9, <2>1, HandlerSteps, ApplyTypes DEF stored
  <2>4. \A c \in ledger' : Within(sent'[c], remote', members')
    BY <1>3, <2>2, <2>3
  <2>5. ASSUME NEW q \in Requests, request'[q].at \in Acknowledges PROVE Within(sent'[request'[q].batch], remote', members')
    <3>1. CASE q = r
      <4>1. /\ b \in ledger \/ request[r].at \in Acknowledges \/ Apply(b)
            /\ request'[r].batch = b
        BY <1>9, <2>5, <3>1, AcknowledgesTheKnown
      <4>2. Within(sent'[b], remote', members')
        BY <1>1, <1>3, <1>4, <2>2, <4>1
      <4> QED BY <3>1, <4>1, <4>2
    <3>2. CASE q # r
      <4>1. request'[q] = request[q]
        BY <1>9, <3>2, HandlerSteps DEF Moves, Answer, Types, WorkerTypes
      <4>2. Within(sent'[request[q].batch], remote', members')
        BY <1>1, <1>4, <2>5, <4>1
      <4> QED BY <4>1, <4>2
    <3> QED BY <3>1, <3>2
  <2> QED BY <2>4, <2>5
<1> QED BY <1>0, <1>6, <1>7, <1>8, <1>9, StepKinds

(* A row is deleted when its batch has been acknowledged. *)
LEMMA SentStep ==
  ASSUME Types, KnownIsApplied, SentIsApplied, [Next]_vars
  PROVE  SentIsApplied'
<1>1. \A b \in 1 .. Len(sent) : Within(sent[b], remote, members) => Within(sent'[b], remote', members')
  BY BatchesStay
<1>2. ASSUME outbox \subseteq outbox', UNCHANGED sent PROVE SentIsApplied'
  BY <1>1, <1>2 DEF SentIsApplied
<1>3. ASSUME NEW m \in Minutes, NEW a \in Actors, RecordAction(m, a) PROVE SentIsApplied'
  BY <1>2, <1>3 DEF RecordAction, dispatcher
<1>4. ASSUME NEW snapshot \in BOOLEAN, Enqueue(snapshot) PROVE SentIsApplied'
  <2>1. Len(sent') = Len(sent) + 1 /\ Len(sent) \in Nat /\ outbox' = outbox \cup {Len(sent) + 1}
    BY <1>4, EnqueueFacts, BatchTypes
  <2>2. \A b \in 1 .. Len(sent') : b \in 1 .. Len(sent) \/ b = Len(sent) + 1
    BY <2>1
  <2> QED BY <1>1, <2>1, <2>2 DEF SentIsApplied
<1>5. ASSUME NEW r \in Requests, Handling(r) PROVE SentIsApplied'
  <2>1. UNCHANGED sent
    BY <1>5, HandlerSteps DEF aggregates
  <2>2. CASE outbox' = outbox
    BY <1>2, <2>1, <2>2
  <2>3. CASE request[r].at = "publish" /\ outbox' = outbox \ {request[r].batch}
    <3>1. Within(sent[request[r].batch], remote, members)
      BY <2>3 DEF KnownIsApplied, Acknowledges
    <3> QED BY <1>1, <2>1, <2>3, <3>1 DEF SentIsApplied
  <2> QED BY <1>5, <2>2, <2>3, RemovedByItsRequest
<1>6. ASSUME Bystanding PROVE SentIsApplied'
  BY <1>2, <1>6 DEF Bystanding
<1> QED BY <1>3, <1>4, <1>5, <1>6, StepKinds

(* The invariant holds. *)
LEMMA DeliveryInvariant == Spec => []DeliveryInv
<1>1. Init => DeliveryInv
  <2> SUFFICES ASSUME Init PROVE DeliveryInv
    OBVIOUS
  <2>1. Len(sent) = 0
    BY DEF Init
  <2> QED BY <2>1, TypesStart DEF Init, DeliveryInv, NeverAhead, Frozen, MarksCarry, KnownIsApplied,
                                  SentIsApplied, Free, Acknowledges
<1>2. DeliveryInv /\ [Next]_vars => DeliveryInv'
  BY TypesStep, NeverAheadStep, FrozenStep, MarksStep, KnownStep, SentStep DEF DeliveryInv
<1> QED BY <1>1, <1>2, PTL DEF Spec

(* What is marked as queued is in the outbox, in the payload frozen for    *)
(* it, or D1 has it, whatever is lost, late, repeated or crashes.          *)
THEOREM NothingIsLost == Spec => []NothingLost
<1>1. DeliveryInv => NothingLost
  <2> SUFFICES ASSUME DeliveryInv PROVE NothingLost
    OBVIOUS
  <2>1. /\ local \in [Minutes -> Nat] /\ remote \in [Minutes -> Nat] /\ Len(sent) \in Nat
        /\ bucketIn \in [Minutes -> 0 .. Len(sent)] /\ actorIn \in [Actors -> 0 .. Len(sent)]
        /\ seen \subseteq Actors
    BY BatchTypes DEF DeliveryInv, Types, AggregateTypes, WorkerTypes
  <2>2. ASSUME NEW m \in Minutes, bucketIn[m] # None
        PROVE  \/ bucketIn[m] \in outbox /\ sent[bucketIn[m]].buckets[m] = local[m]
               \/ remote[m] = local[m]
    <3>1. bucketIn[m] \in 1 .. Len(sent)
      BY <2>1, <2>2 DEF None
    <3>2. sent[bucketIn[m]].buckets[m] = local[m] /\ remote[m] <= local[m]
      BY <2>2 DEF DeliveryInv, MarksCarry, NeverAhead
    <3>3. bucketIn[m] \in outbox \/ sent[bucketIn[m]].buckets[m] <= remote[m]
      BY <3>1 DEF DeliveryInv, SentIsApplied, Within
    <3> QED BY <2>1, <3>2, <3>3
  <2>3. ASSUME NEW a \in seen, actorIn[a] # None
        PROVE  actorIn[a] \in outbox \/ a \in members
    <3>1. actorIn[a] \in 1 .. Len(sent) /\ a \in Actors
      BY <2>1, <2>3 DEF None
    <3>2. a \in sent[actorIn[a]].actors
      BY <2>3, <3>1 DEF DeliveryInv, MarksCarry
    <3> QED BY <3>1, <3>2 DEF DeliveryInv, SentIsApplied, Within
  <2> QED BY <2>2, <2>3 DEF NothingLost
<1> QED BY <1>1, DeliveryInvariant, PTL

-----------------------------------------------------------------------------
(* Charges and refunds. *)

(* The invariant of the rate window. *)
HoldersInv == HoldersHold /\ RefundsOwnCharge

(* The charges that are held can be counted. *)
LEMMA HoldersAreFinite ==
  /\ IsFiniteSet(Holders) /\ Cardinality(Holders) \in Nat
  /\ \A S \in SUBSET Holders : IsFiniteSet(S) /\ Cardinality(S) \in Nat
                               /\ Cardinality(S) <= Cardinality(Holders)
  /\ \A r \in Requests : r \notin Holders => Cardinality(Holders \cup {r}) = Cardinality(Holders) + 1
  /\ \A r \in Holders : Cardinality(Holders \ {r}) = Cardinality(Holders) - 1
<1>1. IsFiniteSet(Holders)
  BY ConstantsAssumption, FS_Subset DEF Holders
<1>2. Cardinality(Holders) \in Nat
  BY <1>1, FS_CardinalityType
<1>3. ASSUME NEW S \in SUBSET Holders
      PROVE  IsFiniteSet(S) /\ Cardinality(S) \in Nat /\ Cardinality(S) <= Cardinality(Holders)
  <2>1. IsFiniteSet(S) /\ Cardinality(S) <= Cardinality(Holders)
    BY <1>1, FS_Subset
  <2> QED BY <2>1, FS_CardinalityType
<1>4. \A r \in Requests : r \notin Holders => Cardinality(Holders \cup {r}) = Cardinality(Holders) + 1
  BY <1>1, FS_AddElement
<1>5. \A r \in Holders : Cardinality(Holders \ {r}) = Cardinality(Holders) - 1
  BY <1>1, FS_RemoveElement
<1> QED BY <1>1, <1>2, <1>3, <1>4, <1>5

(* A charge is taken together with its hold, and given back with it; all   *)
(* other steps move requests without a hold or end holds.                  *)
LEMMA HoldersStep ==
  ASSUME Types, HoldersInv, [Next]_vars
  PROVE  HoldersInv'
<1>1. rate \in Nat /\ request \in [Requests -> Request]
  BY DEF Types, WorkerTypes
<1>2. rate >= Cardinality(Holders) /\ Cardinality(Holders) \in Nat
      /\ \A r \in Holders : request[r].at \in Holding
  BY HoldersAreFinite DEF HoldersInv, HoldersHold, RefundsOwnCharge, Holders
<1> DEFINE H == {r \in Requests : request'[r].held}
           C == (\A r \in H : request'[r].at \in Holding) /\ rate' >= Cardinality(H)
<1>3. C => HoldersInv'
  BY DEF HoldersInv, HoldersHold, RefundsOwnCharge, Holders
<1> HIDE DEF H
<1>4. ASSUME H \subseteq Holders, rate' = rate PROVE rate' >= Cardinality(H)
  <2>1. Cardinality(H) \in Nat /\ Cardinality(H) <= Cardinality(Holders)
    BY <1>4, HoldersAreFinite
  <2> QED BY <1>1, <1>2, <1>4, <2>1
<1>5. ASSUME \A r \in Requests : request'[r] = request[r] \/ ~request'[r].held, rate' = rate
      PROVE  C
  <2>1. \A r \in H : r \in Holders /\ request'[r] = request[r]
    BY <1>5 DEF H, Holders
  <2> QED BY <1>2, <1>4, <1>5, <2>1
<1>6. ASSUME NEW r \in Requests, \A q \in Requests \ {r} : request'[q] = request[q],
             rate' = rate, request'[r].held => request[r].held /\ request'[r].at \in Holding
      PROVE  C
  <2>1. \A q \in H : q \in Holders /\ request'[q].at \in Holding
    BY <1>2, <1>6 DEF H, Holders
  <2> QED BY <1>4, <1>6, <2>1
<1>7. ASSUME UNCHANGED <<request, rate>> PROVE C
  BY <1>5, <1>7
<1>8. CASE \/ Tick \/ StartDrain \/ PostFails \/ Timeout \/ Crash \/ Restart \/ RepairDaily
           \/ (\E b \in Batches : BackoffElapses(b) \/ Expire(b)) \/ UNCHANGED vars
           \/ (\E m \in Minutes, a \in Actors : RecordAction(m, a))
           \/ (\E snapshot \in BOOLEAN : Enqueue(snapshot))
  BY <1>3, <1>7, <1>8 DEF Tick, StartDrain, PostFails, Timeout, Crash, Restart, RepairDaily,
              BackoffElapses, Expire, RecordAction, Enqueue, vars
<1>9. ASSUME NEW r \in Requests, Post(r) PROVE C
  <2>1. \A q \in Requests : request'[q] = request[q] \/ ~request'[q].held
    BY <1>1, <1>9 DEF Post, Free
  <2> QED BY <1>5, <1>9, <2>1 DEF Post
<1>10. ASSUME NewWindow PROVE C
  <2>1. H = {}
    BY <1>1, <1>10 DEF H, NewWindow, Request
  <2>2. Cardinality(H) = 0
    BY <2>1, FS_EmptySet
  <2> QED BY <1>10, <2>1, <2>2 DEF NewWindow
<1>11. ASSUME NEW r \in Requests, Handling(r) PROVE C
  <2>0. /\ request[r] \in Request
        /\ request[r].held => request[r].at \in Holding
        /\ r \in Holders <=> request[r].held
    BY <1>1, <1>2 DEF Holders
  <2>1. \A q \in Requests \ {r} : request'[q] = request[q]
    BY <1>1, <1>11, HandlerSteps DEF Moves, Answer
  <2>2. ASSUME NEW ok \in BOOLEAN, Answer(r, ok)
        PROVE  ~request'[r].held
    BY <1>1, <2>2 DEF Answer, Free
  <2>3. ASSUME NEW from, NEW to, Go(r, from, to)
        PROVE  request[r].at = from /\ request'[r].at = to /\ request'[r].held = request[r].held
    BY <1>1, <2>3 DEF Go, Request
  <2>4. ASSUME LookUp(r) PROVE C
    BY <1>6, <2>0, <2>1, <2>3, <2>4 DEF LookUp, Holding
  <2>5. ASSUME LookUpAgain(r) PROVE C
    BY <1>6, <2>0, <2>1, <2>2, <2>3, <2>5 DEF LookUpAgain, Holding
  <2>6. ASSUME SelectExisting(r) PROVE C
    BY <1>6, <2>0, <2>1, <2>3, <2>6 DEF SelectExisting, Holding
  <2>7. ASSUME PersistConflicts(r) PROVE C
    BY <1>6, <2>0, <2>1, <2>3, <2>7 DEF PersistConflicts, Holding
  <2>8. ASSUME NEW committed \in BOOLEAN, PersistFails(r, committed) PROVE C
    BY <1>6, <2>0, <2>1, <2>3, <2>8 DEF PersistFails, Holding
  <2>9. ASSUME Recheck(r) PROVE C
    BY <1>6, <2>0, <2>1, <2>3, <2>9 DEF Recheck, Holding
  <2>10. ASSUME Persist(r) PROVE C
    <3>1. ~request'[r].held
      BY <1>1, <2>0, <2>10 DEF Persist, Request
    <3> QED BY <1>6, <2>1, <2>10, <3>1 DEF Persist
  <2>11. ASSUME Publish(r) \/ HandlerFails(r) PROVE C
    BY <1>6, <2>1, <2>2, <2>11 DEF Publish, HandlerFails
  <2>12. ASSUME CheckRateLimit(r) PROVE C
    <3>1. /\ request[r].at = "unknown"
          /\ request'[r].held = UnderLimit
          /\ request'[r].at = IF UnderLimit THEN "charged" ELSE "limited"
          /\ rate' = IF UnderLimit THEN rate + 1 ELSE rate
      BY <1>1, <2>0, <2>12 DEF CheckRateLimit, Request
    <3>2. r \notin Holders
      BY <2>0, <3>1 DEF Holding
    <3>3. CASE ~UnderLimit
      BY <1>6, <2>1, <3>1, <3>3
    <3>4. CASE UnderLimit
      <4>1. H = Holders \cup {r}
        BY <2>1, <3>1, <3>4 DEF H, Holders
      <4>2. Cardinality(H) = Cardinality(Holders) + 1
        BY <3>2, <4>1, HoldersAreFinite
      <4>3. \A q \in H : request'[q].at \in Holding
        BY <1>2, <2>1, <3>1, <3>4, <4>1 DEF Holding, H
      <4> QED BY <1>1, <1>2, <3>1, <3>4, <4>2, <4>3
    <3> QED BY <3>3, <3>4
  <2>13. ASSUME RefundDuplicate(r) \/ RefundError(r) PROVE C
    <3>1. ~request'[r].held /\ rate' = Refunded(r)
      <4>1. CASE RefundDuplicate(r)
        BY <1>1, <4>1 DEF RefundDuplicate, Request
      <4>2. CASE RefundError(r)
        BY <2>2, <4>2 DEF RefundError
      <4> QED BY <2>13, <4>1, <4>2
    <3>2. H = Holders \ {r}
      BY <2>1, <3>1 DEF H, Holders
    <3>3. \A q \in H : request'[q].at \in Holding
      BY <1>2, <2>1, <3>2 DEF H
    <3>4. CASE request[r].held
      <4>1. r \in Holders
        BY <2>0, <3>4
      <4>2. Cardinality(H) = Cardinality(Holders) - 1 /\ Cardinality(H) \in Nat
        BY <3>2, <4>1, HoldersAreFinite
      <4>3. rate > 0
        BY <1>1, <1>2, <4>2
      <4>4. rate' = rate - 1
        BY <3>1, <3>4, <4>3 DEF Refunded
      <4> QED BY <1>1, <1>2, <3>3, <4>2, <4>4
    <3>5. CASE ~request[r].held
      <4>1. rate' = rate /\ H \subseteq Holders
        BY <3>1, <3>2, <3>5 DEF Refunded
      <4> QED BY <1>4, <3>3, <4>1
    <3> QED BY <3>4, <3>5
  <2> QED
    BY <1>11, <2>4, <2>5, <2>6, <2>7, <2>8, <2>9, <2>10, <2>11, <2>12, <2>13
    DEF Handling, Handle
<1> QED
  BY <1>3, <1>8, <1>9, <1>10, <1>11 DEF Next, Handling

(* A refund never takes a charge that another request holds. *)
THEOREM RefundsAreOwn == Spec => []RefundsOwnCharge
<1>1. Init => Types /\ HoldersInv
  <2> SUFFICES ASSUME Init PROVE HoldersInv
    BY TypesStart
  <2>1. Holders = {}
    BY DEF Init, Holders, Free
  <2>2. Cardinality(Holders) = 0
    BY <2>1, FS_EmptySet
  <2> QED BY <2>1, <2>2 DEF Init, HoldersInv, HoldersHold, RefundsOwnCharge, Holders
<1>2. Types /\ HoldersInv /\ [Next]_vars => (Types /\ HoldersInv)'
  BY TypesStep, HoldersStep
<1> QED BY <1>1, <1>2, PTL DEF Spec, HoldersInv

-----------------------------------------------------------------------------
(* D1 is a replica. *)

(* Storing a batch is catching up, recording an action is counting. *)
LEMMA ReplicaStep ==
  ASSUME DeliveryInv, [Next]_vars
  PROVE  [Store!Next]_Store!vars
<1>1. Types /\ NeverAhead' /\ Types'
  BY TypesStep, NeverAheadStep DEF DeliveryInv
<1>2. /\ \A m \in Minutes : remote[m] <= remote'[m] /\ remote'[m] <= local'[m]
      /\ members \subseteq members' /\ members' \subseteq seen'
  BY <1>1, Grows DEF NeverAhead
<1>3. ASSUME NEW m \in Minutes, NEW a \in Actors, RecordAction(m, a) PROVE Store!Next
  BY <1>3 DEF RecordAction, stored, Store!Next, Store!Count
<1>4. ASSUME NEW snapshot \in BOOLEAN, Enqueue(snapshot) PROVE UNCHANGED Store!vars
  BY <1>4 DEF Enqueue, stored, Store!vars
<1>5. ASSUME NEW r \in Requests, Handling(r) PROVE Store!Next \/ UNCHANGED Store!vars
  <2>1. UNCHANGED <<local, seen, sent>> /\ (UNCHANGED stored \/ Apply(request[r].batch))
    BY <1>1, <1>5, HandlerSteps DEF aggregates
  <2>2. CASE UNCHANGED stored
    BY <2>1, <2>2 DEF stored, Store!vars
  <2>3. CASE Apply(request[r].batch)
    <3>1. request[r].batch \in 1 .. Len(sent)
      BY <1>1, <1>5, HandlerSteps DEF Types, WorkerTypes
    <3>2. latest <= latest'
      BY <1>1, <2>3, <3>1, ApplyTypes
    <3>3. Store!CatchUp
      BY <1>2, <2>1, <3>2 DEF Store!CatchUp
    <3> QED BY <3>3 DEF Store!Next
  <2> QED BY <2>1, <2>2, <2>3
<1>6. ASSUME Bystanding PROVE UNCHANGED Store!vars
  BY <1>6 DEF Bystanding, Store!vars
<1> QED BY <1>1, <1>3, <1>4, <1>5, <1>6, StepKinds

(* Delivery implements the replica. *)
THEOREM DeliveryRefinesReplica == Spec => ImplementsReplica
<1>1. Init => Store!Init
  BY DEF Init, Store!Init, None
<1>2. DeliveryInv /\ [Next]_vars => [Store!Next]_Store!vars
  BY ReplicaStep
<1> QED BY <1>1, <1>2, DeliveryInvariant, PTL DEF Spec, ImplementsReplica, Store!Spec
=============================================================================
