------------------------------ MODULE LiveOutbox ----------------------------
(***************************************************************************)
(* The live_delivery_outbox table of D1 and the drains that publish its    *)
(* rows to the LiveRoom (drainLiveDeliveryOutbox, publishAcceptedBatch,    *)
(* pendingLiveDeliveries): a drain selects rows, leases them one by one,   *)
(* publishes each row's pulses, status and snapshot in that order, and     *)
(* marks it.  Drains run in every ingest request and every minute, side by *)
(* side, and each D1 statement and each call of the room is a step.  A      *)
(* row's pulses are one call: they are sent together, and the first that   *)
(* fails ends the drain while others may still be on their way.            *)
(*                                                                         *)
(* A drain compares leases with the time it started at; the model compares *)
(* with the current one, which lets a drain claim a little earlier.        *)
(***************************************************************************)
EXTENDS Naturals, FiniteSets, SequencesExt

CONSTANTS
  Rows,         \* accepted batches
  Invalid,      \* rows whose stored payload the current schema rejects
  Kinds,        \* what a row consists of, in the order it is published in:
                \* pulses, status and snapshot, each where the batch has it
  Drains,       \* drains that may run at once
  Limit,        \* rows a drain selects (20)
  MaxFailures   \* bound: failing calls of D1 or of the room, Workers that die
                \* in a drain, and leases that end while their drain runs

ASSUME ConstantsAssumption ==
  /\ Invalid \subseteq Rows
  /\ Kinds \in Seq({"pulse", "status", "snapshot"}) /\ IsInjective(Kinds)
  /\ Limit \in Nat \ {0} /\ MaxFailures \in Nat

Kind == ToSet(Kinds)
NoDrain == "none"

ASSUME DrainsAssumption == NoDrain \notin Drains

VARIABLES
  stored,      \* rows in the order of created_at_ms
  published,   \* rows with published_at_ms
  lease,       \* lease_token: the drain that took it
  lapsed,      \* rows whose lease_until_ms is past
  stale,       \* rows whose pulses are older than two minutes
  drain,       \* the state of each drain
  room,        \* what has become of each delivery at the LiveRoom
  failed       \* failures so far, of each kind

table == <<stored, published, lease, lapsed, stale>>
vars == <<table, drain, room, failed>>

(* A drain: rows selected and not claimed yet, rows claimed and not        *)
(* published yet, and the position in Kinds of what it publishes next.     *)
Stopped == [selected |-> {}, claimed |-> <<>>, part |-> 1]

Init ==
  /\ stored = <<>> /\ published = {} /\ lapsed = {} /\ stale = {}
  /\ lease = [r \in Rows |-> NoDrain]
  /\ drain = [d \in Drains |-> Stopped]
  /\ room = [r \in Rows |-> [k \in Kind |-> "new"]]
  /\ failed = [faults |-> 0, deaths |-> 0, overruns |-> 0]

Count(kind) ==
  /\ failed.faults + failed.deaths + failed.overruns < MaxFailures
  /\ failed' = [failed EXCEPT ![kind] = @ + 1]

Pending(r) == r \in ToSet(stored) /\ r \notin published

(* Mutant: only rows that were never leased, or were released. *)
AvailableUnleased(r) == Pending(r) /\ lease[r] = NoDrain

(* The row waits and no drain holds a lease on it. *)
Available(r) == Pending(r) /\ (lease[r] = NoDrain \/ r \in lapsed)

-----------------------------------------------------------------------------
(* persistBatch stores the row with the batch. *)
Store(r) ==
  /\ r \notin ToSet(stored)
  /\ stored' = Append(stored, r)
  /\ UNCHANGED <<published, lease, lapsed, stale, drain, room, failed>>

(* The row's pulses are not fresh any more. *)
Age(r) ==
  /\ Pending(r)
  /\ r \notin stale
  /\ stale' = stale \cup {r}
  /\ UNCHANGED <<stored, published, lease, lapsed, drain, room, failed>>

(* The lease's 30 seconds are over; normally its drain is, too. *)
Lapse(r) ==
  /\ lease[r] # NoDrain
  /\ r \notin lapsed
  /\ IF r \in ToSet(drain[lease[r]].claimed)
     THEN Count("overruns")
     ELSE UNCHANGED failed
  /\ lapsed' = lapsed \cup {r}
  /\ UNCHANGED <<stored, published, lease, stale, drain, room>>

(* A call that its drain did not wait for arrives at the room. *)
Arrives(r, k) ==
  /\ room[r][k] = "sent"
  /\ room' = [room EXCEPT ![r][k] = "processing"]
  /\ UNCHANGED <<table, drain, failed>>

(* The room completes a delivery that it is processing; or it died while   *)
(* it did, and the delivery can be claimed again.                          *)
RoomRecovers(r, k) ==
  /\ room[r][k] = "processing"
  /\ \E after \in {"new", "delivered"} : room' = [room EXCEPT ![r][k] = after]
  /\ UNCHANGED <<table, drain, failed>>

-----------------------------------------------------------------------------
(* Claiming. *)

(* ORDER BY created_at_ms *)
Older(q, r) == \E i, k \in DOMAIN stored : i < k /\ stored[i] = q /\ stored[k] = r

(* The Limit oldest available rows.  Invalid ones are among them. *)
Selected ==
  LET rows == {r \in Rows : Available(r)}
  IN  {r \in rows : Cardinality({q \in rows : Older(q, r)}) < Limit}

StartDrain(d) ==
  /\ drain[d] = Stopped
  /\ Selected # {}
  /\ drain' = [drain EXCEPT ![d].selected = Selected \ Invalid]
  /\ UNCHANGED <<table, room, failed>>

(* The row that d claims next: the oldest that it has selected. *)
Claiming(d, r) ==
  /\ r \in drain[d].selected
  /\ \A q \in drain[d].selected : ~Older(q, r)

(* The guarded UPDATE changes the row. *)
Claimable(r) == Available(r)

(* The next selected row is claimed, unless another drain was faster. *)
Claim(d) ==
  \E r \in Rows :
    /\ Claiming(d, r)
    /\ IF Claimable(r)
       THEN /\ lease' = [lease EXCEPT ![r] = d]
            /\ lapsed' = lapsed \ {r}
            /\ drain' = [drain EXCEPT ![d].selected = @ \ {r}, ![d].claimed = Append(@, r)]
       ELSE /\ drain' = [drain EXCEPT ![d].selected = @ \ {r}]
            /\ UNCHANGED <<lease, lapsed>>
    /\ UNCHANGED <<stored, published, stale, room, failed>>

(* The UPDATE is reported as failed, although it may have been made: the   *)
(* row is passed over.                                                     *)
ClaimFails(d) ==
  \E r \in Rows :
    /\ Claiming(d, r)
    /\ Count("faults")
    /\ drain' = [drain EXCEPT ![d].selected = @ \ {r}]
    /\ \/ UNCHANGED <<lease, lapsed>>
       \/ Claimable(r) /\ lease' = [lease EXCEPT ![r] = d] /\ lapsed' = lapsed \ {r}
    /\ UNCHANGED <<stored, published, stale, room>>

-----------------------------------------------------------------------------
(* Publication. *)

(* d publishes row r. *)
Publishing(d, r) ==
  /\ drain[d].selected = {}
  /\ drain[d].claimed # <<>>
  /\ r = Head(drain[d].claimed)

(* Pulses that are too old are not sent. *)
Skipped(d, r) == Kinds[drain[d].part] = "pulse" /\ r \in stale

Part(d) == drain[d].part <= Len(Kinds)

(* Mutant: the answer is not looked at. *)
AnsweredAnyway(r, k) == TRUE

(* The room's answer is ok: the delivery is new to it, or a duplicate.  A  *)
(* delivery in progress is refused.                                        *)
Answered(r, k) == room[r][k] # "processing"

(* d publishes the next part of r. *)
Publish(d) ==
  \E r \in Rows :
    /\ Publishing(d, r)
    /\ Part(d)
    /\ drain' = [drain EXCEPT ![d].part = @ + 1]
    /\ IF Skipped(d, r)
       THEN UNCHANGED room
       ELSE LET k == Kinds[drain[d].part]
            IN  /\ Answered(r, k)
                /\ room' = [room EXCEPT ![r][k] = IF @ = "processing" THEN @ ELSE "delivered"]
    /\ UNCHANGED <<table, failed>>

(* Mutant: the token is not compared. *)
OwnsAny(d, r) == Pending(r)

(* r's lease token is d's. *)
Owns(d, r) == Pending(r) /\ lease[r] = d

(* markLiveDeliveryPublished; the drain goes on with its next row. *)
Mark(d) ==
  \E r \in Rows :
    /\ Publishing(d, r)
    /\ ~Part(d)
    /\ IF Owns(d, r)
       THEN /\ published' = published \cup {r}
            /\ lease' = [lease EXCEPT ![r] = NoDrain]
            /\ lapsed' = lapsed \ {r}
       ELSE UNCHANGED <<published, lease, lapsed>>
    /\ drain' = [drain EXCEPT ![d].claimed = Tail(@), ![d].part = 1]
    /\ UNCHANGED <<stored, stale, room, failed>>

(* releaseLiveDeliveryLease; the drain ends, and the rows it claimed after *)
(* r keep their leases.                                                    *)
Release(d, r) ==
  /\ IF Owns(d, r)
     THEN lease' = [lease EXCEPT ![r] = NoDrain] /\ lapsed' = lapsed \ {r}
     ELSE UNCHANGED <<lease, lapsed>>
  /\ drain' = [drain EXCEPT ![d] = Stopped]
  /\ UNCHANGED <<stored, published, stale>>

(* The room refuses a delivery in progress. *)
Refused(d) ==
  \E r \in Rows :
    /\ Publishing(d, r)
    /\ Part(d)
    /\ ~Skipped(d, r)
    /\ ~Answered(r, Kinds[drain[d].part])
    /\ Release(d, r)
    /\ UNCHANGED <<room, failed>>

(* d is about to call the room for r, or waits for the answer. *)
Calling(d, r) == Publishing(d, r) /\ Part(d) /\ ~Skipped(d, r)

(* d does not wait any longer: the call never arrives, or does so later.   *)
GivesUp(d, r) ==
  /\ Calling(d, r)
  /\ room' = [room EXCEPT ![r][Kinds[drain[d].part]] = IF @ = "new" THEN "sent" ELSE @]

(* The call of the room fails. *)
PublishFails(d) ==
  \E r \in Rows :
    /\ GivesUp(d, r)
    /\ Count("faults")
    /\ Release(d, r)

(* Marking is reported as failed before it was made. *)
MarkFails(d) ==
  \E r \in Rows :
    /\ Publishing(d, r)
    /\ ~Part(d)
    /\ Count("faults")
    /\ Release(d, r)
    /\ UNCHANGED room

(* The Worker dies, or its release fails. *)
Dies(d) ==
  /\ drain[d] # Stopped
  /\ Count("deaths")
  /\ drain' = [drain EXCEPT ![d] = Stopped]
  /\ \/ \E r \in Rows : GivesUp(d, r)
     \/ (\A r \in Rows : ~Calling(d, r)) /\ UNCHANGED room
  /\ UNCHANGED table

-----------------------------------------------------------------------------
Next ==
  \/ \E r \in Rows : Store(r)
  \/ \E r \in Rows : Age(r)
  \/ \E r \in Rows : Lapse(r)
  \/ \E r \in Rows, k \in Kind : Arrives(r, k)
  \/ \E r \in Rows, k \in Kind : RoomRecovers(r, k)
  \/ \E d \in Drains : StartDrain(d)
  \/ \E d \in Drains : Claim(d)
  \/ \E d \in Drains : ClaimFails(d)
  \/ \E d \in Drains : Publish(d)
  \/ \E d \in Drains : Mark(d)
  \/ \E d \in Drains : Refused(d)
  \/ \E d \in Drains : PublishFails(d)
  \/ \E d \in Drains : MarkFails(d)
  \/ \E d \in Drains : Dies(d)

Spec == Init /\ [][Next]_vars

(* The minute cron drains again and again, and a drain that runs goes on;   *)
(* leases end; the room completes a delivery, or gives it up.              *)
Fairness ==
  /\ \A d \in Drains :
       WF_vars(StartDrain(d) \/ Claim(d) \/ Publish(d) \/ Mark(d) \/ Refused(d))
  /\ \A r \in Rows : WF_vars(Lapse(r))
  /\ WF_vars(\E r \in Rows, k \in Kind : RoomRecovers(r, k))

FairSpec == Spec /\ Fairness

-----------------------------------------------------------------------------
(* The state is well typed. *)
TypeOK ==
  /\ stored \in Seq(Rows) /\ IsInjective(stored)
  /\ published \subseteq ToSet(stored) /\ stale \subseteq ToSet(stored)
  /\ lease \in [Rows -> Drains \cup {NoDrain}]
  /\ \A r \in lapsed : lease[r] # NoDrain
  /\ \A d \in Drains : /\ drain[d].selected \subseteq Rows \ Invalid
                       /\ drain[d].claimed \in Seq(Rows \ Invalid)
                       /\ drain[d].part \in 1..Len(Kinds) + 1
  /\ room \in [Rows -> [Kind -> {"new", "sent", "processing", "delivered"}]]

(* A row marked as published is forgotten: the room has delivered its      *)
(* status and its snapshot, and its pulses unless they were too old,       *)
(* whatever failed or was done twice on the way.                           *)
PublishedWasDelivered ==
  \A r \in published, k \in Kind :
    room[r][k] = "delivered" \/ (k = "pulse" /\ r \in stale)

(* A lease is honoured: only one drain holds a row at a time, unless a     *)
(* drain outlives its leases ("leases each pending outbox row to only one  *)
(* concurrent drain", index.worker.test.ts); and a lease that has not      *)
(* ended is given up by its own drain only, so that a drain that lost its  *)
(* lease cannot release or mark the row under the next holder.  Calls that *)
(* a drain left on their way are not its any more: they may arrive while   *)
(* the next holder publishes, and the room tells them from new ones.       *)
LeaseHonoured ==
  /\ [](\A r \in Rows :
          Cardinality({d \in Drains : r \in ToSet(drain[d].claimed)}) <= 1 + failed.overruns)
  /\ [][\A r \in Rows :
          lease[r] # NoDrain /\ r \notin lapsed /\ lease'[r] # lease[r]
          => drain'[lease[r]] # drain[lease[r]]]_vars

(* Every stored row is published in the end, although a failing row takes  *)
(* the rows claimed behind it out for the rest of their lease, and while   *)
(* fewer than Limit rows are invalid.                                      *)
EventuallyPublished == \A r \in Rows \ Invalid : Pending(r) ~> r \in published
=============================================================================
