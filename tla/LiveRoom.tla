------------------------------ MODULE LiveRoom -------------------------------
(***************************************************************************)
(* The LiveRoom Durable Object and the browsers connected to it: claims on *)
(* delivery ids, coalescing, envelope sequences, one-time admissions and   *)
(* hydration (live-room.ts, handleLive), and what a browser shows          *)
(* (useLiveMetrics).  Publications arrive from any number of drains, again *)
(* whenever they were not answered.                                        *)
(*                                                                         *)
(* The runtime delivers no other event to the object while it awaits its   *)
(* storage, so a handler is one step up to the next other await; a crash   *)
(* may still come between two writes.  All pulses are of one source, what  *)
(* a snapshot says does not matter, and a status goes its way.  A browser  *)
(* is one run of the hook's effect.                                        *)
(***************************************************************************)
EXTENDS Naturals, FiniteSets, SequencesExt

CONSTANTS
  Pulses,       \* delivery ids of pulses
  Snapshots,    \* delivery ids of snapshots
  Requests,     \* publish requests the object may be handling at once
  Browsers,     \* browsers
  SeenLimit,    \* delivery ids a browser remembers (2048)
  MaxClock,     \* bound: values of Date.now() * 1000, in sequence numbers
  MaxCrashes,   \* bound: crashes and hibernations of the object
  MaxLapses,    \* bound: claims that outlive their lease
  MaxDrops      \* bound: sockets that close

Deliveries == Pulses \cup Snapshots
NoDelivery == "none"

ASSUME ConstantsAssumption ==
  /\ Pulses \cap Snapshots = {} /\ NoDelivery \notin Deliveries
  /\ {SeenLimit, MaxClock, MaxCrashes, MaxLapses, MaxDrops} \subseteq Nat
  /\ SeenLimit > 0

VARIABLES
  clock,      \* Date.now() * 1000
  request,    \* publish requests: the pulse each one waits for
  claim,      \* storage: DeliveryRecord of each delivery
  stored,     \* storage: the sequence of the stored state
  sequence,   \* memory: #sequence
  pending,    \* memory: delivery ids of the pulses being coalesced
  admission,  \* storage: each browser's admission; whether its socket is open
  channel,    \* envelopes on the way to each browser's socket
  lastSeq,    \* browser: sequenceRef, 0 before the first envelope
  seen,       \* browser: deliveryIdsRef, oldest first
  shown,      \* browser: how often each delivery was shown
  aired,      \* history: deliveries that were broadcast
  owed,       \* history: pulses sent to each browser's socket and not lost with it
  spent       \* how much of each bound is used

room == <<request, claim, stored, sequence, pending>>
browser == <<lastSeq, seen, shown>>
history == <<aired, owed>>
vars == <<clock, room, admission, channel, browser, history, spent>>

Idle == [id |-> NoDelivery, done |-> FALSE]
Offline == <<>>
Closed == "closed"

Init ==
  /\ clock = 1
  /\ request = [q \in Requests |-> Idle]
  /\ claim = [d \in Deliveries |-> "new"]
  /\ stored = 0 /\ sequence = 0 /\ pending = <<>>
  /\ admission = [b \in Browsers |-> Closed]
  /\ channel = [b \in Browsers |-> Offline]
  /\ lastSeq = [b \in Browsers |-> 0]
  /\ seen = [b \in Browsers |-> <<>>]
  /\ shown = [b \in Browsers |-> [d \in Deliveries |-> 0]]
  /\ aired = {}
  /\ owed = [b \in Browsers |-> {}]
  /\ spent = [crashes |-> 0, lapses |-> 0, drops |-> 0]

(* Part of a bound is used. *)
Spend(kind, max) ==
  /\ spent[kind] < max
  /\ spent' = [spent EXCEPT ![kind] = @ + 1]

(* The sockets that getWebSockets("public") returns. *)
Open == {b \in Browsers : admission[b] = "open"}

-----------------------------------------------------------------------------
(* The surroundings. *)

(* Time passes. *)
Tick ==
  /\ clock < MaxClock
  /\ clock' = clock + 1
  /\ UNCHANGED <<room, admission, channel, browser, history, spent>>

-----------------------------------------------------------------------------
(* Publication. *)

(* #envelope: the sequence grows with the clock, and always by one. *)
NextSequence == IF clock > sequence + 1 THEN clock ELSE sequence + 1

(* Mutant: the state is not persisted. *)
PersistedNever == stored

(* #persist *)
Persisted == sequence'

(* The envelope is numbered, the state persisted, and every open socket is *)
(* sent it.                                                                *)
Broadcast(ids) ==
  /\ sequence' = NextSequence
  /\ stored' = Persisted
  /\ channel' = [b \in Browsers |->
                   IF b \in Open
                   THEN Append(channel[b], [seq |-> sequence', ids |-> ids])
                   ELSE channel[b]]
  /\ aired' = aired \cup ToSet(ids)
  /\ owed' = [b \in Browsers |-> IF b \in Open THEN owed[b] \cup (ToSet(ids) \cap Pulses)
                                 ELSE owed[b]]

(* Mutant: a delivered record is claimed again. *)
ClaimableAgain(d) == claim[d] \in {"new", "lapsed", "delivered"}

(* #claimDelivery accepts d: it is new, or its claim lapsed undelivered.   *)
(* Otherwise the request is answered as a duplicate or as busy.            *)
Claimable(d) == claim[d] \in {"new", "lapsed"}

(* A snapshot is claimed, broadcast and completed. *)
PublishSnapshot(d) ==
  /\ Claimable(d)
  /\ Broadcast(<<d>>)
  /\ claim' = [claim EXCEPT ![d] = "delivered"]
  /\ UNCHANGED <<clock, request, pending, admission, browser, spent>>

(* The object loses its memory and its sockets; requests are not answered. *)
Lost ==
  /\ request' = [q \in Requests |-> Idle]
  /\ pending' = <<>>
  /\ admission' = [b \in Browsers |-> IF b \in Open THEN Closed ELSE admission[b]]
  /\ channel' = [b \in Browsers |-> Offline]
  /\ UNCHANGED browser

(* What a browser was still to receive is lost with its socket. *)
StillOwed(owing) == [b \in Browsers |-> {d \in owing[b] : shown[b][d] > 0}]

(* The object dies while it publishes a snapshot: after the claim, or      *)
(* after the state was persisted.                                          *)
SnapshotCrash(d, persisted) ==
  /\ Claimable(d)
  /\ Spend("crashes", MaxCrashes)
  /\ claim' = [claim EXCEPT ![d] = "processing"]
  /\ sequence' = IF persisted THEN NextSequence ELSE stored
  /\ stored' = IF persisted THEN Persisted ELSE stored
  /\ owed' = StillOwed(owed)
  /\ Lost
  /\ UNCHANGED <<clock, aired>>

(* A pulse is claimed and joins the packet that is being coalesced. *)
PublishPulse(q, d) ==
  /\ request[q] = Idle
  /\ Claimable(d)
  /\ claim' = [claim EXCEPT ![d] = "processing"]
  /\ request' = [request EXCEPT ![q].id = d]
  /\ pending' = Append(pending, d)
  /\ UNCHANGED <<clock, stored, sequence, admission, channel, browser, history, spent>>

(* The coalescing timer fires: the packet is broadcast under all its ids   *)
(* and the requests that wait for it go on.                                *)
Flush ==
  /\ pending # <<>>
  /\ Broadcast(pending)
  /\ pending' = <<>>
  /\ request' = [q \in Requests |-> [request[q] EXCEPT !.done = request[q].id # NoDelivery]]
  /\ UNCHANGED <<clock, claim, admission, browser, spent>>

(* Mutant: a pulse is complete as soon as it is coalesced. *)
CompletableEarly(q) == request[q].id # NoDelivery

(* The packet of q's pulse was broadcast. *)
Completable(q) == request[q].done

(* #completeDelivery *)
Complete(q) ==
  /\ Completable(q)
  /\ claim' = [claim EXCEPT ![request[q].id] = "delivered"]
  /\ request' = [request EXCEPT ![q] = Idle]
  /\ UNCHANGED <<clock, stored, sequence, pending, admission, channel, browser,
                 history, spent>>

(* The lease of a claim ends before the delivery is complete: its request  *)
(* is gone, or the completion is slow.  The coalescing timer fires well    *)
(* before a lease ends.                                                    *)
Lapse(d) ==
  /\ claim[d] = "processing"
  /\ \A i \in DOMAIN pending : pending[i] # d
  /\ \/ (\A q \in Requests : request[q].id # d) /\ UNCHANGED spent
     \/ (\E q \in Requests : request[q].id = d) /\ Spend("lapses", MaxLapses)
  /\ claim' = [claim EXCEPT ![d] = "lapsed"]
  /\ UNCHANGED <<clock, request, stored, sequence, pending, admission, channel,
                 browser, history>>

(* The object dies between two events, or before a packet is sent although *)
(* its sequence was persisted.                                             *)
Crash ==
  /\ Spend("crashes", MaxCrashes)
  /\ stored' \in {stored} \cup (IF pending = <<>> THEN {} ELSE {NextSequence})
  /\ sequence' = stored'
  /\ owed' = StillOwed(owed)
  /\ Lost
  /\ UNCHANGED <<clock, claim, aired>>

(* An object with nothing to do is evicted: its sockets survive. *)
Hibernate ==
  /\ \A q \in Requests : request[q] = Idle
  /\ Spend("crashes", MaxCrashes)
  /\ sequence' = stored
  /\ UNCHANGED <<clock, request, claim, stored, pending, admission, channel,
                 browser, history>>

-----------------------------------------------------------------------------
(* Connection. *)

(* The object admits b; a browser that opens a new socket drops the old    *)
(* one and what it had not delivered.                                      *)
Admit(b) ==
  /\ admission[b] = Closed
  /\ admission' = [admission EXCEPT ![b] = "admitted"]
  /\ UNCHANGED <<clock, room, channel, browser, history, spent>>

(* The Worker reads the summary and hydrates the admission with it. *)
Hydrate(b) ==
  /\ admission[b] = "admitted"
  /\ admission' = [admission EXCEPT ![b] = "hydrated"]
  /\ UNCHANGED <<clock, room, channel, browser, history, spent>>

(* The admission expires, or the Worker invalidates it. *)
Refuse(b) ==
  /\ admission[b] \in {"admitted", "hydrated"}
  /\ Spend("drops", MaxDrops)
  /\ admission' = [admission EXCEPT ![b] = Closed]
  /\ UNCHANGED <<clock, room, channel, browser, history>>

(* The socket is accepted and sent the snapshot of its admission, under    *)
(* the current sequence.                                                   *)
Upgrade(b) ==
  /\ admission[b] = "hydrated"
  /\ admission' = [admission EXCEPT ![b] = "open"]
  /\ channel' = [channel EXCEPT ![b] = <<[seq |-> sequence, ids |-> <<>>]>>]
  /\ lastSeq' = [lastSeq EXCEPT ![b] = 0]
  /\ UNCHANGED <<clock, room, seen, shown, aired, owed, spent>>

(* The socket closes; the browser will connect again. *)
Disconnect(b) ==
  /\ b \in Open
  /\ Spend("drops", MaxDrops)
  /\ admission' = [admission EXCEPT ![b] = Closed]
  /\ channel' = [channel EXCEPT ![b] = Offline]
  /\ owed' = [owed EXCEPT ![b] = {d \in @ : shown[b][d] > 0}]
  /\ UNCHANGED <<clock, room, browser, aired>>

-----------------------------------------------------------------------------
(* The browser. *)

(* Mutant: delivery ids are not looked at. *)
DuplicateNever(b, envelope) == FALSE

(* An id of the envelope was seen before. *)
Duplicate(b, envelope) == ToSet(envelope.ids) \cap ToSet(seen[b]) # {}

(* The last SeenLimit elements of s. *)
Remembered(s) == IF Len(s) <= SeenLimit THEN s ELSE SubSeq(s, Len(s) - SeenLimit + 1, Len(s))

(* The sequence is larger than the socket's last one. *)
InSequence(b, envelope) == envelope.seq >= lastSeq[b]

(* A message arrives: one with an old sequence, or with an id that was     *)
(* seen, is dropped as a whole.  lastSeq is one more than sequenceRef.     *)
Receive(b) ==
  /\ channel[b] # <<>>
  /\ channel' = [channel EXCEPT ![b] = Tail(@)]
  /\ LET envelope == Head(channel[b])
     IN  IF InSequence(b, envelope) /\ ~Duplicate(b, envelope)
         THEN /\ lastSeq' = [lastSeq EXCEPT ![b] = envelope.seq + 1]
              /\ seen' = [seen EXCEPT ![b] = Remembered(@ \o envelope.ids)]
              /\ shown' = [shown EXCEPT ![b] = [d \in Deliveries |->
                             @[d] + Cardinality({i \in DOMAIN envelope.ids : envelope.ids[i] = d})]]
         ELSE UNCHANGED browser
  /\ UNCHANGED <<clock, room, admission, history, spent>>

-----------------------------------------------------------------------------
Next ==
  \/ Tick
  \/ \E d \in Snapshots : PublishSnapshot(d)
  \/ \E d \in Snapshots, persisted \in BOOLEAN : SnapshotCrash(d, persisted)
  \/ \E q \in Requests, d \in Pulses : PublishPulse(q, d)
  \/ Flush
  \/ \E q \in Requests : Complete(q)
  \/ \E d \in Deliveries : Lapse(d)
  \/ Crash
  \/ Hibernate
  \/ \E b \in Browsers : Admit(b)
  \/ \E b \in Browsers : Hydrate(b)
  \/ \E b \in Browsers : Refuse(b)
  \/ \E b \in Browsers : Upgrade(b)
  \/ \E b \in Browsers : Disconnect(b)
  \/ \E b \in Browsers : Receive(b)

Spec == Init /\ [][Next]_vars

-----------------------------------------------------------------------------
(* The state is well typed. *)
TypeOK ==
  /\ clock \in Nat
  /\ \A q \in Requests : request[q].id \in Pulses \cup {NoDelivery}
  /\ claim \in [Deliveries -> {"new", "processing", "lapsed", "delivered"}]
  /\ stored \in Nat /\ sequence \in Nat
  /\ \A i \in DOMAIN pending : pending[i] \in Pulses
  /\ \A b \in Browsers :
       /\ admission[b] \in {Closed, "admitted", "hydrated", "open"}
       /\ channel[b] # Offline => admission[b] = "open"
       /\ Len(seen[b]) <= SeenLimit

(* However often a delivery is published again - after a crash of the     *)
(* object, a lapsed claim, a reconnection - a browser shows it once, and   *)
(* no packet it shows counts it twice.                                     *)
ShownOnce == \A b \in Browsers, d \in Deliveries : shown[b][d] <= 1

(* A delivery the room answers as done was broadcast: the drain that hears *)
(* "duplicate" forgets it for good.                                        *)
DeliveredWasAired == \A d \in Deliveries : claim[d] = "delivered" => d \in aired

(* Envelopes on one socket have increasing sequences, over hibernation of  *)
(* the object and a clock that stands still, so that a browser drops none  *)
(* of them as old.                                                         *)
SequencesIncrease ==
  \A b \in Browsers :
    /\ \A i, j \in DOMAIN channel[b] : i < j => channel[b][i].seq < channel[b][j].seq
    /\ \A i \in DOMAIN channel[b] : InSequence(b, channel[b][i])

(* A browser that has received everything sent to it has shown every pulse *)
(* that was sent: coalescing and the dropping of duplicates lose none, as  *)
(* long as the object did not die and no claim lapsed.  After that a pulse *)
(* that was shown may share a packet with one that was not.                *)
NothingDropped ==
  spent.crashes = 0 /\ spent.lapses = 0 =>
    \A b \in Browsers : channel[b] = Offline =>
      \A d \in owed[b] : shown[b][d] > 0
=============================================================================
