------------------------------ MODULE ShardSync ------------------------------
(***************************************************************************)
(* The shard worker of the collector (CollectorRuntime.#runShard,          *)
(* #reconcileFixed and #handleEvent), the page walk it drives              *)
(* (reconcileEvents), the two SQLite operations it relies on (recordEvent, *)
(* checkpointCursor) and the one-shot backfill command, for one source and *)
(* one shard.                                                              *)
(*                                                                         *)
(* An event id is abstracted to its rank in the shard.  The JavaScript     *)
(* event loop makes the handling of one page, and of one live event,       *)
(* indivisible with respect to the other callbacks, but not with respect   *)
(* to an exception or to a crash: each event is its own transaction.       *)
(*                                                                         *)
(* Old is fixed while the code's cutoff moves with the clock: an event     *)
(* that grows old between two presentations behaves like one that never    *)
(* does when the first recorded it, and like one of Old when it did not.   *)
(***************************************************************************)
EXTENDS Naturals

CONSTANTS
  MaxEvent,      \* bound: events the source produces
  Actions,       \* ids whose event normalizes to an activity
  Old,           \* ids whose event is dated before the retention cutoff
  PageSize,      \* events of a full GetEvents page
  Polling,       \* TRUE: Hypersnap HTTP polling; FALSE: gRPC stream, lossy
  MaxFaults,     \* bound: event handlers that throw
  MaxDrops,      \* bound: failed requests and ended streams
  MaxStops,      \* bound: crashes, shutdowns and endpoint switches
  MaxBackfills   \* bound: runs of the backfill command

ASSUME ConstantsAssumption ==
  /\ MaxEvent \in Nat
  /\ Actions \subseteq 1..MaxEvent
  /\ Old \subseteq 1..MaxEvent
  /\ PageSize \in Nat \ {0}
  /\ Polling \in BOOLEAN
  /\ {MaxFaults, MaxDrops, MaxStops, MaxBackfills} \subseteq Nat

VARIABLES
  head,         \* the source: newest event that exists
  dedupe,       \* SQLite: ids in event_dedupe
  tally,        \* SQLite: times an event was added to its minute bucket
  cursor,       \* SQLite: the shard's row of cursors, 0 when absent
  pc,           \* where the process and its shard worker are
  highestSeen,  \* newest id the session's callbacks have seen
  stream,       \* the subscription: up, and the next id it can deliver
  scan,         \* the page walk: inclusive start, exclusive stop, next id
  page,         \* the GetEvents answer not yet handled: ids lo..hi
  openHead,     \* history: the source's head when the session subscribed
  pulses,       \* history: live pulses emitted for each event
  spent         \* how much of each bound is used

durable == <<dedupe, tally, cursor>>
session == <<highestSeen, stream, scan, page, openHead>>
vars == <<head, durable, pc, session, pulses, spent>>

Ids == 1..MaxEvent
NoStop == 0
Closed == [up |-> FALSE, next |-> 0]
NoScan == [start |-> 0, stop |-> NoStop, pos |-> 0]
NoPage == [lo |-> 1, hi |-> 0, here |-> FALSE]

MaxOf(a, b) == IF a >= b THEN a ELSE b

(* States in which a page walk is under way. *)
Scanning == {"replay", "tail", "fixed", "backfill"}
(* States in which the worker holds a subscription. *)
InSession == {"opening", "replay", "tail", "live", "fixed"}
Places == Scanning \cup InSession \cup {"down", "idle", "failed"}

(* Mutant: live events pulse before the first replay is done. *)
CatchupNever == FALSE

(* The catchup flag of the live callback: cleared when the first replay is done. *)
Catchup == pc \notin {"live", "fixed"}

Init ==
  /\ head = 0
  /\ dedupe = {}
  /\ tally = [e \in Ids |-> 0]
  /\ cursor = 0
  /\ pc = "down"
  /\ highestSeen = 0
  /\ stream = Closed
  /\ scan = NoScan
  /\ page = NoPage
  /\ openHead = 0
  /\ pulses = [e \in Ids |-> 0]
  /\ spent = [faults |-> 0, drops |-> 0, stops |-> 0, backfills |-> 0]

-----------------------------------------------------------------------------
(* The database. *)

(* The ids that need no recording any more: recorded, or too old for it. *)
Settled == dedupe \cup Old

(* Mutant: an id in event_dedupe is counted again. *)
RecordAgain(S) ==
  /\ dedupe' = dedupe \cup (S \ Old)
  /\ tally' = [e \in Ids |->
                 IF e \in (S \ Old) \cap Actions THEN tally[e] + 1 ELSE tally[e]]

(* Mutant: an event is seen, but not added to its bucket. *)
RecordUncounted(S) == dedupe' = dedupe \cup (S \ Old) /\ tally' = tally

(* #handleEvent, once for each event of S: one dated before the retention  *)
(* cutoff is dropped; recordEvent changes nothing for an id already in     *)
(* event_dedupe, inserts a new one and counts it in its minute bucket.     *)
Record(S) ==
  /\ dedupe' = dedupe \cup (S \ Old)
  /\ tally' = [e \in Ids |->
                 IF e \in (S \ Settled) \cap Actions THEN tally[e] + 1 ELSE tally[e]]

(* checkpointCursor: never backwards. *)
Checkpoint(id) == MaxOf(cursor, id)

-----------------------------------------------------------------------------
(* The page walk. *)

(* Mutant: the walk resumes after the cursor. *)
WalkAfter(start, stop) == [start |-> start, stop |-> stop, pos |-> start + 1]

(* The walk that starts inclusively at id start and stops before id stop. *)
Walk(start, stop) == [start |-> start, stop |-> stop, pos |-> MaxOf(start, 1)]

(* The newest id a page that starts at id lo can hold. *)
PageEnd(lo, stop) ==
  LET limit == IF stop # NoStop /\ stop <= head THEN stop - 1 ELSE head
  IN  IF lo + PageSize - 1 <= limit THEN lo + PageSize - 1 ELSE MaxOf(limit, lo - 1)

(* The ids of the page in hand. *)
PageIds == page.lo..page.hi

(* lastEventId once the page is handled: the start while nothing was seen. *)
LastId == MaxOf(scan.start, page.hi)

(* Whether the walk asks for another page: a full page with a token left. *)
More ==
  /\ page.hi + 1 = page.lo + PageSize
  /\ scan.stop = NoStop \/ page.hi + 1 < scan.stop

(* highestSeen after the page: only the initial replay raises it. *)
SeenAfterPage ==
  IF pc = "replay" THEN MaxOf(highestSeen, page.hi) ELSE highestSeen

(* Mutant: a live event that raced ahead of the replay is checkpointed. *)
PageProgressSeen == SeenAfterPage

(* The id that onPageProgress checkpoints: replay progress only. *)
PageProgress == LastId

-----------------------------------------------------------------------------
(* The process and the session. *)

(* The worker leaves its session: the subscription is cancelled in the     *)
(* finally block and nothing of the session is kept.                       *)
LeaveSession(place) ==
  /\ pc' = place
  /\ highestSeen' = 0
  /\ stream' = Closed
  /\ scan' = NoScan
  /\ page' = NoPage
  /\ openHead' = 0

(* A session ends in an exception: the runtime backs off and retries, the  *)
(* backfill command exits.                                                 *)
Throw == LeaveSession(IF pc = "backfill" THEN "down" ELSE "failed")

(* Part of a bound is used. *)
Spend(kind, max) ==
  /\ spent[kind] < max
  /\ spent' = [spent EXCEPT ![kind] = @ + 1]

(* The source creates an event. *)
Produce ==
  /\ head < MaxEvent
  /\ head' = head + 1
  /\ UNCHANGED <<durable, pc, session, pulses, spent>>

(* The run command. *)
StartRun ==
  /\ pc = "down"
  /\ pc' = "idle"
  /\ UNCHANGED <<head, durable, session, pulses, spent>>

(* The backfill command walks the whole history from id 0. *)
StartBackfill ==
  /\ pc = "down"
  /\ Spend("backfills", MaxBackfills)
  /\ pc' = "backfill"
  /\ scan' = Walk(0, NoStop)
  /\ UNCHANGED <<head, durable, highestSeen, stream, page, openHead, pulses>>

(* A session reads the cursor and subscribes at the live head. *)
Subscribe ==
  /\ pc = "idle"
  /\ pc' = "opening"
  /\ highestSeen' = cursor
  /\ scan' = Walk(cursor, NoStop)
  /\ stream' = [up |-> TRUE, next |-> head + 1]
  /\ openHead' = head
  /\ UNCHANGED <<head, durable, page, pulses, spent>>

(* What the subscription can deliver next.  The HTTP client emits the head *)
(* it first polls and then every later id in order; the gRPC stream starts *)
(* after the head and a lagging receiver loses events.                     *)
Deliverable ==
  CASE Polling /\ pc = "opening" -> {head} \ {0}
    [] Polling /\ pc # "opening" -> {stream.next} \cap 1..head
    [] OTHER -> stream.next..head

(* A pulse needs a newly inserted action outside catch-up; fresh is the    *)
(* latency condition of shouldEmitPulse.                                   *)
PulseDue(e, fresh) == e \in Actions \ Settled /\ ~Catchup /\ fresh

(* The live callback raises highestSeen and then handles the event.  The   *)
(* first one makes the subscription ready and the initial replay begins.   *)
HandleLive(e, fresh) ==
  /\ stream.up
  /\ e \in Deliverable
  /\ highestSeen' = MaxOf(highestSeen, e)
  /\ stream' = [stream EXCEPT !.next = e + 1]
  /\ Record({e})
  /\ pulses' = IF PulseDue(e, fresh) THEN [pulses EXCEPT ![e] = @ + 1] ELSE pulses
  /\ pc' = IF pc = "opening" THEN "replay" ELSE pc
  /\ UNCHANGED <<head, cursor, scan, page, openHead, spent>>

(* The live handler throws, before recordEvent commits or, in the separate *)
(* coverage statement, after it.  highestSeen is already raised and the    *)
(* subscription is terminated; before readiness the session fails with it. *)
LiveHandlerThrows(e, committed) ==
  /\ stream.up
  /\ e \in Deliverable
  /\ Spend("faults", MaxFaults)
  /\ Record(IF committed THEN {e} ELSE {})
  /\ IF pc = "opening"
     THEN Throw
     ELSE /\ highestSeen' = MaxOf(highestSeen, e)
          /\ stream' = Closed
          /\ UNCHANGED <<pc, scan, page, openHead>>
  /\ UNCHANGED <<head, cursor, pulses>>

(* The subscription ends or fails. *)
StreamEnds ==
  /\ stream.up
  /\ Spend("drops", MaxDrops)
  /\ IF pc = "opening"
     THEN Throw
     ELSE stream' = Closed /\ UNCHANGED <<pc, highestSeen, scan, page, openHead>>
  /\ UNCHANGED <<head, durable, pulses>>

-----------------------------------------------------------------------------
(* Replay and reconciliation. *)

(* The endpoint answers a GetEvents request. *)
GetEvents ==
  /\ pc \in Scanning /\ ~page.here
  /\ page' = [lo |-> scan.pos, hi |-> PageEnd(scan.pos, scan.stop), here |-> TRUE]
  /\ UNCHANGED <<head, durable, pc, highestSeen, stream, scan, openHead, pulses, spent>>

(* A GetEvents request fails or times out. *)
GetEventsFails ==
  /\ pc \in Scanning /\ ~page.here
  /\ Spend("drops", MaxDrops)
  /\ Throw
  /\ UNCHANGED <<head, durable, pulses>>

(* A page is handled and the walk asks for the next one. *)
HandlePage ==
  /\ pc \in Scanning /\ page.here /\ More
  /\ Record(PageIds)
  /\ highestSeen' = SeenAfterPage
  /\ cursor' = IF pc = "replay" THEN Checkpoint(PageProgress) ELSE cursor
  /\ scan' = [scan EXCEPT !.pos = page.hi + 1]
  /\ page' = NoPage
  /\ UNCHANGED <<head, pc, stream, openHead, pulses, spent>>

(* The initial replay has read its last page.  Live events seen above it   *)
(* are reconciled up to a fixed watermark before the session is caught up. *)
FinishReplay ==
  /\ pc = "replay" /\ page.here /\ ~More
  /\ Record(PageIds)
  /\ highestSeen' = SeenAfterPage
  /\ cursor' = Checkpoint(PageProgress)
  /\ page' = NoPage
  /\ LET watermark == MaxOf(LastId, SeenAfterPage)
     IN  IF watermark > LastId
         THEN pc' = "tail" /\ scan' = Walk(LastId, watermark)
         ELSE pc' = "live" /\ scan' = NoScan
  /\ UNCHANGED <<head, stream, openHead, pulses, spent>>

(* A reconciliation up to a fixed bound, after the initial replay or on    *)
(* the timer, has read its last page: the bound is checkpointed.           *)
FinishFixed ==
  /\ pc \in {"tail", "fixed"} /\ page.here /\ ~More
  /\ Record(PageIds)
  /\ cursor' = Checkpoint(scan.stop)
  /\ page' = NoPage
  /\ scan' = NoScan
  /\ pc' = "live"
  /\ UNCHANGED <<head, highestSeen, stream, openHead, pulses, spent>>

(* The backfill has read its last page. *)
FinishBackfill ==
  /\ pc = "backfill" /\ page.here /\ ~More
  /\ Record(PageIds)
  /\ cursor' = Checkpoint(LastId)
  /\ LeaveSession("down")
  /\ UNCHANGED <<head, pulses, spent>>

(* An event of a page makes the handler throw: the ids up to id last are   *)
(* recorded, nothing is checkpointed.                                      *)
PageHandlerThrows(last) ==
  /\ pc \in Scanning /\ page.here
  /\ PageIds # {}
  /\ last \in (page.lo - 1)..page.hi
  /\ Spend("faults", MaxFaults)
  /\ Record(page.lo..last)
  /\ Throw
  /\ UNCHANGED <<head, cursor, pulses>>

(* The timer of streamOrTimeout fires while the stream is up: the bound is *)
(* the newest id seen, the walk starts at the durable cursor.              *)
Tick ==
  /\ pc = "live" /\ stream.up
  /\ highestSeen > cursor
  /\ pc' = "fixed"
  /\ scan' = Walk(cursor, highestSeen)
  /\ UNCHANGED <<head, durable, highestSeen, stream, page, openHead, pulses, spent>>

(* streamOrTimeout reports the end of the stream. *)
NoticeStreamEnd ==
  /\ pc = "live" /\ ~stream.up
  /\ Throw
  /\ UNCHANGED <<head, durable, pulses, spent>>

(* The backoff delay elapses. *)
Backoff ==
  /\ pc = "failed"
  /\ pc' = "idle"
  /\ UNCHANGED <<head, durable, session, pulses, spent>>

(* The session is aborted, for another endpoint or by a shutdown. *)
Abort ==
  /\ pc \notin {"down", "backfill"}
  /\ Spend("stops", MaxStops)
  /\ \E place \in {"idle", "down"} : LeaveSession(place)
  /\ UNCHANGED <<head, durable, pulses>>

(* The process dies, possibly in the middle of a page. *)
Crash(last) ==
  /\ pc # "down"
  /\ Spend("stops", MaxStops)
  /\ last \in IF page.here THEN (page.lo - 1)..page.hi ELSE {page.hi}
  /\ Record(IF page.here THEN page.lo..last ELSE {})
  /\ LeaveSession("down")
  /\ UNCHANGED <<head, cursor, pulses>>

-----------------------------------------------------------------------------
Next ==
  \/ Produce
  \/ StartRun
  \/ StartBackfill
  \/ Subscribe
  \/ \E e \in Ids, fresh \in BOOLEAN : HandleLive(e, fresh)
  \/ \E e \in Ids, committed \in BOOLEAN : LiveHandlerThrows(e, committed)
  \/ StreamEnds
  \/ GetEvents
  \/ GetEventsFails
  \/ HandlePage
  \/ FinishReplay
  \/ FinishFixed
  \/ FinishBackfill
  \/ \E last \in 0..MaxEvent : PageHandlerThrows(last)
  \/ Tick
  \/ NoticeStreamEnd
  \/ Backoff
  \/ Abort
  \/ \E last \in 0..MaxEvent : Crash(last)

Spec == Init /\ [][Next]_vars

-----------------------------------------------------------------------------
Streams == [up : BOOLEAN, next : 0..(MaxEvent + 1)]
Scans == [start : 0..MaxEvent, stop : 0..MaxEvent, pos : 0..(MaxEvent + 1)]
Pages == [lo : 0..(MaxEvent + 1), hi : 0..MaxEvent, here : BOOLEAN]
Spending == [{"faults", "drops", "stops", "backfills"} -> Nat]

(* Every variable keeps to its type, whatever the worker does. *)
TypeOK ==
  /\ head \in 0..MaxEvent
  /\ dedupe \subseteq Ids
  /\ tally \in [Ids -> Nat]
  /\ cursor \in 0..MaxEvent
  /\ pc \in Places
  /\ highestSeen \in 0..MaxEvent
  /\ stream \in Streams
  /\ scan \in Scans
  /\ page \in Pages
  /\ openHead \in 0..MaxEvent
  /\ pulses \in [Ids -> Nat]
  /\ spent \in Spending

(* The page walk, at every interleaving with live delivery, production and *)
(* failures: everything below its position is incorporated or too old, its *)
(* fixed bound exists at the source, and a page that ends the walk early   *)
(* reaches the bound.  This makes the checkpoint of the bound sound.       *)
WalkInv ==
  /\ highestSeen <= head /\ stream.next <= head + 1
  /\ pc \in Scanning \cup {"opening"} =>
       /\ 1 <= scan.pos /\ scan.pos <= head + 1
       /\ scan.start <= scan.pos /\ scan.start <= head
       /\ \A e \in Ids : e < scan.pos => e \in Settled
  /\ pc \in {"opening", "replay", "backfill"} => scan.stop = NoStop
  /\ pc \in {"tail", "fixed"} =>
       scan.stop # NoStop /\ scan.pos <= scan.stop /\ scan.stop <= head
  /\ page.here =>
       /\ pc \in Scanning
       /\ page.lo = scan.pos
       /\ page.lo <= page.hi + 1 /\ page.hi + 1 <= page.lo + PageSize
       /\ page.hi <= head
       /\ scan.stop # NoStop =>
            /\ page.hi < scan.stop
            /\ page.hi + 1 \in {page.lo + PageSize, scan.stop}

(* No crash, exception, lost notification or switch lets the durable       *)
(* cursor pass an event of the retention period that is not incorporated;  *)
(* its own event is the only one that inclusive replay may still supply.   *)
CursorNeverSkips ==
  cursor <= head /\ \A e \in Ids : e < cursor => e \in Settled

(* However often live delivery, replay, reconciliation and backfill present *)
(* an event, its action is in the minute bucket exactly once.              *)
CountedExactlyOnce ==
  \A e \in Ids : tally[e] = (IF e \in dedupe \cap Actions THEN 1 ELSE 0)

(* A pulse is emitted at most once for an event, across sessions, restarts *)
(* and rediscoveries, and only for an action the buckets hold.             *)
PulsedAtMostOnce ==
  \A e \in Ids : pulses[e] <= tally[e]

(* An event that already existed when the session subscribed is backlog:   *)
(* however it reaches the handler, it never becomes a live pulse.          *)
BacklogNeverPulses ==
  [][\A e \in Ids : pulses'[e] # pulses[e] => e > openHead]_vars

-----------------------------------------------------------------------------
(* The worker implements the abstract log. *)
Log == INSTANCE ReplayLog WITH
  head <- head, dedupe <- dedupe, tally <- tally, cursor <- cursor
ImplementsReplayLog == Log!Spec
=============================================================================
