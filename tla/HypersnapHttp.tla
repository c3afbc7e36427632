---------------------------- MODULE HypersnapHttp ---------------------------
(***************************************************************************)
(* The read-only HTTPS transport of the collector (hypersnap-http-rpc.ts)  *)
(* on one source shard.  Several jobs share one client: subscriptions,     *)
(* which poll for the head and then page up to it, and walks, which verify *)
(* the cursor's event and page from it (what a shard worker asks of        *)
(* getEvent and getEvents).  Every request of every job, the ones that     *)
(* fetch a block's timestamp included, starts through one                  *)
(* MinimumIntervalGate, whose links form a promise chain that aborted      *)
(* callers leave behind them.                                              *)
(*                                                                         *)
(* An id is a block number times Span plus a position; position 0 is the   *)
(* block's confirmation, which carries the block's timestamp.  The source  *)
(* is a fleet of backends: an answer may lag, and a bounded number of      *)
(* answers are corrupt in one of the ways the transport looks for.         *)
(***************************************************************************)
EXTENDS Integers, FiniteSets, SequencesExt

CONSTANTS
  Log,        \* ids of the events the source will produce, in order
  Span,       \* ids of a block (2^14)
  Subs,       \* subscriptions
  Walks,      \* walks
  From,       \* From[t]: the id a job was asked to start at, 0 if undefined
  Stop,       \* the exclusive id walks stop at
  PageSize,   \* EVENT_PAGE_SIZE (500)
  CacheSize,  \* MAX_BLOCK_TIMESTAMP_CACHE_ENTRIES (4096)
  Interval,   \* minimumIntervalMs, in ticks
  MaxFaults   \* bound: requests that fail, handlers that throw, corrupt answers,
              \* answers of a backend that is behind, cancellations and close()

Jobs == Subs \cup Walks
Ids == ToSet(Log)
Block(e) == e \div Span

ASSUME ConstantsAssumption ==
  /\ Log \in Seq(Nat) /\ Span \in Nat \ {0, 1}
  /\ \A i \in DOMAIN Log : Block(Log[i]) # 0 /\ Block(Log[i]) * Span \in Ids
  /\ \A i, k \in DOMAIN Log : i < k => Log[i] < Log[k]
  /\ Subs \cap Walks = {} /\ From \in [Jobs -> Nat] /\ Stop \in Nat
  /\ \A w \in Walks : From[w] \in Ids
  /\ PageSize \in Nat \ {0} /\ CacheSize \in Nat /\ PageSize <= CacheSize
  /\ Interval \in Nat

VARIABLES
  head,     \* newest event of the source, 0 at first
  job,      \* what each job is doing
  sub,      \* the promises and the report of each subscription
  seen,     \* what each job has handed to its caller, in order
  queue,    \* #tail of the gate: the jobs whose links have not settled
  cool,     \* ticks until #nextStartAtMs
  cache,    \* #blockTimestamps, in the order of insertion
  evicted,  \* blocks that have been dropped from the cache
  closed,   \* #closed
  spent     \* faults so far

vars == <<head, job, sub, seen, queue, cool, cache, evicted, closed, spent>>

(* A job waits at the gate, for an answer, for its own next turn with a    *)
(* complete page, or for the poll interval.  While the page got \o todo    *)
(* waits for the timestamp of a block, block is its number.                *)
Idle == [at |-> "idle", q |-> [op |-> "head"], got |-> <<>>, todo |-> <<>>,
         block |-> 0, next |-> 0]

Init ==
  /\ head = 0
  /\ job = [t \in Jobs |-> Idle]
  /\ sub = [s \in Subs |-> [ready |-> "pending", finished |-> FALSE,
                            cancelled |-> FALSE, reported |-> 0]]
  /\ seen = [t \in Jobs |-> <<>>]
  /\ queue = <<>> /\ cool = 0
  /\ cache = <<>> /\ evicted = {}
  /\ closed = FALSE
  /\ spent = 0

Fault ==
  /\ spent < MaxFaults
  /\ spent' = spent + 1

-----------------------------------------------------------------------------
(* What is on the wire. *)

(* An event as the API returns it: a confirmation has a body, and time is  *)
(* the timestamp in it, stamp the event's own; 0 is an absent one, 1 the   *)
(* one of the source's block, 2 any other.  sound stands for everything    *)
(* else that is checked: the enums, the message's data and hash, the range *)
(* of its times.                                                           *)
Honest(e) ==
  LET c == e % Span = 0
  IN  [id |-> e, shard |-> "own", block |-> Block(e), confirms |-> c,
       stamp |-> 0, body |-> c, time |-> IF c THEN 1 ELSE 0, sound |-> TRUE]

Spoilt(v) ==
  { [v EXCEPT !.shard = "other"], [v EXCEPT !.block = @ + 1], [v EXCEPT !.sound = FALSE],
    [v EXCEPT !.stamp = 2], [v EXCEPT !.time = 2 * @], [v EXCEPT !.time = 0],
    [v EXCEPT !.body = FALSE, !.time = 0], [v EXCEPT !.confirms = ~@] }

(* How many events have an id below n, and the events from a to b. *)
Below(n) == Cardinality({i \in DOMAIN Log : Log[i] < n})
Between(a, b) == SubSeq(Log, Below(a) + 1, Below(b + 1))

(* The first n events of an answer. *)
FirstOf(n, q) == SubSeq(q, 1, IF Len(q) < n THEN Len(q) ELSE n)

(* The ids a backend that knows the events up to h answers request q with. *)
Found(q, h) ==
  CASE q.op = "head" -> IF h = 0 THEN <<>> ELSE << h >>
    [] q.op = "page" -> FirstOf(PageSize, Between(q.from, IF h < q.stop THEN h ELSE q.stop - 1))
    [] q.op = "event" -> IF q.from <= h /\ q.from \in Ids THEN << q.from >> ELSE <<>>

(* A page that a confused backend returns: out of order, or with events    *)
(* from outside of what was asked for.                                     *)
Confused(q, ids) ==
  { Reverse(ids) } \cup { << e >> \o ids : e \in {x \in Ids : x < q.from} }
                  \cup { Append(ids, e) : e \in {x \in Ids : x >= q.stop} }

(* An answer with nothing wrong in its events. *)
Faithful(ids) == [i \in DOMAIN ids |-> Honest(ids[i])]

Answer(q, h) == Faithful(Found(q, h))

CorruptAnswers(q, h) ==
  LET good == Answer(q, h)
  IN  (UNION { { [good EXCEPT ![i] = v] : v \in Spoilt(good[i]) } : i \in DOMAIN good })
      \cup (IF q.op # "page" THEN {} ELSE { Faithful(ids) : ids \in Confused(q, Found(q, h)) })

-----------------------------------------------------------------------------
(* What the transport makes of it. *)

(* normalizeEvent accepts the event, and takes its timestamp from the body *)
(* unless the event has one of its own; a confirmation's two must agree.   *)
(* It must have the body, but may do without any timestamp.                *)
Normalizable(v) ==
  /\ v.sound /\ v.shard = "own" /\ v.block = Block(v.id)
  /\ v.confirms => v.body /\ (0 \in {v.stamp, v.time} \/ v.stamp = v.time)

Normalized(v) == [id |-> v.id, block |-> v.block, confirms |-> v.confirms,
                  stamp |-> IF v.stamp # 0 THEN v.stamp ELSE v.time]

(* validateForwardPage *)
Forward(page, from, stop) ==
  /\ \A i \in DOMAIN page : from <= page[i].id /\ page[i].id < stop
  /\ \A i \in 2 .. Len(page) : page[i - 1].id < page[i].id

Cached(c) == {x.block : x \in ToSet(c)}
Known(c, b) == {x.stamp : x \in {y \in ToSet(c) : y.block = b}}

(* Mutant: a second confirmation replaces the first. *)
ConflictsNever(c, v) == FALSE

(* #rememberBlockTimestamp: a confirmation that contradicts the cache      *)
(* makes the whole answer fail; a new one may push out the oldest.         *)
Conflicts(c, v) == v.confirms /\ v.stamp # 0 /\ \E s \in Known(c, v.block) : s # v.stamp

Learn(c, v) ==
  IF ~v.confirms \/ v.stamp = 0 \/ v.block \in Cached(c) THEN c
  ELSE LET d == Append(c, [block |-> v.block, stamp |-> v.stamp])
       IN  IF Len(d) > CacheSize THEN Tail(d) ELSE d

(* The cache once the first n events of a page are remembered. *)
After(c, page, n) ==
  LET learnt[i \in 0 .. Len(page)] == IF i = 0 THEN c ELSE Learn(learnt[i - 1], page[i])
  IN  learnt[n]

(* The events of a page that are remembered before one contradicts. *)
Agreeing(c, page) ==
  LET bad == {i \in DOMAIN page : Conflicts(After(c, page, i - 1), page[i])}
  IN  IF bad = {} THEN Len(page) ELSE Min(bad) - 1

Remember(page) ==
  /\ cache' = After(cache, page, Agreeing(cache, page))
  /\ evicted' = evicted \cup UNION { Cached(After(cache, page, n - 1)) \ Cached(After(cache, page, n)) :
                                     n \in 1 .. Agreeing(cache, page) }

(* #canonicalizeEventTimes: an event that is no confirmation takes the     *)
(* timestamp of its block's, and may not claim another.                    *)
Stampable(c, v) == v.confirms \/ Known(c, v.block) # {}
Stamped(c, v) == IF v.confirms THEN v
                 ELSE [v EXCEPT !.stamp = CHOOSE s \in Known(c, v.block) : TRUE]
Claims(c, v) == ~v.confirms /\ v.stamp # 0 /\ v.stamp \notin Known(c, v.block)
-----------------------------------------------------------------------------
(* The gate. *)

Aborted(t) == t \in Subs /\ sub[t].cancelled

(* A job asks for q; b is a block whose timestamp it needs first.          *)
Asking(t, q, b, got, todo) ==
  /\ job' = [job EXCEPT ![t] = [@ EXCEPT !.at = "gate", !.q = q, !.block = b,
                                         !.got = got, !.todo = todo]]
  /\ queue' = Append(queue, t)

Ask(t, q) == Asking(t, q, 0, <<>>, <<>>)

HeadRequest == [op |-> "head"]
PageRequest(from, stop) == [op |-> "page", from |-> from, stop |-> stop]
EventRequest(e) == [op |-> "event", from |-> e]

(* The job's promise settles.  A subscription finishes once: if it was     *)
(* cancelled meanwhile, nothing is settled or reported any more.           *)
Ending(t, failed) ==
  /\ job' = [job EXCEPT ![t] = [Idle EXCEPT !.at = "over"]]
  /\ sub' = IF t \in Walks \/ sub[t].finished THEN sub
            ELSE [sub EXCEPT ![t].finished = TRUE,
                    ![t].ready = IF @ = "pending" THEN "failed" ELSE @,
                    ![t].reported = IF failed THEN @ + 1 ELSE @]

(* Mutant: a link of an aborted job never settles. *)
GateSkipNever ==
  /\ queue # <<>> /\ job[queue[1]].at = "over"
  /\ UNCHANGED vars

(* The first link's job was aborted: the link rejects without a slot. *)
GateSkip ==
  /\ queue # <<>> /\ job[queue[1]].at = "over"
  /\ queue' = Tail(queue)
  /\ UNCHANGED <<head, job, sub, seen, cool, cache, evicted, closed, spent>>

(* The first link's turn, and the interval since the last start is over.   *)
(* A walk that finds the client closed has used its slot all the same.     *)
GateStart ==
  /\ queue # <<>> /\ cool = 0
  /\ LET t == queue[1]
     IN  /\ job[t].at = "gate"
         /\ ~Aborted(t)
         /\ IF closed THEN Ending(t, TRUE)
            ELSE /\ job' = [job EXCEPT ![t].at = "flight"]
                 /\ UNCHANGED sub
  /\ queue' = Tail(queue)
  /\ cool' = Interval
  /\ UNCHANGED <<head, seen, cache, evicted, closed, spent>>

Tick ==
  /\ cool > 0
  /\ cool' = cool - 1
  /\ UNCHANGED <<head, job, sub, seen, queue, cache, evicted, closed, spent>>

-----------------------------------------------------------------------------
(* Requests. *)

(* The request times out, or its answer is an error, too large, no JSON.   *)
RequestFails(t) ==
  /\ job[t].at = "flight"
  /\ Fault
  /\ Ending(t, TRUE)
  /\ UNCHANGED <<head, seen, queue, cool, cache, evicted, closed>>

(* Stamp what the cache allows; ask for the block of the first event it    *)
(* lacks; when all are stamped, the page waits for the caller's turn.      *)
Canonicalize(t, c, got, todo) ==
  \E n \in { Max({k \in 0 .. Len(todo) : \A i \in 1 .. k : Stampable(c, todo[i])}) } :
  \E stamped \in { got \o [i \in 1 .. n |-> Stamped(c, todo[i])] } :
    IF \E i \in 1 .. n : Claims(c, todo[i])
    THEN Ending(t, TRUE) /\ UNCHANGED queue
    ELSE IF n < Len(todo)
    THEN /\ Asking(t, job[t].q, todo[n + 1].block, stamped, SubSeq(todo, n + 1, Len(todo)))
         /\ UNCHANGED sub
    ELSE /\ job' = [job EXCEPT ![t] = [@ EXCEPT !.at = "hand", !.got = stamped,
                                                !.todo = <<>>, !.block = 0]]
         /\ UNCHANGED <<queue, sub>>

(* What the answer must satisfy beyond its events: an event is the one     *)
(* asked for, a block's is its confirmation, and a page is in order.       *)
Fits(t, page) ==
  LET j == job[t]
  IN  IF j.block # 0
      THEN Len(page) = 1 /\ page[1].confirms /\ page[1].id = j.block * Span /\ page[1].stamp # 0
      ELSE j.q.op = "event" => Len(page) = 1 /\ page[1].id = j.q.from

InOrder(t, page) ==
  job[t].block = 0 /\ job[t].q.op = "page" => Forward(page, job[t].q.from, job[t].q.stop)

(* An answer arrives to what the job asked for. *)
Take(t, answer) ==
  /\ job[t].at = "flight"
  /\ ~Aborted(t)
  /\ \E page \in { [i \in DOMAIN answer |-> Normalized(answer[i])] } :
       IF ~(Fits(t, page) /\ \A i \in DOMAIN answer : Normalizable(answer[i]))
       THEN Ending(t, TRUE) /\ UNCHANGED <<queue, cache, evicted>>
       ELSE /\ Remember(page)
            /\ IF Agreeing(cache, page) < Len(page) \/ ~InOrder(t, page)
               THEN Ending(t, TRUE) /\ UNCHANGED queue
               ELSE IF job[t].block = 0 THEN Canonicalize(t, cache', <<>>, page)
               ELSE Canonicalize(t, cache', job[t].got, job[t].todo)
  /\ UNCHANGED <<head, seen, cool, closed>>

Wanted(t) == IF job[t].block = 0 THEN job[t].q ELSE EventRequest(job[t].block * Span)

Respond(t) ==
  /\ \E answer \in { Answer(Wanted(t), head) } : Take(t, answer)
  /\ UNCHANGED spent

(* A backend answers that is behind, or that is confused. *)
RespondLate(t) ==
  \E h \in {e \in Ids : e < head} \cup {0} :
    /\ Fault
    /\ Take(t, Answer(Wanted(t), h))

RespondBadly(t) ==
  /\ Fault
  /\ \E answer \in CorruptAnswers(Wanted(t), head) : Take(t, answer)

-----------------------------------------------------------------------------
(* The poll loop of a subscription. *)

(* subscribe: the loop starts by asking for the head. *)
Subscribe(s) ==
  /\ job[s].at = "idle" /\ ~closed
  /\ Ask(s, HeadRequest)
  /\ UNCHANGED <<head, sub, seen, cool, cache, evicted, closed, spent>>

(* Mutant: the first poll forgets the id it was asked to start from. *)
NextAfterHeadOnly(s, page) == page[Len(page)].id + 1

(* #pollSubscription: where the next poll starts. *)
NextAfter(s, page) ==
  LET n == page[Len(page)].id + 1
  IN  IF job[s].next = 0 /\ From[s] > n THEN From[s] ELSE n

(* After a page the next one is asked for if this one was full; after the  *)
(* last, and after a head that brings nothing new, the loop pauses.        *)
Continue(s, next) ==
  LET j == job[s]
  IN  IF j.q.op = "page" /\ Len(j.got) = PageSize /\ next < j.q.stop
      THEN /\ job' = [job EXCEPT ![s] = [@ EXCEPT !.at = "gate", !.got = <<>>, !.next = next,
                                                  !.q = PageRequest(next, j.q.stop)]]
           /\ queue' = Append(queue, s)
      ELSE /\ job' = [job EXCEPT ![s] = [Idle EXCEPT !.at = "pause", !.next = next]]
           /\ UNCHANGED queue

(* Mutant: events are emitted whatever the signal says. *)
EmittedAlways(s) == job[s].got

(* What emit passes on of a page: nothing once the signal is aborted. *)
Emitted(s) == IF Aborted(s) THEN <<>> ELSE job[s].got

(* A page, or the first head, is emitted; the handler may throw at any of  *)
(* its events, which ends the subscription.                                *)
Emit(s) ==
  LET page == job[s].got
  IN  /\ job[s].at = "hand" /\ page # <<>>
      /\ (job[s].q.op = "page" \/ job[s].next = 0)
      /\ \/ /\ seen' = [seen EXCEPT ![s] = @ \o Emitted(s)]
            /\ IF Emitted(s) = <<>> THEN Ending(s, FALSE) /\ UNCHANGED queue
               ELSE /\ sub' = [sub EXCEPT ![s].ready = IF @ = "pending" THEN "ready" ELSE @]
                    /\ Continue(s, NextAfter(s, page))
            /\ UNCHANGED spent
         \/ \E n \in DOMAIN Emitted(s) :
            /\ Fault
            /\ seen' = [seen EXCEPT ![s] = @ \o SubSeq(page, 1, n - 1)]
            /\ job' = [job EXCEPT ![s] = [Idle EXCEPT !.at = "over"]]
            /\ sub' = [sub EXCEPT ![s].finished = TRUE,
                  ![s].ready = IF @ = "pending" /\ n = 1 THEN "failed" ELSE "ready",
                  ![s].reported = @ + 1]
            /\ UNCHANGED queue
      /\ UNCHANGED <<head, cool, cache, evicted, closed>>

(* A later head: page up to it, unless it is nothing new.  An empty page   *)
(* or no head at all: try again after the interval.                        *)
Advance(s) ==
  LET page == job[s].got
  IN  /\ job[s].at = "hand"
      /\ (page = <<>> \/ (job[s].q.op = "head" /\ job[s].next # 0))
      /\ IF page # <<>> /\ page[1].id >= job[s].next
         THEN /\ Ask(s, PageRequest(job[s].next, page[1].id + 1))
         ELSE /\ job' = [job EXCEPT ![s] = [Idle EXCEPT !.at = "pause", !.next = job[s].next]]
              /\ UNCHANGED queue
      /\ UNCHANGED <<head, sub, seen, cool, cache, evicted, closed, spent>>

Poll(s) ==
  /\ job[s].at = "pause" /\ ~Aborted(s)
  /\ Ask(s, HeadRequest)
  /\ UNCHANGED <<head, sub, seen, cool, cache, evicted, closed, spent>>

(* The loop of a cancelled subscription notices: its request rejects, its  *)
(* place at the gate is given up, its pause ends.                          *)
Unwind(s) ==
  /\ Aborted(s) /\ job[s].at \in {"gate", "flight", "pause"}
  /\ Ending(s, FALSE)
  /\ UNCHANGED <<head, seen, queue, cool, cache, evicted, closed, spent>>

-----------------------------------------------------------------------------
(* A walk: getEvent of its first id, then getEvents until no token. *)

Walk(w) ==
  /\ job[w].at = "idle" /\ ~closed /\ From[w] <= head
  /\ Ask(w, EventRequest(From[w]))
  /\ UNCHANGED <<head, sub, seen, cool, cache, evicted, closed, spent>>

(* encodePageToken and decodePageToken: the id to continue at. *)
Token(page) == page[Len(page)].id + 1

WalkOn(w) ==
  LET j == job[w]
  IN  /\ j.at = "hand"
      /\ seen' = IF j.q.op = "page" THEN [seen EXCEPT ![w] = @ \o j.got] ELSE seen
      /\ IF j.q.op = "event" THEN Ask(w, PageRequest(From[w], Stop)) /\ UNCHANGED sub
         ELSE IF Len(j.got) = PageSize /\ Token(j.got) < Stop
         THEN Ask(w, PageRequest(Token(j.got), Stop)) /\ UNCHANGED sub
         ELSE Ending(w, FALSE) /\ UNCHANGED queue
      /\ UNCHANGED <<head, cool, cache, evicted, closed, spent>>

-----------------------------------------------------------------------------
(* The caller and the source. *)

Cancelled(S) ==
  [s \in Subs |-> IF s \notin S \/ sub[s].finished \/ job[s].at = "idle" THEN sub[s]
                  ELSE [sub[s] EXCEPT !.cancelled = TRUE, !.finished = TRUE,
                                      !.ready = IF @ = "pending" THEN "failed" ELSE @]]

Cancel(s) ==
  /\ job[s].at # "idle" /\ ~sub[s].finished
  /\ Fault
  /\ sub' = Cancelled({s})
  /\ UNCHANGED <<head, job, seen, queue, cool, cache, evicted, closed>>

(* A walk's signal is aborted: it leaves at once. *)
AbortWalk(w) ==
  /\ job[w].at \in {"gate", "flight"}
  /\ Fault
  /\ Ending(w, TRUE)
  /\ UNCHANGED <<head, seen, queue, cool, cache, evicted, closed>>

(* close: every subscription is cancelled and every request in flight is   *)
(* aborted; a walk at the gate stays there.                                *)
Close ==
  /\ ~closed
  /\ Fault
  /\ closed' = TRUE
  /\ sub' = Cancelled(Subs)
  /\ job' = [t \in Jobs |-> IF t \in Walks /\ job[t].at = "flight"
                            THEN [Idle EXCEPT !.at = "over"] ELSE job[t]]
  /\ UNCHANGED <<head, seen, queue, cool, cache, evicted>>

Produce ==
  /\ \E i \in DOMAIN Log : Log[i] > head /\ (i > 1 => Log[i - 1] <= head) /\ head' = Log[i]
  /\ UNCHANGED <<job, sub, seen, queue, cool, cache, evicted, closed, spent>>

Next ==
  \/ Produce \/ GateSkip \/ GateStart \/ Tick \/ Close
  \/ \E t \in Jobs : RequestFails(t) \/ Respond(t) \/ RespondLate(t) \/ RespondBadly(t)
  \/ \E s \in Subs : Subscribe(s) \/ Emit(s) \/ Advance(s) \/ Poll(s) \/ Unwind(s) \/ Cancel(s)
  \/ \E w \in Walks : Walk(w) \/ WalkOn(w) \/ AbortWalk(w)

Spec == Init /\ [][Next]_vars

(* Timers fire, promise chains run on, and the source answers in the end.  *)
(* Nobody has to subscribe, cancel or close, and a walk may take for ever: *)
(* requests overlap once they have started.                                *)
Fairness ==
  /\ WF_vars(GateSkip) /\ WF_vars(GateStart) /\ WF_vars(Tick)
  /\ \A s \in Subs : WF_vars(Respond(s) \/ Emit(s) \/ Advance(s) \/ Poll(s) \/ Unwind(s))

FairSpec == Spec /\ Fairness

-----------------------------------------------------------------------------
(* Properties. *)

TypeOK ==
  /\ head \in Ids \cup {0} /\ closed \in BOOLEAN /\ cool \in 0 .. Interval
  /\ \A t \in Jobs : job[t].at \in {"idle", "gate", "flight", "hand", "pause", "over"}
  /\ \A s \in Subs : sub[s].ready \in {"pending", "ready", "failed"}
  /\ queue \in Seq(Jobs) /\ Len(cache) <= CacheSize

SeenIds(t) == [i \in DOMAIN seen[t] |-> seen[t][i].id]

(* What a job hands over has no gap and no repetition: a walk's events are *)
(* the source's, in order, from its first id on; a subscription's are the  *)
(* head it found first and then, in order, every event after it, or from   *)
(* the id it was asked to start at if that is later.                       *)
HandsOverWithoutGap ==
  \A t \in Jobs : seen[t] # <<>> =>
    LET ids == SeenIds(t)
        last == ids[Len(ids)]
        first == ids[1] + 1
        start == IF From[t] > first THEN From[t] ELSE first
    IN  IF t \in Walks THEN ids = Between(From[t], last)
        ELSE Len(ids) > 1 => Tail(ids) = Between(start, last)

(* Two events of one block never carry two timestamps, whoever they were   *)
(* handed to: the cache that all jobs share rules out a second opinion, as *)
(* long as it still holds the block.  Nothing goes without a timestamp but *)
(* a confirmation that came without one: it is handed over as it is, next  *)
(* to events that are stamped.                                             *)
TimesAgree ==
  \A t, u \in Jobs : \A i \in DOMAIN seen[t], k \in DOMAIN seen[u] :
    LET v == seen[t][i]
        w == seen[u][k]
    IN  /\ v.stamp = 0 => v.confirms
        /\ v.block = w.block /\ v.block \notin evicted => 0 \in {v.stamp, w.stamp} \/ v.stamp = w.stamp

Contract == INSTANCE Subscription WITH
  ready <- [s \in Subs |-> sub[s].ready],
  ended <- [s \in Subs |-> sub[s].finished],
  reported <- [s \in Subs |-> sub[s].reported],
  handled <- [s \in Subs |-> Len(seen[s])]

(* Every subscription keeps the contract that the collector's worker is    *)
(* written against.                                                        *)
ImplementsSubscription == Contract!Spec

Reached(s) == seen[s] # <<>> /\ (SeenIds(s)[Len(seen[s])] = Last(Log) \/ From[s] > Last(Log))

(* A subscription that nobody cancels and no fault ends hands over         *)
(* everything up to the source's last event: neither jobs that are aborted *)
(* at the gate nor other jobs keep it from its turn for ever.              *)
KeepsUp == \A s \in Subs :
  (job[s].at # "idle" /\ head = Last(Log)) ~> (Reached(s) \/ sub[s].finished)
=============================================================================
