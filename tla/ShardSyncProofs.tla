--------------------------- MODULE ShardSyncProofs ---------------------------
(***************************************************************************)
(* The safety of the shard worker for every source length, page size,      *)
(* transport and number of failures.                                       *)
(***************************************************************************)
EXTENDS ShardSync, TLAPS

(* The inductive invariant: types, the position of the page walk, and the  *)
(* two facts about the database that the walk's position supports.         *)
IInv == TypeOK /\ WalkInv /\ CursorNeverSkips /\ CountedExactlyOnce

(* recordEvent keeps the database well formed and counts once. *)
LEMMA RecordFacts ==
  ASSUME NEW S, S \subseteq Ids, TypeOK, CountedExactlyOnce, Record(S)
  PROVE  /\ dedupe' \subseteq Ids
         /\ Settled' = Settled \cup S
         /\ tally' \in [Ids -> Nat]
         /\ \A e \in Ids : tally'[e] = (IF e \in dedupe' \cap Actions THEN 1 ELSE 0)
<1>1. dedupe' = dedupe \cup (S \ Old) /\ dedupe' \subseteq Ids
  BY DEF Record, TypeOK
<1>2. tally' \in [Ids -> Nat]
  BY DEF Record, TypeOK
<1>3. ASSUME NEW e \in Ids
      PROVE  tally'[e] = (IF e \in dedupe' \cap Actions THEN 1 ELSE 0)
  <2>1. tally[e] = (IF e \in dedupe \cap Actions THEN 1 ELSE 0)
    BY DEF CountedExactlyOnce
  <2>2. tally'[e] = (IF e \in (S \ Settled) \cap Actions THEN tally[e] + 1 ELSE tally[e])
    BY DEF Record
  <2>3. CASE e \in (S \ Settled) \cap Actions
    BY <1>1, <2>1, <2>2, <2>3 DEF Settled
  <2>4. CASE e \notin (S \ Settled) \cap Actions
    BY <1>1, <2>1, <2>2, <2>4 DEF Settled
  <2> QED BY <2>3, <2>4
<1>4. Settled' = Settled \cup S
  BY <1>1 DEF Settled
<1> QED BY <1>1, <1>2, <1>3, <1>4

(* Leaving a session resets everything the walk invariant speaks of. *)
LEMMA LeaveSessionFacts ==
  ASSUME NEW place, place \in {"down", "idle", "failed"}, LeaveSession(place),
         head \in 0..MaxEvent, UNCHANGED head
  PROVE  /\ WalkInv'
         /\ pc' \in Places
         /\ highestSeen' \in 0..MaxEvent
         /\ stream' \in Streams
         /\ scan' \in Scans
         /\ page' \in Pages
         /\ openHead' \in 0..MaxEvent
BY ConstantsAssumption DEF LeaveSession, WalkInv, Streams, Scans, Pages, Places, Scanning, Closed, NoScan, NoPage, NoStop

(* The bounds only count up. *)
LEMMA SpendFacts ==
  ASSUME NEW kind, kind \in {"faults", "drops", "stops", "backfills"}, NEW max,
         spent \in Spending,
         Spend(kind, max)
  PROVE  spent' \in Spending
BY DEF Spend, Spending

(* A step that leaves the cursor alone and incorporates more keeps the     *)
(* database part of the invariant.                                         *)
LEMMA DurableFacts ==
  ASSUME NEW S, S \subseteq Ids, IInv, Record(S),
         cursor' \in 0..MaxEvent, head' = head, cursor' <= head,
         \A e \in Ids : cursor <= e /\ e < cursor' => e \in Settled \cup S
  PROVE  /\ dedupe' \subseteq Ids
         /\ Settled' = Settled \cup S
         /\ tally' \in [Ids -> Nat]
         /\ CountedExactlyOnce'
         /\ CursorNeverSkips'
<1>1. /\ dedupe' \subseteq Ids
      /\ Settled' = Settled \cup S
      /\ tally' \in [Ids -> Nat]
      /\ CountedExactlyOnce'
  BY RecordFacts DEF IInv, CountedExactlyOnce
<1>2. CursorNeverSkips'
  BY <1>1 DEF IInv, CursorNeverSkips, Ids, TypeOK
<1> QED BY <1>1, <1>2

(* What the types say about the parts of the records. *)
LEMMA Parts ==
  ASSUME TypeOK
  PROVE  /\ head \in 0..MaxEvent /\ head \in Nat /\ MaxEvent \in Nat /\ PageSize \in Nat \ {0}
         /\ cursor \in 0..MaxEvent /\ highestSeen \in 0..MaxEvent
         /\ dedupe \subseteq 1..MaxEvent
         /\ stream.up \in BOOLEAN /\ stream.next \in 0..(MaxEvent + 1)
         /\ scan.start \in 0..MaxEvent /\ scan.stop \in 0..MaxEvent
         /\ scan.pos \in 0..(MaxEvent + 1)
         /\ page.lo \in 0..(MaxEvent + 1) /\ page.hi \in 0..MaxEvent /\ page.here \in BOOLEAN
BY ConstantsAssumption DEF TypeOK, Streams, Scans, Pages, Ids

(* The inductive invariant holds at first. *)
LEMMA InitIInv == Init => IInv
BY ConstantsAssumption
DEF Init, IInv, TypeOK, WalkInv, CursorNeverSkips, CountedExactlyOnce, Ids,
    Places, Scanning, InSession, Closed, NoScan, NoPage, NoStop, Streams, Scans, Pages, Spending

(* The answer to a request covers the walk's next ids up to its end. *)
LEMMA PageEndFacts ==
  ASSUME NEW lo \in 1..(head + 1), NEW stop \in 0..head, head \in 0..MaxEvent,
         stop # NoStop => lo <= stop
  PROVE  /\ PageEnd(lo, stop) \in 0..MaxEvent
         /\ PageEnd(lo, stop) <= head
         /\ lo <= PageEnd(lo, stop) + 1
         /\ PageEnd(lo, stop) + 1 <= lo + PageSize
         /\ stop # NoStop =>
              /\ PageEnd(lo, stop) < stop
              /\ PageEnd(lo, stop) + 1 \in {lo + PageSize, stop}
BY ConstantsAssumption DEF PageEnd, MaxOf, NoStop

(* Every step keeps it. *)
LEMMA NextIInv == IInv /\ [Next]_vars => IInv'
<1> SUFFICES ASSUME IInv, [Next]_vars PROVE IInv'
  OBVIOUS
<1>0. TypeOK /\ WalkInv /\ CursorNeverSkips /\ CountedExactlyOnce
  BY DEF IInv
<1>p. /\ head \in 0..MaxEvent /\ head \in Nat /\ MaxEvent \in Nat /\ PageSize \in Nat \ {0}
      /\ cursor \in 0..MaxEvent /\ highestSeen \in 0..MaxEvent
      /\ dedupe \subseteq 1..MaxEvent
      /\ stream.up \in BOOLEAN /\ stream.next \in 0..(MaxEvent + 1)
      /\ scan.start \in 0..MaxEvent /\ scan.stop \in 0..MaxEvent
      /\ scan.pos \in 0..(MaxEvent + 1)
      /\ page.lo \in 0..(MaxEvent + 1) /\ page.hi \in 0..MaxEvent /\ page.here \in BOOLEAN
  BY <1>0, Parts
<1>1. CASE Produce
  BY <1>0, <1>p, <1>1
  DEF Produce, IInv, TypeOK, WalkInv, CursorNeverSkips, CountedExactlyOnce, durable, Settled, session
<1>2. CASE StartRun
  BY <1>0, <1>p, <1>2
  DEF StartRun, IInv, TypeOK, WalkInv, CursorNeverSkips, CountedExactlyOnce, durable, Settled, session,
      Places, Scanning, InSession
<1>3. CASE StartBackfill
  <2>1. spent' \in Spending
    BY <1>0, <1>3, SpendFacts DEF StartBackfill, TypeOK
  <2>2. /\ pc' = "backfill" /\ scan' = [start |-> 0, stop |-> 0, pos |-> 1]
        /\ UNCHANGED <<head, durable, highestSeen, stream, page, openHead, pulses>>
    BY <1>3 DEF StartBackfill, Walk, MaxOf, NoStop
  <2>3. ~page.here
    BY <1>0, <1>3 DEF StartBackfill, WalkInv, Scanning
  <2>4. TypeOK'
    BY <1>0, <1>p, <2>1, <2>2 DEF TypeOK, durable, Places, Scanning, InSession, Scans
  <2>5. WalkInv'
    BY <1>0, <1>p, <2>2, <2>3 DEF WalkInv, Settled, durable, NoStop, Ids
  <2> QED
    BY <1>0, <2>2, <2>4, <2>5 DEF IInv, CursorNeverSkips, CountedExactlyOnce, durable, Settled
<1>4. CASE Subscribe
  <2>1. /\ pc' = "opening" /\ highestSeen' = cursor
        /\ scan' = [start |-> cursor, stop |-> 0, pos |-> MaxOf(cursor, 1)]
        /\ stream' = [up |-> TRUE, next |-> head + 1] /\ openHead' = head
        /\ UNCHANGED <<head, durable, page, pulses, spent>>
    BY <1>4 DEF Subscribe, Walk, NoStop
  <2>2. ~page.here
    BY <1>0, <1>4 DEF Subscribe, WalkInv, Scanning
  <2>3. MaxOf(cursor, 1) \in 1..(MaxEvent + 1) /\ cursor <= head
    BY <1>0, <1>p DEF MaxOf, CursorNeverSkips
  <2>4. TypeOK'
    BY <1>0, <1>p, <2>1, <2>3 DEF TypeOK, durable, Places, Scanning, InSession, Scans, Streams
  <2>5. WalkInv'
    <3>1. \A e \in Ids : e < scan'.pos => e \in Settled'
      BY <1>0, <1>p, <2>1 DEF CursorNeverSkips, durable, Settled, MaxOf, Ids
    <3>2. /\ 1 <= scan'.pos /\ scan'.pos <= head' + 1
          /\ scan'.start <= scan'.pos /\ scan'.start <= head'
      BY <1>p, <2>1, <2>3 DEF MaxOf
    <3> QED BY <1>p, <2>1, <2>2, <2>3, <3>1, <3>2 DEF WalkInv, NoStop
  <2> QED
    BY <1>0, <2>1, <2>4, <2>5 DEF IInv, CursorNeverSkips, CountedExactlyOnce, durable, Settled
<1>5. ASSUME NEW e \in Ids, NEW fresh \in BOOLEAN, HandleLive(e, fresh)
      PROVE  IInv'
  <2>1. e <= head
    BY <1>0, <1>p, <1>5 DEF HandleLive, Deliverable, TypeOK, Ids
  <2>2. /\ dedupe' \subseteq Ids
        /\ Settled' = Settled \cup {e}
        /\ tally' \in [Ids -> Nat]
        /\ CountedExactlyOnce'
        /\ CursorNeverSkips'
    BY <1>0, <1>p, <1>5, DurableFacts DEF HandleLive, TypeOK, CursorNeverSkips
  <2>3. pulses' \in [Ids -> Nat]
    BY <1>0, <1>p, <1>5 DEF HandleLive, TypeOK
  <2>4. stream' \in Streams /\ stream'.next = e + 1
    <3>1. stream \in Streams /\ stream' = [stream EXCEPT !.next = e + 1]
      BY <1>0, <1>5 DEF HandleLive, TypeOK
    <3>2. e + 1 \in 0..(MaxEvent + 1)
      BY <1>p DEF Ids
    <3> QED BY <3>1, <3>2 DEF Streams
  <2>5. highestSeen' \in 0..MaxEvent /\ highestSeen' <= head
    BY <1>0, <1>p, <1>5, <2>1 DEF HandleLive, TypeOK, WalkInv, MaxOf, Ids
  <2>6. TypeOK'
    BY <1>0, <1>p, <1>5, <2>2, <2>3, <2>4, <2>5
    DEF HandleLive, TypeOK, Places, Scanning, InSession
  <2>7. WalkInv'
    <3>1. UNCHANGED <<head, scan, page>> /\ stream'.next <= head + 1
      BY <1>p, <1>5, <2>1, <2>4 DEF HandleLive, Ids
    <3>2. pc' = pc \/ (pc = "opening" /\ pc' = "replay")
      BY <1>5 DEF HandleLive
    <3> QED BY <1>0, <2>2, <2>5, <3>1, <3>2 DEF WalkInv, Scanning
  <2> QED BY <2>2, <2>6, <2>7 DEF IInv
<1>6. ASSUME NEW e \in Ids, NEW committed \in BOOLEAN, LiveHandlerThrows(e, committed)
      PROVE  IInv'
  <2> DEFINE S == IF committed THEN {e} ELSE {}
  <2>1. e <= head
    BY <1>0, <1>p, <1>6 DEF LiveHandlerThrows, Deliverable, TypeOK, Ids
  <2>2. /\ dedupe' \subseteq Ids
        /\ Settled' = Settled \cup S
        /\ tally' \in [Ids -> Nat]
        /\ CountedExactlyOnce'
        /\ CursorNeverSkips'
    <3>1. S \subseteq Ids
      OBVIOUS
    <3>2. Record(S)
      BY <1>6 DEF LiveHandlerThrows
    <3>3. cursor' \in 0..MaxEvent /\ head' = head /\ cursor' <= head /\ cursor' = cursor
      BY <1>0, <1>p, <1>6 DEF LiveHandlerThrows, TypeOK, CursorNeverSkips
    <3>4. \A x \in Ids : cursor <= x /\ x < cursor' => x \in Settled \cup S
      BY <1>0, <1>p, <3>3 DEF TypeOK, Ids
    <3> HIDE DEF S
    <3> QED BY <3>1, <3>2, <3>3, <3>4, DurableFacts
  <2>3. spent' \in Spending
    BY <1>0, <1>p, <1>6, SpendFacts DEF LiveHandlerThrows, TypeOK
  <2> HIDE DEF S
  <2>4. CASE pc = "opening"
    <3>1. LeaveSession("failed") /\ UNCHANGED <<head, cursor, pulses>>
      BY <1>6, <2>4 DEF LiveHandlerThrows, Throw
    <3>2. TypeOK' /\ WalkInv'
      BY <1>0, <1>p, <2>2, <2>3, <3>1, LeaveSessionFacts DEF TypeOK
    <3> QED BY <2>2, <3>2 DEF IInv
  <2>5. CASE pc # "opening"
    <3>1. /\ highestSeen' \in 0..MaxEvent /\ highestSeen' <= head
          /\ stream' = Closed
          /\ UNCHANGED <<pc, scan, page, openHead, head, cursor, pulses>>
      <4>1. highestSeen <= head
        BY <1>0 DEF WalkInv
      <4>2. highestSeen' = MaxOf(highestSeen, e) /\ stream' = Closed
            /\ UNCHANGED <<pc, scan, page, openHead, head, cursor, pulses>>
        BY <1>6, <2>5 DEF LiveHandlerThrows
      <4> QED BY <1>p, <2>1, <4>1, <4>2 DEF MaxOf, Ids
    <3>2. TypeOK'
      BY <1>0, <1>p, <2>2, <2>3, <3>1 DEF TypeOK, Closed, Streams
    <3>3. WalkInv'
      BY <1>0, <1>p, <2>2, <3>1 DEF TypeOK, WalkInv, Closed
    <3> QED BY <2>2, <3>2, <3>3 DEF IInv
  <2> QED BY <2>4, <2>5
<1>7. CASE StreamEnds
  <2>1. spent' \in Spending
    BY <1>0, <1>p, <1>7, SpendFacts DEF StreamEnds, TypeOK
  <2>2. CursorNeverSkips' /\ CountedExactlyOnce'
    BY <1>0, <1>p, <1>7 DEF StreamEnds, durable, CursorNeverSkips, CountedExactlyOnce, Settled
  <2>3. CASE pc = "opening"
    <3>1. LeaveSession("failed") /\ UNCHANGED <<head, durable, pulses>>
      BY <1>7, <2>3 DEF StreamEnds, Throw
    <3>2. TypeOK' /\ WalkInv'
      BY <1>0, <1>p, <2>1, <3>1, LeaveSessionFacts DEF TypeOK, durable
    <3> QED BY <2>2, <3>2 DEF IInv
  <2>4. CASE pc # "opening"
    <3>1. stream' = Closed /\ UNCHANGED <<pc, highestSeen, scan, page, openHead, head, durable, pulses>>
      BY <1>7, <2>4 DEF StreamEnds
    <3>2. TypeOK' /\ WalkInv'
      BY <1>0, <1>p, <2>1, <3>1 DEF TypeOK, WalkInv, Closed, durable, Settled, Streams
    <3> QED BY <2>2, <3>2 DEF IInv
  <2> QED BY <2>3, <2>4
<1>8. CASE GetEvents
  <2> DEFINE end == PageEnd(scan.pos, scan.stop)
  <2>1. /\ pc \in Scanning
        /\ scan.pos \in 1..(head + 1)
        /\ scan.stop \in 0..head
        /\ head \in 0..MaxEvent
        /\ scan.stop # NoStop => scan.pos <= scan.stop
    BY <1>0, <1>p, <1>8 DEF GetEvents, TypeOK, WalkInv, Scanning, NoStop
  <2>2. /\ end \in 0..MaxEvent
        /\ end <= head
        /\ scan.pos <= end + 1
        /\ end + 1 <= scan.pos + PageSize
        /\ scan.stop # NoStop => end < scan.stop /\ end + 1 \in {scan.pos + PageSize, scan.stop}
    BY <2>1, PageEndFacts
  <2>3. page' = [lo |-> scan.pos, hi |-> end, here |-> TRUE]
    BY <1>8 DEF GetEvents
  <2>4. UNCHANGED <<head, durable, pc, highestSeen, stream, scan, openHead, pulses, spent>>
    BY <1>8 DEF GetEvents
  <2> HIDE DEF end
  <2>5. TypeOK'
    BY <1>0, <1>p, <2>1, <2>2, <2>3, <2>4 DEF TypeOK, durable, Pages
  <2>6. WalkInv'
    BY <1>0, <1>p, <2>1, <2>2, <2>3, <2>4 DEF TypeOK, WalkInv, durable, Settled
  <2> QED
    BY <1>0, <1>p, <2>4, <2>5, <2>6 DEF IInv, CursorNeverSkips, CountedExactlyOnce, durable, Settled
<1>9. CASE GetEventsFails
  <2>1. spent' \in Spending
    BY <1>0, <1>p, <1>9, SpendFacts DEF GetEventsFails, TypeOK
  <2>2. \E place \in {"down", "failed"} : LeaveSession(place)
    BY <1>9 DEF GetEventsFails, Throw
  <2>3. TypeOK' /\ WalkInv'
    BY <1>0, <1>p, <1>9, <2>1, <2>2, LeaveSessionFacts DEF GetEventsFails, TypeOK, durable
  <2> QED
    BY <1>0, <1>p, <1>9, <2>3 DEF GetEventsFails, IInv, CursorNeverSkips, CountedExactlyOnce, durable, Settled
<1>10. CASE HandlePage
  <2>1. /\ pc \in Scanning /\ page.here
        /\ page.lo = scan.pos /\ page.lo >= 1
        /\ page.hi + 1 = page.lo + PageSize
        /\ page.hi <= head /\ page.hi \in 1..MaxEvent
        /\ scan.stop # NoStop => page.hi + 1 <= scan.stop
    BY <1>0, <1>p, <1>10 DEF HandlePage, More, TypeOK, WalkInv
  <2>2. PageIds \subseteq Ids
    BY <1>p, <2>1 DEF PageIds, Ids
  <2>3. \A x \in Ids : x <= page.hi => x \in Settled \cup PageIds
    <3>1. \A x \in Ids : x < page.lo => x \in Settled
      BY <1>0, <2>1 DEF WalkInv
    <3> QED BY <1>p, <2>1, <3>1 DEF PageIds, Ids
  <2>4. /\ cursor' \in 0..MaxEvent /\ cursor' <= head
        /\ \A x \in Ids : cursor <= x /\ x < cursor' => x \in Settled \cup PageIds
    <3>1. cursor' = cursor \/ cursor' = MaxOf(cursor, MaxOf(scan.start, page.hi))
      BY <1>10 DEF HandlePage, PageProgress, LastId, Checkpoint
    <3>2. cursor <= head /\ scan.start <= page.hi
      BY <1>0, <1>p, <2>1 DEF CursorNeverSkips, WalkInv
    <3> QED BY <1>p, <2>1, <2>3, <3>1, <3>2 DEF MaxOf, Ids
  <2>5. Record(PageIds) /\ head' = head
    BY <1>10 DEF HandlePage
  <2>6. /\ dedupe' \subseteq Ids
        /\ Settled' = Settled \cup PageIds
        /\ tally' \in [Ids -> Nat]
        /\ CountedExactlyOnce'
        /\ CursorNeverSkips'
    BY <2>2, <2>4, <2>5, DurableFacts
  <2>7. highestSeen' \in 0..MaxEvent /\ highestSeen' <= head
    BY <1>0, <1>p, <1>10, <2>1 DEF HandlePage, SeenAfterPage, MaxOf, TypeOK, WalkInv
  <2>8. /\ scan' \in Scans
        /\ scan'.start = scan.start /\ scan'.stop = scan.stop /\ scan'.pos = page.hi + 1
    BY <1>0, <1>p, <1>10, <2>1 DEF HandlePage, TypeOK, Scans
  <2>9. page' = NoPage /\ UNCHANGED <<pc, stream, openHead, pulses, spent>>
    BY <1>10 DEF HandlePage
  <2>10. TypeOK'
    BY <1>0, <1>p, <2>4, <2>5, <2>6, <2>7, <2>8, <2>9 DEF TypeOK, NoPage, Pages
  <2>11. WalkInv'
    <3>1. stream'.next <= head' + 1 /\ ~page'.here
      BY <1>0, <2>5, <2>9 DEF WalkInv, NoPage
    <3>2. /\ 1 <= scan'.pos /\ scan'.pos <= head' + 1
          /\ scan'.start <= scan'.pos /\ scan'.start <= head'
      BY <1>0, <1>p, <2>1, <2>5, <2>8 DEF WalkInv
    <3>3. \A x \in Ids : x < scan'.pos => x \in Settled'
      BY <1>p, <2>3, <2>6, <2>8 DEF Ids
    <3>4. pc' \in {"opening", "replay", "backfill"} => scan'.stop = NoStop
      BY <1>0, <2>8, <2>9 DEF WalkInv
    <3>5. pc' \in {"tail", "fixed"} =>
            scan'.stop # NoStop /\ scan'.pos <= scan'.stop /\ scan'.stop <= head'
      BY <1>0, <2>1, <2>5, <2>8, <2>9 DEF WalkInv
    <3> QED BY <2>5, <2>7, <3>1, <3>2, <3>3, <3>4, <3>5 DEF WalkInv
  <2> QED BY <2>6, <2>10, <2>11 DEF IInv
<1>11. CASE FinishReplay
  <2>1. /\ pc = "replay" /\ page.here
        /\ page.lo = scan.pos /\ page.lo >= 1
        /\ page.hi <= head /\ page.hi \in 0..MaxEvent
        /\ page.lo <= page.hi + 1
        /\ scan.start <= scan.pos /\ scan.start <= head /\ scan.start \in 0..MaxEvent
    BY <1>0, <1>p, <1>11 DEF FinishReplay, TypeOK, WalkInv, Scanning
  <2>2. PageIds \subseteq Ids
    BY <1>p, <2>1 DEF PageIds, Ids
  <2>3. LastId \in 0..MaxEvent /\ LastId <= head
    BY <1>0, <1>p, <2>1 DEF LastId, MaxOf, TypeOK
  <2>4. \A x \in Ids : x < LastId => x \in Settled \cup PageIds
    <3>1. \A x \in Ids : x < page.lo => x \in Settled
      BY <1>0, <2>1 DEF WalkInv, Scanning
    <3> QED BY <1>p, <2>1, <3>1 DEF LastId, MaxOf, PageIds, Ids
  <2>5. /\ cursor' \in 0..MaxEvent /\ cursor' <= head
        /\ \A x \in Ids : cursor <= x /\ x < cursor' => x \in Settled \cup PageIds
    BY <1>0, <1>p, <1>11, <2>3, <2>4
    DEF FinishReplay, PageProgress, Checkpoint, MaxOf, TypeOK, CursorNeverSkips, Ids
  <2>6. Record(PageIds) /\ head' = head
    BY <1>11 DEF FinishReplay
  <2>7. /\ dedupe' \subseteq Ids
        /\ Settled' = Settled \cup PageIds
        /\ tally' \in [Ids -> Nat]
        /\ CountedExactlyOnce'
        /\ CursorNeverSkips'
    BY <2>2, <2>5, <2>6, DurableFacts
  <2>8. /\ SeenAfterPage \in 0..MaxEvent /\ SeenAfterPage <= head
        /\ highestSeen' = SeenAfterPage
    BY <1>0, <1>p, <1>11, <2>1 DEF FinishReplay, SeenAfterPage, MaxOf, TypeOK, WalkInv
  <2>9. page' = NoPage /\ UNCHANGED <<stream, openHead, pulses, spent>>
    BY <1>11 DEF FinishReplay
  <2> DEFINE watermark == MaxOf(LastId, SeenAfterPage)
  <2>10. watermark \in 0..MaxEvent /\ watermark <= head
    BY <2>3, <2>8 DEF MaxOf
  <2>11. \/ /\ watermark > LastId /\ pc' = "tail"
            /\ scan' = [start |-> LastId, stop |-> watermark, pos |-> MaxOf(LastId, 1)]
         \/ pc' = "live" /\ scan' = NoScan
    BY <1>11 DEF FinishReplay, Walk
  <2>12. MaxOf(LastId, 1) \in 1..MaxEvent \/ LastId = 0
    BY <2>3 DEF MaxOf
  <2> HIDE DEF watermark
  <2>13. TypeOK'
    BY <1>0, <1>p, <2>3, <2>5, <2>6, <2>7, <2>8, <2>9, <2>10, <2>11
    DEF TypeOK, NoPage, NoScan, NoStop, MaxOf, Places, Scanning, InSession, Scans, Pages
  <2>14. WalkInv'
    <3>1. stream'.next <= head' + 1 /\ ~page'.here /\ highestSeen' <= head'
      BY <1>0, <2>6, <2>8, <2>9 DEF WalkInv, NoPage
    <3>2. CASE pc' = "live"
      BY <3>1, <3>2 DEF WalkInv, Scanning
    <3>3. CASE pc' = "tail"
      <4>1. /\ scan'.start = LastId /\ scan'.stop = watermark
            /\ scan'.pos = MaxOf(LastId, 1) /\ watermark > LastId
        BY <2>11, <3>3
      <4>2. /\ 1 <= scan'.pos /\ scan'.pos <= scan'.stop /\ scan'.stop <= head'
            /\ scan'.start <= scan'.pos /\ scan'.start <= head' /\ scan'.stop # NoStop
        BY <1>p, <2>3, <2>6, <2>10, <4>1 DEF MaxOf, NoStop
      <4>3. \A x \in Ids : x < scan'.pos => x \in Settled'
        BY <1>p, <2>3, <2>4, <2>7, <4>1 DEF MaxOf, Ids
      <4>4. pc' \notin {"opening", "replay", "backfill"}
        BY <3>3
      <4>5. scan'.pos <= head' + 1
        BY <1>p, <2>3, <2>6, <2>10, <4>1, <4>2 DEF MaxOf
      <4> QED BY <3>1, <4>2, <4>3, <4>4, <4>5 DEF WalkInv
    <3> QED BY <2>11, <3>2, <3>3
  <2> QED BY <2>7, <2>13, <2>14 DEF IInv
<1>12. CASE FinishFixed
  <2>1. /\ pc \in {"tail", "fixed"} /\ page.here
        /\ page.lo = scan.pos /\ page.lo >= 1
        /\ page.hi <= head /\ page.hi \in 0..MaxEvent
        /\ page.hi + 1 = scan.stop
        /\ scan.stop \in 1..MaxEvent /\ scan.stop <= head
    BY <1>0, <1>p, <1>12 DEF FinishFixed, More, TypeOK, WalkInv, Scanning, NoStop
  <2>2. PageIds \subseteq Ids
    BY <1>p, <2>1 DEF PageIds, Ids
  <2>3. \A x \in Ids : x < scan.stop => x \in Settled \cup PageIds
    <3>1. \A x \in Ids : x < page.lo => x \in Settled
      BY <1>0, <2>1 DEF WalkInv, Scanning
    <3> QED BY <1>p, <2>1, <3>1 DEF PageIds, Ids
  <2>4. /\ cursor' \in 0..MaxEvent /\ cursor' <= head
        /\ \A x \in Ids : cursor <= x /\ x < cursor' => x \in Settled \cup PageIds
    BY <1>0, <1>p, <1>12, <2>1, <2>3 DEF FinishFixed, Checkpoint, MaxOf, TypeOK, CursorNeverSkips, Ids
  <2>5. Record(PageIds) /\ head' = head
    BY <1>12 DEF FinishFixed
  <2>6. /\ dedupe' \subseteq Ids
        /\ Settled' = Settled \cup PageIds
        /\ tally' \in [Ids -> Nat]
        /\ CountedExactlyOnce'
        /\ CursorNeverSkips'
    BY <2>2, <2>4, <2>5, DurableFacts
  <2>7. pc' = "live" /\ scan' = NoScan /\ page' = NoPage
        /\ UNCHANGED <<highestSeen, stream, openHead, pulses, spent>>
    BY <1>12 DEF FinishFixed
  <2>8. TypeOK'
    BY <1>0, <1>p, <2>4, <2>5, <2>6, <2>7
    DEF TypeOK, NoPage, NoScan, NoStop, Places, Scanning, InSession, Scans, Pages
  <2>9. WalkInv'
    BY <1>0, <2>5, <2>7 DEF WalkInv, NoPage, Scanning
  <2> QED BY <2>6, <2>8, <2>9 DEF IInv
<1>13. CASE FinishBackfill
  <2>1. /\ pc = "backfill" /\ page.here
        /\ page.lo = scan.pos /\ page.lo >= 1
        /\ page.hi <= head /\ page.hi \in 0..MaxEvent
        /\ page.lo <= page.hi + 1
        /\ scan.start <= scan.pos /\ scan.start <= head /\ scan.start \in 0..MaxEvent
    BY <1>0, <1>p, <1>13 DEF FinishBackfill, TypeOK, WalkInv, Scanning
  <2>2. PageIds \subseteq Ids
    BY <1>p, <2>1 DEF PageIds, Ids
  <2>3. LastId \in 0..MaxEvent /\ LastId <= head
    BY <1>0, <1>p, <2>1 DEF LastId, MaxOf, TypeOK
  <2>4. \A x \in Ids : x < LastId => x \in Settled \cup PageIds
    <3>1. \A x \in Ids : x < page.lo => x \in Settled
      BY <1>0, <2>1 DEF WalkInv, Scanning
    <3> QED BY <1>p, <2>1, <3>1 DEF LastId, MaxOf, PageIds, Ids
  <2>5. /\ cursor' \in 0..MaxEvent /\ cursor' <= head
        /\ \A x \in Ids : cursor <= x /\ x < cursor' => x \in Settled \cup PageIds
    BY <1>0, <1>p, <1>13, <2>3, <2>4
    DEF FinishBackfill, Checkpoint, MaxOf, TypeOK, CursorNeverSkips, Ids
  <2>6. Record(PageIds) /\ head' = head
    BY <1>13 DEF FinishBackfill
  <2>7. /\ dedupe' \subseteq Ids
        /\ Settled' = Settled \cup PageIds
        /\ tally' \in [Ids -> Nat]
        /\ CountedExactlyOnce'
        /\ CursorNeverSkips'
    BY <2>2, <2>5, <2>6, DurableFacts
  <2>8. TypeOK' /\ WalkInv'
    BY <1>0, <1>p, <1>13, <2>5, <2>7, LeaveSessionFacts DEF FinishBackfill, TypeOK
  <2> QED BY <2>7, <2>8 DEF IInv
<1>14. ASSUME NEW last \in 0..MaxEvent, PageHandlerThrows(last) PROVE IInv'
  <2>1. (page.lo..last) \subseteq Ids
    <3>1. page.lo >= 1 /\ last <= MaxEvent
      BY <1>0, <1>p, <1>14 DEF PageHandlerThrows, WalkInv
    <3> QED BY <1>p, <3>1 DEF Ids
  <2>2. cursor' \in 0..MaxEvent /\ head' = head /\ cursor' <= head /\ cursor' = cursor
    BY <1>0, <1>p, <1>14 DEF PageHandlerThrows, TypeOK, CursorNeverSkips
  <2>3. /\ dedupe' \subseteq Ids
        /\ tally' \in [Ids -> Nat]
        /\ CountedExactlyOnce'
        /\ CursorNeverSkips'
    <3>1. \A x \in Ids : cursor <= x /\ x < cursor' => x \in Settled \cup (page.lo..last)
      BY <1>0, <1>p, <2>2 DEF TypeOK, Ids
    <3> QED BY <1>14, <2>1, <2>2, <3>1, DurableFacts DEF PageHandlerThrows
  <2>4. spent' \in Spending
    BY <1>0, <1>p, <1>14, SpendFacts DEF PageHandlerThrows, TypeOK
  <2>5. \E place \in {"down", "failed"} : LeaveSession(place)
    BY <1>14 DEF PageHandlerThrows, Throw
  <2>6. TypeOK' /\ WalkInv'
    BY <1>0, <1>p, <1>14, <2>2, <2>3, <2>4, <2>5, LeaveSessionFacts DEF PageHandlerThrows, TypeOK
  <2> QED BY <2>3, <2>6 DEF IInv
<1>15. CASE Tick
  <2>1. /\ highestSeen > cursor /\ pc' = "fixed"
        /\ scan' = [start |-> cursor, stop |-> highestSeen, pos |-> MaxOf(cursor, 1)]
        /\ UNCHANGED <<head, durable, highestSeen, stream, page, openHead, pulses, spent>>
    BY <1>15 DEF Tick, Walk
  <2>2. ~page.here
    BY <1>0, <1>15 DEF Tick, WalkInv, Scanning
  <2>3. /\ 1 <= MaxOf(cursor, 1) /\ MaxOf(cursor, 1) <= highestSeen
        /\ cursor <= MaxOf(cursor, 1) /\ highestSeen <= head
    BY <1>0, <1>p, <2>1 DEF MaxOf, WalkInv
  <2>4. TypeOK'
    <3>1. MaxOf(cursor, 1) \in 0..(MaxEvent + 1)
      BY <1>p, <2>3 DEF MaxOf
    <3>2. scan' \in Scans
      BY <1>p, <2>1, <3>1 DEF Scans
    <3> QED BY <1>0, <2>1, <3>2 DEF TypeOK, durable, Places, Scanning, InSession
  <2>5. WalkInv'
    <3>1. \A e \in Ids : e < scan'.pos => e \in Settled'
      BY <1>0, <1>p, <2>1 DEF CursorNeverSkips, durable, Settled, MaxOf, Ids
    <3>2. /\ 1 <= scan'.pos /\ scan'.pos <= scan'.stop /\ scan'.pos <= head' + 1
          /\ scan'.start <= scan'.pos /\ scan'.start <= head'
          /\ scan'.stop # NoStop /\ scan'.stop <= head'
      BY <1>p, <2>1, <2>3 DEF MaxOf, NoStop
    <3>3. ~page'.here /\ highestSeen' <= head' /\ stream'.next <= head' + 1
      BY <1>0, <2>1, <2>2 DEF WalkInv
    <3>4. pc' \notin {"opening", "replay", "backfill"}
      BY <2>1
    <3> QED BY <3>1, <3>2, <3>3, <3>4 DEF WalkInv
  <2> QED
    BY <1>0, <2>1, <2>4, <2>5 DEF IInv, CursorNeverSkips, CountedExactlyOnce, durable, Settled
<1>16. CASE NoticeStreamEnd
  <2>1. LeaveSession("failed") /\ UNCHANGED <<head, durable, pulses, spent>>
    BY <1>16 DEF NoticeStreamEnd, Throw
  <2>2. TypeOK' /\ WalkInv'
    BY <1>0, <1>p, <2>1, LeaveSessionFacts DEF TypeOK, durable
  <2> QED BY <1>0, <1>p, <2>1, <2>2 DEF IInv, CursorNeverSkips, CountedExactlyOnce, durable, Settled
<1>17. CASE Backoff
  BY <1>0, <1>p, <1>17
  DEF Backoff, IInv, TypeOK, WalkInv, CursorNeverSkips, CountedExactlyOnce, durable, Settled, session,
      Places, Scanning, InSession
<1>18. CASE Abort
  <2>1. spent' \in Spending
    BY <1>0, <1>p, <1>18, SpendFacts DEF Abort, TypeOK
  <2>2. TypeOK' /\ WalkInv'
    BY <1>0, <1>p, <1>18, <2>1, LeaveSessionFacts DEF Abort, TypeOK, durable
  <2> QED BY <1>0, <1>p, <1>18, <2>2 DEF Abort, IInv, CursorNeverSkips, CountedExactlyOnce, durable, Settled
<1>19. ASSUME NEW last \in 0..MaxEvent, Crash(last) PROVE IInv'
  <2> DEFINE S == IF page.here THEN page.lo..last ELSE {}
  <2>1. S \subseteq Ids
    <3>1. page.here => page.lo >= 1 /\ last <= MaxEvent
      BY <1>0, <1>p, <1>19 DEF Crash, WalkInv
    <3> QED BY <1>p, <3>1 DEF Ids
  <2>2. cursor' \in 0..MaxEvent /\ head' = head /\ cursor' <= head /\ cursor' = cursor
    BY <1>0, <1>p, <1>19 DEF Crash, TypeOK, CursorNeverSkips
  <2>3. /\ dedupe' \subseteq Ids
        /\ tally' \in [Ids -> Nat]
        /\ CountedExactlyOnce'
        /\ CursorNeverSkips'
    <3>1. \A x \in Ids : cursor <= x /\ x < cursor' => x \in Settled \cup S
      BY <1>0, <1>p, <2>2 DEF TypeOK, Ids
    <3>2. Record(S)
      BY <1>19 DEF Crash
    <3> HIDE DEF S
    <3> QED BY <2>1, <2>2, <3>1, <3>2, DurableFacts
  <2>4. spent' \in Spending
    BY <1>0, <1>p, <1>19, SpendFacts DEF Crash, TypeOK
  <2>5. TypeOK' /\ WalkInv'
    BY <1>0, <1>p, <1>19, <2>2, <2>3, <2>4, LeaveSessionFacts DEF Crash, TypeOK
  <2> QED BY <2>3, <2>5 DEF IInv
<1>20. CASE UNCHANGED vars
  BY <1>0, <1>p, <1>20
  DEF vars, durable, session, Settled, IInv, TypeOK, WalkInv, CursorNeverSkips, CountedExactlyOnce
<1> QED
  BY <1>1, <1>2, <1>3, <1>4, <1>5, <1>6, <1>7, <1>8, <1>9, <1>10, <1>11, <1>12, <1>13,
     <1>14, <1>15, <1>16, <1>17, <1>18, <1>19, <1>20 DEF Next

(* The inductive invariant of the shard worker: where its walk is, what it *)
(* has incorporated and counted, and how far its cursor has come.          *)
THEOREM InductiveInvariant == Spec => []IInv
BY InitIInv, NextIInv, PTL DEF Spec

(* The variables keep their types for every value of the constants. *)
THEOREM TypeCorrect == Spec => []TypeOK
BY InductiveInvariant, PTL DEF IInv

(* Everything below the position of a page walk is incorporated or too old. *)
THEOREM WalkSound == Spec => []WalkInv
BY InductiveInvariant, PTL DEF IInv

(* The durable cursor never passes an event that is missing and not too old. *)
THEOREM CursorSafe == Spec => []CursorNeverSkips
BY InductiveInvariant, PTL DEF IInv

(* Every incorporated action is counted exactly once. *)
THEOREM CountingExact == Spec => []CountedExactlyOnce
BY InductiveInvariant, PTL DEF IInv

-----------------------------------------------------------------------------
(* A step that is not the source's either leaves the database alone or     *)
(* records a set of existing events and moves the cursor forward.          *)
DurableStep ==
  /\ head' = head
  /\ \/ UNCHANGED durable
     \/ \E S \in SUBSET (1..head) : Record(S) /\ cursor' \in cursor..head

(* So does every step of the worker, crashes included. *)
LEMMA StepShape == IInv /\ IInv' /\ Next => Produce \/ DurableStep
<1> SUFFICES ASSUME IInv, IInv', Next, ~Produce PROVE DurableStep
  OBVIOUS
<1>0. TypeOK /\ WalkInv /\ cursor <= head
  BY DEF IInv, CursorNeverSkips
<1>p. /\ head \in Nat /\ cursor \in Nat /\ cursor <= head
      /\ page.lo \in Nat /\ page.hi \in Nat
      /\ page.here => 1 <= page.lo /\ page.hi <= head
  BY <1>0, Parts DEF WalkInv
<1>c. cursor' \in Nat /\ cursor' <= head'
  BY Parts DEF IInv, CursorNeverSkips, TypeOK
<1>1. CASE UNCHANGED <<head, durable>>
  BY <1>1 DEF DurableStep
<1>2. ASSUME NEW S, S \subseteq 1..head, Record(S), head' = head, cursor <= cursor'
      PROVE  DurableStep
  BY <1>2, <1>p, <1>c DEF DurableStep
<1>3. ASSUME NEW e \in Ids, NEW S, S \subseteq {e}, e \in Deliverable, Record(S),
             UNCHANGED <<head, cursor>>
      PROVE  DurableStep
  <2>1. e \in 1..head
    BY <1>0, <1>p, <1>3, Parts DEF Deliverable, Ids
  <2>2. S \subseteq 1..head /\ cursor <= cursor' /\ head' = head
    BY <1>3, <1>p, <2>1
  <2> QED BY <1>2, <1>3, <2>2
<1>4. ASSUME page.here, NEW last, last \in 0..page.hi, Record(page.lo..last), head' = head,
             cursor <= cursor'
      PROVE  DurableStep
  <2>1. (page.lo..last) \subseteq 1..head
    BY <1>4, <1>p
  <2> QED BY <1>2, <1>4, <2>1
<1>5. ASSUME NEW e \in Ids, NEW fresh \in BOOLEAN, HandleLive(e, fresh) PROVE DurableStep
  BY <1>3, <1>5 DEF HandleLive
<1>6. ASSUME NEW e \in Ids, NEW committed \in BOOLEAN, LiveHandlerThrows(e, committed)
      PROVE  DurableStep
  <2> DEFINE S == IF committed THEN {e} ELSE {}
  <2>1. S \subseteq {e} /\ Record(S) /\ e \in Deliverable /\ UNCHANGED <<head, cursor>>
    BY <1>6 DEF LiveHandlerThrows
  <2> HIDE DEF S
  <2> QED BY <1>3, <2>1
<1>7. CASE HandlePage
  <2>1. Record(page.lo..page.hi) /\ head' = head /\ page.here /\ cursor <= cursor'
    BY <1>7, <1>0, <1>p, Parts DEF HandlePage, PageIds, PageProgress, LastId, Checkpoint, MaxOf
  <2> QED BY <1>4, <1>p, <2>1
<1>8. CASE FinishReplay
  <2>1. Record(page.lo..page.hi) /\ head' = head /\ page.here /\ cursor <= cursor'
    BY <1>8, <1>0, <1>p, Parts DEF FinishReplay, PageIds, PageProgress, LastId, Checkpoint, MaxOf
  <2> QED BY <1>4, <1>p, <2>1
<1>9. CASE FinishFixed
  <2>1. Record(page.lo..page.hi) /\ head' = head /\ page.here /\ cursor <= cursor'
    BY <1>9, <1>0, <1>p, Parts DEF FinishFixed, PageIds, Checkpoint, MaxOf
  <2> QED BY <1>4, <1>p, <2>1
<1>10. CASE FinishBackfill
  <2>1. Record(page.lo..page.hi) /\ head' = head /\ page.here /\ cursor <= cursor'
    BY <1>10, <1>0, <1>p, Parts DEF FinishBackfill, PageIds, LastId, Checkpoint, MaxOf
  <2> QED BY <1>4, <1>p, <2>1
<1>11. ASSUME NEW last \in 0..MaxEvent, PageHandlerThrows(last) PROVE DurableStep
  <2>1. Record(page.lo..last) /\ UNCHANGED <<head, cursor>> /\ page.here /\ last \in 0..page.hi
    BY <1>11, <1>p DEF PageHandlerThrows
  <2> QED BY <1>4, <1>p, <2>1
<1>12. ASSUME NEW last \in 0..MaxEvent, Crash(last) PROVE DurableStep
  <2>1. CASE page.here
    <3>1. Record(page.lo..last) /\ UNCHANGED <<head, cursor>> /\ last \in 0..page.hi
      BY <1>12, <1>p, <2>1 DEF Crash
    <3> QED BY <1>4, <1>p, <2>1, <3>1
  <2>2. CASE ~page.here
    <3>1. Record({}) /\ UNCHANGED <<head, cursor>>
      BY <1>12, <2>2 DEF Crash
    <3> QED BY <1>2, <1>p, <3>1
  <2> QED BY <2>1, <2>2
<1>13. CASE \/ StartRun \/ StartBackfill \/ Subscribe \/ StreamEnds \/ GetEvents
            \/ GetEventsFails \/ Tick \/ NoticeStreamEnd \/ Backoff \/ Abort
  BY <1>1, <1>13
  DEF StartRun, StartBackfill, Subscribe, StreamEnds, GetEvents, GetEventsFails, Tick,
      NoticeStreamEnd, Backoff, Abort
<1> QED
  BY <1>5, <1>6, <1>7, <1>8, <1>9, <1>10, <1>11, <1>12, <1>13 DEF Next

(* The shard worker implements the exactly-once log with its one cursor.   *)
THEOREM Refinement == Spec => ImplementsReplayLog
<1>1. Init => Log!Init
  BY DEF Init, Log!Init, Ids
<1>2. IInv /\ IInv' /\ [Next]_vars => [Log!Next]_(Log!vars)
  <2> SUFFICES ASSUME IInv, IInv', [Next]_vars PROVE [Log!Next]_(Log!vars)
    OBVIOUS
  <2>1. CASE Produce
    BY <2>1 DEF Produce, durable, Log!Next, Log!Produce
  <2>2. CASE DurableStep
    <3>1. CASE UNCHANGED durable
      BY <2>2, <3>1 DEF DurableStep, durable, Log!vars
    <3>2. ASSUME NEW S \in SUBSET (1..head), Record(S), cursor' \in cursor..head
          PROVE  Log!Next
      <4>1. \A e \in 1..MaxEvent : e < cursor' => e \in dedupe' \cup Old
        BY DEF IInv, CursorNeverSkips, Settled, Ids
      <4>2. Log!Incorporate(S \ Old, cursor')
        <5>1. (S \ Settled) \cap Actions = ((S \ Old) \ dedupe) \cap Actions
          BY DEF Settled
        <5>2. dedupe' = dedupe \cup (S \ Old) /\ UNCHANGED head
          BY <2>2, <3>2 DEF DurableStep, Record
        <5>3. tally' = [e \in 1..MaxEvent |->
                 IF e \in ((S \ Old) \ dedupe) \cap Actions THEN tally[e] + 1 ELSE tally[e]]
          BY <3>2, <5>1 DEF Record, Ids
        <5> QED BY <4>1, <5>2, <5>3 DEF Log!Incorporate
      <4>3. S \ Old \in SUBSET ((1..head) \ Old)
        BY <3>2
      <4> QED BY <3>2, <4>2, <4>3 DEF Log!Next
    <3> QED BY <2>2, <3>1, <3>2 DEF DurableStep
  <2>3. CASE UNCHANGED vars
    BY <2>3 DEF vars, durable, Log!vars
  <2> QED BY <2>1, <2>2, <2>3, StepShape
<1> QED
  BY <1>1, <1>2, InductiveInvariant, PTL DEF Spec, ImplementsReplayLog, Log!Spec
-----------------------------------------------------------------------------
(* Only a live event pulses, and only one that is new. *)
LEMMA PulseStep ==
  ASSUME IInv, IInv', PulsedAtMostOnce, Next
  PROVE  PulsedAtMostOnce'
<1>1. TypeOK /\ CountedExactlyOnce /\ TypeOK' /\ CountedExactlyOnce'
  BY DEF IInv
<1>2. dedupe \subseteq dedupe'
  BY StepShape DEF Produce, DurableStep, durable, Record
<1>3. ASSUME NEW e \in Ids PROVE tally[e] \in {0, 1} /\ tally[e] <= tally'[e]
  BY <1>1, <1>2 DEF CountedExactlyOnce
<1>4. ASSUME pulses' = pulses PROVE PulsedAtMostOnce'
  <2> SUFFICES ASSUME NEW e \in Ids PROVE pulses'[e] <= tally'[e]
    BY DEF PulsedAtMostOnce
  <2>1. pulses[e] \in Nat /\ tally[e] \in Nat /\ tally'[e] \in Nat /\ pulses[e] <= tally[e]
    BY <1>1 DEF TypeOK, PulsedAtMostOnce
  <2> QED BY <1>3, <1>4, <2>1
<1>5. ASSUME NEW e \in Ids, NEW fresh \in BOOLEAN, HandleLive(e, fresh)
      PROVE  PulsedAtMostOnce'
  <2>1. CASE e \in Actions \ Settled
    <3>1. tally[e] = 0 /\ tally'[e] = 1
      BY <1>1, <1>5, <2>1 DEF CountedExactlyOnce, HandleLive, Record, Settled
    <3>2. pulses[e] = 0
      BY <1>1, <3>1 DEF TypeOK, PulsedAtMostOnce
    <3>3. pulses' = pulses \/ pulses' = [pulses EXCEPT ![e] = 1]
      BY <1>5, <3>2 DEF HandleLive
    <3>4. ASSUME NEW x \in Ids PROVE pulses'[x] <= tally'[x]
      <4>1. pulses[x] \in Nat /\ tally[x] \in Nat /\ tally'[x] \in Nat /\ pulses[x] <= tally[x]
        BY <1>1 DEF TypeOK, PulsedAtMostOnce
      <4>2. pulses \in [Ids -> Nat]
        BY <1>1 DEF TypeOK
      <4> QED BY <1>3, <3>1, <3>3, <4>1, <4>2
    <3> QED BY <3>4 DEF PulsedAtMostOnce
  <2>2. CASE e \notin Actions \ Settled
    BY <1>4, <1>5, <2>2 DEF HandleLive, PulseDue
  <2> QED BY <2>1, <2>2
<1>6. (\E e \in Ids, fresh \in BOOLEAN : HandleLive(e, fresh)) \/ pulses' = pulses
  BY DEF Next, Produce, StartRun, StartBackfill, Subscribe, LiveHandlerThrows, StreamEnds,
         GetEvents, GetEventsFails, HandlePage, FinishReplay, FinishFixed, FinishBackfill,
         PageHandlerThrows, Tick, NoticeStreamEnd, Backoff, Abort, Crash
<1> QED BY <1>4, <1>5, <1>6

(* No event is ever pulsed twice, and none the buckets do not hold. *)
THEOREM PulsesSafe == Spec => []PulsedAtMostOnce
<1>1. Init => PulsedAtMostOnce
  BY DEF Init, PulsedAtMostOnce
<1>2. IInv /\ IInv' /\ PulsedAtMostOnce /\ [Next]_vars => PulsedAtMostOnce'
  <2>1. UNCHANGED vars /\ PulsedAtMostOnce => PulsedAtMostOnce'
    BY DEF vars, durable, PulsedAtMostOnce
  <2> QED BY <2>1, PulseStep
<1> QED BY <1>1, <1>2, InductiveInvariant, PTL DEF Spec

-----------------------------------------------------------------------------
(* What the stream can still deliver was not there when the session        *)
(* subscribed.                                                             *)
BeyondBacklog == openHead <= head /\ (stream.up = TRUE => stream.next > openHead)

(* Only a live event moves the stream on while it is up, and only a new    *)
(* subscription moves the head it started from.                            *)
LEMMA BacklogStep ==
  ASSUME TypeOK, BeyondBacklog, [Next]_vars
  PROVE  BeyondBacklog'
<1>1. /\ head \in Nat /\ openHead \in Nat /\ stream.next \in Nat /\ stream.up \in BOOLEAN
      /\ stream \in Streams
  BY Parts DEF TypeOK
<1>2. CASE UNCHANGED <<stream, openHead>> /\ head' \in {head, head + 1}
  BY <1>1, <1>2 DEF BeyondBacklog
<1>3. ASSUME NEW place, LeaveSession(place), UNCHANGED head PROVE BeyondBacklog'
  BY <1>1, <1>3 DEF LeaveSession, Closed, BeyondBacklog
<1>4. CASE Subscribe
  BY <1>1, <1>4 DEF Subscribe, BeyondBacklog
<1>5. ASSUME NEW e \in Ids, NEW fresh \in BOOLEAN, HandleLive(e, fresh) PROVE BeyondBacklog'
  <2>1. e \in Nat /\ stream' = [stream EXCEPT !.next = e + 1] /\ UNCHANGED <<head, openHead>>
    BY <1>5, ConstantsAssumption DEF HandleLive, Ids
  <2>2. stream'.next = e + 1 /\ stream.up = TRUE
    BY <1>1, <1>5, <2>1 DEF HandleLive, Streams
  <2>3. e \in {head} \/ e \in {stream.next} \/ e \in stream.next .. head
    BY <1>5 DEF HandleLive, Deliverable
  <2>4. e >= openHead
    BY <1>1, <2>1, <2>2, <2>3 DEF BeyondBacklog
  <2> QED BY <1>1, <2>1, <2>2, <2>4 DEF BeyondBacklog
<1>6. CASE stream' = Closed /\ UNCHANGED <<head, openHead>>
  BY <1>1, <1>6 DEF Closed, BeyondBacklog
<1>7. CASE UNCHANGED vars
  BY <1>2, <1>7 DEF vars, session
<1>8. ASSUME NEW e \in Ids, NEW committed \in BOOLEAN, LiveHandlerThrows(e, committed)
      PROVE  BeyondBacklog'
  BY <1>3, <1>6, <1>8 DEF LiveHandlerThrows, Throw
<1>9. CASE StreamEnds \/ GetEventsFails \/ NoticeStreamEnd \/ FinishBackfill \/ Abort
  BY <1>3, <1>6, <1>9 DEF StreamEnds, GetEventsFails, NoticeStreamEnd, FinishBackfill, Abort, Throw
<1>10. ASSUME NEW last \in 0..MaxEvent, PageHandlerThrows(last) \/ Crash(last) PROVE BeyondBacklog'
  BY <1>3, <1>10 DEF PageHandlerThrows, Crash, Throw
<1>11. CASE Produce \/ StartRun \/ StartBackfill \/ GetEvents \/ HandlePage \/ FinishReplay
            \/ FinishFixed \/ Tick \/ Backoff
  BY <1>2, <1>11 DEF Produce, StartRun, StartBackfill, GetEvents, HandlePage, FinishReplay,
                     FinishFixed, Tick, Backoff, session
<1> QED BY <1>4, <1>5, <1>7, <1>8, <1>9, <1>10, <1>11 DEF Next

(* No backlog pulses: neither what the replay reads nor what the polling   *)
(* client emits as the head it found first.                                *)
THEOREM BacklogIsQuiet == Spec => BacklogNeverPulses
<1>1. Init => BeyondBacklog
  BY DEF Init, Closed, BeyondBacklog
<1>2. TypeOK /\ BeyondBacklog /\ [Next]_vars
        => [\A e \in Ids : pulses'[e] # pulses[e] => e > openHead]_vars
  <2> SUFFICES ASSUME TypeOK, BeyondBacklog, Next, NEW e \in Ids, pulses'[e] # pulses[e]
               PROVE  e > openHead
    BY DEF vars
  <2>1. PICK x \in Ids, fresh \in BOOLEAN : HandleLive(x, fresh)
    BY DEF Next, Produce, StartRun, StartBackfill, Subscribe, LiveHandlerThrows, StreamEnds,
           GetEvents, GetEventsFails, HandlePage, FinishReplay, FinishFixed, FinishBackfill,
           PageHandlerThrows, Tick, NoticeStreamEnd, Backoff, Abort, Crash
  <2>2. PulseDue(x, fresh) /\ pulses' = [pulses EXCEPT ![x] = @ + 1] /\ pc # "opening"
    BY <2>1 DEF HandleLive, PulseDue, Catchup
  <2>3. e = x
    BY <2>2 DEF TypeOK
  <2>4. stream.up = TRUE /\ (e \in {stream.next} \/ e \in stream.next .. head)
    BY <2>1, <2>2, <2>3, Parts DEF HandleLive, Deliverable
  <2>5. stream.next \in Nat /\ openHead \in Nat /\ head \in Nat /\ e \in Nat
    BY Parts, ConstantsAssumption DEF TypeOK, Ids
  <2> QED BY <2>4, <2>5 DEF BeyondBacklog
<1> QED
  BY <1>1, <1>2, BacklogStep, TypeCorrect, PTL DEF Spec, BacklogNeverPulses
=============================================================================
