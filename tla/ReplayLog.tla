------------------------------ MODULE ReplayLog ------------------------------
(***************************************************************************)
(* What the collector's database promises about one source shard, whatever *)
(* the worker that feeds it does: a log of events incorporated exactly     *)
(* once and a cursor that only moves forward and never passes an event of  *)
(* the retention period that has not been incorporated.  The cursor's own  *)
(* event is the one exception: replay resumes inclusively at it, so it may *)
(* still be missing.  ShardSync is the worker and implements this module.  *)
(***************************************************************************)
EXTENDS Naturals

CONSTANTS
  MaxEvent,  \* events the source may produce; ids are their ranks 1..MaxEvent
  Actions,   \* ids whose event normalizes to an activity
  Old        \* ids dated before the retention cutoff: never incorporated

VARIABLES
  head,      \* newest event of the source
  dedupe,    \* event_dedupe: ids incorporated
  tally,     \* how often each event was added to its minute bucket
  cursor     \* cursors.event_id, 0 when there is no row

vars == <<head, dedupe, tally, cursor>>

Init ==
  /\ head = 0
  /\ dedupe = {}
  /\ tally = [e \in 1..MaxEvent |-> 0]
  /\ cursor = 0

Produce ==
  /\ head < MaxEvent
  /\ head' = head + 1
  /\ UNCHANGED <<dedupe, tally, cursor>>

(* Incorporate the events of S, each at most once, and move the cursor to  *)
(* c: everything strictly below it is then incorporated, or too old.       *)
Incorporate(S, c) ==
  /\ dedupe' = dedupe \cup S
  /\ tally' = [e \in 1..MaxEvent |->
                 IF e \in (S \ dedupe) \cap Actions THEN tally[e] + 1 ELSE tally[e]]
  /\ cursor' = c
  /\ \A e \in 1..MaxEvent : e < c => e \in dedupe' \cup Old
  /\ UNCHANGED head

Next ==
  \/ Produce
  \/ \E S \in SUBSET ((1..head) \ Old), c \in cursor..head : Incorporate(S, c)

Spec == Init /\ [][Next]_vars
=============================================================================
