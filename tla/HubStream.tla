------------------------------ MODULE HubStream -----------------------------
(***************************************************************************)
(* The gRPC transport's subscriptions (observeSubscriptionStream of        *)
(* rpc.ts): what the four listeners on a response stream and cancel() make *)
(* of the stream's events.  gRPC emits buffered data after an error, an    *)
(* error besides the end, and an error when the call is cancelled; only    *)
(* data after the end and anything after `close` never happen.             *)
(***************************************************************************)
EXTENDS Integers

CONSTANTS
  Streams,  \* subscriptions
  MaxData   \* bound: events each stream delivers

VARIABLES
  wire,     \* what each stream has emitted: data, and whether error, end, close
  hub       \* readySettled, doneSettled, cancelIssued, and the calls of onError

hubVars == <<wire, hub>>

HubInit ==
  /\ wire = [s \in Streams |-> [data |-> 0, error |-> FALSE, end |-> FALSE, close |-> FALSE]]
  /\ hub = [s \in Streams |-> [ready |-> "pending", done |-> FALSE, cancelIssued |-> FALSE,
                               handled |-> 0, reported |-> 0]]

(* Mutant: an error that follows the end is reported, too. *)
FinishedReports(h, failed) ==
  [h EXCEPT !.done = TRUE, !.ready = IF @ = "pending" THEN "failed" ELSE @,
            !.reported = IF failed THEN @ + 1 ELSE @]

(* failBeforeReady and finish, and for an error terminateWithError; once   *)
(* done has settled nothing of it has an effect.                           *)
Finished(h, failed) ==
  IF h.done THEN h
  ELSE [h EXCEPT !.done = TRUE, !.ready = IF @ = "pending" THEN "failed" ELSE @,
                 !.reported = IF failed THEN @ + 1 ELSE @]

(* The handler takes the event, or throws: then the stream is cancelled.   *)
Data(s) ==
  /\ ~wire[s].end /\ ~wire[s].close /\ wire[s].data < MaxData
  /\ wire' = [wire EXCEPT ![s].data = @ + 1]
  /\ \/ hub[s].done /\ UNCHANGED hub
     \/ /\ ~hub[s].done
        /\ hub' = [hub EXCEPT ![s].handled = @ + 1, ![s].ready = "ready"]
     \/ /\ ~hub[s].done
        /\ hub' = [hub EXCEPT ![s] = [Finished(@, TRUE) EXCEPT !.cancelIssued = TRUE]]

Error(s) ==
  /\ ~wire[s].error /\ ~wire[s].close
  /\ wire' = [wire EXCEPT ![s].error = TRUE]
  /\ hub' = [hub EXCEPT ![s] = Finished(@, TRUE)]

EndOrClose(s) ==
  /\ ~wire[s].close
  /\ \/ ~wire[s].end /\ wire' = [wire EXCEPT ![s].end = TRUE]
     \/ wire' = [wire EXCEPT ![s].close = TRUE]
  /\ hub' = [hub EXCEPT ![s] = Finished(@, FALSE)]

(* The caller cancels: at most one cancel reaches the stream. *)
CancelStream(s) ==
  /\ ~hub[s].cancelIssued
  /\ hub' = [hub EXCEPT ![s] = [Finished(@, FALSE) EXCEPT !.cancelIssued = TRUE]]
  /\ UNCHANGED wire

HubNext == \E s \in Streams : Data(s) \/ Error(s) \/ EndOrClose(s) \/ CancelStream(s)

HubSpec == HubInit /\ [][HubNext]_hubVars

-----------------------------------------------------------------------------
HubContract == INSTANCE Subscription WITH
  Subs <- Streams,
  ready <- [s \in Streams |-> hub[s].ready],
  ended <- [s \in Streams |-> hub[s].done],
  reported <- [s \in Streams |-> hub[s].reported],
  handled <- [s \in Streams |-> hub[s].handled]

(* Whatever the order in which gRPC emits data, error, end and close, and  *)
(* whenever the caller cancels, the subscription keeps its contract.       *)
StreamImplementsSubscription == HubContract!Spec
=============================================================================
