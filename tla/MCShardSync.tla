----------------------------- MODULE MCShardSync -----------------------------
(* Small instances of ShardSync for TLC: behaviours with the gRPC stream,  *)
(* and behaviours with Hypersnap's HTTP polling, for fewer events.         *)
EXTENDS ShardSync

VARIABLE kind

Poll == INSTANCE ShardSync WITH Polling <- TRUE

MCActions == {1, 2, 4} \cap Ids
MCOld == {1} \cap Ids

kindVars == <<kind, vars>>

Polled == kind = "polling" /\ UNCHANGED kind

KindInit == kind \in {"stream", "polling"} /\ Init

KindNext ==
  \/ kind = "stream" /\ Next /\ UNCHANGED kind
  \/ Polled /\ Poll!Next /\ head' < MaxEvent /\ spent'.stops < MaxStops

(* The scheduling the code provides: the process is restarted, requests    *)
(* are answered or fail, timers fire, the subscription keeps delivering.   *)
(* With the gRPC stream this is not enough for every event to arrive: what *)
(* a lagging receiver lost waits for a later event or a new stream.        *)
KindSpec ==
  /\ KindInit /\ [][KindNext]_kindVars
  /\ WF_kindVars(Polled /\ Poll!StartRun)
  /\ WF_kindVars(Polled /\ Poll!Subscribe)
  /\ WF_kindVars(Polled /\ \E e \in Ids, fresh \in BOOLEAN : Poll!HandleLive(e, fresh))
  /\ WF_kindVars(Polled /\ Poll!GetEvents)
  /\ WF_kindVars(Polled /\ Poll!HandlePage)
  /\ WF_kindVars(Polled /\ Poll!FinishReplay)
  /\ WF_kindVars(Polled /\ Poll!FinishFixed)
  /\ WF_kindVars(Polled /\ Poll!FinishBackfill)
  /\ WF_kindVars(Polled /\ Poll!Tick)
  /\ WF_kindVars(Polled /\ Poll!NoticeStreamEnd)
  /\ WF_kindVars(Polled /\ Poll!Backoff)

(* With polling every event of the source that is not too old is           *)
(* eventually incorporated, and every event verified by the cursor,        *)
(* whatever finite number of faults, drops, stops and backfills happens.   *)
EventuallyVerified == \A e \in Ids :
  (kind = "polling" /\ e <= head) ~> (e \in Settled /\ e <= cursor)
=============================================================================
