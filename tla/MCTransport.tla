----------------------------- MODULE MCTransport ----------------------------
(***************************************************************************)
(* Small instances of the two transports behind CollectorRpc, HypersnapHttp *)
(* and HubStream: a collector uses one or the other, never both.           *)
(***************************************************************************)
EXTENDS HypersnapHttp, HubStream

VARIABLE transport  \* RpcTransportConfig.transport

MCLog == <<3, 4, 6, 7, 9>>
MCSubs == {"s"}
MCWalks == {"w"}
MCFrom == [t \in MCSubs \cup MCWalks |-> IF t \in MCSubs THEN 6 ELSE 4]

MCInit == Init /\ HubInit /\ transport \in {"https-json", "grpc"}

(* Both jobs together meet one fault, either one alone meets two. *)
Bounded == spent' <= 1 \/ \E t \in Jobs : job'[t].at = "idle"

MCNext ==
  \/ transport = "https-json" /\ Next /\ Bounded /\ UNCHANGED <<hubVars, transport>>
  \/ transport = "grpc" /\ HubNext /\ UNCHANGED <<vars, transport>>

MCSpec == MCInit /\ [][MCNext]_<<vars, hubVars, transport>> /\ Fairness
=============================================================================
