------------------------------- MODULE MCStore ------------------------------
(* The modules about the collector's data directory in one instance for    *)
(* TLC: a behaviour is one of the lock, of the opening of the database, or *)
(* of the history in it, and leaves the state of the other two alone.      *)
EXTENDS ProcessLock, Opening, History

CONSTANTS p1, p2, p3

VARIABLE focus

ThreePids == {p1, p2, p3}
MCOpeners == {"run", "status"}

(* Hypersnap with a node that forgets soon, snapchain with one that keeps  *)
(* its events for longer than the collector does.                          *)
MCNodes == {[checked |-> TRUE, keeps |-> 2, lasts |-> 5],
            [checked |-> FALSE, keeps |-> 4, lasts |-> 4]}

storeVars == <<focus, vars, openingVars, historyVars>>

StoreInit ==
  /\ focus \in {"lock", "opening", "history"}
  /\ Init /\ OpeningInit /\ HistoryInit
  /\ focus # "opening" => db = Left(0)
  /\ focus # "history" => ~node.checked

StoreNext ==
  /\ UNCHANGED focus
  /\ \/ focus = "lock" /\ Next /\ UNCHANGED <<openingVars, historyVars>>
     \/ focus = "opening" /\ OpeningNext /\ UNCHANGED <<vars, historyVars>>
     \/ focus = "history" /\ HistoryNext /\ UNCHANGED <<vars, openingVars>>

(* The fairness of the lock. *)
StoreSpec ==
  /\ StoreInit /\ [][StoreNext]_storeVars
  /\ \A p \in Pids : WF_storeVars(focus = "lock" /\ Acquire(p) /\ UNCHANGED <<focus, openingVars, historyVars>>)
                    /\ WF_storeVars(focus = "lock" /\ Release(p) /\ UNCHANGED <<focus, openingVars, historyVars>>)
=============================================================================
