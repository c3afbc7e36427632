------------------------------ MODULE MCDashboard ---------------------------
(* The modules about the dashboard in one instance for TLC: a behaviour is *)
(* one of the live delivery outbox, of the page's connection, or of the    *)
(* page as a mini app, and leaves the state of the other two alone.        *)
EXTENDS LiveOutbox, Browser, MiniApp

CONSTANTS r1, r2, r3, d1, d2

VARIABLE focus

ThreeRows == {r1, r2, r3}
OneInvalid == {r3}
TwoDrains == {d1, d2}

(* A batch with pulses and snapshots, and without a health record. *)
PulsesAndSnapshot == <<"pulse", "snapshot">>

(* One failure, with all rows as long as no pulses are too old, or with    *)
(* two; or two failures with a single row to publish: a drain that         *)
(* outlives its lease may fail besides.                                    *)
Failures == failed'.faults + failed'.deaths + failed'.overruns
Bounded ==
  \/ Failures = 0
  \/ Failures = 1 /\ (Len(stored') <= 2 \/ stale' = {})
  \/ Cardinality(ToSet(stored') \ Invalid) <= 1

dashboardVars == <<focus, vars, browserVars, miniAppVars>>

DashboardInit ==
  /\ focus \in {"outbox", "browser", "miniapp"}
  /\ Init /\ BrowserInit /\ MiniAppInit
  /\ focus # "browser" => ~online
  /\ focus # "miniapp" => ~hinted /\ shared

DashboardNext ==
  \/ focus = "outbox" /\ Next /\ Bounded /\ UNCHANGED <<focus, browserVars, miniAppVars>>
  \/ focus = "browser" /\ BrowserNext /\ UNCHANGED <<focus, vars, miniAppVars>>
  \/ focus = "miniapp" /\ MiniAppNext /\ UNCHANGED <<focus, vars, browserVars>>

(* The fairness of each: the actions of the other two are disabled, or     *)
(* named to be taken in their own behaviours only.                         *)
DashboardSpec ==
  /\ DashboardInit /\ [][DashboardNext]_dashboardVars
  /\ Fairness
  /\ WF_dashboardVars(focus = "browser" /\ BrowserGoesOn /\ UNCHANGED <<focus, vars, miniAppVars>>)
  /\ WF_dashboardVars(focus = "miniapp" /\ MiniAppGoesOn /\ UNCHANGED <<focus, vars, browserVars>>)
=============================================================================
