------------------------------- MODULE MiniApp ------------------------------
(***************************************************************************)
(* The page as a Farcaster mini app: MiniAppProvider finds out whether it  *)
(* runs in a host, tells the host that it is ready, and asks the server    *)
(* for a verified FID; miniAppRuntime's Quick Auth fetch signs in.         *)
(*                                                                         *)
(* The effect may run again while an earlier run of it is waiting for the  *)
(* host: the earlier run is cancelled, but goes on until it looks.  Every  *)
(* await on the host has a deadline; a refusal, an error, an invalid       *)
(* answer and the deadline end the same way.  The SDK has Quick Auth, like *)
(* the default loader's.                                                   *)
(***************************************************************************)
EXTENDS Naturals

CONSTANTS
  MaxRuns,     \* bound: runs of the effect
  MaxExpiries  \* bound: tokens that expire

ASSUME MiniAppAssumption == MaxRuns \in Nat \ {0} /\ MaxExpiries \in Nat

None == 0
Runs == 1 .. MaxRuns

VARIABLES
  hinted,    \* whether the page's address has the hint
  shared,    \* whether the loader gives every run the same SDK
  run,       \* the run of the effect that is not cancelled, None if unmounted
  started,   \* runs so far
  step,      \* what each run is waiting for
  value,     \* MiniAppHostValue: its state, and the run that verified the FID
  insets,    \* the run whose safe area variables are set, None if unset
  saved,     \* what each run found set before it set its own
  ready,     \* READY_ATTEMPTS and the host: each SDK's attempt
  readied,   \* history: whether a ready call of the SDK may have reached the
             \* host without being known to have failed
  token,     \* currentToken of each SDK is there and has not expired
  signIns,   \* signIn requests of each SDK that wait for the user
  expiries   \* how much of the bound is used

authVars == <<token, signIns>>
miniAppVars == <<hinted, shared, run, started, step, value, insets, saved, ready, readied, authVars, expiries>>

Sdk(r) == IF shared THEN 1 ELSE r

(* Mutant: there is no deadline for the detection. *)
WaitingUntimed == {"load", "context", "frames", "ready"}

(* The waits that have a deadline. *)
Waiting == {"load", "detect", "context", "frames", "ready"}

Verifying == {"token", "fetch"}
Detecting == [state |-> "detecting", fid |-> None]
RegularWeb == [state |-> "regular-web", fid |-> None]
MiniAppShown(r) == [state |-> "miniapp", fid |-> r]

(* Without the hint the page is regular web at once. *)
FirstStep == IF hinted THEN "load" ELSE "web"
FirstValue == IF hinted THEN Detecting ELSE RegularWeb

MiniAppInit ==
  /\ hinted \in BOOLEAN /\ shared \in BOOLEAN
  /\ run = 1 /\ started = 1
  /\ step = [r \in Runs |-> IF r = 1 THEN FirstStep ELSE "none"]
  /\ value = FirstValue
  /\ insets = None /\ saved = [r \in Runs |-> None]
  /\ ready = [r \in Runs |-> "none"] /\ readied = [r \in Runs |-> 0]
  /\ token = [r \in Runs |-> FALSE] /\ signIns = [r \in Runs |-> 0]
  /\ expiries = 0

(* Mutant: a cancelled run does not look whether it is. *)
CancelledNever(r) == FALSE

Cancelled(r) == run # r

(* removeSafeAreaVariables, if the run has set them. *)
Restored(r) == IF insets = r THEN saved[r] ELSE insets

(* recoverToWeb of a run: nothing once it is cancelled. *)
Recover(r) ==
  /\ step' = [step EXCEPT ![r] = "web"]
  /\ IF Cancelled(r) THEN UNCHANGED <<value, insets>>
     ELSE value' = RegularWeb /\ insets' = Restored(r)

(* The SDK is loaded, and says that this is a mini app. *)
Loaded(r) ==
  /\ step[r] \in {"load", "detect"}
  /\ step' = [step EXCEPT ![r] = IF step[r] = "load" THEN "detect"
                                 ELSE IF Cancelled(r) THEN "left" ELSE "context"]
  /\ UNCHANGED <<hinted, shared, run, started, value, insets, saved, ready, readied, authVars, expiries>>

(* The context is valid: the safe area variables are set. *)
ContextRead(r) ==
  /\ step[r] = "context"
  /\ IF Cancelled(r)
     THEN step' = [step EXCEPT ![r] = "left"] /\ UNCHANGED <<insets, saved>>
     ELSE /\ step' = [step EXCEPT ![r] = "frames"]
          /\ saved' = [saved EXCEPT ![r] = insets]
          /\ insets' = r
  /\ UNCHANGED <<hinted, shared, run, started, value, ready, readied, authVars, expiries>>

(* Mutant: every run makes its own call. *)
AttemptedNever(k) == FALSE

(* READY_ATTEMPTS has an attempt of the SDK, pending or done. *)
Attempted(k) == ready[k] # "none"

(* Two frames later the shell is still there: signalReadyOnce. *)
FramesPassed(r) ==
  /\ step[r] = "frames"
  /\ IF Cancelled(r)
     THEN step' = [step EXCEPT ![r] = "left"] /\ UNCHANGED <<ready, readied>>
     ELSE /\ step' = [step EXCEPT ![r] = "ready"]
          /\ IF Attempted(Sdk(r)) THEN UNCHANGED <<ready, readied>>
             ELSE /\ ready' = [ready EXCEPT ![Sdk(r)] = "pending"]
                  /\ readied' = [readied EXCEPT ![Sdk(r)] = @ + 1]
  /\ UNCHANGED <<hinted, shared, run, started, value, insets, saved, authVars, expiries>>

HostReady(k) ==
  /\ ready[k] = "pending"
  /\ ready' = [ready EXCEPT ![k] = "done"]
  /\ UNCHANGED <<hinted, shared, run, started, step, value, insets, saved, readied, authVars, expiries>>

(* The ready call fails, or its deadline passes: the attempt is forgotten, *)
(* and every run that waited for it recovers.                              *)
ReadyFails(k) ==
  /\ ready[k] = "pending"
  /\ ready' = [ready EXCEPT ![k] = "none"]
  /\ readied' = [readied EXCEPT ![k] = 0]
  /\ LET here == {r \in Runs : step[r] = "ready" /\ Sdk(r) = k} IN
       /\ step' = [r \in Runs |-> IF r \in here THEN "web" ELSE step[r]]
       /\ IF \E r \in here : ~Cancelled(r)
          THEN value' = RegularWeb /\ insets' = Restored(run)
          ELSE UNCHANGED <<value, insets>>
  /\ UNCHANGED <<hinted, shared, run, started, saved, authVars, expiries>>

(* Any other wait ends badly: an error, a refusal, an invalid answer, a    *)
(* shell that is gone or the deadline.                                     *)
WaitFails(r) ==
  /\ step[r] \in Waiting \ {"ready"}
  /\ Recover(r)
  /\ UNCHANGED <<hinted, shared, run, started, saved, ready, readied, authVars, expiries>>

-----------------------------------------------------------------------------
(* Quick Auth. *)

(* getToken: pendingToken is there. *)
PendingToken(k) == signIns[k] > 0

(* The mini app is shown, and the run asks for the FID: with the token of  *)
(* the SDK, with the one that is being asked for, or by a new sign in.     *)
Show(r) ==
  /\ step[r] = "ready" /\ ready[Sdk(r)] = "done"
  /\ IF Cancelled(r)
     THEN step' = [step EXCEPT ![r] = "left"] /\ UNCHANGED <<value, signIns>>
     ELSE /\ value' = MiniAppShown(None)
          /\ step' = [step EXCEPT ![r] = IF token[Sdk(r)] THEN "fetch" ELSE "token"]
          /\ signIns' = IF token[Sdk(r)] \/ PendingToken(Sdk(r)) THEN signIns
                        ELSE [signIns EXCEPT ![Sdk(r)] = @ + 1]
  /\ UNCHANGED <<hinted, shared, run, started, insets, saved, ready, readied, token, expiries>>

(* The user answers, and the Quick Auth server verifies the message for    *)
(* this domain or does not.                                                *)
SignedIn(k, verified) ==
  /\ signIns[k] > 0
  /\ signIns' = [signIns EXCEPT ![k] = @ - 1]
  /\ token' = [token EXCEPT ![k] = @ \/ verified]
  /\ step' = [r \in Runs |-> IF step[r] = "token" /\ Sdk(r) = k
                             THEN IF verified THEN "fetch" ELSE "shown" ELSE step[r]]
  /\ UNCHANGED <<hinted, shared, run, started, value, insets, saved, ready, readied, expiries>>

(* The server answers the run's request, with a verified FID or without;   *)
(* the request of a cancelled run was aborted, if it could be.             *)
Fetched(r, verified) ==
  /\ step[r] = "fetch"
  /\ step' = [step EXCEPT ![r] = "shown"]
  /\ value' = IF verified /\ ~Cancelled(r) THEN MiniAppShown(r) ELSE value
  /\ UNCHANGED <<hinted, shared, run, started, insets, saved, ready, readied, authVars, expiries>>

TokenExpires(k) ==
  /\ token[k] /\ expiries < MaxExpiries
  /\ token' = [token EXCEPT ![k] = FALSE]
  /\ expiries' = expiries + 1
  /\ UNCHANGED <<hinted, shared, run, started, step, value, insets, saved, ready, readied, signIns>>

-----------------------------------------------------------------------------
(* The effect's cleanup, alone or followed by the effect. *)
Rerun(again) ==
  /\ run # None /\ (again => started < MaxRuns)
  /\ insets' = Restored(run)
  /\ IF again
     THEN /\ run' = started + 1 /\ started' = started + 1
          /\ step' = [step EXCEPT ![started + 1] = FirstStep]
          /\ value' = FirstValue
     ELSE run' = None /\ UNCHANGED <<started, step, value>>
  /\ UNCHANGED <<hinted, shared, saved, ready, readied, authVars, expiries>>

MiniAppNext ==
  \/ \E r \in Runs : Loaded(r) \/ ContextRead(r) \/ FramesPassed(r) \/ WaitFails(r) \/ Show(r)
  \/ \E k \in Runs : HostReady(k) \/ ReadyFails(k) \/ TokenExpires(k)
  \/ \E r \in Runs, verified \in BOOLEAN : SignedIn(r, verified) \/ Fetched(r, verified)
  \/ \E again \in BOOLEAN : Rerun(again)

(* A wait that the host does not end is ended by its deadline. *)
MiniAppGoesOn == \E r \in Runs : WaitFails(r) \/ ReadyFails(r) \/ Show(r)

MiniAppFair == WF_miniAppVars(MiniAppGoesOn)

MiniAppSpec == MiniAppInit /\ [][MiniAppNext]_miniAppVars /\ MiniAppFair

-----------------------------------------------------------------------------
(* Properties. *)

(* Whatever an earlier run of the effect still does, the page shows what   *)
(* the current run found out: a mini app only after its SDK was ready, a   *)
(* verified FID only if it was verified for this run, and the safe area of *)
(* the host only while it may be one.                                      *)
ShowsOwnRun == run # None =>
  /\ value.state = "miniapp" => step[run] \in Verifying \cup {"shown"} /\ ready[Sdk(run)] = "done"
  /\ value.fid \in {None, run}
  /\ insets # None => insets = run /\ value.state # "regular-web"

(* However often the effect runs, an SDK's host is told once that the page *)
(* is ready, unless a call failed, and asked for one sign in at a time.    *)
OncePerSdk == \A k \in Runs : readied[k] <= 1 /\ signIns[k] <= 1

(* The page does not stay undecided: the host never answering is enough    *)
(* for regular web.                                                        *)
Decides == (run # None /\ value.state = "detecting") ~> (run = None \/ value.state # "detecting")
=============================================================================
