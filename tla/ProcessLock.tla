----------------------------- MODULE ProcessLock -----------------------------
(***************************************************************************)
(* The lock file that keeps a data directory to one collector              *)
(* (acquireProcessLock and its release), at the grain of the file system   *)
(* calls it makes: exclusive creation, the write of the owner's pid, the   *)
(* read of the owner, the test whether that process exists, and unlink.    *)
(*                                                                         *)
(* A process creates at most one file, so a file is named by its creator:  *)
(* a write goes to the file that was opened, whatever has become of its    *)
(* name, and unlink to the file that has the name.  Pids are not reused.   *)
(***************************************************************************)
EXTENDS Naturals

CONSTANTS
  Pids,         \* processes that run the run or backfill command, once each
  NoPid,        \* no process
  Overlapping   \* whether two of them may be in acquireProcessLock at once

ASSUME ConstantsAssumption == NoPid \notin Pids /\ Overlapping \in BOOLEAN

VARIABLES
  path,      \* the creator of the file that has the lock's name, NoPid if none
  written,   \* processes that have written their pid to the file they created
  pc,        \* where each process is
  attempt    \* acquireProcessLock: the attempt its loop is in

vars == <<path, written, pc, attempt>>

Acquiring == {"open", "write", "inspect", "unlink"}
Owning == {"holds", "release"}
Gone == {"new", "refused", "stopped", "dead"}

Init ==
  /\ path = NoPid
  /\ written = {}
  /\ pc = [p \in Pids |-> "new"]
  /\ attempt = [p \in Pids |-> 0]

(* Mutant: EPERM is taken to mean that there is no such process. *)
ExistsNever(p) == FALSE

(* Mutant: whether the owner still runs is not asked. *)
ExistsAlways(p) == p # NoPid

(* processExists. *)
Exists(p) == p # NoPid /\ pc[p] \notin Gone

(* parsePid: nothing is parsed from a missing or empty file. *)
ReadOwner == IF path \in written THEN path ELSE NoPid

Go(p, from, to) == pc[p] = from /\ pc' = [pc EXCEPT ![p] = to]

(* A collector is started. *)
Start(p) ==
  /\ Overlapping \/ \A q \in Pids : pc[q] \notin Acquiring
  /\ Go(p, "new", "open")
  /\ UNCHANGED <<path, written, attempt>>

(* openSync with "wx" creates the file, or fails because it exists. *)
Create(p) ==
  /\ path = NoPid
  /\ Go(p, "open", "write")
  /\ path' = p
  /\ UNCHANGED <<written, attempt>>

FindExisting(p) ==
  /\ path # NoPid
  /\ Go(p, "open", "inspect")
  /\ UNCHANGED <<path, written, attempt>>

(* writeFileSync and closeSync. *)
WriteOwner(p) ==
  /\ Go(p, "write", "holds")
  /\ written' = written \cup {p}
  /\ UNCHANGED <<path, attempt>>

(* The owner is read: a live one refuses this process, otherwise the file  *)
(* is taken for stale.                                                     *)
Inspect(p) ==
  /\ Go(p, "inspect", IF Exists(ReadOwner) THEN "refused" ELSE "unlink")
  /\ UNCHANGED <<path, written, attempt>>

(* unlinkSync of the stale file, which may be missing by now; the second   *)
(* attempt is the last.                                                    *)
RemoveStale(p) ==
  /\ Go(p, "unlink", IF attempt[p] = 0 THEN "open" ELSE "refused")
  /\ path' = NoPid
  /\ attempt' = [attempt EXCEPT ![p] = @ + 1]
  /\ UNCHANGED written

(* release reads the owner, and unlinks the file if it is this process. *)
BeginRelease(p) ==
  /\ Go(p, "holds", IF ReadOwner = p THEN "release" ELSE "stopped")
  /\ UNCHANGED <<path, written, attempt>>

Release(p) ==
  /\ Go(p, "release", "stopped")
  /\ path' = NoPid
  /\ UNCHANGED <<written, attempt>>

(* The process dies; its file stays. *)
Crash(p) ==
  /\ pc[p] \notin Gone
  /\ pc' = [pc EXCEPT ![p] = "dead"]
  /\ UNCHANGED <<path, written, attempt>>

Acquire(p) ==
  Create(p) \/ FindExisting(p) \/ WriteOwner(p) \/ Inspect(p) \/ RemoveStale(p)

Next == \E p \in Pids :
  Start(p) \/ Acquire(p) \/ BeginRelease(p) \/ Release(p) \/ Crash(p)

Spec == Init /\ [][Next]_vars

(* A process that runs gets through the synchronous calls of the lock. *)
FairSpec == Spec /\ \A p \in Pids : WF_vars(Acquire(p)) /\ WF_vars(Release(p))

-----------------------------------------------------------------------------
(* Every variable keeps to its type. *)
TypeOK ==
  /\ path \in Pids \cup {NoPid}
  /\ written \subseteq Pids
  /\ pc \in [Pids -> Acquiring \cup Owning \cup Gone]
  /\ attempt \in [Pids -> Nat]

(* At most one collector uses the data directory: it holds the lock, or is *)
(* about to remove it.                                                     *)
MutualExclusion ==
  \A p, q \in Pids : pc[p] \in Owning /\ pc[q] \in Owning => p = q

(* When starts do not overlap, the file with the lock's name is the        *)
(* owner's, with its pid in it; and whoever creates the file or has found  *)
(* it stale does so while there is no owner.                               *)
SerialInv ==
  /\ TypeOK
  /\ \A p \in Pids : pc[p] \in Owning => path = p /\ p \in written
  /\ \A p \in Pids : pc[p] = "write" => path = p
  /\ \A p \in Pids : pc[p] \in {"write", "unlink"} => \A q \in Pids : pc[q] \notin Owning
  /\ \A p, q \in Pids : pc[p] \in Acquiring /\ pc[q] \in Acquiring => p = q

(* The lock file of a process that holds it is never removed by another    *)
(* process, neither as stale nor in a release.                             *)
HeldLockIsKept ==
  [][\A p \in Pids : pc[p] = "holds" /\ path = p /\ path' # p => pc'[p] # "holds"]_vars

(* A file that a crash left behind, empty or with a dead owner, never      *)
(* keeps a later collector out: with no other process there, one that      *)
(* starts gets the lock unless it dies.                                    *)
StaleLockIsTaken ==
  \A p \in Pids :
    (pc[p] = "open" /\ attempt[p] = 0 /\ \A q \in Pids \ {p} : pc[q] \in Gone)
      ~> (pc[p] \in Owning \cup {"stopped", "dead"})
=============================================================================
