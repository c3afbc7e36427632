----------------------------- MODULE StoreProofs ----------------------------
(***************************************************************************)
(* The data directory, for any set of processes.                           *)
(*                                                                         *)
(* ProcessLock: as long as starts do not overlap the lock is exclusive and *)
(* the lock file of a holder stays.                                        *)
(*                                                                         *)
(* Opening: however many processes open the database, whichever version of *)
(* the code it was left by, and wherever they die, its migrations are      *)
(* whole and its identity stays.  The argument is that what a process has  *)
(* found out about the database stays true while others only add to it     *)
(* (Found), and that a transaction holds what the place of the process     *)
(* that runs it says (Writes).                                             *)
(***************************************************************************)
EXTENDS ProcessLock, Opening, TLAPS

-----------------------------------------------------------------------------
(* The lock. *)

(* What one process's move does to the program counters. *)
LEMMA GoFacts ==
  ASSUME TypeOK, NEW p \in Pids, NEW from, NEW to \in Acquiring \cup Owning \cup Gone,
         Go(p, from, to)
  PROVE  /\ pc' \in [Pids -> Acquiring \cup Owning \cup Gone]
         /\ pc[p] = from /\ pc'[p] = to
         /\ \A q \in Pids \ {p} : pc'[q] = pc[q]
  BY DEF TypeOK, Go

(* With serialised starts every step keeps SerialInv. *)
LEMMA SerialStep ==
  ASSUME Overlapping = FALSE, SerialInv, [Next]_vars
  PROVE  SerialInv'
<1> USE ConstantsAssumption DEF Acquiring, Owning, Gone
<1>0. TypeOK BY DEF SerialInv
<1>1. CASE UNCHANGED vars
  BY <1>1 DEF vars, SerialInv, TypeOK
<1>2. ASSUME NEW p \in Pids, Start(p) PROVE SerialInv'
  BY <1>0, <1>2, GoFacts DEF Start, SerialInv, TypeOK
<1>3. ASSUME NEW p \in Pids, Create(p) PROVE SerialInv'
  BY <1>0, <1>3, GoFacts DEF Create, SerialInv, TypeOK
<1>4. ASSUME NEW p \in Pids, FindExisting(p) PROVE SerialInv'
  BY <1>0, <1>4, GoFacts DEF FindExisting, SerialInv, TypeOK
<1>5. ASSUME NEW p \in Pids, WriteOwner(p) PROVE SerialInv'
  BY <1>0, <1>5, GoFacts DEF WriteOwner, SerialInv, TypeOK
<1>6. ASSUME NEW p \in Pids, Inspect(p) PROVE SerialInv'
  BY <1>0, <1>6, GoFacts DEF Inspect, Exists, ReadOwner, SerialInv, TypeOK
<1>7. ASSUME NEW p \in Pids, RemoveStale(p) PROVE SerialInv'
  BY <1>0, <1>7, GoFacts DEF RemoveStale, SerialInv, TypeOK
<1>8. ASSUME NEW p \in Pids, BeginRelease(p) PROVE SerialInv'
  BY <1>0, <1>8, GoFacts DEF BeginRelease, ReadOwner, SerialInv, TypeOK
<1>9. ASSUME NEW p \in Pids, Release(p) PROVE SerialInv'
  BY <1>0, <1>9, GoFacts DEF Release, SerialInv, TypeOK
<1>10. ASSUME NEW p \in Pids, Crash(p) PROVE SerialInv'
  BY <1>0, <1>10 DEF Crash, SerialInv, TypeOK
<1> QED
  BY <1>1, <1>2, <1>3, <1>4, <1>5, <1>6, <1>7, <1>8, <1>9, <1>10 DEF Next, Acquire

(* The invariant holds initially. *)
LEMMA SerialInit == Init => SerialInv
  BY ConstantsAssumption DEF Init, SerialInv, TypeOK, Acquiring, Owning, Gone

(* SerialInv is an invariant of collectors whose starts do not overlap. *)
THEOREM SerialInvariant ==
  ASSUME Overlapping = FALSE
  PROVE  Spec => []SerialInv
  BY SerialInit, SerialStep, PTL DEF Spec

(* The lock is exclusive: two owners would both be the one whose file has  *)
(* the name.                                                               *)
THEOREM Exclusive ==
  ASSUME Overlapping = FALSE
  PROVE  Spec => []MutualExclusion
<1>1. SerialInv => MutualExclusion
  BY DEF SerialInv, MutualExclusion
<1> QED
  BY <1>1, SerialInvariant, PTL

(* Nothing removes the lock file of a process that holds it: a process     *)
(* that unlinks has found the file stale, so there is no holder, or is the *)
(* owner.                                                                  *)
THEOREM LockKept ==
  ASSUME Overlapping = FALSE
  PROVE  Spec => HeldLockIsKept
<1> USE ConstantsAssumption
<1> DEFINE Kept == \A p \in Pids : pc[p] = "holds" /\ path = p /\ path' # p => pc'[p] # "holds"
<1>1. SerialInv /\ [Next]_vars => [Kept]_vars
  <2> SUFFICES ASSUME SerialInv, NEW q \in Pids,
                      NEW p \in Pids, pc[p] = "holds", path = p, path' # p,
                      \/ Start(q) \/ Acquire(q) \/ BeginRelease(q) \/ Release(q) \/ Crash(q)
               PROVE  pc'[p] # "holds"
    BY DEF Next
  <2>1. CASE Create(q) \/ RemoveStale(q) \/ Release(q)
    BY <2>1 DEF Create, RemoveStale, Release, Go, SerialInv, TypeOK, Owning, Acquiring, Gone
  <2>2. CASE ~(Create(q) \/ RemoveStale(q) \/ Release(q))
    BY <2>2 DEF Start, Acquire, FindExisting, WriteOwner, Inspect, BeginRelease, Crash
  <2> QED BY <2>1, <2>2
<1> QED
  BY <1>1, SerialInvariant, PTL DEF Spec, HeldLockIsKept

-----------------------------------------------------------------------------
(* The opening of the database. *)

(* What the proofs need to know of the records: the fields they have. *)
IsDatabase(d) == d = [applied |-> d.applied, tables |-> d.tables, key |-> d.key, id |-> d.id]

(* The variables of a process that opens the database, and the types. *)
Fields == {"at", "number", "applied", "key"}

IsOpener(x) ==
  /\ DOMAIN x = Fields /\ x = [f \in Fields |-> x[f]]
  /\ x.at \in {"closed", "migrate", "ddl", "record", "commit", "setId", "loadKey", "open"}
  /\ x.at # "closed" => x.number \in Nat \ {0}

OpeningTypes ==
  /\ IsDatabase(db)
  /\ tx = [by |-> tx.by, copy |-> tx.copy] /\ IsDatabase(tx.copy)
  /\ opener = [p \in Openers |-> opener[p]] /\ \A p \in Openers : IsOpener(opener[p])
  /\ opens \in Nat

(* A database whose migrations are there as a whole or not at all. *)
Whole(d) == d.applied = d.tables /\ (d.key # None) = (KeyVersion \in d.applied)

(* The migration that a process with record x is at. *)
Pending(x) == CHOOSE v \in Versions \ x.applied : \A w \in Versions \ x.applied : v <= w

(* d with the tables of version v, and the key of the process numbered n;  *)
(* and with the version recorded, too.                                     *)
WithTables(d, v, n) == [applied |-> d.applied, tables |-> d.tables \cup {v},
                        key |-> IF v = KeyVersion THEN n ELSE d.key, id |-> d.id]
Migrated(d, v, n) == [applied |-> d.applied \cup {v}, tables |-> d.tables \cup {v},
                      key |-> IF v = KeyVersion THEN n ELSE d.key, id |-> d.id]

(* What a process has done in its transaction t is what its place says. *)
Writes(p, x, d, t) ==
  /\ (x.at \in {"ddl", "record", "commit"}) <=> (t.by = p)
  /\ x.at = "ddl" => t.copy = d
  /\ x.at = "record" => t.copy = WithTables(d, Pending(x), x.number)
  /\ x.at = "commit" => Pending(x) \notin d.applied /\ t.copy = Migrated(d, Pending(x), x.number)

(* What a process has found out about the database d is still so. *)
Found(x, d) ==
  /\ x.at # "closed" => x.applied \subseteq d.applied
  /\ x.at \in {"setId", "loadKey", "open"} => Versions \subseteq d.applied
  /\ x.at \in {"loadKey", "open"} => d.id # None
  /\ x.at = "open" => x.key = d.key

(* The inductive invariant. *)
OpeningInv ==
  /\ OpeningTypes
  /\ Whole(db)
  /\ \A p \in Openers : Writes(p, opener[p], db, tx) /\ Found(opener[p], db)

(* The collector's id is n and no process is about to write another. *)
Settled(n) == db.id = n /\ \A p \in Openers : opener[p].at # "setId"

(* A database never loses a version or its identity. *)
Grows(d, e) ==
  /\ d.applied \subseteq e.applied
  /\ d.id # None => e.id # None
  /\ KeyVersion \in d.applied => e.key = d.key

(* The first state satisfies the invariant: an older or a newer version of *)
(* this code left the database whole.                                      *)
LEMMA OpeningStarts == OpeningInit => OpeningInv
<1> SUFFICES ASSUME OpeningInit PROVE OpeningInv
  OBVIOUS
<1>1. PICK n \in 0 .. (Schema + 1) : db = Left(n)
  BY DEF OpeningInit
<1>2. IsDatabase(db) /\ Whole(db)
  BY <1>1, OpeningConstants DEF Left, IsDatabase, Whole, None
<1>3. OpeningTypes
  BY <1>2 DEF OpeningInit, OpeningTypes, NoTx, Closed, IsDatabase, IsOpener, Fields
<1>4. ASSUME NEW p \in Openers PROVE Writes(p, opener[p], db, tx) /\ Found(opener[p], db)
  BY OpeningConstants DEF OpeningInit, NoTx, Closed, Nobody, Writes, Found
<1> QED BY <1>2, <1>3, <1>4 DEF OpeningInv

(* A process moves: the others' findings stay true while the database only *)
(* grows, and their transactions while it is not theirs.                   *)
LEMMA MoveKeeps ==
  ASSUME OpeningInv, NEW p \in Openers, NEW x, IsOpener(x), opener' = [opener EXCEPT ![p] = x],
         opens' \in Nat, IsDatabase(db'), Whole(db'), Grows(db, db'),
         tx' = [by |-> tx'.by, copy |-> tx'.copy], IsDatabase(tx'.copy),
         \A q \in Openers \ {p} : IF tx.by = q THEN tx' = tx /\ db' = db ELSE tx'.by # q,
         Writes(p, x, db', tx'), Found(x, db')
  PROVE  OpeningInv'
<1>1. /\ opener' = [q \in Openers |-> opener'[q]]
      /\ opener'[p] = x /\ \A q \in Openers \ {p} : opener'[q] = opener[q]
  BY DEF OpeningInv, OpeningTypes
<1>2. OpeningTypes'
  BY <1>1 DEF OpeningInv, OpeningTypes
<1>3. ASSUME NEW q \in Openers \ {p} PROVE Writes(q, opener[q], db', tx') /\ Found(opener[q], db')
  <2>1. Writes(q, opener[q], db', tx')
    BY DEF OpeningInv, Writes
  <2>2. Found(opener[q], db')
    BY OpeningConstants DEF OpeningInv, Found, Grows, Versions
  <2> QED BY <2>1, <2>2
<1> QED BY <1>1, <1>2, <1>3 DEF OpeningInv

(* One lemma per action: the process that moves knows what it has to know. *)
LEMMA OpenKeeps ==
  ASSUME OpeningInv, NEW p \in Openers, Open(p) PROVE OpeningInv'
<1> DEFINE x == [at |-> IF \E v \in db.applied : v > Schema THEN "closed" ELSE "migrate",
                number |-> opens + 1, applied |-> db.applied, key |-> None]
<1>1. opener' = [opener EXCEPT ![p] = x] /\ opens' \in Nat /\ UNCHANGED <<db, tx>> /\ IsOpener(x)
  BY DEF Open, OpeningInv, OpeningTypes, IsOpener, Fields
<1>2. tx.by # p
  BY DEF Open, At, OpeningInv, Writes
<1>3. Writes(p, x, db, tx) /\ Found(x, db)
  BY <1>2 DEF Writes, Found
<1> QED BY <1>1, <1>3, MoveKeeps DEF OpeningInv, OpeningTypes, Grows, Writes

(* It takes the write lock, and works on a copy of the database. *)
LEMMA BeginKeeps ==
  ASSUME OpeningInv, NEW p \in Openers, Begin(p) PROVE OpeningInv'
<1> DEFINE x == [opener[p] EXCEPT !.at = "ddl"]
<1>1. /\ opener' = [opener EXCEPT ![p] = x] /\ UNCHANGED <<db, opens>>
      /\ tx.by = Nobody /\ tx' = [by |-> p, copy |-> db]
  BY DEF Begin, Goto, Free
<1>2. IsOpener(x) /\ x.at = "ddl" /\ x.applied = opener[p].applied
  BY DEF Begin, At, OpeningInv, OpeningTypes, IsOpener, Fields
<1>3. Writes(p, x, db, tx') /\ Found(x, db)
  BY <1>1, <1>2 DEF Begin, At, OpeningInv, Writes, Found
<1> QED BY <1>1, <1>2, <1>3, OpeningConstants, MoveKeeps DEF OpeningInv, OpeningTypes, Grows

(* A process that gives up, or dies: its transaction goes with it. *)
LEMMA FailKeeps ==
  ASSUME OpeningInv, NEW p \in Openers, Fail(p), UNCHANGED <<db, opens>> PROVE OpeningInv'
<1> DEFINE x == [opener[p] EXCEPT !.at = "closed"]
<1>1. opener' = [opener EXCEPT ![p] = x] /\ tx' = IF tx.by = p THEN NoTx ELSE tx
  BY DEF Fail, Goto
<1>2. IsOpener(x) /\ x.at = "closed"
  BY DEF OpeningInv, OpeningTypes, IsOpener, Fields
<1>3. Nobody # p /\ \A q \in Openers : q # Nobody
  BY OpeningConstants
<1>4. tx'.by # p /\ tx' = [by |-> tx'.by, copy |-> tx'.copy] /\ IsDatabase(tx'.copy)
  BY <1>1, <1>3 DEF NoTx, IsDatabase, OpeningInv, OpeningTypes
<1>5. \A q \in Openers \ {p} : IF tx.by = q THEN tx' = tx ELSE tx'.by # q
  BY <1>1, <1>3 DEF NoTx
<1>6. Writes(p, x, db, tx') /\ Found(x, db)
  BY <1>2, <1>4 DEF Writes, Found
<1> QED BY <1>1, <1>2, <1>4, <1>5, <1>6, MoveKeeps DEF OpeningInv, OpeningTypes, Grows

(* The tables are created in its copy only. *)
LEMMA DdlKeeps ==
  ASSUME OpeningInv, NEW p \in Openers, Ddl(p) PROVE OpeningInv'
<1>1. CASE TableExists(p)
  BY <1>1, FailKeeps DEF Ddl
<1>2. CASE ~TableExists(p)
  <2> DEFINE x == [opener[p] EXCEPT !.at = "record"]
  <2>1. /\ opener' = [opener EXCEPT ![p] = x] /\ UNCHANGED <<db, opens>> /\ opener[p].at = "ddl"
        /\ tx' = [tx EXCEPT !.copy.tables = @ \cup {NextVersion(p)},
                            !.copy.key = IF NextVersion(p) = KeyVersion THEN opener[p].number ELSE @]
    BY <1>2 DEF Ddl, Goto, At
  <2>2. IsOpener(x) /\ x.at = "record" /\ x.applied = opener[p].applied /\ x.number = opener[p].number
    BY <2>1 DEF OpeningInv, OpeningTypes, IsOpener, Fields
  <2>3. NextVersion(p) = Pending(x)
    BY <2>2 DEF NextVersion, Pending, Missing
  <2>4. tx.by = p /\ tx.copy = db
    BY <2>1 DEF OpeningInv, Writes
  <2>5. tx' = [by |-> p, copy |-> WithTables(db, Pending(x), x.number)]
    BY <2>1, <2>2, <2>3, <2>4 DEF WithTables, OpeningInv, OpeningTypes, IsDatabase
  <2> HIDE DEF x
  <2>6. Writes(p, x, db, tx') /\ Found(x, db)
    <3>1. Writes(p, x, db, tx')
      BY <2>2, <2>5 DEF Writes
    <3>2. Found(x, db)
      BY <2>1, <2>2 DEF OpeningInv, Found
    <3> QED BY <3>1, <3>2
  <2> QED BY <2>1, <2>2, <2>4, <2>5, <2>6, MoveKeeps DEF OpeningInv, OpeningTypes, Grows, WithTables, IsDatabase
<1> QED BY <1>1, <1>2

(* The version is recorded in its copy, unless it is there already. *)
LEMMA RecordKeeps ==
  ASSUME OpeningInv, NEW p \in Openers, Record(p) PROVE OpeningInv'
<1>1. CASE AlreadyRecorded(p)
  BY <1>1, FailKeeps DEF Record
<1>2. CASE ~AlreadyRecorded(p)
  <2> DEFINE x == [opener[p] EXCEPT !.at = "commit"]
  <2>1. /\ opener' = [opener EXCEPT ![p] = x] /\ UNCHANGED <<db, opens>> /\ opener[p].at = "record"
        /\ tx' = [tx EXCEPT !.copy.applied = @ \cup {NextVersion(p)}]
    BY <1>2 DEF Record, Goto, At
  <2>2. IsOpener(x) /\ x.at = "commit" /\ x.applied = opener[p].applied /\ x.number = opener[p].number
    BY <2>1 DEF OpeningInv, OpeningTypes, IsOpener, Fields
  <2>3. NextVersion(p) = Pending(x) /\ Pending(opener[p]) = Pending(x)
    BY <2>2 DEF NextVersion, Pending, Missing
  <2>4. tx.by = p /\ tx.copy = WithTables(db, Pending(x), x.number)
    BY <2>1, <2>2, <2>3 DEF OpeningInv, Writes
  <2>5. Pending(x) \notin db.applied
    BY <1>2, <2>3, <2>4 DEF AlreadyRecorded, WithTables
  <2> HIDE DEF x
  <2>6. tx' = [by |-> p, copy |-> Migrated(db, Pending(x), x.number)]
    <3>1. tx = [by |-> p, copy |-> WithTables(db, Pending(x), x.number)]
      BY <2>4 DEF OpeningInv, OpeningTypes
    <3> QED BY <2>1, <2>3, <3>1 DEF WithTables, Migrated
  <2>7. Writes(p, x, db, tx') /\ Found(x, db)
    BY <2>1, <2>2, <2>5, <2>6 DEF OpeningInv, Writes, Found
  <2> QED BY <2>1, <2>2, <2>4, <2>6, <2>7, MoveKeeps DEF OpeningInv, OpeningTypes, Grows, Migrated, IsDatabase
<1> QED BY <1>1, <1>2

(* The version that is committed was not there: another process that had   *)
(* found it missing, too, has failed.  So the key is new, or as it was.    *)
LEMMA CommitKeeps ==
  ASSUME OpeningInv, NEW p \in Openers, Commit(p) PROVE OpeningInv' /\ Grows(db, db') /\ db'.id = db.id
<1> DEFINE y == opener[p]
           v == Pending(y)
           x == [y EXCEPT !.at = "migrate", !.applied = @ \cup {v}]
<1>1. y.at = "commit" /\ tx.by = p /\ v \notin db.applied /\ db' = Migrated(db, v, y.number)
  BY DEF Commit, At, OpeningInv, Writes
<1>2. opener' = [opener EXCEPT ![p].at = "migrate", ![p].applied = @ \cup {v}] /\ tx' = NoTx /\ UNCHANGED opens
  BY DEF Commit, NextVersion, Pending, Missing
<1>3. opener' = [opener EXCEPT ![p] = x]
  BY <1>2 DEF OpeningInv, OpeningTypes, IsOpener, Fields
<1>4. IsOpener(x) /\ x.at = "migrate" /\ x.applied = y.applied \cup {v} /\ y.number \in Nat \ {0}
  <2>0. IsOpener(y)
    BY DEF OpeningInv, OpeningTypes
  <2> HIDE DEF y, v
  <2> QED BY <1>1, <2>0 DEF IsOpener, Fields
<1>5. IsDatabase(db') /\ Whole(db') /\ Grows(db, db') /\ db'.id = db.id
  BY <1>1, <1>4 DEF OpeningInv, Whole, Grows, Migrated, IsDatabase, None
<1>6. IsDatabase(tx'.copy) /\ tx' = [by |-> tx'.by, copy |-> tx'.copy] /\ \A q \in Openers : tx'.by # q
  BY <1>2, OpeningConstants DEF NoTx, IsDatabase
<1>7. y.applied \subseteq db.applied
  BY <1>1 DEF OpeningInv, Found
<1>8. Writes(p, x, db', tx') /\ Found(x, db')
  BY <1>1, <1>4, <1>6, <1>7 DEF Writes, Found, Migrated
<1> HIDE DEF x
<1> QED BY <1>1, <1>2, <1>3, <1>4, <1>5, <1>6, <1>8, MoveKeeps DEF OpeningInv, OpeningTypes

(* With every version applied it looks for the collector's id. *)
LEMMA ReadIdKeeps ==
  ASSUME OpeningInv, NEW p \in Openers, ReadId(p) PROVE OpeningInv'
<1> DEFINE to == IF Unnamed THEN "setId" ELSE "loadKey"
           x == [opener[p] EXCEPT !.at = to]
<1>1. /\ opener' = [opener EXCEPT ![p] = x] /\ UNCHANGED <<db, tx, opens>>
      /\ opener[p].at = "migrate" /\ Versions \subseteq opener[p].applied
  BY DEF ReadId, Goto, At, Missing
<1>2. IsOpener(x) /\ x.at = to /\ x.applied = opener[p].applied
  BY <1>1 DEF OpeningInv, OpeningTypes, IsOpener, Fields
<1>3. Writes(p, x, db, tx) /\ Found(x, db)
  BY <1>1, <1>2 DEF OpeningInv, Writes, Found, Unnamed
<1> QED BY <1>1, <1>2, <1>3, MoveKeeps DEF OpeningInv, OpeningTypes, Grows, Writes

(* It writes the id, outside of a transaction of its own. *)
LEMMA SetIdKeeps ==
  ASSUME OpeningInv, NEW p \in Openers, SetId(p) PROVE OpeningInv' /\ db'.key = db.key
<1> DEFINE x == [opener[p] EXCEPT !.at = "loadKey"]
<1>1. /\ opener' = [opener EXCEPT ![p] = x] /\ UNCHANGED <<tx, opens>> /\ opener[p].at = "setId"
      /\ tx.by = Nobody /\ db' = [db EXCEPT !.id = opener[p].number]
  BY DEF SetId, Goto, At, Free
<1>2. IsOpener(x) /\ x.at = "loadKey" /\ x.applied = opener[p].applied /\ opener[p].number \in Nat \ {0}
  BY <1>1 DEF OpeningInv, OpeningTypes, IsOpener, Fields
<1>3. /\ IsDatabase(db') /\ db'.applied = db.applied /\ db'.tables = db.tables
      /\ db'.key = db.key /\ db'.id = opener[p].number
  BY <1>1 DEF OpeningInv, OpeningTypes, IsDatabase
<1>4. Whole(db') /\ Grows(db, db')
  BY <1>2, <1>3 DEF OpeningInv, Whole, Grows, None
<1>5. tx.by # p /\ \A q \in Openers : tx.by # q
  BY <1>1, OpeningConstants
<1>6. Writes(p, x, db', tx) /\ Found(x, db')
  BY <1>1, <1>2, <1>3, <1>5 DEF OpeningInv, Writes, Found, None
<1> HIDE DEF x
<1> QED BY <1>1, <1>2, <1>3, <1>4, <1>5, <1>6, MoveKeeps DEF OpeningInv, OpeningTypes

(* The key it loads is the one that was written with its version. *)
LEMMA LoadKeyKeeps ==
  ASSUME OpeningInv, NEW p \in Openers, LoadKey(p) PROVE OpeningInv'
<1> DEFINE x == IF db.key = None THEN Closed ELSE [opener[p] EXCEPT !.at = "open", !.key = db.key]
<1>1. /\ opener' = [opener EXCEPT ![p] = x] /\ UNCHANGED <<db, tx, opens>> /\ opener[p].at = "loadKey"
  BY DEF LoadKey, At
<1>2. IsOpener(x) /\ (x.at = "closed" \/ (x.at = "open" /\ x.applied = opener[p].applied /\ x.key = db.key))
  <2>1. CASE db.key = None
    BY <2>1 DEF IsOpener, Fields, Closed
  <2>2. CASE db.key # None
    <3>1. IsOpener(opener[p])
      BY DEF OpeningInv, OpeningTypes
    <3> QED BY <1>1, <2>2, <3>1 DEF IsOpener, Fields
  <2> QED BY <2>1, <2>2
<1>3. Writes(p, x, db, tx) /\ Found(x, db)
  BY <1>1, <1>2 DEF OpeningInv, Writes, Found
<1> HIDE DEF x
<1> QED BY <1>1, <1>2, <1>3, MoveKeeps DEF OpeningInv, OpeningTypes, Grows, Writes

(* Every step keeps the invariant and the pseudonym key.  Only a process   *)
(* that found no collector id writes one.                                  *)
LEMMA OpeningStep ==
  ASSUME OpeningInv, [OpeningNext]_openingVars
  PROVE  /\ OpeningInv'
         /\ db.key # None => db'.key = db.key
         /\ \A n \in Nat \ {None} : Settled(n) => Settled(n)'
<1>1. CASE UNCHANGED openingVars
  BY <1>1 DEF openingVars, OpeningInv, OpeningTypes, Settled
<1>2. ASSUME NEW p \in Openers, Commit(p) PROVE OpeningInv' /\ db'.id = db.id /\ (db.key # None => db'.key = db.key)
  BY <1>2, CommitKeeps DEF OpeningInv, Whole, Grows
<1>3. ASSUME NEW p \in Openers, SetId(p) PROVE OpeningInv' /\ db'.key = db.key
  BY <1>3, SetIdKeeps
<1>4. ASSUME NEW p \in Openers,
             \/ Open(p) \/ Begin(p) \/ Ddl(p) \/ Record(p) \/ ReadId(p) \/ LoadKey(p) \/ Refuse(p) \/ Die(p)
      PROVE  OpeningInv' /\ UNCHANGED db
  <2>1. ASSUME Refuse(p) \/ Die(p) PROVE OpeningInv' /\ UNCHANGED db
    BY <2>1, FailKeeps DEF Refuse, Die, Lost
  <2> QED
    BY <1>4, <2>1, OpenKeeps, BeginKeeps, DdlKeeps, RecordKeeps, ReadIdKeeps, LoadKeyKeeps
    DEF Open, Begin, Ddl, Record, ReadId, LoadKey
<1>5. ASSUME NEW n \in Nat \ {None}, Settled(n), OpeningNext PROVE Settled(n)'
  <2>1. PICK p \in Openers :
          \/ Open(p) \/ Begin(p) \/ Ddl(p) \/ Record(p) \/ Commit(p)
          \/ ReadId(p) \/ SetId(p) \/ LoadKey(p) \/ Refuse(p) \/ Die(p)
    BY <1>5 DEF OpeningNext
  <2>2. ~SetId(p)
    BY <1>5 DEF SetId, At, Settled
  <2>3. db'.id = db.id
    BY <1>2, <1>4, <2>1, <2>2
  <2>4. \A q \in Openers \ {p} : opener'[q] = opener[q]
    BY <2>1 DEF Open, Begin, Ddl, Record, Commit, ReadId, SetId, LoadKey, Refuse, Die, Fail, Goto,
                OpeningInv, OpeningTypes
  <2>5. opener'[p].at # "setId"
    <3> USE DEF OpeningInv, OpeningTypes, IsOpener, Fields
    <3>1. CASE Open(p) \/ LoadKey(p)
      <4>1. CASE Open(p)
        BY <4>1 DEF Open
      <4>2. CASE LoadKey(p) /\ db.key = None
        BY <4>2 DEF LoadKey, Closed
      <4>3. CASE LoadKey(p) /\ db.key # None
        <5>1. opener'[p] = [opener[p] EXCEPT !.at = "open", !.key = db.key]
          BY <4>3 DEF LoadKey
        <5> QED BY <5>1 DEF Fields
      <4> QED BY <3>1, <4>1, <4>2, <4>3
    <3>2. CASE Fail(p) \/ Begin(p) \/ Ddl(p) \/ Record(p)
      BY <3>2 DEF Begin, Ddl, Record, Fail, Goto
    <3>3. CASE Commit(p)
      BY <3>3 DEF Commit
    <3>4. CASE ReadId(p)
      BY <1>5, <3>4 DEF ReadId, Goto, Unnamed, Settled
    <3> QED BY <2>1, <2>2, <3>1, <3>2, <3>3, <3>4 DEF Refuse, Die
  <2> QED BY <1>5, <2>3, <2>4, <2>5 DEF Settled
<1> QED BY <1>1, <1>2, <1>3, <1>4, <1>5 DEF OpeningNext

(* So the invariant always holds. *)
LEMMA OpeningInvariant == OpeningSpec => []OpeningInv
  BY OpeningStarts, OpeningStep, PTL DEF OpeningSpec

(* Migrations are whole, and whoever has the database open has them and    *)
(* the one key, however many processes open it and wherever they die.      *)
THEOREM WholeMigrations == OpeningSpec => []MigrationsAreWhole
<1>1. OpeningInv => MigrationsAreWhole
  BY DEF OpeningInv, Whole, Found, MigrationsAreWhole
<1> QED BY <1>1, OpeningInvariant, PTL

(* The pseudonym key is never replaced, and the collector's id only by     *)
(* processes that opened the database together when it had none.           *)
THEOREM IdentityKept == OpeningSpec => IdentityIsKept
<1>1. OpeningSpec => [][db.key # None => db'.key = db.key]_openingVars
  <2>1. OpeningInv /\ [OpeningNext]_openingVars => [db.key # None => db'.key = db.key]_openingVars
    BY OpeningStep
  <2> QED BY <2>1, OpeningInvariant, PTL DEF OpeningSpec
<1>2. ASSUME NEW n \in 1 .. MaxOpens + 1
      PROVE  OpeningSpec => [](Quiet /\ db.id = n => [](db.id = n))
  <2>1. n \in Nat \ {None}
    BY OpeningConstants DEF None
  <2>2. OpeningInv /\ [OpeningNext]_openingVars => (Settled(n) => Settled(n)')
    BY <2>1, OpeningStep
  <2>3. Quiet /\ db.id = n => Settled(n)
    BY DEF Quiet, Settled
  <2>4. Settled(n) => db.id = n
    BY DEF Settled
  <2> QED BY <2>2, <2>3, <2>4, OpeningInvariant, PTL DEF OpeningSpec
<1> QED BY <1>1, <1>2 DEF IdentityIsKept
=============================================================================
