------------------------------- MODULE Opening ------------------------------
(***************************************************************************)
(* Opening the collector's SQLite database (the constructor of             *)
(* CollectorDatabase and its #migrate).  Every command of the CLI opens    *)
(* and migrates it, before a run or a backfill takes the process lock; a   *)
(* status or a doctor never takes it.  So several processes may be in here *)
(* at once, and each may die at any statement.                             *)
(*                                                                         *)
(* A transaction is the writer's copy of the database until it commits.    *)
(***************************************************************************)
EXTENDS Naturals, FiniteSets

CONSTANTS
  Openers,      \* processes that open the database, again and again
  Schema,       \* SCHEMA_VERSION (4): the version this code knows
  KeyVersion,   \* the migration that creates the pseudonym key (3)
  Tolerant,     \* migrations whose DDL is IF NOT EXISTS (2 and 4)
  MaxOpens      \* bound: times the database is opened

None == 0
Nobody == "nobody"

ASSUME OpeningConstants ==
  /\ Nobody \notin Openers /\ Schema \in Nat /\ MaxOpens \in Nat
  /\ KeyVersion \in 1 .. Schema /\ Tolerant \subseteq 1 .. Schema

VARIABLES
  db,        \* what is committed: schema_migrations, the tables of each
             \* migration, the pseudonym key and the collector id
  tx,        \* the process with the write transaction, and its copy of db
  opener,    \* each process: where it is, the versions it found applied, the
             \* key and the collector id it works with
  opens      \* databases opened so far, which also numbers keys and ids

openingVars == <<db, tx, opener, opens>>

Versions == 1 .. Schema
Closed == [at |-> "closed", number |-> 0, applied |-> {}, key |-> None]
NoTx == [by |-> Nobody, copy |-> [applied |-> {}, tables |-> {}, key |-> None, id |-> None]]

(* A database as version n of this code, an older or a newer one left it.  *)
Left(n) == [applied |-> 1 .. n, tables |-> 1 .. n,
            key |-> IF n >= KeyVersion THEN MaxOpens + 1 ELSE None,
            id |-> IF n >= 1 THEN MaxOpens + 1 ELSE None]

OpeningInit ==
  /\ \E n \in 0 .. (Schema + 1) : db = Left(n)
  /\ tx = NoTx
  /\ opener = [p \in Openers |-> Closed]
  /\ opens = 0

(* The write lock of the database is free (a process waits for it up to    *)
(* busy_timeout, and gives up by an error, see Refuse).                    *)
Free == tx.by = Nobody

At(p, from) == opener[p].at = from
Goto(p, to) == opener' = [opener EXCEPT ![p].at = to]

(* The constructor throws: the transaction is rolled back.                 *)
Fail(p) ==
  /\ Goto(p, "closed")
  /\ tx' = IF tx.by = p THEN NoTx ELSE tx

Missing(p) == Versions \ opener[p].applied
NextVersion(p) == CHOOSE v \in Missing(p) : \A w \in Missing(p) : v <= w

-----------------------------------------------------------------------------
(* #migrate reads the versions that are applied, once, outside of any      *)
(* transaction, and refuses a newer schema.                                *)
Open(p) ==
  /\ At(p, "closed") /\ opens < MaxOpens
  /\ opens' = opens + 1
  /\ opener' = [opener EXCEPT ![p] =
       [at |-> IF \E v \in db.applied : v > Schema THEN "closed" ELSE "migrate",
        number |-> opens + 1, applied |-> db.applied, key |-> None]]
  /\ UNCHANGED <<db, tx>>

(* BEGIN IMMEDIATE: the transaction sees what is committed by now. *)
Begin(p) ==
  /\ At(p, "migrate") /\ Missing(p) # {} /\ Free
  /\ tx' = [by |-> p, copy |-> db]
  /\ Goto(p, "ddl")
  /\ UNCHANGED <<db, opens>>

(* CREATE TABLE finds the table of the migration. *)
TableExists(p) == NextVersion(p) \notin Tolerant /\ NextVersion(p) \in tx.copy.tables

(* The tables of the next migration, and with the third the key. *)
Ddl(p) ==
  /\ At(p, "ddl")
  /\ IF TableExists(p) THEN Fail(p)
     ELSE /\ tx' = [tx EXCEPT !.copy.tables = @ \cup {NextVersion(p)},
                              !.copy.key = IF NextVersion(p) = KeyVersion THEN opener[p].number ELSE @]
          /\ Goto(p, "record")
  /\ UNCHANGED <<db, opens>>

(* The primary key of schema_migrations refuses the version. *)
AlreadyRecorded(p) == NextVersion(p) \in tx.copy.applied

Record(p) ==
  /\ At(p, "record")
  /\ IF AlreadyRecorded(p) THEN Fail(p)
     ELSE /\ tx' = [tx EXCEPT !.copy.applied = @ \cup {NextVersion(p)}]
          /\ Goto(p, "commit")
  /\ UNCHANGED <<db, opens>>

Commit(p) ==
  /\ At(p, "commit")
  /\ db' = tx.copy
  /\ tx' = NoTx
  /\ opener' = [opener EXCEPT ![p].at = "migrate", ![p].applied = @ \cup {NextVersion(p)}]
  /\ UNCHANGED opens

(* Mutant: whether there is a collector id is not asked. *)
UnnamedAlways == TRUE

Unnamed == db.id = None

(* All migrations are there: is there a collector id?  The answer is used  *)
(* by the next statement, which does not look again.                       *)
ReadId(p) ==
  /\ At(p, "migrate") /\ Missing(p) = {}
  /\ Goto(p, IF Unnamed THEN "setId" ELSE "loadKey")
  /\ UNCHANGED <<db, tx, opens>>

SetId(p) ==
  /\ At(p, "setId") /\ Free
  /\ db' = [db EXCEPT !.id = opener[p].number]
  /\ Goto(p, "loadKey")
  /\ UNCHANGED <<tx, opens>>

(* The schema's version is written, and #loadActorPseudonymKey finds       *)
(* exactly one key, or the database is not opened.                         *)
LoadKey(p) ==
  /\ At(p, "loadKey") /\ Free
  /\ opener' = [opener EXCEPT ![p] = IF db.key = None THEN Closed
                                    ELSE [@ EXCEPT !.at = "open", !.key = db.key]]
  /\ UNCHANGED <<db, tx, opens>>

(* A statement waited longer than busy_timeout, or the process closes the  *)
(* database.                                                               *)
Refuse(p) ==
  /\ \/ opener[p].at \in {"migrate", "setId", "loadKey"} /\ ~Free
     \/ At(p, "open")
  /\ Fail(p)
  /\ UNCHANGED <<db, opens>>

(* Mutant: what a dead process had written stays. *)
LostNever(p) == [db EXCEPT !.tables = tx.copy.tables, !.key = tx.copy.key]

(* What is committed after a process died: SQLite drops its transaction.   *)
Lost(p) == db

Die(p) ==
  /\ ~At(p, "closed")
  /\ db' = IF tx.by = p THEN Lost(p) ELSE db
  /\ Fail(p)
  /\ UNCHANGED opens

OpeningNext == \E p \in Openers :
  \/ Open(p) \/ Begin(p) \/ Ddl(p) \/ Record(p) \/ Commit(p)
  \/ ReadId(p) \/ SetId(p) \/ LoadKey(p) \/ Refuse(p) \/ Die(p)

OpeningSpec == OpeningInit /\ [][OpeningNext]_openingVars

-----------------------------------------------------------------------------
(* Properties. *)

(* Every migration is there as a whole or not at all, whoever died in it   *)
(* and whoever else ran it: its version, its tables and, for the third,    *)
(* the key; and every process that got the database open has a schema and  *)
(* the key that everybody else has.                                        *)
MigrationsAreWhole ==
  /\ db.applied = db.tables
  /\ (db.key # None) = (KeyVersion \in db.applied)
  /\ \A p \in Openers : opener[p].at = "open" =>
       Versions \subseteq db.applied /\ opener[p].key = db.key /\ db.id # None

Quiet == \A p \in Openers : opener[p].at \in {"closed", "open"}

(* The key, once made, is never replaced: pseudonyms of a day stay the     *)
(* same.  The collector's id is not replaced either, but for processes     *)
(* that opened the database together when it had none: once it is there    *)
(* and nobody is opening the database, it stays.                           *)
IdentityIsKept ==
  /\ [][db.key # None => db'.key = db.key]_openingVars
  /\ \A n \in 1 .. MaxOpens + 1 : [](Quiet /\ db.id = n => [](db.id = n))
=============================================================================
