--------------------------- MODULE SqliteProvision ---------------------------
(***************************************************************************)
(* SqliteTableFactory::create (crates/data_components/src/sqlite.rs): the  *)
(* provisioning of one mirrored table in a SQLite file.  Several creators  *)
(* (factory calls of this or another process, each with its own pool and   *)
(* connection) may provision the same table name in the same file.  Each   *)
(* parses its options, connects, probes the catalog with table_exists and, *)
(* when the probe says no, runs one transaction that creates the table and *)
(* its indexes in order and commits.                                       *)
(*                                                                         *)
(* The database keeps only committed state: whether the table exists and   *)
(* which indexes exist.  A transaction is DEFERRED (conn.transaction()):   *)
(* its first write takes the file's write lock, which it holds until the  *)
(* commit or the rollback that dropping a Transaction performs.  A writer  *)
(* that finds the lock taken waits for it up to rusqlite's busy timeout.   *)
(* A process may crash at any point; SQLite's journal then discards the   *)
(* uncommitted work and the factory call is made again on restart.         *)
(***************************************************************************)
EXTENDS Naturals, Sequences, SequencesExt

CONSTANTS
    Creators,       \* the concurrent factory calls for the table
    Indexes,        \* index identifiers (column lists with a unique flag)
    Wanted,         \* Wanted[c]: the indexes option of creator c, in order
    BadIndexes,     \* indexes whose DDL the database rejects (unknown column)
    BadOptions,     \* creators whose indexes / on_conflict options do not parse
    MaxRestarts,    \* bound on the restarts of each creator's process
    NoOne           \* nobody holds the write lock

ASSUME WantedAssumption == Wanted \in [Creators -> Seq(Indexes)]
ASSUME BadAssumption == BadIndexes \subseteq Indexes /\ BadOptions \subseteq Creators
ASSUME RestartsAssumption == MaxRestarts \in Nat
ASSUME NoOneAssumption == NoOne \notin Creators

VARIABLES
    tableExists,    \* committed: the table is in sqlite_master
    dbIndexes,      \* committed: the indexes of the table
    lock,           \* holder of the write (RESERVED) lock
    pc,             \* per creator: where its factory call is
    pending,        \* per creator: uncommitted writes of its transaction
    todo,           \* per creator: indexes its transaction has still to create
    err,            \* per creator: why its factory call failed
    restarts        \* per creator: restarts of its process so far

vars == <<tableExists, dbIndexes, lock, pc, pending, todo, err, restarts>>

Pcs == {"start", "connect", "probe", "create", "index", "wrap", "done", "failed"}
Errs == {"none", "config", "connect", "busy", "exists", "index"}
(* The uncommitted writes of a transaction. *)
Tx(t, i) == [table |-> t, idx |-> i]
NoTx == Tx(FALSE, {})

TypeOK ==
    /\ tableExists \in BOOLEAN
    /\ dbIndexes \subseteq Indexes
    /\ lock \in Creators \cup {NoOne}
    /\ pc \in [Creators -> Pcs]
    /\ pending \in [Creators -> [table : BOOLEAN, idx : SUBSET Indexes]]
    /\ todo \in [Creators -> Seq(Indexes)]
    /\ err \in [Creators -> Errs]
    /\ restarts \in [Creators -> 0..MaxRestarts]

(* The file may already hold the table from an earlier run. *)
Init ==
    /\ \/ tableExists = FALSE /\ dbIndexes = {}
       \/ \E c \in Creators : tableExists = TRUE /\ dbIndexes = ToSet(Wanted[c])
    /\ lock = NoOne
    /\ pc = [c \in Creators |-> "start"]
    /\ pending = [c \in Creators |-> NoTx]
    /\ todo = [c \in Creators |-> <<>>]
    /\ err = [c \in Creators |-> "none"]
    /\ restarts = [c \in Creators |-> 0]

Fail(c, why) ==
    /\ pc' = [pc EXCEPT ![c] = "failed"]
    /\ err' = [err EXCEPT ![c] = why]

(* Dropping the Transaction on an error rolls it back and frees the lock. *)
Rollback(c) ==
    /\ pending' = [pending EXCEPT ![c] = NoTx]
    /\ lock' = IF lock = c THEN NoOne ELSE lock

(* mode, indexes (ColumnReference::try_from) and on_conflict are parsed;  *)
(* the first malformed one fails the call.                                 *)
ParseOptions(c) ==
    /\ pc[c] = "start"
    /\ IF c \in BadOptions THEN Fail(c, "config")
       ELSE /\ pc' = [pc EXCEPT ![c] = "connect"] /\ UNCHANGED err
    /\ UNCHANGED <<tableExists, dbIndexes, lock, pending, todo, restarts>>

(* SqliteConnectionPool::new, Sqlite::connect and the downcast to a       *)
(* SqliteConnection; any of them may fail.                                *)
Connect(c) ==
    /\ pc[c] = "connect"
    /\ \/ /\ pc' = [pc EXCEPT ![c] = "probe"] /\ UNCHANGED err
       \/ Fail(c, "connect")
    /\ UNCHANGED <<tableExists, dbIndexes, lock, pending, todo, restarts>>

(* table_exists: SELECT EXISTS(... sqlite_master ...) on the committed     *)
(* catalog, or false when the query fails (.unwrap_or(false)).            *)
Probe(c) ==
    /\ pc[c] = "probe"
    /\ \E exists \in {tableExists, FALSE} :
          pc' = [pc EXCEPT ![c] = IF exists THEN "wrap" ELSE "create"]
    /\ todo' = [todo EXCEPT ![c] = Wanted[c]]
    /\ UNCHANGED <<tableExists, dbIndexes, lock, pending, err, restarts>>

(* A faulty create_table that runs outside the transaction, in autocommit. *)
CreateTableAutocommit(c) ==
    /\ pc[c] = "create"
    /\ \/ /\ lock \in {NoOne, c}
          /\ IF tableExists
             THEN /\ Fail(c, "exists") /\ UNCHANGED <<tableExists, lock, pending>>
             ELSE /\ tableExists' = TRUE
                   /\ pc' = [pc EXCEPT ![c] = "index"]
                   /\ UNCHANGED <<lock, pending, err>>
       \/ /\ lock \notin {NoOne, c}
          /\ Fail(c, "busy") /\ UNCHANGED <<tableExists, lock, pending>>
    /\ UNCHANGED <<dbIndexes, todo, restarts>>

(* conn.transaction() and create_table: CREATE TABLE takes the write lock; *)
(* it fails when the table exists by now, or when the lock stays taken    *)
(* past the busy timeout.                                                  *)
CreateTable(c) ==
    /\ pc[c] = "create"
    /\ \/ /\ lock \in {NoOne, c}
          /\ IF tableExists
             THEN /\ Fail(c, "exists") /\ Rollback(c)
             ELSE /\ lock' = c
                  /\ pending' = [pending EXCEPT ![c] = Tx(TRUE, @.idx)]
                  /\ pc' = [pc EXCEPT ![c] = "index"]
                  /\ UNCHANGED err
       \/ /\ lock \notin {NoOne, c}
          /\ Fail(c, "busy") /\ Rollback(c)
    /\ UNCHANGED <<tableExists, dbIndexes, todo, restarts>>

(* A faulty create_index whose error path keeps the transaction open. *)
CreateIndexNoRollback(c) ==
    /\ pc[c] = "index"
    /\ todo[c] # <<>>
    /\ IF Head(todo[c]) \in BadIndexes
       THEN /\ Fail(c, "index") /\ UNCHANGED <<lock, pending>>
       ELSE /\ pending' = [pending EXCEPT ![c] = Tx(@.table, @.idx \cup {Head(todo[c])})]
            /\ UNCHANGED <<pc, err, lock>>
    /\ todo' = [todo EXCEPT ![c] = Tail(@)]
    /\ UNCHANGED <<tableExists, dbIndexes, restarts>>

(* create_index for the next index of the option, in order; a rejected    *)
(* index DDL ends the closure with ? and the transaction rolls back.      *)
CreateIndex(c) ==
    /\ pc[c] = "index"
    /\ todo[c] # <<>>
    /\ IF Head(todo[c]) \in BadIndexes
       THEN Fail(c, "index") /\ Rollback(c)
       ELSE /\ pending' = [pending EXCEPT ![c] = Tx(@.table, @.idx \cup {Head(todo[c])})]
            /\ UNCHANGED <<pc, err, lock>>
    /\ todo' = [todo EXCEPT ![c] = Tail(@)]
    /\ UNCHANGED <<tableExists, dbIndexes, restarts>>

(* transaction.commit(): the table and all its indexes become visible at  *)
(* once and the lock is freed.                                            *)
Commit(c) ==
    /\ pc[c] = "index"
    /\ todo[c] = <<>>
    /\ tableExists' = (tableExists \/ pending[c].table)
    /\ dbIndexes' = dbIndexes \cup pending[c].idx
    /\ lock' = NoOne
    /\ pending' = [pending EXCEPT ![c] = NoTx]
    /\ pc' = [pc EXCEPT ![c] = "wrap"]
    /\ UNCHANGED <<todo, err, restarts>>

(* Arc::into_inner and the SqliteTableWriter / DeletionTableProviderAdapter *)
(* wrapping: the call returns the provider.                                *)
Wrap(c) ==
    /\ pc[c] = "wrap"
    /\ pc' = [pc EXCEPT ![c] = "done"]
    /\ UNCHANGED <<tableExists, dbIndexes, lock, pending, todo, err, restarts>>

(* The creator's process dies; SQLite discards its uncommitted work and   *)
(* the restarted process makes the factory call again.                     *)
Crash(c) ==
    /\ restarts[c] < MaxRestarts
    /\ Rollback(c)
    /\ pc' = [pc EXCEPT ![c] = "start"]
    /\ err' = [err EXCEPT ![c] = "none"]
    /\ todo' = [todo EXCEPT ![c] = <<>>]
    /\ restarts' = [restarts EXCEPT ![c] = @ + 1]
    /\ UNCHANGED <<tableExists, dbIndexes>>

Next ==
    \E c \in Creators :
        \/ ParseOptions(c)
        \/ Connect(c)
        \/ Probe(c)
        \/ CreateTable(c)
        \/ CreateIndex(c)
        \/ Commit(c)
        \/ Wrap(c)
        \/ Crash(c)

Spec == Init /\ [][Next]_vars

-----------------------------------------------------------------------------
(***************************************************************************)
(* NoLockLeak: the write lock is held only by a creator inside its open    *)
(* create transaction; every way out of the closure (table exists, busy,   *)
(* rejected index DDL, commit, crash) releases it, so no later writer of   *)
(* the file is stuck behind a finished factory call.                       *)
(***************************************************************************)
NoLockLeak ==
    lock # NoOne => pc[lock] = "index" /\ pending[lock].table

(***************************************************************************)
(* CreateIdempotent (spec 4.5: create_table is idempotent when preceded by *)
(* table_exists, which returns false on error "to avoid racing with       *)
(* creation"): no factory call fails because the table already exists.   *)
(***************************************************************************)
CreateIdempotent == \A c \in Creators : err[c] # "exists"

(***************************************************************************)
(* Refinement: the factory calls, with their races, rejected indexes and   *)
(* crashes, implement the atomic provisioning of SqliteProvisioned: the    *)
(* committed state of the file changes only by one creator's commit, from  *)
(* no table to the table with that creator's whole indexes option.         *)
(***************************************************************************)
Abstract == INSTANCE SqliteProvisioned

ProvisionedAtomically == Abstract!Spec
=============================================================================
