------------------------------ MODULE OdbcPool ------------------------------
(***************************************************************************)
(* ODBCPool (crates/db_connection_pool/src/odbcpool.rs): the process-wide  *)
(* ODBC Environment ENV, a lazy_static initialised on first dereference,   *)
(* and the pools of the ODBC data sources, which each borrow it in         *)
(* ODBCPool::new and connect through it.                                   *)
(*                                                                         *)
(* Several data sources may build their pools concurrently.  The first    *)
(* dereference of ENV runs the initialiser under std's Once: it sets       *)
(* driver-aware connection pooling process-wide (a failure is only         *)
(* logged), then creates the Environment, panicking when that fails.       *)
(* Other threads dereferencing ENV meanwhile block until the initialiser   *)
(* returns; a panic poisons the Once, and every later dereference panics.  *)
(***************************************************************************)
EXTENDS Naturals

CONSTANTS
    Pools,       \* the ODBC data sources whose pools are built
    HasString    \* the ones whose params hold odbc_connection_string

ASSUME StringAssumption == HasString \subseteq Pools

VARIABLES
    pc,          \* per pool: where its ODBCPool::new / connect call is
    once,        \* the state of ENV's Once: "new", "running", "done", "poisoned"
    pooling,     \* the process-wide SQL_ATTR_CONNECTION_POOLING
    env          \* ENV: "none" until the Environment is created, then "valid"

vars == <<pc, once, pooling, env>>

Pcs == {"start", "deref", "setpool", "envnew", "ready",
        "connected", "failed", "panic"}
Ended == {"connected", "failed", "panic"}

TypeOK ==
    /\ pc \in [Pools -> Pcs]
    /\ once \in {"new", "running", "done", "poisoned"}
    /\ pooling \in {"off", "driver_aware"}
    /\ env \in {"none", "valid"}

Init ==
    /\ pc = [p \in Pools |-> "start"]
    /\ once = "new"
    /\ pooling = "off"
    /\ env = "none"

Goto(p, where) == pc' = [pc EXCEPT ![p] = where]

(* ODBCPool::new: without odbc_connection_string the call returns          *)
(* MissingConnectionString before ENV is touched.                           *)
New(p) ==
    /\ pc[p] = "start"
    /\ Goto(p, IF p \in HasString THEN "deref" ELSE "failed")
    /\ UNCHANGED <<once, pooling, env>>

(* A faulty Deref that does not wait for a running initialiser and takes *)
(* the Once for poisoned.                                                  *)
DerefNoWait(p) ==
    /\ pc[p] = "deref"
    /\ CASE once = "new"  -> once' = "running" /\ Goto(p, "setpool")
         [] once = "done" -> Goto(p, "ready") /\ UNCHANGED once
         [] OTHER         -> Goto(p, "panic") /\ UNCHANGED once
    /\ UNCHANGED <<pooling, env>>

(* pool: &ENV: the first dereference runs the initialiser; one made while *)
(* it runs blocks (no step); after it, the dereference returns the         *)
(* Environment, or panics when the Once is poisoned.                       *)
Deref(p) ==
    /\ pc[p] = "deref"
    /\ once # "running"
    /\ CASE once = "new"  -> once' = "running" /\ Goto(p, "setpool")
         [] once = "done" -> Goto(p, "ready") /\ UNCHANGED once
         [] OTHER         -> Goto(p, "panic") /\ UNCHANGED once
    /\ UNCHANGED <<pooling, env>>

(* Environment::set_connection_pooling(DriverAware): an error is logged    *)
(* and the initialiser goes on.                                            *)
SetPooling(p) ==
    /\ pc[p] = "setpool"
    /\ \E ok \in BOOLEAN : pooling' = IF ok THEN "driver_aware" ELSE pooling
    /\ Goto(p, "envnew")
    /\ UNCHANGED <<once, env>>

(* A faulty initialiser that runs itself again until Environment::new     *)
(* succeeds.                                                               *)
EnvNewRetry(p) ==
    /\ pc[p] = "envnew"
    /\ \/ env' = "valid" /\ once' = "done" /\ Goto(p, "ready")
       \/ Goto(p, "setpool") /\ UNCHANGED <<env, once>>
    /\ UNCHANGED pooling

(* A faulty initialiser that hands out an unusable Environment on error.  *)
EnvNewDefault(p) ==
    /\ pc[p] = "envnew"
    /\ \/ env' = "valid" /\ once' = "done" /\ Goto(p, "ready")
       \/ once' = "done" /\ Goto(p, "ready") /\ UNCHANGED env
    /\ UNCHANGED pooling

(* Environment::new: the Environment is stored and the Once completes; on *)
(* error the initialiser panics and the Once is poisoned.                  *)
EnvNew(p) ==
    /\ pc[p] = "envnew"
    /\ \/ env' = "valid" /\ once' = "done" /\ Goto(p, "ready")
       \/ once' = "poisoned" /\ Goto(p, "panic") /\ UNCHANGED env
    /\ UNCHANGED pooling

(* connect: connect_with_connection_string on ENV; a driver error is      *)
(* returned with ?.                                                        *)
Connect(p) ==
    /\ pc[p] = "ready"
    /\ \E ok \in BOOLEAN : Goto(p, IF ok THEN "connected" ELSE "failed")
    /\ UNCHANGED <<once, pooling, env>>

Step(p) == New(p) \/ Deref(p) \/ SetPooling(p) \/ EnvNew(p) \/ Connect(p)

Next == \E p \in Pools : Step(p)

(* Each data source's pool is built on a thread of its own that keeps     *)
(* running while it can, and the Once wakes its blocked threads when the  *)
(* initialiser returns or panics.                                          *)
Spec == Init /\ [][Next]_vars /\ \A p \in Pools : WF_vars(Step(p))

-----------------------------------------------------------------------------
(***************************************************************************)
(* EnvReady (spec: the environment is a process-wide singleton,           *)
(* initialised exactly once): a pool that got past &ENV, whether it        *)
(* initialised ENV or waited for another pool to, holds the one valid      *)
(* Environment.                                                            *)
(***************************************************************************)
EnvReady ==
    \A p \in Pools : pc[p] \in {"ready", "connected"} => once = "done" /\ env = "valid"

(***************************************************************************)
(* The refinement mapping onto OdbcEnvOnce: a pool inside &ENV has not yet *)
(* obtained it, and the Once's outcome is the initialisation's.            *)
(***************************************************************************)
InitOutcome == IF once = "done" THEN "ok" ELSE IF once = "poisoned" THEN "failed" ELSE "none"
Status == [p \in Pools |-> IF pc[p] \in {"deref", "setpool", "envnew"} THEN "start" ELSE pc[p]]

Once == INSTANCE OdbcEnvOnce WITH init <- InitOutcome, status <- Status

(***************************************************************************)
(* EnvInitialisedOnce (spec: "initialised exactly once"): ODBCPool::new    *)
(* and connect implement OdbcEnvOnce: ENV's initialisation is one atomic   *)
(* event for the pools, no pool is ready before it succeeded or panics     *)
(* before it failed, and every pool sees the same outcome.                 *)
(***************************************************************************)
EnvInitialisedOnce == Once!Spec

(***************************************************************************)
(* PoolCallsEnd: every pool's ODBCPool::new and connect call returns or    *)
(* panics; none blocks forever on ENV's initialisation, whatever the       *)
(* initialiser does.                                                       *)
(***************************************************************************)
PoolCallsEnd == \A p \in Pools : <>(pc[p] \in Ended)
=============================================================================
