---------------------------- MODULE OdbcPoolProofs ----------------------------
(***************************************************************************)
(* Proofs about the ODBC environment's once-only initialisation, for every *)
(* set of pools: a pool that got past &ENV holds the valid Environment.    *)
(***************************************************************************)
EXTENDS OdbcPool, TLAPS

USE StringAssumption

(***************************************************************************)
(* The inductive invariant.  EnvReady alone is not inductive: a failing    *)
(* Environment::new poisons the Once, which would break it for a pool at   *)
(* ready.  What rules that out is that the initialiser runs only while the *)
(* Once is running, and that no pool is past &ENV then: a waiter proceeds  *)
(* only once the Once is done, and a done Once holds the Environment and   *)
(* never changes again.  The initialiser is one pool, so that when it      *)
(* completes the Once no other pool is left inside the initialiser.       *)
(***************************************************************************)
Initialising(p) == pc[p] \in {"setpool", "envnew"}
InitialiserRunning == \A p \in Pools : Initialising(p) => once = "running"
OneInitialiser == \A p, q \in Pools : Initialising(p) /\ Initialising(q) => p = q
DoneHasEnv == once = "done" => env = "valid"

IInv ==
    /\ TypeOK
    /\ InitialiserRunning
    /\ OneInitialiser
    /\ DoneHasEnv
    /\ EnvReady

USE DEF IInv, TypeOK, InitialiserRunning, OneInitialiser, Initialising, DoneHasEnv, EnvReady, Pcs

LEMMA InitIInv == Init => IInv
BY DEF Init

LEMMA NewIInv ==
    ASSUME IInv, NEW p \in Pools, New(p) PROVE IInv'
BY DEF New, Goto

LEMMA DerefIInv ==
    ASSUME IInv, NEW p \in Pools, Deref(p) PROVE IInv'
<1>1. CASE once = "new"
  <2>1. once' = "running" /\ pc' = [pc EXCEPT ![p] = "setpool"] /\ UNCHANGED <<env, pooling>>
    BY <1>1 DEF Deref, Goto
  <2>2. \A q \in Pools : pc[q] \notin {"ready", "connected", "setpool", "envnew"}
    BY <1>1
  <2>3. QED
    BY <2>1, <2>2
<1>2. CASE once = "done"
  BY <1>2 DEF Deref, Goto
<1>3. CASE once = "poisoned"
  BY <1>3 DEF Deref, Goto
<1>4. QED
  BY <1>1, <1>2, <1>3 DEF Deref

LEMMA SetPoolingIInv ==
    ASSUME IInv, NEW p \in Pools, SetPooling(p) PROVE IInv'
BY DEF SetPooling, Goto

(* A failing Environment::new poisons the Once while no pool is past &ENV. *)
LEMMA EnvNewIInv ==
    ASSUME IInv, NEW p \in Pools, EnvNew(p) PROVE IInv'
<1>1. once = "running"
  BY DEF EnvNew
<1>2. \A q \in Pools : pc[q] \notin {"ready", "connected"}
  BY <1>1
<1>3. CASE env' = "valid" /\ once' = "done" /\ Goto(p, "ready")
  BY <1>1, <1>3 DEF EnvNew, Goto
<1>4. CASE once' = "poisoned" /\ Goto(p, "panic") /\ UNCHANGED env
  BY <1>2, <1>4 DEF EnvNew, Goto
<1>5. QED
  BY <1>3, <1>4 DEF EnvNew

LEMMA ConnectIInv ==
    ASSUME IInv, NEW p \in Pools, Connect(p) PROVE IInv'
BY DEF Connect, Goto

LEMMA NextIInv == IInv /\ [Next]_vars => IInv'
<1> SUFFICES ASSUME IInv, [Next]_vars PROVE IInv'
  OBVIOUS
<1>1. CASE UNCHANGED vars
  BY <1>1 DEF vars
<1>2. CASE Next
  BY <1>2, NewIInv, DerefIInv, SetPoolingIInv, EnvNewIInv, ConnectIInv DEF Next, Step
<1>3. QED
  BY <1>1, <1>2

(* EnvReady: in every run, however the pools' constructions interleave and *)
(* whether ENV's initialiser succeeds or panics, a pool past &ENV holds    *)
(* the one valid Environment.                                              *)
THEOREM EnvReadyHolds == Spec => []EnvReady
<1>1. IInv => EnvReady
  OBVIOUS
<1>2. QED
  BY <1>1, InitIInv, NextIInv, PTL DEF Spec

-----------------------------------------------------------------------------
(***************************************************************************)
(* The refinement of OdbcEnvOnce.  Besides IInv it needs that only a pool  *)
(* with a connection string ever reaches &ENV: the abstract spec lets only *)
(* those initialise ENV or obtain it.                                      *)
(***************************************************************************)
InEnv(p) == pc[p] \in {"deref", "setpool", "envnew"}
StringInv == \A p \in Pools : InEnv(p) => p \in HasString

LEMMA StringStep == IInv /\ StringInv /\ [Next]_vars => StringInv'
<1> SUFFICES ASSUME IInv, StringInv, [Next]_vars PROVE StringInv'
  OBVIOUS
<1>1. CASE UNCHANGED vars
  BY <1>1 DEF vars, StringInv, InEnv
<1>2. ASSUME NEW p \in Pools, Step(p) PROVE StringInv'
  <2>1. \E v \in Pcs : pc' = [pc EXCEPT ![p] = v] /\ (InEnv(p)' => p \in HasString \/ InEnv(p))
    BY <1>2 DEF Step, New, Deref, SetPooling, EnvNew, Connect, Goto, InEnv
  <2>2. QED BY <2>1 DEF StringInv, InEnv
<1>3. QED BY <1>1, <1>2 DEF Next

LEMMA StringInvariant == Spec => [](IInv /\ StringInv)
<1>1. Init => IInv /\ StringInv
  BY InitIInv DEF Init, StringInv, InEnv
<1>2. IInv /\ StringInv /\ [Next]_vars => IInv' /\ StringInv'
  BY NextIInv, StringStep
<1>3. QED BY <1>1, <1>2, PTL DEF Spec

LEMMA InitRefines == Init => Once!Init
BY DEF Init, Once!Init, InitOutcome, Status

LEMMA StepRefines ==
    ASSUME IInv, StringInv, [Next]_vars
    PROVE  [Once!Next]_Once!ovars
<1>1. CASE UNCHANGED vars
  BY <1>1 DEF vars, Once!ovars, InitOutcome, Status
<1>2. ASSUME NEW p \in Pools, New(p) PROVE [Once!Next]_Once!ovars
  <2>1. CASE p \in HasString
    BY <1>2, <2>1 DEF New, Goto, Once!ovars, InitOutcome, Status
  <2>2. CASE p \notin HasString
    <3>1. Once!NoString(p)
      BY <1>2, <2>2 DEF New, Goto, Once!NoString, Once!Set, InitOutcome, Status
    <3>2. QED BY <3>1 DEF Once!Next
  <2>3. QED BY <2>1, <2>2
<1>3. ASSUME NEW p \in Pools, Deref(p) PROVE [Once!Next]_Once!ovars
  <2>0. p \in HasString
    BY <1>3 DEF Deref, StringInv, InEnv
  <2>1. CASE once = "new"
    BY <1>3, <2>1 DEF Deref, Goto, Once!ovars, InitOutcome, Status
  <2>2. CASE once = "done"
    <3>1. Once!Obtain(p)
      BY <1>3, <2>0, <2>2 DEF Deref, Goto, Once!Obtain, Once!Set, InitOutcome, Status
    <3>2. QED BY <3>1 DEF Once!Next
  <2>3. CASE once = "poisoned"
    <3>1. Once!Obtain(p)
      BY <1>3, <2>0, <2>3 DEF Deref, Goto, Once!Obtain, Once!Set, InitOutcome, Status
    <3>2. QED BY <3>1 DEF Once!Next
  <2>4. QED BY <1>3, <2>1, <2>2, <2>3 DEF Deref
<1>4. ASSUME NEW p \in Pools, SetPooling(p) PROVE [Once!Next]_Once!ovars
  BY <1>4 DEF SetPooling, Goto, Once!ovars, InitOutcome, Status
<1>5. ASSUME NEW p \in Pools, EnvNew(p) PROVE [Once!Next]_Once!ovars
  <2>1. once = "running" /\ p \in HasString
    BY <1>5 DEF EnvNew, StringInv, InEnv
  <2>2. Once!Initialise(p)
    BY <1>5, <2>1 DEF EnvNew, Goto, Once!Initialise, Once!Set, InitOutcome, Status
  <2>3. QED BY <2>2 DEF Once!Next
<1>6. ASSUME NEW p \in Pools, Connect(p) PROVE [Once!Next]_Once!ovars
  <2>1. Once!Use(p)
    BY <1>6 DEF Connect, Goto, Once!Use, Once!Set, InitOutcome, Status
  <2>2. QED BY <2>1 DEF Once!Next
<1>7. QED BY <1>1, <1>2, <1>3, <1>4, <1>5, <1>6 DEF Next, Step

(* EnvInitialisedOnce, for every set of pools and connection strings:     *)
(* ODBCPool::new and connect implement OdbcEnvOnce under the mapping       *)
(* InitOutcome, Status: ENV's initialisation is one event for the pools,  *)
(* and every pool past &ENV acts on its one outcome.                       *)
THEOREM Refinement == Spec => EnvInitialisedOnce
<1>1. IInv /\ StringInv /\ [Next]_vars => [Once!Next]_Once!ovars
  BY StepRefines
<1>2. QED BY <1>1, InitRefines, StringInvariant, PTL DEF Spec, EnvInitialisedOnce, Once!Spec

=============================================================================
