------------------------ MODULE SqliteProvisionProofs ------------------------
(***************************************************************************)
(* Proofs about SqliteTableFactory::create for every set of creators,      *)
(* index options, rejected indexes and restart bound: the write lock never *)
(* leaks (NoLockLeak), and the concurrent factory calls implement the      *)
(* atomic provisioning of SqliteProvisioned.                               *)
(***************************************************************************)
EXTENDS SqliteProvision, SequenceTheorems, TLAPS

USE WantedAssumption, BadAssumption, RestartsAssumption, NoOneAssumption

(***************************************************************************)
(* The inductive invariant.  Only the holder of the write lock has        *)
(* uncommitted writes, and it is the creator inside its create             *)
(* transaction; it took the lock by creating the table while no table was  *)
(* committed, and its uncommitted indexes with the ones still to create    *)
(* are its whole indexes option.  With no table committed, no index is.    *)
(***************************************************************************)
OnlyHolderPending == \A c \in Creators : lock # c => pending[c] = NoTx
IndexHoldsLock == \A c \in Creators : pc[c] = "index" => lock = c
CreateHasOption == \A c \in Creators : pc[c] = "create" => todo[c] = Wanted[c]
HolderInTx ==
    lock # NoOne =>
        /\ pc[lock] = "index"
        /\ pending[lock].table
        /\ ~tableExists
        /\ pending[lock].idx \cup ToSet(todo[lock]) = ToSet(Wanted[lock])
NoTableNoIndex == ~tableExists => dbIndexes = {}

IInv ==
    /\ TypeOK
    /\ OnlyHolderPending
    /\ IndexHoldsLock
    /\ CreateHasOption
    /\ HolderInTx
    /\ NoTableNoIndex

(* The indexes of an option are indexes. *)
LEMMA ToSetType ==
    ASSUME NEW S, NEW s \in Seq(S)
    PROVE  ToSet(s) \subseteq S
BY LenProperties DEF ToSet

(* The indexes of a non-empty option are its head and those of its tail. *)
LEMMA ToSetHeadTail ==
    ASSUME NEW S, NEW s \in Seq(S), s # <<>>
    PROVE  ToSet(s) = {Head(s)} \cup ToSet(Tail(s))
<1>1. Len(s) \in Nat \ {0} /\ DOMAIN s = 1..Len(s)
  BY EmptySeq, LenProperties
<1>2. Tail(s) \in Seq(S) /\ Len(Tail(s)) = Len(s) - 1
      /\ \A i \in 1..Len(s) - 1 : Tail(s)[i] = s[i + 1]
  BY <1>1, HeadTailProperties
<1>3. DOMAIN Tail(s) = 1..Len(s) - 1 /\ Head(s) = s[1]
  BY <1>2, LenProperties
<1>4. ASSUME NEW x \in ToSet(s) PROVE x \in {Head(s)} \cup ToSet(Tail(s))
  <2>1. PICK i \in 1..Len(s) : x = s[i]
    BY <1>1 DEF ToSet
  <2>2. CASE i = 1
    BY <2>1, <2>2, <1>3
  <2>3. CASE i # 1
    <3>1. i - 1 \in 1..Len(s) - 1 /\ Tail(s)[i - 1] = x
      BY <1>1, <1>2, <2>1, <2>3
    <3>2. QED
      BY <3>1, <1>3 DEF ToSet
  <2>4. QED
    BY <2>2, <2>3
<1>5. ASSUME NEW x \in {Head(s)} \cup ToSet(Tail(s)) PROVE x \in ToSet(s)
  <2>1. CASE x = Head(s)
    BY <1>1, <1>3, <2>1 DEF ToSet
  <2>2. CASE x \in ToSet(Tail(s))
    <3>1. PICK i \in 1..Len(s) - 1 : x = Tail(s)[i]
      BY <2>2, <1>3 DEF ToSet
    <3>2. i + 1 \in 1..Len(s) /\ x = s[i + 1]
      BY <3>1, <1>1, <1>2
    <3>3. QED
      BY <3>2, <1>1 DEF ToSet
  <2>3. QED
    BY <1>5, <2>1, <2>2
<1>6. QED
  BY <1>4, <1>5

LEMMA ToSetEmpty == ToSet(<<>>) = {}
BY DEF ToSet

-----------------------------------------------------------------------------
LEMMA InitIInv == Init => IInv
<1> SUFFICES ASSUME Init PROVE IInv
  OBVIOUS
<1>1. dbIndexes \subseteq Indexes
  BY ToSetType DEF Init
<1>2. NoTx \in [table : BOOLEAN, idx : SUBSET Indexes]
  BY DEF NoTx, Tx
<1>3. TypeOK
  <2>1. tableExists \in BOOLEAN /\ lock \in Creators \cup {NoOne}
    BY DEF Init
  <2>2. pc \in [Creators -> Pcs] /\ err \in [Creators -> Errs]
    BY DEF Init, Pcs, Errs
  <2>3. pending \in [Creators -> [table : BOOLEAN, idx : SUBSET Indexes]]
    BY <1>2 DEF Init
  <2>4. todo \in [Creators -> Seq(Indexes)]
    BY EmptySeq DEF Init
  <2>5. restarts \in [Creators -> 0..MaxRestarts]
    BY DEF Init
  <2>6. QED
    BY <1>1, <2>1, <2>2, <2>3, <2>4, <2>5 DEF TypeOK
<1>4. OnlyHolderPending /\ IndexHoldsLock /\ CreateHasOption /\ HolderInTx
  BY NoOneAssumption DEF Init, OnlyHolderPending, IndexHoldsLock, CreateHasOption, HolderInTx
<1>5. NoTableNoIndex
  BY DEF Init, NoTableNoIndex
<1>6. QED
  BY <1>3, <1>4, <1>5 DEF IInv

(* Steps that touch only the creator's own position, option or error. *)
LEMMA ParseOptionsIInv ==
    ASSUME IInv, NEW c \in Creators, ParseOptions(c) PROVE IInv'
<1>1. CASE c \in BadOptions
  BY <1>1 DEF ParseOptions, Fail, IInv, OnlyHolderPending, IndexHoldsLock, CreateHasOption, HolderInTx, NoTableNoIndex, TypeOK, Pcs, Errs
<1>2. CASE c \notin BadOptions
  BY <1>2 DEF ParseOptions, IInv, OnlyHolderPending, IndexHoldsLock, CreateHasOption, HolderInTx, NoTableNoIndex, TypeOK, Pcs
<1>3. QED
  BY <1>1, <1>2

LEMMA ConnectIInv ==
    ASSUME IInv, NEW c \in Creators, Connect(c) PROVE IInv'
<1>1. CASE pc' = [pc EXCEPT ![c] = "probe"] /\ UNCHANGED err
  BY <1>1 DEF Connect, IInv, OnlyHolderPending, IndexHoldsLock, CreateHasOption, HolderInTx, NoTableNoIndex, TypeOK, Pcs
<1>2. CASE Fail(c, "connect")
  BY <1>2 DEF Connect, Fail, IInv, OnlyHolderPending, IndexHoldsLock, CreateHasOption, HolderInTx, NoTableNoIndex, TypeOK, Pcs, Errs
<1>3. QED
  BY <1>1, <1>2 DEF Connect

LEMMA ProbeIInv ==
    ASSUME IInv, NEW c \in Creators, Probe(c) PROVE IInv'
BY DEF Probe, IInv, OnlyHolderPending, IndexHoldsLock, CreateHasOption, HolderInTx, NoTableNoIndex, TypeOK, Pcs

LEMMA WrapIInv ==
    ASSUME IInv, NEW c \in Creators, Wrap(c) PROVE IInv'
BY DEF Wrap, IInv, OnlyHolderPending, IndexHoldsLock, CreateHasOption, HolderInTx, NoTableNoIndex, TypeOK, Pcs

(* A step that fails creator c's call and rolls its transaction back. *)
LEMMA FailRollbackIInv ==
    ASSUME IInv, NEW c \in Creators, NEW why \in Errs, pc[c] # "index",
           pc' = [pc EXCEPT ![c] = "failed"], err' = [err EXCEPT ![c] = why],
           pending' = [pending EXCEPT ![c] = NoTx], lock' = lock,
           UNCHANGED <<tableExists, dbIndexes, todo, restarts>>
    PROVE  IInv'
<1>1. lock # c
  BY DEF IInv, HolderInTx
<1>2. TypeOK'
  BY DEF IInv, TypeOK, Pcs, NoTx, Tx
<1>3. (OnlyHolderPending /\ IndexHoldsLock /\ CreateHasOption /\ NoTableNoIndex)'
  BY <1>1 DEF IInv, OnlyHolderPending, IndexHoldsLock, CreateHasOption, NoTableNoIndex
<1>4. HolderInTx'
  BY <1>1 DEF IInv, HolderInTx
<1>5. QED
  BY <1>2, <1>3, <1>4 DEF IInv

LEMMA CreateTableIInv ==
    ASSUME IInv, NEW c \in Creators, CreateTable(c) PROVE IInv'
<1>1. pc[c] = "create" /\ UNCHANGED <<tableExists, dbIndexes, todo, restarts>>
  BY DEF CreateTable
<1>2. CASE lock \in {NoOne, c} /\ ~tableExists
  <2>1. lock = NoOne /\ todo[c] = Wanted[c] /\ pending[c] = NoTx
    BY <1>1, <1>2 DEF IInv, OnlyHolderPending, CreateHasOption, HolderInTx
  <2>2. /\ lock' = c
        /\ pending' = [pending EXCEPT ![c] = Tx(TRUE, {})]
        /\ pc' = [pc EXCEPT ![c] = "index"]
        /\ err' = err
    BY <1>2, <2>1 DEF CreateTable, NoTx, Tx
  <2>3. TypeOK'
    BY <1>1, <2>2 DEF IInv, TypeOK, Pcs, Tx
  <2>4. (OnlyHolderPending /\ IndexHoldsLock /\ CreateHasOption /\ NoTableNoIndex)'
    BY <1>1, <2>1, <2>2, NoOneAssumption
    DEF IInv, TypeOK, OnlyHolderPending, IndexHoldsLock, CreateHasOption, NoTableNoIndex
  <2>5. HolderInTx'
    BY <1>1, <1>2, <2>1, <2>2 DEF IInv, TypeOK, HolderInTx, Tx
  <2>6. QED
    BY <2>3, <2>4, <2>5 DEF IInv
<1>3. CASE lock \in {NoOne, c} /\ tableExists
  <2>1. pc' = [pc EXCEPT ![c] = "failed"] /\ err' = [err EXCEPT ![c] = "exists"]
        /\ pending' = [pending EXCEPT ![c] = NoTx] /\ lock' = lock
    <3>1. lock # c
      BY <1>1 DEF IInv, HolderInTx
    <3>2. QED
      BY <1>3, <3>1 DEF CreateTable, Fail, Rollback
  <2>2. QED
    BY <1>1, <2>1, FailRollbackIInv DEF Errs
<1>4. CASE lock \notin {NoOne, c}
  <2>1. pc' = [pc EXCEPT ![c] = "failed"] /\ err' = [err EXCEPT ![c] = "busy"]
        /\ pending' = [pending EXCEPT ![c] = NoTx] /\ lock' = lock
    BY <1>4 DEF CreateTable, Fail, Rollback
  <2>2. QED
    BY <1>1, <2>1, FailRollbackIInv DEF Errs
<1>5. QED
  BY <1>2, <1>3, <1>4

LEMMA CreateIndexIInv ==
    ASSUME IInv, NEW c \in Creators, CreateIndex(c) PROVE IInv'
<1>1. /\ pc[c] = "index" /\ lock = c
      /\ todo[c] \in Seq(Indexes) /\ todo[c] # <<>>
      /\ Head(todo[c]) \in Indexes /\ Tail(todo[c]) \in Seq(Indexes)
      /\ todo' = [todo EXCEPT ![c] = Tail(todo[c])]
      /\ UNCHANGED <<tableExists, dbIndexes, restarts>>
  BY HeadTailProperties DEF CreateIndex, IInv, TypeOK, IndexHoldsLock
<1>2. CASE Head(todo[c]) \in BadIndexes
  <2>1. pc' = [pc EXCEPT ![c] = "failed"] /\ err' = [err EXCEPT ![c] = "index"]
        /\ pending' = [pending EXCEPT ![c] = NoTx] /\ lock' = NoOne
    BY <1>1, <1>2 DEF CreateIndex, Fail, Rollback
  <2>2. TypeOK'
    BY <1>1, <2>1 DEF IInv, TypeOK, Pcs, Errs, NoTx, Tx
  <2>3. OnlyHolderPending'
    BY <1>1, <2>1 DEF IInv, TypeOK, OnlyHolderPending
  <2>4. IndexHoldsLock'
    BY <1>1, <2>1 DEF IInv, TypeOK, IndexHoldsLock
  <2>5. (CreateHasOption /\ HolderInTx /\ NoTableNoIndex)'
    BY <1>1, <2>1 DEF IInv, CreateHasOption, HolderInTx, NoTableNoIndex
  <2>6. QED
    BY <2>2, <2>3, <2>4, <2>5 DEF IInv
<1>3. CASE Head(todo[c]) \notin BadIndexes
  <2>1. ToSet(todo[c]) = {Head(todo[c])} \cup ToSet(Tail(todo[c]))
    BY <1>1, ToSetHeadTail
  <2>2. /\ pending' = [pending EXCEPT ![c] = Tx(pending[c].table, pending[c].idx \cup {Head(todo[c])})]
        /\ UNCHANGED <<pc, err, lock>>
    BY <1>3 DEF CreateIndex
  <2>3. TypeOK'
    BY <1>1, <2>2 DEF IInv, TypeOK, Tx
  <2>4. HolderInTx'
    BY <1>1, <2>1, <2>2 DEF IInv, TypeOK, HolderInTx, Tx
  <2>5. (OnlyHolderPending /\ IndexHoldsLock /\ CreateHasOption /\ NoTableNoIndex)'
    BY <1>1, <2>2 DEF IInv, OnlyHolderPending, IndexHoldsLock, CreateHasOption, NoTableNoIndex
  <2>6. QED
    BY <2>3, <2>4, <2>5 DEF IInv
<1>4. QED
  BY <1>2, <1>3

LEMMA CommitIInv ==
    ASSUME IInv, NEW c \in Creators, Commit(c) PROVE IInv'
<1>1. lock = c /\ pending[c].table /\ ~tableExists /\ dbIndexes = {}
      /\ pending[c].idx = ToSet(Wanted[c])
  BY ToSetEmpty DEF Commit, IInv, OnlyHolderPending, IndexHoldsLock, CreateHasOption, HolderInTx, NoTableNoIndex
<1>2. pending[c].idx \subseteq Indexes
  BY DEF IInv, OnlyHolderPending, IndexHoldsLock, CreateHasOption, HolderInTx, NoTableNoIndex, TypeOK
<1>3. QED
  BY <1>1, <1>2 DEF Commit, IInv, OnlyHolderPending, IndexHoldsLock, CreateHasOption, HolderInTx, NoTableNoIndex, TypeOK, Pcs, NoTx, Tx

LEMMA CrashIInv ==
    ASSUME IInv, NEW c \in Creators, Crash(c) PROVE IInv'
<1>1. /\ pending' = [pending EXCEPT ![c] = NoTx]
      /\ lock' = IF lock = c THEN NoOne ELSE lock
      /\ pc' = [pc EXCEPT ![c] = "start"]
      /\ err' = [err EXCEPT ![c] = "none"]
      /\ todo' = [todo EXCEPT ![c] = <<>>]
      /\ restarts' = [restarts EXCEPT ![c] = restarts[c] + 1]
      /\ restarts[c] < MaxRestarts
      /\ UNCHANGED <<tableExists, dbIndexes>>
  BY DEF Crash, Rollback
<1>2. TypeOK'
  BY <1>1, EmptySeq DEF IInv, TypeOK, Pcs, Errs, NoTx, Tx
<1>3. OnlyHolderPending'
  BY <1>1 DEF IInv, TypeOK, OnlyHolderPending
<1>4. IndexHoldsLock'
  BY <1>1 DEF IInv, TypeOK, IndexHoldsLock
<1>5. (CreateHasOption /\ NoTableNoIndex)'
  BY <1>1 DEF IInv, TypeOK, CreateHasOption, NoTableNoIndex
<1>6. HolderInTx'
  BY <1>1 DEF IInv, TypeOK, HolderInTx
<1>7. QED
  BY <1>2, <1>3, <1>4, <1>5, <1>6 DEF IInv

LEMMA NextIInv == IInv /\ [Next]_vars => IInv'
<1> SUFFICES ASSUME IInv, [Next]_vars PROVE IInv'
  OBVIOUS
<1>1. CASE UNCHANGED vars
  <2>1. TypeOK'
    BY <1>1 DEF vars, IInv, TypeOK
  <2>2. (OnlyHolderPending /\ IndexHoldsLock /\ CreateHasOption /\ HolderInTx /\ NoTableNoIndex)'
    BY <1>1 DEF vars, IInv, OnlyHolderPending, IndexHoldsLock, CreateHasOption, HolderInTx, NoTableNoIndex
  <2>3. QED
    BY <2>1, <2>2 DEF IInv
<1>2. CASE Next
  BY <1>2, ParseOptionsIInv, ConnectIInv, ProbeIInv, CreateTableIInv,
     CreateIndexIInv, CommitIInv, WrapIInv, CrashIInv DEF Next
<1>3. QED
  BY <1>1, <1>2

(* The write lock is held only inside an open create transaction, in      *)
(* every state of every run of the factory calls, whatever the crashes.   *)
THEOREM IInvariant == Spec => []IInv
BY InitIInv, NextIInv, PTL DEF Spec

(* NoLockLeak: no exit from the create transaction of                     *)
(* SqliteTableFactory::create keeps the file's write lock.                *)
THEOREM NoLockLeakHolds == Spec => []NoLockLeak
<1>1. IInv => NoLockLeak
  BY DEF IInv, OnlyHolderPending, IndexHoldsLock, CreateHasOption, HolderInTx, NoTableNoIndex, NoLockLeak
<1>2. QED
  BY <1>1, IInvariant, PTL
-----------------------------------------------------------------------------
(* A commit makes the committer's table and whole indexes option visible   *)
(* at once, on a file that had no table.                                   *)
LEMMA CommitRefines ==
    ASSUME IInv, NEW c \in Creators, Commit(c) PROVE Abstract!Provision(c)
<1>1. lock = c /\ pending[c].table /\ ~tableExists /\ dbIndexes = {}
      /\ pending[c].idx = ToSet(Wanted[c])
  BY ToSetEmpty DEF Commit, IInv, HolderInTx, IndexHoldsLock, NoTableNoIndex
<1>2. QED
  BY <1>1 DEF Commit, Abstract!Provision, ToSet, Abstract!ToSet

(* Every other step leaves the committed catalog as it is. *)
LEMMA NextRefines ==
    IInv /\ [Next]_vars =>
        [\E c \in Creators : Abstract!Provision(c)]_<<tableExists, dbIndexes>>
<1> SUFFICES ASSUME IInv, [Next]_vars
             PROVE  [\E c \in Creators : Abstract!Provision(c)]_<<tableExists, dbIndexes>>
  OBVIOUS
<1>1. CASE \E c \in Creators : Commit(c)
  BY <1>1, CommitRefines
<1>2. CASE ~\E c \in Creators : Commit(c)
  <2>1. UNCHANGED <<tableExists, dbIndexes>>
    BY <1>2 DEF Next, vars, ParseOptions, Connect, Probe, CreateTable, CreateIndex,
                Wrap, Crash
  <2>2. QED
    BY <2>1
<1>3. QED
  BY <1>1, <1>2

(* ProvisionedAtomically: the concurrent factory calls, with their races,  *)
(* rejected index DDL and crashes, implement the atomic provisioning of     *)
(* SqliteProvisioned; a reader of the file never sees the table without    *)
(* its indexes.                                                             *)
THEOREM Refinement == Spec => ProvisionedAtomically
<1>1. Init => Abstract!Init
  BY DEF Init, Abstract!Init, ToSet, Abstract!ToSet
<1>2. QED
  BY <1>1, NextRefines, IInvariant, PTL DEF Spec, ProvisionedAtomically, Abstract!Spec

=============================================================================
