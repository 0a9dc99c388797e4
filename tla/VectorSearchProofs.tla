------------------------- MODULE VectorSearchProofs -------------------------
(***************************************************************************)
(* Proofs about VectorSearch::search against concurrent model loaders, for *)
(* every set of searches, loaders, tables and models: no model is unloaded *)
(* from the EmbeddingModelStore while a search runs its inference.         *)
(***************************************************************************)
EXTENDS VectorSearch, SequenceTheorems, TLAPS

(***************************************************************************)
(* The inductive invariant.  ModelPresentDuringInference is not inductive  *)
(* by itself: it says nothing of why a loader cannot unload the model.     *)
(* The reason is the store's RwLock: a search waiting for or holding a     *)
(* model's guard still holds the store's read guard it found the model     *)
(* under, a loader changes the store only holding its write guard, and a   *)
(* write guard is never held together with a read guard.                   *)
(***************************************************************************)
LockTypes ==
    /\ store \subseteq Models
    /\ lk \in [LockIds -> RwLock]
    /\ pc \in [Procs -> {"start", "embed", "lookup", "model", "keys", "query",
                         "idle", "wait"} \cup Ended]
    /\ DOMAIN todo = Searches

WriterExcludesReaders ==
    \A l \in LockIds : lk[l].writer # NoOne => lk[l].readers = {}

InferenceUnderStoreGuard ==
    \A s \in Searches :
        pc[s] = "model" => s \in lk["store"].readers /\ Head(todo[s]) \in store

IInv ==
    /\ LockTypes
    /\ WriterExcludesReaders
    /\ InferenceUnderStoreGuard

USE NoOneAssumption, TasksAssumption

PcSet == {"start", "embed", "lookup", "model", "keys", "query", "idle", "wait"} \cup Ended

(* The RwLock helpers keep a lock well formed; enqueuing changes no holder *)
(* and releasing drops exactly the releasing task.                         *)
LEMMA LockOps ==
    ASSUME NEW L \in RwLock, NEW p \in Procs, NEW m \in {"read", "write"}
    PROVE  /\ Enqueue(L, p, m) \in RwLock
           /\ Enqueue(L, p, m).readers = L.readers
           /\ Enqueue(L, p, m).writer = L.writer
           /\ Released(L, p) \in RwLock
           /\ Released(L, p).readers = L.readers \ {p}
           /\ Released(L, p).writer \in {L.writer, NoOne}
BY DEF RwLock, Waiter, Enqueue, Released, Lock

(* Granting the head waiter keeps the lock well formed and never lets a   *)
(* writer in beside readers.                                               *)
LEMMA GrantIInv ==
    ASSUME IInv, NEW l \in LockIds, Grant(l)
    PROVE  IInv'
<1> DEFINE L == lk[l]
           h == Head(L.queue)
           G == Lock(IF h.mode = "read" THEN L.readers \cup {h.p} ELSE L.readers,
                     IF h.mode = "write" THEN h.p ELSE L.writer,
                     Tail(L.queue))
<1>1. L \in RwLock /\ L.queue # <<>> /\ L.writer = NoOne
      /\ (h.mode = "write" => L.readers = {})
      /\ lk' = [lk EXCEPT ![l] = G]
      /\ UNCHANGED <<store, pc, todo>>
  BY DEF Grant, IInv, LockTypes
<1>2. h \in Waiter /\ Tail(L.queue) \in Seq(Waiter)
  BY <1>1, HeadTailProperties DEF RwLock
<1>3. G \in RwLock /\ L.readers \subseteq G.readers /\ (G.writer # NoOne => G.readers = {})
  BY <1>1, <1>2 DEF RwLock, Waiter, Lock
<1>4. LockTypes'
  BY <1>1, <1>3 DEF IInv, LockTypes
<1>5. WriterExcludesReaders'
  BY <1>1, <1>3 DEF IInv, LockTypes, WriterExcludesReaders
<1>6. lk["store"].readers \subseteq lk'["store"].readers
  BY <1>1, <1>3 DEF IInv, LockTypes, LockIds
<1>7. InferenceUnderStoreGuard'
  BY <1>1, <1>6 DEF IInv, InferenceUnderStoreGuard
<1>8. QED BY <1>4, <1>5, <1>7 DEF IInv


LEMMA InitIInv == Init => IInv
BY DEF Init, IInv, LockTypes, WriterExcludesReaders, InferenceUnderStoreGuard,
       Unlocked, Lock, RwLock, Procs, LockIds

(* A step that moves only search s, from and to a place other than        *)
(* "model", changes its todo at most, and leaves the store and the locks  *)
(* alone keeps the invariant.                                              *)
LEMMA MoveIInv ==
    ASSUME IInv, NEW s \in Searches, pc[s] # "model",
           NEW v \in PcSet \ {"model"},
           pc' = [pc EXCEPT ![s] = v] \/ pc' = pc,
           todo' = todo \/ \E x : todo' = [todo EXCEPT ![s] = x],
           UNCHANGED <<store, lk>>
    PROVE  IInv'
<1>1. LockTypes'
  BY DEF IInv, LockTypes, PcSet, Procs
<1>2. SUFFICES ASSUME NEW s2 \in Searches, pc'[s2] = "model"
               PROVE  s2 \in lk'["store"].readers /\ Head(todo'[s2]) \in store'
  BY <1>1 DEF IInv, WriterExcludesReaders, InferenceUnderStoreGuard
<1>3. s2 # s /\ pc[s2] = "model"
  BY <1>2 DEF IInv, LockTypes, Procs
<1>4. todo'[s2] = todo[s2]
  <2>1. CASE todo' = todo
    BY <2>1
  <2>2. CASE \E x : todo' = [todo EXCEPT ![s] = x]
    <3>1. PICK x : todo' = [todo EXCEPT ![s] = x]
      BY <2>2
    <3>2. QED BY <3>1, <1>3 DEF IInv, LockTypes
  <2>3. QED BY <2>1, <2>2
<1>5. QED BY <1>3, <1>4 DEF IInv, InferenceUnderStoreGuard

LEMMA FindModelsIInv ==
    ASSUME IInv, NEW s \in Searches, FindModels(s)
    PROVE  IInv'
<1>1. /\ pc[s] = "start"
      /\ \E v \in {"panic", "failed", "embed"} : pc' = [pc EXCEPT ![s] = v]
      /\ \/ UNCHANGED todo
         \/ \E x : todo' = [todo EXCEPT ![s] = x]
      /\ UNCHANGED <<store, lk>>
  BY DEF FindModels, Fail
<1>2. QED BY <1>1, MoveIInv DEF PcSet, Ended

LEMMA KeysIInv ==
    ASSUME IInv, NEW s \in Searches, Keys(s)
    PROVE  IInv'
<1>1. /\ pc[s] = "keys"
      /\ \E v \in {"failed", "query"} : pc' = [pc EXCEPT ![s] = v]
      /\ UNCHANGED <<store, lk, todo>>
  BY DEF Keys, Fail
<1>2. QED BY <1>1, MoveIInv DEF PcSet, Ended, IInv, LockTypes

LEMMA QueryIInv ==
    ASSUME IInv, NEW s \in Searches, Query(s)
    PROVE  IInv'
<1>1. /\ pc[s] = "query"
      /\ \/ \E v \in {"failed", "done"} : pc' = [pc EXCEPT ![s] = v]
         \/ pc' = pc
      /\ UNCHANGED <<store, lk, todo>>
  BY Zenon DEF Query, Fail
<1>2. QED BY <1>1, MoveIInv DEF PcSet, Ended, IInv, LockTypes

LEMMA EmbedNextIInv ==
    ASSUME IInv, NEW s \in Searches, EmbedNext(s)
    PROVE  IInv'
<1>1. CASE todo[s] = <<>>
  BY <1>1, MoveIInv DEF EmbedNext, PcSet
<1>2. CASE todo[s] # <<>>
  <2> DEFINE E == Enqueue(lk["store"], s, "read")
  <2>1. /\ pc[s] = "embed"
        /\ lk' = [lk EXCEPT !["store"] = E]
        /\ pc' = [pc EXCEPT ![s] = "lookup"]
        /\ UNCHANGED <<store, todo>>
    BY <1>2 DEF EmbedNext
  <2>2. E \in RwLock /\ E.readers = lk["store"].readers /\ E.writer = lk["store"].writer
    BY LockOps DEF IInv, LockTypes, LockIds, Procs
  <2>3. LockTypes'
    BY <2>1, <2>2 DEF IInv, LockTypes, LockIds, Procs
  <2>4. WriterExcludesReaders'
    BY <2>1, <2>2 DEF IInv, LockTypes, WriterExcludesReaders
  <2>5. InferenceUnderStoreGuard'
    BY <2>1, <2>2 DEF IInv, LockTypes, InferenceUnderStoreGuard, LockIds
  <2>6. QED BY <2>3, <2>4, <2>5 DEF IInv
<1>3. QED BY <1>1, <1>2


(* Lookup: the search keeps the store's read guard, and queues for the      *)
(* model's write guard only when the model is in the store.                *)
LEMMA LookupIInv ==
    ASSUME IInv, NEW s \in Searches, Lookup(s)
    PROVE  IInv'
<1> DEFINE m == Head(todo[s])
<1>1. pc[s] = "lookup" /\ s \in lk["store"].readers /\ UNCHANGED <<store, todo>>
  BY DEF Lookup
<1>2. CASE m \notin store
  <2> DEFINE R == Released(lk["store"], s)
  <2>1. lk' = [lk EXCEPT !["store"] = R] /\ pc' = [pc EXCEPT ![s] = "failed"]
    BY <1>2 DEF Lookup, Fail
  <2>2. R \in RwLock /\ R.readers = lk["store"].readers \ {s}
        /\ R.writer \in {lk["store"].writer, NoOne}
    BY LockOps DEF IInv, LockTypes, LockIds, Procs
  <2>3. LockTypes'
    BY <1>1, <2>1, <2>2 DEF IInv, LockTypes, LockIds, Procs, Ended
  <2>4. WriterExcludesReaders'
    BY <2>1, <2>2 DEF IInv, LockTypes, WriterExcludesReaders
  <2>5. InferenceUnderStoreGuard'
    BY <1>1, <2>1, <2>2 DEF IInv, LockTypes, InferenceUnderStoreGuard, LockIds, Procs
  <2>6. QED BY <2>3, <2>4, <2>5 DEF IInv
<1>3. CASE m \in store
  <2> DEFINE E == Enqueue(lk[m], s, "write")
  <2>1. lk' = [lk EXCEPT ![m] = E] /\ pc' = [pc EXCEPT ![s] = "model"]
    BY <1>3 DEF Lookup
  <2>2. m \in LockIds /\ m # "store"
    BY <1>3 DEF IInv, LockTypes, LockIds
  <2>3. E \in RwLock /\ E.readers = lk[m].readers /\ E.writer = lk[m].writer
    BY <2>2, LockOps DEF IInv, LockTypes, Procs
  <2>4. LockTypes'
    BY <1>1, <2>1, <2>2, <2>3 DEF IInv, LockTypes, Procs
  <2>5. WriterExcludesReaders'
    BY <2>1, <2>3 DEF IInv, LockTypes, WriterExcludesReaders
  <2>6. InferenceUnderStoreGuard'
    BY <1>1, <1>3, <2>1, <2>2 DEF IInv, LockTypes, InferenceUnderStoreGuard, Procs
  <2>7. QED BY <2>4, <2>5, <2>6 DEF IInv
<1>4. QED BY <1>2, <1>3

(* Infer: the search drops both guards and leaves "model".                 *)
LEMMA InferIInv ==
    ASSUME IInv, NEW s \in Searches, Infer(s)
    PROVE  IInv'
<1> DEFINE m == Head(todo[s])
           RM == Released(lk[m], s)
           RS == Released(lk["store"], s)
<1>1. /\ pc[s] = "model"
      /\ lk' = [lk EXCEPT ![m] = RM, !["store"] = RS]
      /\ \/ pc' = [pc EXCEPT ![s] = "embed"] /\ todo' = [todo EXCEPT ![s] = Tail(todo[s])]
         \/ pc' = [pc EXCEPT ![s] = "failed"] /\ todo' = todo
      /\ UNCHANGED store
  BY Zenon DEF Infer, Fail
<1>2. m \in LockIds /\ m # "store"
  BY <1>1 DEF IInv, LockTypes, InferenceUnderStoreGuard, LockIds
<1>3. /\ RM \in RwLock /\ RM.readers = lk[m].readers \ {s}
      /\ RM.writer \in {lk[m].writer, NoOne}
      /\ RS \in RwLock /\ RS.readers = lk["store"].readers \ {s}
      /\ RS.writer \in {lk["store"].writer, NoOne}
  BY <1>2, LockOps DEF IInv, LockTypes, LockIds, Procs
<1>4. /\ lk' \in [LockIds -> RwLock]
      /\ lk'["store"] = RS
      /\ \A l \in LockIds \ {"store"} : lk'[l] = IF l = m THEN RM ELSE lk[l]
  BY <1>1, <1>2, <1>3 DEF IInv, LockTypes, LockIds
<1>5. /\ pc' \in [Procs -> PcSet] /\ pc'[s] # "model"
      /\ \A s2 \in Searches \ {s} : pc'[s2] = pc[s2] /\ todo'[s2] = todo[s2]
      /\ DOMAIN todo' = Searches
  <2>1. CASE pc' = [pc EXCEPT ![s] = "embed"] /\ todo' = [todo EXCEPT ![s] = Tail(todo[s])]
    BY <2>1 DEF IInv, LockTypes, PcSet, Procs
  <2>2. CASE pc' = [pc EXCEPT ![s] = "failed"] /\ todo' = todo
    BY <2>2 DEF IInv, LockTypes, PcSet, Procs, Ended
  <2>3. QED BY <1>1, <2>1, <2>2
<1>6. LockTypes'
  BY <1>1, <1>4, <1>5 DEF IInv, LockTypes, PcSet
<1>7. WriterExcludesReaders'
  BY <1>3, <1>4 DEF IInv, LockTypes, WriterExcludesReaders, LockIds
<1>8. InferenceUnderStoreGuard'
  BY <1>1, <1>3, <1>4, <1>5 DEF IInv, InferenceUnderStoreGuard
<1>9. QED BY <1>6, <1>7, <1>8 DEF IInv

(* A loader queues for the store's write guard.                            *)
LEMMA LoaderRequestIInv ==
    ASSUME IInv, NEW l \in Loaders, LoaderRequest(l)
    PROVE  IInv'
<1> DEFINE E == Enqueue(lk["store"], l, "write")
<1>1. /\ lk' = [lk EXCEPT !["store"] = E] /\ pc' = [pc EXCEPT ![l] = "wait"]
      /\ UNCHANGED <<store, todo>>
  BY DEF LoaderRequest
<1>2. E \in RwLock /\ E.readers = lk["store"].readers /\ E.writer = lk["store"].writer
  BY LockOps DEF IInv, LockTypes, LockIds, Procs
<1>3. LockTypes'
  BY <1>1, <1>2 DEF IInv, LockTypes, LockIds, Procs
<1>4. WriterExcludesReaders'
  BY <1>1, <1>2 DEF IInv, LockTypes, WriterExcludesReaders
<1>5. InferenceUnderStoreGuard'
  BY <1>1, <1>2 DEF IInv, LockTypes, InferenceUnderStoreGuard, LockIds, Procs
<1>6. QED BY <1>3, <1>4, <1>5 DEF IInv

(* A loader changes the store only under the store's write guard, which   *)
(* no search at "model" can share: none is at "model".                     *)
LEMMA LoaderSwapIInv ==
    ASSUME IInv, NEW l \in Loaders, LoaderSwap(l)
    PROVE  IInv'
<1> DEFINE R == Released(lk["store"], l)
<1>1. /\ lk["store"].writer = l
      /\ lk' = [lk EXCEPT !["store"] = R] /\ pc' = [pc EXCEPT ![l] = "idle"]
      /\ store' \subseteq Models
      /\ UNCHANGED todo
  BY DEF LoaderSwap, IInv, LockTypes
<1>2. R \in RwLock /\ R.readers = lk["store"].readers \ {l}
      /\ R.writer \in {lk["store"].writer, NoOne}
  BY LockOps DEF IInv, LockTypes, LockIds, Procs
<1>3. \A s \in Searches : pc[s] # "model"
  BY <1>1 DEF IInv, WriterExcludesReaders, InferenceUnderStoreGuard, LockIds
<1>4. LockTypes'
  BY <1>1, <1>2 DEF IInv, LockTypes, LockIds, Procs
<1>5. WriterExcludesReaders'
  BY <1>1, <1>2 DEF IInv, LockTypes, WriterExcludesReaders
<1>6. InferenceUnderStoreGuard'
  BY <1>1, <1>3 DEF IInv, LockTypes, InferenceUnderStoreGuard, Procs
<1>7. QED BY <1>4, <1>5, <1>6 DEF IInv

LEMMA DeregisterIInv ==
    ASSUME IInv, NEW t \in Tables, Deregister(t)
    PROVE  IInv'
BY DEF Deregister, IInv, LockTypes, WriterExcludesReaders, InferenceUnderStoreGuard


LEMMA NextIInv == IInv /\ [Next]_vars => IInv'
<1> SUFFICES ASSUME IInv, [Next]_vars PROVE IInv'
  OBVIOUS
<1>1. CASE UNCHANGED vars
  BY <1>1 DEF vars, IInv, LockTypes, WriterExcludesReaders, InferenceUnderStoreGuard
<1>2. ASSUME NEW s \in Searches, SearchStep(s) PROVE IInv'
  BY <1>2, FindModelsIInv, EmbedNextIInv, LookupIInv, InferIInv, KeysIInv, QueryIInv
  DEF SearchStep
<1>3. ASSUME NEW l \in Loaders, LoaderRequest(l) \/ LoaderSwap(l) PROVE IInv'
  BY <1>3, LoaderRequestIInv, LoaderSwapIInv
<1>4. QED BY <1>1, <1>2, <1>3, DeregisterIInv, GrantIInv DEF Next

(* The lock invariant: in every reachable state the store's and the       *)
(* models' RwLocks are well formed, none has a writer beside readers, and  *)
(* every search awaiting a model's guard or its inference still holds the  *)
(* store's read guard over a model that is loaded.                          *)
THEOREM IInvariant == Spec => []IInv
BY InitIInv, NextIInv, PTL DEF Spec

(* ModelPresentDuringInference, for every number of searches, loaders,    *)
(* tables and models: no loader unloads a model while VectorSearch::search  *)
(* runs its inference.                                                      *)
THEOREM ModelPresentHolds == Spec => []ModelPresentDuringInference
<1>1. IInv => ModelPresentDuringInference
  BY DEF IInv, InferenceUnderStoreGuard, ModelPresentDuringInference
<1>2. QED BY <1>1, IInvariant, PTL


=============================================================================
