----------------------------- MODULE VectorSearch -----------------------------
(***************************************************************************)
(* VectorSearch::search (crates/runtime/src/embeddings/vector_search.rs)   *)
(* run by concurrent tasks against a runtime that changes underneath.      *)
(*                                                                         *)
(* A search finds the embedding models of its tables, embeds the query     *)
(* with each, resolves primary keys, and runs one nearest-neighbour query *)
(* per table.  Each embed takes a read guard on the EmbeddingModelStore   *)
(* (a tokio RwLock), finds the model, takes the model's own write guard   *)
(* and awaits the inference with both guards held.  Concurrently, loaders *)
(* take the store's write guard to load or unload a model, and datasets   *)
(* are deregistered from DataFusion.                                       *)
(*                                                                         *)
(* tokio's RwLock is fair: waiters queue in FIFO order, and the head of   *)
(* the queue is granted when its mode is compatible with the holders (a    *)
(* writer at the head holds back every reader behind it).                 *)
(***************************************************************************)
EXTENDS Naturals, Sequences, SequencesExt

CONSTANTS
    Searches,     \* concurrent search tasks
    Loaders,      \* runtime tasks that load or unload embedding models
    Tables,       \* dataset names
    Models,       \* embedding model names
    ModelsOf,     \* ModelsOf[t]: get_embedding_models_used() of table t
    IsEmbedding,  \* tables that are, or wrap, an EmbeddingTable
    StringLast,   \* tables whose embedding column is Utf8
    Request,      \* Request[s]: the tables search s is asked about
    Limits,       \* the RetrievalLimit kinds callers pass
    MaxReloads,   \* bound on the store changes of each loader
    NoOne         \* nobody holds a write guard

ASSUME ModelsAssumption == ModelsOf \in [Tables -> Seq(Models)]
ASSUME TablesAssumption ==
    IsEmbedding \subseteq Tables /\ StringLast \subseteq Tables /\ Request \in [Searches -> SUBSET Tables]
ASSUME LimitsAssumption == Limits \subseteq {"topn", "threshold"}
ASSUME ReloadsAssumption == MaxReloads \in Nat
ASSUME NoOneAssumption == NoOne \notin Searches \cup Loaders
ASSUME TasksAssumption == Searches \cap Loaders = {} /\ "store" \notin Models

VARIABLES
    store,       \* the models loaded in the EmbeddingModelStore
    registered,  \* the tables registered in DataFusion
    lk,          \* lk[l]: the RwLock of the store ("store") or of model l
    pc,          \* where each task is
    todo,        \* per search: the models left to embed, in loop order
    embedded,    \* per search: the keys of embedded_inputs
    infers,      \* per search and model: inference calls made (history)
    qtodo,       \* per search: the tables left to query
    result,      \* per search: the tables in retrieved_entries
    reloads      \* per loader: store changes so far

vars == <<store, registered, lk, pc, todo, embedded, infers, qtodo, result, reloads>>

Procs == Searches \cup Loaders
LockIds == {"store"} \cup Models
Ended == {"done", "failed", "panic"}

-----------------------------------------------------------------------------
(* tokio::sync::RwLock *)

Waiter == [p : Procs, mode : {"read", "write"}]
RwLock == [readers : SUBSET Procs, writer : Procs \cup {NoOne}, queue : Seq(Waiter)]
Lock(r, w, q) == [readers |-> r, writer |-> w, queue |-> q]
Unlocked == Lock({}, NoOne, <<>>)

(* read().await / write().await: join the end of the queue. *)
Enqueue(L, p, m) == Lock(L.readers, L.writer, Append(L.queue, [p |-> p, mode |-> m]))

(* Dropping a guard. *)
Released(L, p) == Lock(L.readers \ {p}, IF L.writer = p THEN NoOne ELSE L.writer, L.queue)

(* The head of the queue gets the lock once its mode fits the holders.    *)
Grant(l) ==
    /\ lk[l].queue # <<>>
    /\ LET h == Head(lk[l].queue) IN
       /\ lk[l].writer = NoOne
       /\ h.mode = "write" => lk[l].readers = {}
       /\ lk' = [lk EXCEPT ![l] =
                   Lock(IF h.mode = "read" THEN @.readers \cup {h.p} ELSE @.readers,
                        IF h.mode = "write" THEN h.p ELSE @.writer,
                        Tail(@.queue))]
    /\ UNCHANGED <<store, registered, pc, todo, embedded, infers, qtodo, result, reloads>>

TypeOK ==
    /\ store \subseteq Models
    /\ registered \subseteq Tables
    /\ lk \in [LockIds -> RwLock]
    /\ pc \in [Procs -> {"start", "embed", "lookup", "model", "keys", "query",
                         "idle", "wait"} \cup Ended]
    /\ todo \in [Searches -> Seq(Models)]
    /\ embedded \in [Searches -> SUBSET Models]
    /\ infers \in [Searches -> [Models -> Nat]]
    /\ qtodo \in [Searches -> Seq(Tables)]
    /\ result \in [Searches -> SUBSET Tables]
    /\ reloads \in [Loaders -> 0..MaxReloads]

Init ==
    /\ store = Models
    /\ registered = Tables
    /\ lk = [l \in LockIds |-> Unlocked]
    /\ pc = [p \in Procs |-> IF p \in Searches THEN "start" ELSE "idle"]
    /\ todo = [s \in Searches |-> <<>>]
    /\ embedded = [s \in Searches |-> {}]
    /\ infers = [s \in Searches |-> [m \in Models |-> 0]]
    /\ qtodo = [s \in Searches |-> <<>>]
    /\ result = [s \in Searches |-> {}]
    /\ reloads = [l \in Loaders |-> 0]

-----------------------------------------------------------------------------
(* The search task *)

Fail(s) == pc' = [pc EXCEPT ![s] = "failed"]

(***************************************************************************)
(* search's limit match (Threshold is unimplemented!) and                   *)
(* find_relevant_embedding_models: every table must be registered and be  *)
(* an embedding table; the embed loop then runs over                       *)
(* embeddings_to_run.values().flatten(), the models of every table in the *)
(* HashMap's (arbitrary) order.                                            *)
(***************************************************************************)
FindModels(s) ==
    /\ pc[s] = "start"
    /\ \E limit \in Limits :
         CASE limit = "threshold" ->
                pc' = [pc EXCEPT ![s] = "panic"] /\ UNCHANGED todo
           [] limit # "threshold" /\ \E t \in Request[s] : t \notin registered \/ t \notin IsEmbedding ->
                Fail(s) /\ UNCHANGED todo
           [] OTHER ->
                \E order \in SetToSeqs(Request[s]) :
                   /\ todo' = [todo EXCEPT ![s] = FlattenSeq([i \in DOMAIN order |-> ModelsOf[order[i]]])]
                   /\ pc' = [pc EXCEPT ![s] = "embed"]
    /\ UNCHANGED <<store, registered, lk, embedded, infers, qtodo, result, reloads>>

(* The embed loop: the next model's embed starts with                      *)
(* self.embeddings.read().await; with no model left, the search goes on   *)
(* to the primary keys.                                                    *)
EmbedNext(s) ==
    /\ pc[s] = "embed"
    /\ IF todo[s] = <<>>
       THEN pc' = [pc EXCEPT ![s] = "keys"] /\ UNCHANGED lk
       ELSE /\ lk' = [lk EXCEPT !["store"] = Enqueue(@, s, "read")]
            /\ pc' = [pc EXCEPT ![s] = "lookup"]
    /\ UNCHANGED <<store, registered, todo, embedded, infers, qtodo, result, reloads>>

(* A faulty embed that drops the store guard before it waits for the       *)
(* model (the guard held only while the model is found).                   *)
LookupReleaseStore(s) ==
    /\ pc[s] = "lookup"
    /\ s \in lk["store"].readers
    /\ LET m == Head(todo[s]) IN
       IF m \notin store
       THEN /\ lk' = [lk EXCEPT !["store"] = Released(@, s)]
            /\ Fail(s)
       ELSE /\ lk' = [lk EXCEPT !["store"] = Released(@, s),
                                ![m] = Enqueue(@, s, "write")]
            /\ pc' = [pc EXCEPT ![s] = "model"]
    /\ UNCHANGED <<store, registered, todo, embedded, infers, qtodo, result, reloads>>

(* With the store's read guard: find the model by name; a missing model is *)
(* EmbeddingModelNotFound (the ? drops the guard); otherwise wait for the  *)
(* model's write guard, still holding the store's.                         *)
Lookup(s) ==
    /\ pc[s] = "lookup"
    /\ s \in lk["store"].readers
    /\ LET m == Head(todo[s]) IN
       IF m \notin store
       THEN /\ lk' = [lk EXCEPT !["store"] = Released(@, s)]
            /\ Fail(s)
       ELSE /\ lk' = [lk EXCEPT ![m] = Enqueue(@, s, "write")]
            /\ pc' = [pc EXCEPT ![s] = "model"]
    /\ UNCHANGED <<store, registered, todo, embedded, infers, qtodo, result, reloads>>

(* A faulty search whose store guard outlives the inference, as when the  *)
(* read guard is bound to a variable of the search instead of being a      *)
(* temporary of embed: only the model's guard is dropped.                  *)
InferKeepStore(s) ==
    /\ pc[s] = "model"
    /\ lk[Head(todo[s])].writer = s
    /\ LET m == Head(todo[s]) IN
       /\ infers' = [infers EXCEPT ![s][m] = @ + 1]
       /\ lk' = [lk EXCEPT ![m] = Released(@, s)]
       /\ \/ /\ embedded' = [embedded EXCEPT ![s] = @ \cup {m}]
             /\ todo' = [todo EXCEPT ![s] = Tail(@)]
             /\ pc' = [pc EXCEPT ![s] = "embed"]
          \/ Fail(s) /\ UNCHANGED <<embedded, todo>>
    /\ UNCHANGED <<store, registered, qtodo, result, reloads>>

(***************************************************************************)
(* With both guards: the inference await returns an embedding, or fails   *)
(* or returns none (EmbeddingError).  Both guards are dropped at the end   *)
(* of the statement; the embedding goes into embedded_inputs.              *)
(***************************************************************************)
Infer(s) ==
    /\ pc[s] = "model"
    /\ lk[Head(todo[s])].writer = s
    /\ LET m == Head(todo[s]) IN
       /\ infers' = [infers EXCEPT ![s][m] = @ + 1]
       /\ lk' = [lk EXCEPT ![m] = Released(@, s), !["store"] = Released(@, s)]
       /\ \/ /\ embedded' = [embedded EXCEPT ![s] = @ \cup {m}]
             /\ todo' = [todo EXCEPT ![s] = Tail(@)]
             /\ pc' = [pc EXCEPT ![s] = "embed"]
          \/ Fail(s) /\ UNCHANGED <<embedded, todo>>
    /\ UNCHANGED <<store, registered, qtodo, result, reloads>>

(* get_primary_keys_with_overrides: get_primary_keys looks every table up  *)
(* again (DataSourceNotFound if it is gone); the keys are the PrimaryKey   *)
(* constraint's columns, else the explicit ones.  The query loop then     *)
(* runs over per_table_embeddings in the HashMap's order.                  *)
Keys(s) ==
    /\ pc[s] = "keys"
    /\ IF \E t \in Request[s] : t \notin registered
       THEN Fail(s) /\ UNCHANGED qtodo
       ELSE \E order \in SetToSeqs(Request[s]) :
               /\ qtodo' = [qtodo EXCEPT ![s] = order]
               /\ pc' = [pc EXCEPT ![s] = "query"]
    /\ UNCHANGED <<store, registered, lk, todo, embedded, infers, result, reloads>>

(***************************************************************************)
(* One iteration of search's table loop: get_table (the table may be gone  *)
(* by now), the embedding column, the check that the table has exactly one *)
(* search vector (one per model it uses that was embedded), the ORDER BY   *)
(* array_distance query and collect, and the downcast of the last column  *)
(* to a StringArray.  The loop's end returns the response.                  *)
(***************************************************************************)
Query(s) ==
    /\ pc[s] = "query"
    /\ IF qtodo[s] = <<>>
       THEN pc' = [pc EXCEPT ![s] = "done"] /\ UNCHANGED <<qtodo, result>>
       ELSE LET t == Head(qtodo[s]) IN
            IF \/ t \notin registered
               \/ t \notin IsEmbedding
               \/ Len(SelectSeq(ModelsOf[t], LAMBDA m : m \in embedded[s])) # 1
            THEN Fail(s) /\ UNCHANGED <<qtodo, result>>
            ELSE \/ Fail(s) /\ UNCHANGED <<qtodo, result>>    \* sql or collect fails
                 \/ IF t \in StringLast
                    THEN /\ result' = [result EXCEPT ![s] = @ \cup {t}]
                         /\ qtodo' = [qtodo EXCEPT ![s] = Tail(@)]
                         /\ UNCHANGED pc
                    ELSE Fail(s) /\ UNCHANGED <<qtodo, result>>
    /\ UNCHANGED <<store, registered, lk, todo, embedded, infers, reloads>>

SearchStep(s) ==
    \/ FindModels(s) \/ EmbedNext(s) \/ Lookup(s) \/ Infer(s) \/ Keys(s) \/ Query(s)

-----------------------------------------------------------------------------
(* The runtime around the search *)

(* A loader asks for the store's write guard to change the loaded models. *)
LoaderRequest(l) ==
    /\ pc[l] = "idle"
    /\ reloads[l] < MaxReloads
    /\ lk' = [lk EXCEPT !["store"] = Enqueue(@, l, "write")]
    /\ pc' = [pc EXCEPT ![l] = "wait"]
    /\ UNCHANGED <<store, registered, todo, embedded, infers, qtodo, result, reloads>>

(* With the write guard, a model is loaded or unloaded. *)
LoaderSwap(l) ==
    /\ pc[l] = "wait"
    /\ lk["store"].writer = l
    /\ \E m \in Models :
          store' = IF m \in store THEN store \ {m} ELSE store \cup {m}
    /\ lk' = [lk EXCEPT !["store"] = Released(@, l)]
    /\ reloads' = [reloads EXCEPT ![l] = @ + 1]
    /\ pc' = [pc EXCEPT ![l] = "idle"]
    /\ UNCHANGED <<registered, todo, embedded, infers, qtodo, result>>

(* A dataset is removed from DataFusion. *)
Deregister(t) ==
    /\ t \in registered
    /\ registered' = registered \ {t}
    /\ UNCHANGED <<store, lk, pc, todo, embedded, infers, qtodo, result, reloads>>

Next ==
    \/ \E s \in Searches : SearchStep(s)
    \/ \E l \in Loaders : LoaderRequest(l) \/ LoaderSwap(l)
    \/ \E t \in Tables : Deregister(t)
    \/ \E l \in LockIds : Grant(l)

(***************************************************************************)
(* Fairness: tokio polls every task that has been woken, so a search or a  *)
(* loader that can take a step eventually does, and a lock whose head      *)
(* waiter fits is eventually handed to it.  Loading models and             *)
(* deregistering datasets are not obliged to happen.                        *)
(***************************************************************************)
Fairness ==
    /\ \A s \in Searches : WF_vars(SearchStep(s))
    /\ \A l \in Loaders : WF_vars(LoaderSwap(l))
    /\ \A l \in LockIds : WF_vars(Grant(l))

Spec == Init /\ [][Next]_vars /\ Fairness

-----------------------------------------------------------------------------
(***************************************************************************)
(* ModelPresentDuringInference: while a search runs a model's inference,   *)
(* the model is loaded in the store: the store's read guard that embed     *)
(* keeps across the model's write guard and the inference await holds     *)
(* every loader off, so no model is unloaded under a running inference.   *)
(***************************************************************************)
ModelPresentDuringInference ==
    \A s \in Searches :
        pc[s] = "model" /\ lk[Head(todo[s])].writer = s => Head(todo[s]) \in store

(***************************************************************************)
(* SearchTerminates: every search returns, with a response or an error,   *)
(* however the searches, the loaders and the deregistrations interleave:  *)
(* the two guards are always taken store first, then model, and released *)
(* on every path, so no task waits forever behind another.                 *)
(***************************************************************************)
SearchTerminates == \A s \in Searches : <>(pc[s] \in Ended)

(***************************************************************************)
(* EmbedOnce (spec 4.6, step 3: "for each referenced model, embed          *)
(* query_text exactly once"): a search runs each model's inference at most *)
(* once.                                                                   *)
(***************************************************************************)
EmbedOnce == \A s \in Searches, m \in Models : infers[s][m] <= 1

(***************************************************************************)
(* LockDiscipline (spec 5: "no core operation holds more than one mutex    *)
(* across a suspension point"): no search awaits an inference while it     *)
(* holds both the store's guard and the model's.                           *)
(***************************************************************************)
LockDiscipline ==
    \A s \in Searches :
        ~(pc[s] = "model" /\ lk[Head(todo[s])].writer = s /\ s \in lk["store"].readers)
=============================================================================
