# Formal models of the spiceai data-connector core

This directory holds TLA+ models of the parts of the repository that turn vendor data into Arrow record batches and that provision mirrored tables. Further models cover the vector-search path and the process-wide ODBC environment. It also holds the TLC configurations that model-check them on small instances, and TLAPS proofs about the PostgreSQL row decoder, the SQLite provisioner, the Snowflake query stream, vector search and the ODBC environment. The proofs include two refinements of abstract specifications. `PROJECT.json` lists the components, runs, mutants, source map, findings, hazards and theorems in machine-readable form.

Run everything from this directory:

```
tlasany M.tla                                  # parse
tlc -workers 2 -config X.cfg MC_M              # model-check a run
tlapm PgRowsToArrowProofs.tla                  # check the proofs
tlapm SqliteProvisionProofs.tla
tlapm SnowflakeQueryProofs.tla
tlapm VectorSearchProofs.tla
tlapm OdbcPoolProofs.tla
```

## The system and how its parts interact

A factory call (`create_external_table`) builds a connection pool for a source. For an accelerated table it also provisions the table in the local store (SQLite). At read time, a connection's `query_arrow` yields a stream of record batches:

- **PostgreSQL**: `rows_to_arrow` (crates/arrow_sql_gen/src/postgres.rs) converts a slice of rows into one batch. It uses `map_column_type_to_data_type` for the schema and `BigDecimalFromSql::from_sql` for NUMERIC cells.
- **Snowflake**: `SnowflakeConnection::query_arrow` streams the API's Arrow batches through `snowflake_schema_cast`. It peeks at the first batch to learn the schema and replays that batch ahead of the rest.
- **SQLite**: `SqliteTableFactory::create` parses the options, opens a pool, probes `table_exists`, and in one transaction creates the table and its indexes.
- **ODBC**: `ODBCPool::new` borrows the process-wide `ENV`, a `lazy_static` that the first dereference initialises: it sets driver-aware pooling and creates the `Environment`. `connect` then opens connections through it.
- **Vector search**: `VectorSearch::search` (runtime/src/embeddings/vector_search.rs) finds the embedding models of the requested tables and embeds the query with each, holding the embedding store's read guard and the model's write guard. It then lists the primary keys and queries each table. Model loaders replace models in the store concurrently, under its write guard.

## Modules

| Module | Code | State | Actions |
|---|---|---|---|
| `PgRowsToArrow` | `rows_to_arrow`, `map_column_type_to_data_type` | per-column builders (present, entries, NUMERIC scale, struct children), fields, loop indices `row`/`col`, `pc` | `DeriveSchema`, `FetchError`, `DecodePrimitive`, `DecodeTimestamp`, `DecodeNumeric`, `DecodeComposite`, `Finish` |
| `PgNumeric` | `BigDecimalFromSql::from_sql` | the raw bytes and the result | `FromSql` (the whole decoder as one operator `Decode`) |
| `SqliteProvision` | `SqliteTableFactory::create`, `Sqlite::table_exists/create_table/create_index` | committed table and indexes, write lock, and per creator `pc`, uncommitted writes, indexes to do, error, restarts | `ParseOptions`, `Connect`, `Probe`, `CreateTable`, `CreateIndex`, `Commit`, `Wrap`, `Crash` |
| `SnowflakeQuery` | `get_schema`, `query_arrow`, `snowflake_schema_cast`, `cast_sf_timestamp_ntz_to_arrow_timestamp` | phase, table fields, the schema `get_schema` reported, the API stream still to pull, the peeked batch, the announced schema, what the consumer received, and a ghost copy of the result | `GetSchema`, `ExecStreamed`, `Peek`, `Poll` |
| `OdbcEnvOnce` | what the `ENV` `lazy_static` promises the pools (abstract) | the initialisation's outcome, per pool status | `NoString`, `Initialise` (one atomic event), `Obtain`, `Use` |
| `SqliteProvisioned` | what `create` promises the file (abstract) | committed table and indexes | `Provision`: the table and one creator's whole index set appear at once |
| `VectorSearch` | `VectorSearch::search`, `embed`, `individual_search` | embedding store, registered tables, tokio `RwLock`s (holders and FIFO waiters) of the store and each model, per search `pc`, models to embed, embeddings made, keys to query, results, inference count | `FindModels`, `EmbedNext`, `Lookup`, `Infer`, `Keys`, `Query`, `Fail`; the runtime's `LoaderRequest`, `LoaderSwap`, `Deregister`; the lock's `Grant` |
| `OdbcPool` | `ODBCPool::new`, `connect`, the `ENV` initialiser | per pool `pc`, the state of `ENV`'s `Once`, the process-wide pooling attribute, the environment | `New`, `Deref`, `SetPooling`, `EnvNew`, `Connect` |
| `PgRowsToArrowProofs`, `SqliteProvisionProofs`, `SnowflakeQueryProofs`, `VectorSearchProofs`, `OdbcPoolProofs` | none (proofs) | | |

The `MC_*` modules give the constants their values for TLC. Every definition that models code is mapped to its lines in `PROJECT.json`.

Data is abstracted to what the properties distinguish; control flow is kept:

- **PostgreSQL cells** are records `{k, v, s}`. `k` is null, value, fetch error, or pre-1970 timestamp; `v` is the value (the unscaled integer for NUMERIC); `s` is the NUMERIC dscale.
- **PostgreSQL vendor types** that share a match-arm shape are one kind. PRIM covers the integer, float, text, bool, DATE, UUID and primitive-array arms.
- **NUMERIC** is modelled digit by digit from the bytes: word split, i16 weight, base-10000 expansion with zero padding, reversal, `resize`, and sign match.
- **SQLite** transactions are DEFERRED: the first write takes the file's write lock, and the commit or the rollback of the dropped `Transaction` releases it.
- **Snowflake TIMESTAMP_NTZ cells** are `{epoch, fraction}` structs or NULL. The cast's four shape errors are one abstract shape.
- **tokio `RwLock`** is fair: a request joins a FIFO queue, and `Grant` admits the head when its mode fits the current holders. A read behind a queued write waits, which is what lets a loader wait behind a search and the search's next read wait behind the loader.
- **Vector-search data**: tables, models and searches are model values; an embedding is the pair (table, model); a query's SQL and its Arrow result are abstracted to success, error, or a primary-key column of the wrong type.
- **ODBC `ENV`** is std's `Once`: the first dereference runs the initialiser, later ones block while it runs, and a panic poisons it so every later dereference panics. The code of `lazy_static` and `Once` is not in the repository; only the initialiser's body and the pool's calls are mapped.

## Runs

| Run | Expect | Shows |
|---|---|---|
| `pg_rows_main` | pass | `TypeOK` and `BatchFaithful`: every batch returned holds, per column and row, exactly the cell's value or null, over all kinds, 2 columns, up to 3 rows. |
| `pg_rows_decimal_scale` | violation | The NUMERIC scale is taken from a column's first cell (0 if NULL), so later values with another dscale are misread. |
| `pg_rows_null_composite` | violation | A NULL composite leaves the struct's children short, and the finish panics. |
| `pg_numeric_main` | pass | `RoundTrip`: every canonical NUMERIC (the form `numeric_send` emits) decodes to exactly its value and scale. The NaN and +Infinity sign words are among the inputs, and the model takes the code's error arm for them. No property checks that arm, because it only restates the three-arm sign match. |
| `sqlite_main` | pass | `NoLockLeak`: every exit from the create transaction frees the write lock. `ProvisionedAtomically`: the runs implement `SqliteProvisioned` (checked as `PROPERTY Abstract!Spec` with `Abstract == INSTANCE SqliteProvisioned`). So the table and its indexes commit together, across races, rejected indexes and crashes. |
| `sqlite_idempotent` | violation | A failed or raced `table_exists` lets `CREATE TABLE` fail with "already exists". |
| `snowflake_main` | pass | `NoRowLost`: what the consumer gets, then the peeked batch, then the unpulled API items, always equals the whole result under the reference conversion. The conversion is the instant `epoch·10^9 + fraction` ns rounded down to ms, with nulls kept. Because the equation holds in every state and an ended stream has delivered the whole result, it already fixes each delivered item and the end of the stream. |
| `snowflake_schema` | violation | An empty result gives a stream announcing `Schema::empty()`, not the table's schema. |
| `vector_main` | pass | `ModelPresentDuringInference`: while a search runs a model's inference, under the model's write guard, the model is still in the store, whatever the loaders do. `SearchTerminates` (liveness): every search ends, done or failed, despite loaders swapping models and tables being deregistered. |
| `vector_embed_once` | violation | Two requested tables sharing a model make the search run that model's inference twice for one query, taking the store and model guards each time. |
| `vector_lock_discipline` | violation | `embed` holds the store's read guard while it waits for a model's write guard and awaits the inference, so two guards are held across a suspension point. |
| `odbc_main` | pass | `EnvReady`: a pool past `&ENV`, as initialiser or waiter, holds the one valid environment. `PoolCallsEnd` (liveness): every pool call returns or panics, including after a failed initialisation poisons `ENV`. `EnvInitialisedOnce`: the pools implement `OdbcEnvOnce` (`Once == INSTANCE OdbcEnvOnce WITH init <- InitOutcome, status <- Status`). So `ENV`'s initialisation is one atomic event, and every pool sees its one outcome. |

Every property of a passing run has a mutant in `PROJECT.json`: a plausible bug in the mapped code (a dropped guard, a missing padding, a missing rollback, an autocommit DDL, a dropped replay, a store guard released before the model's, a store guard kept past the inference (the search then holds it while it reads the store again, and a queued loader blocks every later reader), an initialiser that retries or hands out an unusable environment, a pool that reads `ENV` without waiting on the running initialiser) that TLC finds.

### Bounds and why they are enough

- **PostgreSQL rows**: 2 columns and up to 3 rows give every arm a first, a middle and a last cell, and let two columns interleave. The values are `{1, 200}` with `MaxDecimal = 99`, a scaled-down i128 range, so the overflow arm fires. The scales are `{0, 1}`, so a column can mix dscales.
- **NUMERIC**: base-10000 digits `{1, 20, 932, 9999}` (one to four decimal digits, so the padding matters), and 0 where it is legal. There are 0 to 2 digits, and every weight and dscale with at most 9 decimal digits, which keeps TLC's 32-bit integers exact. The sign words are +, −, NaN (0xC000) and +Infinity (0xD000).
- **SQLite**: 3 creators, whose index lists overlap and differ. One index is rejected, one creator has bad options, and each process may restart once. This covers a creator losing the race while another holds the lock, and a crash while the lock is held.
- **Vector search**: 2 searches, 1 loader, 2 tables with one model each, and 2 model swaps. One search asks for both tables and the other for one, so both share the store and a model lock. The loader can replace a model between any two steps of either search, and a table can be deregistered. `Limits` has both `topn` and `threshold`, so the unimplemented threshold path fires. `vector_embed_once` makes both tables use one model.
- **ODBC**: 3 pools, one of them without a connection string. Two pools race for the first dereference, so one initialises while the other blocks, then finds `ENV` done or poisoned.
- **Snowflake**: up to 2 items of up to 2 rows each. That is enough for a first batch followed by a second batch or an error. Epochs are −1, 0 and 1, and fractions are 0, 999 999 and 999 999 999 ns. So a value sits on each side of 1970 and on each side of a millisecond boundary.

### Fairness and deadlock

`VectorSearch` and `OdbcPool` check liveness under weak fairness:

- **Vector search**: WF on each search's step, each loader's swap and each lock's `Grant`. tokio polls a woken task again. A `RwLock` wakes its queue head when the guard it waits on is dropped, so a continuously enabled step is eventually taken. No fairness is assumed for the loaders' requests or for deregistration, which the environment may never make.
- **ODBC**: WF on each pool's step. Each pool's construction runs on a thread of its own, and `Once` wakes its blocked threads when the initialiser returns or panics.

The other models are safety models.

The decoders and the query are single calls that return, so their final states have no successor, and those cfgs say `CHECK_DEADLOCK FALSE`. A SQLite creator ends in "done" or "failed" in the same way. A creator that finds the lock taken either waits, by taking no step until the lock is free, or gives up with "busy" once rusqlite's busy timeout expires. It never waits forever.

## Proofs

`PgRowsToArrowProofs` proves, for every number of columns and rows, every value set and every scale set allowed by the module's `ASSUME`s:

- `IInvariant`: `Spec => []IInv`
- `TypeCorrect`: `Spec => []TypeOK`
- `BatchFaithfulHolds`: `Spec => []BatchFaithful`

`BatchFaithful` is not inductive. Whether a returned batch is faithful depends on how the builders were filled during the loop. The strengthening `IInv` tracks `Done(c)`, the number of cells of column `c` the loop has visited. It adds `ColumnInv(c)`: a builder holds at most `Done(c)` entries, and when it holds exactly that many, they are the cells' values in row order. A pre-epoch timestamp leaves its builder short for good. `BatchValid`, the length check of `try_new_with_options`, therefore lets only full-length columns into a batch, and those are faithful.

The proof has:

- a lemma per action (`InitIInv`, `DeriveSchemaIInv`, `DecodePrimitiveIInv`, …);
- a shared lemma `DecodeStep` for a step that appends one entry to one column and advances the loop;
- `NextIInv`;
- the temporal theorems, closed with PTL.

`SqliteProvisionProofs` proves, for every set of creators, index options, rejected indexes and restart bound:

- `IInvariant`: `Spec => []IInv`
- `NoLockLeakHolds`: `Spec => []NoLockLeak`
- `Refinement`: `Spec => ProvisionedAtomically`, that is `Spec => Abstract!Spec`

`NoLockLeak` alone is not inductive: a step of one creator can disturb what another holds. `IInv` adds that only the lock holder has uncommitted writes (`OnlyHolderPending`), and that a creator at `index` holds the lock (`IndexHoldsLock`). It also adds that a creator at `create` still has its whole option to do (`CreateHasOption`). For the holder, `HolderInTx` says no table is committed, and that its uncommitted indexes together with the ones still to create are its whole option. `NoTableNoIndex` says no index exists without the table.

The refinement follows from these conjuncts. The initial states are the abstract ones. Every step but `Commit` leaves the committed catalog alone. A `Commit` is the abstract `Provision` of its creator: the table was absent, and the committed indexes are exactly `ToSet(Wanted[c])` (lemma `ToSetHeadTail` carries the set equation through each `CreateIndex`). There is one lemma per action, and the temporal steps are closed with PTL.

`SnowflakeQueryProofs` proves, for every set of row types, cell structs and values, and every bound on items and rows:

- `IInvariant`: `Spec => []IInv`
- `NoRowLostHolds`: `Spec => []NoRowLost`

`NoRowLost` says nothing of the state before the stream is returned, or of what the pulled items are, so it is not inductive. `IInv` adds four facts. `NothingPulled`: before `exec_streamed` nothing is pulled. `PeekFromStart`: the peek starts from the whole result. `Drained`: an ended stream has nothing held or unpulled. `Shape`: every item of the result is one the API can return, and every delivered or held item is its reference conversion (`Outs`). The conservation equation `Conserved` is then carried through each `Poll` by the concatenation laws of `SequenceTheorems`. Its other ingredients are:

- `RefAllHead`: converting a result is converting its head, then its tail;
- `SchemaCastRef`: `snowflake_schema_cast` equals the reference on every item the API can return;
- `NtzCastRef` and `MillisArith`: `epoch * 1000 + fraction / 1_000_000` equals `(epoch * 10^9 + fraction) div 10^6` when the fraction is non-negative. This is the pre-1970 case.

`VectorSearchProofs` proves, for every number of searches, loaders, tables and models:

- `IInvariant`: `Spec => []IInv`
- `ModelPresentHolds`: `Spec => []ModelPresentDuringInference`

`IInv` says:

- every lock is a well-formed `RwLock`, and the store holds only models (`LockTypes`);
- a lock with a writer has no readers (`WriterExcludesReaders`, kept by `Grant`);
- every search at `model`, waiting for the model's guard or running the inference, is still a reader of the store's lock, and its model is in the store (`InferenceUnderStoreGuard`).

`LoaderSwap` needs the store's write guard, so by the second and third conjuncts no search is at `model` when it runs. This argument gives the theorem. Lemma `LockOps` says what `Enqueue` and `Released` do to a lock. `MoveIInv` covers every step that moves one search without touching the locks. The proof needs `Searches` and `Loaders` to be disjoint, and no model to be named `"store"` (`TasksAssumption`): they are distinct tasks and distinct lock names in the code.

`OdbcPoolProofs` proves, for every set of pools:

- `EnvReadyHolds`: `Spec => []EnvReady`

The strengthening `IInv` says:

- a pool in the initialiser (`setpool` or `envnew`) means the `Once` is running;
- at most one pool is in the initialiser (`OneInitialiser`);
- a done `Once` has a valid environment.

- `Refinement`: `Spec => EnvInitialisedOnce`, that is `Spec => Once!Spec`

The refinement mapping works as follows:

- a pool inside `&ENV` (at `deref`, `setpool` or `envnew`) is still at the abstract `start`;
- the `Once`'s state gives the outcome: done is `ok`, poisoned is `failed`, and otherwise there is none yet.

`StepRefines` maps each action:

- `New` is a stutter, or `NoString`;
- the first `Deref` and `SetPooling` stutter;
- `EnvNew` is `Initialise`: `InitialiserRunning` says no outcome exists yet;
- a later `Deref` is `Obtain`;
- `Connect` is `Use`.

It also uses `StringInv`: only a pool with a connection string reaches `&ENV`.

`OneInitialiser` is what the `Once` guarantees. Without it, a successful `Environment::new` by one pool would leave another pool "inside" an initialiser whose `Once` is already done.

Some small changes to the models were made so that they can be reasoned about. They do not change what TLC explores:

- `RwLock` values are built with the constructor `Lock`, not with record `EXCEPT`;
- Snowflake's `CellAssumption` states the fraction's range with inequalities, since tlapm fails on a literal interval that large;
- the `CASE` guards of `Poll` and `FindModels` are made exclusive. TLA+ gives an overlapping `CASE` an unspecified arm, while TLC takes the first. The code replays the held batch before pulling more, and matches the limit before it finds the models.

Only model-checked:

- the `PgNumeric` properties: the decoder uses a RECURSIVE digit expansion, which no theorem module may reach. Rewriting it as a recursive function would not be enough. `RoundTrip` is an induction over digit sequences. Even the weaker claim that a sign word other than + or − gives the error needs the length of the flattened expansion, `Len(FlattenSeq(...)) = 4 * ndigits`, to exclude the resize panic that the code checks before the sign. That length is an induction through `FlattenSeq`'s recursive function, which the installed provers cannot do;
- `SchemaAnnounced` and the other properties of violation runs: they are false;
- all liveness (`SearchTerminates`, `PoolCallsEnd`): TLAPS does not handle fairness and ENABLED.

## Findings

Each violation run records a disagreement between the code and the spec, or a case the spec does not cover:

- the NUMERIC scale comes from the first cell;
- a NULL composite panics at finish;
- `table_exists` returns `false` on error, which leads to a non-idempotent create;
- an empty Snowflake result announces an empty schema;
- a model shared by two tables is embedded once per table;
- `embed` holds two guards across its await.

Observed while modelling, but with no run, because the project keeps one question per run. These are recorded as hazards in `PROJECT.json`:

- an unlisted vendor type panics;
- a pre-epoch timestamp fails the whole batch;
- a truncated NUMERIC panics;
- new indexes are never created on an existing table;
- a failed `set_connection_pooling` is only logged.

The exact lines are in `PROJECT.json` under `findings`.

## Not modelled

- **Vector search**: the model-loading side of the runtime (`LoaderRequest`, `LoaderSwap`, `Deregister`) is not under `src/` and is modelled from the spec. `get_embedding_models_used` and the SQL text are abstracted.
- **FlightSQL**: parameter lookup and a client construction, with no state of its own.
- **Utilities** (formatting, signal handling, backoff): pure and not used by the properties.
- **SQLite writes**: `insert_batch`, `delete_all_table_data` and `delete_from` are planned. Their interesting behaviour lies in SQLite's conflict semantics.
- **Test harness**: not modelled.
