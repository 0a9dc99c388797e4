---------------------------- MODULE SnowflakeQuery ----------------------------
(***************************************************************************)
(* SnowflakeConnection (crates/db_connection_pool/src/dbconnection/        *)
(* snowflakeconn.rs): get_schema and query_arrow over the Snowflake API,   *)
(* and snowflake_schema_cast, which re-types the struct-encoded            *)
(* TIMESTAMP_NTZ columns of every Arrow batch the API returns.             *)
(*                                                                         *)
(* One table is described with get_schema and then queried.  The query's  *)
(* result is a sequence of API items, each an Arrow batch or an error.     *)
(* query_arrow pulls the first item, casts it, takes the stream's schema  *)
(* from it, and returns a stream that replays that batch before the rest. *)
(* The consumer then polls the stream to its end.  api is the part of the *)
(* API stream not pulled yet, in the manner of a queue read destructively; *)
(* source keeps the whole result so that the delivered batches can be      *)
(* compared with it.                                                       *)
(***************************************************************************)
EXTENDS Integers, Sequences

CONSTANTS
    FieldSets,   \* the row types a table may have: sequences of fields
    Cells,       \* the [epoch, fraction] structs a TIMESTAMP_NTZ cell may hold
    Values,      \* the values of the other columns
    MaxBatches,  \* bound on the items of one query result
    MaxRows,     \* bound on the rows of one batch
    NULL         \* a null cell

(* A field: whether its metadata says logicalType timestamp_ntz (in any    *)
(* case), whether its array is a struct whose first two children are an  *)
(* Int64 epoch and an Int32 fraction, and its Arrow type.                  *)
Field == [ntz : BOOLEAN, shape : {"struct", "other"}, type : {"int", "utf8", "struct"}]

ASSUME FieldAssumption == FieldSets \subseteq Seq(Field)
ASSUME CellAssumption ==
    /\ Cells \subseteq [epoch : Int, fraction : Int]
    /\ \A c \in Cells : 0 <= c.fraction /\ c.fraction < 1000000000
    /\ NULL \notin Cells
ASSUME BoundAssumption == MaxBatches \in Nat /\ MaxRows \in Nat

VARIABLES
    phase,       \* where the caller is
    fields,      \* the table's row type
    tableSchema, \* the schema get_schema reported
    source,      \* ghost: every item of the query result, in order
    api,         \* the items of the API stream not pulled yet
    held,        \* the first batch, once peeked and not yet replayed
    schema,      \* the schema the returned stream announces
    out          \* the items the consumer has received, in order

vars == <<phase, fields, tableSchema, source, api, held, schema, out>>

TsMs == "timestamp_ms"
Failed == <<"failed">>
Error == [kind |-> "error"]

(* The API items a query on fields fs may return: errors, and batches of  *)
(* 1..MaxRows rows whose cells fit their column.                            *)
CellsOf(f) == IF f.ntz THEN Cells \cup {NULL} ELSE Values
Batches(fs) ==
    UNION {{[kind |-> "batch", cols |-> c] :
              c \in {c \in [DOMAIN fs -> [1..n -> Cells \cup {NULL} \cup Values]] :
                        \A i \in DOMAIN fs, r \in 1..n : c[i][r] \in CellsOf(fs[i])}}
            : n \in 1..MaxRows}
Items(fs) == {Error} \cup Batches(fs)
Results(fs) == UNION {[1..n -> Items(fs)] : n \in 0..MaxBatches}

(* Rust's / on i64: the quotient truncated toward zero. *)
Quot(a, b) == IF a >= 0 THEN a \div b ELSE -((-a) \div b)

(***************************************************************************)
(* cast_sf_timestamp_ntz_to_arrow_timestamp: a column that is not a struct *)
(* of an Int64 epoch and an Int32 fraction is an error; otherwise every    *)
(* null row stays null and every other row becomes                         *)
(* epoch * 1000 + fraction / 1_000_000 milliseconds.                        *)
(***************************************************************************)
NtzCast(col) ==
    [r \in DOMAIN col |-> IF col[r] = NULL THEN NULL
                          ELSE col[r].epoch * 1000 + Quot(col[r].fraction, 1000000)]

(* The fields of the cast batch: a timestamp_ntz field becomes             *)
(* Timestamp(Millisecond, None), every other field is kept.                *)
CastSchema(fs) == [i \in DOMAIN fs |-> IF fs[i].ntz THEN TsMs ELSE fs[i].type]

CastFails(fs) == \E i \in DOMAIN fs : fs[i].ntz /\ fs[i].shape # "struct"

(***************************************************************************)
(* snowflake_schema_cast applied to one API item, as the map over the API  *)
(* stream does: an error item stays an error (batch.and_then), a batch     *)
(* with a malformed timestamp_ntz column becomes the cast's error, and     *)
(* every other batch has its timestamp_ntz columns cast.                   *)
(***************************************************************************)
SchemaCast(item, fs) ==
    IF item.kind = "error" \/ CastFails(fs) THEN Error
    ELSE [kind |-> "batch",
          cols |-> [i \in DOMAIN fs |-> IF fs[i].ntz THEN NtzCast(item.cols[i])
                                        ELSE item.cols[i]]]

Init ==
    /\ phase = "start"
    /\ fields = <<>>
    /\ tableSchema = Failed
    /\ source = <<>>
    /\ api = <<>>
    /\ held = <<>>
    /\ schema = <<>>
    /\ out = <<>>

(***************************************************************************)
(* get_schema: SELECT * FROM table limit 1.  An Arrow result gives the    *)
(* schema of its first batch after the cast; an Empty or JSON result, a    *)
(* failed request or a failed cast is UnableToGetSchema, and the table     *)
(* provider is not built.                                                  *)
(***************************************************************************)
GetSchema ==
    /\ phase = "start"
    /\ \E fs \in FieldSets, response \in {"arrow", "empty", "json", "failed"} :
          /\ fields' = fs
          /\ IF response = "arrow" /\ ~CastFails(fs)
             THEN tableSchema' = CastSchema(fs) /\ phase' = "idle"
             ELSE tableSchema' = Failed /\ phase' = "failed"
    /\ UNCHANGED <<source, api, held, schema, out>>

(* exec_streamed: the request fails (SnowflakeQueryError), or the API      *)
(* stream of the result is opened.                                         *)
ExecStreamed ==
    /\ phase = "idle"
    /\ \/ phase' = "failed" /\ UNCHANGED <<source, api>>
       \/ \E r \in Results(fields) :
             /\ source' = r
             /\ api' = r
             /\ phase' = "peek"
    /\ UNCHANGED <<fields, tableSchema, held, schema, out>>

(* A faulty peek that takes the schema from the first batch and returns    *)
(* the rest of the stream without it.                                      *)
PeekNoReplay ==
    /\ phase = "peek"
    /\ IF api = <<>>
       THEN /\ schema' = <<>> /\ phase' = "streaming"
            /\ UNCHANGED <<api, held>>
       ELSE LET first == SchemaCast(Head(api), fields) IN
            IF first.kind = "error"
            THEN phase' = "failed" /\ UNCHANGED <<api, held, schema>>
            ELSE /\ schema' = CastSchema(fields)
                 /\ api' = Tail(api)
                 /\ phase' = "streaming"
                 /\ UNCHANGED held
    /\ UNCHANGED <<fields, tableSchema, source, out>>

(***************************************************************************)
(* transformed_stream.next(): no item gives a stream with Schema::empty()  *)
(* and no batches; an error item (from the API or the cast) is returned as *)
(* SnowflakeArrowError; a batch gives the stream's schema and is kept to   *)
(* be replayed by stream::once(...).chain(transformed_stream).             *)
(***************************************************************************)
Peek ==
    /\ phase = "peek"
    /\ IF api = <<>>
       THEN /\ schema' = <<>> /\ phase' = "streaming"
            /\ UNCHANGED <<api, held>>
       ELSE LET first == SchemaCast(Head(api), fields) IN
            IF first.kind = "error"
            THEN phase' = "failed" /\ UNCHANGED <<api, held, schema>>
            ELSE /\ schema' = CastSchema(fields)
                 /\ held' = <<first>>
                 /\ api' = Tail(api)
                 /\ phase' = "streaming"
    /\ UNCHANGED <<fields, tableSchema, source, out>>

(* One poll of the returned stream: the replayed first batch, then the     *)
(* next API item cast (an error is passed on as an execution error), then *)
(* the end of the stream.                                                  *)
Poll ==
    /\ phase = "streaming"
    /\ CASE held # <<>> -> out' = out \o held /\ held' = <<>> /\ UNCHANGED <<api, phase>>
         [] held = <<>> /\ api # <<>> ->
                           /\ out' = Append(out, SchemaCast(Head(api), fields))
                           /\ api' = Tail(api)
                           /\ UNCHANGED <<held, phase>>
         [] OTHER       -> phase' = "ended" /\ UNCHANGED <<out, held, api>>
    /\ UNCHANGED <<fields, tableSchema, source, schema>>

Next == GetSchema \/ ExecStreamed \/ Peek \/ Poll

Spec == Init /\ [][Next]_vars

-----------------------------------------------------------------------------
(***************************************************************************)
(* Reference (spec section 4.1 and 6): a TIMESTAMP_NTZ struct is epoch     *)
(* seconds and a fraction of nanoseconds; its value in milliseconds is the *)
(* instant epoch * 10^9 + fraction nanoseconds rounded down to a whole    *)
(* millisecond, and a null stays null.                                     *)
(***************************************************************************)
RefMillis(c) == IF c = NULL THEN NULL ELSE (c.epoch * 1000000000 + c.fraction) \div 1000000

RefItem(item, fs) ==
    IF item.kind = "error" \/ CastFails(fs) THEN Error
    ELSE [kind |-> "batch",
          cols |-> [i \in DOMAIN fs |->
                      IF fs[i].ntz THEN [r \in DOMAIN item.cols[i] |-> RefMillis(item.cols[i][r])]
                      ELSE item.cols[i]]]

RefAll(s, fs) == [i \in DOMAIN s |-> RefItem(s[i], fs)]

(***************************************************************************)
(* NoRowLost (spec section 4.4 and the "peek-to-derive-schema, then        *)
(* replay" note: "so no row is lost"; spec property 5, null passthrough): *)
(* once query_arrow has returned its stream, what the consumer has         *)
(* received, followed by the peeked batch and by the API items not pulled *)
(* yet, is the whole query result converted by the reference, in order;   *)
(* so a stream polled to its end has delivered every batch exactly once,  *)
(* with every timestamp in milliseconds and every null kept.               *)
(***************************************************************************)
NoRowLost ==
    phase \in {"streaming", "ended"} =>
        /\ out \o held \o RefAll(api, fields) = RefAll(source, fields)
        /\ phase = "ended" => out = RefAll(source, fields)

(***************************************************************************)
(* SchemaAnnounced (spec section 4.4: the stream's schema "is derived from *)
(* the first transformed batch", the same cast get_schema applies): the    *)
(* stream query_arrow returns announces the schema get_schema reported for *)
(* the table.                                                              *)
(***************************************************************************)
SchemaAnnounced ==
    phase \in {"streaming", "ended"} => schema = tableSchema
=============================================================================
