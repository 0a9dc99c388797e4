---------------------------- MODULE PgRowsToArrow ----------------------------
(***************************************************************************)
(* rows_to_arrow (crates/arrow_sql_gen/src/postgres.rs): the conversion of *)
(* a slice of PostgreSQL rows into one Arrow RecordBatch.                  *)
(*                                                                         *)
(* The schema is derived from the first row; one column builder per        *)
(* column is created, except for NUMERIC whose builder and field are made  *)
(* lazily on the first row of that column.  The row loop visits every      *)
(* cell in row-major order and runs the match arm of the column's vendor   *)
(* type; then the builders are finished and RecordBatch::try_new_with_    *)
(* options validates column count, types and lengths against row_count.    *)
(*                                                                         *)
(* Data is abstracted: a cell is a record whose kind says whether the      *)
(* driver returns NULL, a value, a fetch error ("bad") or, for timestamps, *)
(* an instant before the Unix epoch ("pre"); its v is the value (for       *)
(* NUMERIC the unscaled integer) and s the NUMERIC dscale.  The vendor     *)
(* types with the same control flow are one kind: PRIM stands for INT2/4/8,*)
(* FLOAT4/8, TEXT, VARCHAR, BPCHAR, BOOL, DATE, UUID and the primitive     *)
(* array types.                                                            *)
(***************************************************************************)
EXTENDS Integers, Sequences

CONSTANTS
    NCols,        \* number of columns of the query result
    MaxRows,      \* largest number of rows handed to rows_to_arrow
    Vals,         \* cell values (for NUMERIC: the unscaled integer)
    Scales,       \* NUMERIC dscales the server may send
    MaxDecimal,   \* largest magnitude to_decimal_128 represents (i128 range)
    VendorKinds,  \* the vendor type kinds the query may return
    NULL          \* the null entry of a column builder

AllKinds == {"PRIM", "TIMESTAMP", "NUMERIC", "COMPOSITE", "UNSUPPORTED"}

ASSUME NColsAssumption == NCols \in Nat \ {0}
ASSUME MaxRowsAssumption == MaxRows \in Nat
ASSUME ValsAssumption == Vals \subseteq Int
ASSUME ScalesAssumption == Scales \subseteq 0..38 /\ 0 \in Scales
ASSUME MaxDecimalAssumption == MaxDecimal \in Nat
ASSUME KindsAssumption == VendorKinds \subseteq AllKinds
ASSUME NullAssumption == NULL \notin Int

Cols == 1..NCols

Cell == [k : {"null", "val", "bad", "pre"}, v : Vals, s : Scales]

(* The cells the driver can return for a column of kind t. *)
CellsOf(t) ==
    { c \in Cell :
        /\ c.k = "pre" => t = "TIMESTAMP"
        /\ c.s # 0 => (t = "NUMERIC" /\ c.k = "val") }

Row(types) == { r \in [Cols -> Cell] : \A c \in Cols : r[c] \in CellsOf(types[c]) }

Entry == Vals \cup {NULL}

(* A column builder: whether it exists, its entries, the Decimal128 scale  *)
(* it was made with, and for a StructBuilder the length of its child field *)
(* builders (all children are appended together).                         *)
Builder == [present : BOOLEAN, ents : Seq(Entry), scale : Scales, kids : Nat]
Field == [present : BOOLEAN, scale : Scales]

NewBuilder(p, s) == [present |-> p, ents |-> <<>>, scale |-> s, kids |-> 0]
NewField(p, s) == [present |-> p, scale |-> s]
NoBuilder == NewBuilder(FALSE, 0)
NoField == NewField(FALSE, 0)

VARIABLES
    types,      \* vendor kind of each column (input)
    rows,       \* the rows (input)
    builders,   \* arrow_columns_builders
    fields,     \* arrow_fields
    row, col,   \* position of the row loop
    pc          \* "derive", "cell", "finish", or the outcome "ok", "error", "panic"

vars == <<types, rows, builders, fields, row, col, pc>>

Outcomes == {"ok", "error", "panic"}

TypeOK ==
    /\ types \in [Cols -> VendorKinds]
    /\ rows \in Seq([Cols -> Cell]) /\ Len(rows) \in 0..MaxRows
    /\ builders \in [Cols -> Builder]
    /\ fields \in [Cols -> Field]
    /\ row \in 1..MaxRows + 1
    /\ col \in Cols
    /\ pc \in {"derive", "cell", "finish"} \cup Outcomes

Init ==
    /\ types \in [Cols -> VendorKinds]
    /\ \E n \in 0..MaxRows : rows \in [1..n -> Row(types)]
    /\ builders = [c \in Cols |-> NoBuilder]
    /\ fields = [c \in Cols |-> NoField]
    /\ row = 1 /\ col = 1
    /\ pc = "derive"

(* map_column_type_to_data_type: every kind but NUMERIC has a data type    *)
(* up front; an unsupported type reaches unimplemented!.                   *)
HasDataType(t) == t \notin {"NUMERIC", "UNSUPPORTED"}

(* The schema and the builders come from the first row; an empty slice    *)
(* yields no columns at all.                                               *)
DeriveSchema ==
    /\ pc = "derive"
    /\ \/ /\ Len(rows) = 0
          /\ pc' = "finish"
          /\ UNCHANGED <<builders, fields>>
       \/ /\ Len(rows) > 0
          /\ \E c \in Cols : types[c] = "UNSUPPORTED"
          /\ pc' = "panic"
          /\ UNCHANGED <<builders, fields>>
       \/ /\ Len(rows) > 0
          /\ \A c \in Cols : types[c] # "UNSUPPORTED"
          /\ builders' = [c \in Cols |-> NewBuilder(HasDataType(types[c]), 0)]
          /\ fields' = [c \in Cols |-> NewField(HasDataType(types[c]), 0)]
          /\ pc' = "cell"
    /\ UNCHANGED <<types, rows, row, col>>

cell == rows[row][col]

(* Fault: the column loop runs one column too far (<= for <).            *)
AdvancePastLastColumn ==
    IF col <= NCols
    THEN /\ col' = col + 1 /\ row' = row /\ pc' = "cell"
    ELSE /\ col' = 1 /\ row' = row + 1
         /\ pc' = IF row = Len(rows) THEN "finish" ELSE "cell"

(* The loop moves to the next column, or to the first column of the next  *)
(* row, or out of the loop after the last cell.                           *)
Advance ==
    IF col < NCols
    THEN /\ col' = col + 1 /\ row' = row /\ pc' = "cell"
    ELSE /\ col' = 1 /\ row' = row + 1
         /\ pc' = IF row = Len(rows) THEN "finish" ELSE "cell"

(* try_get failed: the error is returned, the loop ends. *)
FetchError ==
    /\ pc = "cell"
    /\ cell.k = "bad"
    /\ pc' = "error"
    /\ UNCHANGED <<types, rows, builders, fields, row, col>>

(* A builder's append_value / append_null: one more entry. *)
Push(b, e) == [present |-> b.present, ents |-> Append(b.ents, e),
               scale |-> b.scale, kids |-> b.kids]

AppendTo(c, e) == [builders EXCEPT ![c] = Push(@, e)]

(* handle_primitive_type!, handle_primitive_array_type! and the BPCHAR,    *)
(* DATE and UUID arms: append the value, or a null.                        *)
DecodePrimitive ==
    /\ pc = "cell"
    /\ types[col] = "PRIM"
    /\ builders[col].present
    /\ cell.k \in {"null", "val"}
    /\ builders' = AppendTo(col, IF cell.k = "val" THEN cell.v ELSE NULL)
    /\ Advance
    /\ UNCHANGED <<types, rows, fields>>

(* TIMESTAMP / TIMESTAMPTZ: a value before the epoch fails                 *)
(* duration_since(UNIX_EPOCH) and nothing at all is appended.             *)
DecodeTimestamp ==
    /\ pc = "cell"
    /\ types[col] = "TIMESTAMP"
    /\ builders[col].present
    /\ cell.k \in {"null", "val", "pre"}
    /\ builders' = CASE cell.k = "val"  -> AppendTo(col, cell.v)
                     [] cell.k = "null" -> AppendTo(col, NULL)
                     [] cell.k = "pre"  -> builders
    /\ Advance
    /\ UNCHANGED <<types, rows, fields>>

(* NUMERIC: the builder and the field are created on the first visit with *)
(* the scale of that cell, 0 when it is NULL; the value appended is the    *)
(* unscaled integer inner * 10^scale, or an error when it exceeds i128.    *)
DecodeNumeric ==
    /\ pc = "cell"
    /\ types[col] = "NUMERIC"
    /\ cell.k \in {"null", "val"}
    /\ LET scale == IF cell.k = "val" THEN cell.s ELSE 0
           b == IF builders[col].present THEN builders[col]
                ELSE NewBuilder(TRUE, scale)
       IN /\ fields' = [fields EXCEPT ![col] = IF @.present THEN @
                                               ELSE NewField(TRUE, scale)]
          /\ \/ /\ cell.k = "null"
                /\ builders' = [builders EXCEPT ![col] = Push(b, NULL)]
                /\ Advance
             \/ /\ cell.k = "val" /\ cell.v \in -MaxDecimal..MaxDecimal
                /\ builders' = [builders EXCEPT ![col] = Push(b, cell.v)]
                /\ Advance
             \/ /\ cell.k = "val" /\ cell.v \notin -MaxDecimal..MaxDecimal
                /\ builders' = [builders EXCEPT ![col] = b]
                /\ pc' = "error"
                /\ UNCHANGED <<row, col>>
    /\ UNCHANGED <<types, rows>>

(* StructBuilder::append(true) with one value for every child builder. *)
PushRecord(b, e) == [present |-> b.present, ents |-> Append(b.ents, e),
                     scale |-> b.scale, kids |-> b.kids + 1]

(* Composite: a NULL record only appends a null to the StructBuilder; a    *)
(* record appends true and one value to every child field builder.        *)
DecodeComposite ==
    /\ pc = "cell"
    /\ types[col] = "COMPOSITE"
    /\ builders[col].present
    /\ cell.k \in {"null", "val"}
    /\ builders' = IF cell.k = "val"
                   THEN [builders EXCEPT ![col] = PushRecord(@, cell.v)]
                   ELSE AppendTo(col, NULL)
    /\ Advance
    /\ UNCHANGED <<types, rows, fields>>

(* StructBuilder::finish panics when a child is shorter than the struct.  *)
StructUnequal(c) ==
    types[c] = "COMPOSITE" /\ builders[c].kids # Len(builders[c].ents)

(* Fault: the batch is assembled without checking column lengths.        *)
BatchValidUnchecked ==
    \A c \in Cols :
        /\ builders[c].present = fields[c].present
        /\ builders[c].scale = fields[c].scale

(* try_new_with_options: one column per field, equal types, and every     *)
(* column as long as row_count = rows.len().                              *)
BatchValid ==
    \A c \in Cols :
        /\ builders[c].present = fields[c].present
        /\ builders[c].scale = fields[c].scale
        /\ builders[c].present => Len(builders[c].ents) = Len(rows)

Finish ==
    /\ pc = "finish"
    /\ pc' = CASE \E c \in Cols : builders[c].present /\ StructUnequal(c) -> "panic"
               [] ~(\E c \in Cols : builders[c].present /\ StructUnequal(c)) /\ BatchValid -> "ok"
               [] OTHER -> "error"
    /\ UNCHANGED <<types, rows, builders, fields, row, col>>

Next ==
    \/ DeriveSchema
    \/ FetchError
    \/ DecodePrimitive
    \/ DecodeTimestamp
    \/ DecodeNumeric
    \/ DecodeComposite
    \/ Finish

Spec == Init /\ [][Next]_vars

-----------------------------------------------------------------------------
(* The value a cell should have in the batch: its value, or a null.        *)
Expected(x) == IF x.k = "val" THEN x.v ELSE NULL

(***************************************************************************)
(* BatchFaithful: whenever rows_to_arrow returns a batch, every column     *)
(* that the batch has holds, at every row position r, exactly the value    *)
(* (for NUMERIC the unscaled integer) or the null of row r's cell: no cell *)
(* of any row was lost, duplicated or shifted to another row by the       *)
(* per-type match arms, the lazy NUMERIC builder or the dropped cells of   *)
(* pre-epoch timestamps.                                                   *)
(***************************************************************************)
BatchFaithful ==
    pc = "ok" =>
        \A c \in Cols : builders[c].present =>
            /\ Len(builders[c].ents) = Len(rows)
            /\ \A r \in 1..Len(rows) : builders[c].ents[r] = Expected(rows[r][c])

(***************************************************************************)
(* DecimalScaleFaithful: in a batch, every non-null NUMERIC cell is stored *)
(* under its own scale: the Decimal128 field's scale equals the cell's    *)
(* dscale, so the stored unscaled integer reads back as the decoded value *)
(* (spec 4.1: the column scale is the value's dscale).                     *)
(***************************************************************************)
DecimalScaleFaithful ==
    pc = "ok" =>
        \A c \in Cols, r \in 1..Len(rows) :
            (types[c] = "NUMERIC" /\ rows[r][c].k = "val") => fields[c].scale = rows[r][c].s

(***************************************************************************)
(* NeverPanics: rows_to_arrow reports every failure as an error value      *)
(* (spec 7: errors are values; S6: an unmodelled column is dropped, no     *)
(* panic).                                                                 *)
(***************************************************************************)
NeverPanics == pc # "panic"

-----------------------------------------------------------------------------
(***************************************************************************)
(* The loop invariant behind BatchFaithful.  Done(c) is the number of     *)
(* cells of column c the loop has visited.  A builder never holds more     *)
(* entries than that; while it holds exactly that many (no cell dropped),  *)
(* its entries are the cells' values in row order (a builder not yet     *)
(* made has none).  A dropped cell leaves the builder one short for good,  *)
(* which try_new_with_options then rejects: that is why only full-length  *)
(* columns reach a batch.                                                  *)
(***************************************************************************)
Done(c) == IF pc = "cell" THEN (IF c < col THEN row ELSE row - 1) ELSE Len(rows)

ColumnInv(c) ==
    /\ Len(builders[c].ents) <= Done(c)
    /\ Len(builders[c].ents) = Done(c) =>
           \A r \in 1..Done(c) : builders[c].ents[r] = Expected(rows[r][c])

IInv ==
    /\ TypeOK
    /\ pc = "derive" => row = 1 /\ col = 1 /\ \A c \in Cols : builders[c] = NoBuilder
    /\ pc = "cell" => row \in 1..Len(rows)
    /\ pc \in {"cell", "finish", "ok"} => \A c \in Cols : ColumnInv(c)
    /\ pc = "ok" => BatchValid
=============================================================================
