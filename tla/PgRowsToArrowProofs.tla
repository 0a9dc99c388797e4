------------------------- MODULE PgRowsToArrowProofs -------------------------
(***************************************************************************)
(* Proofs about rows_to_arrow for every number of columns and rows, every  *)
(* set of values and scales: the loop invariant IInv is inductive, hence   *)
(* the type invariant and BatchFaithful hold in every reachable state.     *)
(***************************************************************************)
EXTENDS PgRowsToArrow, SequenceTheorems, TLAPS

USE NColsAssumption, MaxRowsAssumption, ValsAssumption, ScalesAssumption,
    MaxDecimalAssumption, KindsAssumption, NullAssumption

(* The value a cell should have is an entry of a builder. *)
LEMMA ExpectedEntry ==
    ASSUME NEW x \in Cell
    PROVE  Expected(x) \in Entry
BY DEF Expected, Cell, Entry

(* Fresh builders, fields and appends keep the types of the builders. *)
LEMMA NewBuilderType ==
    ASSUME NEW p \in BOOLEAN, NEW sc \in Scales
    PROVE  NewBuilder(p, sc) \in Builder /\ NewField(p, sc) \in Field
BY EmptySeq DEF NewBuilder, NewField, Builder, Field

LEMMA PushType ==
    ASSUME NEW b \in Builder, NEW e \in Entry
    PROVE  /\ Push(b, e) \in Builder /\ Push(b, e).ents = Append(b.ents, e)
           /\ PushRecord(b, e) \in Builder /\ PushRecord(b, e).ents = Append(b.ents, e)
BY AppendProperties DEF Builder, Push, PushRecord

(***************************************************************************)
(* How the loop position moves: Advance stays inside the rows, and counts  *)
(* one more visited cell for the current column and none for the others.   *)
(***************************************************************************)
LEMMA AdvancePc ==
    ASSUME IInv, pc = "cell", Advance
    PROVE  /\ pc' \in {"cell", "finish"}
           /\ pc' = "cell" => row' \in 1..Len(rows)
           /\ row' \in 1..MaxRows + 1
           /\ col' \in Cols
<1>1. row \in 1..Len(rows) /\ col \in Cols /\ Len(rows) \in 0..MaxRows
  BY DEF IInv, TypeOK
<1>2. CASE col < NCols
  BY <1>1, <1>2 DEF Advance, Cols
<1>3. CASE ~(col < NCols)
  BY <1>1, <1>3 DEF Advance, Cols
<1>4. QED
  BY <1>2, <1>3

LEMMA AdvanceDone ==
    ASSUME IInv, pc = "cell", Advance, rows' = rows,
           NEW c \in Cols
    PROVE  Done(c)' = IF c = col THEN Done(c) + 1 ELSE Done(c)
<1>1. row \in 1..Len(rows) /\ col \in Cols /\ Len(rows) \in Nat
  BY DEF IInv, TypeOK
<1>2. CASE col < NCols
  BY <1>1, <1>2 DEF Advance, Done, Cols
<1>3. CASE ~(col < NCols)
  <2>1. col = NCols /\ col' = 1 /\ row' = row + 1
    BY <1>1, <1>3 DEF Advance, Cols
  <2>2. CASE row = Len(rows)
    <3>1. pc' = "finish"
      BY <2>1, <2>2, <1>3 DEF Advance
    <3>2. QED
      BY <1>1, <2>1, <2>2, <3>1 DEF Done, Cols
  <2>3. CASE row # Len(rows)
    <3>1. pc' = "cell"
      BY <2>1, <2>3, <1>3 DEF Advance
    <3>2. QED
      BY <1>1, <2>1, <2>3, <3>1 DEF Done, Cols
  <2>4. QED
    BY <2>2, <2>3
<1>4. QED
  BY <1>2, <1>3

-----------------------------------------------------------------------------
LEMMA InitIInv == Init => IInv
<1> SUFFICES ASSUME Init PROVE IInv
  OBVIOUS
<1>1. rows \in Seq([Cols -> Cell]) /\ Len(rows) \in 0..MaxRows
  <2>1. PICK n \in 0..MaxRows : rows \in [1..n -> Row(types)]
    BY DEF Init
  <2>2. rows \in [1..n -> [Cols -> Cell]]
    BY <2>1 DEF Row
  <2>3. QED
    BY <2>2, SeqDef DEF Cols
<1>2. TypeOK
  <2>1. NoBuilder \in Builder /\ NoField \in Field
    BY NewBuilderType DEF NoBuilder, NoField
  <2>2. QED
    BY <1>1, <2>1 DEF Init, TypeOK, Cols, Outcomes
<1>3. QED
  BY <1>2 DEF Init, IInv

(* The outcomes are final: no action leaves them. *)
LEMMA FinishIInv ==
    ASSUME IInv, Finish PROVE IInv'
<1>1. TypeOK'
  BY DEF IInv, TypeOK, Finish, Outcomes
<1>2. pc' \in {"ok", "error", "panic"} /\ pc = "finish"
  BY DEF Finish
<1>3. pc' = "ok" => BatchValid'
  BY DEF Finish, BatchValid
<1>4. \A c \in Cols : ColumnInv(c) => ColumnInv(c)'
  BY <1>2 DEF Finish, ColumnInv, Done
<1>5. QED
  BY <1>1, <1>2, <1>3, <1>4 DEF IInv

LEMMA FetchErrorIInv ==
    ASSUME IInv, FetchError PROVE IInv'
BY DEF IInv, TypeOK, FetchError, Outcomes

LEMMA DeriveSchemaIInv ==
    ASSUME IInv, DeriveSchema PROVE IInv'
<1>1. pc = "derive" /\ row = 1 /\ col = 1 /\ TypeOK
  BY DEF DeriveSchema, IInv
<1>0. UNCHANGED <<types, rows, row, col>>
  BY DEF DeriveSchema
<1>2. CASE Len(rows) = 0 /\ pc' = "finish" /\ UNCHANGED <<builders, fields>>
  <2>1. TypeOK'
    BY <1>0, <1>1, <1>2 DEF TypeOK
  <2>2. \A c \in Cols : builders'[c].ents = <<>> /\ Done(c)' = 0
    BY <1>0, <1>1, <1>2 DEF IInv, NoBuilder, NewBuilder, Done
  <2>3. \A c \in Cols : ColumnInv(c)'
    BY <2>2, EmptySeq DEF ColumnInv
  <2>4. QED
    BY <1>2, <2>1, <2>3 DEF IInv
<1>3. CASE Len(rows) > 0 /\ pc' = "panic"
  BY <1>1, <1>3 DEF DeriveSchema, IInv, TypeOK, Outcomes
<1>4. CASE /\ Len(rows) > 0
           /\ builders' = [c \in Cols |-> NewBuilder(HasDataType(types[c]), 0)]
           /\ fields' = [c \in Cols |-> NewField(HasDataType(types[c]), 0)]
           /\ pc' = "cell"
  <2>1. TypeOK'
    <3>1. \A c \in Cols : HasDataType(types[c]) \in BOOLEAN
      BY DEF HasDataType
    <3>2. builders' \in [Cols -> Builder] /\ fields' \in [Cols -> Field]
      BY <1>4, <3>1, NewBuilderType
    <3>3. QED
      BY <1>0, <1>1, <1>4, <3>2 DEF TypeOK
  <2>2. \A c \in Cols : Done(c)' = 0 /\ builders'[c].ents = <<>>
    <3>1. \A c \in Cols : Done(c)' = 0
      BY <1>0, <1>1, <1>4 DEF Done, Cols
    <3>2. \A c \in Cols : builders'[c].ents = <<>>
      BY <1>4 DEF NewBuilder
    <3>3. QED
      BY <3>1, <3>2
  <2>3. \A c \in Cols : ColumnInv(c)'
    BY <2>2, EmptySeq DEF ColumnInv
  <2>4. row' \in 1..Len(rows')
    BY <1>0, <1>1, <1>4
  <2>5. QED
    BY <1>4, <2>1, <2>3, <2>4 DEF IInv
<1>5. QED
  BY <1>2, <1>3, <1>4 DEF DeriveSchema

(***************************************************************************)
(* The four decode arms share one argument: the visited column's builder   *)
(* moves by ColumnStep, the others keep their entries and their count.     *)
(***************************************************************************)
LEMMA DecodeStep ==
    ASSUME IInv, pc = "cell", Advance,
           UNCHANGED <<types, rows>>,
           builders' \in [Cols -> Builder], fields' \in [Cols -> Field],
           \A c \in Cols \ {col} : builders'[c] = builders[c],
           \/ builders'[col].ents = Append(builders[col].ents, Expected(cell))
           \/ builders'[col].ents = builders[col].ents
           \/ builders'[col].ents = Append(<<>>, Expected(cell))
    PROVE  IInv'
<1>0. rows' = rows /\ types' = types
  OBVIOUS
<1>1. TypeOK /\ row \in 1..Len(rows) /\ col \in Cols
  BY DEF IInv, TypeOK
<1>2. \A c \in Cols : ColumnInv(c)
  BY DEF IInv
<1>3. TypeOK'
  <2>1. pc' \in {"cell", "finish"} /\ row' \in 1..MaxRows + 1 /\ col' \in Cols
    BY AdvancePc
  <2>2. QED
    BY <1>0, <1>1, <2>1 DEF TypeOK
<1>4. ASSUME NEW c \in Cols PROVE ColumnInv(c)'
  <2>1. Done(c) \in Nat
    BY <1>1 DEF Done, TypeOK, Cols
  <2>2. CASE c # col
    <3>1. Done(c)' = Done(c) /\ builders'[c] = builders[c]
      BY <2>2, <1>0, AdvanceDone
    <3>2. QED
      BY <1>0, <1>2, <3>1 DEF ColumnInv
  <2>3. CASE c = col
    <3>1. Done(c)' = Done(c) + 1 /\ row = Done(c) + 1
      <4>1. Done(c)' = Done(c) + 1
        BY <2>3, <1>0, AdvanceDone
      <4>2. Done(c) = row - 1
        BY <2>3, <1>1 DEF Done, Cols
      <4>3. QED
        BY <4>1, <4>2, <1>1
    <3>2. cell = rows[row][c] /\ Expected(cell) \in Entry
      BY <1>1, <2>3, ExpectedEntry DEF cell, TypeOK, Cols
    <3>3. builders[c].ents \in Seq(Entry) /\ builders'[c].ents \in Seq(Entry)
      BY <1>1, <1>3 DEF TypeOK, Builder
    <3>4. CASE builders'[c].ents = Append(<<>>, Expected(cell))
      <4>1. builders'[c].ents = <<Expected(cell)>>
        BY <3>4, <3>2
      <4>2. Len(builders'[c].ents) = 1
        BY <4>1
      <4>3. ASSUME Done(c) + 1 = 1
            PROVE  \A r \in 1..Done(c) + 1 : builders'[c].ents[r] = Expected(rows[r][c])
        BY <4>1, <4>3, <3>1, <3>2, <2>1
      <4>4. QED
        BY <4>2, <4>3, <3>1, <2>1 DEF ColumnInv
    <3>5. CASE builders'[c].ents = builders[c].ents
      BY <3>5, <3>1, <1>2, <2>1, <3>3 DEF ColumnInv
    <3>6. CASE builders'[c].ents = Append(builders[c].ents, Expected(cell))
      <4> DEFINE s == builders[c].ents
                 d == Done(c)
      <4>1. /\ Len(builders'[c].ents) = Len(s) + 1
            /\ \A r \in 1..Len(s) : builders'[c].ents[r] = s[r]
            /\ builders'[c].ents[Len(s) + 1] = Expected(cell)
        BY <3>6, <3>2, <3>3, AppendProperties
      <4>2. Len(s) <= d
        BY <1>2 DEF ColumnInv
      <4>3. ASSUME Len(builders'[c].ents) = d + 1
            PROVE  \A r \in 1..d + 1 : builders'[c].ents[r] = Expected(rows[r][c])
        <5>1. Len(s) = d
          BY <4>1, <4>3, <2>1, <3>3
        <5>2. \A r \in 1..d : s[r] = Expected(rows[r][c])
          BY <5>1, <1>2 DEF ColumnInv
        <5>3. Expected(cell) = Expected(rows[d + 1][c])
          BY <3>1, <3>2
        <5>4. QED
          BY <4>1, <5>1, <5>2, <5>3, <2>1
      <4>4. QED
        BY <4>1, <4>2, <4>3, <3>1, <2>1, <3>3 DEF ColumnInv
    <3>7. QED
      BY <2>3, <3>4, <3>5, <3>6
  <2>4. QED
    BY <2>2, <2>3
<1>5. QED
  <2>1. pc' \in {"cell", "finish"} /\ (pc' = "cell" => row' \in 1..Len(rows'))
    BY <1>0, AdvancePc
  <2>2. QED
    BY <1>3, <1>4, <2>1 DEF IInv

(* Facts about the visited cell that every decode arm uses. *)
LEMMA CellFacts ==
    ASSUME IInv, pc = "cell"
    PROVE  /\ col \in Cols /\ row \in 1..Len(rows)
           /\ cell \in Cell /\ Expected(cell) \in Entry
           /\ builders[col] \in Builder
<1>1. col \in Cols /\ row \in 1..Len(rows) /\ builders[col] \in Builder
  BY DEF IInv, TypeOK
<1>2. cell \in Cell
  BY <1>1 DEF IInv, TypeOK, cell
<1>3. QED
  BY <1>1, <1>2, ExpectedEntry

LEMMA DecodePrimitiveIInv ==
    ASSUME IInv, DecodePrimitive PROVE IInv'
<1>1. /\ col \in Cols /\ cell \in Cell /\ Expected(cell) \in Entry
      /\ builders[col] \in Builder /\ builders \in [Cols -> Builder]
  BY CellFacts DEF DecodePrimitive, IInv, TypeOK
<1>2. builders' = [builders EXCEPT ![col] = Push(builders[col], Expected(cell))]
  BY DEF DecodePrimitive, AppendTo, Expected
<1>3. /\ builders' \in [Cols -> Builder]
      /\ builders'[col].ents = Append(builders[col].ents, Expected(cell))
      /\ \A c \in Cols \ {col} : builders'[c] = builders[c]
  BY <1>1, <1>2, PushType
<1>4. fields' \in [Cols -> Field]
  BY DEF DecodePrimitive, IInv, TypeOK
<1>5. QED
  BY <1>3, <1>4, DecodeStep DEF DecodePrimitive

LEMMA DecodeTimestampIInv ==
    ASSUME IInv, DecodeTimestamp PROVE IInv'
<1>1. /\ col \in Cols /\ cell \in Cell /\ Expected(cell) \in Entry
      /\ builders[col] \in Builder /\ builders \in [Cols -> Builder]
      /\ fields' \in [Cols -> Field]
  BY CellFacts DEF DecodeTimestamp, IInv, TypeOK
<1>2. CASE cell.k \in {"val", "null"}
  <2>1. builders' = [builders EXCEPT ![col] = Push(builders[col], Expected(cell))]
    BY <1>2 DEF DecodeTimestamp, AppendTo, Expected
  <2>2. /\ builders' \in [Cols -> Builder]
        /\ builders'[col].ents = Append(builders[col].ents, Expected(cell))
        /\ \A c \in Cols \ {col} : builders'[c] = builders[c]
    BY <1>1, <2>1, PushType
  <2>3. QED
    BY <1>1, <2>2, DecodeStep DEF DecodeTimestamp
<1>3. CASE cell.k = "pre"
  <2>1. builders' = builders
    BY <1>3 DEF DecodeTimestamp
  <2>2. QED
    BY <1>1, <2>1, DecodeStep DEF DecodeTimestamp
<1>4. QED
  BY <1>2, <1>3 DEF DecodeTimestamp

LEMMA DecodeCompositeIInv ==
    ASSUME IInv, DecodeComposite PROVE IInv'
<1>1. /\ col \in Cols /\ cell \in Cell /\ Expected(cell) \in Entry
      /\ builders[col] \in Builder /\ builders \in [Cols -> Builder]
      /\ fields' \in [Cols -> Field]
  BY CellFacts DEF DecodeComposite, IInv, TypeOK
<1>2. CASE cell.k = "val"
  <2>1. builders' = [builders EXCEPT ![col] = PushRecord(builders[col], Expected(cell))]
    BY <1>2 DEF DecodeComposite, Expected
  <2>2. /\ builders' \in [Cols -> Builder]
        /\ builders'[col].ents = Append(builders[col].ents, Expected(cell))
        /\ \A c \in Cols \ {col} : builders'[c] = builders[c]
    BY <1>1, <2>1, PushType
  <2>3. QED
    BY <1>1, <2>2, DecodeStep DEF DecodeComposite
<1>3. CASE cell.k # "val"
  <2>1. builders' = [builders EXCEPT ![col] = Push(builders[col], Expected(cell))]
    BY <1>3 DEF DecodeComposite, AppendTo, Expected
  <2>2. /\ builders' \in [Cols -> Builder]
        /\ builders'[col].ents = Append(builders[col].ents, Expected(cell))
        /\ \A c \in Cols \ {col} : builders'[c] = builders[c]
    BY <1>1, <2>1, PushType
  <2>3. QED
    BY <1>1, <2>2, DecodeStep DEF DecodeComposite
<1>4. QED
  BY <1>2, <1>3

LEMMA DecodeNumericIInv ==
    ASSUME IInv, DecodeNumeric PROVE IInv'
<1> DEFINE sc == IF cell.k = "val" THEN cell.s ELSE 0
           b == IF builders[col].present THEN builders[col] ELSE NewBuilder(TRUE, sc)
<1>1. /\ col \in Cols /\ cell \in Cell /\ Expected(cell) \in Entry
      /\ builders[col] \in Builder /\ builders \in [Cols -> Builder]
      /\ fields \in [Cols -> Field]
  BY CellFacts DEF DecodeNumeric, IInv, TypeOK
<1>2. sc \in Scales
  BY <1>1 DEF Cell
<1>3. /\ b \in Builder
      /\ b.ents = builders[col].ents \/ b.ents = <<>>
  BY <1>1, <1>2, NewBuilderType DEF NewBuilder
<1>4. fields' \in [Cols -> Field]
  <2>1. fields' = [fields EXCEPT ![col] = IF fields[col].present THEN fields[col]
                                          ELSE NewField(TRUE, sc)]
    BY DEF DecodeNumeric
  <2>2. QED
    BY <1>1, <1>2, <2>1, NewBuilderType
<1>5. CASE cell.k = "val" /\ cell.v \notin -MaxDecimal..MaxDecimal
  <2>1. /\ builders' = [builders EXCEPT ![col] = b]
        /\ pc' = "error" /\ UNCHANGED <<types, rows, row, col>>
    BY <1>5 DEF DecodeNumeric
  <2>2. builders' \in [Cols -> Builder]
    BY <1>1, <1>3, <2>1
  <2>3. QED
    BY <1>4, <2>1, <2>2 DEF IInv, TypeOK, Outcomes
<1>6. CASE ~(cell.k = "val" /\ cell.v \notin -MaxDecimal..MaxDecimal)
  <2>1. /\ builders' = [builders EXCEPT ![col] = Push(b, Expected(cell))]
        /\ Advance /\ UNCHANGED <<types, rows>>
    BY <1>6 DEF DecodeNumeric, Expected
  <2>2. /\ builders' \in [Cols -> Builder]
        /\ builders'[col].ents = Append(b.ents, Expected(cell))
        /\ \A c \in Cols \ {col} : builders'[c] = builders[c]
    BY <1>1, <1>3, <2>1, PushType
  <2>3. \/ builders'[col].ents = Append(builders[col].ents, Expected(cell))
        \/ builders'[col].ents = Append(<<>>, Expected(cell))
    BY <1>3, <2>2
  <2>4. QED
    BY <1>4, <2>1, <2>2, <2>3, DecodeStep DEF DecodeNumeric
<1>7. QED
  BY <1>5, <1>6

(* Every step of rows_to_arrow, and every stutter, keeps the invariant. *)
LEMMA NextIInv ==
    ASSUME IInv, [Next]_vars PROVE IInv'
<1>1. CASE DeriveSchema     BY <1>1, DeriveSchemaIInv
<1>2. CASE FetchError       BY <1>2, FetchErrorIInv
<1>3. CASE DecodePrimitive  BY <1>3, DecodePrimitiveIInv
<1>4. CASE DecodeTimestamp  BY <1>4, DecodeTimestampIInv
<1>5. CASE DecodeNumeric    BY <1>5, DecodeNumericIInv
<1>6. CASE DecodeComposite  BY <1>6, DecodeCompositeIInv
<1>7. CASE Finish           BY <1>7, FinishIInv
<1>8. CASE UNCHANGED vars
  BY <1>8 DEF vars, IInv, TypeOK, ColumnInv, Done, BatchValid
<1>9. QED
  BY <1>1, <1>2, <1>3, <1>4, <1>5, <1>6, <1>7, <1>8 DEF Next

(***************************************************************************)
(* IInvariant: in every state of rows_to_arrow the loop invariant holds:   *)
(* each column's builder holds exactly the expected entries of the cells   *)
(* the loop has visited, or fewer, and a returned batch passed the checks  *)
(* of RecordBatch::try_new_with_options.                                   *)
(***************************************************************************)
THEOREM IInvariant == Spec => []IInv
<1>1. Init => IInv
  BY InitIInv
<1>2. IInv /\ [Next]_vars => IInv'
  BY NextIInv
<1>3. QED
  BY <1>1, <1>2, PTL DEF Spec

(* TypeCorrect: the builders, fields and loop counters of rows_to_arrow  *)
(* always have their types, for every number of columns and rows.         *)
THEOREM TypeCorrect == Spec => []TypeOK
<1>1. IInv => TypeOK
  BY DEF IInv
<1>2. QED
  BY <1>1, IInvariant, PTL

(***************************************************************************)
(* BatchFaithfulHolds: a batch that rows_to_arrow returns holds, in every  *)
(* column it has, exactly the value or null of every row's cell in row     *)
(* order, for every number of columns and rows and every value set.        *)
(***************************************************************************)
THEOREM BatchFaithfulHolds == Spec => []BatchFaithful
<1>1. IInv => BatchFaithful
  <2> SUFFICES ASSUME IInv, pc = "ok", NEW c \in Cols, builders[c].present
               PROVE  /\ Len(builders[c].ents) = Len(rows)
                      /\ \A r \in 1..Len(rows) : builders[c].ents[r] = Expected(rows[r][c])
    BY DEF BatchFaithful
  <2>1. Len(builders[c].ents) = Len(rows)
    BY DEF IInv, BatchValid
  <2>2. Done(c) = Len(rows) /\ ColumnInv(c)
    BY DEF IInv, Done
  <2>3. QED
    BY <2>1, <2>2 DEF ColumnInv
<1>2. QED
  BY <1>1, IInvariant, PTL
====
