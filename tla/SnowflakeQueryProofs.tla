------------------------ MODULE SnowflakeQueryProofs ------------------------
(***************************************************************************)
(* Proofs about SnowflakeConnection::query_arrow and snowflake_schema_cast *)
(* for every row type, result length and batch size: the stream query_arrow *)
(* returns loses, duplicates and reorders no batch, the peeked first one   *)
(* included, and delivers every TIMESTAMP_NTZ cell as the reference        *)
(* milliseconds.                                                           *)
(***************************************************************************)
EXTENDS SnowflakeQuery, SequenceTheorems, TLAPS

USE FieldAssumption

(* epoch * 1000 + fraction / 1_000_000 (the fraction is non-negative, so  *)
(* Rust's truncating / is the floor) is the instant epoch * 10^9 + fraction*)
(* nanoseconds rounded down to a millisecond.                              *)
LEMMA MillisArith ==
    ASSUME NEW e \in Int, NEW f \in Nat
    PROVE  e * 1000 + Quot(f, 1000000) = (e * 1000000000 + f) \div 1000000
<1>1. Quot(f, 1000000) = f \div 1000000
  BY DEF Quot
<1>2. e * 1000000000 + f = (e * 1000) * 1000000 + f
  OBVIOUS
<1>3. ((e * 1000) * 1000000 + f) \div 1000000 = e * 1000 + f \div 1000000
  BY SMT
<1>4. QED BY <1>1, <1>2, <1>3

(* cast_sf_timestamp_ntz_to_arrow_timestamp agrees with the reference on   *)
(* every TIMESTAMP_NTZ column the API can return: a null stays null and a  *)
(* struct becomes its instant in milliseconds.                              *)
LEMMA NtzCastRef ==
    ASSUME NEW n \in Nat, NEW col \in [1..n -> Cells \cup {NULL}]
    PROVE  NtzCast(col) = [r \in DOMAIN col |-> RefMillis(col[r])]
<1> SUFFICES ASSUME NEW r \in 1..n, col[r] # NULL
             PROVE  col[r].epoch * 1000 + Quot(col[r].fraction, 1000000)
                      = (col[r].epoch * 1000000000 + col[r].fraction) \div 1000000
  BY DEF NtzCast, RefMillis
<1>1. col[r].epoch \in Int /\ col[r].fraction \in Nat
  BY CellAssumption
<1>2. QED BY <1>1, MillisArith

(* snowflake_schema_cast maps every item of a query result to the           *)
(* reference conversion of that item.                                       *)
LEMMA SchemaCastRef ==
    ASSUME NEW fs \in Seq(Field), NEW item \in Items(fs)
    PROVE  SchemaCast(item, fs) = RefItem(item, fs)
<1>1. CASE item = Error
  BY <1>1 DEF SchemaCast, RefItem, Error
<1>2. CASE item \in Batches(fs)
  <2>1. PICK n \in 1..MaxRows :
          \E c \in [DOMAIN fs -> [1..n -> Cells \cup {NULL} \cup Values]] :
             /\ \A i \in DOMAIN fs, r \in 1..n : c[i][r] \in CellsOf(fs[i])
             /\ item = [kind |-> "batch", cols |-> c]
    BY <1>2 DEF Batches
  <2>2. PICK c \in [DOMAIN fs -> [1..n -> Cells \cup {NULL} \cup Values]] :
             /\ \A i \in DOMAIN fs, r \in 1..n : c[i][r] \in CellsOf(fs[i])
             /\ item = [kind |-> "batch", cols |-> c]
    BY <2>1
  <2>3. CASE CastFails(fs)
    BY <2>2, <2>3 DEF SchemaCast, RefItem
  <2>4. CASE ~CastFails(fs)
    <3>1. ASSUME NEW i \in DOMAIN fs, fs[i].ntz
          PROVE  NtzCast(c[i]) = [r \in DOMAIN c[i] |-> RefMillis(c[i][r])]
      <4>1. c[i] \in [1..n -> Cells \cup {NULL}]
        BY <2>2, <3>1 DEF CellsOf
      <4>2. QED BY <4>1, NtzCastRef
    <3>2. QED BY <2>2, <2>4, <3>1 DEF SchemaCast, RefItem
  <2>5. QED BY <2>3, <2>4
<1>3. QED BY <1>1, <1>2 DEF Items

-----------------------------------------------------------------------------
(***************************************************************************)
(* The inductive invariant.  NoRowLost is not inductive by itself: it says *)
(* nothing of the query before the stream is returned, nor of what the     *)
(* items of api and held are.  The strengthening says that before          *)
(* exec_streamed nothing is pulled, that the peek starts from the whole    *)
(* result, and that every pulled or peeked item is the reference           *)
(* conversion of an item the API can return.                               *)
(***************************************************************************)
Outs(fs) == {RefItem(it, fs) : it \in Items(fs)}

Shape ==
    /\ phase \in {"start", "idle", "peek", "streaming", "ended", "failed"}
    /\ fields \in Seq(Field)
    /\ source \in Seq(Items(fields))
    /\ api \in Seq(Items(fields))
    /\ out \in Seq(Outs(fields))
    /\ held \in Seq(Outs(fields))

NothingPulled ==
    phase \in {"start", "idle"} => source = <<>> /\ api = <<>> /\ out = <<>> /\ held = <<>>

PeekFromStart ==
    phase = "peek" => api = source /\ out = <<>> /\ held = <<>>

Conserved ==
    phase \in {"streaming", "ended"} =>
        (out \o held) \o RefAll(api, fields) = RefAll(source, fields)

Drained ==
    phase = "ended" => held = <<>> /\ api = <<>>

IInv == Shape /\ NothingPulled /\ PeekFromStart /\ Conserved /\ Drained


(* The reference conversion of a result is a sequence of converted items. *)
LEMMA RefAllType ==
    ASSUME NEW fs \in Seq(Field), NEW s \in Seq(Items(fs))
    PROVE  RefAll(s, fs) \in Seq(Outs(fs))
BY DEF RefAll, Outs

LEMMA RefAllEmpty ==
    ASSUME NEW fs
    PROVE  RefAll(<<>>, fs) = <<>>
BY DEF RefAll

(* Converting a result is converting its first item, then the rest.        *)
LEMMA RefAllHead ==
    ASSUME NEW fs \in Seq(Field), NEW s \in Seq(Items(fs)), s # <<>>
    PROVE  RefAll(s, fs) = <<RefItem(Head(s), fs)>> \o RefAll(Tail(s), fs)
<1>1. Tail(s) \in Seq(Items(fs)) /\ Len(Tail(s)) = Len(s) - 1
      /\ \A i \in 1..Len(Tail(s)) : Tail(s)[i] = s[i + 1]
  BY HeadTailProperties
<1>2. RefAll(Tail(s), fs) \in Seq(Outs(fs)) /\ RefItem(Head(s), fs) \in Outs(fs)
  BY <1>1, RefAllType, HeadTailProperties DEF Outs
<1> DEFINE R == <<RefItem(Head(s), fs)>> \o RefAll(Tail(s), fs)
<1>3. R \in Seq(Outs(fs)) /\ Len(R) = Len(s)
      /\ \A i \in 1..Len(s) : R[i] = IF i <= 1 THEN RefItem(Head(s), fs)
                                              ELSE RefAll(Tail(s), fs)[i - 1]
  BY <1>1, <1>2, ConcatProperties DEF RefAll
<1>4. QED BY <1>1, <1>3 DEF RefAll


LEMMA InitIInv == Init => IInv
BY EmptySeq DEF Init, IInv, Shape, NothingPulled, PeekFromStart, Conserved, Drained

(* get_schema fixes the row type before anything is pulled.                *)
LEMMA GetSchemaIInv ==
    ASSUME IInv, GetSchema
    PROVE  IInv'
<1>1. /\ phase = "start" /\ phase' \in {"idle", "failed"} /\ fields' \in Seq(Field)
      /\ UNCHANGED <<source, api, held, out>>
  BY DEF GetSchema
<1>2. <<>> \in Seq(Items(fields')) /\ <<>> \in Seq(Outs(fields'))
  BY EmptySeq
<1>3. QED BY <1>1, <1>2 DEF IInv, Shape, NothingPulled, PeekFromStart, Conserved, Drained

(* exec_streamed opens the whole result for the peek.                      *)
LEMMA ExecStreamedIInv ==
    ASSUME IInv, ExecStreamed
    PROVE  IInv'
<1>1. phase = "idle" /\ UNCHANGED <<fields, held, out>>
  BY DEF ExecStreamed
<1>2. CASE phase' = "failed" /\ UNCHANGED <<source, api>>
  BY <1>1, <1>2 DEF IInv, Shape, NothingPulled, PeekFromStart, Conserved, Drained
<1>3. CASE \E r \in Results(fields) : source' = r /\ api' = r /\ phase' = "peek"
  <2>1. PICK r \in Results(fields) : source' = r /\ api' = r /\ phase' = "peek"
    BY <1>3
  <2>2. r \in Seq(Items(fields))
    BY DEF Results
  <2>3. QED BY <1>1, <2>1, <2>2 DEF IInv, Shape, NothingPulled, PeekFromStart, Conserved, Drained
<1>4. QED BY <1>2, <1>3 DEF ExecStreamed

(* The peek keeps the first batch, converted, to be replayed.              *)
LEMMA PeekIInv ==
    ASSUME IInv, Peek
    PROVE  IInv'
<1>1. /\ phase = "peek" /\ api = source /\ out = <<>> /\ held = <<>>
      /\ UNCHANGED <<fields, source, out>>
      /\ fields \in Seq(Field) /\ source \in Seq(Items(fields))
  BY DEF Peek, IInv, PeekFromStart, Shape
<1>2. CASE api = <<>>
  <2>1. phase' = "streaming" /\ UNCHANGED <<api, held>>
    BY <1>2 DEF Peek
  <2>2. (out \o held) \o RefAll(api, fields) = RefAll(source, fields)
    BY <1>1, <1>2, RefAllEmpty, EmptySeq, ConcatEmptySeq
  <2>3. QED BY <1>1, <2>1, <2>2 DEF IInv, Shape, NothingPulled, PeekFromStart, Conserved, Drained
<1>3. CASE api # <<>>
  <2> DEFINE first == SchemaCast(Head(api), fields)
  <2>1. Head(api) \in Items(fields) /\ Tail(api) \in Seq(Items(fields))
    BY <1>1, <1>3, HeadTailProperties
  <2>2. first = RefItem(Head(api), fields) /\ first \in Outs(fields)
    BY <1>1, <2>1, SchemaCastRef DEF Outs
  <2>3. CASE first.kind = "error"
    <3>1. phase' = "failed" /\ UNCHANGED <<api, held>>
      BY <1>3, <2>3 DEF Peek
    <3>2. QED BY <1>1, <3>1 DEF IInv, Shape, NothingPulled, PeekFromStart, Conserved, Drained
  <2>4. CASE first.kind # "error"
    <3>1. held' = <<first>> /\ api' = Tail(api) /\ phase' = "streaming"
      BY <1>3, <2>4 DEF Peek
    <3>2. held' \in Seq(Outs(fields))
      BY <3>1, <2>2
    <3>3. (out \o held') \o RefAll(api', fields) = RefAll(source, fields)
      <4>1. out \o held' = <<first>>
        BY <1>1, <3>1, <3>2, ConcatEmptySeq
      <4>2. QED BY <4>1, <3>1, <2>2, <1>1, <1>3, RefAllHead
    <3>4. QED BY <1>1, <2>1, <3>1, <3>2, <3>3
              DEF IInv, Shape, NothingPulled, PeekFromStart, Conserved, Drained
  <2>5. QED BY <2>3, <2>4
<1>4. QED BY <1>2, <1>3


(* A poll passes on the replayed batch, or the next item converted, or     *)
(* ends the stream once both are used up.                                   *)
LEMMA PollIInv ==
    ASSUME IInv, Poll
    PROVE  IInv'
<1>1. /\ phase = "streaming" /\ UNCHANGED <<fields, source>>
      /\ fields \in Seq(Field) /\ source \in Seq(Items(fields)) /\ api \in Seq(Items(fields))
      /\ out \in Seq(Outs(fields)) /\ held \in Seq(Outs(fields))
      /\ (out \o held) \o RefAll(api, fields) = RefAll(source, fields)
  BY DEF Poll, IInv, Shape, Conserved
<1>2. RefAll(api, fields) \in Seq(Outs(fields))
  BY <1>1, RefAllType
<1>3. CASE held # <<>>
  <2>1. out' = out \o held /\ held' = <<>> /\ UNCHANGED <<api, phase>>
    BY <1>3, Zenon DEF Poll
  <2>2. out' \in Seq(Outs(fields)) /\ held' \in Seq(Outs(fields))
    BY <1>1, <2>1, ConcatProperties, EmptySeq
  <2>3. (out' \o held') \o RefAll(api', fields) = RefAll(source, fields)
    BY <1>1, <2>1, <2>2, ConcatEmptySeq
  <2>4. QED BY <1>1, <2>1, <2>2, <2>3
            DEF IInv, Shape, NothingPulled, PeekFromStart, Conserved, Drained
<1>4. CASE held = <<>> /\ api # <<>>
  <2> DEFINE x == SchemaCast(Head(api), fields)
  <2>1. out' = Append(out, x) /\ api' = Tail(api) /\ UNCHANGED <<held, phase>>
    BY <1>4 DEF Poll
  <2>2. Head(api) \in Items(fields) /\ Tail(api) \in Seq(Items(fields))
    BY <1>1, <1>4, HeadTailProperties
  <2>3. x = RefItem(Head(api), fields) /\ x \in Outs(fields)
    BY <1>1, <2>2, SchemaCastRef DEF Outs
  <2>4. out' = out \o <<x>> /\ out' \in Seq(Outs(fields))
    BY <1>1, <2>1, <2>3, AppendIsConcat, AppendProperties
  <2>5. RefAll(Tail(api), fields) \in Seq(Outs(fields)) /\ <<x>> \in Seq(Outs(fields))
    <3>1. RefAll(Tail(api), fields) \in Seq(Outs(fields))
      BY <1>1, <2>2, RefAllType
    <3>2. <<x>> \in Seq(Outs(fields))
      BY <2>3
    <3>3. QED BY <3>1, <3>2
  <2>6. (out' \o held') \o RefAll(api', fields) = out \o (<<x>> \o RefAll(Tail(api), fields))
    BY <1>1, <1>4, <2>1, <2>4, <2>5, ConcatEmptySeq, ConcatAssociative
  <2>7. out \o (<<x>> \o RefAll(Tail(api), fields)) = RefAll(source, fields)
    BY <1>1, <1>4, <2>3, RefAllHead, ConcatEmptySeq
  <2>8. QED BY <1>1, <1>4, <2>1, <2>2, <2>4, <2>6, <2>7
            DEF IInv, Shape, NothingPulled, PeekFromStart, Conserved, Drained
<1>5. CASE held = <<>> /\ api = <<>>
  <2>1. phase' = "ended" /\ UNCHANGED <<out, held, api>>
    BY <1>5 DEF Poll
  <2>2. QED BY <1>1, <1>5, <2>1
            DEF IInv, Shape, NothingPulled, PeekFromStart, Conserved, Drained
<1>6. QED BY <1>3, <1>4, <1>5

LEMMA NextIInv == IInv /\ [Next]_vars => IInv'
<1> SUFFICES ASSUME IInv, [Next]_vars PROVE IInv'
  OBVIOUS
<1>1. CASE UNCHANGED vars
  BY <1>1 DEF vars, IInv, Shape, NothingPulled, PeekFromStart, Conserved, Drained
<1>2. QED BY <1>1, GetSchemaIInv, ExecStreamedIInv, PeekIInv, PollIInv DEF Next

(* The stream invariant: in every reachable state every pulled or peeked  *)
(* item is the reference conversion of an API item, and once query_arrow  *)
(* has returned, the delivered, the held and the unpulled items make up   *)
(* the converted result.                                                   *)
THEOREM IInvariant == Spec => []IInv
BY InitIInv, NextIInv, PTL DEF Spec

(* NoRowLost, for every row type, result length and batch size: the       *)
(* stream query_arrow returns delivers every batch of the query result    *)
(* exactly once and in order, the peeked first batch included, with its   *)
(* TIMESTAMP_NTZ cells in reference milliseconds and its nulls kept.       *)
THEOREM NoRowLostHolds == Spec => []NoRowLost
<1>1. IInv => NoRowLost
  <2> SUFFICES ASSUME IInv, phase \in {"streaming", "ended"}
               PROVE  /\ out \o held \o RefAll(api, fields) = RefAll(source, fields)
                      /\ phase = "ended" => out = RefAll(source, fields)
    BY DEF NoRowLost
  <2>1. out \o held \o RefAll(api, fields) = RefAll(source, fields)
    BY DEF IInv, Conserved
  <2>2. ASSUME phase = "ended" PROVE out = RefAll(source, fields)
    <3>1. held = <<>> /\ api = <<>> /\ out \in Seq(Outs(fields))
      BY <2>2 DEF IInv, Drained, Shape
    <3>2. QED BY <2>1, <3>1, RefAllEmpty, ConcatEmptySeq
  <2>3. QED BY <2>1, <2>2
<1>2. QED BY <1>1, IInvariant, PTL


-----------------------------------------------------------------------------

=============================================================================
