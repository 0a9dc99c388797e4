--------------------------- MODULE MC_SnowflakeQuery ---------------------------
(* Instance of SnowflakeQuery for TLC: a table with a well-formed          *)
(* TIMESTAMP_NTZ column and a text column, one with the timestamp column   *)
(* alone, and one whose TIMESTAMP_NTZ array is not the expected struct;   *)
(* epochs on both sides of 1970 and fractions at the millisecond edges.    *)
EXTENDS SnowflakeQuery

CONSTANTS v1

NtzOk == [ntz |-> TRUE, shape |-> "struct", type |-> "struct"]
NtzBad == [ntz |-> TRUE, shape |-> "other", type |-> "int"]
Text == [ntz |-> FALSE, shape |-> "other", type |-> "utf8"]

MC_FieldSets == {<<NtzOk, Text>>, <<NtzOk>>, <<NtzBad, Text>>}
MC_Cells == {[epoch |-> e, fraction |-> f] : e \in {-1, 0, 1}, f \in {0, 999999, 999999999}}
MC_Values == {v1}
=============================================================================
