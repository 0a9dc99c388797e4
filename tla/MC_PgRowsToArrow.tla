-------------------------- MODULE MC_PgRowsToArrow --------------------------
(* Instances of PgRowsToArrow for TLC: two columns, up to three rows, two  *)
(* values of which one is beyond the (scaled-down) i128 range, and two     *)
(* NUMERIC scales so that a column can mix them.                           *)
EXTENDS PgRowsToArrow

MC_Vals == {1, 200}
MC_Scales == {0, 1}
\* All kinds, for the main run.
MC_AllKinds == AllKinds
\* The kinds of the runs that compare one arm with the spec.
MC_CompositeKinds == {"PRIM", "COMPOSITE"}
MC_TimestampKinds == {"PRIM", "TIMESTAMP"}
MC_NumericKinds == {"PRIM", "NUMERIC"}
=============================================================================
