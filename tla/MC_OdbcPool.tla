------------------------------ MODULE MC_OdbcPool ------------------------------
(* Data sources for the runs of OdbcPool. *)
EXTENDS OdbcPool

CONSTANTS p1, p2, p3

(* Three pools built at once; p3's params lack the connection string. *)
MC_Pools == {p1, p2, p3}
MC_HasString == {p1, p2}
=============================================================================
