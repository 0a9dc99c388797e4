---------------------------- MODULE MC_VectorSearch ----------------------------
(* Instances of VectorSearch for TLC: two searches, one loader that may    *)
(* change the loaded models twice, two tables and two models.              *)
EXTENDS VectorSearch

CONSTANTS s1, s2, l1, t1, t2, m1, m2

MC_Searches == {s1, s2}
MC_Loaders == {l1}
MC_Tables == {t1, t2}
MC_Models == {m1, m2}
\* Each table uses its own model; t2's embedding column is not Utf8.
MC_ModelsOf == (t1 :> <<m1>>) @@ (t2 :> <<m2>>)
MC_StringLast == {t1}
\* Both tables use m1, as two datasets embedded with one model do.
MC_SharedModelsOf == (t1 :> <<m1>>) @@ (t2 :> <<m1>>)
MC_Request == (s1 :> {t1, t2}) @@ (s2 :> {t1})
=============================================================================
