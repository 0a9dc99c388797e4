------------------------- MODULE MC_SqliteProvision -------------------------
(* Creators and indexes for the runs of SqliteProvision. *)
EXTENDS SqliteProvision

CONSTANTS c1, c2, c3, i1, i2, i3

(* c1 asks for two good indexes, c2 for one the database rejects, c3's    *)
(* options do not parse.                                                   *)
MC_Creators == {c1, c2, c3}
MC_Wanted == (c1 :> <<i1, i2>>) @@ (c2 :> <<i2, i3>>) @@ (c3 :> <<i1>>)

(* Two factory calls with the same options. *)
MC_Twins == {c1, c2}
MC_TwinWanted == (c1 :> <<i1>>) @@ (c2 :> <<i1>>)
=============================================================================
