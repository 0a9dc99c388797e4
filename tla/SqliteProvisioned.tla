-------------------------- MODULE SqliteProvisioned --------------------------
(***************************************************************************)
(* What SqliteTableFactory::create promises the SQLite file, seen from     *)
(* outside: the mirrored table appears at most once, in one step, together *)
(* with the full index set of the creator that made it, and nothing is     *)
(* dropped afterwards.  Readers of the file never see a table without its  *)
(* indexes, nor a partial index set.                                       *)
(***************************************************************************)
EXTENDS Sequences, SequencesExt

CONSTANTS Creators, Indexes, Wanted

VARIABLES tableExists, dbIndexes

Init ==
    \/ tableExists = FALSE /\ dbIndexes = {}
    \/ \E c \in Creators : tableExists = TRUE /\ dbIndexes = ToSet(Wanted[c])

(* The table and all the indexes of creator c become visible at once. *)
Provision(c) ==
    /\ ~tableExists
    /\ tableExists' = TRUE
    /\ dbIndexes' = ToSet(Wanted[c])

Spec == Init /\ [][\E c \in Creators : Provision(c)]_<<tableExists, dbIndexes>>
=============================================================================
