---------------------------- MODULE MC_PgNumeric ----------------------------
(* Bounded inputs for from_sql: NUMERIC words with up to two base-10000     *)
(* digits, weights -2..1, scales 0..5 and the sign words of numbers, NaN   *)
(* and +Infinity, encoded as the big-endian bytes PostgreSQL sends.        *)
EXTENDS PgNumeric

MC_MaxSize == 9
MC_DigitVals == {1, 20, 932, 9999}
MC_Signs == {SignPlus, SignMinus, 49152, 53248}

WordsToBytes(ws) == FlattenSeq([i \in 1..Len(ws) |-> <<ws[i] \div 256, ws[i] % 256>>])
U16Of(x) == IF x < 0 THEN x + 65536 ELSE x

DigitSeqs == UNION { [1..n -> MC_DigitVals \cup (IF n = 2 THEN {0} ELSE {})] : n \in 0..2 }

MC_Words ==
    { <<Len(d), U16Of(wt), sg, ds>> \o d :
        d \in DigitSeqs, wt \in -2..1, sg \in MC_Signs, ds \in 0..5 }

(* Every input whose decimal digit count fits TLC's integers. *)
MC_Inputs == { WordsToBytes(w) : w \in { w \in MC_Words : w[4] + 4 * AsI16(w[2]) + 4 <= MC_MaxSize } }
=============================================================================
