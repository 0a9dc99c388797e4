------------------------------ MODULE PgNumeric ------------------------------
(***************************************************************************)
(* BigDecimalFromSql::from_sql (crates/arrow_sql_gen/src/postgres.rs): the *)
(* decoder of PostgreSQL's binary NUMERIC, a byte string read as big-      *)
(* endian 16-bit words <<ndigits, weight, sign, dscale, d1, ..., dn>> with *)
(* base-10000 digits d1 (most significant) .. dn.  The decoder expands     *)
(* every base-10000 digit into four decimal digits, pads or truncates the  *)
(* decimal digits to the declared scale, matches the sign word and reads   *)
(* the digits as an unscaled integer with scale dscale.                    *)
(*                                                                         *)
(* The module is a one-step state machine: Init picks a byte string from   *)
(* a bounded set, FromSql decodes it.  The result is checked against a     *)
(* reference value computed directly from the words.                       *)
(***************************************************************************)
EXTENDS Integers, Sequences, SequencesExt

CONSTANTS
    Inputs,     \* the byte strings the decoder is given
    MaxSize     \* bound on the decimal digits, to keep integers in TLC's range

ASSUME InputsAssumption == Inputs \subseteq Seq(0..255)
ASSUME MaxSizeAssumption == MaxSize \in Nat

VARIABLES raw, result
vars == <<raw, result>>

NoResult == [outcome |-> "none", unscaled |-> 0, scale |-> 0]

Pow10(e) == 10^e
SignMinus == 16384     \* 0x4000
SignPlus == 0          \* 0x0000

(* raw.chunks(2): big-endian words; an odd last byte is the high byte of   *)
(* a word whose low byte is 0.                                              *)
Words(r) == [i \in 1..((Len(r) + 1) \div 2) |->
                r[2 * i - 1] * 256 + (IF 2 * i <= Len(r) THEN r[2 * i] ELSE 0)]

(* raw_u16[1] as i16: two's complement reinterpretation of the weight.     *)
AsI16(w) == IF w >= 32768 THEN w - 65536 ELSE w

(* The while loop pushes the decimal digits of one base-10000 digit, least *)
(* significant first, while it is positive.                                 *)
RECURSIVE LittleDigits(_)
LittleDigits(d) == IF d = 0 THEN <<>> ELSE <<d % 10>> \o LittleDigits(d \div 10)

(* A faulty expansion that forgets the zero padding. *)
ExpandUnpadded(d) == LittleDigits(d)

(* One base-10000 digit as decimal digits, least significant first,        *)
(* zero-padded to four (while temp_result.len() < 4).                      *)
Expand(d) == LET s == LittleDigits(d) IN s \o [i \in 1..(4 - Len(s)) |-> 0]

(* The digits taken in reverse order, each expanded, concatenated, and the *)
(* whole reversed: the decimal digits most significant first.             *)
DecimalDigits(ds) ==
    Reverse(FlattenSeq([i \in 1..Len(ds) |-> Expand(ds[Len(ds) + 1 - i])]))

(* Vec::resize: truncate, or pad on the right with zeros. *)
Resize(s, n) == IF n <= Len(s) THEN SubSeq(s, 1, n)
                ELSE s \o [i \in 1..(n - Len(s)) |-> 0]

(* The sign match: -1, +1, or 0 for the FailedToParseBigDecimal error arm. *)
SignOf(s) == CASE s = SignMinus -> -1
               [] s = SignPlus  -> 1
               [] OTHER         -> 0

(* BigInt::from_radix_be(sign, digits, 10): every digit is below 10 here. *)
FromDigits(s) == FoldLeft(LAMBDA acc, x : acc * 10 + x, 0, s)

(***************************************************************************)
(* from_sql as a whole.  Indexing raw_u16 past its end panics; a negative  *)
(* size cast to usize makes resize panic on the allocation; an unknown     *)
(* sign word returns the error; otherwise the unscaled integer and dscale. *)
(***************************************************************************)
Decode(r) ==
    LET w == Words(r)
        n == w[1]
        weight == AsI16(w[2])
        dscale == w[4]
        u8 == DecimalDigits(SubSeq(w, 5, 4 + n))
        valueScale == 4 * (n - weight - 1)
        size == Len(u8) + dscale - valueScale
    IN CASE Len(w) < 4 \/ Len(w) < 4 + n -> [NoResult EXCEPT !.outcome = "panic"]
         [] size < 0                      -> [NoResult EXCEPT !.outcome = "panic"]
         [] SignOf(w[3]) = 0              -> [NoResult EXCEPT !.outcome = "error"]
         [] OTHER -> [outcome |-> "ok",
                      unscaled |-> SignOf(w[3]) * FromDigits(Resize(u8, size)),
                      scale |-> dscale]

Init ==
    /\ raw \in Inputs
    /\ result = NoResult

(* One call of from_sql on the byte string. *)
FromSql ==
    /\ result = NoResult
    /\ result' = Decode(raw)
    /\ UNCHANGED raw

Next == FromSql

Spec == Init /\ [][Next]_vars

-----------------------------------------------------------------------------
(***************************************************************************)
(* Reference.  The words' value is sign * sum of d_i * 10000^(weight-i+1)  *)
(* (i from 1); times 10^dscale, digit i contributes d_i * 10^e(i) with     *)
(* e(i) = dscale + 4 * (weight - i + 1).                                    *)
(***************************************************************************)
Exponent(w, i) == w[4] + 4 * (AsI16(w[2]) - i + 1)

(* The words numeric_send emits: a sign word for a number, base-10000      *)
(* digits, no leading or trailing zero digit, zero as no digits with       *)
(* weight 0, and no nonzero decimal digit beyond dscale.                    *)
Canonical(w) ==
    /\ Len(w) >= 4 /\ Len(w) = 4 + w[1]
    /\ \A i \in 5..Len(w) : w[i] <= 9999
    /\ w[1] = 0 => AsI16(w[2]) = 0
    /\ w[1] > 0 => w[5] # 0 /\ w[Len(w)] # 0
    /\ \A i \in 1..w[1] : Exponent(w, i) < 0 =>
                              w[4 + i] % Pow10(-Exponent(w, i)) = 0

RefUnscaled(w) ==
    LET term(i) == IF Exponent(w, i) >= 0 THEN w[4 + i] * Pow10(Exponent(w, i))
                   ELSE w[4 + i] \div Pow10(-Exponent(w, i))
    IN (IF w[3] = SignMinus THEN -1 ELSE 1) * MapThenSumSet(term, 1..w[1])

(***************************************************************************)
(* RoundTrip (spec property 2, scenarios S1 and S2): every number that     *)
(* PostgreSQL sends as NUMERIC is decoded by from_sql to exactly its value *)
(* and scale: the four-digit expansion, the reversal, value_scale and the  *)
(* resize to len + dscale - value_scale lose and invent no digit and keep  *)
(* the sign.                                                               *)
(***************************************************************************)
RoundTrip ==
    LET w == Words(raw) IN
    result # NoResult /\ Canonical(w) /\ w[3] \in {SignPlus, SignMinus} =>
        result = [outcome |-> "ok", unscaled |-> RefUnscaled(w), scale |-> w[4]]
=============================================================================
