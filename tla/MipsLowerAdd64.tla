---------------------------- MODULE MipsLowerAdd64 -----------------------------
(***************************************************************************)
(* mips_lower_add64 (src/ir/be/mips/mips_bearch.c), registered for op_Add  *)
(* by mips_lower64: each double-word Add of a small expression graph is    *)
(* replaced by word operations on the lowered low and high words of its    *)
(* operands.  The lowering visits an Add once both operands are lowered,   *)
(* in any such order.  Words are W bits; the low word is unsigned.         *)
(***************************************************************************)
EXTENDS Integers

CONSTANTS
    W,        \* bits of a word (32 on MIPS)
    Inputs,   \* double-word values that enter the graph already lowered
    Adds,     \* function from Add nodes to <<left, right>> operand names
    Values    \* the double-word values an input may take

ASSUME W \in Nat /\ W >= 1

Nodes == Inputs \union DOMAIN Adds
Word  == 0..(2^W - 1)
None  == -1                   \* a node not lowered yet

VARIABLES
    val,     \* the double-word value of each input
    low,     \* lowered low word of each node, or None
    high     \* lowered high word of each node, or None

vars == <<val, low, high>>

\* The value the original double-word graph computes (reference).
RECURSIVE DWValue(_)
DWValue(n) ==
    IF n \in Inputs THEN val[n]
    ELSE (DWValue(Adds[n][1]) + DWValue(Adds[n][2])) % 2^(2 * W)

Lowered(n) == low[n] # None

Init ==
    /\ val \in [Inputs -> Values]
    /\ low  = [n \in Nodes |-> IF n \in Inputs THEN val[n] % 2^W ELSE None]
    /\ high = [n \in Nodes |-> IF n \in Inputs THEN val[n] \div 2^W ELSE None]

\* Mux(sel, false value, true value) with its value operands swapped.
CarrySwapped(resLow, rightLow) == IF resLow < rightLow THEN 0 ELSE 1

\* cmp_carry = Cmp(res_low, right_low, less) on the unsigned low words,
\* carry = Mux(cmp_carry, zero, one).
Carry(resLow, rightLow) == IF resLow < rightLow THEN 1 ELSE 0

\* mips_lower_add64: res_low = left_low + right_low, res_high = (left_high
\* + right_high) + carry, all in word arithmetic; ir_set_dw_lowered.
LowerAdd64(n) ==
    LET l == Adds[n][1]
        r == Adds[n][2]
        resLow == (low[l] + low[r]) % 2^W
        sumHigh == (high[l] + high[r]) % 2^W
    IN  /\ ~Lowered(n)
        /\ Lowered(l) /\ Lowered(r)
        /\ low'  = [low EXCEPT ![n] = resLow]
        /\ high' = [high EXCEPT ![n] = (sumHigh + Carry(resLow, low[r])) % 2^W]
        /\ UNCHANGED val

Next == \E n \in DOMAIN Adds : LowerAdd64(n)

Spec == Init /\ [][Next]_vars

\* Every lowered Add holds in its two words the double-word sum modulo
\* 2^(2W) that the original Add computes.
LoweringCorrect ==
    \A n \in Nodes : Lowered(n) => high[n] * 2^W + low[n] = DWValue(n)
================================================================================
