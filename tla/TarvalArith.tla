------------------------------ MODULE TarvalArith ------------------------------
(***************************************************************************)
(* Arithmetic of a signed integer mode of W bits, as the nodes built by    *)
(* the Duff unroller compute it at run time: Add, Sub and Mul wrap modulo  *)
(* 2^W, Cmp compares signed values, Div truncates towards zero and traps   *)
(* on a zero divisor or on MinInt / -1 (the x86 idiv behaviour).           *)
(***************************************************************************)
EXTENDS Integers

CONSTANT W     \* width in bits of the induction variable's mode

ASSUME W \in Nat /\ W >= 2

MinInt == -(2^(W-1))
MaxInt == 2^(W-1) - 1
Ints   == MinInt..MaxInt

\* Reduce an unbounded integer to the W-bit two's-complement value.
Wrap(x) == ((x - MinInt) % (2^W)) + MinInt

\* The four relations the unroller accepts in a loop header Cmp.
Relations == {"<", "<=", ">", ">="}

CmpHolds(rel, a, b) ==
    CASE rel = "<"  -> a < b
      [] rel = "<=" -> a <= b
      [] rel = ">"  -> a > b
      [] rel = ">=" -> a >= b

\* A signed division that the hardware refuses.
DivTraps(a, b) == b = 0 \/ (a = MinInt /\ b = -1)

\* Signed division truncating towards zero, for divisors that do not trap.
TruncDiv(a, b) ==
    LET q == (IF a < 0 THEN -a ELSE a) \div (IF b < 0 THEN -b ELSE b)
    IN  IF (a < 0) = (b < 0) THEN q ELSE -q
================================================================================
