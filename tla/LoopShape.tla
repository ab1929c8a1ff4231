------------------------------- MODULE LoopShape -------------------------------
(***************************************************************************)
(* The counted loops the Duff unroller recognises (determine_lin_unroll_   *)
(* info, check_phi, is_valid_incr in src/ir/opt/loop_unrolling.c): a       *)
(* header Phi i, a Cmp of i against a loop-invariant bound N with one of   *)
(* four relations, and one increment Add/Sub/Mul of i with a loop-         *)
(* invariant c.  A loop is a record:                                       *)
(*   shape      "add" Add(i,c) or Add(c,i), "sub" Sub(i,c), "rsub"         *)
(*              Sub(c,i), "mul" Mul(i,c) or Mul(c,i) with Const c          *)
(*   side       "left" when i is the left operand of the Cmp, else "right" *)
(*   rel        the Cmp relation                                           *)
(*   init       the value i enters the loop with                           *)
(*   bound      N                                                          *)
(*   c          the increment operand                                      *)
(*   initValid  the entry value is a valid base (constant, or not stored   *)
(*              to in the loop), which permits the switch fix-up           *)
(*   onTrue     the true Proj of the header Cond leads into the loop (the  *)
(*              in_loop_target of get_false_and_true_targets); else the    *)
(*              loop runs while the Cmp fails, as for                      *)
(*              for (;; i++) { if (i >= n) break; ... }                    *)
(***************************************************************************)
EXTENDS TarvalArith

Shapes == {"add", "sub", "rsub", "mul"}
Sides  == {"left", "right"}

LoopRecords(inits, bounds, cs, ons) ==
    [shape: Shapes, side: Sides, rel: Relations, init: inits, bound: bounds,
     c: cs, initValid: BOOLEAN, onTrue: ons]

\* The increment binop of the loop, executed once per iteration.  binop_to_
\* op maps Add to ADD, Sub to SUB (whichever operand is the Phi) and Mul to
\* MUL; is_valid_incr accepts the Phi on either side.
Step(l, x) ==
    CASE l.shape = "add"  -> Wrap(x + l.c)
      [] l.shape = "sub"  -> Wrap(x - l.c)
      [] l.shape = "rsub" -> Wrap(l.c - x)
      [] l.shape = "mul"  -> Wrap(x * l.c)

\* The header Cmp of the loop with bound b in place of N.
CmpWith(l, x, b) ==
    IF l.side = "left" THEN CmpHolds(l.rel, x, b) ELSE CmpHolds(l.rel, b, x)

\* The header Cond with bound b: the body runs when the Cmp's outcome is
\* the Proj that leads into the loop.
CondWith(l, x, b) == CmpWith(l, x, b) = l.onTrue

Cond(l, x) == CondWith(l, x, l.bound)
================================================================================
