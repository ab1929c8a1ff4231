------------------------------ MODULE DuffUnroll -------------------------------
(***************************************************************************)
(* A counted loop after unroll_loop_duff (src/ir/opt/loop_unrolling.c).    *)
(* The transformation builds, in this order:                               *)
(*  - a fix-up on the header's exit edge: either the switch fix-up         *)
(*    (create_fixup_switch: Factor-1 chained body copies entered through a *)
(*    chain of compares on the residue) or the loop fix-up                 *)
(*    (create_fixup_loop: a copy of the original loop);                    *)
(*  - the main loop: the header followed by Factor body copies with no     *)
(*    test between them (rewire_loop, remove_excess_headers);              *)
(*  - the header compare with N replaced by a new bound                    *)
(*    (update_header_condition).                                           *)
(* The module executes the resulting code for one loop of Loops.           *)
(***************************************************************************)
EXTENDS LoopShape

CONSTANTS
    Factor,  \* the unroll factor (DUFF_FACTOR, default 4)
    Loops    \* the recognised loops considered

ASSUME Factor \in Nat /\ Factor >= 2   \* assert(factor > 1)

VARIABLES
    loop,    \* the loop being executed
    i,       \* value of the induction variable
    pc,      \* block being executed, see PCs
    k,       \* body copies still to run in the current chain
    parity   \* number of body executions modulo 2

vars == <<loop, i, pc, k, parity>>

PCs == {"header",   \* the main loop header with the updated compare
        "body",     \* one of the Factor body copies of the main loop
        "switch",   \* the compare chain of the switch fix-up
        "swbody",   \* one of the chained body copies of the switch fix-up
        "fixhdr",   \* the header of the loop fix-up
        "fixbody",  \* the body of the loop fix-up
        "exit",     \* the block after the loop
        "trapped"}  \* a division in the new bound trapped

-----------------------------------------------------------------------------
(* Decisions taken at compile time.                                        *)

\* The switch fix-up is chosen when the unrollability keeps its switch bit:
\* check_phi clears it when an entry value is not a valid base,
\* determine_lin_unroll_info clears it for MUL.
UsesSwitchFixup(l) == l.initValid /\ l.shape # "mul"

\* is_less: the relation points "upwards" from the Phi, i.e. i < N or
\* i <= N with i on the left, or N > i / N >= i with i on the right.
IsLess(l) == (l.rel \in {"<", "<="}) # (l.side = "right")

\* create_abs: Shrs by W-1, Eor, Sub, so that abs(MinInt) = MinInt.
CreateAbs(x) ==
    LET shrs == IF x < 0 THEN -1 ELSE 0
        eor  == IF shrs = -1 THEN -x - 1 ELSE x
    IN  Wrap(eor - shrs)

\* The same bound with the factor offset written as Factor.
UpdateHeaderConditionAddFull(l) ==
    LET mul == Wrap(CreateAbs(l.c) * Factor)
    IN  IF IsLess(l) THEN Wrap(l.bound - mul) ELSE Wrap(l.bound + mul)

\* update_header_condition_add: N -/+ |c| * (factor - 1).
UpdateHeaderConditionAdd(l) ==
    LET mul == Wrap(CreateAbs(l.c) * Wrap(Factor - 1))
    IN  IF IsLess(l) THEN Wrap(l.bound - mul) ELSE Wrap(l.bound + mul)

\* create_r_pow: base^exp as a chain of Mul nodes.
RECURSIVE CreateRPow(_, _)
CreateRPow(base, exp) ==
    CASE exp = 0 -> 1
      [] exp = 1 -> base
      [] OTHER   -> Wrap(base * CreateRPow(base, exp - 1))

\* update_header_condition_mul: pow = factor^c, div = N / pow,
\* new_N_div_c = div * c, new_N = new_N_div_c * c when less and
\* new_N_div_c / c otherwise.
MulPow(l)   == CreateRPow(Wrap(Factor), l.c)
MulNDivC(l) == Wrap(TruncDiv(l.bound, MulPow(l)) * l.c)

UpdateHeaderConditionMul(l) ==
    IF IsLess(l) THEN Wrap(MulNDivC(l) * l.c) ELSE TruncDiv(MulNDivC(l), l.c)

\* One of the two DivRL nodes of the new bound traps at run time.
MulBoundTraps(l) ==
    \/ DivTraps(l.bound, MulPow(l))
    \/ ~IsLess(l) /\ DivTraps(MulNDivC(l), l.c)

\* update_header_condition: the new bound by op; it replaces N on N's side
\* of the Cmp.
BoundTraps(l) == l.shape = "mul" /\ MulBoundTraps(l)

NewBound(l) ==
    IF l.shape = "mul" THEN UpdateHeaderConditionMul(l)
                       ELSE UpdateHeaderConditionAdd(l)

\* create_fixup_switch_header: res = (|N| - i or i - |N|) (+1 for <= and >=)
\* + (|c| - 1).  The same residue with the +1 for inclusive relations left
\* out.
SwitchResExclusive(l, x) ==
    LET nMinusI == IF IsLess(l) THEN Wrap(CreateAbs(l.bound) - x)
                                ELSE Wrap(x - CreateAbs(l.bound))
    IN  Wrap(nMinusI + Wrap(CreateAbs(l.c) - 1))

SwitchRes(l, x) ==
    LET nMinusI == IF IsLess(l) THEN Wrap(CreateAbs(l.bound) - x)
                                ELSE Wrap(x - CreateAbs(l.bound))
        incl    == IF l.rel \in {"<=", ">="} THEN Wrap(nMinusI + 1) ELSE nMinusI
    IN  Wrap(incl + Wrap(CreateAbs(l.c) - 1))

\* The compare chain tests res >= (factor-1-j)*|c| for j = 0..factor-2 and
\* jumps to dups[j], from where factor-1-j chained body copies run; the
\* last false edge goes to the block after the loop (0 copies).
SwitchCount(l, x) ==
    LET hits == {n \in 1..(Factor - 1) :
                    SwitchRes(l, x) >= Wrap(n * CreateAbs(l.c))}
    IN  IF hits = {} THEN 0 ELSE CHOOSE n \in hits : \A m \in hits : m <= n

-----------------------------------------------------------------------------
(* Execution of the transformed code.                                      *)

Init ==
    /\ loop \in Loops
    /\ i = loop.init
    /\ pc = "header"
    /\ k = 0
    /\ parity = 0

\* The main header evaluates the new bound and the compare; it enters the
\* chain of Factor body copies or leaves to the fix-up chosen at compile
\* time. update_header_condition replaces N in the Cmp and keeps the Cond
\* and its Projs, so the body is entered on the same Proj as before.
MainHeader ==
    /\ pc = "header"
    /\ pc' = CASE BoundTraps(loop)                 -> "trapped"
               [] CondWith(loop, i, NewBound(loop)) -> "body"
               [] UsesSwitchFixup(loop)             -> "switch"
               [] OTHER                             -> "fixhdr"
    /\ k' = Factor
    /\ UNCHANGED <<loop, i, parity>>

\* A body copy that hands back to the header one copy late.
MainBodyLate ==
    /\ pc = "body"
    /\ i' = Step(loop, i)
    /\ parity' = 1 - parity
    /\ k' = k - 1
    /\ pc' = IF k = 0 THEN "header" ELSE "body"
    /\ UNCHANGED loop

\* One body copy of the main loop; the last one jumps back to the header.
MainBody ==
    /\ pc = "body"
    /\ i' = Step(loop, i)
    /\ parity' = 1 - parity
    /\ k' = k - 1
    /\ pc' = IF k = 1 THEN "header" ELSE "body"
    /\ UNCHANGED loop

\* The compare chain of the switch fix-up selects how many copies run.
SwitchDispatch ==
    /\ pc = "switch"
    /\ k' = SwitchCount(loop, i)
    /\ pc' = "swbody"
    /\ UNCHANGED <<loop, i, parity>>

SwitchBody ==
    /\ pc = "swbody"
    /\ k > 0
    /\ i' = Step(loop, i)
    /\ parity' = 1 - parity
    /\ k' = k - 1
    /\ UNCHANGED <<loop, pc>>

SwitchLeave ==
    /\ pc = "swbody"
    /\ k = 0
    /\ pc' = "exit"
    /\ UNCHANGED <<loop, i, k, parity>>

\* A loop fix-up whose exit is wired back to the main header.
FixupHeaderToMain ==
    /\ pc = "fixhdr"
    /\ pc' = IF Cond(loop, i) THEN "fixbody" ELSE "header"
    /\ UNCHANGED <<loop, i, k, parity>>

\* The loop fix-up is the original loop, entered with the current i.
FixupHeader ==
    /\ pc = "fixhdr"
    /\ pc' = IF Cond(loop, i) THEN "fixbody" ELSE "exit"
    /\ UNCHANGED <<loop, i, k, parity>>

FixupBody ==
    /\ pc = "fixbody"
    /\ i' = Step(loop, i)
    /\ parity' = 1 - parity
    /\ pc' = "fixhdr"
    /\ UNCHANGED <<loop, k>>

Next ==
    \/ MainHeader \/ MainBody
    \/ SwitchDispatch \/ SwitchBody \/ SwitchLeave
    \/ FixupHeader \/ FixupBody

Spec == Init /\ [][Next]_vars

\* The transformed code runs on one thread, which keeps executing it.
FairSpec == Spec /\ WF_vars(Next)

-----------------------------------------------------------------------------
(* Properties.                                                             *)

TypeOK ==
    /\ loop \in Loops
    /\ i \in Ints
    /\ pc \in PCs
    /\ k \in 0..Factor
    /\ parity \in {0, 1}

\* Number of iterations the original loop still runs from x, counted up to
\* Factor.
RECURSIVE ItersLeft(_, _, _)
ItersLeft(l, x, fuel) ==
    IF fuel = 0 \/ ~Cond(l, x) THEN 0 ELSE 1 + ItersLeft(l, Step(l, x), fuel - 1)

\* The unrolled code runs the same sequence of body executions and leaves
\* at the same point as the original loop: every body copy (main loop or
\* fix-up) runs only where the original header would have let the body
\* run, and control reaches the block after the loop only where the
\* original header would have left it.  A trapping division is no step of
\* the original loop.
Orig == INSTANCE CountedLoop
            WITH st <- CASE pc = "exit"    -> "exit"
                         [] pc = "trapped" -> "trap"
                         [] OTHER          -> "run"

Refines == Orig!Spec

\* The unrolled code does not stall: whenever the original loop would go on
\* (run its body or leave), the unrolled code, which keeps executing, does
\* too. Safety (Refines) allows code that runs forever without a body run
\* or an exit, as a fix-up whose exit leads back into the unrolled header
\* would; this is the fairness half of the refinement.
Progress == Orig!Fairness

\* The main loop leaves to the fix-up only when fewer than Factor original
\* iterations remain: the new bound of update_header_condition lets the
\* unrolled loop do all the whole chunks of Factor iterations, so the switch
\* fix-up (at most Factor-1 copies) can finish the loop and the loop fix-up
\* runs fewer than Factor times.
FixupHandlesResidue ==
    pc \in {"switch", "fixhdr"} => ItersLeft(loop, i, Factor) < Factor
================================================================================
