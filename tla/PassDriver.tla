----------------------------- MODULE PassDriver -----------------------------
(***************************************************************************)
(* The driver of the loop unroller in src/ir/opt/loop_unrolling.c:         *)
(* unroll_loops and duplicate_innermost_loops, which walks the loop tree,  *)
(* and the choice it makes for each innermost loop between unroll_loop     *)
(* (the plain unroller, whose find_suitable_factor returns 0) and the      *)
(* Duff's-device unroller, whose recognition is modelled by Recogniser.    *)
(*                                                                         *)
(* A loop tree is a function from loop names to records with the fields:  *)
(*   sons    the child loops, in the order of the loop's elements          *)
(*   nodes   the outs of the loop's own blocks (count_nodes adds the       *)
(*           sons')                                                        *)
(*   header  get_loop_header(loop) is not NULL                             *)
(*   dli     the result of determine_lin_unroll_info: {} for               *)
(*           duff_unrollable_none, else the fix-ups it allows              *)
(* The recursion of duplicate_innermost_loops is an explicit stack of      *)
(* frames, one per active call, with the call's local state.               *)
(***************************************************************************)
EXTENDS Integers, Sequences, FiniteSets

CONSTANTS
    Root,       \* get_irg_loop(irg), the loop tree's root
    Trees,      \* the loop trees of the graphs unroll_loops is run on
    Builds,     \* TRUE: a DEBUG_libfirm build, where DEBUG_ONLY(goto duff)
                \* is compiled in
    DuffEnvs,   \* atoi(getenv("DUFF_FACTOR")), 0 when it is not set
    Factor,     \* the factor argument of unroll_loops
    MaxSize,    \* the maxsize argument of unroll_loops
    UWidth      \* the width of unsigned (32; TLC's integers need less)

VARIABLES
    tree,       \* the graph's loop tree
    debug,      \* the build
    env,        \* the value of DUFF_FACTOR
    stack,      \* the active calls of duplicate_innermost_loops
    duffed,     \* the unroll_loop_duff calls made, in order
    nUnrolled   \* n_loops_unrolled

vars == <<tree, debug, env, stack, duffed, nUnrolled>>

\* count_nodes: the outs of the loop's blocks and of its sons', recursively
RECURSIVE CountNodes(_, _)
CountNodes(t, l) ==
    LET s == t[l].sons
        RECURSIVE SumFrom(_)
        SumFrom(i) == IF i > Len(s) THEN 0 ELSE CountNodes(t, s[i]) + SumFrom(i + 1)
    IN t[l].nodes + SumFrom(1)

\* determine_unroll_factor
DetermineUnrollFactor(t, l) == IF CountNodes(t, l) < MaxSize THEN Factor ELSE 0

\* DUFF_FACTOR: load_duff_factor() if it is not 0, else DUFF_DEFAULT_FACTOR,
\* passed to the unsigned factor of unroll_loop_duff
DuffFactor(e) == (IF e # 0 THEN e ELSE 4) % 2^UWidth

Frame(l, outermost) == [loop |-> l, i |-> 1, innermost |-> TRUE,
                        outermost |-> outermost]

Top == stack[Len(stack)]
Sons == tree[Top.loop].sons
Pop == stack' = SubSeq(stack, 1, Len(stack) - 1)
\* the loop's sons are walked and it has none
InnermostDone == stack # <<>> /\ Top.i > Len(Sons) /\ Top.innermost

\* unroll_loops: the walk starts at the root, as its outermost loop
Init ==
    /\ tree \in Trees
    /\ debug \in Builds
    /\ env \in DuffEnvs
    /\ stack = <<Frame(Root, TRUE)>>
    /\ duffed = <<>>
    /\ nUnrolled = 0

\* the loop over the elements meets a son: recurse into it; the loop is
\* no longer innermost
Descend ==
    /\ stack # <<>>
    /\ Top.i <= Len(Sons)
    /\ stack' = Append([stack EXCEPT ![Len(stack)].i = @ + 1,
                                     ![Len(stack)].innermost = FALSE],
                       Frame(Sons[Top.i], FALSE))
    /\ UNCHANGED <<tree, debug, env, duffed, nUnrolled>>

\* a loop with sons returns after walking them
NotInnermost ==
    /\ stack # <<>>
    /\ Top.i > Len(Sons)
    /\ ~Top.innermost
    /\ Pop
    /\ UNCHANGED <<tree, debug, env, duffed, nUnrolled>>

\* a release build, a loop that is not the root and small enough:
\* unroll_loop, which returns without a change whether the header is NULL
\* or not, because find_suitable_factor returns 0; the walker returns
UnrollLoop ==
    /\ InnermostDone
    /\ ~debug
    /\ ~Top.outermost
    /\ DetermineUnrollFactor(tree, Top.loop) > 0
    /\ Pop
    /\ UNCHANGED <<tree, debug, env, duffed, nUnrolled>>

\* the Duff path (label duff) when the loop has no header or is the root,
\* whose depth is 0: nothing is unrolled
DuffSkip ==
    /\ InnermostDone
    /\ debug \/ Top.outermost \/ DetermineUnrollFactor(tree, Top.loop) = 0
    /\ ~tree[Top.loop].header \/ Len(stack) = 1
    /\ Pop
    /\ UNCHANGED <<tree, debug, env, duffed, nUnrolled>>

\* the Duff path on a loop of depth > 0 (the frames on the stack are the
\* loop's ancestors, so its depth is Len(stack) - 1): determine_lin_unroll_info,
\* and unroll_loop_duff with DUFF_FACTOR when it allows a fix-up;
\* unroll_loop_duff finds the same header and counts the loop
Duff ==
    /\ InnermostDone
    /\ debug \/ Top.outermost \/ DetermineUnrollFactor(tree, Top.loop) = 0
    /\ tree[Top.loop].header
    /\ Len(stack) > 1
    /\ IF tree[Top.loop].dli # {}
       THEN /\ duffed' = Append(duffed, [loop |-> Top.loop,
                                         factor |-> DuffFactor(env),
                                         fixups |-> tree[Top.loop].dli])
            /\ nUnrolled' = nUnrolled + 1
       ELSE UNCHANGED <<duffed, nUnrolled>>
    /\ Pop
    /\ UNCHANGED <<tree, debug, env>>

Next == Descend \/ NotInnermost \/ UnrollLoop \/ DuffSkip \/ Duff

Spec == Init /\ [][Next]_vars

-----------------------------------------------------------------------------
(* Properties *)

\* the innermost loops of the tree other than its root
InnermostLoops == {l \in DOMAIN tree : tree[l].sons = <<>> /\ l # Root}

\* Spec 4.4: a loop with one exit, a recognised induction variable and a
\* valid-base bound is unrolled as a Duff's device. At the end of
\* unroll_loops every innermost loop with a header that
\* determine_lin_unroll_info accepts has been passed to unroll_loop_duff.
SpecDuffApplied ==
    stack = <<>> =>
        \A l \in InnermostLoops :
            tree[l].header /\ tree[l].dli # {} =>
                \E k \in DOMAIN duffed : duffed[k].loop = l
====
