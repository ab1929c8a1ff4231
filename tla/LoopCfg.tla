------------------------------ MODULE LoopCfg ------------------------------
(***************************************************************************)
(* The control-flow checks of determine_lin_unroll_info in                 *)
(* src/ir/opt/loop_unrolling.c, before it looks at a Phi: the loop's       *)
(* header (get_loop_header, block_dominates_loop, block_is_inside_loop),   *)
(* the targets of the header Cond (get_false_and_true_targets), the exits  *)
(* (loop_exits_from_block, has_multiple_loop_exits) and the choice of the  *)
(* header compare.                                                         *)
(*                                                                         *)
(* A control-flow graph is a record:                                       *)
(*   blocks   the blocks of the graph                                      *)
(*   entry    the start block                                              *)
(*   succs    for each block, the blocks its control-flow nodes lead to,   *)
(*            in the order of its outs (a Return leads to the End block)   *)
(*   condCmp  the block ends in a Cond whose selector is a Cmp             *)
(*   loopOf   get_irn_loop of each block (the root loop for a block in no  *)
(*            loop, so it is never NULL)                                   *)
(*   outer    get_loop_outer_loop of each loop (the root is its own)       *)
(*   loop     the loop being examined, an innermost one                    *)
(*   elems    its elements in order; an innermost loop has only blocks     *)
(*   cmps     the Cmps among the header's outs, in order: good (the        *)
(*            relation is <, <=, > or >=) and selects (it is the selector  *)
(*            of the header Cond)                                          *)
(***************************************************************************)
EXTENDS Integers, Sequences, FiniteSets
LOCAL G == INSTANCE Graphs

NoBlock == "NoBlock"

\* is_inner_loop: walk the outer loops of inner until the root or outer
RECURSIVE IsInnerLoop(_, _, _)
IsInnerLoop(g, outerLoop, inner) ==
    LET next == g.outer[inner]
    IN IF next = inner THEN FALSE
       ELSE IF next = outerLoop THEN TRUE
       ELSE IsInnerLoop(g, outerLoop, next)

\* block_is_inside_loop
BlockIsInsideLoop(g, b, l) ==
    g.loopOf[b] = l \/ IsInnerLoop(g, l, g.loopOf[b])

\* the control-flow edges, and the graph without block d
Edges(g) ==
    UNION {{<<b, g.succs[b][i]>> : i \in DOMAIN g.succs[b]} : b \in g.blocks}
Without(g, d) ==
    [node |-> g.blocks \ {d}, edge |-> {e \in Edges(g) : d \notin {e[1], e[2]}}]

\* block_dominates: every path from the start block to b passes d
BlockDominates(g, d, b) ==
    \/ d = b
    \/ d = g.entry
    \/ b # g.entry /\ b \notin G!Descendants(Without(g, d), g.entry)

\* get_Block_idom: the strict dominator of b that the others dominate
Idom(g, b) ==
    LET doms == {d \in g.blocks \ {b} : BlockDominates(g, d, b)}
    IN IF doms = {} THEN NoBlock
       ELSE CHOOSE d \in doms : \A e \in doms : BlockDominates(g, e, d)

\* block_dominates_loop on an innermost loop: b dominates its blocks
BlockDominatesLoop(g, b) ==
    \A j \in DOMAIN g.elems : BlockDominates(g, b, g.elems[j])

\* the walk up the dominance tree while the dominator is inside the loop
RECURSIVE ClimbIdom(_, _)
ClimbIdom(g, h) ==
    LET i == Idom(g, h)
    IN IF i # NoBlock /\ BlockIsInsideLoop(g, i, g.loop) THEN ClimbIdom(g, i)
       ELSE h

\* get_loop_header: from the first block of the loop up the dominance
\* tree; NULL when that block does not dominate the whole loop
GetLoopHeader(g) ==
    LET h == ClimbIdom(g, g.elems[1])
    IN IF BlockDominatesLoop(g, h) THEN h ELSE NoBlock

\* no_of_block_in_loop
NoOfBlockInLoop(g) == Len(g.elems)

\* get_false_and_true_targets: a target of the header's Cond on a Cmp
\* inside the loop, and one outside it
InLoopTarget(g, h) ==
    g.condCmp[h] /\ \E i \in DOMAIN g.succs[h] :
                        BlockIsInsideLoop(g, g.succs[h][i], g.loopOf[h])
OutOfLoopTarget(g, h) ==
    g.condCmp[h] /\ \E i \in DOMAIN g.succs[h] :
                        ~BlockIsInsideLoop(g, g.succs[h][i], g.loopOf[h])

\* loop_exits_from_block: the control-flow edges out of b that leave the loop
LoopExitsFromBlock(g, b) ==
    Cardinality({i \in DOMAIN g.succs[b] :
                    ~BlockIsInsideLoop(g, g.succs[b][i], g.loop)})

\* has_multiple_loop_exits: the exits of the loop's blocks, counted until
\* there are two
HasMultipleLoopExits(g) ==
    LET RECURSIVE Count(_, _)
        Count(i, n) == IF i > Len(g.elems) \/ n > 1 THEN n
                       ELSE Count(i + 1, n + LoopExitsFromBlock(g, g.elems[i]))
    IN Count(1, 0) > 1

\* the early returns of determine_lin_unroll_info before its loop over the
\* header's outs: one block, a header in another loop, a header that is
\* its own predecessor, a header Cond without both targets. The driver
\* calls it only on a loop whose header is not NULL.
LoopShapeOk(g) ==
    LET h == GetLoopHeader(g)
    IN /\ NoOfBlockInLoop(g) > 1
       /\ h # NoBlock
       /\ g.loopOf[h] = g.loop
       /\ <<h, h>> \notin Edges(g)
       /\ InLoopTarget(g, h) /\ OutOfLoopTarget(g, h)

\* the loop over the header's outs stops at the first Cmp with one of the
\* four relations; 0 when there is none
HeaderCmp(g) ==
    LET good == {j \in DOMAIN g.cmps : g.cmps[j].good}
    IN IF good = {} THEN 0 ELSE CHOOSE j \in good : \A k \in good : j <= k

-----------------------------------------------------------------------------
(* The spec's loop (section 4.4): its blocks, the edges into and out of    *)
(* them.                                                                   *)

LoopBlocks(g) == {b \in g.blocks : g.loopOf[b] = g.loop}

\* the control-flow edges into the loop from outside, and out of it, with
\* their position so that two edges to one block count twice
EntryEdges(g) == {e \in Edges(g) : e[1] \notin LoopBlocks(g) /\ e[2] \in LoopBlocks(g)}
ExitEdges(g) ==
    UNION {{<<b, i>> : i \in {j \in DOMAIN g.succs[b] :
                                g.succs[b][j] \notin LoopBlocks(g)}} :
              b \in LoopBlocks(g)}

\* a loop with a single entry block that is also the source of its only
\* exit edge
IsSingleEntryExitLoop(g) ==
    \E h \in LoopBlocks(g) :
        /\ \A e \in EntryEdges(g) : e[2] = h
        /\ Cardinality(ExitEdges(g)) = 1
        /\ \A x \in ExitEdges(g) : x[1] = h
====
