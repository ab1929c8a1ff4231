---------------------------- MODULE Recogniser ----------------------------
(***************************************************************************)
(* The counted-loop recogniser of src/ir/opt/loop_unrolling.c:            *)
(* determine_lin_unroll_info, check_phi, is_valid_incr and binop_to_op.    *)
(*                                                                         *)
(* The header compare is a record with its two operands, and the name of  *)
(* the loop's control-flow graph (LoopCfg), on which the recogniser's      *)
(* checks of the header, its Cond, the exits and the choice of the Cmp     *)
(* run; the two operands are those of the Cmp it chooses. An operand is    *)
(* a Phi, which has a sequence of predecessors, or another value. Every    *)
(* node is abstracted to the facts the recogniser tests on it:             *)
(*   binop   is_binop(node)                                                *)
(*   op      "ADD", "SUB", "MUL" or "OTHER" (And, Or, ... for binop_to_op) *)
(*   hasPhi  the checked Phi is an operand, directly or through a cycle    *)
(*   other   the other operand: "const", "base" (a valid base) or "none"   *)
(*   inLoop  block_is_inside_loop(get_block(node), loop)                   *)
(*   base    is_valid_base(node, loop)                                     *)
(* The Cmp operand that is no Phi is a node of the loop's graph, and      *)
(* is_valid_base on it is ValidBase's; for the Phi's preds the stores and  *)
(* aliasing are folded into their base bits.                               *)
(***************************************************************************)
EXTENDS Integers, Sequences, FiniteSets, ValidBase, PhiCycle, LoopCfg

CONSTANTS
    Headers,    \* the header compares the recogniser may meet
    LoopGraphs, \* the graph of each loop's nodes, by the name hdr.loop
    PhiWebs,    \* the Phi webs around increments, by the name p.web
    LoopCfgs    \* the control-flow graph of each loop, by the name hdr.cfg

Fixups == {"loop", "switch"}          \* duff_unrollable_all
Ops == {"ADD", "SUB", "MUL"}          \* enum Op

VARIABLES
    hdr,            \* the loop header's compare and the loop's facts
    op,             \* unroll_info->op
    phiSide,        \* which Cmp operand unroll_info->phi is
    ret,            \* the unrollability determine_lin_unroll_info returns
    stage,          \* where the recogniser is
    idx,            \* the loop index of check_phi over the Phi's preds
    incrPredIndex,  \* incr_pred_index of check_phi
    unrollability   \* the local unrollability of check_phi

vars == <<hdr, op, phiSide, ret, stage, idx, incrPredIndex, unrollability>>

Other(side) == IF side = "left" THEN "right" ELSE "left"
Operand(side) == hdr[side]
ThePhi == Operand(phiSide)
ThePreds == ThePhi.preds

\* is_valid_base(unroll_info->bound, loop): a Phi operand's base bit, or
\* ValidBase on the graph of the loop
BoundBase ==
    LET b == Operand(Other(phiSide))
    IN IF b.isPhi THEN b.base ELSE IsValidBase(LoopGraphs[hdr.loop], b.node)

\* the number of preds of a Phi whose block is inside the loop
PredsInLoop(o) == Cardinality({j \in DOMAIN o.preds : o.preds[j].inLoop})

\* determine_lin_unroll_info up to its choice of the Cmp, on each graph:
\* the early returns for the loop's shape and a header Cmp with one of the
\* four relations (evaluated once per graph)
CfgStart == [c \in DOMAIN LoopCfgs |->
                LoopShapeOk(LoopCfgs[c]) /\ HeaderCmp(LoopCfgs[c]) # 0]

\* has_multiple_loop_exits on each graph
CfgMultiExit == [c \in DOMAIN LoopCfgs |-> HasMultipleLoopExits(LoopCfgs[c])]

NoWeb == "none"

\* the Phi is an operand of the pred: its hasPhi bit, or, for a pred with a
\* web, the node "incr" of PhiWebs[p.web] whose Phi is "h", as is_valid_incr
\* finds it through climb_single_phi and check_cycle_and_find_exit
HasPhi(p) ==
    IF p.web = NoWeb THEN p.hasPhi
    ELSE NodeToCheck(PhiWebs[p.web], "incr", "h") # NoNode

\* is_valid_incr(unroll_info, node): the node is the increment of the Phi
IsValidIncr(p) ==
    /\ p.binop
    /\ p.op \in Ops
    /\ HasPhi(p)
    /\ p.op = "MUL" => p.other = "const"
    /\ p.other \in {"const", "base"}

\* binop_to_op without its early return for other binops
BinopToOpAnyBinop(p) == IF p.binop THEN p.op ELSE op

\* binop_to_op(&unroll_info->op, node) as is_valid_incr calls it: it writes
\* op for every Add, Sub or Mul, before the node is known to be the increment
BinopToOp(p) == IF p.binop /\ p.op \in Ops THEN p.op ELSE op

Init ==
    /\ hdr \in Headers
    /\ op \in Ops                 \* the stack variable info is uninitialised
    /\ phiSide = "left"
    /\ ret = {}
    /\ stage = "cmp"
    /\ idx = 0
    /\ incrPredIndex = -1
    /\ unrollability = {}

\* after check_phi of one side: check the right Phi, or go on to the bound
NextPhi ==
    IF phiSide = "left" /\ Operand("right").isPhi
    THEN phiSide' = "right" /\ stage' = "phi"
    ELSE phiSide' = phiSide /\ stage' = "bound"

\* determine_lin_unroll_info up to the first check_phi: the early returns
\* for the loop's shape, the first Cmp of the header with one of the four
\* relations, which needs a Phi on one side
DetermineStart ==
    /\ stage = "cmp"
    /\ IF CfgStart[hdr.cfg] /\ (Operand("left").isPhi \/ Operand("right").isPhi)
       THEN /\ phiSide' = IF Operand("left").isPhi THEN "left" ELSE "right"
            /\ stage' = "phi"
       ELSE /\ stage' = "done"
            /\ UNCHANGED phiSide
    /\ UNCHANGED <<hdr, op, ret, idx, incrPredIndex, unrollability>>

\* check_phi: too few preds, or more than one inside the loop, is none
CheckPhiReject ==
    /\ stage = "phi"
    /\ Len(ThePreds) < 2 \/ PredsInLoop(ThePhi) > 1
    /\ NextPhi
    /\ UNCHANGED <<hdr, op, ret, idx, incrPredIndex, unrollability>>

\* check_phi: the loop over the preds starts
CheckPhiStart ==
    /\ stage = "phi"
    /\ Len(ThePreds) >= 2 /\ PredsInLoop(ThePhi) <= 1
    /\ stage' = "preds"
    /\ idx' = 1
    /\ incrPredIndex' = -1
    /\ unrollability' = Fixups
    /\ UNCHANGED <<hdr, op, phiSide, ret>>

\* one iteration: the pred is the first valid increment. A second one
\* (the reset and break of lines 918-921) cannot occur: an increment uses
\* the Phi, so it lies inside the loop, and a Phi with two preds inside the
\* loop has been rejected before the loop.
CheckPredIncr ==
    /\ stage = "preds" /\ idx <= Len(ThePreds)
    /\ IsValidIncr(ThePreds[idx])
    /\ incrPredIndex = -1
    /\ op' = BinopToOp(ThePreds[idx])
    /\ incrPredIndex' = idx
    /\ idx' = idx + 1
    /\ UNCHANGED <<hdr, phiSide, ret, stage, unrollability>>

\* one iteration: the pred is no increment; is_valid_incr may still have
\* written op; a pred that is no valid base rules out the switch fix-up
CheckPredOther ==
    /\ stage = "preds" /\ idx <= Len(ThePreds)
    /\ ~IsValidIncr(ThePreds[idx])
    /\ op' = BinopToOp(ThePreds[idx])
    /\ unrollability' = IF ThePreds[idx].base THEN unrollability
                        ELSE unrollability \ {"switch"}
    /\ idx' = idx + 1
    /\ UNCHANGED <<hdr, phiSide, ret, stage, incrPredIndex>>

\* the end of check_phi: none without an increment, no switch fix-up for a
\* non-integer Phi; determine_lin_unroll_info ors the result into ret
CheckPhiEnd ==
    /\ stage = "preds" /\ idx > Len(ThePreds)
    /\ ret' = ret \cup
              (IF incrPredIndex = -1 THEN {}
               ELSE IF ThePhi.intMode THEN unrollability
               ELSE unrollability \ {"switch"})
    /\ NextPhi
    /\ UNCHANGED <<hdr, op, idx, incrPredIndex, unrollability>>

\* the rest of determine_lin_unroll_info without the bound's base check
CheckBoundNoBase ==
    /\ stage = "bound"
    /\ LET r2 == IF op = "MUL" THEN ret \ {"switch"} ELSE ret
       IN ret' = IF CfgMultiExit[hdr.cfg] THEN {} ELSE r2
    /\ stage' = "done"
    /\ UNCHANGED <<hdr, op, phiSide, idx, incrPredIndex, unrollability>>

\* the rest of determine_lin_unroll_info: the bound must be a valid base,
\* a Mul increment rules out the switch fix-up, one exit only
CheckBound ==
    /\ stage = "bound"
    /\ LET r1 == IF BoundBase THEN ret ELSE {}
           r2 == IF op = "MUL" THEN r1 \ {"switch"} ELSE r1
       IN ret' = IF CfgMultiExit[hdr.cfg] THEN {} ELSE r2
    /\ stage' = "done"
    /\ UNCHANGED <<hdr, op, phiSide, idx, incrPredIndex, unrollability>>

Next ==
    \/ DetermineStart
    \/ CheckPhiReject
    \/ CheckPhiStart
    \/ CheckPredIncr
    \/ CheckPredOther
    \/ CheckPhiEnd
    \/ CheckBound

Spec == Init /\ [][Next]_vars

-----------------------------------------------------------------------------
(* Properties *)

TypeOK ==
    /\ op \in Ops
    /\ phiSide \in {"left", "right"}
    /\ ret \subseteq Fixups
    /\ stage \in {"cmp", "phi", "preds", "bound", "done"}
    /\ idx \in Nat
    /\ incrPredIndex \in {-1} \cup Nat
    /\ unrollability \subseteq Fixups

\* the positions of a Phi's preds that have the shape of an increment
IncrIndices(o) == {j \in DOMAIN o.preds : IsValidIncr(o.preds[j])}

\* A loop determine_lin_unroll_info accepts is a counted loop: the Phi
\* unroll_info->phi names has exactly one increment and at most one pred in
\* the loop, the bound is a valid base, the loop is entered only at one
\* block and leaves only from that block through one edge (what the Duff
\* unroller's rewiring of the header assumes), and the switch fix-up is
\* kept only for an integer Phi whose other preds are all valid bases.
\* With a Phi on both sides of the Cmp, the first check_phi's result is
\* ored in before unroll_info->phi is overwritten by the second; the exits
\* are counted over the loop's blocks, the header found by climbing the
\* dominance tree from the loop's first block.
AcceptedIsCountedLoop ==
    stage = "done" /\ ret # {} =>
        /\ ThePhi.isPhi
        /\ Cardinality(IncrIndices(ThePhi)) = 1
        /\ PredsInLoop(ThePhi) <= 1
        /\ BoundBase
        /\ IsSingleEntryExitLoop(LoopCfgs[hdr.cfg])
        /\ "switch" \in ret =>
              /\ ThePhi.intMode
              /\ \A j \in DOMAIN ThePreds \ IncrIndices(ThePhi) : ThePreds[j].base

\* The switch fix-up is chosen only for an Add or Sub increment (spec 4.4:
\* "available when ... the step op is not x"). determine_lin_unroll_info
\* rules it out by testing unroll_info->op, which binop_to_op writes for
\* every Add, Sub or Mul pred is_valid_incr looks at.
SwitchOnlyForAddSub ==
    stage = "done" /\ "switch" \in ret =>
        \A j \in IncrIndices(ThePhi) : ThePreds[j].op # "MUL"

\* The bound of an accepted loop is a valid base in the spec's sense
\* (section 4.4): the same in every iteration, with aliasing cleared
\* against all stores the loop reaches, through calls too. The check is
\* is_valid_base on the bound, against the alias_candidates get_all_stores
\* collected in check_phi.
AcceptedBoundInvariant ==
    stage = "done" /\ ret # {} /\ ~Operand(Other(phiSide)).isPhi =>
        Invariant(LoopGraphs[hdr.loop], Operand(Other(phiSide)).node)

\* The increment of an accepted loop is i <- op(i, c) (spec 4.4): the
\* operand check_cycle_and_find_exit traces back to the Phi carries the
\* Phi's value on every path through the loop body.
AcceptedIncrIsStep ==
    stage = "done" /\ ret # {} =>
        \A j \in IncrIndices(ThePhi) :
            ThePreds[j].web # NoWeb =>
                LET g == PhiWebs[ThePreds[j].web]
                IN IsPhiOnAllPaths(g, g["incr"].ins[1], "h")

\* The Cmp an accepted loop is unrolled by is the header's exit test (spec
\* 4.4: "the bound N in the header compare"): determine_lin_unroll_info
\* takes the first Cmp among the header's outs that has one of the four
\* relations, whether or not it is the selector of the header Cond.
AcceptedCmpIsExitTest ==
    stage = "done" /\ ret # {} =>
        LET g == LoopCfgs[hdr.cfg] IN g.cmps[HeaderCmp(g)].selects

\* A loop determine_lin_unroll_info accepts meets the conditions spec 4.4
\* puts on a Duff's-device unroll: the switch fix-up only for an Add or
\* Sub step, a loop-invariant bound, an increment that is a step of the
\* induction variable, and the header's exit test as the compare.
AcceptedAsSpec ==
    /\ SwitchOnlyForAddSub
    /\ AcceptedBoundInvariant
    /\ AcceptedIncrIsStep
    /\ AcceptedCmpIsExitTest
====
