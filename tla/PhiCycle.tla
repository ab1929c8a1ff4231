------------------------------ MODULE PhiCycle ------------------------------
(***************************************************************************)
(* How is_valid_incr in src/ir/opt/loop_unrolling.c finds the loop's Phi   *)
(* among the operands of an increment: climb_single_phi, and the depth-    *)
(* first search phi_cycle_dfs behind check_cycle_and_find_exit.            *)
(*                                                                         *)
(* A graph is a function from node names to records with the fields:      *)
(*   phi     the node is a Phi                                             *)
(*   ins     its inputs in order: a Phi's preds, a binop's two operands    *)
(*   inLoop  block_is_inside_loop(get_block(node), loop)                   *)
(***************************************************************************)
EXTENDS Integers, Sequences, FiniteSets

NoNode == "NULL"

\* climb_single_phi: follow Phis with a single pred
RECURSIVE ClimbSinglePhi(_, _)
ClimbSinglePhi(g, n) ==
    IF g[n].phi /\ Len(g[n].ins) = 1 THEN ClimbSinglePhi(g, g[n].ins[1]) ELSE n

\* an edge of the Phi web to a node that is no Phi: the first such edge
\* names its Phi outside, an edge from another Phi makes the web invalid
OutsideEdge(st, curr) ==
    IF st.outside = NoNode THEN [st EXCEPT !.outside = curr]
    ELSE IF st.outside # curr THEN [st EXCEPT !.valid = FALSE]
    ELSE st

\* the check after the loop over a Phi's preds
LeaveCheck(g, st, curr) ==
    IF st.outside # curr /\ ~g[curr].inLoop THEN [st EXCEPT !.valid = FALSE]
    ELSE st

RECURSIVE PhiCycleDfs(_, _, _, _), DfsPreds(_, _, _, _, _)

\* the loop over the preds of curr from the i-th on. A pred that is a Phi
\* already on the stack returns from the whole call, so the preds after it
\* and the check after the loop are skipped.
DfsPreds(g, curr, searched, i, st) ==
    IF i > Len(g[curr].ins) THEN LeaveCheck(g, st, curr)
    ELSE LET w == g[curr].ins[i]
             st1 == IF w = searched THEN [st EXCEPT !.found = TRUE] ELSE st
         IN IF ~g[w].phi
            THEN DfsPreds(g, curr, searched, i + 1, OutsideEdge(st1, curr))
            ELSE IF w \in st1.stack THEN st1
            ELSE DfsPreds(g, curr, searched, i + 1,
                          PhiCycleDfs(g, w, searched, st1))

\* phi_cycle_dfs: push curr on the stack, which is never popped
PhiCycleDfs(g, curr, searched, st) ==
    LET st1 == [st EXCEPT !.stack = @ \cup {curr}]
    IN IF g[curr].ins = <<>> THEN [st1 EXCEPT !.valid = FALSE]
       ELSE DfsPreds(g, curr, searched, 1, st1)

\* check_cycle_and_find_exit: the Phi of the web with the edges out of it,
\* if the web is valid and reaches searched; a node that is no Phi is
\* returned as it is
CheckCycleAndFindExit(g, n, searched) ==
    IF ~g[n].phi THEN n
    ELSE LET r == PhiCycleDfs(g, n, searched,
                      [found |-> FALSE, valid |-> TRUE, outside |-> NoNode,
                       stack |-> {}])
         IN IF r.outside # NoNode /\ r.valid /\ r.found THEN r.outside
            ELSE NoNode

\* is_valid_incr: node_to_check, the operand of the binop node that is not
\* the Phi, found directly or through a cycle of Phis; NoNode if the Phi is
\* not found
NodeToCheck(g, node, phi) ==
    LET left == ClimbSinglePhi(g, g[node].ins[1])
        right == ClimbSinglePhi(g, g[node].ins[2])
        direct == IF right = phi THEN left
                  ELSE IF left = phi THEN right ELSE NoNode
        leftC == CheckCycleAndFindExit(g, g[node].ins[1], node)
        rightC == CheckCycleAndFindExit(g, g[node].ins[2], node)
    IN IF ~g[left].phi /\ ~g[right].phi THEN NoNode
       ELSE IF direct # NoNode THEN direct
       ELSE IF rightC = phi THEN left
       ELSE IF leftC = phi THEN right
       ELSE NoNode

-----------------------------------------------------------------------------
(* The spec's induction variable (section 4.4): i is updated by            *)
(* i <- op(i, c), so the operand of the increment is the Phi's value on    *)
(* every path: every Phi the operand reaches without passing the loop's    *)
(* Phi merges only Phis.                                                   *)

\* the Phis reachable from the Phis in s through preds, not through phi
RECURSIVE PhiWeb(_, _, _)
PhiWeb(g, s, phi) ==
    LET next == s \cup {w \in UNION {{g[n].ins[i] : i \in DOMAIN g[n].ins} : n \in s} :
                          g[w].phi /\ w # phi}
    IN IF next = s THEN s ELSE PhiWeb(g, next, phi)

\* the operand x of an increment is the value of phi on every path
IsPhiOnAllPaths(g, x, phi) ==
    \/ x = phi
    \/ /\ g[x].phi
       /\ \A n \in PhiWeb(g, {x}, phi) :
             \A i \in DOMAIN g[n].ins : g[g[n].ins[i]].phi
====
