----------------------------- MODULE ValidBase -----------------------------
(***************************************************************************)
(* is_valid_base and the store collection it relies on, from               *)
(* src/ir/opt/loop_unrolling.c: get_all_stores, check_for_store_,          *)
(* walk_call_for_aliases, is_aliased, and is_valid_base_ with its          *)
(* visited_base stack.                                                     *)
(*                                                                         *)
(* A graph is a function from its nodes to records with the fields:       *)
(*   kind     "Const", "Arg" (a parameter), "Addr" (a global's address),   *)
(*            "Proj", "Load", "Store", "Call", "Phi", "Conv" or "Add"      *)
(*   ins      the inputs in order: a Proj's pred, a Load's or Store's      *)
(*            address, a Call's parameters, a Phi's preds, a Conv's op     *)
(*   inLoop   block_is_inside_loop(get_block(node), loop) for the          *)
(*            innermost loop being unrolled                                *)
(*   loc      the alias class of an address (Arg, Addr): two addresses     *)
(*            may alias exactly when their classes are equal               *)
(*   fn       the entity a Call calls (the alias class of get_Call_ptr)    *)
(*   pure     the callee has mtp_property_pure                             *)
(*   hasGraph get_entity_linktime_irg of the callee is not NULL            *)
(*   writes   the classes the callee, and what it calls, stores to         *)
(*   reads    the classes the callee reads                                 *)
(***************************************************************************)
EXTENDS Integers, Sequences, FiniteSets

NoLoc == "NoLoc"

LoopNodes(g, k) == {n \in DOMAIN g : g[n].kind = k /\ g[n].inLoop}
Pre(g, n) == g[n].ins[1]
IsProjOf(g, n, k) == g[n].kind = "Proj" /\ g[Pre(g, n)].kind = k

\* walk_call_for_aliases on a call without a graph: each parameter that is
\* the result of a Load adds the Load's address, the result of a Call adds
\* that Call's address
ParamLoc(g, p) ==
    IF IsProjOf(g, p, "Load") THEN g[Pre(g, Pre(g, p))].loc
    ELSE IF IsProjOf(g, p, "Proj") /\ g[Pre(g, Pre(g, p))].kind = "Call"
         THEN g[Pre(g, Pre(g, p))].fn
    ELSE NoLoc

\* walk_call_for_aliases: the stores of the callee's graph and, through the
\* visited set, of everything it calls; else the parameters' addresses
CallCandidates(g, c) ==
    IF g[c].hasGraph THEN g[c].writes
    ELSE {ParamLoc(g, g[c].ins[i]) : i \in DOMAIN g[c].ins} \ {NoLoc}

\* get_all_stores(loop) on an innermost loop: check_for_store_ on every
\* node of the loop's blocks; alias_candidates starts empty
AliasCandidates(g) ==
    {g[Pre(g, s)].loc : s \in LoopNodes(g, "Store")} \cup
    UNION {CallCandidates(g, c) : c \in LoopNodes(g, "Call")}

\* is_aliased: the address a Load reads, or the address of a Call, may
\* alias an address in alias_candidates
IsAliased(g, cands, n) ==
    CASE g[n].kind = "Load" -> g[Pre(g, n)].loc \in cands
      [] g[n].kind = "Call" -> g[n].fn \in cands
      [] OTHER              -> FALSE

RECURSIVE VB(_, _, _, _), AllVB(_, _, _, _, _)

\* the recursive calls over a sequence of nodes, stopping at the first
\* that is no valid base; visited_base is shared by all of them
AllVB(g, cands, ns, i, vis) ==
    IF i > Len(ns) THEN [ok |-> TRUE, vis |-> vis]
    ELSE LET r == VB(g, cands, ns[i], vis)
         IN IF r.ok THEN AllVB(g, cands, ns, i + 1, r.vis) ELSE r

\* the result of a Call, through two Projs
CallBase(g, cands, c, vis) ==
    IF g[c].kind # "Call" THEN [ok |-> FALSE, vis |-> vis]
    ELSE IF ~g[c].inLoop THEN [ok |-> TRUE, vis |-> vis]
    ELSE IF ~g[c].pure THEN [ok |-> FALSE, vis |-> vis]
    ELSE LET r == AllVB(g, cands, g[c].ins, 1, vis)
         IN [ok |-> r.ok /\ ~IsAliased(g, cands, c), vis |-> r.vis]

\* the result of a Load: its address, when that is a Proj, must be a
\* valid base, and the Load must not alias a store
LoadBase(g, cands, l, vis) ==
    IF g[Pre(g, l)].kind = "Proj"
    THEN LET r == VB(g, cands, Pre(g, l), vis)
         IN [ok |-> r.ok /\ ~IsAliased(g, cands, l), vis |-> r.vis]
    ELSE [ok |-> ~IsAliased(g, cands, l), vis |-> vis]

\* a Phi: every pred a valid base, at most one of them inside the loop
PhiBase(g, cands, n, vis) ==
    LET r == AllVB(g, cands, g[n].ins, 1, vis)
        inLoop == {i \in DOMAIN g[n].ins : g[g[n].ins[i]].inLoop}
    IN [ok |-> r.ok /\ Cardinality(inLoop) <= 1, vis |-> r.vis]

\* is_valid_base_(node, loop) with visited_base as vis: a node already on
\* the stack is no valid base; the node stays on the stack afterwards
VB(g, cands, n, vis) ==
    IF n \in vis THEN [ok |-> FALSE, vis |-> vis]
    ELSE LET v == vis \cup {n}
         IN CASE g[n].kind = "Const"        -> [ok |-> TRUE, vis |-> v]
              [] ~g[n].inLoop               -> [ok |-> TRUE, vis |-> v]
              [] IsProjOf(g, n, "Proj")     ->
                    CallBase(g, cands, Pre(g, Pre(g, n)), v)
              [] IsProjOf(g, n, "Load")     -> LoadBase(g, cands, Pre(g, n), v)
              [] g[n].kind = "Phi"          -> PhiBase(g, cands, n, v)
              [] g[n].kind = "Conv"         -> VB(g, cands, Pre(g, n), v)
              [] OTHER                      -> [ok |-> FALSE, vis |-> v]

\* is_valid_base(node, loop): an empty visited_base, after get_all_stores
IsValidBase(g, n) == VB(g, AliasCandidates(g), n, {}).ok

-----------------------------------------------------------------------------
(* The spec's valid base (section 4.4): a value that is the same in every  *)
(* iteration of the loop, with aliasing cleared against every store the    *)
(* loop reaches, through any call.                                         *)

\* the classes the loop really stores to
Written(g) ==
    {g[Pre(g, s)].loc : s \in LoopNodes(g, "Store")} \cup
    UNION {g[c].writes : c \in LoopNodes(g, "Call")}

\* the loop-invariant values; a Phi inside the loop merges the values of
\* different paths or iterations, and is invariant only when all of its
\* preds are one invariant node
RECURSIVE Invariant(_, _)
Invariant(g, n) ==
    LET ins == {g[n].ins[i] : i \in DOMAIN g[n].ins}
    IN CASE g[n].kind = "Const" \/ ~g[n].inLoop -> TRUE
         [] g[n].kind = "Load"  -> g[Pre(g, n)].loc \notin Written(g)
                                   /\ Invariant(g, Pre(g, n))
         [] g[n].kind = "Call"  -> g[n].pure /\ g[n].reads \cap Written(g) = {}
                                   /\ \A m \in ins : Invariant(g, m)
         [] g[n].kind = "Phi"   -> Cardinality(ins) = 1
                                   /\ \A m \in ins : Invariant(g, m)
         [] g[n].kind \in {"Proj", "Conv", "Add"} ->
                                   \A m \in ins : Invariant(g, m)
         [] OTHER -> FALSE
====
