------------------------------ MODULE VfDepth ------------------------------
(***************************************************************************)
(* The loop-depth analysis of PEG graphs, src/unnamed/part_002 (vf_depth.c)*)
(* vl_init drains a FIFO todo list; each entry is handed to               *)
(* vl_compute_depth, a post-order walk with visited marks that stops at    *)
(* Theta nodes and queues their next dependency.                          *)
(*                                                                         *)
(* A graph is a record: ret (the Return), kind (node -> "theta", "eta" or *)
(* "op"), deps (node -> the inputs in order; for a Theta <<init, next>>)   *)
(* and tdepth (get_Theta_depth of each Theta).                             *)
(***************************************************************************)
EXTENDS Integers, Sequences, FiniteSets, SequencesExt

CONSTANT Graphs

NoDepth == -1      \* no vl_node in the nodemap, or vl_init_node's -1

VARIABLES
    g,          \* the PEG graph
    visited,    \* the nodes with irn_visited set
    depth,      \* vl_node.depth of every node
    todo,       \* the plist todo
    stack,      \* the calls of vl_compute_depth in progress, innermost
                \* first: the node and the index of the next dep to walk
    failed      \* an assert of vl_compute_depth failed (assert(vl_dep),
                \* or a negative depth after an Eta)

vars == <<g, visited, depth, todo, stack, failed>>

Nodes == DOMAIN g.kind
IsTheta(n) == g.kind[n] = "theta"
ThetaNext(n) == g.deps[n][2]
DepSet(n) == {g.deps[n][i] : i \in DOMAIN g.deps[n]}

\* a Theta that walks its next dep as well, instead of queueing it only
WalkedBoth(n) == Len(g.deps[n])

\* the deps vl_compute_depth recurses into: a Theta's init only, every dep
\* of any other node
Walked(n) == IF IsTheta(n) THEN 1 ELSE Len(g.deps[n])

\* the head of vl_compute_depth: return on a visited node, else mark it
\* and start the call
Enter(n) ==
    IF n \in visited
    THEN UNCHANGED <<visited, stack>>
    ELSE /\ visited' = visited \cup {n}
         /\ stack' = <<[node |-> n, i |-> 1]>> \o stack

Init ==
    /\ g \in Graphs
    /\ visited = {}                        \* inc_irg_visited
    /\ depth = [n \in Nodes |-> NoDepth]   \* the empty nodemap
    /\ todo = <<g.ret>>
    /\ stack = <<>>
    /\ failed = FALSE

\* the loop of vl_init that keeps the first entry of todo
VlInitPopNoErase ==
    /\ stack = <<>> /\ todo # <<>>
    /\ Enter(Head(todo))
    /\ UNCHANGED <<g, depth, todo, failed>>

\* one iteration of the while loop of vl_init: take the first entry of
\* todo and call vl_compute_depth on it
VlInitPop ==
    /\ stack = <<>> /\ todo # <<>>
    /\ todo' = Tail(todo)
    /\ Enter(Head(todo))
    /\ UNCHANGED <<g, depth, failed>>

\* the recursive call of vl_compute_depth on the next dep
Descend ==
    /\ stack # <<>>
    /\ LET f == Head(stack)
           d == g.deps[f.node][f.i]
           rest == <<[f EXCEPT !.i = @ + 1]>> \o Tail(stack)
       IN /\ f.i <= Walked(f.node)
          /\ IF d \in visited
             THEN /\ stack' = rest /\ UNCHANGED visited
             ELSE /\ visited' = visited \cup {d}
                  /\ stack' = <<[node |-> d, i |-> 1]>> \o rest
    /\ UNCHANGED <<g, depth, todo, failed>>

\* a Theta whose init is done: queue its next, take the known depth
FinishTheta ==
    /\ stack # <<>>
    /\ LET n == Head(stack).node
       IN /\ IsTheta(n) /\ Head(stack).i > Walked(n)
          /\ todo' = Append(todo, ThetaNext(n))
          /\ depth' = [depth EXCEPT ![n] = g.tdepth[n]]
    /\ stack' = Tail(stack)
    /\ UNCHANGED <<g, visited, failed>>

\* any other node whose deps are done: the largest depth among them (0
\* when there are none), one less on an Eta; a dep without a vl_node
\* fails assert(vl_dep), a negative depth on an Eta the last assert
FinishOp ==
    /\ stack # <<>>
    /\ LET n  == Head(stack).node
           ds == {depth[m] : m \in DepSet(n)}
           d0 == IF ds = {} THEN 0 ELSE Max(ds)
           d  == IF g.kind[n] = "eta" THEN d0 - 1 ELSE d0
       IN /\ ~IsTheta(n) /\ Head(stack).i > Walked(n)
          /\ depth' = [depth EXCEPT ![n] = d]
          /\ failed' = (failed \/ NoDepth \in ds \/ d < 0)
    /\ stack' = Tail(stack)
    /\ UNCHANGED <<g, visited, todo>>

Next ==
    \/ VlInitPop
    \/ Descend
    \/ FinishTheta
    \/ FinishOp

\* vl_init runs its loop to the end: one thread, no waiting
Spec == Init /\ [][Next]_vars /\ WF_vars(Next)

-----------------------------------------------------------------------------
(* Properties *)

\* the depth of a node by definition: a Theta's recorded depth, else the
\* largest depth of its inputs, less one for an Eta
RECURSIVE RefDepth(_)
RefDepth(n) ==
    IF g.kind[n] = "theta" THEN g.tdepth[n]
    ELSE LET ds == {RefDepth(g.deps[n][i]) : i \in DOMAIN g.deps[n]}
             d0 == IF ds = {} THEN 0 ELSE Max(ds)
         IN IF g.kind[n] = "eta" THEN d0 - 1 ELSE d0

\* the nodes the Return depends on, a Theta's next included
RECURSIVE Closure(_)
Closure(S) ==
    LET S2 == S \cup UNION {DepSet(n) : n \in S}
    IN IF S2 = S THEN S ELSE Closure(S2)

Reachable == Closure({g.ret})

\* When vl_init's loop ends, no assert has failed and every node the Return
\* depends on has the depth of its definition. The queueing of a Theta's
\* next is what keeps vl_compute_depth from reading the depth of a node it
\* has marked visited but not finished.
DepthsCorrect ==
    todo = <<>> /\ stack = <<>> =>
        /\ ~failed
        /\ \A n \in Reachable : depth[n] = RefDepth(n)

\* vl_init's loop ends: each iteration erases the entry it takes, and a
\* Theta's next is queued only on the walk that marks the Theta visited.
Terminates == <>(todo = <<>> /\ stack = <<>>)
====
