---------------------------- MODULE MCBeVerify ----------------------------
(* Blocks for checking BeVerify with TLC: a few schedules, every register   *)
(* assignment of their values, and liveness computed from the schedule.    *)
EXTENDS BeVerify, TLC

\* an ordinary node of this block, schedulable, timestep set by Timed
N(d, us, ph) == [def |-> d, uses |-> us, phi |-> ph, cf |-> FALSE, keep |-> FALSE,
                 copyKeep |-> FALSE, notSched |-> FALSE, home |-> TRUE,
                 dead |-> FALSE, t |-> 0]
Cf(us)   == [N(NoVal, us, FALSE) EXCEPT !.cf = TRUE]
Keep(us) == [N(NoVal, us, FALSE) EXCEPT !.keep = TRUE]

\* the timesteps besched gives a schedule: increasing with the position
Timed(s) == [p \in DOMAIN s |-> [s[p] EXCEPT !.t = p]]

\* The schedules: a use of two values; a live-through value, a dead
\* definition and an input used twice; a Phi of a value from another
\* block; two live-out values; a loop Phi fed by a value of this block.
RawPrograms ==
    { [sched |-> <<N("a", <<>>, FALSE), N("b", <<"a">>, FALSE),
                   N(NoVal, <<"a", "b">>, FALSE)>>, liveEnd |-> {}],
      [sched |-> <<N("b", <<"a">>, FALSE), N("c", <<>>, FALSE),
                   N(NoVal, <<"b", "b">>, FALSE)>>, liveEnd |-> {"a"}],
      [sched |-> <<N("a", <<"x">>, TRUE), N("b", <<"a">>, FALSE)>>,
       liveEnd |-> {"b"}],
      [sched |-> <<N("a", <<>>, FALSE), N("b", <<>>, FALSE)>>,
       liveEnd |-> {"a", "b"}],
      [sched |-> <<N("a", <<"b">>, TRUE), N("b", <<"a">>, FALSE)>>,
       liveEnd |-> {"b"}] }
Programs ==
    {[sched |-> Timed(P.sched), liveEnd |-> P.liveEnd, offSched |-> {}] : P \in RawPrograms}

\* A block with a Phi, two values, a Keep of the last one and a Cond on it,
\* with or without a further value y live through the block.
SchedBase(ys) ==
    [sched |-> Timed(<<N("a", <<"x">>, TRUE), N("b", <<"a">>, FALSE),
                       N("c", <<"a", "b">>, FALSE), Keep(<<"c">>), Cf(<<"c">>)>>),
     liveEnd |-> {"a", "b"} \cup ys, offSched |-> {}]

\* A block ending in a Cond whose Proj f a Keep, or a CopyKeep defining k,
\* takes after it (skip_Proj(f) is the Cond): only the Keep may follow the
\* control-flow node.
CfKeepBlock(ck) ==
    [sched |-> Timed(<<N("a", <<"x">>, TRUE), N("b", <<"a">>, FALSE),
                       N("c", <<"a", "b">>, FALSE),
                       [Cf(<<"c">>) EXCEPT !.def = "f"],
                       IF ck THEN [N("k", <<"f">>, FALSE) EXCEPT !.copyKeep = TRUE]
                       ELSE Keep(<<"f">>)>>),
     liveEnd |-> {"a", "b"} \cup (IF ck THEN {"k"} ELSE {}), offSched |-> {}]

\* Schedules be_verify_schedule must judge: every order of the nodes, with
\* timesteps by position or carried over from the legal order; a node of
\* another block, a node flagged not_scheduled, a dead node, a node left
\* out; and the legal order with y live through the block.
SchedPrograms ==
    LET B  == SchedBase({})
        D  == DOMAIN B.sched
        Re(f, timed) == [B EXCEPT !.sched =
                            [p \in D |-> [B.sched[f[p]] EXCEPT !.t = IF timed THEN p ELSE f[p]]]]
        Flag(p, fld) == [B EXCEPT !.sched[p][fld] = TRUE]
    IN {Re(f, tm) : f \in Permutations(D), tm \in BOOLEAN}
       \cup {[B EXCEPT !.sched[2].home = FALSE], SchedBase({"y"})}
       \cup {Flag(p, "notSched") : p \in {1, 4}} \cup {Flag(3, "dead")}
       \cup {[B EXCEPT !.offSched = {[def |-> "z", notSched |-> ns]}] : ns \in BOOLEAN}
       \cup {CfKeepBlock(ck) : ck \in BOOLEAN}

ValsOf(P) ==
    P.liveEnd \cup UNION {({P.sched[p].def} \ {NoVal}) \cup Range(P.sched[p].uses) :
                          p \in DOMAIN P.sched}

\* be_lv's live-in set: live-out backwards through the schedule
RECURSIVE LiveBefore(_, _)
LiveBefore(P, p) ==
    IF p > Len(P.sched) THEN P.liveEnd
    ELSE LET n == P.sched[p]
         IN (LiveBefore(P, p + 1) \ {n.def}) \cup (IF n.phi THEN {} ELSE Range(n.uses))

\* a value defined here has users when it is used here or live out; a
\* value from another block is used somewhere
EdgesOf(P, v) ==
    \/ v \in P.liveEnd
    \/ \E p \in DOMAIN P.sched : v \in Range(P.sched[p].uses)
    \/ \A p \in DOMAIN P.sched : P.sched[p].def # v

\* Every assignment of a register of the class (or none), a width and an
\* alignment requirement (only for a value wider than one register) whose
\* registers lie in the register file.
BlocksOf(P, Widths) ==
    {b \in [sched: {P.sched}, liveEnd: {P.liveEnd}, liveIn: {LiveBefore(P, 1)},
            offSched: {P.offSched}, mem: {<<>>},
            reg: [ValsOf(P) -> {NoReg} \cup 0..(ClassRegs - 1)],
            width: [ValsOf(P) -> Widths], aligned: [ValsOf(P) -> BOOLEAN],
            edges: {[v \in ValsOf(P) |-> EdgesOf(P, v)]}] :
        \A v \in ValsOf(P) :
            /\ b.reg[v] = NoReg \/ b.reg[v] + b.width[v] <= NRegs
            /\ b.aligned[v] => b.width[v] > 1}

\* one- and two-register values; a two-register value has users
PassBlocks ==
    {b \in UNION {BlocksOf(P, {1, 2}) : P \in Programs} :
        \A v \in DOMAIN b.width : b.width[v] = 2 => b.edges[v]}
\* the schedules with one register each, the Phi's in its input's, y
\* sharing b's, and the Cond's Proj and the CopyKeep c's
SchedBlocks ==
    LET R == [a |-> 0, x |-> 0, b |-> 1, c |-> 2, y |-> 1, f |-> 2, k |-> 2]
    IN {[sched |-> P.sched, liveEnd |-> P.liveEnd, liveIn |-> LiveBefore(P, 1),
         offSched |-> P.offSched, mem |-> <<>>, reg |-> [v \in ValsOf(P) |-> R[v]],
         width |-> [v \in ValsOf(P) |-> 1], aligned |-> [v \in ValsOf(P) |-> FALSE],
         edges |-> [v \in ValsOf(P) |-> EdgesOf(P, v)]] : P \in SchedPrograms}

\* memory nodes: spills, reloads, a MemPerm and its Projs
Ents == {"E1", "E2"}
Mem(k, p, e, i, ie, oe, n) ==
    [kind |-> k, pos |-> p, ent |-> e, in |-> i, inEnt |-> ie, outEnt |-> oe, num |-> n]
Sp(p, e)     == Mem("spill", p, e, <<>>, <<>>, <<>>, 0)
Rl(p, e, i)  == Mem("reload", p, e, i, <<>>, <<>>, 0)
Perm(p, ies, oes) == Mem("perm", p, NoEnt, <<"s1", "s2">>, ies, oes, 0)
Pj(p, k)     == Mem("proj", p, NoEnt, <<"m">>, <<>>, <<>>, k)
\* the schedule orders of s1, s2, r1, r2 with each spill before its reload
SpillOrders ==
    {o \in [{"s1", "s2", "r1", "r2"} -> 1..4] :
        Cardinality({o[x] : x \in DOMAIN o}) = 4 /\ o.s1 < o.r1 /\ o.s2 < o.r2}
\* two spills and their reloads in every order and every entity; a reload
\* without a memory input
TwoSpills ==
    {("s1" :> Sp(o.s1, e1) @@ "s2" :> Sp(o.s2, e2) @@
      "r1" :> Rl(o.r1, f1, <<"s1">>) @@ "r2" :> Rl(o.r2, f2, <<"s2">>)) :
        o \in SpillOrders, e1, e2, f1, f2 \in Ents}
    \cup {"s1" :> Sp(1, "E1") @@ "r1" :> Rl(2, "E1", <<>>)}
\* a MemPerm moving s1 and s2, read by r1 and r2 in either order, and one
\* more reader: of s1 after the MemPerm, or a second reader of its first
\* output
Extra == {<<>>} \cup {<<x, e>> : x \in {"s1", "p1"}, e \in Ents}
PermBlock(es, ies, oes, fs, q, x) ==
    "s1" :> Sp(1, es[1]) @@ "s2" :> Sp(2, es[2]) @@ "m" :> Perm(3, ies, oes) @@
    "p1" :> Pj(3, 1) @@ "p2" :> Pj(3, 2) @@
    "r1" :> Rl(4 + q, fs[1], <<"p1">>) @@ "r2" :> Rl(5 - q, fs[2], <<"p2">>) @@
    (IF x = <<>> THEN <<>> ELSE "r3" :> Rl(6, x[2], <<x[1]>>))
\* a MemPerm swaps spill slots during spill-slot coalescing (spec 4.5): its
\* outputs are the entities of its inputs, reordered
EntPerms == {<<"E1", "E2">>, <<"E2", "E1">>}
MemPerms ==
    {PermBlock(es, ies, oes, fs, q, x) :
        es, fs \in Ents \X Ents, ies, oes \in EntPerms, q \in {0, 1}, x \in Extra}
SpillBlocks ==
    {[sched |-> <<>>, liveEnd |-> {}, liveIn |-> {}, offSched |-> {}, mem |-> M,
      reg |-> <<>>, width |-> <<>>, aligned |-> <<>>, edges |-> <<>>] :
        M \in TwoSpills \cup MemPerms}
AllPassBlocks == PassBlocks \cup SchedBlocks \cup SpillBlocks
WideBlocks == UNION {BlocksOf(P, {1, 2}) : P \in Programs}
====
