----------------------------- MODULE MCIa32Finish ------------------------------
(***************************************************************************)
(* Instruction domains for Ia32Finish on W-bit values: every operand pair, *)
(* both incoming borrows of an Sbb, no flags users, one user of each       *)
(* condition code, two mixed pairs of users, and an Sbb user (with each    *)
(* code get_ia32_condcode may return for it) beside a user of `equal`.     *)
(***************************************************************************)
EXTENDS Ia32Finish

CC(base, neg) == [base |-> base, neg |-> neg, sbb |-> FALSE]
SbbUser(cc) == [base |-> cc.base, neg |-> cc.neg, sbb |-> TRUE]

UserSets ==
    {{}} \union {{CC(cc.base, cc.neg)} : cc \in CCs}
         \union {{CC("below", FALSE), CC("equal", FALSE)},
                 {CC("less", FALSE), CC("below", TRUE)}}
         \union {{SbbUser(cc), CC("equal", FALSE)} : cc \in CCs}

SubNodes ==
    [op: {"Sub"}, a: Ints, b: Ints, cin: {0}, users: UserSets, cnt: {0}]
        \union [op: {"Sbb"}, a: Ints, b: Ints, cin: {0, 1}, users: UserSets, cnt: {0}]

ShlDNodes ==
    [op: {"ShlD"}, a: Ints, b: Ints, cin: {0}, users: {{}}, cnt: 1..(W - 1)]

\* a Sub whose flags an Sbb reads as its borrow
HasSbbUser(n) == \E u \in n.users : u.sbb

\* Every node except a Sub rewritten to Neg + Add whose subtrahend is
\* MinInt or whose flags an Sbb reads.
PassNodes ==
    {n \in SubNodes \union ShlDNodes :
        ~(n.op = "Sub" /\ ~NeedsCarry(n) /\ (n.b = MinInt \/ HasSbbUser(n)))}

\* Sub nodes rewritten to Neg + Add, with every operand pair.
NegAddNodes == {n \in SubNodes : n.op = "Sub" /\ ~NeedsCarry(n)}
================================================================================
