------------------------------ MODULE CountedLoop ------------------------------
(***************************************************************************)
(* What a loop promises before any unrolling: the header tests Cond, the   *)
(* body runs once and the increment is applied, until Cond fails and       *)
(* control leaves the loop.  parity flips on every body execution, so that *)
(* a body run that leaves i unchanged is still a visible step.             *)
(***************************************************************************)
EXTENDS LoopShape

CONSTANT Loops      \* the loops (records of LoopShape) considered

VARIABLES
    loop,    \* the loop being executed
    i,       \* value of the header Phi
    st,      \* "run" while in the loop, "exit" once it has been left
    parity   \* number of body executions modulo 2

vars == <<loop, i, st, parity>>

Init ==
    /\ loop \in Loops
    /\ i = loop.init
    /\ st = "run"
    /\ parity = 0

Iterate ==
    /\ st = "run"
    /\ Cond(loop, i)
    /\ i' = Step(loop, i)
    /\ parity' = 1 - parity
    /\ UNCHANGED <<loop, st>>

Exit ==
    /\ st = "run"
    /\ ~Cond(loop, i)
    /\ st' = "exit"
    /\ UNCHANGED <<loop, i, parity>>

Next == Iterate \/ Exit

Spec == Init /\ [][Next]_vars

\* A running loop keeps running: the header is evaluated again and again
\* until the loop is left.
Fairness == WF_vars(Next)
================================================================================
