----------------------------- MODULE MCDuffUnroll ------------------------------
(***************************************************************************)
(* Loop domains for checking DuffUnroll.  Values are W-bit signed; the     *)
(* domains are chosen so that the cases the unroller distinguishes all     *)
(* occur: both Cmp sides, all four relations, increments of both signs,    *)
(* remainders 0..Factor-1, loops that run zero times, and both fix-ups.    *)
(***************************************************************************)
EXTENDS DuffUnroll

\* The signed step of i per iteration of a linear loop.
Delta(l) == IF l.shape = "add" THEN l.c ELSE -l.c

\* The increment moves i towards the bound, so the loop ends without the
\* induction variable wrapping around.
MovesTowardBound(l) == IF IsLess(l) THEN Delta(l) > 0 ELSE Delta(l) < 0

\* Linear loops over small non-negative bounds, away from the ends of the
\* W-bit range (W = 6: -32..31, new bounds stay within -9..21).
PassLoops ==
    {l \in LoopRecords(-4..12, 0..12, -3..3, {TRUE}) :
        l.shape \in {"add", "sub"} /\ MovesTowardBound(l)}

\* Loops doubling a positive i up to the bound (i < N, i <= N, N > i,
\* N >= i).  c = 2 keeps factor^c = 16 within W = 6 bits.
MulLoops ==
    {l \in LoopRecords(1..6, 0..31, {2}, {TRUE}) : l.shape = "mul" /\ IsLess(l)}

\* Linear loops as in PassLoops, but with a negative bound N.
NegBoundLoops ==
    {l \in LoopRecords(-16..0, -12..-1, -3..3, {TRUE}) :
        l.shape \in {"add", "sub"} /\ MovesTowardBound(l)}

\* Loops whose increment is Sub(c, i), which is_valid_incr accepts with
\* op SUB.
RSubLoops ==
    {l \in LoopRecords(-4..12, 0..12, -3..3, {TRUE}) : l.shape = "rsub"}

\* Linear loops that leave on the true Proj of the header Cond, and whose
\* increment moves i towards the bound of the negated compare:
\* for (i = init; ; i += c) { if (i >= N) break; ... }.
ExitOnTrueLoops ==
    {l \in LoopRecords(-4..12, 0..12, -3..3, {FALSE}) :
        l.shape \in {"add", "sub"} /\ IF IsLess(l) THEN Delta(l) < 0
                                               ELSE Delta(l) > 0}

\* The kinds of loop the unroller accepts and transforms wrongly: i *= 2,
\* a negative bound, the increment Sub(c, i), and a loop that leaves when
\* the compare holds.
WrongLoops == MulLoops \cup NegBoundLoops \cup RSubLoops \cup ExitOnTrueLoops
================================================================================
