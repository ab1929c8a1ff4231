----------------------------- MODULE MCVfDepth -----------------------------
(* PEG graphs for checking VfDepth with TLC: an outer loop T1 around an    *)
(* optional inner loop T2, with the choices below, and both orders of the  *)
(* inputs where the order decides which node vl_compute_depth meets first. *)
EXTENDS VfDepth, TLC

Pair(a, b, flip) == IF flip THEN <<b, a>> ELSE <<a, b>>

\* inner: an inner loop T2 (depth 2) inside T1 (depth 1)
\* i2init: the inner loop starts from c0 or from T1
\* x, y: the inner step and the inner exit test use c1 or T1
\* z: the outer step adds c1 or the inner loop's result E2
\* u: the outer exit test reads T1 directly or U, a use of T1's next N1
\* f1, f2, fe: the input orders of N1, N2 and E1
Graph(inner, i2init, x, y, z, u, f1, f2, fe) ==
    LET outer ==
          "ret" :> <<"E1">> @@
          "E1"  :> Pair("T1", "C1", fe) @@
          "C1"  :> (IF u THEN <<"U", "c1">> ELSE <<"T1", "c1">>) @@
          "T1"  :> <<"c0", "N1">> @@
          "N1"  :> Pair("T1", z, f1) @@
          "c0"  :> <<>> @@ "c1" :> <<>>
        extra == IF u THEN "U" :> <<"N1">> ELSE <<>>
        innerDeps ==
          IF inner
          THEN "E2" :> <<"T2", "C2">> @@ "C2" :> <<"T2", y>> @@
               "T2" :> <<i2init, "N2">> @@ "N2" :> Pair("T2", x, f2)
          ELSE <<>>
        deps == outer @@ extra @@ innerDeps
        kind == [n \in DOMAIN deps |->
                   IF n \in {"T1", "T2"} THEN "theta"
                   ELSE IF n \in {"E1", "E2"} THEN "eta" ELSE "op"]
    IN [ret |-> "ret", kind |-> kind, deps |-> deps,
        tdepth |-> [n \in DOMAIN deps |-> IF n = "T2" THEN 2 ELSE 1]]

MCGraphs ==
    {Graph(FALSE, "c0", "c1", "c1", "c1", u, f1, FALSE, fe) :
        u, f1, fe \in BOOLEAN} \cup
    {Graph(TRUE, i2, x, y, z, u, f1, f2, fe) :
        i2 \in {"c0", "T1"}, x, y \in {"c1", "T1"}, z \in {"c1", "E2"},
        u, f1, f2, fe \in BOOLEAN}
====
