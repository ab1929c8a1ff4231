--------------------------- MODULE MCPassDriver ---------------------------
(* Loop trees for checking PassDriver: a function without loops, one loop, *)
(* two sibling loops, a nest of two, and a nest beside a sibling, with     *)
(* every combination of small or large, with or without a header, and      *)
(* accepted or not by determine_lin_unroll_info.                           *)
EXTENDS PassDriver, TLC

Lp(n, h, d, s) == [nodes |-> n, header |-> h, dli |-> d, sons |-> s]

\* the attributes of a loop: outs of its blocks (MaxSize = 3 makes 1 small
\* and 3 large), header, and determine_lin_unroll_info's result
Attrs == {[nodes |-> n, header |-> h, dli |-> d] :
            n \in {1, 3}, h \in BOOLEAN, d \in {{}, {"loop"}}}

WithSons(a, s) == [nodes |-> a.nodes, header |-> a.header, dli |-> a.dli,
                   sons |-> s]

RootOf(h, s) == Lp(1, h, {}, s)

MCTrees ==
    {"r" :> RootOf(h, <<>>) : h \in BOOLEAN} \cup
    {"r" :> RootOf(TRUE, <<"a">>) @@ "a" :> WithSons(x, <<>>) : x \in Attrs} \cup
    {"r" :> RootOf(TRUE, <<"a", "b">>) @@ "a" :> WithSons(x, <<>>)
        @@ "b" :> WithSons(y, <<>>) : x, y \in Attrs} \cup
    {"r" :> RootOf(TRUE, <<"a">>) @@ "a" :> WithSons(x, <<"b">>)
        @@ "b" :> WithSons(y, <<>>) : x, y \in Attrs} \cup
    {"r" :> RootOf(TRUE, <<"a", "b">>) @@ "a" :> WithSons(x, <<"c">>)
        @@ "b" :> WithSons(y, <<>>) @@ "c" :> WithSons(z, <<>>) :
        x, y, z \in Attrs}
====
