--------------------------- MODULE MCRecogniser ---------------------------
(* The header compares for checking Recogniser with TLC. *)
EXTENDS Recogniser, TLC

\* Non-binop preds: a value outside the loop is always a valid base
\* (is_valid_base_ returns true for a node outside the loop).
ValuePreds ==
    {[binop |-> FALSE, op |-> "OTHER", hasPhi |-> FALSE, web |-> NoWeb, other |-> "none",
      inLoop |-> il, base |-> b] : il \in BOOLEAN, b \in BOOLEAN} \
    {[binop |-> FALSE, op |-> "OTHER", hasPhi |-> FALSE, web |-> NoWeb, other |-> "none",
      inLoop |-> FALSE, base |-> FALSE]}

\* Binop preds. Only a node inside the loop can use the header Phi, and a
\* binop is a valid base exactly when it is outside the loop. Sub behaves
\* as Add in the recogniser and is left out.
BinopPreds ==
    {[binop |-> TRUE, op |-> o, hasPhi |-> hp, web |-> NoWeb, other |-> ot,
      inLoop |-> il, base |-> ~il] :
        o \in {"ADD", "MUL", "OTHER"}, hp \in BOOLEAN,
        ot \in {"const", "base", "none"}, il \in BOOLEAN} \
    {[binop |-> TRUE, op |-> o, hasPhi |-> TRUE, web |-> NoWeb, other |-> ot,
      inLoop |-> FALSE, base |-> TRUE] :
        o \in {"ADD", "MUL", "OTHER"}, ot \in {"const", "base", "none"}}

AllPreds == ValuePreds \cup BinopPreds

\* a few preds that make every outcome of check_phi: an entry value, an
\* entry Add, an Add and a Mul increment, a non-base value in the loop
SmallPreds ==
    {[binop |-> FALSE, op |-> "OTHER", hasPhi |-> FALSE, web |-> NoWeb, other |-> "none",
      inLoop |-> FALSE, base |-> TRUE],
     [binop |-> TRUE, op |-> "ADD", hasPhi |-> FALSE, web |-> NoWeb, other |-> "base",
      inLoop |-> FALSE, base |-> TRUE],
     [binop |-> TRUE, op |-> "ADD", hasPhi |-> TRUE, web |-> NoWeb, other |-> "const",
      inLoop |-> TRUE, base |-> FALSE],
     [binop |-> TRUE, op |-> "MUL", hasPhi |-> TRUE, web |-> NoWeb, other |-> "const",
      inLoop |-> TRUE, base |-> FALSE],
     [binop |-> FALSE, op |-> "OTHER", hasPhi |-> FALSE, web |-> NoWeb, other |-> "none",
      inLoop |-> TRUE, base |-> FALSE]}

\* is_valid_base of a Phi in the header: every pred a valid base, at most
\* one of them inside the loop
PhiOperand(ps, im) ==
    [isPhi |-> TRUE, intMode |-> im, preds |-> ps,
     base |-> (\A j \in DOMAIN ps : ps[j].base)
              /\ Cardinality({j \in DOMAIN ps : ps[j].inLoop}) <= 1]

Phis ==
    {PhiOperand(<<a, b>>, im) : a, b \in AllPreds, im \in BOOLEAN} \cup
    {PhiOperand(<<a, b, c>>, TRUE) : a, b, c \in SmallPreds} \cup
    {PhiOperand(<<a>>, TRUE) : a \in SmallPreds}

SmallPhis == {PhiOperand(<<a, b>>, TRUE) : a, b \in SmallPreds}

\* the value the loop is entered with
EntryPred == [binop |-> FALSE, op |-> "OTHER", hasPhi |-> FALSE, web |-> NoWeb,
              other |-> "none", inLoop |-> FALSE, base |-> TRUE]

\* nodes of the Phi webs: a Phi, and a value inside or outside the loop
Ph(ins) == [phi |-> TRUE, ins |-> ins, inLoop |-> TRUE]
Val(il) == [phi |-> FALSE, ins |-> <<>>, inLoop |-> il]

\* the loop's Phi h = Phi(init, incr) and its increment incr = x + c
Around(x) == "h" :> Ph(<<"init", "incr">>) @@ "init" :> Val(FALSE)
    @@ "incr" :> [phi |-> FALSE, ins |-> <<x, "c">>, inLoop |-> TRUE]
    @@ "c" :> Val(FALSE) @@ "v" :> Val(TRUE)

\* the increment's operand x: h itself, or Phis of the branches of the
\* body (for (...; i++) { if (a) {} else if (b) {} else i = v; } gives
\* p = Phi(h, r), r = Phi(h, v))
MCPhiWebs ==
    "direct" :> Around("h")
 @@ "single" :> ("p" :> Ph(<<"h">>) @@ Around("p"))
 @@ "merge" :> ("p" :> Ph(<<"h", "p">>) @@ Around("p"))
 @@ "join" :> ("p" :> Ph(<<"h", "v">>) @@ Around("p"))
 @@ "branch" :> ("p" :> Ph(<<"h", "r">>) @@ "r" :> Ph(<<"h", "v">>) @@ Around("p"))
 @@ "branch_rev" :> ("p" :> Ph(<<"h", "r">>) @@ "r" :> Ph(<<"v", "h">>)
                    @@ Around("p"))
 @@ "branch_same" :> ("p" :> Ph(<<"h", "r">>) @@ "r" :> Ph(<<"h", "h">>)
                     @@ Around("p"))

\* an Add increment x + c for each web
WebPreds == {[binop |-> TRUE, op |-> "ADD", hasPhi |-> FALSE, web |-> w,
              other |-> "const", inLoop |-> TRUE, base |-> FALSE] :
                w \in DOMAIN MCPhiWebs}

WebPhis == {PhiOperand(<<EntryPred, w>>, TRUE) : w \in WebPreds} \cup
           {PhiOperand(<<w, EntryPred>>, TRUE) : w \in WebPreds}

\* nodes of the bound graphs: a plain node, an address of alias class l
\* outside the loop, and a call to fn
Nd(k, ins, il) ==
    [kind |-> k, ins |-> ins, inLoop |-> il, loc |-> NoLoc, fn |-> NoLoc,
     pure |-> FALSE, hasGraph |-> FALSE, writes |-> {}, reads |-> {}]
Ad(l) == [Nd("Addr", <<>>, FALSE) EXCEPT !.loc = l]
Cl(f, ps, pure, hg, w, r) ==
    [Nd("Call", ps, TRUE) EXCEPT !.fn = f, !.pure = pure, !.hasGraph = hg,
                                 !.writes = w, !.reads = r]

\* the bound N is Proj(Load(a)) of global A, in the loop
LoadA == "N" :> Nd("Proj", <<"L">>, TRUE) @@ "L" :> Nd("Load", <<"a">>, TRUE)
         @@ "a" :> Ad("A")
StoreTo(l) == "S" :> Nd("Store", <<"s">>, TRUE) @@ "s" :> Ad(l)
PtrLoad == "N" :> Nd("Proj", <<"L">>, TRUE) @@ "L" :> Nd("Load", <<"q">>, TRUE)
           @@ "q" :> Nd("Proj", <<"K">>, TRUE) @@ "K" :> Nd("Load", <<"p">>, TRUE)
           @@ "p" :> Ad("P")

\* the loops' graphs by name, each with the stores and calls of its loop
MCLoopGraphs ==
    "const" :> ("N" :> Nd("Const", <<>>, FALSE))
 @@ "arg" :> ("N" :> Nd("Arg", <<>>, FALSE))
 @@ "add" :> ("N" :> Nd("Add", <<"x", "y">>, TRUE)
             @@ "x" :> Nd("Arg", <<>>, FALSE) @@ "y" :> Nd("Const", <<>>, FALSE))
 @@ "loadA" :> LoadA
 @@ "loadA_storeA" :> (LoadA @@ StoreTo("A"))
 @@ "loadA_storeB" :> (LoadA @@ StoreTo("B"))
    \* an external call: no graph, no parameters, writes A
 @@ "loadA_ext" :> (LoadA @@ "C" :> Cl("ext", <<>>, FALSE, FALSE, {"A"}, {"A"}))
    \* a call with a graph that writes A
 @@ "loadA_f" :> (LoadA @@ "C" :> Cl("f", <<>>, FALSE, TRUE, {"A"}, {"A"}))
    \* an external call that is passed the value of A
 @@ "loadA_extN" :>
        (LoadA @@ "C" :> Cl("ext", <<"N">>, FALSE, FALSE, {"A"}, {"A"}))
    \* Conv of the load, with a store to A
 @@ "conv_storeA" :>
        ("N" :> Nd("Conv", <<"M">>, TRUE) @@ "M" :> Nd("Proj", <<"L">>, TRUE)
         @@ "L" :> Nd("Load", <<"a">>, TRUE) @@ "a" :> Ad("A") @@ StoreTo("A"))
    \* a load through a pointer loaded from P, without and with a store to P
 @@ "ptr" :> PtrLoad
 @@ "ptr_storeP" :> (PtrLoad @@ StoreTo("P"))
    \* a pure call on a parameter pointing to A, which it reads; the loop
    \* stores to A
 @@ "len_storeA" :>
        ("N" :> Nd("Proj", <<"R">>, TRUE) @@ "R" :> Nd("Proj", <<"F">>, TRUE)
         @@ "F" :> Cl("len", <<"x">>, TRUE, TRUE, {}, {"A"})
         @@ "x" :> Ad("A") @@ StoreTo("A"))
    \* a pure call f(v, v) of the loaded value v
 @@ "fvv" :>
        ("N" :> Nd("Proj", <<"R">>, TRUE) @@ "R" :> Nd("Proj", <<"F">>, TRUE)
         @@ "F" :> Cl("f", <<"v", "v">>, TRUE, TRUE, {}, {})
         @@ "v" :> Nd("Proj", <<"L">>, TRUE) @@ "L" :> Nd("Load", <<"a">>, TRUE)
         @@ "a" :> Ad("A"))
    \* an impure call
 @@ "impure" :>
        ("N" :> Nd("Proj", <<"R">>, TRUE) @@ "R" :> Nd("Proj", <<"F">>, TRUE)
         @@ "F" :> Cl("g", <<>>, FALSE, TRUE, {}, {}))
    \* a Phi in the loop of two constants (n = 10 before the loop, n = 3
    \* in its body)
 @@ "phi" :>
        ("N" :> Nd("Phi", <<"c1", "c2">>, TRUE)
         @@ "c1" :> Nd("Const", <<>>, FALSE) @@ "c2" :> Nd("Const", <<>>, FALSE))

\* control-flow graphs of a loop L, inside the root loop R or inside a loop
\* O, entered from the start block s and leaving to x, which returns (e is
\* the End block). cond: the blocks ending in a Cond on a Cmp.
Cfg(succs, cond, inL, inO, elems, cmps) ==
    [blocks |-> DOMAIN succs, entry |-> "s", succs |-> succs,
     condCmp |-> [b \in DOMAIN succs |-> b \in cond],
     loopOf |-> [b \in DOMAIN succs |-> IF b \in inL THEN "L"
                                        ELSE IF b \in inO THEN "O" ELSE "R"],
     outer |-> ("L" :> "R" @@ "O" :> "R" @@ "R" :> "R"),
     loop |-> "L", elems |-> elems, cmps |-> cmps]
\* a Cmp with <, <=, > or >=, and a Cmp with ==
Good(sel) == [good |-> TRUE, selects |-> sel]
Eq == [good |-> FALSE, selects |-> FALSE]
ExitEnd == "x" :> <<"e">> @@ "e" :> <<>>
Plain(hs, bs) == "s" :> <<"h">> @@ "h" :> hs @@ "b" :> bs @@ ExitEnd
\* the loop while (i < n) { body } (single), the same with the body first in
\* the loop's elements, a break in the body, an if in the header whose
\* branch goes back to it, the exit test at the bottom, a one-block loop,
\* a loop entered at two blocks, a loop nested in O, and a header whose
\* first Cmp is a Mux's (not the Cond's selector) or an ==
MCLoopCfgs ==
    "single" :> Cfg(Plain(<<"b", "x">>, <<"h">>), {"h"}, {"h", "b"}, {}, <<"h", "b">>, <<Good(TRUE)>>)
 @@ "body_first" :> Cfg(Plain(<<"b", "x">>, <<"h">>), {"h"}, {"h", "b"}, {}, <<"b", "h">>, <<Good(TRUE)>>)
 @@ "two_exits" :> Cfg(Plain(<<"b", "x">>, <<"h", "x">>), {"h", "b"}, {"h", "b"}, {}, <<"h", "b">>, <<Good(TRUE)>>)
 @@ "self_pred" :> Cfg(Plain(<<"h", "b">>, <<"h", "x">>), {"h", "b"}, {"h", "b"}, {}, <<"h", "b">>, <<Good(TRUE)>>)
 @@ "do_while" :> Cfg(Plain(<<"b">>, <<"h", "x">>), {"b"}, {"h", "b"}, {}, <<"h", "b">>, <<Good(TRUE)>>)
 @@ "one_block" :> Cfg("s" :> <<"h">> @@ "h" :> <<"h", "x">> @@ ExitEnd, {"h"}, {"h"}, {}, <<"h">>, <<Good(TRUE)>>)
 @@ "irreducible" :> Cfg("s" :> <<"h", "b">> @@ "h" :> <<"b", "x">> @@ "b" :> <<"h">> @@ ExitEnd, {"s", "h"}, {"h", "b"}, {}, <<"h", "b">>, <<Good(TRUE)>>)
 @@ "nested" :> Cfg("s" :> <<"o">> @@ "o" :> <<"h">> @@ "h" :> <<"b", "p">> @@ "b" :> <<"h">> @@ "p" :> <<"o", "x">> @@ ExitEnd, {"h", "p"}, {"h", "b"}, {"o", "p"}, <<"h", "b">>, <<Good(TRUE)>>)
 @@ "mux_first" :> Cfg(Plain(<<"b", "x">>, <<"h">>), {"h"}, {"h", "b"}, {}, <<"h", "b">>, <<Good(FALSE), Good(TRUE)>>)
 @@ "eq_first" :> Cfg(Plain(<<"b", "x">>, <<"h">>), {"h"}, {"h", "b"}, {}, <<"h", "b">>, <<Eq, Good(TRUE)>>)
BoundOperand == [isPhi |-> FALSE, intMode |-> TRUE, preds |-> <<>>,
                 base |-> FALSE, node |-> "N"]

\* a valid (constant) and an invalid bound for the headers with many Phis
SimpleLoops == {"const", "add"}

Header(l, r, c, g) == [left |-> l, right |-> r, cfg |-> c, loop |-> g]

\* the headers with the bound graphs only
BoundHeaders ==
    {Header(p, BoundOperand, "single", g) :
        p \in SmallPhis, g \in DOMAIN MCLoopGraphs} \cup
    {Header(BoundOperand, p, "single", g) :
        p \in SmallPhis, g \in DOMAIN MCLoopGraphs}

MCHeaders ==
    {Header(p, BoundOperand, c, g) :
        p \in Phis, c \in {"single", "two_exits"}, g \in SimpleLoops} \cup
    {Header(BoundOperand, p, c, g) :
        p \in Phis, c \in {"single", "two_exits"}, g \in SimpleLoops} \cup
    BoundHeaders \cup
    {Header(p, BoundOperand, "single", "const") : p \in WebPhis} \cup
    {Header(p, q, "single", g) : p, q \in SmallPhis, g \in SimpleLoops} \cup
    {Header(BoundOperand, BoundOperand, "single", g) : g \in SimpleLoops} \cup
    {Header(p, BoundOperand, c, g) :
        p \in SmallPhis, c \in DOMAIN MCLoopCfgs, g \in SimpleLoops}
====
