--------------------------- MODULE MCMipsLowerAdd64 ----------------------------
(***************************************************************************)
(* A graph with shared operands and an Add of Adds, lowered in either     *)
(* order of s1 and s2:                                                     *)
(*   s1 = x + y,  s2 = y + x,  s3 = s1 + s2                                *)
(* over every pair of 3-bit-word double-word inputs.                       *)
(***************************************************************************)
EXTENDS MipsLowerAdd64

MCInputs == {"x", "y"}
MCAdds   == [s1 |-> <<"x", "y">>, s2 |-> <<"y", "x">>, s3 |-> <<"s1", "s2">>]
MCValues == 0..(2^(2 * W) - 1)
================================================================================
