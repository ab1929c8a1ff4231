------------------------------ MODULE Ia32Finish -------------------------------
(***************************************************************************)
(* The two-address fix-ups of src/ir/be/ia32/ia32_finish.c, run after      *)
(* register allocation when the output register of a node is the register *)
(* of its second input.  ia32_handle_2addr rewrites                        *)
(*  - Sub into Neg + Add, or Not + Stc + Adc (+ Cmc) when a user of the    *)
(*    flags reads the carry (ia32_transform_sub_to_neg_add);               *)
(*  - Sbb into Not + Cmc + Adc (+ Cmc);                                    *)
(*  - ShlD into ShrD with count 32 - c (ia32_transform_ShlD_to_ShrD_imm).  *)
(* The module emits the replacement sequence and executes it on a W-bit   *)
(* register and the CF/OF/SF/ZF flags, then compares with what the        *)
(* original instruction computes.                                          *)
(***************************************************************************)
EXTENDS TarvalArith, Sequences, SequencesExt

CONSTANT Nodes   \* the instructions to finish, records described below

(* A node is [op, a, b, cin, users, cnt]:                                  *)
(*   op     "Sub", "Sbb" or "ShlD"                                          *)
(*   a      value of the first input (in1; val_high for ShlD)              *)
(*   b      value of the second input, held in the output register        *)
(*          (in2; val_low for ShlD)                                        *)
(*   cin    incoming carry (borrow) of an Sbb, 0 otherwise                 *)
(*   users  the users of the flags Proj ({} when the node has none): the  *)
(*          condition code get_ia32_condcode returns for each, and whether *)
(*          it is an Sbb that takes the flags as its borrow (the high word *)
(*          of a lowered 64-bit Sub). An Sbb has no condition code         *)
(*          attribute, so the code read for it is whatever that memory     *)
(*          holds: any code.                                               *)
(*   cnt    immediate count of a ShlD                                      *)

\* x86 condition codes: a base test and the negated bit.
CCBases == {"below", "below_equal", "equal", "less", "less_equal", "sign", "overflow"}
CCs     == [base: CCBases, neg: BOOLEAN]
Users   == [base: CCBases, neg: BOOLEAN, sbb: BOOLEAN]

MaxCode == 4   \* longest replacement sequence

VARIABLES
    node,    \* the node being finished
    code,    \* replacement instructions not yet executed
    reg,     \* value of the output register
    flags,   \* EFLAGS: [cf, of, sf, zf]
    pc       \* "finish", "exec" or "done"

vars == <<node, code, reg, flags, pc>>

-----------------------------------------------------------------------------
(* x86 semantics on W-bit values (signed representatives).                 *)

U(x) == x % (2^W)                 \* the unsigned view
BitNot(x) == -x - 1               \* Not in two's complement

ResultFlags(s) == [sf |-> s < 0, zf |-> s = 0]

AddFlags(x, y, cin) ==
    [cf |-> U(x) + U(y) + cin >= 2^W, of |-> x + y + cin \notin Ints]
        @@ ResultFlags(Wrap(x + y + cin))

SubFlags(x, y, bin) ==
    [cf |-> U(x) < U(y) + bin, of |-> x - y - bin \notin Ints]
        @@ ResultFlags(Wrap(x - y - bin))

NegFlags(y) == [cf |-> y # 0, of |-> y = MinInt] @@ ResultFlags(Wrap(-y))

CondHolds(cc, f) ==
    LET v == CASE cc.base = "below"       -> f.cf
               [] cc.base = "below_equal" -> f.cf \/ f.zf
               [] cc.base = "equal"       -> f.zf
               [] cc.base = "less"        -> f.sf # f.of
               [] cc.base = "less_equal"  -> f.zf \/ (f.sf # f.of)
               [] cc.base = "sign"        -> f.sf
               [] cc.base = "overflow"    -> f.of
    IN  v # cc.neg

\* What a user of the flags reads: an Sbb the carry (borrow), any other
\* user the outcome of its condition.
UserReads(u, f) == IF u.sbb THEN f.cf ELSE CondHolds(u, f)

\* SHLD dst, src, n and SHRD dst, src, n with the count masked to W bits.
ShlDResult(dst, src, n) ==
    LET m == n % W
    IN  IF m = 0 THEN dst ELSE Wrap(U(dst) * 2^m + U(src) \div 2^(W - m))

ShrDResult(dst, src, n) ==
    LET m == n % W
    IN  IF m = 0 THEN dst ELSE Wrap(U(dst) \div 2^m + U(src) * 2^(W - m))

\* What the original instruction leaves in the output register and flags.
OrigResult(n) ==
    CASE n.op = "Sub"  -> Wrap(n.a - n.b)
      [] n.op = "Sbb"  -> Wrap(n.a - n.b - n.cin)
      [] n.op = "ShlD" -> ShlDResult(n.a, n.b, n.cnt)

OrigFlags(n) == SubFlags(n.a, n.b, n.cin)

-----------------------------------------------------------------------------
(* The rewrite, translated from ia32_finish.c.                             *)

Instr(op) == [op |-> op, n |-> 0]
Instrs == [op: {"Neg", "Add", "Not", "Stc", "Cmc", "Adc", "ShrD"}, n: 0..(W - 1)]

\* reads_carry: the condition tests CF (the negated bit masked off).
ReadsCarry(cc) == cc.base \in {"below", "below_equal"}

\* needs_carry: some user of the flags Proj reads the carry.
NeedsCarry(n) == \E cc \in n.users : ReadsCarry(cc)

\* The Adc, followed by a Cmc that replaces the flags Proj when there is one.
AdcTailNoCmc(n) == <<Instr("Adc")>>

AdcTail(n) ==
    <<Instr("Adc")>> \o (IF n.users = {} THEN <<>> ELSE <<Instr("Cmc")>>)

\* The Sbb case fed the borrow to the Adc without complementing it.
SubToNegAddSbbNoCmc(n) ==
    CASE n.op = "Sbb"                      -> <<Instr("Not")>> \o AdcTail(n)
      [] n.users # {} /\ NeedsCarry(n)     -> <<Instr("Not"), Instr("Stc")>> \o AdcTail(n)
      [] OTHER                             -> <<Instr("Neg"), Instr("Add")>>

\* ia32_transform_sub_to_neg_add for an integer Sub or Sbb: Not, the carry
\* (Cmc of the incoming borrow for Sbb, Stc for a Sub whose carry is read),
\* Adc, Cmc; otherwise Neg then Add.
SubToNegAdd(n) ==
    CASE n.op = "Sbb"                      -> <<Instr("Not"), Instr("Cmc")>> \o AdcTail(n)
      [] n.users # {} /\ NeedsCarry(n)     -> <<Instr("Not"), Instr("Stc")>> \o AdcTail(n)
      [] OTHER                             -> <<Instr("Neg"), Instr("Add")>>

\* ia32_transform_ShlD_to_ShrD_imm with the count one too large.
ShlDToShrDImmPlusOne(n) == <<[op |-> "ShrD", n |-> W - n.cnt + 1]>>

\* ia32_transform_ShlD_to_ShrD_imm: a = ShlD(b, a, c) becomes
\* a = ShrD(a, b, 32 - c).
ShlDToShrDImm(n) == <<[op |-> "ShrD", n |-> W - n.cnt]>>

\* ia32_handle_2addr for a node whose output register is that of the input
\* after the should-be-same one (ShlD), or of in2 (Sub, Sbb).
Handle2Addr(n) ==
    IF n.op = "ShlD" THEN ShlDToShrDImm(n) ELSE SubToNegAdd(n)

-----------------------------------------------------------------------------

Init ==
    /\ node \in Nodes
    /\ code = <<>>
    /\ reg = node.b
    /\ flags = [cf |-> node.cin = 1, of |-> FALSE, sf |-> FALSE, zf |-> FALSE]
    /\ pc = "finish"

\* The finish pass replaces the node by its rewrite in the schedule.
Finish ==
    /\ pc = "finish"
    /\ code' = Handle2Addr(node)
    /\ pc' = "exec"
    /\ UNCHANGED <<node, reg, flags>>

\* Executing the head instruction of the replacement.
Exec(op) == pc = "exec" /\ code # <<>> /\ Head(code).op = op /\ code' = Tail(code)

Carry == IF flags.cf THEN 1 ELSE 0

ExecNeg == Exec("Neg") /\ reg' = Wrap(-reg) /\ flags' = NegFlags(reg)
              /\ UNCHANGED <<node, pc>>
ExecAdd == Exec("Add") /\ reg' = Wrap(reg + node.a) /\ flags' = AddFlags(reg, node.a, 0)
              /\ UNCHANGED <<node, pc>>
ExecNot == Exec("Not") /\ reg' = BitNot(reg) /\ UNCHANGED <<node, flags, pc>>
ExecStc == Exec("Stc") /\ flags' = [flags EXCEPT !.cf = TRUE] /\ UNCHANGED <<node, reg, pc>>
ExecCmc == Exec("Cmc") /\ flags' = [flags EXCEPT !.cf = ~@] /\ UNCHANGED <<node, reg, pc>>
ExecAdc == Exec("Adc") /\ reg' = Wrap(reg + node.a + Carry)
              /\ flags' = AddFlags(reg, node.a, Carry) /\ UNCHANGED <<node, pc>>
ExecShrD == Exec("ShrD") /\ reg' = ShrDResult(reg, node.a, Head(code).n)
              /\ UNCHANGED <<node, flags, pc>>

Done ==
    /\ pc = "exec"
    /\ code = <<>>
    /\ pc' = "done"
    /\ UNCHANGED <<node, code, reg, flags>>

Next ==
    \/ Finish \/ Done
    \/ ExecNeg \/ ExecAdd \/ ExecNot \/ ExecStc \/ ExecCmc \/ ExecAdc \/ ExecShrD

Spec == Init /\ [][Next]_vars

-----------------------------------------------------------------------------

TypeOK ==
    /\ node \in Nodes
    /\ code \in Seq(Instrs) /\ Len(code) <= MaxCode
    /\ reg \in Ints
    /\ flags \in [cf: BOOLEAN, of: BOOLEAN, sf: BOOLEAN, zf: BOOLEAN]
    /\ pc \in {"finish", "exec", "done"}

\* After the replacement has run, the output register holds what the
\* original Sub, Sbb or ShlD computes.
ResultPreserved == pc = "done" => reg = OrigResult(node)

\* After the replacement has run, every user of the Sub's or Sbb's flags
\* Proj (now reading the Adc, Cmc or Add flags) takes the same branch, or
\* for an Sbb the same borrow, as with the flags of the original
\* instruction.
FlagsPreserved ==
    pc = "done" =>
        \A u \in node.users : UserReads(u, flags) = UserReads(u, OrigFlags(node))
================================================================================
