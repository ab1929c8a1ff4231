----------------------------- MODULE BeVerify -----------------------------
(***************************************************************************)
(* The checks of src/ir/be/beverify.c on one block, one after the other, *)
(* each with its own state: verify_schedule_walker and check_schedule     *)
(* (be_verify_schedule), verify_liveness_walker (be_verify_register_      *)
(* pressure), collect_spills_walker and check_spillslot_interference      *)
(* (be_verify_spillslots), be_verify_node with check_reg_constraint on    *)
(* each scheduled node, then verify_block_register_allocation with        *)
(* value_used, value_def, check_output_constraints and                    *)
(* check_input_constraints.                                               *)
(*                                                                         *)
(* A block is a record:                                                    *)
(*   sched    the schedule, a sequence of nodes [def, uses, phi, cf, keep, *)
(*            copyKeep, notSched, home, dead, t]: the value the node       *)
(*            defines (or NoVal), its inputs in order, whether it is a     *)
(*            Phi, a control-flow op (is_cfop), a Keep, a CopyKeep, flagged*)
(*            not_scheduled, in this block (get_nodes_block), without      *)
(*            users (a node whose value is unused may have other users,    *)
(*            through other Projs), and its timestep                       *)
(*   offSched the nodes of the block that are not in the schedule, each    *)
(*            [def, notSched]                                              *)
(*   liveEnd, liveIn   the be_lv sets at the end and the start             *)
(*   reg      arch_get_irn_register: a register index or NoReg (NULL)      *)
(*   width    arch_register_req_t.width                                    *)
(*   aligned  arch_register_req_t.aligned                                  *)
(*   edges    get_irn_n_edges(value) > 0                                   *)
(*   mem      the spills, reloads and MemPerms, with their positions; the  *)
(*            other checks do not look at them, and the blocks that test   *)
(*            the spill checks have no other nodes. Memory Phis join       *)
(*            several blocks and are left out.                             *)
(* Every value is in one register class, the first ClassRegs registers of *)
(* the register file, so a register's index in the class is its global    *)
(* index. Its register is allocatable (not limited), no must_be_different *)
(* input holds it, and a non-Phi user requires at that input what the    *)
(* value itself requires (a Phi requires its own), so those checks of     *)
(* check_reg_constraint and be_verify_node never warn. A node is the    *)
(* value it defines; it has one schedule slot, so no schedule holds it     *)
(* twice and the "schedule twice" check never warns on one block.          *)
(***************************************************************************)
EXTENDS Integers, Sequences, FiniteSets, SequencesExt

CONSTANTS
    NRegs,      \* isa_if->n_registers
    ClassRegs,  \* cls->n_regs of the values' class, all of them allocatable
                \* (be_get_n_allocatable_regs)
    NonSsa,     \* birg->non_ssa_regs: registers exempt from the SSA check
    Blocks      \* the blocks the walker may visit

Regs  == 0..(NRegs - 1)
NoVal == "NoVal"       \* a NULL entry of registers[]
NoReg == -1            \* arch_get_irn_register returns NULL

VARIABLES
    blk,        \* the block being checked
    registers,  \* registers[]: the value holding each register
    stage,      \* which loop of verify_block_register_allocation runs
    pending,    \* the live-set entries be_lv_foreach has not visited yet
    pos,        \* the schedule position sched_foreach_reverse is at
    problem,    \* env->problem_found
    nodesFine,  \* be_verify_node returned true for every node so far
    walk,       \* verify_schedule_walker's locals: non_phi_found,
                \* cfchange_found, last_timestep
    schedProblem,    \* be_verify_schedule's env.problem_found
    live,            \* verify_liveness_walker's live_nodes
    pressureProblem, \* be_verify_register_pressure's env.problem_found
    reloads,         \* the reloads collect_spills_walker has not visited yet
    slots,           \* env->spills: pairs <<spill or MemPerm Proj, entity>>
    spillProblem     \* be_verify_spillslots's env.problem_found

schedVars == <<walk, schedProblem, live, pressureProblem>>
spillVars == <<reloads, slots, spillProblem>>
vars == <<blk, registers, stage, pending, pos, problem, nodesFine, schedVars,
          spillVars>>

HasReg(v) == blk.reg[v] # NoReg
Slots(v)  == IF HasReg(v) THEN {blk.reg[v] + i : i \in 0..(blk.width[v] - 1)}
             ELSE {}
\* ignore_error_for_reg tests the value's own register
Ignore(v) == blk.reg[v] \in NonSsa

\* value_used that also warns when the value itself already holds one
ValueUsedNoSelf(rw, v) ==
    IF ~HasReg(v) THEN rw
    ELSE [regs |-> [s \in Regs |-> IF s \in Slots(v) THEN v ELSE rw.regs[s]],
          warn |-> rw.warn \/ (~Ignore(v) /\
                     \E s \in Slots(v) : rw.regs[s] # NoVal)]

\* value_used: claim the value's registers, warning if another holds one
ValueUsed(rw, v) ==
    IF ~HasReg(v) THEN rw
    ELSE [regs |-> [s \in Regs |-> IF s \in Slots(v) THEN v ELSE rw.regs[s]],
          warn |-> rw.warn \/ (~Ignore(v) /\
                     \E s \in Slots(v) : rw.regs[s] \notin {NoVal, v})]

\* the loop of value_def from register i on: a free register and a value
\* without users ends the whole function (the "little cheat")
RECURSIVE DefSlots(_, _, _)
DefSlots(rw, v, i) ==
    IF i >= blk.width[v] THEN rw
    ELSE LET s == blk.reg[v] + i
         IN IF rw.regs[s] = NoVal /\ ~blk.edges[v] THEN rw
            ELSE DefSlots([regs |-> [rw.regs EXCEPT ![s] = NoVal],
                           warn |-> rw.warn \/ (rw.regs[s] # v /\ ~Ignore(v))],
                          v, i + 1)

\* value_def: release the value's registers, warning if it does not hold one
ValueDef(rw, v) == IF ~HasReg(v) THEN rw ELSE DefSlots(rw, v, 0)

\* the requirement node n has at its input v (arch_get_irn_register_req_in):
\* a Phi's is its own (be_set_phi_reg_req), any other node's that of the
\* value it reads
InWidth(n, v)   == IF n.phi THEN blk.width[n.def] ELSE blk.width[v]
InAligned(n, v) == IF n.phi THEN blk.aligned[n.def] ELSE blk.aligned[v]

\* check_reg_constraint for a requirement of width w and alignment al and
\* the register of value v: the width fits the class, and the register
\* meets the width and alignment constraints
CheckRegConstraint(w, al, v) ==
    /\ ~(w > ClassRegs \/ (w = 0 /\ ClassRegs # 0))
    /\ HasReg(v) =>
          /\ ~(blk.reg[v] + w - 1 > ClassRegs)
          /\ ~(al /\ blk.reg[v] % w # 0)

\* be_verify_node: check_reg_constraint on the node's output, and on each
\* input under the node's requirement there, which the input's value must
\* be at least as wide as
BeVerifyNode(n) ==
    /\ n.def # NoVal => CheckRegConstraint(blk.width[n.def], blk.aligned[n.def], n.def)
    /\ \A v \in Range(n.uses) :
          /\ CheckRegConstraint(InWidth(n, v), InAligned(n, v), v)
          /\ ~(blk.width[v] < InWidth(n, v))

\* check_output_constraints: a value without a register
OutputWarn(n) == n.def # NoVal /\ ~HasReg(n.def)

\* check_input_constraints: an input narrower than the node's requirement
\* there, an input without a register, or a Phi input in another register
\* than the Phi
InputWarn(n) ==
    \/ \E j \in DOMAIN n.uses : blk.width[n.uses[j]] < InWidth(n, n.uses[j])
    \/ \E j \in DOMAIN n.uses : ~HasReg(n.uses[j])
    \/ n.phi /\ \E j \in DOMAIN n.uses :
                  HasReg(n.uses[j]) /\ blk.reg[n.uses[j]] # blk.reg[n.def]

\* check_input_constraints reads pred_reg->is_virtual of a Phi input whose
\* register is NULL when the Phi has one: a NULL dereference
PhiNullDeref(n) ==
    n.phi /\ HasReg(n.def) /\ \E j \in DOMAIN n.uses : ~HasReg(n.uses[j])

\* the schedule is a ring through the block: sched_prev of the first node
\* is the block (position 0), and sched_prev of the block the last node
Prev(q)     == IF q = 0 THEN Len(blk.sched) ELSE q - 1
IsKeepAt(q) == q # 0 /\ (blk.sched[q].keep \/ blk.sched[q].copyKeep)
IsPhiAt(q)  == q # 0 /\ blk.sched[q].phi

\* the Keep check's first loop: back over Keeps and CopyKeeps
RECURSIVE SkipKeeps(_)
SkipKeeps(q) == IF IsKeepAt(q) THEN SkipKeeps(Prev(q)) ELSE q

\* its do-while: an input of Keep n is the node at q, or q is followed
\* backwards by a Phi that is
RECURSIVE KeepPredFound(_, _)
KeepPredFound(n, q) ==
    \/ q # 0 /\ blk.sched[q].def # NoVal /\ blk.sched[q].def \in Range(n.uses)
    \/ IsPhiAt(Prev(q)) /\ KeepPredFound(n, Prev(q))

\* an input in this block that is scheduled, and its timestep
InBlockScheduled(a) == \E q \in DOMAIN blk.sched : blk.sched[q].def = a /\ blk.sched[q].home
TimeOf(a) == blk.sched[CHOOSE q \in DOMAIN blk.sched : blk.sched[q].def = a].t

\* a walker without the timestep check: it trusts the timesteps
ScheduleWarnNoTimeOrder(p) ==
    LET n == blk.sched[p]
    IN \/ ~n.home
       \/ n.notSched
       \/ n.phi /\ walk.nonPhi
       \/ n.cf /\ walk.cf
       \/ ~n.cf /\ walk.cf /\ ~n.keep
       \/ ~n.phi /\ \E j \in DOMAIN n.uses :
                       InBlockScheduled(n.uses[j]) /\ TimeOf(n.uses[j]) >= n.t
       \/ n.dead
       \/ (n.keep \/ n.copyKeep) /\ ~KeepPredFound(n, SkipKeeps(Prev(p)))

\* the warnings of verify_schedule_walker on the node at position p
ScheduleWarn(p) ==
    LET n == blk.sched[p]
    IN \/ ~n.home
       \/ n.t <= walk.last
       \/ n.notSched
       \/ n.phi /\ walk.nonPhi
       \/ n.cf /\ walk.cf
       \/ ~n.cf /\ walk.cf /\ ~n.keep
       \/ ~n.phi /\ \E j \in DOMAIN n.uses :
                       InBlockScheduled(n.uses[j]) /\ TimeOf(n.uses[j]) >= n.t
       \/ n.dead
       \/ (n.keep \/ n.copyKeep) /\ ~KeepPredFound(n, SkipKeeps(Prev(p)))

\* The memory nodes of the block, blk.mem: each id maps to a record
\* [kind, pos, ent, in, inEnt, outEnt, num]: a "spill" with its frame
\* entity, a "reload" with its entity and its mode_M input (in, empty when
\* it has none), a "perm" (MemPerm) with its inputs and their entities and
\* its output entities, or a "proj" of a MemPerm (in = <<perm>>) with its
\* output number. pos is the schedule position; a Proj has its MemPerm's.
NoEnt == "NoEnt"       \* get_frame_entity returns NULL
MemIds == DOMAIN blk.mem
Kind(n) == blk.mem[n].kind
Reloads == {r \in MemIds : Kind(r) = "reload"}
\* the users of a memory value: the nodes it is an input of
MemUsers(a) == {u \in MemIds : a \in Range(blk.mem[u].in)}
\* value_strictly_dominates inside one block: scheduled earlier
SDom(a, b) == blk.mem[a].pos < blk.mem[b].pos
\* the entity a MemPerm Proj writes: be_get_MemPerm_out_entity
ProjEnt(n) == blk.mem[blk.mem[n].in[1]].outEnt[blk.mem[n].num]
Recorded(S, n) == \E e \in {c[2] : c \in S} : <<n, e>> \in S

\* my_values_interfere on one block: order a and b by dominance, then ask
\* whether b strictly dominates a user of a other than b
MyValuesInterfere(a, b) ==
    LET b2a == SDom(b, a)
        x == IF b2a THEN b ELSE a
        y == IF b2a THEN a ELSE b
    IN (SDom(a, b) \/ b2a) /\ \E u \in MemUsers(x) : u # y /\ SDom(y, u)

RECURSIVE Collect(_, _, _), CollectArgs(_, _, _)

\* a collect_memperm that looks the Proj up before comparing its entity,
\* so a later reader of a recorded Proj is never compared
CollectProjCachedFirst(env, n, ent) ==
    CASE Kind(n) = "spill" ->
           [slots |-> IF Recorded(env.slots, n) THEN env.slots
                      ELSE env.slots \cup {<<n, ent>>},
            prob  |-> env.prob \/ blk.mem[n].ent # ent]
      [] Kind(n) = "proj" /\ Recorded(env.slots, n) -> env
      [] Kind(n) = "proj" ->
           CollectArgs([slots |-> env.slots \cup {<<n, ProjEnt(n)>>},
                        prob |-> env.prob \/ ProjEnt(n) # ent], blk.mem[n].in[1], 1)
      [] OTHER -> env

\* collect, collect_spill and collect_memperm: from memory node n, reached
\* from a reload or a MemPerm expecting entity ent, record the spills and
\* Projs in env = [slots, prob] and compare their entities
Collect(env, n, ent) ==
    CASE Kind(n) = "spill" ->
           [slots |-> IF Recorded(env.slots, n) THEN env.slots
                      ELSE env.slots \cup {<<n, ent>>},
            prob  |-> env.prob \/ blk.mem[n].ent # ent]
      [] Kind(n) = "proj" ->
           LET e1 == [env EXCEPT !.prob = @ \/ ProjEnt(n) # ent]
           IN IF Recorded(env.slots, n) THEN e1
              ELSE CollectArgs([e1 EXCEPT !.slots = @ \cup {<<n, ProjEnt(n)>>}],
                               blk.mem[n].in[1], 1)
      [] OTHER -> env
\* the loop of collect_memperm over the MemPerm's inputs from i on
CollectArgs(env, m, i) ==
    IF i > Len(blk.mem[m].in) THEN env
    ELSE CollectArgs(Collect(env, blk.mem[m].in[i], blk.mem[m].inEnt[i]), m, i + 1)

Init ==
    /\ blk \in Blocks
    /\ registers = [s \in Regs |-> NoVal]     \* ALLOCANZ
    /\ stage = "schedule"
    /\ pending = blk.liveEnd
    /\ pos = 1
    /\ problem = FALSE
    /\ nodesFine = TRUE
    /\ walk = [nonPhi |-> FALSE, cf |-> FALSE, last |-> 0]
    /\ schedProblem = FALSE
    /\ live = {}
    /\ pressureProblem = FALSE
    /\ reloads = Reloads
    /\ slots = {}
    /\ spillProblem = FALSE

\* one node of sched_foreach in verify_schedule_walker
ScheduleNode ==
    /\ stage = "schedule" /\ pos <= Len(blk.sched)
    /\ schedProblem' = (schedProblem \/ ScheduleWarn(pos))
    /\ walk' = [nonPhi |-> walk.nonPhi \/ ~blk.sched[pos].phi,
                cf     |-> walk.cf \/ blk.sched[pos].cf,
                last   |-> blk.sched[pos].t]
    /\ pos' = pos + 1
    /\ UNCHANGED <<blk, registers, stage, pending, problem, nodesFine, live,
                   pressureProblem, spillVars>>

\* check_schedule over the graph's nodes: a node is scheduled exactly when
\* it is not flagged not_scheduled
CheckSchedule ==
    /\ stage = "schedule" /\ pos > Len(blk.sched)
    /\ schedProblem' = (schedProblem \/ \E p \in DOMAIN blk.sched : blk.sched[p].notSched
                                      \/ \E o \in blk.offSched : ~o.notSched)
    /\ stage' = "pressureEnd"
    /\ UNCHANGED <<blk, registers, pending, pos, problem, nodesFine, walk, live,
                   pressureProblem, spillVars>>

\* verify_liveness_walker: be_liveness_end_of_block and the pressure at
\* the end of the block
PressureEndOfBlock ==
    /\ stage = "pressureEnd"
    /\ live' = blk.liveEnd
    /\ pressureProblem' = (Cardinality(blk.liveEnd) > ClassRegs)
    /\ stage' = "pressure"
    /\ pos' = Len(blk.sched)
    /\ UNCHANGED <<blk, registers, pending, problem, nodesFine, walk, schedProblem,
                   spillVars>>

\* a pressure check that warns when the live values fill the registers
PressureNodeAtLimit ==
    /\ stage = "pressure" /\ pos > 0 /\ ~blk.sched[pos].phi
    /\ LET n == blk.sched[pos]
           l == (live \ {n.def}) \cup Range(n.uses)
       IN /\ live' = l
          /\ pressureProblem' = (pressureProblem \/ Cardinality(l) >= ClassRegs)
    /\ pos' = pos - 1
    /\ UNCHANGED <<blk, registers, stage, pending, problem, nodesFine, walk,
                   schedProblem, spillVars>>

\* sched_foreach_non_phi_reverse: be_liveness_transfer over one non-Phi
\* node (its value dies, its inputs are live) and the pressure before it
PressureNode ==
    /\ stage = "pressure" /\ pos > 0 /\ ~blk.sched[pos].phi
    /\ LET n == blk.sched[pos]
           l == (live \ {n.def}) \cup Range(n.uses)
       IN /\ live' = l
          /\ pressureProblem' = (pressureProblem \/ Cardinality(l) > ClassRegs)
    /\ pos' = pos - 1
    /\ UNCHANGED <<blk, registers, stage, pending, problem, nodesFine, walk,
                   schedProblem, spillVars>>

\* the reverse walk stops at the block or at the first Phi
EndPressure ==
    /\ stage = "pressure" /\ (pos = 0 \/ IsPhiAt(pos))
    /\ stage' = "spills"
    /\ UNCHANGED <<blk, registers, pending, pos, problem, nodesFine, schedVars, spillVars>>

\* collect_spills_walker on one reload, in the walker's order: a reload
\* without a memory input is a problem, otherwise collect from that input
SpillReload ==
    /\ stage = "spills"
    /\ \E r \in reloads :
         LET e == IF blk.mem[r].in = <<>>
                  THEN [slots |-> slots, prob |-> TRUE]
                  ELSE Collect([slots |-> slots, prob |-> spillProblem],
                               blk.mem[r].in[1], blk.mem[r].ent)
         IN /\ slots' = e.slots
            /\ spillProblem' = (spillProblem \/ e.prob)
            /\ reloads' = reloads \ {r}
    /\ UNCHANGED <<blk, registers, stage, pending, pos, problem, nodesFine,
                   schedVars>>

\* check_spillslot_interference over the recorded pairs of one entity
SpillInterference ==
    /\ stage = "spills" /\ reloads = {}
    /\ spillProblem' = (spillProblem \/
          \E c, d \in slots : c[1] # d[1] /\ c[2] = d[2] /\ MyValuesInterfere(c[1], d[1]))
    /\ stage' = "nodes"
    /\ pos' = Len(blk.sched)
    /\ UNCHANGED <<blk, registers, pending, problem, nodesFine, schedVars,
                   reloads, slots>>

\* the graph verifier calls be_verify_node on one node of the block
VerifyNode ==
    /\ stage = "nodes" /\ pos > 0
    /\ nodesFine' = (nodesFine /\ BeVerifyNode(blk.sched[pos]))
    /\ pos' = pos - 1
    /\ UNCHANGED <<blk, registers, stage, pending, problem, schedVars, spillVars>>

\* be_verify_register_allocation starts on the block
EndNodes ==
    /\ stage = "nodes" /\ pos = 0
    /\ stage' = "liveEnd"
    /\ pos' = Len(blk.sched)
    /\ UNCHANGED <<blk, registers, pending, problem, nodesFine, schedVars, spillVars>>

\* be_lv_foreach(..., be_lv_state_end, ...): value_used for one live-out
UseLiveEnd ==
    /\ stage = "liveEnd"
    /\ \E v \in pending :
         LET rw == ValueUsed([regs |-> registers, warn |-> FALSE], v)
         IN /\ registers' = rw.regs
            /\ problem' = (problem \/ rw.warn)
            /\ pending' = pending \ {v}
    /\ UNCHANGED <<blk, stage, pos, nodesFine, schedVars, spillVars>>

EndLiveEnd ==
    /\ stage = "liveEnd" /\ pending = {}
    /\ stage' = "sched"
    /\ UNCHANGED <<blk, registers, pending, pos, problem, nodesFine, schedVars, spillVars>>

\* one node of sched_foreach_reverse: value_def and the output check for
\* its value, the input check, then value_used for every input of a non-Phi
SchedNode ==
    /\ stage = "sched" /\ pos > 0
    /\ ~PhiNullDeref(blk.sched[pos])
    /\ LET n  == blk.sched[pos]
           rw0 == [regs |-> registers, warn |-> FALSE]
           rw1 == IF n.def = NoVal THEN rw0 ELSE ValueDef(rw0, n.def)
           rw2 == IF n.phi THEN rw1 ELSE FoldLeft(ValueUsed, rw1, n.uses)
       IN /\ registers' = rw2.regs
          /\ problem' = (problem \/ rw2.warn \/ OutputWarn(n) \/ InputWarn(n))
    /\ pos' = pos - 1
    /\ UNCHANGED <<blk, stage, pending, nodesFine, schedVars, spillVars>>

\* the node is a Phi that dereferences the NULL register of an input
SchedNodeCrash ==
    /\ stage = "sched" /\ pos > 0
    /\ PhiNullDeref(blk.sched[pos])
    /\ stage' = "crashed"
    /\ UNCHANGED <<blk, registers, pending, pos, problem, nodesFine, schedVars, spillVars>>

EndSched ==
    /\ stage = "sched" /\ pos = 0
    /\ stage' = "liveIn"
    /\ pending' = blk.liveIn
    /\ UNCHANGED <<blk, registers, pos, problem, nodesFine, schedVars, spillVars>>

\* be_lv_foreach(..., be_lv_state_in, ...): value_def for one live-in
DefLiveIn ==
    /\ stage = "liveIn"
    /\ \E v \in pending :
         LET rw == ValueDef([regs |-> registers, warn |-> FALSE], v)
         IN /\ registers' = rw.regs
            /\ problem' = (problem \/ rw.warn)
            /\ pending' = pending \ {v}
    /\ UNCHANGED <<blk, stage, pos, nodesFine, schedVars, spillVars>>

\* "set must be empty now"
CheckEmpty ==
    /\ stage = "liveIn" /\ pending = {}
    /\ problem' = (problem \/ \E s \in Regs : registers[s] # NoVal)
    /\ stage' = "done"
    /\ UNCHANGED <<blk, registers, pending, pos, nodesFine, schedVars, spillVars>>

Next ==
    \/ ScheduleNode
    \/ CheckSchedule
    \/ PressureEndOfBlock
    \/ PressureNode
    \/ EndPressure
    \/ SpillReload
    \/ SpillInterference
    \/ VerifyNode
    \/ EndNodes
    \/ UseLiveEnd
    \/ EndLiveEnd
    \/ SchedNode
    \/ SchedNodeCrash
    \/ EndSched
    \/ DefLiveIn
    \/ CheckEmpty

Spec == Init /\ [][Next]_vars

-----------------------------------------------------------------------------
(* Properties *)

\* The values live after schedule position p, from the block's live-out
\* set backwards; Phi inputs are live at the end of the predecessor only.
RECURSIVE LiveAfter(_)
LiveAfter(p) ==
    IF p >= Len(blk.sched) THEN blk.liveEnd
    ELSE LET n == blk.sched[p + 1]
         IN (LiveAfter(p + 1) \ {n.def}) \cup (IF n.phi THEN {} ELSE Range(n.uses))

\* two values share a register the SSA check applies to
Overlap(v, w) == v # w /\ (Slots(v) \cap Slots(w)) \ NonSsa # {}

\* a value, used or not, is written at its definition while another value
\* in the same register is still live; or two live-in values share one
RegConflict ==
    \/ \E p \in 1..Len(blk.sched) :
          LET d == blk.sched[p].def
          IN d # NoVal /\ \E w \in LiveAfter(p) \ {d} : Overlap(d, w)
    \/ \E v, w \in blk.liveIn : Overlap(v, w)

\* a value defined or used in the block has no register
MissingReg ==
    \E p \in 1..Len(blk.sched) :
        \E v \in ({blk.sched[p].def} \ {NoVal}) \cup Range(blk.sched[p].uses) :
            blk.reg[v] = NoReg

\* a value defined in the block or read by a non-Phi has registers outside
\* its class, or a register its alignment forbids (a Phi input's own
\* placement is its defining block's to check)
BadPlacement ==
    \E p \in 1..Len(blk.sched) :
        \E v \in ({blk.sched[p].def} \ {NoVal}) \cup
                 (IF blk.sched[p].phi THEN {} ELSE Range(blk.sched[p].uses)) :
            HasReg(v) /\ \/ blk.reg[v] + blk.width[v] > ClassRegs
                         \/ blk.aligned[v] /\ blk.reg[v] % blk.width[v] # 0

\* a Phi input is narrower than the Phi, so it cannot fill the Phi's
\* registers
PhiNarrowInput ==
    \E p \in 1..Len(blk.sched) :
        blk.sched[p].phi /\
        \E v \in Range(blk.sched[p].uses) : blk.width[v] < blk.width[blk.sched[p].def]

\* a Phi input sits in another register than the Phi
PhiMismatch ==
    \E p \in 1..Len(blk.sched) :
        blk.sched[p].phi /\
        \E v \in Range(blk.sched[p].uses) :
            blk.reg[v] # NoReg /\ blk.reg[v] # blk.reg[blk.sched[p].def]

\* a legal schedule (spec 4.6 and 8): Phis before the other nodes, every
\* input a non-Phi takes from a node scheduled in this block placed before
\* it, and nothing but Keeps after a control-flow node
LegalSchedule ==
    LET S == blk.sched IN
    /\ \A p, q \in DOMAIN S : p < q /\ S[q].phi => S[p].phi
    /\ \A p, q \in DOMAIN S :
          (~S[p].phi /\ S[q].home /\ S[q].def # NoVal /\ S[q].def \in Range(S[p].uses))
              => q < p
    /\ \A p, q \in DOMAIN S : p < q /\ S[p].cf => S[q].keep

\* When be_verify_schedule has accepted the block, its schedule is legal:
\* the walker compares timesteps, not positions, and relies on its check
\* that timesteps increase along the schedule for its use-before-def
\* check to speak about the order of the nodes.
ScheduleSound ==
    stage # "schedule" /\ ~schedProblem => LegalSchedule

\* When be_verify_register_pressure has walked a block whose schedule
\* be_verify_schedule accepted, it has reported a problem exactly when the
\* values live at some point of the block outnumber the allocatable
\* registers (spec 8, "Liveness"): the walk that starts from the live-out
\* set and stops at the first Phi misses no point of the block.
PressureExact ==
    stage \notin {"schedule", "pressureEnd", "pressure"} /\ ~schedProblem =>
        (pressureProblem <=>
            \E p \in 0..Len(blk.sched) : Cardinality(LiveAfter(p)) > ClassRegs)

\* the memory nodes a reload reaches through spills and MemPerm Projs, each
\* with the entity the reader expects it in
RECURSIVE Reach(_, _)
Reach(n, ent) ==
    CASE Kind(n) = "spill" -> {<<n, ent>>}
      [] Kind(n) = "proj" ->
           LET m == blk.mem[n].in[1]
           IN {<<n, ent>>} \cup UNION {Reach(blk.mem[m].in[i], blk.mem[m].inEnt[i]) :
                                         i \in DOMAIN blk.mem[m].in}
      [] OTHER -> {}
Claims == UNION {Reach(blk.mem[r].in[1], blk.mem[r].ent) :
                    r \in {q \in Reloads : blk.mem[q].in # <<>>}}
Holders == {c[1] : c \in Claims}
\* the slot a spill or a MemPerm output really writes
SlotOf(h) == IF Kind(h) = "spill" THEN blk.mem[h].ent ELSE ProjEnt(h)
\* b is written, no earlier than a, while a is still to be read
LiveAcross(a, b) ==
    blk.mem[a].pos <= blk.mem[b].pos /\ \E u \in MemUsers(a) : SDom(b, u)

\* When be_verify_spillslots has run, it has reported a problem exactly
\* when the spill slots break spec 4.6 ("Spill slots") and 8: a reload has no
\* memory input, a spill or MemPerm output on a reload's memory path is in
\* another entity than its reader expects, or two of them in one entity
\* have overlapping live ranges. The walker meets the reloads in graph
\* order, records each spill and Proj once with the entity of its first
\* reader, and compares entities per reader; the verdict must not depend
\* on that order.
SpillSlotsExact ==
    stage \notin {"schedule", "pressureEnd", "pressure", "spills"} =>
        (spillProblem <=>
            \/ \E r \in Reloads : blk.mem[r].in = <<>>
            \/ \E c \in Claims : SlotOf(c[1]) # c[2]
            \/ \E a, b \in Holders : a # b /\ SlotOf(a) = SlotOf(b) /\ LiveAcross(a, b))

\* When the checks have run on a block, be_verify_node has failed on a node
\* or verify_block_register_allocation has reported a problem exactly when
\* the allocation breaks the rules of spec 4.6 ("Register allocation"):
\* two values live at the same time share a register, a value has no
\* register, a Phi input is not in the Phi's register or is narrower than
\* the Phi, or a value's registers leave its class or break its alignment.
\* The walk reaches this with one registers[] array, claimed at uses and
\* released at definitions, backwards over the block, and relies on a
\* schedule that be_verify_schedule accepts.
VerdictExact ==
    stage = "done" /\ ~schedProblem =>
        ((problem \/ ~nodesFine) <=>
            (RegConflict \/ MissingReg \/ PhiMismatch \/ PhiNarrowInput \/ BadPlacement))
====
