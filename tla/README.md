# TLA+ models of libfirm's Duff's-device loop unroller and backend passes

This directory holds TLA+ models of parts of this libfirm tree (`src/`),
the TLC configurations that check them, and `PROJECT.json`. `PROJECT.json`
maps every model definition to the source lines it translates, and lists
the runs, mutants, findings and hazards.

## 1. Inventory

### Components

| Component | Source | State | Operations |
|---|---|---|---|
| Counted-loop recogniser | `src/ir/opt/loop_unrolling.c` 335-1093 | `linear_unroll_info` (`op`, `rel`, `phi`, `bound`, `incr`, `i`); the global `alias_candidates` list | `determine_lin_unroll_info`, `check_phi`, `is_valid_incr`, `binop_to_op`, `is_valid_base`, `get_all_stores`, `clear_all_stores` |
| Duff's-device unroller | same file, 1373-2907 | the IR graph of one loop; the stacks `unrolled_headers`, `unrolled_nodes`, `fixup_phis` | `create_fixup_switch` / `create_fixup_switch_header`, `create_fixup_loop`, `rewire_loop`, `remove_excess_headers`, `update_header_condition` (`_add`, `_mul`, `create_abs`, `create_r_pow`, `is_less`) |
| Full unroll by trip count | same file, 1094-1372 | — | `find_suitable_factor` (returns 0 at once), `rewire_fully_unrolled` |
| Pass driver | same file, 2909-3044 | `DUFF_FACTOR` environment variable, `n_loops_unrolled` | `unroll_loops`, `duplicate_innermost_loops`, `determine_unroll_factor`, `load_duff_factor` |
| ia32 finish | `src/ir/be/ia32/ia32_finish.c` | the scheduled ia32 nodes and their registers | `ia32_transform_sub_to_neg_add`, ShlD to ShrD, `ia32_handle_2addr`, `fix_am_source` |
| Backend verifier | `src/ir/be/beverify.c` | register pressure, schedule, spill slots, register assignment per block | `check_reg_constraint`, `verify_schedule_walker`, the spill-slot collection, `verify_block_register_allocation`, `lv_check_walker` |
| MIPS backend | `src/ir/be/mips/mips_bearch.c` | the stack-pointer offset | `mips_lower_add64`, `mips_sp_sim`, `mips_introduce_prologue_epilogue` |
| ARM finish | `src/ir/be/arm/arm_finish.c` | the frame offset | the prologue and epilogue |
| PEG loop depth | `src/unnamed/part_002` (`vf_depth.c`) | `depth` per node and a worklist | `vl_compute_depth`, `vl_init` |
| ppc32 node attributes | `src/ir/be/ppc32/ppc32_new_nodes.c` | attribute fields | getters, setters, dumper |
| IR construction clients | `src/testprograms/*.c` | an IR graph built through `get_value`/`set_value`/`mature_block` | the construction calls |

The components interact in one direction, in compilation order:

1. The pass driver walks the loop tree and picks, for each innermost loop, the plain unroller or the Duff's-device path.
2. On the Duff path the recogniser decides if the loop is a counted loop and which fix-up it may use. It fills `linear_unroll_info`. Its bound test, `is_valid_base`, consults the stores collected by `get_all_stores`.
3. The unroller rewrites the loop, using what the recogniser filled in.
4. The backends (ia32, ARM, MIPS) work on the code that results, after instruction selection.
5. The verifier checks the result of register allocation.

### The hard behaviours

- **The new header bound.** The unroller replaces `N` in the header compare by a new bound. A chain of `factor` body copies then runs with no test between the copies. The bound must be the last value from which `factor` more steps stay inside the original loop. It depends on:
  - the relation;
  - the side of the Cmp the induction variable is on;
  - the sign of `c`;
  - the increment kind (Add, Sub or Mul);
  - wrap-around of the W-bit mode.
- **The switch fix-up.** It finishes the remaining iterations. It computes a residue, then picks between 0 and `factor-1` copies through a chain of signed compares. Off-by-ones hide here:
  - the `+1` for `<=`/`>=`;
  - the `|c|-1` rounding;
  - the use of `|N|`.
- **Pattern acceptance.** The recogniser accepts increments by their shape. The outcome can depend on the order in which a Phi's predecessors are visited.
- **Flag semantics.** In the ia32 finish pass, a rewritten Sub must produce the same flags its users read.
- **Worklist order.** The verifier and `vf_depth` walk graphs with worklists. Their results must not depend on the order of the walk.

### What makes each component correct

- **Unroller.** The transformed code runs the body for exactly the same sequence of induction values as the original loop. It leaves the loop at the same point, and no division it adds traps. This is a refinement: the original loop is the abstract specification.
- **Fix-up and bound together.** The main loop leaves fewer than `factor` iterations to the fix-up.
- **Recogniser.** A loop is accepted only if its increment is linear and its bound is the same in every iteration. The recorded `op` is the op of the accepted increment.
- **Pass driver.** The walk ends, and every innermost loop the recogniser accepts reaches the Duff unroller exactly once.
- **ia32 finish.** A rewritten Sub gives the same result and the same flags its users read.
- **Verifier.** It reports exactly the register assignments that break a constraint.

## 2. Plan

The modules, most important first. The ones that exist are marked.

1. `TarvalArith` (exists): W-bit signed arithmetic. It is shared by the loop and backend modules.
2. `LoopShape` (exists): the recognised loop shapes (a record per loop), `Step`, `Cond`.
3. `CountedLoop` (exists): **the abstract specification**, the original loop.
4. `DuffUnroll` (exists): the transformed code. It composes `LoopShape`. Through `INSTANCE CountedLoop` it states the refinement `Refines`.
5. `Recogniser` (exists): `determine_lin_unroll_info` and `check_phi` over the Phi's predecessors in every order.
6. `Ia32Finish` (exists): Sub against Neg+Add and against Stc/Not/Adc/Cmc, and ShlD against ShrD, on W-bit operands with CF/OF/SF/ZF.
7. `MipsLowerAdd64` (exists): `mips_lower_add64` against 2W-bit addition.
8. `ValidBase` (exists): the recursive `is_valid_base_` with its shared `visited_base` stack, and the store collection of `get_all_stores`. `Invariant` is the spec's loop-invariant bound to check it against. `Recogniser` uses it for the bound.
   `LoopCfg` (exists): the control-flow checks of `determine_lin_unroll_info` on a small graph of blocks: the header by dominance, the Cond's targets, the exits, the choice of the Cmp. `Recogniser` uses it for the loop's shape.
   `PhiCycle` (exists): `climb_single_phi` and the Phi-cycle search `phi_cycle_dfs` of `is_valid_incr`. `Recogniser` uses it for increments given as Phi webs.
9. `BeVerify` (exists): `be_verify_schedule`, `be_verify_register_pressure` and `be_verify_spillslots` on a block, then `be_verify_node` with `check_reg_constraint` on each node, then the block register-allocation walk.
10. `VfDepth` (exists): `vl_init` and `vl_compute_depth` on small Theta/Eta graphs. Liveness: the worklist empties. `vl_node_copy_depth`, `vl_exact_copy` and `vl_exchange` are left out: nothing in this tree calls them (see §Not modelled).
11. `PassDriver` (exists): the loop-tree walk of `duplicate_innermost_loops`: which loops reach the Duff unroller, and with which factor.

Runs, by name (at most 12 in total):

| Run | Status | Expect | Module | What it checks |
|---|---|---|---|---|
| `duff_pass` | exists | pass | MCDuffUnroll | see §3 |
| `duff_wrong_loops` | exists | violation | MCDuffUnroll | see §3 |
| `recogniser_pass` | exists | pass | MCRecogniser | see §4 |
| `recogniser_spec` | exists | violation | MCRecogniser | see §4 |
| `ia32_pass` | exists | pass | MCIa32Finish | see §5 |
| `ia32_negadd` | exists | violation | MCIa32Finish | see §5 |
| `mips_add64` | exists | pass | MCMipsLowerAdd64 | see §6 |
| `beverify_pass` | exists | pass | MCBeVerify | see §7 |
| `beverify_wide` | exists | violation | MCBeVerify | see §7 |
| `beverify_def_early` | exists | violation | MCBeVerify | see §7 |
| `vfdepth_pass` | exists | pass | MCVfDepth | see §8 |
| `passdriver_release` | exists | violation | MCPassDriver | see §9 |

## 3. The Duff unroller model

### How the model corresponds to the code

`DuffUnroll` executes the code that `unroll_loop_duff` produces for one loop.

The loop is a record. Its fields:

| Field | Meaning |
|---|---|
| `shape` | the increment form: Add, Sub(i,c), Sub(c,i) or Mul |
| `side` | the side of the Cmp that `i` is on |
| `rel` | the relation of the header compare |
| `init` | the value `i` enters the loop with |
| `bound` | `N` |
| `c` | the increment operand |
| `initValid` | whether the entry value is a valid base |
| `onTrue` | whether the true Proj of the header Cond leads into the loop (`in_loop_target` of `get_false_and_true_targets`) |

The record holds what `linear_unroll_info` records, plus the entry value and the orientation of the header Cond. `Cond` is the header test: the body runs when the Cmp's outcome is the Proj into the loop. `update_header_condition` only replaces `N` in the Cmp and keeps the Cond, so `MainHeader` tests the new bound under the same orientation (`CondWith`).

`pc` names the block being executed:

| `pc` value | Block |
|---|---|
| `header` | the updated header |
| `body` | the main chain |
| `switch`, `swbody` | the switch fix-up |
| `fixhdr`, `fixbody` | the loop fix-up |
| `exit` | the block after the loop |
| `trapped` | a DivRL trapped |

`k` counts the copies left in a chain.

The compile-time parts are operators, and each is translated from its function:

| Function | Operator(s) |
|---|---|
| `create_abs` | `CreateAbs` (shift/eor/sub, so that abs(MinInt) = MinInt) |
| `is_less` | `IsLess` |
| `update_header_condition_add` | `UpdateHeaderConditionAdd` |
| `update_header_condition_mul` | `UpdateHeaderConditionMul` |
| `create_r_pow` | `CreateRPow` |
| the residue and compare chain of `create_fixup_switch_header` | `SwitchRes`, `SwitchCount` |
| the switch bit cleared in `check_phi` and `determine_lin_unroll_info` | `UsesSwitchFixup` |

The graph surgery (node duplication, rewiring of Phis and keep-alives) is abstracted to the control flow it produces:
- a main chain of `Factor` copies with one test;
- `Factor-1` chained copies entered at the position the compare chain selects;
- a copy of the original loop on the exit edge.

`CountedLoop` is the abstract specification: the original loop. `parity` flips on every body run, so a run of the body that leaves `i` unchanged is still a visible step. The refinement mapping is the identity on `loop`, `i` and `parity`. `st` is `exit` at `exit`, a value outside the specification (`trap`) at `trapped`, and `run` elsewhere.

### Runs

All runs use `W = 6` and `Factor = 4` (the default `DUFF_FACTOR`).

- **`duff_pass`** (pass; `TypeOK`, `FixupHandlesResidue`, `Refines`, `Progress`). The specification is `FairSpec`, `Spec` with weak fairness on `Next`. The domain:
  - Add and Sub(i,c) loops;
  - both Cmp sides and all four relations;
  - entry values -4..12, bounds 0..12, c in -3..3;
  - both fix-ups;
  - only loops whose increment moves `i` towards the bound;
  - only loops entered on the true Proj.

  The domain gives loops that run zero times and remainders 0..3. No value wraps around. About 128k states, about 12 s with the temporal properties.

  It shows three things. The unrolled code, with either fix-up, runs the body exactly where the original does. The main loop hands fewer than 4 iterations to the fix-up. And the unrolled code does not stall: `Progress` is `CountedLoop`'s `Fairness` (`WF_vars(Next)` of the original loop) under the same refinement mapping. It holds when the unrolled code goes on to the next body run or the exit whenever the original would. `Refines` alone is safety, and is also met by code that loops forever between headers without a body run. A loop fix-up whose exit leads back into the unrolled header, instead of the block after the loop (`rewire_post`), is such code; it breaks `Progress` and not `Refines`.
- **`duff_wrong_loops`** (violation, `Refines`). The domain `WrongLoops` joins four kinds of loop that the recogniser accepts and the unroller transforms wrongly. TLC stops at the first counterexample. Each kind also violates `Refines` on its own, with `Loops <- MulLoops`, `NegBoundLoops`, `RSubLoops` or `ExitOnTrueLoops` in the same configuration:
  - *`i *= 2`.* For `i = 2; i < 16; i *= 2` the new bound is `((16/4^2)*2)*2 = 4`. So 2 < 4 enters a chain of four copies, and the fourth runs at `i = 16`.
  - *A negative bound.* For `N < i`, `i += -3`, `N = -12`, `i = -11`:
    the main loop does not enter, the residue `(-11 - |−12|) + 2` selects 0 copies, and so the one iteration of the original loop is lost.
  - *`Sub(c, i)`.* The recogniser accepts `i = c - i` as SUB. The unrolled chain runs the body where the original loop has left.
  - *A loop that leaves when the compare holds.* `for (i = 0; ; i++) { if (i >= n) break; ... }` enters its body on the false Proj. Neither the recogniser nor `is_less` (line 1889) looks at which Proj leads into the loop. So `is_less` sees `>=`, and the new compare is `i >= n + 3`. With `n = 6` the new bound is 9, and the main loop makes three trips of four at `i = 0, 4, 8`: 12 runs of the body where the original runs 6.

### Bounds

W = 6 gives the values -32..31. That is wide enough for the passing domain's values and new bounds (-9..21) to stay in range. It is small enough that wrap-around and `factor^c = 0` happen at small `c` in the other domains. They are the 6-bit image of the 32-bit cases (for example `4^16 = 0` on 32 bits). Factor 4 gives remainders 0..3 and switch chains of every length 0..3.

### Fairness

The runs check safety only (invariants and the refinement's `[][Next]_vars`). Every state of the transformed code has at most one successor. The runs end at `exit` or `trapped`, so `CHECK_DEADLOCK FALSE`: the code falls through after the loop.

## 4. The recogniser model

`Recogniser` runs `determine_lin_unroll_info` step by step, from the header compare onwards.

The header compare is a record. It holds two operands, the name `cfg` of the loop's control-flow graph in `LoopCfgs`, and the name `loop` of its bound graph. `DetermineStart` and `CheckBound` read the verdicts of `LoopCfg` on the graph from two tables evaluated once per graph: `CfgStart` (the early returns at lines 1003-1020 and a Cmp with one of the four relations) and `CfgMultiExit` (`has_multiple_loop_exits`, line 1077). An operand is a Phi with a sequence of predecessors, or another value. Each node carries only the facts the recogniser tests:

| Field | Code |
|---|---|
| `binop`, `op` | `is_binop`, and Add/Sub/Mul/other for `binop_to_op` |
| `hasPhi` | the Phi being checked is an operand, directly or through a cycle |
| `other` | the other operand is `is_Const`, a valid base, or neither |
| `inLoop` | `block_is_inside_loop(get_block(node), loop)` |
| `base` | `is_valid_base(node, loop)` |

The variables are the fields of `linear_unroll_info` the decision reads (`op`, and `phiSide` for `phi`/`bound`), plus `ret` and the locals of `check_phi` (`idx`, `incrPredIndex`, `unrollability`).

There is one action per step:
- `DetermineStart`
- `CheckPhiReject` and `CheckPhiStart`
- `CheckPredIncr` and `CheckPredOther`, one loop iteration each
- `CheckPhiEnd`
- `CheckBound`

`info` lives on the stack of `duplicate_innermost_loops` and is not initialised, so `Init` lets `op` start at any value.

The reset-and-break for a second increment (lines 918-921) cannot run. An increment uses the Phi, so it is inside the loop, and a Phi with two predecessors inside the loop is rejected at line 900. The model therefore has no action for it.

The Phi's predecessors keep their `base` bits. The bound, the Cmp operand that is not a Phi, is the node `"N"` of a small IR graph, `LoopGraphs[hdr.loop]`, and `BoundBase` decides it with `ValidBase`'s `IsValidBase` (lines 1068-1073). The graphs are named by a key so that the header records stay small.

### `LoopCfg`

A control-flow graph is a record of blocks: each block's successor blocks in the order of its outs, whether it ends in a Cond on a Cmp, and `get_irn_loop` of each block (never NULL: a block in no loop belongs to the root). It also holds the outer loop of each loop, the examined loop with its elements in order, and the Cmps among the header's outs, each with two bits: whether its relation is one of `<`, `<=`, `>`, `>=`, and whether it is the selector of the header Cond.

| Code | Operator |
|---|---|
| `is_inner_loop`, `block_is_inside_loop` (61-77) | `IsInnerLoop` (RECURSIVE), `BlockIsInsideLoop` |
| `block_dominates` (not in this tree), `get_Block_idom` | `BlockDominates`: every path from the start block to `b` passes `d`, by Graphs' `Descendants` of the graph `Without` `d`; `Idom` |
| `block_dominates_loop` (79-95) | `BlockDominatesLoop` |
| `get_loop_header` (97-119) | `ClimbIdom` (RECURSIVE) and `GetLoopHeader` |
| `no_of_block_in_loop` (987-995) | `NoOfBlockInLoop` |
| `get_false_and_true_targets` (121-166) | `InLoopTarget`, `OutOfLoopTarget` |
| `loop_exits_from_block`, `has_multiple_loop_exits` (952-985) | `LoopExitsFromBlock`, and `HasMultipleLoopExits` with its early stop at two |
| the checks of `determine_lin_unroll_info` before the Cmp (1003-1020) | `LoopShapeOk` |
| its loop over the header's outs (1021-1046) | `HeaderCmp`: the first Cmp with one of the four relations |

`IsSingleEntryExitLoop` is spec 4.4's loop, with no counterpart in the code: every edge into the loop reaches one block, which is the source of the loop's only exit edge.

`MCLoopCfgs` has ten graphs of a loop `L`:
- `single`: `while (i < n) { body }`, and `body_first`, the same loop with the body block listed first;
- `two_exits`: a `break` in the body;
- `self_pred`: an `if` in the header whose branch goes straight back to it;
- `do_while`: the exit test at the bottom of the body;
- `one_block`: a loop of one block;
- `irreducible`: a loop entered at two blocks, so no block dominates it;
- `nested`: the loop inside an outer loop `O`, leaving to a block of `O`;
- `mux_first`: a header whose first good Cmp is a Mux's, with the exit test second;
- `eq_first`: a header whose first Cmp is an `==`, with the exit test second.

`recogniser_pass` takes the small Phis with every graph, and the rest of the headers with `single` and `two_exits`.

### `ValidBase`

A graph is a function from node names to records: the node's kind, its inputs, whether its block is in the loop, the alias class of an address, and for a call its callee, purity, whether it has a linktime graph, and the classes it writes and reads. Two addresses may alias exactly when their classes are equal; this stands for `get_alias_relation`.

| Code | Operator |
|---|---|
| `get_all_stores`, `check_for_store_`, `walk_graph_aliasing` (lines 427-585) | `AliasCandidates`: the addresses of the loop's Stores, and for each call in the loop `CallCandidates` |
| `walk_call_for_aliases` (474-534) | `CallCandidates`: a callee with a graph adds the classes it (and what it calls) writes; one without adds only `ParamLoc` of each parameter: the address of a loaded parameter, or the address of the call that produced it |
| `is_aliased` (391-424) | `IsAliased`: for a Load its address, for a Call the callee's address |
| `is_valid_base_` (620-728) | `VB`, with `CallBase`, `LoadBase`, `PhiBase` for its three cases and `AllVB` for its loops over parameters and Phi preds |
| `visited_base` (587-616) | the set `vis` threaded through `VB`: a node visited once in the call is refused the second time, because the stack is only freed by `is_valid_base` |

`Invariant` is the spec's definition (section 4.4), with no counterpart in the code: a node is loop-invariant when it is outside the loop, a constant, a load of a class nothing in the loop writes (through any call), a pure call that reads nothing the loop writes, a Phi with a single input, or an operation on invariant nodes.

`get_all_stores` resets `alias_candidates` when it recurses into a child loop (line 554). It is only called on the loop of an innermost loop's header, which has no children, so that reset never runs; `ValidBase` has no child loops.

`MCLoopGraphs` has 16 bound graphs:
- a constant, a parameter, and an Add inside the loop;
- a global load with no store, a store to it, a store to another class;
- the load with a call that writes the global: external, with a graph, or external and passed the loaded value;
- a Conv of the load with a store;
- a load through a loaded pointer, with and without a store to the pointer;
- a pure call reading a global the loop stores to, a pure call `f(v, v)`, an impure call;
- a Phi in the loop of two constants.

### `PhiCycle`

`is_valid_incr` looks for the loop's Phi among the increment's operands, either directly or through a web of Phis that the body's branches create. A pred with a `web` field stands for the node `"incr"` of the small graph `PhiWebs[p.web]`. In that graph the loop's Phi is `"h" = Phi(init, incr)` and `incr = x + c`. `Recogniser`'s `HasPhi` asks `NodeToCheck` whether the Phi is found; a pred without a web keeps its `hasPhi` bit.

| Code | Operator |
|---|---|
| `climb_single_phi` (738-745) | `ClimbSinglePhi` |
| `phi_cycle_dfs` (747-792) | `PhiCycleDfs` and `DfsPreds`, threading a record of `foundCycle`, `valid`, `outside` and the stack, which is never popped. `OutsideEdge` is the edge to a node that is no Phi; `LeaveCheck` is the test after the loop |
| `check_cycle_and_find_exit` (795-816) | `CheckCycleAndFindExit` |
| the search for `node_to_check` in `is_valid_incr` (830-866) | `NodeToCheck`: direct first (right wins over left), then the cycle check |

`IsPhiOnAllPaths` is the spec's induction step, with no counterpart in the code. The operand is the Phi itself, or a Phi whose web, not passing through the loop's Phi, merges only Phis.

`MCPhiWebs` has seven webs:
- `direct`, `single` and `merge`;
- `join`, where `p = Phi(h, v)` can be `v`;
- `branch`, `branch_rev` and `branch_same`, which are `p = Phi(h, r)` with `r = Phi(h, v)`, `Phi(v, h)` or `Phi(h, h)`.

Each web is an Add increment in a Phi with an entry value, in both orders, and the bound is a constant.

`recogniser_pass` takes the first two Phi kinds with every graph on either side of the Cmp, and the many-Phi headers with the constant and the Add graph.

### Runs

- **`recogniser_pass`** (pass; `TypeOK`, `AcceptedIsCountedLoop`). The domain:
  - every 2-predecessor Phi over 30 predecessor kinds, integer or not;
  - 3-predecessor and 1-predecessor Phis over 5 representative kinds;
  - a Phi on the left, on the right, or on both sides;
  - a bound from the graphs above;
  - an Add increment through each Phi web of `PhiCycle`, before or after the entry value;
  - each control-flow graph of `LoopCfg`.

  About 245k states, 36 s.

  It shows the following for every accepted loop:
  - it has exactly one increment;
  - its bound is a valid base;
  - it is entered at one block, and its only exit edge leaves from that block, as the Duff unroller's rewiring of the header assumes. This holds for a loop with a `break`, an exit at the bottom, two entry blocks, or the body block listed first, because the header checks and the exit count reject them between them;
  - the switch fix-up is kept only for an integer Phi whose other inputs are valid bases.

  This holds even though, with two Phis, `ret` collects the first Phi's bits before `phi` and `bound` are overwritten.
- **`recogniser_spec`** (violation, `AcceptedAsSpec`). `AcceptedAsSpec` is spec 4.4's condition on a Duff loop: the switch fix-up only for an Add or Sub step (`SwitchOnlyForAddSub`), a loop-invariant bound (`AcceptedBoundInvariant`), an increment that is a step of the induction variable (`AcceptedIncrIsStep`), and the header's exit test as the compare (`AcceptedCmpIsExitTest`). The code breaks all four; TLC reports the first, and each part is violated on its own over the same headers.
  - *Stale `op`.* Take a Phi with predecessors `<<i * 2, a + b>>`: the Mul increment is accepted, and `op` becomes MUL; then `is_valid_incr` on the entry value `a + b` calls `binop_to_op`, which sets `op` to ADD before that node fails the Phi test; so the test `op == MUL` at line 1074 misses, and the switch fix-up is kept for a Mul loop.
    `update_header_condition` also reads `op`, so it computes the Add bound for that loop. Header Phis are built with the entry edge first, so the bug needs a predecessor order that a transformation has reversed, or a header with several entry edges.
  - *A bound that changes.* `is_valid_base` accepts three bounds that are not loop-invariant:
    - a Phi in the loop header of two constants (`n = 10` before the loop, `n = 3` in its body): Consts live outside the loop, so no pred counts as inside it (line 693);
    - a load of a global while the loop calls an external function without parameters that writes it: a callee without a graph adds only its parameters' addresses (line 482);
    - a pure call that reads, through its parameter, memory the loop stores to: `is_aliased` on a Call compares the callee's address (line 675).

  - *An increment that is not a step.* `phi_cycle_dfs` `return`s where it should `continue` (line 785): a pred that is a Phi already on the stack ends the whole call. In the `branch` web, which comes from `for (...; i++) { if (a) {} else if (b) {} else i = v; }`, the search reaches `h` through `p`, then meets `h` again as `r`'s first pred and returns. So `r`'s edge to `v`, which would make the web invalid, is never looked at, and the loop is accepted although `i` can become `v` (`AcceptedIncrIsStep`). With `r = Phi(v, h)` (`branch_rev`) the same loop is rejected: acceptance depends on the order of the preds.

  - *The wrong compare.* The loop over the header's outs takes the first Cmp whose relation is one of the four (line 1036). It never checks that this Cmp is the selector of the header Cond. For `while (i < n)` whose header also computes `x = (i < m) ? a : b`, with the Mux's Cmp first among the block's outs (`mux_first`), the loop is accepted with `i < m` as its compare. `update_header_condition` then rewrites that Cmp, which is not the Cmp the loop exits on.

    A pure `f(v, v)` is refused because `v` is visited twice; that is conservative and no property is about it.

## 5. The ia32 finish model

`Ia32Finish` executes the replacement code that `ia32_finish_irg` emits for one node. The node is a Sub, an Sbb or a ShlD with immediate count, whose flags have a set of users. A user has the condition code `get_ia32_condcode` returns for it, and a bit `sbb`: it is the Sbb of a lowered 64-bit subtraction, which takes the flags as its borrow. An Sbb has no condition-code attribute, so the code read for it is whatever that memory holds, and the domain gives it every code. (`get_ia32_condcode` is not in this tree; a build that asserts the attribute kind would abort instead.) The variables:
- `code`: the remaining emitted instructions;
- `reg`: the destination register;
- `flags`: CF/OF/SF/ZF.

`Finish` does the rewrite:
- `SubToNegAdd`: Neg+Add; or Not/Stc/Adc/Cmc; or Not/Cmc/Adc/Cmc for Sbb;
- `ShlDToShrDImm`;
- `Handle2Addr`.

One `Exec` action per instruction kind then runs the code with x86 semantics on W-bit values. The properties compare the outcome with the original instruction:
- `ResultPreserved`: the result value;
- `FlagsPreserved`: every condition its users read, and the borrow an Sbb user reads (`UserReads`).

- **`ia32_pass`** (pass; `TypeOK`, `ResultPreserved`, `FlagsPreserved`). W = 4, every operand pair and carry-in, flag users drawn from {} plus one or two condition codes, and an Sbb user (with each code it may be read as) beside an `equal` user. Neg+Add is excluded when the subtrahend is MinInt or an Sbb reads the flags. About 145k states, 5 s.
- **`ia32_negadd`** (violation, `FlagsPreserved`). Neg+Add is used when no user reads the carry. For `a = b = MinInt`, the Sub has OF = 0 while Neg+Add has OF = 1, so a `less` user branches the other way. With an Sbb user whose code is read as anything but a carry test, Neg+Add also gives CF = (b != 0) instead of the borrow a <u b: for the 64-bit `a - b` with low words 3 and 1, the high word is decremented by a borrow that did not happen (line 87).

W = 4 covers every sign and carry combination, including MinInt. The 32-bit cases are the same up to the width.

## 6. The MIPS double-word Add model

`MipsLowerAdd64` lowers the Adds of a small double-word graph one at a time, in any order its operands allow. `s1 = x + y` and `s2 = y + x` can go in either order, and `s3 = s1 + s2` comes last. Each lowering computes:
- the low word;
- the carry as `res_low < right_low`, as the `Mux` of lines 290-294 does;
- the high word.

`LoweringCorrect` states that every lowered node's two words make up the double-word sum of its operands, wrap-around included. The run `mips_add64` uses W = 3 and all input values 0..63 (4,096 pairs), so every carry case occurs.

## 7. The register-allocation verifier model

`BeVerify` runs the backend's checks on one block, one after the other: `be_verify_schedule`, `be_verify_register_pressure`, `be_verify_spillslots`, `be_verify_node` on each node, then `verify_block_register_allocation`. The callers of these entry points are not in this tree, and the checks share no state, so their order does not matter. Each verifier has its own `problem_found`, and the model keeps them apart (`schedProblem`, `pressureProblem`, `spillProblem`, `nodesFine`, `problem`). The block is a record:
- its schedule. Each node is the value it defines, its inputs in order, and its flags: Phi, control-flow op, Keep, CopyKeep, `not_scheduled`, in this block, without users. It also has a timestep;
- the block's nodes that are not in the schedule, each with its `not_scheduled` flag;
- the live-out and live-in sets;
- each value's register (or NULL), width, alignment requirement, and whether it has users;
- its memory nodes: spills, reloads, a MemPerm and its Projs, with their entities, memory inputs and schedule positions. Only the blocks that test the spill-slot verifier have them, and those blocks have no other nodes.

The values belong to one register class, the first `ClassRegs` of the `NRegs` registers of the file. `check_reg_constraint` tests a register's index in the class, and the walk indexes `registers[]` by the global index; for this class the two are equal.

The variables are the code's `registers[]` array and `env->problem_found`, plus the walk's position. The position is the node being checked, the live-out loop, the schedule position, or the live-in loop. `nodesFine` is the and of `be_verify_node`'s results.

The actions follow the loops of the functions:
- `ScheduleNode`: one node of `verify_schedule_walker`, forwards. `ScheduleWarn` is the or of its checks: the node is in another block; its timestep does not increase; it is flagged `not_scheduled`; it is a Phi after a non-Phi; it is a second control-flow node, or a node other than a Keep after one (line 325: a CopyKeep there is reported); an input scheduled in this block has a timestep that is not smaller; it has no users; or it is a Keep or CopyKeep whose inputs do not include the node before it. The Keep check first skips back over Keeps, then over Phis, on the schedule's ring through the block (`SkipKeeps`, `KeepPredFound`). The walker's bitset check for a node scheduled twice is left out, because a node has one schedule slot;
- `CheckSchedule`: `check_schedule`. A node is scheduled exactly when it is not flagged `not_scheduled`;
- `PressureEndOfBlock`, `PressureNode`, `EndPressure`: `verify_liveness_walker`. It starts from the live-out set. It applies `be_liveness_transfer` over each non-Phi node backwards: the node's value dies and its inputs become live. It compares the count with the class's allocatable registers, and stops at the first Phi;
- `SpillReload`, `SpillInterference`: `be_verify_spillslots` on the block's memory nodes (`blk.mem`: spills, reloads, a MemPerm and its Projs, each with its schedule position). `SpillReload` is `collect_spills_walker` on one reload, in any order, because the walker follows the graph. A reload without a memory input is a problem. Otherwise `Collect` follows the memory input (`collect`, `collect_spill`, `collect_memperm`, with `CollectArgs` for the MemPerm's inputs) and compares each entity with the one its reader expects. It records each spill and Proj once in `slots`, with the entity of its first reader. `SpillInterference` is `check_spillslot_interference`: two recorded nodes of one entity that `my_values_interfere` (`MyValuesInterfere`). Inside one block, `value_strictly_dominates` (not in this tree) is "scheduled earlier", with a Proj at its MemPerm's position (`SDom`, modelled from the spec). `check_lonely_spills` only warns and changes nothing;
- `VerifyNode`: `be_verify_node` on one node: `check_reg_constraint` on its output under its own requirement, and on each input under the node's requirement at that input (`CheckRegConstraint`: the width fits the class, the last register is in the class, the alignment holds). The input's value must be at least as wide as that requirement (lines 145-165). A Phi's requirement at its inputs is its own (`be_set_phi_reg_req`; `InWidth`, `InAligned`). A non-Phi's requirement is taken to be what the value it reads requires. A Phi wider than its input is reported both here and by `check_input_constraints` (line 741). Limited sets and `must_be_different` are abstracted away: every register is allocatable and different from the inputs;
- `EndNodes`: the walk starts;
- `UseLiveEnd`: one live-out value, in any order, because `be_lv_foreach` visits a hash set;
- `SchedNode`: one scheduled node, backwards, with `value_def`, the output and input checks, and `value_used` for every input of a non-Phi;
- `DefLiveIn`: one live-in value;
- `CheckEmpty`: the final test that the array is empty;
- `SchedNodeCrash`: the Phi check dereferences the NULL register of an input.

The reference is the spec's rule (section 4.6, "Register allocation"). `LiveAfter` computes liveness backwards from the live-out set. `RegConflict` holds when a definition (used or not) writes a register that another live value holds, or when two live-in values share one. `BadPlacement` holds when the registers of a value defined in the block, or read by a non-Phi, leave its class or break its alignment. A Phi input's own placement is for its defining block to check. `PhiNarrowInput` holds when a Phi input is narrower than the Phi. `VerdictExact` states that at the end of the walk, `be_verify_node` has failed or `problem` is set exactly when one of these holds: a conflict, a value without a register, a Phi input in another register than the Phi or narrower than it, or a bad placement.

Two more properties are about the first two verifiers. `ScheduleSound` states that a schedule `be_verify_schedule` accepts is legal (`LegalSchedule`): Phis come first, a non-Phi's inputs from this block's schedule come before it, and only Keeps follow the control-flow node. Positions, not timesteps, define this order. The walker compares timesteps, so it relies on its own check that timesteps increase. `PressureExact` states that on an accepted schedule, the pressure walk reports a problem exactly when at some point of the block (`LiveAfter(p)`, p = 0..Len) more values are live than the class has registers. Stopping at the first Phi loses nothing there. `VerdictExact` now applies to blocks whose schedule is accepted. On an illegal order, `LiveAfter` is not the liveness the allocation walk sees.

`SpillSlotsExact` is about the spill-slot verifier (spec 4.6, "Spill slots", and 8). It states that the verifier reports a problem exactly when one of these holds:
- a reload has no memory input;
- a spill or MemPerm output on a reload's memory path (`Claims`, from `Reach`) is in another entity than its reader expects;
- two of them in one entity have overlapping live ranges (`LiveAcross`: one is written, no earlier than the other, while the other still has a reader).

It must hold whatever order the reloads are met in, although the recorded entity is the first reader's.

`MCBeVerify` has five small schedules, whose nodes are ordinary and timed by position:
- a use of two values;
- a live-through value, a dead definition, and an input used twice;
- a Phi of a value from another block;
- two live-out values;
- a loop Phi fed by a value of the block.

Each schedule is taken with every assignment of its values to a register of the class or NULL, a width, and for a two-register value an alignment requirement. Every value's registers lie in the file of 3. The live-in set is computed from the schedule, and the users from the uses and the live-out set.

`SchedPrograms` has a five-node block: Phi `a`, `b`, `c`, a Keep of `c`, and a Cond on `c`. It is taken in every order of its nodes (120), with timesteps by position or carried over from the legal order. There are also variants: a node of another block, a node flagged `not_scheduled`, a dead node, a node left out of the schedule (flagged or not), and the legal order with a further value live through the block. `CfKeepBlock` ends the block in a Cond whose Proj `f` is taken by a Keep or by a CopyKeep defining `k`. Both follow the Cond, and only the Keep is legal there. These have one fixed register each.

The spill blocks have no other nodes, and their memory nodes use entities E1 and E2:
- `TwoSpills`: two spills and their reloads, in all 6 orders with each spill before its reload, and with every entity on each node;
- a reload without a memory input;
- `MemPerms`: two spills moved by a MemPerm whose input and output entities are each a permutation of {E1, E2}, as spill-slot coalescing builds it (spec 4.5). Its two Projs are read in either order, with an optional third reader: of the first spill after the MemPerm, or of the first Proj again.

- **`beverify_pass`** (pass, `VerdictExact`, `ScheduleSound`, `PressureExact`, `SpillSlotsExact`). The class is the whole file of 3 registers. Values have width 1 or 2, and a two-register value has users. There are about 4,600 blocks and 51k states. The verdict is exact for every order of the live sets, and `be_verify_node` catches misaligned values and Phis wider than their inputs. In the legal five-node order, exactly 3 values are live before the Cond, so the pressure check is tested at its limit. With the extra live value, the limit is exceeded. A reordered schedule with stale timesteps passes every check but the timestep check. A CopyKeep after the Cond is reported and a Keep is not; a walker that also let CopyKeeps follow the Cond would break `ScheduleSound`. Overlapping spills of one entity, in either order, are reported. The spill slots a MemPerm swaps are not reported, because its Projs are written at the MemPerm, after its inputs' last read. A second reader of a Proj with another entity is reported, because `collect_memperm` compares before it looks the Proj up.
- **`beverify_wide`** (violation, `VerdictExact`). The class has 2 of the 3 registers, and values have width 1 or 2, with or without users. *The width off-by-one (line 111):* TLC's trace is the loop Phi `a` and its input `b`, both two registers wide, in r1. They also occupy r2, which is outside the class. `check_reg_constraint` warns only when `1 + 2 - 1 > 2`, so it accepts. The walk, indexing `registers[]` by global index, sees no conflict, and nothing is reported. With the test corrected to `reg_index + width > n_regs`, this configuration passes: the next bug needs three registers in the class.
- **`beverify_def_early`** (violation, `VerdictExact`). The class is the whole file of 3, and values have width 1 or 2, with or without users. *The early return of `value_def` (line 816):*
    - In program 2, `b` in r0 is live across `c`.
    - `c` occupies r1-r2, and is defined but never used.
    - `a` is live through the block in r2.
    - `c` overwrites `a`, but `value_def(c)` finds r1 free and `c` without users, and returns at once.
    - r2 is never looked at, and nothing is reported.

Not modelled: further register classes, limited register sets, `must_be_different` and virtual registers; `non_ssa_regs` is empty in both runs. Also not modelled:
- `check_value_constraint` (modes);
- `collect_memphi`, and the Phi and End users in `my_values_interfere`. A memory Phi joins its predecessor blocks, and a one-block model has none;
- `be_liveness_check`. It compares the cached liveness with a fresh `be_liveness_compute_sets`, which is not in this tree. Its NULL read at line 917 is listed as a hazard.

## 8. The loop-depth model

`VfDepth` models `vl_init` and `vl_compute_depth` (`src/unnamed/part_002`, lines 97-175). A graph is a record: the Return, the kind of every node (Theta, Eta or another op), its inputs in order (a Theta's are `<<init, next>>`), and each Theta's `get_Theta_depth`.

The variables are the visited marks, the depth of each node's `vl_node` (-1 for none), the FIFO `todo` list, and `stack`. The stack holds the calls of `vl_compute_depth` in progress: the node and the index of its next input. The recursion is a sequence of small steps:
- `VlInitPop`: one iteration of the `while` loop. It takes and erases the first entry of `todo` and enters it. Entering (`Enter`) returns at once on a visited node, or marks it and pushes a call.
- `Descend`: the recursive call on the next input. A Theta walks only its init (`Walked`).
- `FinishTheta`: queues the Theta's next at the back of `todo` and sets the Theta's known depth.
- `FinishOp`: any other node. Its depth is the largest depth of its inputs (0 with none), minus one on an Eta. An input without a `vl_node` fails `assert(vl_dep)`, and a negative Eta depth fails the last assert. Both set `failed`.

`MCVfDepth` builds 264 graphs: an outer loop `T1`, and optionally an inner loop `T2` inside it. The choices are:
- where the inner loop starts;
- what the inner step and exit test read;
- whether the outer step adds a constant or the inner loop's result;
- whether the outer exit test reads `T1` or a use `U` of `T1`'s next value;
- both orders of the inputs of the two steps and of the outer Eta.

The orders decide which node the walk meets first. For example, with the outer Eta's condition first and `U` in the exit test, the walk enters `T1` from its own next value `N1`. `N1` is then marked visited but unfinished, so `T1` must queue `N1` rather than read it.

- **`vfdepth_pass`** (pass, `DepthsCorrect`, `Terminates`). 6,552 states. When `todo` and the stack are empty, no assert has failed, and every node the Return depends on has the depth of its definition (`RefDepth`, recursive over the inputs). The loop always ends. The mutant that walks a Theta's next as well as queueing it (`WalkedBoth`) reads an unfinished node and breaks `DepthsCorrect`. The mutant that keeps the first `todo` entry breaks `Terminates`.

Not modelled: `vl_node_copy_depth`, `vl_exact_copy` and `vl_exchange`, which copy one depth to a new node for the passes that call them; no caller of any of them is in this tree, so there is no sequence of calls to model.

## 9. The pass-driver model

`PassDriver` models `unroll_loops` and `duplicate_innermost_loops` (lines 2909-3044). A loop tree is a function from loop names to records:
- the sons, in element order;
- the outs of the loop's own blocks, which `count_nodes` adds up over the sons (`CountNodes`, recursive);
- whether `get_loop_header` finds a header;
- `dli`, the result of `determine_lin_unroll_info` (`{}` for none). `Recogniser` models how that result is reached.

The recursion is a stack of frames, each one call with its locals `i`, `innermost` and `outermost`. The depth of a loop is the number of frames below its own, as its ancestors are exactly those frames. There is one action per way out of a call:
- `Descend`: the element loop meets a son and recurses;
- `NotInnermost`: a loop with sons returns;
- `UnrollLoop`: a release build, not the root, `count_nodes < maxsize`. `unroll_loop` returns at once, because `find_suitable_factor` returns 0, and so does the walker;
- `DuffSkip`: the Duff path on a loop without header, or on the root (depth 0);
- `Duff`: the Duff path on a loop with a header below the root; it calls `unroll_loop_duff` with `DUFF_FACTOR` when `dli` is not empty, which counts the loop in `n_loops_unrolled`.

The build is a choice: a `DEBUG_libfirm` build compiles `DEBUG_ONLY(goto duff)` in and skips the `unroll_loop` test. `DUFF_FACTOR` is `atoi` of an environment variable, and 0 when it is unset; `DuffFactor` applies the default 4 and the conversion to `unsigned` (16 bits in the runs, as TLC's integers are 32-bit signed).

`MCPassDriver` has 650 trees: a function without loops, one loop, two siblings, a nest of two, and a nest beside a sibling. Each loop is small (1 node) or large (3, with `maxsize` 3), with or without a header, accepted or not.

- **`passdriver_release`** (violation, `SpecDuffApplied`). In a release build, a single small loop that the recogniser accepts goes to `unroll_loop`, which does nothing; it never reaches the Duff unroller. Spec 4.4 and the spec's test 5 expect a small counted loop to be Duff-unrolled. A debug build unrolls it: the same configuration with `Builds = {TRUE}` passes. Only loops of `maxsize` nodes or more are Duff-unrolled in a release build.

No property is checked of the walk itself. On a tree that stays fixed, a loop handed over at most once and a walk that ends hold by construction. `DUFF_FACTOR` values of 1 and below reach `assert(factor > 1)` in `unroll_loop_duff`; this is listed as a hazard without a property.

Not modelled: after `unroll_loop_duff` has changed the graph, the loop tree is recomputed while the callers' frames go on iterating the old loops' elements. The loop-tree construction is not in this tree, so the model walks the tree as it was when `unroll_loops` started (a hazard in `PROJECT.json`).

## 10. Fairness

Most runs check safety only. `VfDepth`'s `Spec` and `DuffUnroll`'s `FairSpec` have weak fairness on `Next`. `vl_init` and the unrolled loop are plain loops and recursion on one thread, with no waiting and no input, so once a step is enabled it is taken. Each model is a sequential compiler step that ends, so the runs say `CHECK_DEADLOCK FALSE`: the program goes on after the modelled step.

## 11. Not modelled

- **Compile-time recursion in `create_r_pow` for negative multipliers.** It recurses about 2^64 times.
- **The full-unroll path.** It is disabled by `return 0`.
- **The MIPS and ARM stack frame code.** The offsets come from `be_sim_stack_pointer` and `be_abi_fix_stack_bias`, which are not in this tree. The code here only adds the IncSP nodes.
- **The test programs `cond_example.c` and `oo_inline_example.c`.** They are straight-line `main()` functions that build one graph each through the ircons API and dump it. `oo_inline_example` also inlines two calls and optimises every graph. Every state change happens inside those library functions, none of which is in this repository.
- **The ppc32 attribute accessors, the Makefile, the VHDL testbench and the headers.** They contain no state-changing code.

Components not yet modelled are listed in `PROJECT.json` with status `not_modelled` until they exist.
