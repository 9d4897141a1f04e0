# A TLA+ model of RCompiler

RCompiler translates a Rust subset to RV64 assembly.  This directory models the
compiler from the tokens of expressions and statements, and from the checked
syntax tree to the machine instructions: the parts in which a wrong step compiles
silently into a wrong program.  Paths below are
relative to `src/src/`.

## The system

    Lexer → Parser → three checkers → IRGenerator → FunctionInliner → Mem2reg
      → EliminateCriticalEdge → SCCP → CSE → ReplacePhiWithMoves
      → EliminateEmptyBlocks → Preprocessor → MemoryAllocator → ParameterDemoter
      → RegAlloc → FixupAfterRegAlloc → AssemblyGenerator

One sequential pass after the other rewrites one shared data structure
(`IRRootNode`: functions, blocks, instructions); the drivers in `test/` at the
root of the repository call them.  There are no threads and nothing is persisted;
the hard behaviours are long sequences of legal steps, state that is stale when
it is used, results that depend on the iteration order of hash tables, and
boundaries (the number of colours, the 12-bit immediates, the 128-byte inline
copy).

| component | state | operations | correct when |
|---|---|---|---|
| lexer | position | longest match | the tokens are the grammar's |
| **parser** | position, token list, nodes under construction | recursive descent, Pratt loop, attempts given up by exceptions | the tree is what the author wrote |
| scopes, types, checkers | scope tree, types, constants | three AST passes | every name is resolved, every accepted program is typed |
| **IR generator** | current block, loop stacks, `branch_ctx_`, `let_target_` | one visit per node | the lowered program does what the source does |
| **function inliner** | `inlined_callees`, name map per call | clone a callee into a caller | the program's meaning is kept, the rounds end |
| **dominator tree, mem2reg** | semidominators, frontiers, value stacks, `replace_map_` | phi placement, renaming, critical edges | every use sees the value last stored |
| **CFG, liveness** | `in_`, `out_` per block, worklist | `CalcInOut` | the least fixed point |
| **SCCP** | lattice, executable blocks, two worklists | fixed-point loop, four rewriting steps | the lattice is a solution, the meaning is kept |
| **CSE** | available keys of a block, renames | scan, final sweep | only equal addresses are shared |
| **phi ordering, phi eliminator** | `edges_`, `g_`, `deg_`, the queue | `AddEdge`, `Solve`, emission of moves | the moves are the parallel copy, before the jump |
| **empty-block eliminator** | predecessor lists of a scan | four threading passes | the meaning is kept, the scans end |
| **register allocator** | live sets, `InterferenceGraph` | walk, `Coalesce`, `Color`, frame layout | simultaneously live variables do not share a register |
| **interference graph** | `adjacency_`, `precolored_`, `phys_reg_`, counts, `move_pairs_`, `coalesced_`, `call_crossing_vars_` | build, `Coalesce`, `Color` | the colouring is proper |
| **memory allocator, parameter demoter** | `variable_storage_`, `has_calls_`, `address_` | storage of parameters, copies, renaming, addresses | no two values share a cell, no use reads a spoilt argument register |
| **assembly generator** | `a_reg_valid_`, `a_slot_valid_`, `ra_saved_`, `const_cache_`, fused compares, layout | one visit per instruction | every emitted instruction reads current values and does what it replaces |

Every pass reads what the one before left: SCCP leaves removed branches that the
phi eliminator meets, critical edges split by `EliminateCriticalEdge` are what lets
the moves of two successors stand in one block, the chains of one-move blocks
that inlining and phi elimination leave are what the empty-block eliminator
threads.  `RegAlloc::Visit` owns an `InterferenceGraph`, builds it from the liveness
of `CFG`, and hands the colours to `AssemblyGenerator` through `storage_type_` and
`address_`.  What can go wrong is listed, line by line, under `hazards` in
`PROJECT.json`.

## Modules

### IR and IRMeaning (IR/IR_node.h)

`IR` has the instructions and blocks: one record for all node classes, names as
tagged pairs, `removed` as the flag the passes set.  `IRMeaning` runs a program: the
numbers printed and the status of main, as a function of the numbers read.  A
run that takes more than `Fuel` blocks, reads past the input or branches on a value
nobody wrote has a meaning of its own, so a pass that loses a value or loops is
seen.  It also runs the machine instructions `Emission` leaves, on registers of
twice the width of a word and a stack that grows down: a function enters its
frame below its caller's, and allocas, slots and save slots are cells of it.  `Folding` is a fold whose evaluation does not nest
deeply; `Function` declares the function under optimisation.

### Parser (parser/node/expression.cpp, parser/node/statement.cpp)

A constructor under way is a frame of `stack`; a step reads up to the next call,
return or throw.  `mode` says which of these happened last.  An exception unwinds
the stack to the nearest frame that catches it (`Attempts`), which sets `pos` back
and reads something else (`SecondReading`): a struct expression as a path, an
expression with a block as one without, a statement as the value at the end of
the block.  A node has all its members from the start, as in the code, and
`Extended` copies it into its own left operand; `Tree` is what the later passes
read of it.  A program is a tree with a node for every pair of parentheses, and
`Written` (external: the language) is its tokens, so that what the parser returns
can be compared with what the author meant.  `MCParser` builds the trees, with the
parentheses the precedences of the language ask for.  Names, literals, types and
patterns are single tokens; `loop` parses like a block, `continue` like a literal,
and `mut` behind `&` is left out.

### Source and IRGenerator (parser/node, visitor/IR_generator)

`Source` is a typed syntax tree and what it means (external: the language, after
the checkers).  `IRGenerator` has one operator per visit; its state, a record, is
the generator's members.  An expression leaves the name of a cell, or no name and
a branch when `branch_ctx_` is active.  main returns a status whatever the source
says (`ResultType`); the main of every checked program declares no result.  Operators and not actions: nothing can be
observed between two visits, and the whole is checked by what the result means.

### Inliner, Mem2reg with DominatorTree, SCCP, CSE, PhiMoves, EmptyBlocks

One module per pass, one action per step of its loops: a call inlined or refused,
a block renamed, an edge list split, an entry of a worklist, a constant replaced,
an instruction scanned for a common address, a move appended, a block threaded.  `phase`
is the position in the pass.  What the code iterates in hash order is a choice
(the entries of a worklist that are queued together, the copies that may go
first); what it iterates in order stays in order.  `PhiMoves` is
`ReplacePhiWithMoves` for a whole function, with `PhiTopo::Solve` reduced to what
`PhiTopo` shows it does: some copy none waits for, or a cycle opened through a
temporary.  `DominatorTree` is the algorithm as coded, path compression included,
next to dominance by definition.  `ConstantFolding` is what SCCP computes of
constants.

`Execution` says what it is to execute the function a pass works on, in steps
instead of in runs of bounded length: a configuration is a block, a place in it,
the values of the variables, and what has been stored, called, loaded and returned
so far, with what memory and other functions gave, which may be anything.
`SCCPExecution` and `CSEExecution` state in these terms what the two passes
promise.  In `CSE`, `given` is the function as CSE was handed it, a history variable;
the type in the key of an address is whether it counts in an array or in a struct,
because an index of the model counts cells whatever their size.

### Frame (memory_allocator, parameter_demoter, step 6 of reg_alloc.cpp)

Three actions, one per pass.  `AllocateMemory` decides which parameters come in
registers and whether the function makes calls; `DemoteParameters` puts the
copies of those parameters in front of the entry block and renames every use;
`PlaceVariables` chooses which variables stay in memory (none, half or all), and
lays out the frame as one running sum over stack parameters, allocas and
variables.  Of the variables in registers at most one pair shares a register,
an operand of a compare and a result of a move behind it that do not interfere:
what else `RegAlloc` may do is the subject of `RegAlloc`.  Every value is one cell,
and every variable in a register has one to itself apart from that pair.

### Emission (IR_visitor/assembly_generator, codegen/instruction.cpp)

`Prescan` decides which compares are fused into their branch and the order of the
blocks; `WriteBlock` writes the machine instructions of a block, the prologue
before the first and, behind each, the jump that stands for falling through to the
next.  Variables in memory are cells at an offset from sp, so slots that overlap
overwrite each other; a call stores something into every save slot and spoils the
registers the parameters came in, so a use the demoter forgot reads garbage.
`EndEmission` replaces the function by its text, and the next comparison is
between the text and the program.  When a register is really saved and restored
is left to `CallSave`.

### Pipeline

The passes in the order of the drivers.  `Programs` is the set of programs to
compile, each with what it has to do for each input and the last phase to take
it through.  `Right` says that the program with the function as it is now does
that; the properties ask it at the end of every pass.

### InterferenceGraph (reg_alloc/interference_graph.cpp, driven by reg_alloc.cpp)

The variables are the fields of the class and the locals of `Coalesce` and
`Color`; `phase` is the position in the sequence build, `Coalesce`, `Color`.
The build actions (`SetPrecolored`, `Define`, `Use`, `RemoveEdge`,
`AddMovePair`, `CrossCall`) are the calls RegAlloc makes, in any number and
order within the bounds, so every graph is reached.  `CoalesceMerge` and
`CoalesceSkip` handle one move pair each, `StartColor` makes the working copy
without parameters, `Simplify` and `Spill` remove one node, `Select` colours one
node of the stack, `Propagate` handles one entry of `coalesced_`.  Iteration over
hash containers is a free choice; the worklist is a set, which covers every
order its content can have; nodes that compare equal in the spill order are
chosen freely.  `def_count_` and `use_count_` only occur as their sum, `weight`.
`interference` (the graph as built) and `rep` (who stands for a variable) are
history variables.

### Liveness (liveness_analysis/CFG.cpp)

`CalcInOut` for any control-flow graph and any def and use sets, with what
`RegAlloc::Visit` does before it.  The blocks start with whatever an earlier
analysis left in them; `ClearInOut` empties the sets, `BuildCFG` adds the edges and
fills def and use, and `CalcInOut` itself only resizes, so everything it promises
rests on that clearing.  The other caller, `Mem2reg`, runs once, on blocks that are
new.  `Enter` and `Leave` are the calls and returns of the depth-first search, `FirstPass` handles
one block of the postorder, `SecondPass` one block of the worklist; `Process` is
the shared lambda.  The order of successors and of the queue is free.  Only blocks the search reaches are promised to be
solved; an unreachable predecessor of a changed block is queued and processed
like any other.

### RegAlloc (reg_alloc/reg_alloc.cpp, CFG_builder.cpp)

Extends `InterferenceGraph` by the part of `RegAlloc::Visit` that drives it, and
by the execution of the result.  A function is a constant: its instructions
(result, variables read, kind), successors and parameters, and the live-out sets
that `Liveness` is about.  `VisitInstruction` is one iteration of the backward
walk, with everything it does to the graph; `NextBlock` starts the next block;
`Prune` deletes the edges taken for spurious, in all blocks; `CrossCalls` fills
`call_crossing_vars_`; `Allocate` is a step of `Coalesce` or `Color`.  Then the
machine (external) runs the allocated code: `holds[r]` is the set of variables
whose current value is in register r, and an instruction, a call and a move
change it as the processor would.  Argument registers survive calls, which is
what `CallSave` is about; variables without a register have cells of their own.

Operands that are neither promotable nor parameters are the one id `Mem`; an
instruction without a result has `NoVar`.  The difference matters: a store has a
result in `def_` (its cell), a void call or a branch has none.  `WellFormed` says
what the earlier passes guarantee: parameters are never written, every variable
is written before it is read, and the live-out sets solve the equations in the
reachable blocks (the walk visits unreachable ones too, with whatever
`CalcInOut` left there).

### PhiTopo and ParallelCopy (codegen/phi_topo.cpp, phi_eliminator.cpp)

`AddEdge` collects one source per phi node, `StartSolve` computes `deg_` and the
queue, `Pop`, `Visit`, `FollowCycle` and `CloseCycle` are the iterations of
`Solve`.  Each emitted move is executed on `env` at once, as the generated code
will do: names start with distinct values, so `env` shows for every name which
value it got.  The numbering of names decides the order of the queue and of the
scan; both are free choices here.  `ParallelCopy` is what phi nodes mean: all
results change at once.

### CallSave (IR_visitor/assembly_generator)

The generator emits blocks in layout order; the model executes an instruction
when it is emitted.  `m.valid` is `a_reg_valid_` and, for `Ra`, the negation of
`ra_saved_`; `m.slot_valid` is `a_slot_valid_` and `ra_slot_valid_`; `m.reg` and
`m.slot` are the hardware registers and save slots that hold the current value
(`Const` in `m.reg`: t3/t4 hold this function's constants).  `m.stale` collects
the kinds of stale use that were executed.  The emitting helpers
(`EnsureARegValid`, `SaveRegister`, `FlushSavedRegisters`, ...) are operators
from machine to machine, and an action composes them in the order of the code.

A block is emitted once but entered from any predecessor.  The model keeps the
tracker from the block emitted before and lets the save slots hold anything on
entry (`StartBlock`); that the registers themselves may be assumed restored is
what `ExitsRestored` checks at every exit, so the argument is by induction over
the executed path.  A called function is external: it changes every
caller-saved register and leaves the caller's frame alone.

Two constants switch program shapes on: `LargeCopyByAReg` (a copy of more than
128 bytes through a pointer in an argument register) and `CachedFrameSize` (a
frame size that equals a constant the previous function cached).  With the first
`CanonicalValue` fails, with the second `ConstantsPreloaded`; see the disagreements.

## Runs

| run | checks | bounds |
|---|---|---|
| ig_coloring | `ProperColoring`, `CoalescedNeverSpills`, `WorklistExact`, `ParametersKeepTheirRegister`, `OnlySpillCandidatesSpill` | 4 variables, 2 colours, 1 parameter register, 1 move, weights up to 1 |
| ig_inductive | `FullInv`, the invariant of the proofs, and `ColorTerminates` | 3 variables, 2 moves, 2 parameter registers |
| ig_t5 (violation) | `CallCrossingAvoidsT5` | pool with t5 |
| lv_solution | `LeastSolution`, `LiveIffReadLater`, `OnlyGrows`, `CalcInOutTerminates`, and `FullInv`, the invariant of the proofs | every graph on 3 blocks with up to 2 successors, 1 variable, any sets left in the blocks |
| ra_walk | `WalkExact`, `AllocationSound`, and `AllocInv`, the invariant of the proofs | functions of 3 blocks (entry, loop, exit) with at most 4 instructions in the loop, 5 variables, pool s1, a0, t5 |
| ra_spurious (violation) | `RemovedEdgesSpurious` | up to 6 instructions in the loop |
| pt_copy | `LeftoversAreCycles`, `SequentialIsParallel`, `ImplementsParallelCopy`, `SolveTerminates` | every phi graph on 5 names |
| cs_save | `CanonicalValue`, `NoStaleUse`, `ExitsRestored` | 3 argument registers; any number of calls, blocks and functions |
| cs_return | `ReturnsToCaller` | the same, all program shapes |
| me_passes | `GenerationRight`, `InliningRight`, `PromotionRight`, `PropagationRight`, `SharingRight`, `MovesRight`, `ThreadingRight`, `EmissionRight`; `DominatorsCorrect`, `DefinitionsDominateUses`, `PhisMatchEdges`, `LatticeDescends`, `CompilationTerminates`, and the invariants of the proofs: `SCCPInv`, which contains `FixpointInv` and with it `Solution`, and `CSEInv` | source programs and control-flow graphs, see below |
| me_threading (violation) | `ThreadingRight` | a call inside a call |
| ps_written | `ParsedAsWritten`, `ParsingEnds` | 13,890 bodies: every expression with up to two operators, three of six kinds, two statements of every kind |

What the runs show.  The ig_ and ra_ runs: whatever the order of hash tables,
variables that conflict never share a register and the allocated code reads what
it should, if the two conditions of the findings hold.  lv_solution: liveness is
the least solution, and what is read later, whatever the blocks held before.  pt_copy: moves are a parallel copy.
cs_: nothing stale is used around calls.  me_passes: each pass keeps the meaning
of every program in the set, for every order the code leaves open; the
intermediate results (dominators, placement of phis, the lattice) are what their
definitions say; and compilation ends.  ps_written: an expression or a statement is
parsed into the tree it was written from unless it falls under one of four exact
exceptions (disagreements 17 to 20), and parsing ends.

Why the bounds are enough.  With two colours a graph on four variables already
has spills, survivors of merges with too many neighbours, and neighbours of
parameters; a chain of merges needs three variables and two moves.  Five names
give two cycles at once, a cycle with a self copy, and a tree hanging off a
cycle. The tracker treats argument registers independently, so three (one read,
one written, one untouched) show every combination; the state space is finite
without a bound on the length of the program.  The functions of the `ra_` runs
are what phi elimination and parameter demotion leave of a loop: a demoted
parameter, loop variables that are swapped or updated from temporaries, calls
with and without a result before, between and after the definitions, a branch
that reads a temporary; three colours for five variables force coalescing and
the use of t5.  `ra_walk` takes functions whose pruned edges are spurious,
`ra_spurious` the others too.  Liveness is computed per variable, so one
variable and three blocks (a self loop, a loop of two blocks, a diamond-free
exit) show every order of the passes. Symmetry is used for the variables of the
ig_ runs without a liveness property, which no definition tells apart.

The instance of `me_passes` (`MCPipeline`) has

* source programs that use every visit of the generator: lazy conditions in
  loops and branches, values of ifs, loops with break and continue, arrays,
  structs, methods, references, early returns, mutual recursion, functions
  called before and after their definition, more parameters than registers with an
  array that lives across a recursive call;
* every operator on constants of both signs, signed and unsigned, folded and
  computed; every comparison with constants at and beyond the boundary of an
  immediate, as a value and as a condition; every operator with an immediate form;
* every control-flow graph of three blocks and an exit in which each block may
  store to a variable and ends in a jump, a branch on a number read or a branch on
  the variable, taken up to the removal of phis; every graph of four branching
  blocks and an exit, irreducible ones included, up to the splitting of edges.

`Width` 8 makes a word eight bits: every shift amount and both signs occur, and
products overflow.  `ImmWidth` 5 makes immediates five bits, so that the constants of
both instances lie on both sides of the boundary.  `LargeCode` 250 puts some
functions above the size from which far jumps are used and others below.
`ArgRegs` 2 sends the third parameter of a function to the stack.
`MaxInlineInstructions` 30 lets some callees be inlined and refuses others.  `Fuel`
36 is more blocks than any of the programs enters for the inputs they are given.

The instance leaves out the programs the code is known to get wrong, and only
those: a known condition before a phi (disagreement 6), calls whose chains of
blocks are threaded wrongly (5), `!` of a known boolean (7), a lazy boolean in an
argument inside a condition (8), a boolean kept in a variable and tested after
other uses (9), `x - (-2048)` (10), `>>` of known unsigned numbers (11),
assignments inside operands (14), minus the least word (15) and a return in main
before the exit (23).

`MCParser` joins every operator of every precedence with every other, on both
sides, and under and over every prefix, call, index, cast, block, `if`, `while`,
literal and parenthesis; what the Pratt loop does with an operator depends on the
power of its context and on the node before it, which two operators determine.
Three operators are for the members that stay behind (method calls in a chain) and
for the borrow.  Two statements are for the attempts: whether the first ends where
the second begins, and how the last is told from a value.

Fairness.  The passes, `CalcInOut` with the clearing and building before it, the allocator and `Solve` are sequential calls
that nothing can interrupt: weak fairness of their steps, and of nothing in the
environment.  The graph or the phi nodes may be built forever; the liveness
properties start when `Coalesce` or `Solve` has been called.  `Pipeline` has one
sequential compiler and some step is possible until it is done, so its fairness
is that of its next step (`FairSpec`); the parser's likewise.

## What is proved

The theorems of `InterferenceGraphProofs`, `LivenessProofs`, `RegAllocProofs`,
`PhiTopoProofs` and `CallSaveProofs` hold for every set of variables, names or
blocks, every pool, every number of registers and every bound; those of
`SCCPProofs` and `SCCPSoundness` for every function in SSA form without critical
edges, those of `CSEProofs` for every function in SSA form.

* `ProperColoring` is not inductive: it speaks of the graph as it was built,
  while the steps work on a graph that merges keep rewriting.  `IInv` adds that
  the graph is symmetric and closed (`GraphInv`), that `rep` follows the merges
  and maps every recorded interference to an edge of the surviving graph
  (`RepInv`), and that only survivors are coloured, properly, with colours
  spreading from a survivor to those it stands for (`ColorInv`).
* `WorklistExact`, `CoalescedNeverSpills` and `OnlySpillCandidatesSpill` are about
  degrees and rest on `FullInv`.  The working copy of the graph is the surviving
  graph cut down to the active nodes, and the worklist is exact for it
  (`WorkInv`); hence what is pushed without being a candidate of the spill order
  has fewer than k neighbours among those Select colours before it (`StackInv`),
  and k registers cannot all be denied by fewer than k neighbours
  (`SomeColourFree`, for which no register may be listed twice in the pool).  The
  degree test of `Coalesce` speaks of the graph at that merge: `MergeInv` says that
  later merges keep the degree of every survivor below k, so that no survivor is
  left for the spill order.  `PlacedInv` says that nothing is lost between the
  graph, the stack and the registers.
* `FixedPoint` needs that every block of the postorder is still to come, queued
  or solved (`PassInv`), for which recomputing a block may only add variables;
  and that the search lists what it enters together with its successors
  (`SearchInv`), so that no edge leads from a solved block to one the passes
  never see.  `LeastSolution` compares with an arbitrary solution and is
  inductive with the rest.  Both it and `ReadInv` speak from the clearing of the
  blocks on: before it the sets may be anything, and `CallerIInv` is what is left to
  say of the steps between.
* `LiveIffReadLater` has one direction by the invariant `ReadInv` (what is in `in_` is
  read on some path: recomputing a block lengthens a path of a successor by one
  edge), the other because a solution contains what is read at the end of a path,
  by going back along the path from the read.  Paths are no longer than there are
  blocks, so a lengthened one is cut where it meets a block twice (`Shortcut`).
* `AllocationSound` is the theorem the other allocator results serve.  Three
  lemmas relate `LiveAfter`, the definition of liveness at an instruction, to
  the walk (`LiveBefore`), to the live-out sets (`LiveAtEnd`) and to the block
  summaries (`LiveAtStart`).  The invariant `AllocInv` says that the walk's set is
  `LiveAfter` (`ControlInv`), that every conflict it has passed is an edge until
  `Coalesce` takes the graph over and stays one in `interference` (`EdgeInv`),
  that what is live across a call is recorded (`CrossInv`), and that during the
  execution what is live is in its register (`ExecutionInv`); the engine's `IInv`
  then gives that a result never lands on a value still needed.  The hypotheses
  are the two things the findings show the code does not guarantee: the pruned
  edges are spurious (`SpuriousOnly`), and no variable that crosses a call has t5
  (`CallCrossingAvoidsT5`).  `WalkExact` is proved without them.
* `SequentialIsParallel` rests on: `deg_` counts the pending readers while the
  queue runs (`QueueInv`); once it is empty every pending copy has exactly one
  pending reader, by counting, so the pending copies permute the pending names;
  opening a cycle replaces one name in that permutation by the temporary
  (`ScanInv`).  From the same invariant Solve never reports a broken cycle, and
  it refines `ParallelCopy`.
* `CanonicalValue`, `NoStaleUse` and `ExitsRestored` are inductive together: one
  lemma per helper says that it maps a canonical machine to a canonical one, and
  what it makes valid.  They are proved without the two program shapes;
  `ReturnsToCaller` is proved for all shapes from the part of the invariant that
  concerns ra.

* `Solution` is about the end of SCCP's loop; `FixpointInv` says what holds during
  it.  Every executable block that is not queued is solved, or what is not waits
  for something queued: an instruction or a phi for a variable it reads, a phi
  also for a queued block that jumps to its own (`BlockCovered`).  A step that
  takes an entry off a list pays for it by evaluating all that waited, which is
  why `Reenter` has to evaluate the phis of a block that is executable already, and
  why `SCCPSpec` starts from a function without critical edges: a branch on a
  constant skips that, which is harmless as long as nothing else leads to the
  block it takes.  And nothing would evaluate to more than its cell says (`Lowering`): the
  evaluations are monotone, so an update only lowers, which is
  `LatticeDescends`.  The folds over the entries of a phi, the phis and
  instructions of a block and the blocks are recursive functions; one lemma each
  gives the sequence of their intermediate values (`PhiTraceExists` and the like),
  and `UpTo` is the induction along it.  What `Fold` computes of constants plays no
  part.  The precondition `WellFormed` is part of `FixpointInv` and so checked by
  `me_passes` for every function that reaches SCCP.
* What the lattice says is true, and what SCCP does with it loses no execution, as
  `Execution` defines one.  `Sound`: at the end of the loop every configuration that can be
  reached is in an executable block, and a variable whose cell is a constant has
  that value.  Induction along the execution: a step from a solved block evaluates
  to what the cells say.  `Preserved`: for each of the four rewriting steps,
  whatever configuration the function can reach, the rewritten one can reach one
  in the same block having done the same.  It need not have the same variables: a
  folded instruction no longer assigns, so the values correspond but for the
  folded variable (`Cut`), which nobody reads any more; a converted branch is
  passed over, with what is removed behind it, to the jump at the end
  (`SkipsTo`).  Between the steps this rests on `RewritingInv`: an edge that can be
  taken leads to an executable block, so what is emptied is never entered, and
  the entries of the phis that go are never read; and what is folded is the only
  definition of its variable.  That an instruction computes what `Fold` computes
  of its constants is part of what an execution is here; whether that is what the
  language and the machine compute is checked by `PropagationRight` and
  `EmissionRight`, and found wrong once (7).
* And SCCP adds no execution (`NoneAdded`): what the function can do after one of the four
  steps it could do before, provided it never reads a variable without a value
  (`AlwaysReads`); and then it does not after the step, so that the steps, and CSE
  behind them, follow on one another.  A configuration of the new function is
  matched with one the old function reaches.  Behind a folded instruction the old one
  has the folded variable and the new one does not (`Without`); on the way to the
  jump of a converted branch the new one is further in the same block (`Passing`), and
  the removed instructions it passes are no step of the old one; the phi entries
  `RemoveDead` keeps are among the old ones (`SelectedFrom`).  Without `AlwaysReads` the
  statement is false: the old function would stop where it reads the variable,
  and the new one reads the constant and goes on.
* `CSEInv` is what CSE does, said of the function it was given: every rename is of
  the result of an address computation to that of another, earlier in the same
  block, whose operands are the same once everything is renamed
  (`RenamesJustified`); what is available was computed before in this block
  (`AvailableJustified`); and the blocks are the given ones with exactly the renamed
  results removed and the operands renamed, those not yet visited perhaps not
  (`BlocksRewritten`).  It is inductive because renames are never chained: what a
  result is renamed to keeps its name for good (`Flat`), so a rename that comes
  later changes no justification (`SameAddressKept`), although it may change how the
  keys in `available` would be written, which is why these are compared after
  renaming.  Nothing but the SSA form is assumed: `InSSAForm`, which is part of `CSEInv`
  and so checked by `me_passes` for every function that reaches CSE.
* What CSE leaves does what the function did: `Kept`, no execution is lost, and
  `Added`, none is added.  The two functions run in step, with the same variables but
  for the removed ones (`PrunedEnv`).  A removed result has in the given function the
  value of the one that stands for it, from where it is computed until that one is
  computed again; `Good` says so, and that the addresses a block has computed so far
  are still those of the values of their operands.  In a loop the two differ between
  the two computations of the next round: what saves the reads there is that no
  instruction reads a result that its block has not yet computed (`InOrder`).  At a
  branch everything is settled (`AllSettled`), so that the phis of the next block,
  whose entries are renamed too, see the same values.  `Added` needs that the given
  function never reads a variable without a value (`AlwaysReads`): else it would stop
  at a removed instruction that the other one passes over.  It says that the one that
  is left never does either.  `me_passes` checks as `DefinitionsDominateUses` what
  makes `AlwaysReads` true of the function `Mem2reg` hands to SCCP; from there on it is
  proved.

The assumptions are the named `ASSUME`s of the modules: finitely many variables,
blocks and names, registers distinct from the value for `none`, at least one
argument register, and no register twice in the pool (`kColorPool` and
`kLeafColorPool`, reg_alloc.cpp:10-46, list each once).

Only model-checked: termination (`ColorTerminates`, `CalcInOutTerminates`,
`SolveTerminates`, `CompilationTerminates`, `ParsingEnds`), because fairness is out
of the prover's reach; what programs mean (the properties of `Pipeline` that end
in `Right`, and `ParsedAsWritten`), because meaning and trees are recursive
definitions; and the three properties of `Mem2reg`, because dominators are
computed by recursion.  `LatticeTrue`, `ExecutionsKept`,
`NoExecutionAdded`, `SharingKeeps` and `SharingAdds`, in turn, speak of executions of every length and of every value memory
may give, which TLC cannot enumerate: they are only proved, and `PropagationRight`
and `SharingRight` are their bounded counterparts, from real programs.
`FixedPoint` is part of what `LiveIffReadLater` says and has no run of its own.

## Disagreements between the code and what it says

With a run that shows them:

1. A merge does not pass on that the merged variable crosses a call, so such a
   variable can get t5 through its survivor (ig_t5).
2. The edge RegAlloc deletes as spurious can be a true interference: in
   `t = op p; call(p); p = mv t` the void call is not recorded as the last user of
   p (ra_spurious).  Coalescing then puts t and p into one register and the call
   reads the wrong value.
3. `EliminateEmptyBlocks` threads one-move blocks with predecessors computed before
   the scan.  In a chain of two such blocks the second is threaded into the first
   after that one has been emptied, and its move is lost (me_threading).
Seen while modelling, without a run of their own:

4. `ReplacePhiWithMoves` looks for the "last branch/jump" (phi_eliminator.cpp:17)
   from the front and counts removed ones.  After SCCP has turned a branch into a
   jump, the moves are put behind the jump; they still run only if the jump is left
   out because its target comes next in the layout.
5. What 3 does to programs: the result of a call whose argument is a call may be
   undefined after inlining.
6. What 4 does to programs: a variable set under a condition that is known when
   the program is compiled may keep an old value.
7. SCCP folds `!` of a boolean as `~`: the result, -2 or -1, is true either way
   (sccp.cpp:415, 760).
8. `branch_ctx_` stays active while the arguments of a call are visited, so a
   comparison in an argument inside a condition branches to the labels of the
   condition; optimize.md:18 says that nested constructs do not corrupt it.
9. Pass 1 of `EliminateEmptyBlocks` looks for other uses of a condition in branches and
   moves only, and empties the block even if a predecessor was not threaded.
10. `x - (-2048)` is emitted as `addiw` with 2048, for which `PrintIA` writes `addi` with
    three registers; the model finds it with `Immediate("-", Num(-16))`.
11. `>>` of unsigned numbers is folded as a logical shift and emitted as `sraw`.
12. With a large copy through a pointer in an argument register, that register is
    marked valid across memcpy; a load through a0 also loses its destination
    (`CanonicalValue` with `LargeCopyByAReg`).
13. The prologue can use a cached constant of the previous function
    (`ConstantsPreloaded` with `CachedFrameSize`).
14. Operand 1 of an arithmetic operator is loaded after operand 2 has been visited, and
    a place that is assigned to is visited before the right-hand side: with an
    assignment inside the other operand the order differs from the language's.
15. `neg` is a 64-bit instruction: minus the least word leaves a register that is not
    a sign-extended word, and a compare of it comes out wrong.
16. README.md:74 of the repository says calls are inlined at each call site; a callee is
    inlined into a caller once.
17. `&a == b` is parsed as `&(a == b)`: the power of the borrow is looked up as `borrow`
    (expression.cpp:287) and stored as `&` (expression.h:305).
18. `a.f(b).g()` is parsed with b as an argument of g too: the node that is extended
    keeps `call_params_` (expression.cpp:367).
19. `c + {a} * b` is parsed as `(c + {a}) * b`, and the same for `if`, for calls and for
    indices: the loop ends behind a block, and the caller's goes on
    (expression.cpp:356).
20. `return` and `break` without a value are recognised before `;` only, so `{ return }` is
    rejected (expression.cpp:300).
21. The third checker writes into types that are shared: `flag && c` clears
    `is_mut_left_` of the type flag was declared with (third_checker.cpp:503), so
    `while (flag && c) { flag = false; }` is rejected; an `if` without else overwrites
    the type of its body (241).
22. A `while` has the type of its body (third_checker.cpp:186), so a function may end
    behind `while (c) { return 1; }`.
23. main has a result cell that only `exit` stores into (always 0, IR_generator.cpp:744), and
    the third checker asks only that the exit come last; `return;` before it jumps to
    the block that loads the cell, and the status of main is whatever is there.
    `GenerationRight` fails on such a program.

## Not modelled, and the plan

In this order:

1. The composition of `RegAlloc` with `Emission`: registers instead of the choice of
   one shared pair, t5 in functions with far jumps, the masks of dead registers.
2. Sizes of types in the frame and in addresses (the preprocessor), copies in
   pieces and by `builtin_memcpy` outside `CallSave`, saved s registers, the constants
   chosen for t3 and t4.  The order of slots by frequency only makes offsets shorter.
3. Nested aggregates in `Source` and `IRGenerator`.
4. The checkers: name lookup in the scope tree, the order in which constants are
   evaluated, and the types that are shared between nodes and written to
   (disagreements 21, 22).

Theorems to follow: moves of two successors do not disturb each other when
critical edges are split; the slots of a frame are disjoint; `Layout` places every block once; the inliner ends
because a callee is inlined once per caller.  The lexer is a
scan without state between tokens, and what it does to characters is outside what
TLC handles well.  Of the parser, items, types and patterns are left out: one
production per function, with two attempts that are not nested (a self parameter, an
impl with or without a trait).  Printers, the
runtime library and file input have no state worth checking.
