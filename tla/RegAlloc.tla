------------------------------ MODULE RegAlloc ------------------------------
(***************************************************************************)
(* RegAlloc::Visit(IRFunctionNode) of reg_alloc/reg_alloc.cpp, composed    *)
(* with the InterferenceGraph it builds, and the execution of the code     *)
(* whose variables it has placed.                                          *)
(*                                                                         *)
(* The allocator walks every block backwards from its live-out set and     *)
(* records interferences, moves and the variables live across calls; then  *)
(* it deletes edges it takes for spurious, coalesces and colours.  The     *)
(* program that results is then run on a machine that only remembers whose *)
(* value each register holds.                                              *)
(*                                                                         *)
(* A variable is promotable or a parameter; every other operand (arrays,   *)
(* allocated cells) is Mem, an id that takes no part in the colouring.     *)
(***************************************************************************)
EXTENDS InterferenceGraph

CONSTANTS
  NumBlocks,  \* blocks are 1 .. NumBlocks, in layout order; 1 is the entry
  Programs,   \* the functions that are compiled
  Mem,        \* the result of a store: an id that is not promotable
  NoVar       \* no result

\* An instruction: its result, the variables it reads, and its kind.
Instr ==
  [def : Node \cup {Mem, NoVar}, use : SUBSET Node,
   kind : {"op", "move", "call"}]

Block == 1 .. NumBlocks

VARIABLES
  prog,       \* the function: code, succs, params; out_ and reachable blocks
  at,         \* "walk", "prune", "cross", "color" or "execute"
  block, pos, \* the instruction the walk, or the execution, is at
  live,       \* the walk's live set
  call_live,  \* the union of call_live_sets
  holds       \* the variables whose current value each register holds

machine == <<block, pos, holds>>
walk == <<prog, at, machine, live, call_live>>
allvars == <<vars, walk>>

\* The i-th instruction of block b.
Ins(b, i) == prog.code[b][i]
Size(b) == Len(prog.code[b])
Promotable == Node \ DOMAIN prog.params

-----------------------------------------------------------------------------
(* What CFGBuilder records of a block (Merge), and the equations that its  *)
(* liveness solves; module Liveness is about how they are solved.          *)

DefOf(c) == {c[i].def : i \in 1 .. Len(c)} \cap Node

\* Read before any definition in the block.
UseOf(c) ==
  {v \in Node : \E i \in 1 .. Len(c) :
                  v \in c[i].use /\ \A j \in 1 .. i - 1 : c[j].def # v}

LiveInOf(p, b) == (p.out[b] \ DefOf(p.code[b])) \cup UseOf(p.code[b])

\* A function as RegAlloc receives it: parameters are only read, every
\* variable is written before it is read, a move has one result and one source.
\* Only in the blocks CalcInOut reached do the live-out sets solve the equations.
WellFormed(p) ==
  /\ p.code \in [Block -> Seq(Instr)]
  /\ p.succs \in [Block -> SUBSET Block]
  /\ p.out \in [Block -> SUBSET Node]
  /\ DOMAIN p.params \subseteq Node
  /\ p.params \in [DOMAIN p.params -> ArgReg]
  /\ \A m, n \in DOMAIN p.params : p.params[m] = p.params[n] => m = n
  /\ \A b \in Block : DefOf(p.code[b]) \cap DOMAIN p.params = {}
  /\ \A b \in Block : \A i \in 1 .. Len(p.code[b]) :
       p.code[b][i].kind = "move" =>
         /\ p.code[b][i].def \in Node
         /\ \E v \in Node : p.code[b][i].use = {v}
  /\ p.reach \subseteq Block /\ 1 \in p.reach
  /\ \A b \in p.reach : /\ p.succs[b] \subseteq p.reach
                          /\ p.out[b] = UNION {LiveInOf(p, s) : s \in p.succs[b]}
  /\ LiveInOf(p, 1) \subseteq DOMAIN p.params

ASSUME BlockAssumption == NumBlocks \in Nat \ {0}
ASSUME IdAssumption == Mem \notin Node /\ NoVar \notin Node
ASSUME ProgramAssumption == \A p \in Programs : WellFormed(p)

-----------------------------------------------------------------------------
\* The parameters are precoloured before the walk begins.
InitRegAlloc ==
  /\ prog \in Programs
  /\ at = "walk"
  /\ block = 1
  /\ pos = Size(1)
  /\ live = prog.out[1]
  /\ call_live = {}
  /\ holds = [r \in Reg |-> {}]
  /\ phase = "build"
  /\ nodes = DOMAIN prog.params
  /\ precolored = DOMAIN prog.params
  /\ phys_reg = [n \in Node |-> IF n \in DOMAIN prog.params THEN prog.params[n]
                                ELSE NoReg]
  /\ adjacency = [n \in Node |-> {}]
  /\ weight = [n \in Node |-> 0]
  /\ move_pairs = << >>
  /\ call_crossing_vars = {}
  /\ coalesced = [n \in Node |-> NoNode]
  /\ cursor = 1
  /\ adj = [n \in Node |-> {}]
  /\ active_nodes = {}
  /\ worklist = {}
  /\ spill_degree = [n \in Node |-> 0]
  /\ stack = << >>
  /\ spilled = {}
  /\ pending = {}
  /\ interference = [n \in Node |-> {}]
  /\ rep = [n \in Node |-> n]

\* Mutation: a definition does not end the liveness of its variable.
KilledNothing(ins) == live

\* Live just before, and just after, the uses of an instruction are added.
Killed(ins) == live \ {ins.def}
Generated(ins) == Killed(ins) \cup ins.use

\* Mutation: no result interferes with an operand of its instruction.
NeighborsWithoutUses(ins) == Generated(ins) \ ins.use

\* The variables a definition interferes with: a move and its source do not.
Neighbors(ins) ==
  IF ins.kind = "move" THEN Generated(ins) \ ins.use ELSE Generated(ins)

CountUse(w, ins) ==
  [n \in Node |-> IF n \in ins.use \cap Promotable THEN w[n] + 1 ELSE w[n]]

CountDef(w, ins) ==
  IF ins.def \in Node THEN [w EXCEPT ![ins.def] = @ + 1] ELSE w

\* One instruction of the backward walk.
VisitInstruction ==
  /\ at = "walk" /\ pos > 0
  /\ LET ins == Ins(block, pos)
     IN  /\ live' = Generated(ins)
         /\ call_live' = IF ins.kind = "call" THEN call_live \cup Killed(ins)
                         ELSE call_live
         /\ move_pairs' = IF ins.kind = "move" /\ ins.def \notin ins.use
                          THEN Append(move_pairs,
                                      <<CHOOSE v \in ins.use : TRUE, ins.def>>)
                          ELSE move_pairs
         /\ IF ins.def \in Node
            THEN /\ adjacency' = AddEdges(ins.def, Neighbors(ins))
                 /\ nodes' = nodes \cup {ins.def} \cup Neighbors(ins)
                               \cup (ins.use \cap Promotable)
            ELSE /\ nodes' = nodes \cup (ins.use \cap Promotable)
                 /\ UNCHANGED adjacency
         /\ weight' = CountUse(CountDef(weight, ins), ins)
  /\ pos' = pos - 1
  /\ UNCHANGED <<phase, precolored, phys_reg, call_crossing_vars, coalesced,
                 cursor, color, pending, history, prog, at, block, holds>>

\* The next block starts from its live-out set; after the last one edges are
\* pruned.
NextBlock ==
  /\ at = "walk" /\ pos = 0
  /\ IF block < NumBlocks
     THEN /\ block' = block + 1
          /\ pos' = Size(block + 1)
          /\ live' = prog.out[block + 1]
          /\ UNCHANGED at
     ELSE /\ at' = "prune"
          /\ UNCHANGED <<block, pos, live>>
  /\ UNCHANGED <<vars, prog, call_live, holds>>

\* last_use_def: the instruction of block b with a result that reads v last.
LastReader(p, b, v) ==
  {i \in 1 .. Len(p.code[b]) :
     /\ v \in p.code[b][i].use /\ p.code[b][i].def # NoVar
     /\ \A j \in i + 1 .. Len(p.code[b]) :
          v \in p.code[b][j].use => p.code[b][j].def = NoVar}

\* The moves dst = src of block b whose source is defined by the last recorded
\* reader of dst.
PrunedIn(p, b) ==
  {pair \in Node \X (Node \ DOMAIN p.params) :
     /\ \E i \in 1 .. Len(p.code[b]) :
          /\ p.code[b][i].kind = "move"
          /\ p.code[b][i].use = {pair[1]} /\ p.code[b][i].def = pair[2]
     /\ \E i \in LastReader(p, b, pair[2]) : p.code[b][i].def = pair[1]}

Pruned(p) == UNION {PrunedIn(p, b) : b \in Block}

Prune ==
  /\ at = "prune"
  /\ adjacency' = [n \in Node |->
       {m \in adjacency[n] : /\ <<n, m>> \notin Pruned(prog)
                             /\ <<m, n>> \notin Pruned(prog)}]
  /\ at' = "cross"
  /\ UNCHANGED <<phase, nodes, precolored, phys_reg, weight, move_pairs,
                 call_crossing_vars, coalesced, cursor, color, pending,
                 history, prog, machine, live, call_live>>

CrossCalls ==
  /\ at = "cross"
  /\ call_crossing_vars' = call_live
  /\ at' = "color"
  /\ UNCHANGED <<phase, nodes, adjacency, precolored, phys_reg, weight,
                 move_pairs, coalesced, cursor, color, pending, history,
                 prog, machine, live, call_live>>

\* Coalesce and Color.
Allocate ==
  /\ at = "color"
  /\ Run
  /\ UNCHANGED walk

-----------------------------------------------------------------------------
(* The allocated program runs.  Variables without a register are in memory *)
(* cells of their own.                                                     *)

StartExecution ==
  /\ at = "color" /\ phase = "done"
  /\ at' = "execute"
  /\ block' = 1 /\ pos' = 1
  /\ holds' = [r \in Reg |-> {n \in DOMAIN prog.params : prog.params[n] = r}]
  /\ UNCHANGED <<vars, prog, live, call_live>>

\* The registers after ins: a call loses t5 (argument registers are saved
\* around it), a result replaces what its register held, and a move between
\* variables of one register changes nothing.
After(ins) ==
  LET h == [r \in Reg |-> IF ins.kind = "call" /\ r = T5 THEN {}
                          ELSE holds[r] \ {ins.def}]
  IN  [r \in Reg |->
         IF ins.def \notin Node \/ phys_reg[ins.def] # r THEN h[r]
         ELSE IF ins.kind = "move" /\ \E v \in ins.use : phys_reg[v] = r
              THEN h[r] \cup {ins.def}
         ELSE {ins.def}]

Step ==
  /\ at = "execute" /\ pos <= Size(block)
  /\ holds' = After(Ins(block, pos))
  /\ pos' = pos + 1
  /\ UNCHANGED <<vars, prog, at, block, live, call_live>>

Goto(b) ==
  /\ at = "execute" /\ pos > Size(block)
  /\ b \in prog.succs[block]
  /\ block' = b /\ pos' = 1
  /\ UNCHANGED <<vars, prog, at, live, call_live, holds>>

Return ==
  /\ at = "execute" /\ pos > Size(block)
  /\ prog.succs[block] = {}
  /\ UNCHANGED allvars

NextRegAlloc ==
  \/ VisitInstruction \/ NextBlock \/ Prune \/ CrossCalls
  \/ Allocate
  \/ StartExecution \/ Step \/ (\E b \in Block : Goto(b)) \/ Return

SpecRegAlloc == InitRegAlloc /\ [][NextRegAlloc]_allvars

-----------------------------------------------------------------------------
(* Properties.                                                             *)

\* v may be read after the i-th instruction of block b, before it is written.
LiveAfter(p, b, i) ==
  {v \in Node :
     \/ /\ v \in p.out[b]
        /\ \A j \in i + 1 .. Len(p.code[b]) : p.code[b][j].def # v
     \/ \E j \in i + 1 .. Len(p.code[b]) :
          /\ v \in p.code[b][j].use
          /\ \A m \in i + 1 .. j - 1 : p.code[b][m].def # v}

\* The walk's live set is exact at every instruction: what it holds is what a
\* later instruction reads first, in this block or after it.
WalkExact == at = "walk" => live = LiveAfter(prog, block, pos)

\* The whole of the allocation: an executed instruction that reads a variable
\* from its register finds the value that was last written to that variable, on
\* every path through the function and whatever was coalesced or spilled.
ReadsLastWrite ==
  at = "execute" /\ pos <= Size(block) =>
    \A v \in Ins(block, pos).use :
      phys_reg[v] # NoReg => v \in holds[phys_reg[v]]

\* If t5 is kept from the variables that cross calls, as Select intends, every
\* read is right: nothing else in the allocation can lose a value.
AllocationSound == CallCrossingAvoidsT5 => ReadsLastWrite

\* The i-th instruction of block b writes u and so destroys a value of v that is
\* still needed, if they share a register.
Conflict(p, b, i, u, v) ==
  /\ p.code[b][i].def = u
  /\ v # u /\ v \in LiveAfter(p, b, i)
  /\ ~(p.code[b][i].kind = "move" /\ v \in p.code[b][i].use)

Interferes(p, u, v) ==
  \E b \in Block : \E i \in 1 .. Len(p.code[b]) : Conflict(p, b, i, u, v)

\* The pruning of edges is harmless for p.
SpuriousOnly(p) ==
  \A pair \in Pruned(p) : /\ ~Interferes(p, pair[1], pair[2])
                          /\ ~Interferes(p, pair[2], pair[1])

\* reg_alloc.cpp: the edge that is removed before coalescing "is spurious
\* (block-level liveness only)": neither variable is written while the other's
\* value is still needed.
RemovedEdgesSpurious ==
  [][at = "prune" =>
       \A u \in Node : \A v \in adjacency[u] \ adjacency'[u] :
         ~Interferes(prog, u, v)]_allvars

\* The control state of the allocator and the types of its locals.
ControlInv ==
  /\ prog \in Programs
  /\ at \in {"walk", "prune", "cross", "color", "execute"}
  /\ at \in {"walk", "prune", "cross"} => phase = "build"
  /\ at = "execute" => phase = "done"
  /\ block \in Block
  /\ pos \in 0 .. Size(block) + 1
  /\ at = "walk" => pos <= Size(block) /\ live = LiveAfter(prog, block, pos)
  /\ at = "execute" => pos > 0 /\ block \in prog.reach
  /\ call_live \subseteq Node
  /\ holds \in [Reg -> SUBSET Node]
  /\ precolored = DOMAIN prog.params
  /\ \A n \in precolored : phys_reg[n] = prog.params[n]

\* The instructions the walk has passed.
Passed(b, i) == at = "walk" => b < block \/ (b = block /\ i > pos)

\* Every conflict the walk has passed is an edge, and stays one until the
\* graph is handed to Coalesce.
EdgeInv ==
  \A b \in Block : \A i \in 1 .. Size(b) : \A u, v \in Node :
    Conflict(prog, b, i, u, v) =>
      /\ phase = "build" /\ Passed(b, i) => v \in adjacency[u]
      /\ phase # "build" => v \in interference[u]

\* What is live across a call the walk has passed is recorded as crossing it.
CrossInv ==
  \A b \in Block : \A i \in 1 .. Size(b) :
    Ins(b, i).kind = "call" /\ Passed(b, i) =>
      LiveAfter(prog, b, i) \ {Ins(b, i).def} \subseteq
        IF at \in {"walk", "prune", "cross"} THEN call_live
        ELSE call_crossing_vars

\* During the execution every variable that is still needed is in its register.
ExecutionInv ==
  at = "execute" /\ CallCrossingAvoidsT5 =>
    \A v \in LiveAfter(prog, block, pos - 1) :
      phys_reg[v] # NoReg => v \in holds[phys_reg[v]]

\* The inductive invariant behind AllocationSound: the colouring engine's own
\* (IInv), complete edges and crossings, and live variables kept in their
\* registers.
AllocInv ==
  IInv /\ ControlInv /\ EdgeInv /\ CrossInv /\ ExecutionInv
=============================================================================
