-------------------------- MODULE InterferenceGraph --------------------------
(***************************************************************************)
(* The graph-colouring engine of the register allocator:                   *)
(* class InterferenceGraph of reg_alloc/interference_graph.{h,cpp}.        *)
(*                                                                         *)
(* RegAlloc builds a graph whose nodes are variables (phase "build"), then *)
(* calls Coalesce once (phase "coalesce", one step per move pair) and      *)
(* Color once (phases "simplify", "select" and "propagate").  Containers   *)
(* with an unspecified iteration order (unordered_map, unordered_set) are  *)
(* iterated in any order; the worklist, whose initial content comes from   *)
(* such a container, is kept as a set, which covers every queue order.     *)
(***************************************************************************)
EXTENDS Integers, Sequences, FiniteSets

CONSTANTS
  Node,       \* variable ids
  Reg,        \* physical registers
  ArgReg,     \* the registers parameters arrive in (a0-a7)
  T5,         \* register 30, clobbered by every call
  Pool,       \* the colours, in order of preference
  NoReg,      \* no register assigned
  NoNode,     \* not coalesced
  MaxMoves,   \* bound: move pairs recorded
  MaxWeight   \* bound: definitions plus uses counted per variable

ASSUME RegAssumption ==
  /\ NoReg \notin Reg
  /\ NoNode \notin Node
  /\ ArgReg \subseteq Reg
  /\ T5 \in Reg
  /\ Pool \in Seq(Reg)
\* kColorPool and LeafColorPool list no register twice.
ASSUME PoolAssumption == \A i, j \in 1 .. Len(Pool) : Pool[i] = Pool[j] => i = j
ASSUME NodeAssumption == IsFiniteSet(Node)
ASSUME BoundAssumption == MaxMoves \in Nat /\ MaxWeight \in Nat

VARIABLES
  phase,
  \* the class's fields
  nodes,               \* the keys of adjacency_
  adjacency,           \* adjacency_
  precolored,          \* the keys of precolored_ (the colour is in phys_reg)
  phys_reg,            \* phys_reg_
  weight,              \* def_count_ + use_count_: only their sum is read
  move_pairs,          \* move_pairs_
  call_crossing_vars,  \* call_crossing_vars_
  coalesced,           \* coalesced_
  \* the locals of Coalesce and Color
  cursor,              \* the next move pair
  adj,                 \* the working copy of adjacency_
  active_nodes, worklist,
  spill_degree,        \* the degrees the spill order is sorted by
  stack, spilled,
  pending,             \* coalesced nodes not yet given their survivor's colour
  \* history, read by no action
  interference,        \* adjacency_ as RegAlloc built it
  rep                  \* the node that stands for a variable after coalescing

graph    == <<nodes, adjacency, precolored, move_pairs, call_crossing_vars>>
color    == <<adj, active_nodes, worklist, spill_degree, stack, spilled>>
history  == <<interference, rep>>
vars == <<phase, graph, phys_reg, weight, coalesced, cursor, color, pending,
          history>>

k == Len(Pool)
Phases == {"build", "coalesce", "simplify", "select", "propagate", "done"}

TypeOK ==
  /\ phase \in Phases
  /\ nodes \in SUBSET Node
  /\ adjacency \in [Node -> SUBSET Node]
  /\ precolored \in SUBSET Node
  /\ phys_reg \in [Node -> Reg \cup {NoReg}]
  /\ weight \in [Node -> Nat]
  /\ move_pairs \in Seq(Node \X Node)
  /\ call_crossing_vars \in SUBSET Node
  /\ coalesced \in [Node -> Node \cup {NoNode}]
  /\ cursor \in Nat \ {0}
  /\ adj \in [Node -> SUBSET Node]
  /\ active_nodes \in SUBSET Node
  /\ worklist \in SUBSET Node
  /\ spill_degree \in [Node -> Nat]
  /\ stack \in Seq(Node)
  /\ spilled \in SUBSET Node
  /\ pending \in SUBSET Node
  /\ interference \in [Node -> SUBSET Node]
  /\ rep \in [Node -> Node]

Init ==
  /\ phase = "build"
  /\ nodes = {}
  /\ adjacency = [n \in Node |-> {}]
  /\ precolored = {}
  /\ phys_reg = [n \in Node |-> NoReg]
  /\ weight = [n \in Node |-> 0]
  /\ move_pairs = << >>
  /\ call_crossing_vars = {}
  /\ coalesced = [n \in Node |-> NoNode]
  /\ cursor = 1
  /\ adj = [n \in Node |-> {}]
  /\ active_nodes = {}
  /\ worklist = {}
  /\ spill_degree = [n \in Node |-> 0]
  /\ stack = << >>
  /\ spilled = {}
  /\ pending = {}
  /\ interference = [n \in Node |-> {}]
  /\ rep = [n \in Node |-> n]

-----------------------------------------------------------------------------
(* Building the graph: the calls RegAlloc makes.                           *)

\* Mutation: the edge is entered on one side only.
AddEdgesOneWay(d, L) ==
  [n \in Node |-> adjacency[n] \cup (IF n = d THEN L \ {d} ELSE {})]

\* AddEdge(d, x) for every x in L; a self edge is never added.
AddEdges(d, L) ==
  [n \in Node |-> (adjacency[n] \cup (IF n = d THEN L \ {d} ELSE {}))
                   \cup (IF n \in L \ {d} THEN {d} ELSE {})]

\* RemoveEdge of {u, v}.
WithoutEdge(u, v) ==
  [n \in Node |-> adjacency[n] \ ((IF n = u THEN {v} ELSE {})
                                   \cup (IF n = v THEN {u} ELSE {}))]

\* A parameter arrives in register r.  MemoryAllocator numbers parameters
\* a0, a1, ..., so no two share a register; RegAlloc does this first.
SetPrecolored(n, r) ==
  /\ phase = "build"
  /\ n \notin nodes
  /\ r \in ArgReg
  /\ \A m \in precolored : phys_reg[m] # r
  /\ precolored' = precolored \cup {n}
  /\ phys_reg' = [phys_reg EXCEPT ![n] = r]
  /\ nodes' = nodes \cup {n}
  /\ UNCHANGED <<phase, adjacency, weight, move_pairs, call_crossing_vars,
                 coalesced, cursor, color, pending, history>>

\* A definition of d at a point where the variables L are live: AddNode,
\* IncDefCount and one AddEdge per live variable.  Parameters are not defined.
Define(d, L) ==
  /\ phase = "build"
  /\ d \notin precolored
  /\ weight[d] < MaxWeight
  /\ nodes' = nodes \cup {d} \cup L
  /\ adjacency' = AddEdges(d, L)
  /\ weight' = [weight EXCEPT ![d] = @ + 1]
  /\ UNCHANGED <<phase, precolored, phys_reg, move_pairs, call_crossing_vars,
                 coalesced, cursor, color, pending, history>>

\* AddNode and IncUseCount for a use of a promotable variable.
Use(n) ==
  /\ phase = "build"
  /\ n \notin precolored
  /\ weight[n] < MaxWeight
  /\ nodes' = nodes \cup {n}
  /\ weight' = [weight EXCEPT ![n] = @ + 1]
  /\ UNCHANGED <<phase, adjacency, precolored, phys_reg, move_pairs,
                 call_crossing_vars, coalesced, cursor, color, pending,
                 history>>

\* RegAlloc deletes an edge it considers spurious before coalescing.
RemoveEdge(u, v) ==
  /\ phase = "build"
  /\ v \in adjacency[u]
  /\ adjacency' = WithoutEdge(u, v)
  /\ UNCHANGED <<phase, nodes, precolored, phys_reg, weight, move_pairs,
                 call_crossing_vars, coalesced, cursor, color, pending,
                 history>>

AddMovePair(src, dst) ==
  /\ phase = "build"
  /\ src # dst
  /\ Len(move_pairs) < MaxMoves
  /\ move_pairs' = Append(move_pairs, <<src, dst>>)
  /\ UNCHANGED <<phase, nodes, adjacency, precolored, phys_reg, weight,
                 call_crossing_vars, coalesced, cursor, color, pending,
                 history>>

\* n is live across some call.
CrossCall(n) ==
  /\ phase = "build"
  /\ n \notin call_crossing_vars
  /\ call_crossing_vars' = call_crossing_vars \cup {n}
  /\ UNCHANGED <<phase, nodes, adjacency, precolored, phys_reg, weight,
                 move_pairs, coalesced, cursor, color, pending, history>>

StartCoalesce ==
  /\ phase = "build"
  /\ phase' = "coalesce"
  /\ interference' = adjacency
  /\ UNCHANGED <<graph, phys_reg, weight, coalesced, cursor, color, pending,
                 rep>>

-----------------------------------------------------------------------------
(* Coalesce: one step per recorded move.                                   *)

\* The survivor is the second component: a precoloured source is swapped.
Oriented(pair) ==
  IF pair[1] \in precolored /\ pair[2] \notin precolored
  THEN <<pair[2], pair[1]>>
  ELSE pair

\* The refusals that concern precoloured nodes.
PrecoloredAllows(src, dst) ==
  /\ src \notin precolored /\ dst \in precolored => src \notin call_crossing_vars
  /\ src \in precolored /\ dst \in precolored => phys_reg[src] = phys_reg[dst]

MergedNeighbors(src, dst) == (adjacency[src] \cup adjacency[dst]) \ {src, dst}

\* Mutation: the interference check is forgotten.
MergeableIfInterfering(src, dst) ==
  /\ PrecoloredAllows(src, dst)
  /\ src \in nodes /\ dst \in nodes
  /\ coalesced[src] = NoNode /\ coalesced[dst] = NoNode
  /\ Cardinality(MergedNeighbors(src, dst)) < k

\* Mutation: the degree bound is off by one.
MergeableUpToK(src, dst) ==
  /\ PrecoloredAllows(src, dst)
  /\ src \in nodes /\ dst \in nodes
  /\ coalesced[src] = NoNode /\ coalesced[dst] = NoNode
  /\ dst \notin adjacency[src]
  /\ Cardinality(MergedNeighbors(src, dst)) <= k

\* Briggs' test and the early `continue`s before it.
Mergeable(src, dst) ==
  /\ PrecoloredAllows(src, dst)
  /\ src \in nodes /\ dst \in nodes
  /\ coalesced[src] = NoNode /\ coalesced[dst] = NoNode
  /\ dst \notin adjacency[src]
  /\ Cardinality(MergedNeighbors(src, dst)) < k

\* adjacency_ once src is folded into dst: every neighbour of src now has dst.
MergedAdjacency(src, dst) ==
  [n \in Node |->
     IF n = src THEN {}
     ELSE IF n = dst THEN (adjacency[dst] \cup adjacency[src]) \ {src, dst}
     ELSE IF n \in adjacency[src] THEN (adjacency[n] \ {src}) \cup {dst}
     ELSE adjacency[n]]

CoalesceMerge ==
  /\ phase = "coalesce" /\ cursor <= Len(move_pairs)
  /\ LET src == Oriented(move_pairs[cursor])[1]
         dst == Oriented(move_pairs[cursor])[2]
     IN  /\ Mergeable(src, dst)
         /\ adjacency' = MergedAdjacency(src, dst)
         /\ nodes' = nodes \ {src}
         /\ weight' = [weight EXCEPT ![dst] = @ + weight[src]]
         /\ coalesced' = [coalesced EXCEPT ![src] = dst]
         /\ rep' = [n \in Node |-> IF rep[n] = src THEN dst ELSE rep[n]]
  /\ cursor' = cursor + 1
  /\ UNCHANGED <<phase, precolored, phys_reg, move_pairs, call_crossing_vars,
                 color, pending, interference>>

\* Mutation: a refused pair is examined again.
CoalesceSkipStays ==
  /\ phase = "coalesce" /\ cursor <= Len(move_pairs)
  /\ LET pair == Oriented(move_pairs[cursor])
     IN  ~Mergeable(pair[1], pair[2])
  /\ UNCHANGED vars

CoalesceSkip ==
  /\ phase = "coalesce" /\ cursor <= Len(move_pairs)
  /\ LET pair == Oriented(move_pairs[cursor])
     IN  ~Mergeable(pair[1], pair[2])
  /\ cursor' = cursor + 1
  /\ UNCHANGED <<phase, graph, phys_reg, weight, coalesced, color, pending,
                 history>>

-----------------------------------------------------------------------------
(* Color.                                                                  *)

\* The working copy without its precoloured nodes.
Stripped ==
  [n \in Node |-> IF n \in precolored THEN {} ELSE adjacency[n] \ precolored]

\* Mutation: precoloured nodes stay in the active set.
StartColorKeepsPrecolored ==
  /\ phase = "coalesce" /\ cursor > Len(move_pairs)
  /\ phase' = "simplify"
  /\ adj' = Stripped
  /\ active_nodes' = nodes
  /\ worklist' = {n \in nodes : Cardinality(Stripped[n]) < k}
  /\ spill_degree' = [n \in Node |-> Cardinality(Stripped[n])]
  /\ UNCHANGED <<graph, phys_reg, weight, coalesced, cursor, stack, spilled,
                 pending, history>>

\* Precoloured nodes leave the working copy only; the worklist is then the
\* nodes of insignificant degree, and the spill order is fixed.
StartColor ==
  /\ phase = "coalesce" /\ cursor > Len(move_pairs)
  /\ phase' = "simplify"
  /\ adj' = Stripped
  /\ active_nodes' = nodes \ precolored
  /\ worklist' = {n \in nodes \ precolored : Cardinality(Stripped[n]) < k}
  /\ spill_degree' = [n \in Node |-> Cardinality(Stripped[n])]
  /\ UNCHANGED <<graph, phys_reg, weight, coalesced, cursor, stack, spilled,
                 pending, history>>

\* Mutation: a neighbour is queued one degree too early.
FreedNeighborsAtK(id) ==
  {n \in adj[id] : Cardinality(adj[n] \ {id}) = k}

\* The neighbours of id whose degree drops below k when id is removed.
FreedNeighbors(id) ==
  {n \in adj[id] : Cardinality(adj[n] \ {id}) + 1 = k}

\* Push id and remove it from the working copy.
Remove(id) ==
  /\ stack' = Append(stack, id)
  /\ adj' = [n \in Node |-> IF n = id THEN {} ELSE adj[n] \ {id}]
  /\ active_nodes' = active_nodes \ {id}

\* The popped node may have been removed already; it is then dropped.
Simplify(id) ==
  /\ phase = "simplify" /\ active_nodes # {}
  /\ id \in worklist
  /\ IF id \in active_nodes
     THEN /\ Remove(id)
          /\ worklist' = (worklist \ {id}) \cup FreedNeighbors(id)
     ELSE /\ worklist' = worklist \ {id}
          /\ UNCHANGED <<stack, adj, active_nodes>>
  /\ UNCHANGED <<phase, graph, phys_reg, weight, coalesced, cursor,
                 spill_degree, spilled, pending, history>>

\* The comparator of spill_order: least used first, then highest degree.
SpillBefore(a, b) ==
  \/ weight[a] < weight[b]
  \/ weight[a] = weight[b] /\ spill_degree[a] > spill_degree[b]

\* The first node of the spill order that is still active is spilled; nodes
\* that compare equal are in any order.
Spill(id) ==
  /\ phase = "simplify"
  /\ worklist = {}
  /\ id \in active_nodes
  /\ \A m \in active_nodes : ~SpillBefore(m, id)
  /\ Remove(id)
  /\ spilled' = spilled \cup {id}
  /\ worklist' = FreedNeighbors(id)
  /\ UNCHANGED <<phase, graph, phys_reg, weight, coalesced, cursor,
                 spill_degree, pending, history>>

EndSimplify ==
  /\ phase = "simplify" /\ active_nodes = {}
  /\ phase' = "select"
  /\ UNCHANGED <<graph, phys_reg, weight, coalesced, cursor, color, pending,
                 history>>

\* Mutation: only the colours of the working copy's nodes are avoided.
ForbiddenUnlessPrecolored(id) ==
  {phys_reg[n] : n \in adjacency[id] \ precolored} \ {NoReg}

\* The colours of id's neighbours, and T5 for a call-crossing node.
Forbidden(id) ==
  ({phys_reg[n] : n \in adjacency[id]} \ {NoReg})
    \cup (IF id \in call_crossing_vars THEN {T5} ELSE {})

Free(id) == {i \in 1 .. k : Pool[i] \notin Forbidden(id)}

\* The first free colour of the pool.
Choice(id) ==
  Pool[CHOOSE i \in Free(id) : \A j \in Free(id) : i <= j]

Select ==
  /\ phase = "select" /\ stack # << >>
  /\ LET id == stack[Len(stack)]
     IN  \/ /\ id \in spilled
            /\ UNCHANGED <<phys_reg, spilled>>
         \/ /\ id \notin spilled /\ Free(id) # {}
            /\ phys_reg' = [phys_reg EXCEPT ![id] = Choice(id)]
            /\ UNCHANGED spilled
         \/ /\ id \notin spilled /\ Free(id) = {}
            /\ spilled' = spilled \cup {id}
            /\ UNCHANGED phys_reg
  /\ stack' = SubSeq(stack, 1, Len(stack) - 1)
  /\ UNCHANGED <<phase, graph, weight, coalesced, cursor, adj, active_nodes,
                 worklist, spill_degree, pending, history>>

EndSelect ==
  /\ phase = "select" /\ stack = << >>
  /\ phase' = "propagate"
  /\ pending' = {n \in Node : coalesced[n] # NoNode}
  /\ UNCHANGED <<graph, phys_reg, weight, coalesced, cursor, color, history>>

\* Mutation: the survivor's id is stored where its register belongs.
PropagateId(src) ==
  /\ phase = "propagate"
  /\ src \in pending
  /\ pending' = pending \ {src}
  /\ phys_reg' = [phys_reg EXCEPT ![src] = coalesced[src]]
  /\ UNCHANGED <<phase, graph, weight, coalesced, cursor, color, history>>

\* One entry of coalesced_, in any order: src takes dst's colour if it has one.
Propagate(src) ==
  /\ phase = "propagate"
  /\ src \in pending
  /\ pending' = pending \ {src}
  /\ phys_reg' = IF phys_reg[coalesced[src]] # NoReg
                 THEN [phys_reg EXCEPT ![src] = phys_reg[coalesced[src]]]
                 ELSE phys_reg
  /\ UNCHANGED <<phase, graph, weight, coalesced, cursor, color, history>>

Finish ==
  /\ phase = "propagate" /\ pending = {}
  /\ phase' = "done"
  /\ UNCHANGED <<graph, phys_reg, weight, coalesced, cursor, color, pending,
                 history>>

Terminated == phase = "done" /\ UNCHANGED vars

-----------------------------------------------------------------------------
Build ==
  \/ \E n \in Node, r \in ArgReg : SetPrecolored(n, r)
  \/ \E d \in Node : \E L \in SUBSET (Node \ {d}) : Define(d, L)
  \/ \E n \in Node : Use(n)
  \/ \E u, v \in Node : RemoveEdge(u, v)
  \/ \E u, v \in Node : AddMovePair(u, v)
  \/ \E n \in Node : CrossCall(n)

Run ==
  \/ StartCoalesce
  \/ CoalesceMerge
  \/ CoalesceSkip
  \/ StartColor
  \/ \E n \in Node : Simplify(n)
  \/ \E n \in Node : Spill(n)
  \/ EndSimplify
  \/ Select
  \/ EndSelect
  \/ \E n \in Node : Propagate(n)
  \/ Finish

Next == Build \/ Run \/ Terminated

Spec == Init /\ [][Next]_vars

\* The allocator is one sequential call: once the graph is built it runs on.
FairSpec == Spec /\ WF_vars(Run)

-----------------------------------------------------------------------------
(* Properties.                                                             *)

\* Two variables that RegAlloc recorded as interfering never end up in one
\* register, whatever was coalesced, spilled or propagated in between
\* (Coalesce, Color).
ProperColoring ==
  \A u \in Node : \A v \in interference[u] :
    phys_reg[u] # NoReg => phys_reg[u] # phys_reg[v]

\* What makes ProperColoring inductive.  The graph is symmetric, loop free and
\* closed; distinct parameters have distinct registers.
GraphInv ==
  /\ \A u \in Node : adjacency[u] \subseteq nodes /\ u \notin adjacency[u]
  /\ \A u \in Node : \A v \in adjacency[u] : u \in adjacency[v]
  /\ precolored \subseteq nodes
  /\ \A m \in precolored : phys_reg[m] # NoReg
  /\ \A m, n \in precolored : phys_reg[m] = phys_reg[n] => m = n
  /\ \A i \in 1 .. Len(move_pairs) : move_pairs[i][1] # move_pairs[i][2]

\* rep follows the merges, and the surviving graph still has an edge for every
\* interference there was before coalescing.
RepInv ==
  /\ \A n \in nodes : rep[n] = n /\ coalesced[n] = NoNode
  /\ \A n \in Node : rep[n] = n \/ rep[n] \in nodes
  /\ \A n \in Node : coalesced[n] # NoNode
                        => rep[n] = rep[coalesced[n]] /\ rep[n] \in nodes
  /\ \A u \in Node : \A v \in interference[u] : rep[v] \in adjacency[rep[u]]
  /\ phase = "build" => \A n \in Node : /\ coalesced[n] = NoNode
                                         /\ rep[n] = n
                                         /\ interference[n] = {}

\* Only what Select may colour is on the stack, colours spread from survivors
\* only, and the surviving graph is properly coloured.
ColorInv ==
  /\ phase \in {"build", "coalesce"} => active_nodes = {} /\ stack = << >>
  /\ active_nodes \subseteq nodes \ precolored
  /\ \A i \in 1 .. Len(stack) : stack[i] \in nodes \ precolored
  /\ phase \in {"build", "coalesce", "simplify"} =>
       \A n \in Node \ precolored : phys_reg[n] = NoReg
  /\ phase = "select" => \A n \in Node \ nodes : phys_reg[n] = NoReg
  /\ \A n \in pending : coalesced[n] # NoNode
  /\ \A n \in Node : phys_reg[n] \in {NoReg, phys_reg[rep[n]]}
  /\ \A u \in nodes : \A v \in adjacency[u] :
       phys_reg[u] # NoReg => phys_reg[u] # phys_reg[v]

\* The inductive invariant behind ProperColoring: Coalesce rewrites the edges
\* so that none is lost, and Color colours survivors only.
IInv == TypeOK /\ GraphInv /\ RepInv /\ ColorInv

\* The working copy is the surviving graph cut down to the active nodes, and
\* the worklist is kept exact while nodes leave it.
WorkInv ==
  phase = "simplify" =>
    /\ \A n \in active_nodes : adj[n] = adjacency[n] \cap active_nodes
    /\ worklist = {n \in active_nodes : Cardinality(adj[n]) < k}

\* The neighbours of stack[i] that Select colours before it.
Above(i) ==
  {n \in adjacency[stack[i]] \ precolored : \A j \in 1 .. i : stack[j] # n}

\* Each node is pushed once and uncoloured until it is popped, and what was
\* pushed without being a spill candidate has few neighbours above it.
StackInv ==
  /\ \A i, j \in 1 .. Len(stack) : stack[i] = stack[j] => i = j
  /\ \A i \in 1 .. Len(stack) : stack[i] \notin active_nodes
  /\ \A i \in 1 .. Len(stack) :
       stack[i] \notin spilled => Cardinality(Above(i)) < k
  /\ phase = "select" => \A i \in 1 .. Len(stack) : phys_reg[stack[i]] = NoReg

\* A survivor keeps insignificant degree through later merges, so neither the
\* spill order nor a missing colour sends it to memory.
MergeInv ==
  \A n \in Node : coalesced[n] # NoNode =>
    /\ Cardinality(adjacency[rep[n]]) < k
    /\ rep[n] \in spilled => rep[n] \in call_crossing_vars

\* Every surviving variable is still to come, in a register or spilled.
OnStack(n) == \E i \in 1 .. Len(stack) : stack[i] = n
PlacedInv ==
  /\ phase \in {"build", "coalesce"} => spilled = {}
  /\ phase = "simplify" =>
       \A n \in nodes \ precolored : n \in active_nodes \/ OnStack(n)
  /\ phase \in {"select", "propagate", "done"} =>
       /\ active_nodes = {}
       /\ \A n \in nodes : OnStack(n) \/ phys_reg[n] # NoReg \/ n \in spilled
  /\ phase \in {"propagate", "done"} => stack = << >>

\* The inductive invariant behind the properties about spills: what Color
\* knows of degrees stays true from the merges to the last pop.
FullInv == IInv /\ WorkInv /\ StackInv /\ MergeInv /\ PlacedInv

\* A parameter stays in the register the calling convention gave it.
ParametersKeepTheirRegister ==
  [][\A n \in precolored : phys_reg'[n] = phys_reg[n]]_phys_reg

\* Conservative coalescing never costs a spill: a survivor of a merge that
\* may use the whole pool has a register at the end (Coalesce's degree test).
CoalescedNeverSpills ==
  phase = "done" =>
    \A n \in Node :
      coalesced[n] # NoNode /\ rep[n] \notin call_crossing_vars
        => phys_reg[rep[n]] # NoReg

\* Select fails to find a colour only for a node that a precoloured neighbour
\* or a call denies one: a node that Simplify removed with insignificant degree
\* is otherwise always coloured, so no variable but the candidates of the spill
\* order goes to memory.
OnlySpillCandidatesSpill ==
  [][phase = "select" /\ spilled' # spilled =>
       LET id == stack[Len(stack)]
       IN  \/ adjacency[id] \cap precolored # {}
           \/ id \in call_crossing_vars]_vars

\* The `already removed` test of the simplify loop is never needed, and a node
\* of insignificant degree is never left for the spill order to pick.
WorklistExact ==
  phase = "simplify" =>
    worklist = {n \in active_nodes : Cardinality(adj[n]) < k}

\* Color returns: every built graph is coloured.
ColorTerminates == (phase = "coalesce") ~> (phase = "done")

\* interference_graph.cpp, Select: t5 is forbidden "for variables that cross
\* call sites (they would be clobbered by the call)".
CallCrossingAvoidsT5 ==
  \A n \in call_crossing_vars : phys_reg[n] # T5
=============================================================================
