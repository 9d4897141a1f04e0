------------------------------- MODULE Mem2reg -------------------------------
(***************************************************************************)
(* Promotion of stack cells to values (src/mem2reg/mem2reg.cpp with the CFG *)
(* class) and the splitting of critical edges (src/mem2reg/eliminator.cpp). *)
(* The state is the function's blocks and what the CFG object keeps between *)
(* the steps: the dominator tree and frontiers, the cells to promote, the   *)
(* pending calls of BatchedDFSRecursive and replace_map_.  A cell is the    *)
(* name of an alloca.                                                       *)
(***************************************************************************)
EXTENDS Function, DominatorTree

VARIABLES
  dom,        \* dom_
  frontier,   \* frontier_
  cells,      \* the promoted cells, in the order a block's accesses are walked
  placed,     \* how many of them have their phis
  pending,    \* blocks still to rename, each with the top of every cell's stack
  replace     \* replace_map_: the value of a removed load

m2rVars == <<dom, frontier, cells, placed, pending, replace>>

CFGOf(bs) == Graph([b \in DOMAIN bs |-> SuccSeq(bs[b])])

IsStore(i) == i.kind = "store"
IsLoad(i) == i.kind = "load"
Accesses(i, x) == (IsStore(i) /\ i.use[2] = x) \/ (IsLoad(i) /\ i.use[1] = x)

\* A cell whose address is stored, passed or indexed stays in memory.
Escapes(bs, x) ==
  \E p \in LivePositions(bs) :
    LET i == At(bs, p)
    IN IF IsStore(i) THEN i.use[1] = x ELSE ~IsLoad(i) /\ x \in ToSet(i.use)

Promotable(bs) ==
  LET allocas == SelectSeq(bs[0].ins, LAMBDA i : i.kind = "alloca" /\ ~Escapes(bs, i.res))
  IN [k \in DOMAIN allocas |-> allocas[k].res]

\* The blocks at whose start cell x is live: the least solution of CalcInOut.
LiveIn(x) ==
  LET hits == [b \in DOMAIN blocks |-> SelectSeq(Live(blocks[b]), LAMBDA i : Accesses(i, x))]
      uses == {b \in DOMAIN blocks : hits[b] # <<>> /\ IsLoad(hits[b][1])}
      untouched == {b \in DOMAIN blocks : \A k \in DOMAIN hits[b] : ~IsStore(hits[b][k])}
      Grow(k, S) == S \cup {b \in untouched : Succs(blocks[b]) \cap S # {}}
  IN FoldSet(Grow, uses, DOMAIN blocks)

\* Mutation: the frontier of a block with a new phi is not looked at.
PhiBlocksOnce(x) ==
  UNION {frontier[b] : b \in {c \in DOMAIN blocks : \E k \in DOMAIN blocks[c].ins :
                                IsStore(blocks[c].ins[k]) /\ blocks[c].ins[k].use[2] = x}}
  \cap LiveIn(x)

\* CFG::AddPhi: the iterated frontier of the blocks that store x, where x is live.
PhiBlocks(x) ==
  LET defs == {b \in DOMAIN blocks : \E k \in DOMAIN blocks[b].ins :
                                       IsStore(blocks[b].ins[k]) /\ blocks[b].ins[k].use[2] = x}
      live == LiveIn(x)
      Grow(k, S) == S \cup (UNION {frontier[b] : b \in S \cup defs} \cap live)
  IN FoldSet(Grow, {}, DOMAIN blocks)

PhiName(k, b) == <<"phi", k * Cardinality(DOMAIN blocks) + b>>
PhiVar(phi) == cells[phi.res[2] \div Cardinality(DOMAIN blocks)]

\* CFG::ReplaceValue follows a chain of replacements to its end.
RECURSIVE ReplaceValue(_, _)
ReplaceValue(map, x) ==
  IF x \in DOMAIN map THEN ReplaceValue(map, map[x]) ELSE x

\* CalcDominatorTree; the promoted allocas are marked removed.  Any order of
\* the cells stands for the order of their names.
StartMem2reg ==
  /\ phase = "mem2reg"
  /\ dom' = Dom(CFGOf(blocks))
  /\ cells' \in {Promotable(blocks), Reverse(Promotable(blocks))}
  /\ blocks' = [blocks EXCEPT ![0].ins = [k \in DOMAIN @ |->
                   [@[k] EXCEPT !.removed = @ \/ \E n \in DOMAIN cells' : cells'[n] = blocks[0].ins[k].res]]]
  /\ phase' = "frontier"
  /\ UNCHANGED <<params, frontier, placed, pending, replace>>

CalcFrontier ==
  /\ phase = "frontier"
  /\ frontier' = Frontier(CFGOf(blocks), dom)
  /\ placed' = 0
  /\ phase' = "place"
  /\ UNCHANGED <<params, blocks, dom, cells, pending, replace>>

\* AddPhi for the next cell.
PlacePhis ==
  /\ phase = "place" /\ placed < Len(cells)
  /\ LET where == PhiBlocks(cells[placed + 1])
     IN blocks' = [b \in DOMAIN blocks |->
                     IF b \in where THEN [blocks[b] EXCEPT !.phi = Append(@, Phi(PhiName(placed + 1, b), <<>>))]
                     ELSE blocks[b]]
  /\ placed' = placed + 1
  /\ UNCHANGED <<params, phase, dom, frontier, cells, pending, replace>>

StartRename ==
  /\ phase = "place" /\ placed = Len(cells)
  /\ pending' = <<[block |-> 0, top |-> <<>>]>>
  /\ replace' = <<>>
  /\ phase' = "rename"
  /\ UNCHANGED <<params, blocks, dom, frontier, cells, placed>>

\* One load or store of cell x at position k: a load is replaced by the value
\* on top of x's stack, if there is one; a store pushes its value.
Promote(s, k, x) ==
  LET i == s.ins[k]
      v == ReplaceValue(s.replace, i.use[1])
  IN IF IsStore(i)
     THEN [s EXCEPT !.top = (x :> v) @@ @, !.ins[k] = [@ EXCEPT !.use[1] = v, !.removed = TRUE]]
     ELSE IF x \notin DOMAIN s.top THEN s
     ELSE [s EXCEPT !.replace = (i.res :> s.top[x]) @@ @, !.ins[k].removed = TRUE]

\* The block's phis are pushed, then its accesses are walked cell by cell.
Walk(u, top) ==
  LET ins == blocks[u].ins
      phis == blocks[u].phi
      Of(x) == SelectSeq([k \in DOMAIN ins |-> k], LAMBDA k : Accesses(ins[k], x))
      accesses == FlattenSeq([n \in DOMAIN cells |->
                    LET ks == Of(cells[n]) IN [j \in DOMAIN ks |-> <<ks[j], cells[n]>>]])
      pushed == [x \in {PhiVar(phis[k]) : k \in DOMAIN phis} |->
                   phis[CHOOSE k \in DOMAIN phis : PhiVar(phis[k]) = x].res]
  IN FoldByHalves(LAMBDA s, a : Promote(s, a[1], a[2]),
              [ins |-> ins, top |-> pushed @@ top, replace |-> replace], accesses)

\* BatchedDFSRecursive on the block called last; its children start with the
\* stacks it leaves, which its pops restore for its siblings.
RenameBlock ==
  /\ phase = "rename" /\ pending # <<>>
  /\ LET u == Last(pending).block
         w == Walk(u, Last(pending).top)
         Arrive(phi) == IF PhiVar(phi) \in DOMAIN w.top
                        THEN [phi EXCEPT !.val = Append(@, <<w.top[PhiVar(phi)], u>>)] ELSE phi
         Fill(bs, v) == [bs EXCEPT ![v].phi = [k \in DOMAIN @ |-> Arrive(@[k])]]
         child == Reverse(DomChild(dom, u))
     IN /\ blocks' = FoldByHalves(Fill, [blocks EXCEPT ![u].ins = w.ins], SuccSeq(blocks[u]))
        /\ replace' = w.replace
        /\ pending' = Front(pending) \o [k \in DOMAIN child |-> [block |-> child[k], top |-> w.top]]
  /\ UNCHANGED <<params, phase, dom, frontier, cells, placed>>

\* Mutation: phi values keep the names of removed loads.
RewriteSkipsPhis ==
  /\ phase = "rename" /\ pending = <<>>
  /\ blocks' = [b \in DOMAIN blocks |->
       [ReplaceInBlock(blocks[b], LAMBDA x : ReplaceValue(replace, x)) EXCEPT !.phi = blocks[b].phi]]
  /\ phase' = "promoted"
  /\ UNCHANGED <<params, dom, frontier, cells, placed, pending, replace>>

\* Operands of instructions and phis are replaced to the end of their chains.
PhiRewriteAll ==
  /\ phase = "rename" /\ pending = <<>>
  /\ blocks' = [b \in DOMAIN blocks |-> ReplaceInBlock(blocks[b], LAMBDA x : ReplaceValue(replace, x))]
  /\ phase' = "promoted"
  /\ UNCHANGED <<params, dom, frontier, cells, placed, pending, replace>>

------------------------------------------------------------------------------
\* CFG::EliminateCriticalEdge: an edge from a block with two successors to a
\* block with two predecessors gets a block of its own, which takes over the
\* phi entries of the edge.
SplitEdge(bs, u, j) ==
  LET v == SuccSeq(bs[u])[j]
      id == Cardinality(DOMAIN bs)
      Transfer(k, n) == <<"transfer", (id * 100 + k) * 100 + n>>
      TakeOver(k) == [bs[v].phi[k] EXCEPT !.val =
                        [n \in DOMAIN @ |-> IF @[n][2] = u THEN <<Transfer(k, n), id>> ELSE @[n]]]
      Moves(k) == LET val == bs[v].phi[k].val
                      hits == SelectSeq([n \in DOMAIN val |-> n], LAMBDA n : val[n][2] = u)
                  IN [m \in DOMAIN hits |-> Phi(Transfer(k, hits[m]), <<val[hits[m]]>>)]
      new == [phi |-> FlattenSeq([k \in DOMAIN bs[v].phi |-> Moves(k)]),
              ins |-> <<Jump(v)>>]
      last == Len(bs[u].ins)
  IN AddBlock([bs EXCEPT ![u].ins[last].to[j] = id,
                             ![v].phi = [k \in DOMAIN @ |-> TakeOver(k)]], new)

\* preds_ has an entry for every edge, two for a branch with equal targets.
Entries(bs, v) ==
  UNION {{<<u, j>> : j \in {i \in DOMAIN SuccSeq(bs[u]) : SuccSeq(bs[u])[i] = v}} : u \in DOMAIN bs}

CriticalAt(bs, u, j) ==
  LET to == SuccSeq(bs[u])
  IN Len(to) > 1 /\ Cardinality(Entries(bs, to[j])) > 1

\* Mutation: only the first edge of a branch is looked at.
SplitFirstEdges ==
  /\ phase = "promoted"
  /\ LET Edge(bs, u, j) == IF CriticalAt(bs, u, j) THEN SplitEdge(bs, u, j) ELSE bs
         First(bs, u) == IF Len(SuccSeq(bs[u])) > 1 THEN Edge(bs, u, 1) ELSE bs
     IN blocks' = FoldByHalves(First, blocks, [k \in 1 .. Cardinality(DOMAIN blocks) |-> k - 1])
  /\ phase' = "split"
  /\ UNCHANGED <<params, dom, frontier, cells, placed, pending, replace>>

SplitEdges ==
  /\ phase = "promoted"
  /\ LET Edge(bs, u, j) == IF CriticalAt(bs, u, j) THEN SplitEdge(bs, u, j) ELSE bs
         Both(bs, u) == IF Len(SuccSeq(bs[u])) > 1 THEN Edge(Edge(bs, u, 1), u, 2) ELSE bs
     IN blocks' = FoldByHalves(Both, blocks, [k \in 1 .. Cardinality(DOMAIN blocks) |-> k - 1])
  /\ phase' = "split"
  /\ UNCHANGED <<params, dom, frontier, cells, placed, pending, replace>>

------------------------------------------------------------------------------
Mem2regStep ==
  StartMem2reg \/ CalcFrontier \/ PlacePhis \/ StartRename \/ RenameBlock \/ PhiRewriteAll \/ SplitEdges

------------------------------------------------------------------------------
\* The tree and the frontiers that phis are placed by are those of the
\* control-flow graph, whatever order DFS and path compression visit it in.
DominatorsCorrect ==
  /\ phase = "frontier" => IsDominatorTree(CFGOf(blocks), dom)
  /\ phase = "place" => IsFrontier(CFGOf(blocks), frontier)

\* Static single assignment, while the passes rely on it: whatever a reachable
\* block reads is defined once, before, in a block that dominates the reader;
\* what a phi reads, in a block that dominates the predecessor it reads it for.
Definitions ==
  {<<At(blocks, p).res, p[1], p[2]>> : p \in LivePositions(blocks)}
  \cup UNION {{<<blocks[b].phi[n].res, b, 0>> : n \in DOMAIN blocks[b].phi} : b \in Blocks}

DefinitionsDominateUses ==
  phase \in {"promoted", "split", "propagated", "shared"} =>
    LET all == Definitions
        reach == Undominated(CFGOf(blocks))
        DefinedAt(x, b, k) ==
          \/ ~IsVariable(x) \/ x \in ToSet(params)
          \/ \E d \in {e \in all : e[1] = x} :
               /\ \A e \in all : e[1] = x => e = d
               /\ IF d[2] = b THEN d[3] < k ELSE b \notin reach[d[2]]
    IN \A b \in Reachable(blocks) :
         /\ \A k \in DOMAIN blocks[b].ins :
              ~blocks[b].ins[k].removed =>
                \A x \in ToSet(blocks[b].ins[k].use) : DefinedAt(x, b, k)
         /\ \A n \in DOMAIN blocks[b].phi : \A e \in ToSet(blocks[b].phi[n].val) :
              DefinedAt(e[1], e[2], Len(blocks[e[2]].ins) + 1)

\* When phis become moves, each has exactly one value for every way into its
\* block, and the move for one successor cannot disturb another.
PhisMatchEdges ==
  phase \in {"split", "shared"} =>
    \A b \in Reachable(blocks) :
      /\ \A n \in DOMAIN blocks[b].phi :
           LET val == blocks[b].phi[n].val
           IN /\ {val[k][2] : k \in DOMAIN val} = Preds(blocks, b)
              /\ Len(val) = Cardinality(Preds(blocks, b))
      /\ \A j \in DOMAIN SuccSeq(blocks[b]) : ~CriticalAt(blocks, b, j)

==============================================================================
