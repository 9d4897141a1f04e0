---------------------------- MODULE DominatorTree ----------------------------
(***************************************************************************)
(* The dominator tree and the dominance frontiers of a control-flow graph:  *)
(* DominatorTreeSolver (the algorithm of Lengauer and Tarjan with path      *)
(* compression) and CFG::CalcDominatorTree and CFG::CalcFrontier.  A graph  *)
(* is [succ, pred], sequences of blocks for every block 0 .. n - 1; block 0 *)
(* is the entry.  The solver numbers the blocks from 1, so that 0 can stand *)
(* for "none".                                                              *)
(***************************************************************************)
EXTENDS Integers, Sequences, SequencesExt, FiniteSets, FiniteSetsExt, TLC, Folding

Graph(succs) ==     \* AddEdge for every edge: preds_ lists an edge when it is added
  LET blocks == [k \in 1 .. Cardinality(DOMAIN succs) |-> k - 1]
      Sources(v) == FlattenSeq([k \in DOMAIN blocks |->
                      LET hits == SelectSeq(succs[blocks[k]], LAMBDA w : w = v)
                      IN [j \in DOMAIN hits |-> blocks[k]]])
  IN [succ |-> succs, pred |-> [v \in DOMAIN succs |-> Sources(v)]]

Plus1(s) == [k \in DOMAIN s |-> s[k] + 1]

\* DominatorTreeSolver::Init
Solver(n) ==
  LET same == [i \in 1 .. n |-> i]
      zero == [i \in 1 .. n |-> 0]
  IN [tim |-> 0, dfn |-> zero, pos |-> zero, fa |-> zero, idm |-> zero,
      mn |-> same, sdm |-> same, pa |-> same, bucket |-> [i \in 1 .. n |-> <<>>]]

\* Depth-first numbering; an edge list is walked from its newest edge.
RECURSIVE DFS(_, _, _)
DFS(g, u, t) ==
  FoldByHalves(LAMBDA s, v : IF s.dfn[v] # 0 THEN s ELSE [DFS(g, v, s) EXCEPT !.fa[v] = u],
           [t EXCEPT !.tim = @ + 1, !.dfn[u] = t.tim + 1, !.pos[t.tim + 1] = u],
           Reverse(Plus1(g.succ[u - 1])))

\* Mutation: compression forgets the least semidominator on the way.
RECURSIVE FindWithoutLeast(_, _)
FindWithoutLeast(t, x) ==
  LET p == t.pa[x]
      r == FindWithoutLeast(t, p)
  IN IF p = x THEN t ELSE [r EXCEPT !.pa[x] = r.pa[p]]

\* Path compression: mn[x] is the node of least semidominator on the way up.
RECURSIVE Find(_, _)
Find(t, x) ==
  LET p == t.pa[x]
      r == Find(t, p)
  IN IF p = x THEN t
     ELSE [r EXCEPT !.pa[x] = r.pa[p],
                    !.mn[x] = IF r.dfn[r.sdm[r.mn[p]]] < r.dfn[r.sdm[@]] THEN r.mn[p] ELSE @]

\* The semidominator of u from its predecessors.
SemiDominator(g, u, t) ==
  LET Step(s, v) ==
        LET f == Find(s.t, v)
        IN IF s.t.dfn[v] = 0 THEN s
           ELSE [t |-> f, res |-> Min({s.res, IF f.dfn[v] < f.dfn[u] THEN f.dfn[v]
                                              ELSE f.dfn[f.sdm[f.mn[v]]]})]
      last == FoldByHalves(Step, [t |-> t, res |-> Cardinality(DOMAIN t.pa) + 1],
                       Reverse(Plus1(g.pred[u - 1])))
  IN [last.t EXCEPT !.sdm[u] = last.t.pos[last.res]]

\* One turn of Tarjan's loop: link u to its parent, then settle the nodes
\* whose semidominator is that parent.
Link(g, u, t) ==
  LET s == SemiDominator(g, u, t)
      p == s.fa[u]
      linked == [s EXCEPT !.pa[u] = p, !.bucket[s.sdm[u]] = <<u>> \o @]
      Settle(r, v) ==
        LET f == Find(r, v) IN [f EXCEPT !.idm[v] = IF f.sdm[f.mn[v]] = p THEN p ELSE f.mn[v]]
  IN [FoldByHalves(Settle, linked, linked.bucket[p]) EXCEPT !.bucket[p] = <<>>]

Tarjan(g) ==
  LET numbered == DFS(g, 1, Solver(Cardinality(DOMAIN g.succ)))
      n == numbered.tim
      semi == FoldByHalves(LAMBDA t, k : Link(g, t.pos[n + 1 - k], t), numbered, [k \in 1 .. n - 1 |-> k])
      Relative(t, k) ==
        LET u == t.pos[k + 1]
        IN IF t.idm[u] = t.sdm[u] THEN t ELSE [t EXCEPT !.idm[u] = t.idm[t.idm[u]]]
  IN FoldByHalves(Relative, semi, [k \in 1 .. n - 1 |-> k])

\* CFG::CalcDominatorTree: the parent of every block, -1 for the entry and for
\* a block the entry does not reach.
Dom(g) == LET t == Tarjan(g) IN [b \in DOMAIN g.succ |-> t.idm[b + 1] - 1]

DomChild(dom, b) ==
  SelectSeq([k \in 1 .. Cardinality(DOMAIN dom) - 1 |-> k], LAMBDA v : dom[v] = b)

\* The blocks on the way from x up to the entry, the entry left out.
RECURSIVE Up(_, _)
Up(dom, x) == IF x <= 0 THEN {} ELSE {x} \cup Up(dom, dom[x])

\* CFG::CalcFrontier
Frontier(g, dom) ==
  LET Candidates(u) == UNION {Up(dom, v) : v \in ToSet(g.pred[u])} \ Up(dom, dom[u])
  IN [v \in DOMAIN g.succ |-> {u \in DOMAIN g.succ \ {0} : v \in Candidates(u)}]

------------------------------------------------------------------------------
\* What they should be: a dominates b when every path from the entry to b
\* passes through a.  Undominated gives the rest, for every a.
ReachedWithout(g, a) ==
  FoldSet(LAMBDA k, S : S \cup (UNION {ToSet(g.succ[b]) : b \in S} \ {a}), {0} \ {a}, DOMAIN g.succ)

Undominated(g) == FoldSet(LAMBDA a, f : f @@ (a :> ReachedWithout(g, a)), <<>>, DOMAIN g.succ)

\* tree gives every block its closest strict dominator: the one that all the
\* others dominate.
IsDominatorTree(g, tree) ==
  LET reached == ReachedWithout(g, -1)
      reach == Undominated(g)
      Strictly(a, b) == a # b /\ b \notin reach[a]
  IN \A b \in DOMAIN g.succ :
       IF b = 0 \/ b \notin reached THEN tree[b] = -1
       ELSE /\ tree[b] \in reached /\ Strictly(tree[b], b)
            /\ \A c \in reached : Strictly(c, b) => c = tree[b] \/ Strictly(c, tree[b])

\* f gives every block the blocks where its dominance ends.
IsFrontier(g, f) ==
  LET reached == ReachedWithout(g, -1)
      reach == Undominated(g)
  IN \A a \in reached \ {0} :
       f[a] = {b \in reached \ {0} :
                 /\ a = b \/ b \in reach[a]
                 /\ \E p \in ToSet(g.pred[b]) \cap reached : p \notin reach[a]}
==============================================================================
