----------------------- MODULE InterferenceGraphProofs -----------------------
(* Proofs about InterferenceGraph, for every set of variables and registers, *)
(* every pool and every bound: the type invariant, that interfering          *)
(* variables never share a register, and which are sent to memory: the       *)
(* worklist is exact, only candidates of the spill order are spilled, and a  *)
(* merged variable is not.                                                   *)
EXTENDS InterferenceGraph, FiniteSetTheorems, SequenceTheorems,
        WellFoundedInduction, TLAPS

USE DEF graph, color, history

\* A nonempty set of naturals has a least element: Select's first free colour.
LEMMA LeastNatural ==
  ASSUME NEW S \in SUBSET Nat, S # {}
  PROVE  \E i \in S : \A j \in S : i <= j
<1>1. PICK i \in S : \A j \in S : ~(<<j, i>> \in OpToRel(<, Nat))
  BY WFMin, NatLessThanWellFounded
<1>2. \A j \in S : ~(j < i)
  BY <1>1 DEF OpToRel
<1> QED
  BY <1>2

\* The colour Select picks is a register of the pool that is not forbidden.
LEMMA FirstFreeColour ==
  ASSUME NEW id \in Node, Free(id) # {}
  PROVE  Choice(id) \in Reg /\ Choice(id) \notin Forbidden(id)
<1>1. Free(id) \subseteq Nat /\ Free(id) \subseteq 1 .. Len(Pool)
  BY RegAssumption DEF Free, k
<1>2. \E i \in Free(id) : \A j \in Free(id) : i <= j
  BY <1>1, LeastNatural
<1>3. PICK i \in Free(id) : Choice(id) = Pool[i]
  BY <1>2 DEF Choice
<1>4. Pool[i] \in Reg
  BY <1>1, RegAssumption
<1> QED
  BY <1>3, <1>4 DEF Free

\* Popping the stack.
LEMMA FrontProperties ==
  ASSUME NEW S, NEW q \in Seq(S), q # << >>
  PROVE  /\ SubSeq(q, 1, Len(q) - 1) \in Seq(S)
         /\ Len(SubSeq(q, 1, Len(q) - 1)) = Len(q) - 1
         /\ \A i \in 1 .. Len(q) - 1 : SubSeq(q, 1, Len(q) - 1)[i] = q[i]
<1>1. Len(q) \in Nat /\ Len(q) # 0 /\ \A i \in 1 .. Len(q) - 1 : q[i] \in S
  BY LenProperties, EmptySeq
<1> DEFINE n == Len(q) - 1
<1>2. n \in Nat /\ n - 1 + 1 = n /\ \A i \in 1 .. n : 1 + i - 1 = i
  BY <1>1
<1>3. /\ SubSeq(q, 1, n) \in Seq(S)
      /\ Len(SubSeq(q, 1, n)) = IF 1 <= n THEN n - 1 + 1 ELSE 0
      /\ \A i \in 1 .. n - 1 + 1 : SubSeq(q, 1, n)[i] = q[1 + i - 1]
  <2> HIDE DEF n
  <2> QED
    BY <1>1, <1>2, SubSeqProperties DEF n
<1> HIDE DEF n
<1>4. /\ SubSeq(q, 1, n) \in Seq(S)
      /\ Len(SubSeq(q, 1, n)) = n
      /\ \A i \in 1 .. n : SubSeq(q, 1, n)[i] = q[i]
  BY <1>2, <1>3
<1> QED
  BY <1>4 DEF n

\* The initial state satisfies the inductive invariant.
LEMMA InitIInv == Init => IInv
<1> SUFFICES ASSUME Init PROVE IInv
  OBVIOUS
<1> USE DEF Init
<1>1. TypeOK
  BY RegAssumption DEF TypeOK, Phases
<1>2. GraphInv
  BY DEF GraphInv
<1>3. RepInv
  BY DEF RepInv
<1>4. ColorInv
  BY DEF ColorInv
<1> QED
  BY <1>1, <1>2, <1>3, <1>4 DEF IInv

\* Building the graph: every call RegAlloc makes preserves the invariant.
LEMMA BuildIInv == IInv /\ Build => IInv'
<1> SUFFICES ASSUME IInv, Build PROVE IInv'
  OBVIOUS
<1> USE RegAssumption, BoundAssumption
<1>1. ASSUME NEW n \in Node, NEW r \in ArgReg, SetPrecolored(n, r) PROVE IInv'
  <2> USE <1>1 DEF SetPrecolored
  <2>1. TypeOK'
    BY DEF IInv, TypeOK
  <2>2. GraphInv'
    BY DEF IInv, TypeOK, GraphInv
  <2>3. RepInv'
    BY DEF IInv, TypeOK, RepInv
  <2>4. ColorInv'
    BY DEF IInv, TypeOK, GraphInv, RepInv, ColorInv
  <2> QED
    BY <2>1, <2>2, <2>3, <2>4 DEF IInv
<1>2. ASSUME NEW d \in Node, NEW L \in SUBSET (Node \ {d}), Define(d, L)
      PROVE  IInv'
  <2> USE <1>2 DEF Define
  <2>0. AddEdges(d, L) \in [Node -> SUBSET Node]
    BY DEF AddEdges, IInv, TypeOK
  <2>1. TypeOK'
    <3>1. nodes' \in SUBSET Node
      BY DEF IInv, TypeOK
    <3>2. weight' \in [Node -> Nat]
      BY DEF IInv, TypeOK
    <3> QED
      BY <2>0, <3>1, <3>2 DEF IInv, TypeOK
  <2>2. GraphInv'
    BY DEF IInv, TypeOK, GraphInv, AddEdges
  <2>3. RepInv'
    BY DEF IInv, TypeOK, RepInv
  <2>4. ColorInv'
    BY DEF IInv, TypeOK, GraphInv, RepInv, ColorInv, AddEdges
  <2> QED
    BY <2>1, <2>2, <2>3, <2>4 DEF IInv
<1>3. ASSUME NEW n \in Node, Use(n) PROVE IInv'
  <2> USE <1>3 DEF Use
  <2>1. TypeOK'
    BY DEF IInv, TypeOK
  <2>2. GraphInv'
    BY DEF IInv, TypeOK, GraphInv
  <2>3. RepInv'
    BY DEF IInv, TypeOK, RepInv
  <2>4. ColorInv'
    BY DEF IInv, TypeOK, GraphInv, RepInv, ColorInv
  <2> QED
    BY <2>1, <2>2, <2>3, <2>4 DEF IInv
<1>4. ASSUME NEW u \in Node, NEW v \in Node, RemoveEdge(u, v) PROVE IInv'
  <2> USE <1>4 DEF RemoveEdge
  <2>0. WithoutEdge(u, v) \in [Node -> SUBSET Node]
    BY DEF WithoutEdge, IInv, TypeOK
  <2>1. TypeOK'
    BY <2>0 DEF IInv, TypeOK
  <2>2. GraphInv'
    BY DEF IInv, TypeOK, GraphInv, WithoutEdge
  <2>3. RepInv'
    BY DEF IInv, TypeOK, RepInv
  <2>4. ColorInv'
    BY DEF IInv, TypeOK, GraphInv, RepInv, ColorInv, WithoutEdge
  <2> QED
    BY <2>1, <2>2, <2>3, <2>4 DEF IInv
<1>5. ASSUME NEW u \in Node, NEW v \in Node, AddMovePair(u, v) PROVE IInv'
  <2> USE <1>5 DEF AddMovePair
  <2>0. /\ move_pairs \in Seq(Node \X Node)
        /\ <<u, v>> \in Node \X Node
        /\ move_pairs' = Append(move_pairs, <<u, v>>)
    BY DEF IInv, TypeOK
  <2>a. /\ move_pairs' \in Seq(Node \X Node)
        /\ Len(move_pairs') = Len(move_pairs) + 1
        /\ \A i \in 1 .. Len(move_pairs) : move_pairs'[i] = move_pairs[i]
        /\ move_pairs'[Len(move_pairs) + 1] = <<u, v>>
    <3> HIDE <1>5
    <3> QED
      BY <2>0, AppendProperties
  <2>b. Len(move_pairs) \in Nat
    BY <2>0
  <2>1. TypeOK'
    BY <2>a DEF IInv, TypeOK
  <2>2. GraphInv'
    <3>1. \A i \in 1 .. Len(move_pairs') :
            move_pairs'[i] = IF i \in 1 .. Len(move_pairs) THEN move_pairs[i]
                             ELSE <<u, v>>
      <4> HIDE <1>5
      <4> QED
        BY <2>a, <2>b
    <3> QED
      BY <3>1 DEF IInv, TypeOK, GraphInv
  <2>3. RepInv'
    BY DEF IInv, TypeOK, RepInv
  <2>4. ColorInv'
    BY DEF IInv, TypeOK, GraphInv, RepInv, ColorInv
  <2> QED
    BY <2>1, <2>2, <2>3, <2>4 DEF IInv
<1>6. ASSUME NEW n \in Node, CrossCall(n) PROVE IInv'
  <2> USE <1>6 DEF CrossCall
  <2>1. TypeOK'
    BY DEF IInv, TypeOK
  <2>2. GraphInv'
    BY DEF IInv, TypeOK, GraphInv
  <2>3. RepInv'
    BY DEF IInv, TypeOK, RepInv
  <2>4. ColorInv'
    BY DEF IInv, TypeOK, GraphInv, RepInv, ColorInv
  <2> QED
    BY <2>1, <2>2, <2>3, <2>4 DEF IInv
<1> QED
  BY <1>1, <1>2, <1>3, <1>4, <1>5, <1>6 DEF Build

\* Each pair Coalesce examines preserves the invariant: a merge redirects the
\* edges of the removed node to its survivor, so no interference is lost.
LEMMA CoalesceIInv ==
  IInv /\ (StartCoalesce \/ CoalesceMerge \/ CoalesceSkip) => IInv'
<1> SUFFICES ASSUME IInv, StartCoalesce \/ CoalesceMerge \/ CoalesceSkip
             PROVE  IInv'
  OBVIOUS
<1> USE RegAssumption, BoundAssumption
<1>1. CASE StartCoalesce
  <2> USE <1>1 DEF StartCoalesce
  <2>1. TypeOK'
    BY DEF IInv, TypeOK, Phases
  <2>2. GraphInv'
    BY DEF IInv, TypeOK, GraphInv
  <2>3. RepInv'
    BY DEF IInv, TypeOK, RepInv
  <2>4. ColorInv'
    BY DEF IInv, TypeOK, ColorInv
  <2> QED
    BY <2>1, <2>2, <2>3, <2>4 DEF IInv
<1>2. CASE CoalesceMerge
  <2> DEFINE pair == Oriented(move_pairs[cursor])
             src == pair[1]
             dst == pair[2]
  <2>1. /\ src \in nodes /\ dst \in nodes /\ src # dst
        /\ nodes \subseteq Node
        /\ src \notin precolored
        /\ coalesced[src] = NoNode /\ coalesced[dst] = NoNode
        /\ dst \notin adjacency[src]
    <3>1. move_pairs[cursor] \in Node \X Node
      BY <1>2 DEF CoalesceMerge, IInv, TypeOK
    <3>2. move_pairs[cursor][1] # move_pairs[cursor][2]
      <4>1. cursor \in 1 .. Len(move_pairs)
        BY <1>2 DEF CoalesceMerge, IInv, TypeOK
      <4> QED
        BY <4>1 DEF IInv, GraphInv
    <3>3. /\ src # dst
          /\ src \in precolored => dst \in precolored
      BY <3>1, <3>2 DEF Oriented
    <3>4. Mergeable(src, dst)
      BY <1>2 DEF CoalesceMerge
    <3>5. nodes \subseteq Node
      BY DEF IInv, TypeOK
    <3>6. \A m, n \in precolored : phys_reg[m] = phys_reg[n] => m = n
      BY DEF IInv, GraphInv
    <3> HIDE DEF pair, src, dst
    <3>7. /\ src \in nodes /\ dst \in nodes /\ dst \notin adjacency[src]
          /\ coalesced[src] = NoNode /\ coalesced[dst] = NoNode
      BY <3>4 DEF Mergeable
    <3>8. src \notin precolored
      BY <3>3, <3>4, <3>6 DEF Mergeable, PrecoloredAllows
    <3> QED
      BY <3>3, <3>5, <3>7, <3>8
  <2>2. /\ adjacency' = MergedAdjacency(src, dst)
        /\ nodes' = nodes \ {src}
        /\ weight' = [weight EXCEPT ![dst] = @ + weight[src]]
        /\ coalesced' = [coalesced EXCEPT ![src] = dst]
        /\ rep' = [n \in Node |-> IF rep[n] = src THEN dst ELSE rep[n]]
        /\ cursor' = cursor + 1
        /\ phase = "coalesce"
        /\ UNCHANGED <<phase, precolored, phys_reg, move_pairs,
                       call_crossing_vars, color, pending, interference>>
    BY <1>2 DEF CoalesceMerge
  <2> HIDE DEF pair, src, dst
  <2>3. TypeOK'
    <3>1. adjacency' \in [Node -> SUBSET Node]
      <4>1. /\ adjacency \in [Node -> SUBSET Node]
            /\ src \in Node /\ dst \in Node
        BY <2>1 DEF IInv, TypeOK
      <4>2. MergedAdjacency(src, dst) \in [Node -> SUBSET Node]
        BY <4>1 DEF MergedAdjacency
      <4> QED
        BY <2>2, <4>2
    <3>2. weight' \in [Node -> Nat]
      <4>1. src \in Node /\ dst \in Node
        BY <2>1
      <4>2. weight \in [Node -> Nat]
        BY DEF IInv, TypeOK
      <4>3. weight[dst] + weight[src] \in Nat
        BY <4>1, <4>2
      <4>4. weight' = [weight EXCEPT ![dst] = @ + weight[src]]
        BY <2>2
      <4> QED
        BY <4>2, <4>3, <4>4
    <3>3. rep' \in [Node -> Node] /\ coalesced' \in [Node -> Node \cup {NoNode}]
      <4>1. src \in Node /\ dst \in Node
        BY <2>1
      <4>2. rep \in [Node -> Node]
        BY DEF IInv, TypeOK
      <4>3. coalesced \in [Node -> Node \cup {NoNode}]
        BY DEF IInv, TypeOK
      <4>4. rep' \in [Node -> Node]
        BY <4>1, <4>2, <2>2
      <4>5. coalesced' \in [Node -> Node \cup {NoNode}]
        BY <4>1, <4>3, <2>2
      <4> QED
        BY <4>4, <4>5
    <3>4. cursor' \in Nat \ {0}
      BY <2>2 DEF IInv, TypeOK
    <3>5. nodes' \in SUBSET Node
      BY <2>1, <2>2
    <3> QED
      BY <2>2, <3>1, <3>2, <3>3, <3>4, <3>5 DEF IInv, TypeOK
  <2>4. \A u \in Node : adjacency'[u] =
          IF u = src THEN {}
          ELSE IF u = dst THEN (adjacency[dst] \cup adjacency[src]) \ {src, dst}
          ELSE IF u \in adjacency[src] THEN (adjacency[u] \ {src}) \cup {dst}
          ELSE adjacency[u]
    BY <2>2 DEF MergedAdjacency
  <2>5. GraphInv'
    <3>1. /\ \A u \in Node : adjacency[u] \subseteq nodes /\ u \notin adjacency[u]
          /\ \A u \in Node : \A v \in adjacency[u] : u \in adjacency[v]
      BY DEF IInv, GraphInv
    <3>2. ASSUME NEW u \in Node
          PROVE  adjacency'[u] \subseteq nodes' /\ u \notin adjacency'[u]
      <4>1. src \in Node /\ dst \in Node
        BY <2>1
      <4>2. CASE u = src
        BY <2>4, <4>2
      <4>3. CASE u = dst
        <5>1. adjacency'[u] = (adjacency[dst] \cup adjacency[src]) \ {src, dst}
          BY <2>1, <2>4, <4>3
        <5>2. adjacency[dst] \subseteq nodes /\ adjacency[src] \subseteq nodes
          BY <3>1, <4>1
        <5> QED
          BY <2>2, <4>3, <5>1, <5>2
      <4>4. CASE u \notin {src, dst} /\ u \in adjacency[src]
        <5>1. adjacency'[u] = (adjacency[u] \ {src}) \cup {dst}
          BY <2>4, <4>4
        <5> QED
          BY <2>1, <2>2, <3>1, <4>4, <5>1
      <4>5. CASE u \notin {src, dst} /\ u \notin adjacency[src]
        <5>1. adjacency'[u] = adjacency[u]
          BY <2>4, <4>5
        <5>2. src \notin adjacency[u]
          BY <3>1, <4>5
        <5> QED
          BY <2>2, <3>1, <5>1, <5>2
      <4> QED
        BY <4>2, <4>3, <4>4, <4>5
    <3>3. ASSUME NEW u \in Node, NEW v \in adjacency'[u]
          PROVE  u \in adjacency'[v]
      <4>1. v \in Node /\ src \in Node /\ dst \in Node
        BY <2>1, <2>2, <3>2
      <4>2. u # src /\ v # src
        BY <2>2, <2>4, <3>2, <3>3
      <4>3. CASE u = dst
        <5>1. v \in adjacency[dst] \cup adjacency[src] /\ v # dst
          BY <2>1, <2>4, <3>3, <4>1, <4>3
        <5>2. CASE v \in adjacency[src]
          BY <2>4, <4>1, <4>2, <4>3, <5>1, <5>2
        <5>3. CASE v \in adjacency[dst] /\ v \notin adjacency[src]
          <6>1. adjacency'[v] = adjacency[v]
            BY <2>4, <4>1, <4>2, <5>1, <5>3
          <6>2. dst \in adjacency[v]
            BY <3>1, <4>1, <5>3
          <6> QED
            BY <4>3, <6>1, <6>2
        <5> QED
          BY <5>1, <5>2, <5>3
      <4>4. CASE u # dst /\ v = dst
        <5>1. u \in adjacency[src] \/ dst \in adjacency[u]
          BY <2>4, <3>3, <4>2, <4>4
        <5>2. u \in adjacency[src] \cup adjacency[dst]
          BY <3>1, <4>1, <5>1
        <5>3. adjacency'[dst] = (adjacency[dst] \cup adjacency[src]) \ {src, dst}
          BY <2>4, <4>1, <4>2, <4>4
        <5> QED
          BY <4>2, <4>4, <5>2, <5>3
      <4>5. CASE u # dst /\ v # dst
        <5>1. v \in adjacency[u]
          BY <2>4, <3>3, <4>2, <4>5
        <5>2. u \in adjacency[v]
          BY <3>1, <5>1
        <5> QED
          BY <2>4, <4>1, <4>2, <4>5, <5>2
      <4> QED
        BY <4>3, <4>4, <4>5
    <3>4. precolored \subseteq nodes \ {src}
      BY <2>1 DEF IInv, GraphInv
    <3> QED
      BY <2>2, <3>2, <3>3, <3>4 DEF IInv, GraphInv
  <2>6. RepInv'
    <3>1. \A n \in nodes' : rep'[n] = n /\ coalesced'[n] = NoNode
      BY <2>1, <2>2 DEF IInv, TypeOK, RepInv
    <3>2. ASSUME NEW n \in Node, coalesced'[n] # NoNode
          PROVE  rep'[n] = rep'[coalesced'[n]] /\ rep'[n] \in nodes'
      <4>1. /\ coalesced \in [Node -> Node \cup {NoNode}] /\ rep \in [Node -> Node]
            /\ NoNode \notin Node
            /\ \A m \in nodes : rep[m] = m
            /\ \A m \in Node : rep[m] = m \/ rep[m] \in nodes
            /\ \A m \in Node : coalesced[m] # NoNode => rep[m] = rep[coalesced[m]] /\ rep[m] \in nodes
        BY DEF IInv, TypeOK, RepInv
      <4>2. dst \in Node /\ src \in Node /\ dst \in nodes \ {src} /\ nodes' = nodes \ {src}
        BY <2>1, <2>2
      <4>3. \A m \in Node : rep'[m] = IF rep[m] = src THEN dst ELSE rep[m]
        BY <2>2
      <4>4. CASE n = src
        <5>1. coalesced'[n] = dst /\ rep[n] = src /\ rep[dst] = dst
          BY <2>1, <2>2, <4>1, <4>4
        <5> QED
          BY <4>2, <4>3, <5>1
      <4>5. CASE n # src
        <5>1. coalesced'[n] = coalesced[n] /\ coalesced[n] # NoNode /\ coalesced[n] \in Node
          BY <2>2, <3>2, <4>1, <4>5
        <5>2. rep[n] = rep[coalesced[n]] /\ rep[n] \in nodes
          BY <4>1, <5>1
        <5> QED
          BY <4>2, <4>3, <5>1, <5>2
      <4> QED
        BY <4>4, <4>5
    <3>4. \A n \in Node : rep'[n] = n \/ rep'[n] \in nodes'
      BY <2>1, <2>2 DEF IInv, TypeOK, RepInv
    <3>3. ASSUME NEW u \in Node, NEW v \in interference[u]
          PROVE  rep'[v] \in adjacency'[rep'[u]]
      <4>1. /\ v \in Node /\ rep[u] \in Node /\ rep[v] \in Node
            /\ rep[v] \in adjacency[rep[u]]
            /\ rep[u] \in adjacency[rep[v]]
            /\ rep[u] # rep[v]
        BY DEF IInv, TypeOK, RepInv, GraphInv
      <4> QED
        BY <2>1, <2>2, <2>4, <4>1 DEF IInv, TypeOK
    <3> QED
      BY <2>2, <3>1, <3>2, <3>3, <3>4 DEF RepInv
  <2>7. ColorInv'
    <3>1. \A n \in Node \ precolored : phys_reg[n] = NoReg
      BY <2>2 DEF IInv, ColorInv
    <3>2. \A n \in Node : phys_reg[n] \in {NoReg, phys_reg[rep'[n]]}
      <4>1. \A n \in nodes : rep'[n] = n \/ n = src
        BY <2>1, <2>2 DEF IInv, TypeOK, RepInv
      <4> QED
        BY <2>1, <3>1, <4>1 DEF IInv, GraphInv
    <3>3. \A u \in nodes' : \A v \in adjacency'[u] :
            phys_reg[u] # NoReg => phys_reg[u] # phys_reg[v]
      BY <2>1, <2>2, <2>5, <3>1 DEF IInv, TypeOK, GraphInv
    <3>4. \A n \in pending : coalesced'[n] # NoNode
      BY <2>1, <2>2 DEF IInv, TypeOK, ColorInv
    <3>5. active_nodes = {} /\ stack = << >>
      BY <2>2 DEF IInv, ColorInv
    <3> QED
      BY <2>1, <2>2, <3>1, <3>2, <3>3, <3>4, <3>5 DEF IInv, TypeOK, ColorInv
  <2> QED
    BY <2>3, <2>5, <2>6, <2>7 DEF IInv
<1>3. CASE CoalesceSkip
  <2> USE <1>3 DEF CoalesceSkip
  <2>1. TypeOK'
    <3>1. cursor' \in Nat \ {0}
      BY DEF IInv, TypeOK
    <3> QED
      BY <3>1 DEF IInv, TypeOK
  <2>2. GraphInv'
    BY DEF IInv, TypeOK, GraphInv
  <2>3. RepInv'
    BY DEF IInv, TypeOK, RepInv
  <2>4. ColorInv'
    BY DEF IInv, TypeOK, ColorInv
  <2> QED
    BY <2>1, <2>2, <2>3, <2>4 DEF IInv
<1> QED
  BY <1>1, <1>2, <1>3

\* Simplify and the spill order only move active nodes to the stack.
LEMMA SimplifyIInv ==
  IInv /\ (\/ StartColor \/ EndSimplify
           \/ \E n \in Node : Simplify(n) \/ Spill(n)) => IInv'
<1> SUFFICES ASSUME IInv,
                    \/ StartColor \/ EndSimplify
                    \/ \E n \in Node : Simplify(n) \/ Spill(n)
             PROVE  IInv'
  OBVIOUS
<1> USE RegAssumption, BoundAssumption
<1>1. CASE StartColor
  <2> USE <1>1 DEF StartColor
  <2>1. TypeOK'
    <3>1. adj' \in [Node -> SUBSET Node]
      BY DEF Stripped, IInv, TypeOK
    <3>2. spill_degree' \in [Node -> Nat]
      <4>1. \A n \in Node : Stripped[n] \subseteq Node
        BY DEF Stripped, IInv, TypeOK
      <4>2. \A n \in Node : Cardinality(Stripped[n]) \in Nat
        BY <4>1, NodeAssumption, FS_Subset, FS_CardinalityType
      <4> QED
        BY <4>2
    <3>3. active_nodes' \in SUBSET Node /\ worklist' \in SUBSET Node
      BY DEF IInv, TypeOK
    <3> QED
      BY <3>1, <3>2, <3>3 DEF IInv, TypeOK, Phases
  <2>2. GraphInv'
    BY DEF IInv, TypeOK, GraphInv
  <2>3. RepInv'
    BY DEF IInv, TypeOK, RepInv
  <2>4. ColorInv'
    BY DEF IInv, TypeOK, ColorInv
  <2> QED
    BY <2>1, <2>2, <2>3, <2>4 DEF IInv
<1>2. CASE EndSimplify
  <2> USE <1>2 DEF EndSimplify
  <2>1. TypeOK'
    BY DEF IInv, TypeOK, Phases
  <2>2. GraphInv'
    BY DEF IInv, TypeOK, GraphInv
  <2>3. RepInv'
    BY DEF IInv, TypeOK, RepInv
  <2>4. ColorInv'
    BY DEF IInv, TypeOK, GraphInv, ColorInv
  <2> QED
    BY <2>1, <2>2, <2>3, <2>4 DEF IInv
<1>3. ASSUME NEW n \in Node, Simplify(n) \/ Spill(n) PROVE IInv'
  <2>1. /\ phase = "simplify"
        /\ \/ n \in active_nodes /\ Remove(n)
           \/ UNCHANGED <<stack, adj, active_nodes>>
        /\ worklist' \in SUBSET Node
        /\ spilled' \in SUBSET Node
        /\ UNCHANGED <<phase, graph, phys_reg, weight, coalesced, cursor,
                       spill_degree, pending, history>>
    BY <1>3 DEF Simplify, Spill, FreedNeighbors, IInv, TypeOK
  <2>2. \/ /\ n \in active_nodes
           /\ stack' = Append(stack, n)
           /\ adj' = [m \in Node |-> IF m = n THEN {} ELSE adj[m] \ {n}]
           /\ active_nodes' = active_nodes \ {n}
        \/ UNCHANGED <<stack, adj, active_nodes>>
    BY <2>1 DEF Remove
  <2>3. TypeOK'
    <3>0. stack \in Seq(Node) /\ adj \in [Node -> SUBSET Node]
      BY DEF IInv, TypeOK
    <3>1. stack' \in Seq(Node)
      BY <2>2, <3>0, AppendProperties
    <3>2. adj' \in [Node -> SUBSET Node]
      <4>1. CASE adj' = [m \in Node |-> IF m = n THEN {} ELSE adj[m] \ {n}]
        BY <3>0, <4>1
      <4> QED
        BY <2>2, <3>0, <4>1
    <3>3. active_nodes' \in SUBSET Node
      BY <2>2 DEF IInv, TypeOK
    <3> QED
      BY <2>1, <3>1, <3>2, <3>3 DEF IInv, TypeOK
  <2>4. GraphInv'
    BY <2>1 DEF IInv, TypeOK, GraphInv
  <2>5. RepInv'
    BY <2>1 DEF IInv, TypeOK, RepInv
  <2>6. ColorInv'
    <3>1. active_nodes' \subseteq nodes \ precolored
      BY <2>2 DEF IInv, ColorInv
    <3>2. \A i \in 1 .. Len(stack') : stack'[i] \in nodes \ precolored
      <4>1. CASE n \in active_nodes /\ stack' = Append(stack, n)
        <5>1. \A i \in 1 .. Len(stack') :
                stack'[i] = IF i \in 1 .. Len(stack) THEN stack[i] ELSE n
          BY <4>1 DEF IInv, TypeOK
        <5> QED
          BY <4>1, <5>1 DEF IInv, ColorInv
      <4>2. CASE UNCHANGED stack
        BY <4>2 DEF IInv, ColorInv
      <4> QED
        BY <2>2, <4>1, <4>2
    <3> QED
      BY <2>1, <3>1, <3>2 DEF IInv, ColorInv
  <2> QED
    BY <2>3, <2>4, <2>5, <2>6 DEF IInv
<1> QED
  BY <1>1, <1>2, <1>3

\* Select and the propagation loop colour properly.
LEMMA SelectIInv ==
  IInv /\ (\/ Select \/ EndSelect \/ Finish
           \/ \E n \in Node : Propagate(n)) => IInv'
<1> SUFFICES ASSUME IInv,
                    \/ Select \/ EndSelect \/ Finish
                    \/ \E n \in Node : Propagate(n)
             PROVE  IInv'
  OBVIOUS
<1> USE RegAssumption, BoundAssumption
<1>1. CASE Select
  <2> DEFINE id == stack[Len(stack)]
  <2>1. id \in nodes \ precolored /\ id \in Node
    <3>1. Len(stack) \in 1 .. Len(stack)
      BY <1>1 DEF Select, IInv, TypeOK
    <3> QED
      BY <3>1 DEF IInv, TypeOK, ColorInv
  <2>2. ASSUME Free(id) # {}
        PROVE  Choice(id) \in Reg /\ Choice(id) \notin Forbidden(id)
    BY <2>1, <2>2, FirstFreeColour
  <2>3. /\ phase = "select" /\ stack # << >>
        /\ \/ UNCHANGED phys_reg
           \/ /\ phys_reg' = [phys_reg EXCEPT ![id] = Choice(id)]
              /\ Choice(id) \in Reg
              /\ \A n \in adjacency[id] : Choice(id) # phys_reg[n]
        /\ spilled' \in SUBSET Node
        /\ stack' = SubSeq(stack, 1, Len(stack) - 1)
        /\ UNCHANGED <<phase, graph, weight, coalesced, cursor, adj,
                       active_nodes, worklist, spill_degree, pending, history>>
    BY <1>1, <2>1, <2>2 DEF Select, Forbidden, IInv, TypeOK
  <2>4. /\ stack' \in Seq(Node)
        /\ \A i \in 1 .. Len(stack') : stack'[i] \in nodes \ precolored
    <3>1. stack \in Seq(Node) /\ Len(stack) \in Nat
      BY DEF IInv, TypeOK
    <3>2. /\ stack' \in Seq(Node) /\ Len(stack') = Len(stack) - 1
          /\ \A i \in 1 .. Len(stack') : stack'[i] = stack[i]
      BY <2>3, <3>1, FrontProperties
    <3>3. \A i \in 1 .. Len(stack) : stack[i] \in nodes \ precolored
      BY DEF IInv, ColorInv
    <3> QED
      BY <3>1, <3>2, <3>3
  <2> HIDE DEF id
  <2>5. TypeOK'
    <3>1. phys_reg' \in [Node -> Reg \cup {NoReg}]
      <4>1. phys_reg \in [Node -> Reg \cup {NoReg}]
        BY DEF IInv, TypeOK
      <4> QED
        BY <2>1, <2>3, <4>1
    <3> QED
      BY <2>3, <2>4, <3>1 DEF IInv, TypeOK
  <2>6. GraphInv'
    <3>1. \A m \in precolored : phys_reg'[m] = phys_reg[m]
      <4>1. \A m \in precolored : m # id
        BY <2>1
      <4>2. phys_reg \in [Node -> Reg \cup {NoReg}] /\ precolored \subseteq Node
        BY DEF IInv, TypeOK
      <4> QED
        BY <2>3, <4>1, <4>2
    <3>2. UNCHANGED <<nodes, adjacency, precolored, move_pairs>>
      BY <2>3 DEF graph
    <3>3. GraphInv
      BY DEF IInv
    <3> QED
      BY <3>1, <3>2, <3>3 DEF GraphInv
  <2>7. RepInv'
    BY <2>3 DEF IInv, RepInv
  <2>8. ColorInv'
    <3>1. \A n \in Node : n # id => phys_reg'[n] = phys_reg[n]
      BY <2>1, <2>3 DEF IInv, TypeOK
    <3>2. \A n \in Node : phys_reg'[n] \in {NoReg, phys_reg'[rep[n]]}
      <4>1. \A n \in nodes : rep[n] = n
        BY DEF IInv, RepInv
      <4>2. \A n \in Node \ nodes : phys_reg[n] = NoReg
        BY <2>3 DEF IInv, ColorInv
      <4> QED
        BY <2>1, <3>1, <4>1, <4>2
    <3>3. ASSUME NEW u \in nodes, NEW v \in adjacency[u], phys_reg'[u] # NoReg
          PROVE  phys_reg'[u] # phys_reg'[v]
      <4>1. u \in Node /\ v \in nodes /\ v \in Node /\ u \in adjacency[v] /\ u # v
        BY DEF IInv, TypeOK, GraphInv
      <4>2. phys_reg[u] # NoReg => phys_reg[u] # phys_reg[v]
        BY DEF IInv, ColorInv
      <4>3. CASE u = id
        BY <2>1, <2>3, <3>1, <3>3, <4>1, <4>2, <4>3 DEF IInv, TypeOK
      <4>4. CASE v = id
        BY <2>1, <2>3, <3>1, <3>3, <4>1, <4>2, <4>4 DEF IInv, TypeOK
      <4>5. CASE u # id /\ v # id
        BY <3>1, <3>3, <4>1, <4>2, <4>5
      <4> QED
        BY <4>3, <4>4, <4>5
    <3>4. \A n \in Node \ nodes : phys_reg'[n] = NoReg
      BY <2>1, <2>3, <3>1 DEF IInv, ColorInv
    <3> QED
      BY <2>3, <2>4, <3>2, <3>3, <3>4 DEF IInv, ColorInv
  <2> QED
    BY <2>5, <2>6, <2>7, <2>8 DEF IInv
<1>2. CASE EndSelect
  <2> USE <1>2 DEF EndSelect
  <2>1. TypeOK'
    BY DEF IInv, TypeOK, Phases
  <2>2. GraphInv'
    BY DEF IInv, TypeOK, GraphInv
  <2>3. RepInv'
    BY DEF IInv, TypeOK, RepInv
  <2>4. ColorInv'
    BY DEF IInv, TypeOK, ColorInv
  <2> QED
    BY <2>1, <2>2, <2>3, <2>4 DEF IInv
<1>3. ASSUME NEW src \in Node, Propagate(src) PROVE IInv'
  <2> USE <1>3 DEF Propagate
  <2>1. /\ coalesced[src] \in Node
        /\ src \notin nodes
        /\ rep[src] = rep[coalesced[src]] /\ rep[src] \in nodes
    BY DEF IInv, TypeOK, RepInv, ColorInv
  <2>2. phys_reg' \in [Node -> Reg \cup {NoReg}]
    BY <2>1 DEF IInv, TypeOK
  <2>3. \A n \in Node \ {src} : phys_reg'[n] = phys_reg[n]
    BY <2>1 DEF IInv, TypeOK
  <2>4. phys_reg'[src] \in {phys_reg[src], phys_reg[coalesced[src]]}
    BY <2>1 DEF IInv, TypeOK
  <2>5. TypeOK'
    BY <2>2 DEF IInv, TypeOK
  <2>6. GraphInv'
    BY <2>1, <2>3 DEF IInv, TypeOK, GraphInv
  <2>7. RepInv'
    BY DEF IInv, RepInv
  <2>8. ColorInv'
    <3>1. nodes \subseteq Node /\ src \notin nodes
      BY <2>1 DEF IInv, TypeOK
    <3>2. \A n \in Node : phys_reg'[n] \in {NoReg, phys_reg'[rep[n]]}
      <4>1. ASSUME NEW n \in Node PROVE rep[n] \in Node
        BY DEF IInv, TypeOK
      <4>2. \A n \in Node : phys_reg[n] \in {NoReg, phys_reg[rep[n]]}
        BY DEF IInv, ColorInv
      <4>3. rep[src] # src
        BY <2>1
      <4>4. phys_reg'[src] \in {NoReg, phys_reg'[rep[src]]}
        BY <2>1, <2>3, <2>4, <3>1, <4>1, <4>2, <4>3
      <4>5. ASSUME NEW n \in Node, n # src, rep[n] = src
            PROVE  phys_reg'[n] \in {NoReg, phys_reg'[src]}
        BY <2>1, <4>5 DEF IInv, RepInv
      <4> QED
        BY <2>3, <4>1, <4>2, <4>4, <4>5
    <3>3. \A u \in nodes : \A v \in adjacency[u] :
            phys_reg'[u] # NoReg => phys_reg'[u] # phys_reg'[v]
      BY <2>3, <3>1 DEF IInv, GraphInv, ColorInv
    <3>4. \A n \in pending' : coalesced[n] # NoNode
      BY DEF IInv, ColorInv
    <3> QED
      BY <3>2, <3>3, <3>4 DEF IInv, ColorInv
  <2> QED
    BY <2>5, <2>6, <2>7, <2>8 DEF IInv
<1>4. CASE Finish
  <2> USE <1>4 DEF Finish
  <2>1. TypeOK'
    BY DEF IInv, TypeOK, Phases
  <2>2. GraphInv'
    BY DEF IInv, TypeOK, GraphInv
  <2>3. RepInv'
    BY DEF IInv, TypeOK, RepInv
  <2>4. ColorInv'
    BY DEF IInv, TypeOK, ColorInv
  <2> QED
    BY <2>1, <2>2, <2>3, <2>4 DEF IInv
<1> QED
  BY <1>1, <1>2, <1>3, <1>4

\* Every step of the engine preserves the inductive invariant.
LEMMA NextIInv == IInv /\ [Next]_vars => IInv'
<1> SUFFICES ASSUME IInv, [Next]_vars PROVE IInv'
  OBVIOUS
<1>1. CASE Build
  BY <1>1, BuildIInv
<1>2. CASE Run
  BY <1>2, CoalesceIInv, SimplifyIInv, SelectIInv DEF Run
<1>3. CASE UNCHANGED vars
  <2> USE <1>3 DEF vars
  <2>1. TypeOK'
    BY DEF IInv, TypeOK
  <2>2. GraphInv'
    BY DEF IInv, GraphInv
  <2>3. RepInv'
    BY DEF IInv, RepInv
  <2>4. ColorInv'
    BY DEF IInv, ColorInv
  <2> QED
    BY <2>1, <2>2, <2>3, <2>4 DEF IInv
<1> QED
  BY <1>1, <1>2, <1>3 DEF Next, Terminated

\* The colouring of the survivors determines that of every variable.
LEMMA IInvProper == IInv => ProperColoring
<1> SUFFICES ASSUME IInv, NEW u \in Node, NEW v \in interference[u],
                    phys_reg[u] # NoReg
             PROVE  phys_reg[u] # phys_reg[v]
  BY DEF ProperColoring
<1>1. v \in Node /\ rep[u] \in Node /\ rep[v] \in adjacency[rep[u]]
  BY DEF IInv, TypeOK, RepInv
<1>2. rep[u] \in nodes /\ rep[u] \in adjacency[rep[v]] /\ rep[v] \in Node
  BY <1>1 DEF IInv, TypeOK, GraphInv
<1>3. /\ phys_reg[u] = phys_reg[rep[u]]
      /\ phys_reg[v] \in {NoReg, phys_reg[rep[v]]}
  BY <1>1 DEF IInv, ColorInv
<1>4. phys_reg[rep[u]] # phys_reg[rep[v]]
  BY <1>1, <1>2, <1>3 DEF IInv, ColorInv
<1> QED
  BY <1>3, <1>4

\* The inductive invariant holds throughout.
THEOREM Inductive == Spec => []IInv
<1> QED
  BY InitIInv, NextIInv, PTL DEF Spec

\* The fields and locals of InterferenceGraph keep their types.
THEOREM TypeCorrect == Spec => []TypeOK
<1>1. IInv => TypeOK
  BY DEF IInv
<1> QED
  BY Inductive, <1>1, PTL

\* Color never puts two variables that RegAlloc recorded as interfering into
\* one register, whatever Coalesce merged before and whichever order the hash
\* containers are iterated in.
THEOREM Coloring == Spec => []ProperColoring
<1> QED
  BY Inductive, IInvProper, PTL

\* Of the steps of Coalesce and Color only Select and Propagate assign colours.
LEMMA RunAssigns ==
  ASSUME Run, phys_reg' # phys_reg
  PROVE  Select \/ \E n \in Node : Propagate(n)
<1>1. ASSUME NEW n \in Node, Simplify(n) \/ Spill(n) PROVE FALSE
  BY <1>1 DEF Simplify, Spill
<1>2. ~(StartCoalesce \/ CoalesceMerge \/ CoalesceSkip \/ StartColor)
  BY DEF StartCoalesce, CoalesceMerge, CoalesceSkip, StartColor
<1>3. ~(EndSimplify \/ EndSelect \/ Finish)
  BY DEF EndSimplify, EndSelect, Finish
<1> QED
  BY <1>1, <1>2, <1>3 DEF Run

\* Coalesce and Color leave parameters in their registers.
LEMMA RunKeepsParameters ==
  ASSUME IInv, Run, NEW m \in precolored
  PROVE  phys_reg'[m] = phys_reg[m]
<1> SUFFICES ASSUME phys_reg' # phys_reg PROVE phys_reg'[m] = phys_reg[m]
  OBVIOUS
<1>1. /\ m \in nodes /\ m \in Node /\ coalesced[m] = NoNode
      /\ phys_reg \in [Node -> Reg \cup {NoReg}]
  BY DEF IInv, TypeOK, GraphInv, RepInv
<1>2. CASE Select
  <2>1. stack[Len(stack)] \in nodes \ precolored
    <3>1. Len(stack) \in 1 .. Len(stack)
      BY <1>2 DEF Select, IInv, TypeOK
    <3> QED
      BY <3>1 DEF IInv, ColorInv
  <2> QED
    BY <1>1, <1>2, <2>1 DEF Select
<1>3. ASSUME NEW n \in Node, Propagate(n) PROVE phys_reg'[m] = phys_reg[m]
  <2>1. coalesced[n] # NoNode
    BY <1>3 DEF Propagate, IInv, ColorInv
  <2> QED
    BY <1>1, <1>3, <2>1 DEF Propagate
<1> QED
  BY <1>2, <1>3, RunAssigns

\* No step changes the register of a parameter (Color strips precoloured nodes
\* from its working copy, Coalesce makes them survivors).
THEOREM Parameters == Spec => ParametersKeepTheirRegister
<1>1. IInv /\ [Next]_vars =>
        [\A n \in precolored : phys_reg'[n] = phys_reg[n]]_phys_reg
  <2> SUFFICES ASSUME IInv, [Next]_vars, phys_reg' # phys_reg,
                      NEW m \in precolored
               PROVE  phys_reg'[m] = phys_reg[m]
    OBVIOUS
  <2>1. m \in nodes /\ phys_reg \in [Node -> Reg \cup {NoReg}] /\ m \in Node
    BY DEF IInv, TypeOK, GraphInv
  <2>2. ASSUME NEW n \in Node, NEW r \in ArgReg, SetPrecolored(n, r)
        PROVE  phys_reg'[m] = phys_reg[m]
    BY <2>1, <2>2 DEF SetPrecolored
  <2>3. CASE Build
    BY <2>2, <2>3 DEF Build, Define, Use, RemoveEdge, AddMovePair, CrossCall
  <2>4. CASE Run
    BY <2>4, RunKeepsParameters
  <2>5. CASE UNCHANGED vars
    BY <2>5 DEF vars
  <2> QED
    BY <2>3, <2>4, <2>5 DEF Next, Terminated
<1> QED
  BY Inductive, <1>1, PTL DEF Spec, ParametersKeepTheirRegister

-----------------------------------------------------------------------------
(* Degrees.                                                                *)

\* The working set of any part of the graph is finite and has a cardinality.
LEMMA NodeSets ==
  ASSUME NEW S \in SUBSET Node
  PROVE  IsFiniteSet(S) /\ Cardinality(S) \in Nat
<1> QED
  BY NodeAssumption, FS_Subset, FS_CardinalityType

\* A part of a set of nodes is no larger than the set.
LEMMA Fewer ==
  ASSUME NEW S \in SUBSET Node, NEW T \in SUBSET S
  PROVE  Cardinality(T) <= Cardinality(S)
<1> QED
  BY NodeSets, FS_Subset

\* Removing a neighbour lowers a degree by one.
LEMMA OneLess ==
  ASSUME NEW S \in SUBSET Node, NEW x \in S
  PROVE  Cardinality(S \ {x}) = Cardinality(S) - 1
<1> QED
  BY NodeSets, FS_RemoveElement

\* The number of colours is a natural number.
LEMMA PoolSize == k \in Nat
<1> QED
  BY RegAssumption, LenProperties DEF k

\* The nodes of S carry at most as many colours as there are nodes in S.
LEMMA ColoursOf ==
  ASSUME NEW S \in SUBSET Node, NEW F, F = {phys_reg[n] : n \in S}
  PROVE  IsFiniteSet(F) /\ Cardinality(F) <= Cardinality(S)
<1> DEFINE f == [n \in S |-> phys_reg[n]]
<1>1. f \in Surjection(S, F)
  BY DEF Surjection
<1> HIDE DEF f
<1> QED
  BY <1>1, NodeSets, FS_Surjection

\* Fewer forbidden colours than the pool has leave one free: no register is
\* in the pool twice.
LEMMA SomeColourFree ==
  ASSUME NEW F, IsFiniteSet(F), Cardinality(F) < k
  PROVE  \E i \in 1 .. k : Pool[i] \notin F
<1> SUFFICES ASSUME \A i \in 1 .. k : Pool[i] \in F PROVE FALSE
  OBVIOUS
<1> DEFINE f == [i \in 1 .. k |-> Pool[i]]
<1>1. f \in [1 .. k -> F]
  OBVIOUS
<1>2. IsFiniteSet(1 .. k) /\ Cardinality(1 .. k) = k
  BY PoolSize, FS_Interval
<1>3. \A i \in 1 .. k : f[i] = Pool[i]
  OBVIOUS
<1> HIDE DEF f
<1>4. PICK i, j \in 1 .. k : i # j /\ f[i] = f[j]
  BY <1>1, <1>2, FS_PigeonHole
<1> QED
  BY <1>3, <1>4, PoolAssumption DEF k

\* Select finds a colour for a node when fewer than k of its neighbours, the
\* set S, can have one and no call denies it T5.
LEMMA FreeColour ==
  ASSUME IInv, NEW id \in Node, id \notin call_crossing_vars,
         NEW S \in SUBSET adjacency[id], Cardinality(S) < k,
         \A n \in adjacency[id] \ S : phys_reg[n] = NoReg
  PROVE  Free(id) # {}
<1> DEFINE F == {phys_reg[n] : n \in S}
<1>1. S \in SUBSET Node
  BY DEF IInv, TypeOK
<1>2. IsFiniteSet(F) /\ Cardinality(F) <= Cardinality(S)
  BY <1>1, ColoursOf
<1>3. Cardinality(F) \in Nat /\ Cardinality(S) \in Nat /\ k \in Nat
  BY <1>1, <1>2, NodeSets, FS_CardinalityType, PoolSize
<1>4. Forbidden(id) \subseteq F
  BY DEF Forbidden
<1>5. PICK i \in 1 .. k : Pool[i] \notin F
  <2> HIDE DEF F
  <2>1. Cardinality(F) < k
    BY <1>2, <1>3
  <2> QED
    BY <1>2, <2>1, SomeColourFree
<1> QED
  BY <1>4, <1>5 DEF Free

-----------------------------------------------------------------------------
(* The invariant, action by action.                                        *)

LEMMA InitFull == Init => FullInv
<1> SUFFICES ASSUME Init PROVE FullInv
  OBVIOUS
<1>1. IInv
  BY InitIInv
<1>2. WorkInv /\ StackInv /\ MergeInv /\ PlacedInv
  BY DEF Init, WorkInv, StackInv, MergeInv, PlacedInv
<1> QED
  BY <1>1, <1>2 DEF FullInv

\* The calls that build the graph come before anything is merged or pushed.
LEMMA BuildFull ==
  ASSUME FullInv, Build \/ StartCoalesce
  PROVE  WorkInv' /\ StackInv' /\ MergeInv' /\ PlacedInv'
<1>1. /\ phase = "build" /\ phase' \in {"build", "coalesce"}
      /\ UNCHANGED <<coalesced, color>>
  BY DEF Build, SetPrecolored, Define, Use, RemoveEdge, AddMovePair, CrossCall,
         StartCoalesce
<1>2. stack' = << >> /\ active_nodes' = {} /\ spilled' = {}
  BY <1>1 DEF FullInv, IInv, ColorInv, PlacedInv
<1>3. \A n \in Node : coalesced'[n] = NoNode
  BY <1>1 DEF FullInv, IInv, RepInv
<1> QED
  BY <1>1, <1>2, <1>3 DEF WorkInv, StackInv, MergeInv, PlacedInv

\* A later merge never raises the degree of a survivor it does not involve,
\* and the one it involves is tested again.
LEMMA MergeFull ==
  ASSUME FullInv, CoalesceMerge \/ CoalesceSkip
  PROVE  WorkInv' /\ StackInv' /\ MergeInv' /\ PlacedInv'
<1>1. phase = "coalesce" /\ UNCHANGED <<phase, color>>
  BY DEF CoalesceMerge, CoalesceSkip
<1>2. stack' = << >> /\ active_nodes' = {} /\ spilled' = {}
  BY <1>1 DEF FullInv, IInv, ColorInv, PlacedInv
<1>3. WorkInv' /\ StackInv' /\ PlacedInv'
  BY <1>1, <1>2 DEF WorkInv, StackInv, PlacedInv
<1>4. CASE CoalesceSkip
  <2>1. MergeInv'
    BY <1>4 DEF CoalesceSkip, FullInv, MergeInv
  <2> QED
    BY <1>3, <2>1
<1>5. CASE CoalesceMerge
  <2> DEFINE pair == Oriented(move_pairs[cursor])
             src == pair[1]
             dst == pair[2]
  <2>1. /\ src \in nodes /\ dst \in nodes /\ src \in Node /\ dst \in Node
        /\ Cardinality(MergedNeighbors(src, dst)) < k
        /\ adjacency' = MergedAdjacency(src, dst)
        /\ coalesced' = [coalesced EXCEPT ![src] = dst]
        /\ rep' = [n \in Node |-> IF rep[n] = src THEN dst ELSE rep[n]]
    BY <1>5 DEF CoalesceMerge, Mergeable, FullInv, IInv, TypeOK
  <2> HIDE DEF pair, src, dst
  <2>2. /\ adjacency \in [Node -> SUBSET Node] /\ rep \in [Node -> Node]
        /\ coalesced \in [Node -> Node \cup {NoNode}]
        /\ \A n \in nodes : rep[n] = n
        /\ \A u \in Node : \A v \in adjacency[u] : u \in adjacency[v]
    BY DEF FullInv, IInv, TypeOK, RepInv, GraphInv
  <2>3. \A u \in Node : adjacency'[u] =
          IF u = src THEN {}
          ELSE IF u = dst THEN (adjacency[dst] \cup adjacency[src]) \ {src, dst}
          ELSE IF u \in adjacency[src] THEN (adjacency[u] \ {src}) \cup {dst}
          ELSE adjacency[u]
    BY <2>1 DEF MergedAdjacency
  <2>4. Cardinality(adjacency'[dst]) < k
    <3>1. CASE src = dst
      <4>1. adjacency'[dst] = {}
        BY <2>1, <2>3, <3>1
      <4>2. MergedNeighbors(src, dst) \in SUBSET Node
        BY <2>1, <2>2 DEF MergedNeighbors
      <4>3. Cardinality(adjacency'[dst]) <= Cardinality(MergedNeighbors(src, dst))
        BY <4>1, <4>2, Fewer
      <4> QED
        BY <2>1, <4>1, <4>2, <4>3, NodeSets, PoolSize, FS_EmptySet
    <3>2. CASE src # dst
      BY <2>1, <2>3, <3>2 DEF MergedNeighbors
    <3> QED
      BY <3>1, <3>2
  <2>5. ASSUME NEW r \in Node, r # src, r # dst, Cardinality(adjacency[r]) < k
        PROVE  Cardinality(adjacency'[r]) < k
    <3>1. adjacency[r] \in SUBSET Node
      BY <2>2
    <3>2. CASE r \in adjacency[src]
      <4>1. adjacency'[r] = (adjacency[r] \ {src}) \cup {dst}
        BY <2>3, <2>5, <3>2
      <4>2. src \in adjacency[r]
        BY <2>1, <2>2, <3>2
      <4>3. /\ IsFiniteSet(adjacency[r] \ {src})
            /\ Cardinality(adjacency[r] \ {src}) = Cardinality(adjacency[r]) - 1
        BY <3>1, <4>2, NodeSets, OneLess
      <4>4. Cardinality(adjacency'[r]) \in
              {Cardinality(adjacency[r]) - 1, Cardinality(adjacency[r]) - 1 + 1}
        BY <4>1, <4>3, FS_AddElement
      <4> QED
        BY <2>5, <3>1, <4>4, NodeSets, PoolSize
    <3>3. CASE r \notin adjacency[src]
      BY <2>3, <2>5, <3>3
    <3> QED
      BY <3>2, <3>3
  <2>6. MergeInv'
    <3> SUFFICES ASSUME NEW n \in Node, coalesced'[n] # NoNode
                 PROVE  Cardinality(adjacency'[rep'[n]]) < k
      BY <1>2 DEF MergeInv
    <3>1. CASE rep[n] = src \/ n = src \/ rep[n] = dst
      <4>1. rep'[n] = dst
        BY <2>1, <2>2, <3>1
      <4> QED
        BY <2>4, <4>1
    <3>2. CASE rep[n] # src /\ n # src /\ rep[n] # dst
      <4>1. rep'[n] = rep[n] /\ coalesced[n] # NoNode /\ rep[n] \in Node
        BY <2>1, <2>2, <3>2
      <4>2. Cardinality(adjacency[rep[n]]) < k
        BY <4>1 DEF FullInv, MergeInv
      <4> QED
        BY <2>5, <3>2, <4>1, <4>2
    <3> QED
      BY <3>1, <3>2
  <2> QED
    BY <1>3, <2>6
<1> QED
  BY <1>4, <1>5

\* Color starts with every node that is not precoloured active.
LEMMA StartFull ==
  ASSUME FullInv, StartColor
  PROVE  WorkInv' /\ StackInv' /\ MergeInv' /\ PlacedInv'
<1> USE DEF StartColor
<1>1. stack' = << >> /\ spilled' = {} /\ active_nodes' = nodes \ precolored
  BY DEF FullInv, IInv, ColorInv, PlacedInv
<1>2. WorkInv'
  <2>1. \A n \in active_nodes' : adj'[n] = adjacency[n] \cap active_nodes'
    BY <1>1 DEF Stripped, FullInv, IInv, TypeOK, GraphInv
  <2>2. \A n \in active_nodes' : adj'[n] = Stripped[n]
    BY <1>1 DEF FullInv, IInv, TypeOK
  <2> QED
    BY <1>1, <2>1, <2>2 DEF WorkInv
<1>3. StackInv'
  BY <1>1 DEF StackInv
<1>4. MergeInv'
  BY <1>1 DEF FullInv, MergeInv
<1>5. PlacedInv'
  BY <1>1 DEF FullInv, IInv, GraphInv, PlacedInv
<1> QED
  BY <1>2, <1>3, <1>4, <1>5

\* Removing an active node keeps the working copy exact, and the neighbours
\* above it on the stack are the ones it still has.
LEMMA RemoveFull ==
  ASSUME FullInv, phase = "simplify", NEW id \in active_nodes, Remove(id),
         phase' = phase, adjacency' = adjacency, precolored' = precolored,
         spilled' = spilled \/ spilled' = spilled \cup {id},
         id \in spilled' \/ Cardinality(adj[id]) < k
  PROVE  /\ \A n \in active_nodes' : adj'[n] = adjacency[n] \cap active_nodes'
         /\ {n \in active_nodes' : Cardinality(adj'[n]) < k}
              = (worklist \ {id}) \cup FreedNeighbors(id)
         /\ StackInv'
<1> USE DEF Remove
<1>1. /\ id \in Node /\ active_nodes \subseteq Node
      /\ adj \in [Node -> SUBSET Node] /\ adjacency \in [Node -> SUBSET Node]
      /\ \A u \in Node : \A v \in adjacency[u] : u \in adjacency[v]
      /\ \A n \in active_nodes : adj[n] = adjacency[n] \cap active_nodes
      /\ worklist = {n \in active_nodes : Cardinality(adj[n]) < k}
      /\ active_nodes' = active_nodes \ {id}
      /\ id \notin adjacency[id]
  BY DEF FullInv, IInv, TypeOK, GraphInv, WorkInv
<1>2. ASSUME NEW n \in active_nodes, n # id
      PROVE  adj'[n] = adj[n] \ {id}
  BY <1>1, <1>2
<1>3. \A n \in active_nodes' : adj'[n] = adjacency[n] \cap active_nodes'
  BY <1>1, <1>2
<1>4. ASSUME NEW n \in active_nodes, n # id
      PROVE  Cardinality(adj'[n]) < k <=> n \in worklist \/ n \in FreedNeighbors(id)
  <2>0. /\ adj[n] \in SUBSET Node
        /\ Cardinality(adj[n]) \in Nat /\ Cardinality(adj[n] \ {id}) \in Nat
        /\ k \in Nat
    BY <1>1, NodeSets, PoolSize
  <2>1. CASE id \in adj[n]
    <3>1. n \in adj[id]
      BY <1>1, <2>1
    <3>2. Cardinality(adj[n] \ {id}) = Cardinality(adj[n]) - 1
      BY <2>0, <2>1, OneLess
    <3>3. n \in FreedNeighbors(id) <=> Cardinality(adj[n] \ {id}) + 1 = k
      BY <3>1 DEF FreedNeighbors
    <3>4. n \in worklist <=> Cardinality(adj[n]) < k
      BY <1>1
    <3>5. adj'[n] = adj[n] \ {id}
      BY <1>2, <1>4
    <3> DEFINE c == Cardinality(adj[n])
               d == Cardinality(adj[n] \ {id})
    <3>6. c \in Nat /\ d = c - 1 /\ k \in Nat
      BY <2>0, <3>2
    <3>7. d < k <=> c < k \/ d + 1 = k
      <4> HIDE DEF c, d
      <4> QED
        BY <3>6
    <3> QED
      BY <3>3, <3>4, <3>5, <3>7
  <2>2. CASE id \notin adj[n]
    <3>1. n \notin adj[id]
      BY <1>1, <1>4, <2>2
    <3>2. adj'[n] = adj[n]
      BY <1>2, <1>4, <2>2
    <3> QED
      BY <1>1, <3>1, <3>2 DEF FreedNeighbors
  <2> QED
    BY <2>1, <2>2
<1>5. FreedNeighbors(id) \subseteq active_nodes \ {id}
  BY <1>1 DEF FreedNeighbors
<1>6. {n \in active_nodes' : Cardinality(adj'[n]) < k}
        = (worklist \ {id}) \cup FreedNeighbors(id)
  BY <1>1, <1>4, <1>5
<1>7. StackInv'
  <2> DEFINE m == Len(stack)
  <2>1. stack \in Seq(Node) /\ m \in Nat
    BY DEF FullInv, IInv, TypeOK
  <2>2. /\ Len(stack') = m + 1
        /\ \A i \in 1 .. m : stack'[i] = stack[i]
        /\ stack'[m + 1] = id
    BY <1>1, <2>1, AppendProperties
  <2>3. \A i \in 1 .. Len(stack') : i \in 1 .. m \/ i = m + 1
    BY <2>1, <2>2
  <2>4. m + 1 \in 1 .. Len(stack') /\ m + 1 \notin 1 .. m
    BY <2>1, <2>2
  <2> HIDE DEF m
  <2>5. /\ \A i, j \in 1 .. m : stack[i] = stack[j] => i = j
        /\ \A i \in 1 .. m : stack[i] \notin active_nodes
        /\ \A i \in 1 .. m : stack[i] \notin spilled => Cardinality(Above(i)) < k
    BY DEF FullInv, StackInv, m
  <2>6. \A i, j \in 1 .. Len(stack') : stack'[i] = stack'[j] => i = j
    BY <2>2, <2>3, <2>5
  <2>7. \A i \in 1 .. Len(stack') : stack'[i] \notin active_nodes'
    BY <1>1, <2>2, <2>3, <2>5
  <2>8. ASSUME NEW i \in 1 .. Len(stack'), stack'[i] \notin spilled'
        PROVE  Cardinality(Above(i)') < k
    <3>1. CASE i \in 1 .. m
      <4>1. \A j \in 1 .. i : j \in 1 .. m
        BY <2>1, <3>1 DEF m
      <4>2. Above(i)' = Above(i)
        BY <2>2, <3>1, <4>1 DEF Above
      <4> QED
        BY <2>2, <2>5, <2>8, <3>1, <4>2
    <3>2. CASE i = m + 1
      <4>1. \A n \in nodes \ precolored :
              n \in active_nodes \/ \E j \in 1 .. m : stack[j] = n
        BY DEF FullInv, PlacedInv, OnStack, m
      <4>2. stack'[i] = id /\ \A j \in 1 .. m : j \in 1 .. i /\ stack'[j] = stack[j]
        BY <2>1, <2>2, <3>2
      <4>3. adjacency[id] \subseteq nodes
        BY <1>1 DEF FullInv, IInv, GraphInv
      <4>4. Above(i)' \subseteq adjacency[id] \cap active_nodes
        BY <4>1, <4>2, <4>3 DEF Above
      <4>5. adj[id] \in SUBSET Node /\ Above(i)' \in SUBSET adj[id]
        BY <1>1, <4>4
      <4>6. Cardinality(adj[id]) < k
        BY <2>8, <4>2
      <4>7. Cardinality(Above(i)') <= Cardinality(adj[id])
        BY <4>5, Fewer
      <4>8. Above(i)' \in SUBSET Node
        BY <4>5
      <4> QED
        BY <4>5, <4>6, <4>7, <4>8, NodeSets, PoolSize
    <3> QED
      BY <2>3, <3>1, <3>2
  <2> QED
    BY <2>6, <2>7, <2>8 DEF StackInv
<1> QED
  BY <1>3, <1>6, <1>7

\* Both ways of choosing the next node to remove.
LEMMA SimplifyFull ==
  ASSUME FullInv, NEW id \in Node, Simplify(id) \/ Spill(id)
  PROVE  WorkInv' /\ StackInv' /\ MergeInv' /\ PlacedInv'
<1>1. /\ phase = "simplify"
      /\ UNCHANGED <<phase, graph, phys_reg, coalesced, rep>>
      /\ worklist = {n \in active_nodes : Cardinality(adj[n]) < k}
      /\ active_nodes \subseteq nodes \ precolored /\ nodes \subseteq Node
  BY DEF Simplify, Spill, FullInv, IInv, TypeOK, ColorInv, WorkInv
<1>2. id \in active_nodes /\ Remove(id)
  BY <1>1 DEF Simplify, Spill
<1>3. /\ \/ spilled' = spilled /\ id \in worklist
         \/ spilled' = spilled \cup {id} /\ worklist = {}
      /\ worklist' = (worklist \ {id}) \cup FreedNeighbors(id)
  BY <1>1, <1>2 DEF Simplify, Spill
<1>4. id \in spilled' \/ Cardinality(adj[id]) < k
  BY <1>1, <1>3
<1>5. /\ \A n \in active_nodes' : adj'[n] = adjacency[n] \cap active_nodes'
      /\ {n \in active_nodes' : Cardinality(adj'[n]) < k}
           = (worklist \ {id}) \cup FreedNeighbors(id)
      /\ StackInv'
  BY <1>1, <1>2, <1>3, <1>4, RemoveFull
<1>6. WorkInv'
  BY <1>1, <1>3, <1>5 DEF WorkInv
<1>7. MergeInv'
  <2> SUFFICES ASSUME NEW n \in Node, coalesced[n] # NoNode, rep[n] = id,
                      worklist = {}
               PROVE  FALSE
    BY <1>1, <1>3 DEF FullInv, MergeInv
  <2>1. adjacency[id] \in SUBSET Node /\ adj[id] = adjacency[id] \cap active_nodes
    BY <1>1, <1>2 DEF FullInv, IInv, TypeOK, WorkInv
  <2>2. Cardinality(adjacency[id]) < k
    BY DEF FullInv, MergeInv
  <2>3. Cardinality(adj[id]) <= Cardinality(adjacency[id])
    BY <2>1, Fewer
  <2>4. Cardinality(adj[id]) < k
    BY <2>1, <2>2, <2>3, NodeSets, PoolSize
  <2> QED
    BY <1>1, <1>2, <2>4
<1>8. PlacedInv'
  <2>1. stack \in Seq(Node) /\ Len(stack) \in Nat
    BY DEF FullInv, IInv, TypeOK
  <2>2. /\ stack' = Append(stack, id) /\ active_nodes' = active_nodes \ {id}
        /\ id \in Node
    BY <1>2 DEF Remove
  <2>3. /\ Len(stack') = Len(stack) + 1
        /\ \A i \in 1 .. Len(stack) : stack'[i] = stack[i]
        /\ stack'[Len(stack) + 1] = id
    BY <2>1, <2>2, AppendProperties
  <2>4. OnStack(id)' /\ \A n : OnStack(n) => OnStack(n)'
    BY <2>1, <2>3 DEF OnStack
  <2>5. \A n \in nodes \ precolored : n \in active_nodes \/ OnStack(n)
    BY <1>1 DEF FullInv, PlacedInv
  <2>6. \A n \in nodes' \ precolored' : n \in active_nodes' \/ OnStack(n)'
    BY <1>1, <2>2, <2>4, <2>5
  <2> QED
    BY <1>1, <2>6 DEF PlacedInv
<1> QED
  BY <1>5, <1>6, <1>7, <1>8

\* When no node is active, all that can be coloured is on the stack.
LEMMA EndSimplifyFull ==
  ASSUME FullInv, EndSimplify
  PROVE  WorkInv' /\ StackInv' /\ MergeInv' /\ PlacedInv'
<1> USE DEF EndSimplify
<1>1. \A n \in nodes : OnStack(n) \/ phys_reg[n] # NoReg
  BY DEF FullInv, IInv, GraphInv, PlacedInv
<1>2. PlacedInv'
  BY <1>1 DEF PlacedInv, OnStack
<1>3. \A i \in 1 .. Len(stack) : phys_reg[stack[i]] = NoReg
  BY DEF FullInv, IInv, TypeOK, ColorInv
<1>4. \A i \in 1 .. Len(stack) : Above(i)' = Above(i)
  BY DEF Above
<1>5. StackInv'
  BY <1>3, <1>4 DEF FullInv, StackInv
<1>6. WorkInv' /\ MergeInv'
  BY DEF FullInv, WorkInv, MergeInv
<1> QED
  BY <1>2, <1>5, <1>6

\* A node that was not pushed as a spill candidate, has no precoloured
\* neighbour and crosses no call has a colour left when it is popped: the
\* neighbours that are coloured already were above it on the stack.
LEMMA TopHasColour ==
  ASSUME FullInv, phase = "select", stack # << >>,
         stack[Len(stack)] \notin spilled,
         stack[Len(stack)] \notin call_crossing_vars,
         adjacency[stack[Len(stack)]] \cap precolored = {}
  PROVE  Free(stack[Len(stack)]) # {}
<1> DEFINE m == Len(stack)
           id == stack[m]
<1>1. /\ m \in 1 .. m /\ m \in Nat /\ id \in Node /\ adjacency[id] \in SUBSET Node
  BY DEF FullInv, IInv, TypeOK
<1>2. Cardinality(Above(m)) < k
  BY <1>1 DEF FullInv, StackInv
<1>3. Above(m) \in SUBSET adjacency[id]
  BY DEF Above
<1>4. \A n \in adjacency[id] \ Above(m) : phys_reg[n] = NoReg
  BY <1>1 DEF Above, FullInv, StackInv
<1>5. IInv
  BY DEF FullInv
<1> HIDE DEF m, id
<1>6. id \notin call_crossing_vars
  BY DEF m, id
<1>7. Free(id) # {}
  BY <1>1, <1>2, <1>3, <1>4, <1>5, <1>6, FreeColour
<1> QED
  BY <1>7 DEF m, id

\* Nor does Select spill a survivor that crosses no call.
LEMMA SurvivorHasColour ==
  ASSUME FullInv, NEW n \in Node, coalesced[n] # NoNode,
         rep[n] \notin call_crossing_vars
  PROVE  Free(rep[n]) # {}
<1>1. rep[n] \in Node /\ Cardinality(adjacency[rep[n]]) < k /\ IInv
  BY DEF FullInv, IInv, TypeOK, MergeInv
<1> QED
  BY <1>1, FreeColour

LEMMA SelectFull ==
  ASSUME FullInv, Select
  PROVE  WorkInv' /\ StackInv' /\ MergeInv' /\ PlacedInv'
<1> DEFINE m == Len(stack)
           id == stack[m]
<1>1. /\ stack \in Seq(Node) /\ stack # << >>
      /\ m \in Nat /\ m \in 1 .. m
      /\ id \in Node /\ id \in nodes \ precolored
  BY DEF Select, FullInv, IInv, TypeOK, ColorInv
<1>2. /\ phase = "select"
      /\ UNCHANGED <<phase, graph, coalesced, rep, active_nodes>>
      /\ \/ id \in spilled /\ UNCHANGED <<phys_reg, spilled>>
         \/ phys_reg' = [phys_reg EXCEPT ![id] = Choice(id)] /\ UNCHANGED spilled
            /\ Free(id) # {}
         \/ Free(id) = {} /\ spilled' = spilled \cup {id} /\ UNCHANGED phys_reg
      /\ stack' = SubSeq(stack, 1, m - 1)
  BY DEF Select
<1>3. /\ Len(stack') = m - 1
      /\ \A i \in 1 .. m - 1 : stack'[i] = stack[i]
  BY <1>1, <1>2, FrontProperties
<1>4. Free(id) # {} => Choice(id) # NoReg
  BY <1>1, FirstFreeColour, RegAssumption
<1>5. phys_reg \in [Node -> Reg \cup {NoReg}]
  BY DEF FullInv, IInv, TypeOK
<1>6. \A i \in 1 .. m - 1 : i \in 1 .. m /\ i # m
  BY <1>1
<1>7. /\ \A i, j \in 1 .. m : stack[i] = stack[j] => i = j
      /\ \A i \in 1 .. m : stack[i] \notin active_nodes
      /\ \A i \in 1 .. m : stack[i] \notin spilled => Cardinality(Above(i)) < k
      /\ \A i \in 1 .. m : phys_reg[stack[i]] = NoReg
      /\ \A i \in 1 .. m : stack[i] \in Node
  BY <1>1, <1>2 DEF FullInv, StackInv
<1> HIDE DEF m
<1>8. StackInv'
  <2>1. \A i \in 1 .. m - 1 : stack[i] # id
    BY <1>1, <1>6, <1>7
  <2>2. \A i \in 1 .. m - 1 : phys_reg'[stack[i]] = phys_reg[stack[i]]
    BY <1>2, <1>5, <1>6, <1>7, <2>1
  <2>3. ASSUME NEW i \in 1 .. m - 1 PROVE Above(i)' = Above(i)
    <3>1. \A j \in 1 .. i : j \in 1 .. m - 1
      BY <1>1
    <3> QED
      BY <1>2, <1>3, <3>1 DEF Above
  <2>4. ASSUME NEW i \in 1 .. m - 1, stack'[i] \notin spilled'
        PROVE  Cardinality(Above(i)') < k
    <3>1. stack[i] \notin spilled
      BY <1>2, <1>3, <2>4
    <3> QED
      BY <1>6, <1>7, <2>3, <3>1
  <2>5. \A i, j \in 1 .. m - 1 : stack'[i] = stack'[j] => i = j
    BY <1>3, <1>6, <1>7
  <2>6. \A i \in 1 .. m - 1 : /\ stack'[i] \notin active_nodes'
                            /\ phys_reg'[stack'[i]] = NoReg
    BY <1>2, <1>3, <1>6, <1>7, <2>2
  <2> QED
    BY <1>3, <2>4, <2>5, <2>6 DEF StackInv
<1>9. MergeInv'
  <2> SUFFICES ASSUME NEW n \in Node, coalesced[n] # NoNode, rep[n] \in spilled',
                      rep[n] \notin spilled, rep[n] \notin call_crossing_vars
               PROVE  FALSE
    BY <1>2 DEF FullInv, MergeInv
  <2>1. rep[n] = id /\ Free(id) = {}
    BY <1>2
  <2> QED
    BY <2>1, SurvivorHasColour
<1>10. PlacedInv'
  <2>1. \A n \in nodes : OnStack(n) \/ phys_reg[n] # NoReg \/ n \in spilled
    BY <1>2 DEF FullInv, PlacedInv
  <2>2. \A n \in Node : OnStack(n) /\ n # id => OnStack(n)'
    <3>1. \A i \in 1 .. m : i = m \/ i \in 1 .. m - 1
      BY <1>1
    <3> QED
      BY <1>3, <3>1 DEF OnStack, m
  <2>3. id \in spilled' \/ phys_reg'[id] # NoReg
    BY <1>1, <1>2, <1>4, <1>5
  <2>4. \A n \in Node : n # id => phys_reg'[n] = phys_reg[n]
    BY <1>1, <1>2, <1>5
  <2>5. nodes \subseteq Node /\ spilled \subseteq spilled'
    BY <1>2 DEF FullInv, IInv, TypeOK
  <2>6. \A n \in nodes : OnStack(n)' \/ phys_reg'[n] # NoReg \/ n \in spilled'
    BY <2>1, <2>2, <2>3, <2>4, <2>5
  <2>7. active_nodes = {}
    BY <1>2 DEF FullInv, PlacedInv
  <2> QED
    BY <1>2, <2>6, <2>7 DEF PlacedInv
<1>11. WorkInv'
  BY <1>2 DEF WorkInv
<1> QED
  BY <1>8, <1>9, <1>10, <1>11

\* The propagation gives registers away and takes none back.
LEMMA PropagateFull ==
  ASSUME FullInv, EndSelect \/ Finish \/ \E n \in Node : Propagate(n)
  PROVE  WorkInv' /\ StackInv' /\ MergeInv' /\ PlacedInv'
<1>1. /\ phase \in {"select", "propagate"} /\ phase' \in {"propagate", "done"}
      /\ stack = << >>
      /\ UNCHANGED <<graph, coalesced, color, rep>>
  BY DEF EndSelect, Finish, Propagate, FullInv, PlacedInv
<1>2. \A n \in Node : phys_reg[n] # NoReg => phys_reg'[n] # NoReg
  BY DEF EndSelect, Finish, Propagate, FullInv, IInv, TypeOK
<1>3. WorkInv' /\ StackInv' /\ MergeInv'
  BY <1>1 DEF FullInv, WorkInv, StackInv, MergeInv
<1>4. PlacedInv'
  BY <1>1, <1>2 DEF FullInv, IInv, TypeOK, PlacedInv, OnStack
<1> QED
  BY <1>3, <1>4

\* Every step preserves the invariant.
LEMMA NextFull == FullInv /\ [Next]_vars => FullInv'
<1> SUFFICES ASSUME FullInv, [Next]_vars PROVE FullInv'
  OBVIOUS
<1>1. IInv'
  BY NextIInv DEF FullInv
<1>2. CASE Build \/ StartCoalesce
  BY <1>1, <1>2, BuildFull DEF FullInv
<1>3. CASE CoalesceMerge \/ CoalesceSkip
  BY <1>1, <1>3, MergeFull DEF FullInv
<1>4. CASE StartColor
  BY <1>1, <1>4, StartFull DEF FullInv
<1>5. ASSUME NEW n \in Node, Simplify(n) \/ Spill(n) PROVE FullInv'
  BY <1>1, <1>5, SimplifyFull DEF FullInv
<1>6. CASE EndSimplify
  BY <1>1, <1>6, EndSimplifyFull DEF FullInv
<1>7. CASE Select
  BY <1>1, <1>7, SelectFull DEF FullInv
<1>8. CASE EndSelect \/ Finish \/ \E n \in Node : Propagate(n)
  BY <1>1, <1>8, PropagateFull DEF FullInv
<1>9. CASE UNCHANGED vars
  <2>1. WorkInv' /\ MergeInv'
    BY <1>9 DEF vars, FullInv, WorkInv, MergeInv
  <2>2. StackInv'
    BY <1>9 DEF vars, FullInv, StackInv, Above
  <2>3. PlacedInv'
    BY <1>9 DEF vars, FullInv, PlacedInv, OnStack
  <2> QED
    BY <1>1, <2>1, <2>2, <2>3 DEF FullInv
<1> QED
  BY <1>2, <1>3, <1>4, <1>5, <1>6, <1>7, <1>8, <1>9 DEF Next, Run, Terminated

-----------------------------------------------------------------------------
(* The theorems.                                                           *)

\* What Color knows of degrees stays true from the merges to the last pop.
THEOREM FullInductive == Spec => []FullInv
<1> QED
  BY InitFull, NextFull, PTL DEF Spec

\* The queue of the simplify loop holds exactly the active nodes of degree
\* below k: none is popped twice, and none is left for the spill order.
THEOREM Worklist == Spec => []WorklistExact
<1>1. FullInv => WorklistExact
  BY DEF FullInv, WorkInv, WorklistExact
<1> QED
  BY FullInductive, <1>1, PTL

\* Coalesce's degree test is conservative: a survivor that crosses no call is
\* in a register when Color returns.
THEOREM Coalesced == Spec => []CoalescedNeverSpills
<1>1. FullInv => CoalescedNeverSpills
  <2> SUFFICES ASSUME FullInv, phase = "done", NEW n \in Node,
                      coalesced[n] # NoNode, rep[n] \notin call_crossing_vars
               PROVE  phys_reg[rep[n]] # NoReg
    BY DEF CoalescedNeverSpills
  <2>1. rep[n] \in nodes /\ rep[n] \notin spilled
    BY DEF FullInv, IInv, RepInv, MergeInv
  <2>2. \A i \in 1 .. Len(stack) : FALSE
    BY DEF FullInv, PlacedInv
  <2> QED
    BY <2>1, <2>2 DEF FullInv, PlacedInv, OnStack
<1> QED
  BY FullInductive, <1>1, PTL

\* Select runs out of colours only for a node that a parameter's register or a
\* call denies one; every other variable in memory was a spill candidate.
THEOREM Candidates == Spec => OnlySpillCandidatesSpill
<1> DEFINE A == phase = "select" /\ spilled' # spilled =>
                  LET id == stack[Len(stack)]
                  IN  \/ adjacency[id] \cap precolored # {}
                      \/ id \in call_crossing_vars
<1>1. FullInv /\ [Next]_vars => [A]_vars
  <2> SUFFICES ASSUME FullInv, [Next]_vars, phase = "select", spilled' # spilled
               PROVE  A
    OBVIOUS
  <2>1. Select
    <3>1. ~Build /\ ~(UNCHANGED vars)
      BY DEF vars, Build, SetPrecolored, Define, Use, RemoveEdge, AddMovePair,
             CrossCall
    <3>2. ~(StartCoalesce \/ CoalesceMerge \/ CoalesceSkip \/ StartColor
            \/ EndSimplify \/ Finish)
      BY DEF StartCoalesce, CoalesceMerge, CoalesceSkip, StartColor, EndSimplify,
             Finish
    <3>3. ~EndSelect /\ \A n \in Node : ~(Simplify(n) \/ Spill(n) \/ Propagate(n))
      BY DEF EndSelect, Simplify, Spill, Propagate
    <3> QED
      BY <3>1, <3>2, <3>3 DEF Next, Run, Terminated
  <2>2. stack # << >> /\ stack[Len(stack)] \notin spilled
        /\ Free(stack[Len(stack)]) = {}
    BY <2>1 DEF Select
  <2> QED
    BY <2>2, TopHasColour
<1> QED
  BY FullInductive, <1>1, PTL DEF Spec, OnlySpillCandidatesSpill
=============================================================================
