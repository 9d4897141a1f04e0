--------------------------- MODULE LivenessProofs ---------------------------
(* CalcInOut computes the least solution of the liveness equations, for every *)
(* control-flow graph.                                                        *)
EXTENDS Liveness, FiniteSetTheorems, SequenceTheorems, WellFoundedInduction, TLAPS

\* Leaving a block: the call stack loses its last element.
LEMMA PopProperties ==
  ASSUME NEW S, NEW q \in Seq(S), q # << >>
  PROVE  /\ Len(q) \in Nat \ {0}
         /\ q[Len(q)] \in S
         /\ SubSeq(q, 1, Len(q) - 1) \in Seq(S)
         /\ Len(SubSeq(q, 1, Len(q) - 1)) = Len(q) - 1
         /\ \A i \in 1 .. Len(q) - 1 : SubSeq(q, 1, Len(q) - 1)[i] = q[i]
<1>1. Len(q) \in Nat /\ Len(q) # 0 /\ \A i \in 1 .. Len(q) : q[i] \in S
  BY LenProperties, EmptySeq
<1>2. q[Len(q)] \in S
  BY <1>1
<1> DEFINE n == Len(q) - 1
<1>3. n \in Nat /\ n - 1 + 1 = n /\ \A i \in 1 .. n : 1 + i - 1 = i /\ q[i] \in S
  BY <1>1
<1>4. /\ SubSeq(q, 1, n) \in Seq(S)
      /\ Len(SubSeq(q, 1, n)) = IF 1 <= n THEN n - 1 + 1 ELSE 0
      /\ \A i \in 1 .. n - 1 + 1 : SubSeq(q, 1, n)[i] = q[1 + i - 1]
  <2> HIDE DEF n
  <2> QED
    BY <1>1, <1>3, SubSeqProperties DEF n
<1> HIDE DEF n
<1>5. /\ SubSeq(q, 1, n) \in Seq(S)
      /\ Len(SubSeq(q, 1, n)) = n
      /\ \A i \in 1 .. n : SubSeq(q, 1, n)[i] = q[i]
  BY <1>3, <1>4
<1> QED
  BY <1>1, <1>2, <1>5 DEF n

\* The initial state satisfies the inductive invariant.
LEMMA InitIInv == Init => IInv
<1> SUFFICES ASSUME Init PROVE IInv
  OBVIOUS
<1> USE DEF Init
<1>1. TypeOK
  BY EntryAssumption DEF TypeOK
<1>2. SearchInv
  BY DEF SearchInv
<1>3. PassInv
  BY DEF PassInv
<1>4. LeastSolution
  BY DEF LeastSolution
<1> QED
  BY <1>1, <1>2, <1>3, <1>4 DEF IInv

\* What the caller does before the search establishes it: whatever in_ and out_
\* were, they are empty when the search begins.
LEMMA CallerIInv == IInv /\ (ClearInOut \/ BuildCFG) => IInv'
<1> SUFFICES ASSUME IInv, ClearInOut \/ BuildCFG PROVE IInv'
  OBVIOUS
<1>1. /\ UNCHANGED <<visited, path, postorder, next, worklist, in_worklist>>
      /\ phase \in {"start", "build"} /\ phase' \in {"build", "search"}
      /\ phase' = "search" => phase = "build"
  BY DEF ClearInOut, BuildCFG, search
<1>2. /\ in' \in [Block -> SUBSET Var] /\ out' \in [Block -> SUBSET Var]
      /\ \A u \in Block : in'[u] = {} /\ out'[u] = {}
  BY DEF ClearInOut, BuildCFG, IInv, TypeOK, SearchInv
<1>3. TypeOK'
  <2>1. /\ succs' \in [Block -> SUBSET Block]
        /\ def' \in [Block -> SUBSET Var] /\ use' \in [Block -> SUBSET Var]
    <3>1. CASE ClearInOut
      BY <3>1 DEF ClearInOut, cfg, IInv, TypeOK
    <3>2. CASE BuildCFG
      BY <3>2 DEF BuildCFG
    <3> QED
      BY <3>1, <3>2
  <2> QED
    BY <1>1, <1>2, <2>1 DEF IInv, TypeOK
<1>4. SearchInv'
  <2>1. postorder = << >> /\ next = 1 /\ worklist = {}
    BY <1>1 DEF IInv, SearchInv
  <2>2. ~ \E i \in 1 .. Len(postorder) : TRUE
    BY <2>1
  <2> QED
    BY <1>1, <1>2, <2>1, <2>2 DEF IInv, SearchInv
<1>5. PassInv'
  <2>1. ~ \E i \in 1 .. Len(postorder) : TRUE
    BY <1>1 DEF IInv, SearchInv
  <2>2. /\ in_worklist' = worklist'
        /\ \A i \in 1 .. Len(postorder') :
             i < next' => postorder'[i] \in worklist' \/ Solved(postorder[i])'
    BY <1>1, <2>1 DEF IInv, PassInv
  <2> QED
    BY <1>1, <1>2, <2>2 DEF PassInv
<1>6. LeastSolution'
  BY <1>2 DEF LeastSolution
<1> QED
  BY <1>3, <1>4, <1>5, <1>6 DEF IInv

\* A step that leaves the graph and the sets alone leaves PassInv alone, as far
\* as the list of blocks behind the first pass stays the same.
LEMMA PassKept ==
  ASSUME PassInv, UNCHANGED <<cfg, in, out, worklist, in_worklist>>,
         \A i \in 1 .. Len(postorder') :
           i < next' => /\ i \in 1 .. Len(postorder) /\ i < next
                        /\ postorder'[i] = postorder[i],
         phase = "start" => phase' = "start",
         phase' = "done" => next' > Len(postorder') /\ worklist' = {}
  PROVE  PassInv'
<1>1. /\ succs' = succs /\ def' = def /\ use' = use /\ in' = in /\ out' = out
      /\ worklist' = worklist /\ in_worklist' = in_worklist
  BY DEF cfg
<1>2. in_worklist' = worklist'
  BY <1>1 DEF PassInv
<1>3. phase' # "start" =>
        \A u \in Block : in'[u] \subseteq NewIn(u)' /\ out'[u] \subseteq NewOut(u)'
  BY <1>1 DEF PassInv, NewIn, NewOut
<1>4. ASSUME NEW i \in 1 .. Len(postorder'), i < next'
      PROVE  postorder'[i] \in worklist' \/ Solved(postorder[i])'
  <2> DEFINE u == postorder'[i]
  <2>1. i \in 1 .. Len(postorder) /\ i < next /\ postorder[i] = u
    BY <1>4
  <2>2. u \in worklist \/ Solved(u)
    BY <2>1 DEF PassInv
  <2>3. CASE u \in worklist
    BY <2>3, <1>1
  <2>4. CASE Solved(u)
    <3> HIDE DEF u
    <3>1. /\ out[u] = UNION {in[v] : v \in succs[u]}
          /\ in[u] = ((UNION {in[v] : v \in succs[u]}) \ def[u]) \cup use[u]
      BY <2>4 DEF Solved, NewIn, NewOut
    <3>2. /\ out'[u] = UNION {in'[v] : v \in succs'[u]}
          /\ in'[u] = ((UNION {in'[v] : v \in succs'[u]}) \ def'[u]) \cup use'[u]
      BY <3>1, <1>1
    <3>3. Solved(postorder[i])'
      BY <3>2 DEF Solved, NewIn, NewOut, u
    <3> QED
      BY <3>3
  <2> QED
    BY <2>2, <2>3, <2>4
<1> QED
  BY <1>2, <1>3, <1>4 DEF PassInv

\* The depth-first search preserves the invariant.
LEMMA SearchIInv ==
  IInv /\ ((\E v \in Block : Enter(v)) \/ Leave \/ EndSearch) => IInv'
<1> SUFFICES ASSUME IInv, (\E v \in Block : Enter(v)) \/ Leave \/ EndSearch
             PROVE  IInv'
  OBVIOUS
<1>1. ASSUME NEW v \in Block, Enter(v) PROVE IInv'
  <2>1. /\ path \in Seq(Block)
        /\ path' = Append(path, v)
        /\ visited' = visited \cup {v}
        /\ UNCHANGED <<cfg, phase, postorder, next, worklist, in_worklist, in, out>>
    BY <1>1 DEF Enter, IInv, TypeOK
  <2>2. /\ path' \in Seq(Block)
        /\ Len(path) \in Nat
        /\ Len(path') = Len(path) + 1
        /\ \A i \in 1 .. Len(path) : path'[i] = path[i]
        /\ path'[Len(path) + 1] = v
    BY <2>1, AppendProperties, LenProperties
  <2>3. TypeOK'
    BY <2>1, <2>2 DEF IInv, TypeOK, cfg
  <2>4. SearchInv'
    <3>1. \A i \in 1 .. Len(path') : path'[i] \in visited'
      BY <2>1, <2>2 DEF IInv, SearchInv
    <3>2. \A u \in visited' :
            \/ \E i \in 1 .. Len(path') : path'[i] = u
            \/ \E i \in 1 .. Len(postorder') : postorder'[i] = u
      <4> SUFFICES ASSUME NEW u \in visited',
                          ~ \E i \in 1 .. Len(postorder') : postorder'[i] = u
                   PROVE  \E i \in 1 .. Len(path') : path'[i] = u
        OBVIOUS
      <4>1. CASE u = v
        BY <4>1, <2>2
      <4>2. CASE u # v
        <5>1. PICK i \in 1 .. Len(path) : path[i] = u
          BY <4>2, <2>1 DEF IInv, SearchInv
        <5> QED
          BY <5>1, <2>2
      <4> QED
        BY <4>1, <4>2
    <3>3. /\ \A i \in 1 .. Len(postorder') : postorder'[i] \in visited'
          /\ \A i \in 1 .. Len(postorder') :
               succs'[postorder'[i]] \subseteq visited'
      BY <2>1 DEF IInv, SearchInv, cfg
    <3>4. phase' = "search" /\ next' = 1 /\ worklist' = {}
      BY <1>1, <2>1 DEF Enter, IInv, SearchInv
    <3>5. \A u \in Block : in'[u] = {} /\ out'[u] = {}
      BY <1>1, <2>1 DEF Enter, IInv, SearchInv
    <3> QED
      BY <3>1, <3>2, <3>3, <3>4, <3>5 DEF SearchInv
  <2>5. PassInv'
    <3>1. phase # "start" /\ phase' # "done"
      BY <1>1 DEF Enter
    <3> QED
      BY <3>1, <2>1, PassKept DEF IInv
  <2>6. LeastSolution'
    BY <1>1, <2>1 DEF Enter, IInv, LeastSolution, Solution, cfg
  <2> QED
    BY <2>3, <2>4, <2>5, <2>6 DEF IInv
<1>2. CASE Leave
  <2> DEFINE u == path[Len(path)]
  <2>1. /\ path \in Seq(Block) /\ path # << >>
        /\ postorder \in Seq(Block)
        /\ path' = SubSeq(path, 1, Len(path) - 1)
        /\ postorder' = Append(postorder, u)
        /\ succs[u] \subseteq visited
        /\ visited' = visited
        /\ UNCHANGED <<cfg, phase, next, worklist, in_worklist, in, out>>
    BY <1>2 DEF Leave, IInv, TypeOK, Current
  <2>2. /\ Len(path) \in Nat \ {0}
        /\ u \in Block
        /\ path' \in Seq(Block)
        /\ Len(path') = Len(path) - 1
        /\ \A i \in 1 .. Len(path) - 1 : path'[i] = path[i]
    BY <2>1, PopProperties
  <2> HIDE DEF u
  <2>3. /\ postorder' \in Seq(Block)
        /\ Len(postorder) \in Nat
        /\ Len(postorder') = Len(postorder) + 1
        /\ \A i \in 1 .. Len(postorder) : postorder'[i] = postorder[i]
        /\ postorder'[Len(postorder) + 1] = u
    BY <2>1, <2>2, AppendProperties, LenProperties
  <2>4. u \in visited
    BY <2>2 DEF IInv, SearchInv, u
  <2>5. TypeOK'
    BY <2>1, <2>2, <2>3 DEF IInv, TypeOK, cfg
  <2>6. SearchInv'
    <3>1. \A i \in 1 .. Len(path') : path'[i] \in visited'
      BY <2>1, <2>2 DEF IInv, SearchInv
    <3>2. \A w \in visited' :
            \/ \E i \in 1 .. Len(path') : path'[i] = w
            \/ \E i \in 1 .. Len(postorder') : postorder'[i] = w
      <4> SUFFICES ASSUME NEW w \in visited,
                          ~ \E i \in 1 .. Len(postorder') : postorder'[i] = w
                   PROVE  \E i \in 1 .. Len(path') : path'[i] = w
        BY <2>1
      <4>1. w # u /\ ~ \E i \in 1 .. Len(postorder) : postorder[i] = w
        BY <2>3
      <4>2. PICK i \in 1 .. Len(path) : path[i] = w
        BY <4>1 DEF IInv, SearchInv
      <4>3. i # Len(path)
        BY <4>1, <4>2 DEF u
      <4> QED
        BY <4>2, <4>3, <2>2
    <3>3. /\ \A i \in 1 .. Len(postorder') : postorder'[i] \in visited'
          /\ \A i \in 1 .. Len(postorder') :
               succs'[postorder'[i]] \subseteq visited'
      <4> SUFFICES ASSUME NEW i \in 1 .. Len(postorder')
                   PROVE  /\ postorder'[i] \in visited
                          /\ succs[postorder'[i]] \subseteq visited
        BY <2>1 DEF cfg
      <4>1. CASE i = Len(postorder) + 1
        BY <4>1, <2>1, <2>3, <2>4
      <4>2. CASE i # Len(postorder) + 1
        <5>1. i \in 1 .. Len(postorder)
          BY <4>2, <2>3
        <5> QED
          BY <5>1, <2>3 DEF IInv, SearchInv
      <4> QED
        BY <4>1, <4>2
    <3>4. phase' = "search" /\ next' = 1 /\ worklist' = {}
      BY <1>2, <2>1 DEF Leave, IInv, SearchInv
    <3>5. \A w \in Block : in'[w] = {} /\ out'[w] = {}
      BY <1>2, <2>1 DEF Leave, IInv, SearchInv
    <3> QED
      BY <3>1, <3>2, <3>3, <3>4, <3>5 DEF SearchInv
  <2>7. PassInv'
    <3>1. next = 1 /\ phase = "search"
      BY <1>2 DEF Leave, IInv, SearchInv
    <3>2. \A i \in 1 .. Len(postorder') : ~(i < next')
      BY <3>1, <2>1
    <3> QED
      BY <3>1, <3>2, <2>1, PassKept DEF IInv
  <2>8. LeastSolution'
    BY <1>2, <2>1 DEF Leave, IInv, LeastSolution, Solution, cfg
  <2> QED
    BY <2>5, <2>6, <2>7, <2>8 DEF IInv
<1>3. CASE EndSearch
  <2> USE <1>3 DEF EndSearch, cfg, search
  <2>1. TypeOK'
    BY DEF IInv, TypeOK
  <2>2. SearchInv'
    BY DEF IInv, SearchInv
  <2>3. PassInv'
    BY PassKept DEF IInv
  <2>4. LeastSolution'
    BY DEF IInv, LeastSolution, Solution
  <2> QED
    BY <2>1, <2>2, <2>3, <2>4 DEF IInv
<1> QED
  BY <1>1, <1>2, <1>3

\* One call of process preserves the invariant, whether the block comes from the
\* list or from the worklist: a block whose equation it upsets is a predecessor
\* of the block it changed, and those are queued.
LEMMA ProcessIInv ==
  ASSUME IInv, NEW u \in Block, NEW queue, NEW flags,
         Process(u, queue, flags),
         phase = "process", UNCHANGED <<cfg, phase, search>>,
         queue = flags, queue \subseteq worklist, worklist \ {u} \subseteq queue,
         next' \in Nat \ {0},
         \A i \in 1 .. Len(postorder) : i < next' => i < next \/ postorder[i] = u
  PROVE  IInv'
<1>1. /\ succs' = succs /\ def' = def /\ use' = use
      /\ visited' = visited /\ path' = path /\ postorder' = postorder
      /\ phase' = phase
  BY DEF cfg, search
<1>2. /\ in \in [Block -> SUBSET Var] /\ out \in [Block -> SUBSET Var]
      /\ succs \in [Block -> SUBSET Block]
      /\ def \in [Block -> SUBSET Var] /\ use \in [Block -> SUBSET Var]
      /\ worklist \in SUBSET Block
  BY DEF IInv, TypeOK
<1>3. in' = [in EXCEPT ![u] = NewIn(u)] /\ out' = [out EXCEPT ![u] = NewOut(u)]
  BY DEF Process
<1>4. /\ worklist' = in_worklist'
      /\ queue \subseteq worklist'
      /\ Changed(u) => preds(u) \subseteq worklist'
      /\ worklist' \subseteq Block
  BY <1>2 DEF Process, preds
<1>5. NewOut(u) \in SUBSET Var /\ NewIn(u) \in SUBSET Var
  BY <1>2 DEF NewOut, NewIn
<1>6. /\ \A w \in Block : in[w] \subseteq NewIn(w) /\ out[w] \subseteq NewOut(w)
      /\ phase = "process" /\ phase' = "process"
  BY <1>1 DEF IInv, PassInv
<1>7. /\ \A w \in Block : w # u => in'[w] = in[w] /\ out'[w] = out[w]
      /\ in'[u] = NewIn(u) /\ out'[u] = NewOut(u)
  BY <1>2, <1>3
<1>8. \A w \in Block : in[w] \subseteq in'[w]
  BY <1>6, <1>7
<1>9. \A w \in Block : NewOut(w) \subseteq NewOut(w)' /\ NewIn(w) \subseteq NewIn(w)'
  <2>1. \A w \in Block : NewOut(w) \subseteq NewOut(w)'
    BY <1>1, <1>2, <1>8 DEF NewOut
  <2> QED
    BY <2>1, <1>1 DEF NewIn
<1>10. TypeOK'
  BY <1>1, <1>2, <1>3, <1>4, <1>5 DEF IInv, TypeOK
<1>11. SearchInv'
  BY <1>1, <1>6 DEF IInv, SearchInv
<1>12. PassInv'
  <2>1. ASSUME NEW i \in 1 .. Len(postorder'), i < next',
               postorder'[i] \notin worklist'
        PROVE  Solved(postorder[i])'
    <3> DEFINE w == postorder[i]
    <3>1. w \in Block /\ w \notin worklist' /\ (i < next \/ w = u)
      BY <1>1, <2>1 DEF IInv, TypeOK
    <3>2. ~(Changed(u) /\ u \in succs[w])
      BY <3>1, <1>4 DEF preds
    <3>3. NewOut(w)' = NewOut(w) /\ NewIn(w)' = NewIn(w)
      <4>1. \A v \in succs[w] : in'[v] = in[v]
        BY <3>1, <3>2, <1>2, <1>7 DEF Changed
      <4>2. {in'[v] : v \in succs'[w]} = {in[v] : v \in succs[w]}
        BY <4>1, <1>1
      <4>3. w' = w
        BY <1>1
      <4> HIDE DEF w
      <4> QED
        BY <4>2, <4>3, <1>1 DEF NewOut, NewIn
    <3>4. w = u \/ Solved(w)
      BY <3>1, <1>4, <2>1, <1>1 DEF IInv, PassInv
    <3>5. out'[w] = NewOut(w) /\ in'[w] = NewIn(w)
      BY <3>1, <3>4, <1>7 DEF Solved
    <3> QED
      BY <3>3, <3>5, <1>1 DEF Solved
  <2>2. \A w \in Block : in'[w] \subseteq NewIn(w)' /\ out'[w] \subseteq NewOut(w)'
    BY <1>6, <1>7, <1>9
  <2>3. in_worklist' = worklist' /\ phase' # "done"
    BY <1>1, <1>4
  <2>4. \A i \in 1 .. Len(postorder') :
          i < next' => postorder'[i] \in worklist' \/ Solved(postorder[i])'
    BY <2>1
  <2> QED
    BY <2>2, <2>3, <2>4 DEF PassInv
<1>13. LeastSolution'
  <2> SUFFICES ASSUME NEW I \in [Block -> SUBSET Var], Solution(I)', NEW w \in Block
               PROVE  in'[w] \subseteq I[w]
    BY DEF LeastSolution
  <2>1. Solution(I)
    BY <1>1 DEF Solution
  <2>2. \A v \in Block : in[v] \subseteq I[v]
    BY <1>6, <2>1 DEF IInv, LeastSolution
  <2> DEFINE O == UNION {I[v] : v \in succs[u]}
  <2>3. NewOut(u) \subseteq O
    BY <2>2, <1>2 DEF NewOut
  <2>4. (O \ def[u]) \cup use[u] = I[u]
    BY <2>1 DEF Solution
  <2> HIDE DEF O
  <2>5. NewIn(u) \subseteq I[u]
    BY <2>3, <2>4 DEF NewIn
  <2> QED
    BY <2>2, <2>5, <1>7
<1> QED
  BY <1>10, <1>11, <1>12, <1>13 DEF IInv

\* The invariant is inductive.
LEMMA NextIInv == IInv /\ [Next]_vars => IInv'
<1> SUFFICES ASSUME IInv, [Next]_vars PROVE IInv'
  OBVIOUS
<1>1. CASE FirstPass
  <2>1. /\ postorder \in Seq(Block) /\ Len(postorder) \in Nat /\ next \in Nat \ {0}
        /\ in_worklist = worklist /\ next <= Len(postorder)
        /\ next' = next + 1
    BY <1>1, LenProperties DEF FirstPass, IInv, TypeOK, PassInv
  <2>2. postorder[next] \in Block
    BY <2>1
  <2>3. \A i \in 1 .. Len(postorder) :
          i < next' => i < next \/ postorder[i] = postorder[next]
    BY <2>1
  <2>4. /\ Process(postorder[next], worklist, in_worklist)
        /\ phase = "process" /\ UNCHANGED <<cfg, phase, search>>
    BY <1>1 DEF FirstPass
  <2> QED
    BY <2>1, <2>2, <2>3, <2>4, ProcessIInv
<1>2. ASSUME NEW u \in Block, SecondPass(u) PROVE IInv'
  <2>1. /\ Process(u, worklist \ {u}, in_worklist \ {u})
        /\ phase = "process" /\ UNCHANGED <<cfg, phase, search>> /\ next' = next
        /\ next \in Nat \ {0}
    BY <1>2 DEF SecondPass, IInv, TypeOK
  <2>2. worklist \ {u} = in_worklist \ {u}
    BY DEF IInv, PassInv
  <2>3. IInv
    OBVIOUS
  <2> QED
    BY <2>1, <2>2, <2>3, ProcessIInv
<1>3. CASE Finish
  <2> USE <1>3 DEF Finish, cfg, search
  <2>1. TypeOK'
    BY DEF IInv, TypeOK
  <2>2. SearchInv'
    BY DEF IInv, SearchInv
  <2>3. PassInv'
    BY DEF IInv, PassInv, Solved, NewIn, NewOut
  <2>4. LeastSolution'
    BY DEF IInv, LeastSolution, Solution
  <2> QED
    BY <2>1, <2>2, <2>3, <2>4 DEF IInv
<1>4. CASE UNCHANGED vars
  <2> USE <1>4 DEF vars, cfg, search
  <2>1. TypeOK'
    BY DEF IInv, TypeOK
  <2>2. SearchInv'
    BY DEF IInv, SearchInv
  <2>3. PassInv'
    <3>1. /\ PassInv /\ UNCHANGED <<cfg, in, out, worklist, in_worklist>>
          /\ postorder' = postorder /\ next' = next /\ phase' = phase
          /\ phase = "done" => next > Len(postorder) /\ worklist = {}
      BY DEF IInv, PassInv
    <3> QED
      BY <3>1, PassKept
  <2>4. LeastSolution'
    BY DEF IInv, LeastSolution, Solution
  <2> QED
    BY <2>1, <2>2, <2>3, <2>4 DEF IInv
<1>5. CASE Next
  BY <1>1, <1>2, <1>3, <1>4, <1>5, CallerIInv, SearchIInv
     DEF Next, Analyse, CalcInOut, Terminated
<1> QED
  BY <1>4, <1>5

\* The search, the two passes and the worklist keep the sets below every
\* solution and every unqueued block solved (CalcInOut).
THEOREM Inductive == Spec => []IInv
  BY InitIInv, NextIInv, PTL DEF Spec

\* When CalcInOut returns, in_ and out_ of every reachable block satisfy the
\* liveness equations, on every control-flow graph.
THEOREM Fixed == Spec => []FixedPoint
<1>1. IInv => FixedPoint
  <2> SUFFICES ASSUME IInv, phase = "done", NEW u \in visited PROVE Solved(u)
    BY DEF FixedPoint
  <2>1. path = << >> /\ next > Len(postorder) /\ worklist = {}
    BY DEF IInv, SearchInv, PassInv
  <2>2. PICK i \in 1 .. Len(postorder) : postorder[i] = u
    BY <2>1 DEF IInv, SearchInv
  <2>3. Len(postorder) \in Nat /\ next \in Nat
    BY LenProperties DEF IInv, TypeOK
  <2>4. i < next
    BY <2>1, <2>3
  <2> QED
    BY <2>1, <2>2, <2>4 DEF IInv, PassInv
<1> QED
  BY <1>1, Inductive, PTL

\* Once the blocks are cleared, no variable is ever in in_ that is not live in every
\* solution of the equations: what CalcInOut reaches is the least one.
THEOREM Least == Spec => []LeastSolution
<1>1. IInv => LeastSolution
  BY DEF IInv
<1> QED
  BY <1>1, Inductive, PTL

\* in_ and out_ only grow (process).
THEOREM Monotone == Spec => OnlyGrows
<1>1. IInv /\ [Next]_vars =>
        [phase # "start" =>
           \A u \in Block : in[u] \subseteq in'[u] /\ out[u] \subseteq out'[u]]_vars
  <2> SUFFICES ASSUME IInv, Next, phase # "start"
               PROVE  \A u \in Block : in[u] \subseteq in'[u] /\ out[u] \subseteq out'[u]
    OBVIOUS
  <2>1. \A u \in Block : in[u] \subseteq NewIn(u) /\ out[u] \subseteq NewOut(u)
    BY DEF IInv, PassInv
  <2>2. ASSUME NEW u, NEW queue, NEW flags, Process(u, queue, flags)
        PROVE  \A w \in Block : in[w] \subseteq in'[w] /\ out[w] \subseteq out'[w]
    BY <2>1, <2>2 DEF Process, IInv, TypeOK
  <2>3. CASE FirstPass
    BY <2>2, <2>3 DEF FirstPass
  <2>4. ASSUME NEW u \in Block, SecondPass(u)
        PROVE  \A w \in Block : in[w] \subseteq in'[w] /\ out[w] \subseteq out'[w]
    BY <2>2, <2>4 DEF SecondPass
  <2>5. CASE UNCHANGED <<in, out>>
    BY <2>5
  <2> QED
    BY <2>3, <2>4, <2>5
       DEF Next, Analyse, CalcInOut, ClearInOut, BuildCFG, Enter, Leave, EndSearch,
           Finish, Terminated, vars
<1> QED
  BY <1>1, Inductive, PTL DEF Spec, OnlyGrows

-----------------------------------------------------------------------------
(* What in_ means.                                                         *)

\* A nonempty set of naturals has a least element.
LEMMA LeastNatural ==
  ASSUME NEW S \in SUBSET Nat, S # {}
  PROVE  \E i \in S : \A j \in S : i <= j
<1>1. PICK i \in S : \A j \in S : ~(<<j, i>> \in OpToRel(<, Nat))
  BY WFMin, NatLessThanWellFounded
<1>2. \A j \in S : ~(j < i)
  BY <1>1 DEF OpToRel
<1> QED
  BY <1>2

\* A way that comes back to a block can leave out the detour.
LEMMA Shortcut ==
  ASSUME NEW v, NEW u, NEW n \in Nat, NEW p \in [0 .. n -> Block],
         ReadOn(v, u, n, p), NEW i \in 0 .. n, NEW j \in 0 .. n, i < j,
         p[i] = p[j]
  PROVE  \E q \in [0 .. n - (j - i) -> Block] : ReadOn(v, u, n - (j - i), q)
<1> DEFINE d == j - i
           m == n - d
           q == [l \in 0 .. m |-> IF l <= i THEN p[l] ELSE p[l + d]]
<1>1. /\ i \in Nat /\ j \in Nat /\ d \in Nat /\ m \in Nat /\ i <= m
      /\ j = i + d /\ n = m + d /\ d # 0
  OBVIOUS
<1>2. \A l \in 0 .. m : l \in 0 .. n /\ l + d \in 0 .. n
  BY <1>1
<1>3. q \in [0 .. m -> Block]
  BY <1>2
<1>4. \A l \in 0 .. m : q[l] = IF l <= i THEN p[l] ELSE p[l + d]
  OBVIOUS
<1>5. /\ p[0] = u
      /\ \A l \in 0 .. n - 1 : p[l + 1] \in succs[p[l]] /\ v \notin def[p[l]]
      /\ v \in use[p[n]]
  BY DEF ReadOn
<1> HIDE DEF d, m, q
<1>6. q[0] = u
  BY <1>1, <1>4, <1>5
<1>7. ASSUME NEW l \in 0 .. m - 1
      PROVE  q[l + 1] \in succs[q[l]] /\ v \notin def[q[l]]
  <2>1. /\ l \in 0 .. m /\ l + 1 \in 0 .. m /\ l \in 0 .. n - 1
        /\ l + d \in 0 .. n - 1 /\ l + 1 + d = l + d + 1
    BY <1>1
  <2>2. CASE l + 1 <= i
    <3>1. q[l] = p[l] /\ q[l + 1] = p[l + 1]
      BY <1>1, <1>4, <2>1, <2>2
    <3> QED
      BY <1>5, <2>1, <3>1
  <2>3. CASE l = i
    <3>1. q[l] = p[l + d] /\ q[l + 1] = p[l + d + 1]
      BY <1>1, <1>4, <2>1, <2>3
    <3> QED
      BY <1>5, <2>1, <3>1
  <2>4. CASE l > i
    <3>1. q[l] = p[l + d] /\ q[l + 1] = p[l + d + 1]
      BY <1>1, <1>4, <2>1, <2>4
    <3> QED
      BY <1>5, <2>1, <3>1
  <2> QED
    BY <1>1, <2>2, <2>3, <2>4
<1>8. v \in use[q[m]]
  <2>1. CASE m = i
    BY <1>1, <1>4, <1>5, <2>1
  <2>2. CASE m > i
    BY <1>1, <1>4, <1>5, <2>2
  <2> QED
    BY <1>1, <2>1, <2>2
<1>9. ReadOn(v, u, m, q)
  BY <1>6, <1>7, <1>8 DEF ReadOn
<1> QED
  BY <1>3, <1>9 DEF m, d

\* However long a way to a read is, one that enters no block twice is there.
LEMMA ShortWay ==
  ASSUME NEW v \in Var, NEW u, NEW n \in Nat, NEW p \in [0 .. n -> Block],
         ReadOn(v, u, n, p)
  PROVE  v \in ReadLater(u)
<1> DEFINE Lengths == {m \in Nat : \E q \in [0 .. m -> Block] : ReadOn(v, u, m, q)}
<1>1. PICK m \in Lengths : \A l \in Lengths : m <= l
  <2>1. Lengths \in SUBSET Nat /\ n \in Lengths
    OBVIOUS
  <2> HIDE DEF Lengths
  <2> QED
    BY <2>1, LeastNatural
<1>2. PICK q \in [0 .. m -> Block] : ReadOn(v, u, m, q)
  OBVIOUS
<1>3. m \in Nat /\ Cardinality(Block) \in Nat
  BY BlockAssumption, FS_CardinalityType
<1>4. m < Cardinality(Block)
  <2> SUFFICES ASSUME Cardinality(Block) <= m PROVE FALSE
    BY <1>3
  <2>1. IsFiniteSet(0 .. m) /\ Cardinality(0 .. m) = m + 1
    BY <1>3, FS_Interval
  <2>2. Cardinality(Block) < Cardinality(0 .. m)
    BY <1>3, <2>1
  <2>3. PICK x, y \in 0 .. m : x # y /\ q[x] = q[y]
    BY <2>1, <2>2, BlockAssumption, FS_PigeonHole
  <2>4. PICK i, j \in 0 .. m : i < j /\ q[i] = q[j]
    BY <1>3, <2>3
  <2>5. m - (j - i) \in Lengths
    <3>1. m - (j - i) \in Nat
      BY <1>3, <2>4
    <3> QED
      BY <1>2, <1>3, <2>4, <3>1, Shortcut
  <2> QED
    BY <1>1, <1>3, <2>4, <2>5
<1>5. m \in 0 .. Cardinality(Block) - 1
  BY <1>3, <1>4
<1> QED
  BY <1>2, <1>5 DEF ReadLater

\* A read in the block itself, or behind it, is a later read.
LEMMA ReadHere ==
  ASSUME NEW u \in Block, NEW v \in use[u], v \in Var
  PROVE  v \in ReadLater(u)
<1> DEFINE p == [l \in 0 .. 0 |-> u]
<1>1. p \in [0 .. 0 -> Block] /\ ReadOn(v, u, 0, p)
  BY DEF ReadOn
<1> HIDE DEF p
<1> QED
  BY <1>1, ShortWay

LEMMA ReadBehind ==
  ASSUME NEW u \in Block, NEW w \in succs[u], w \in Block,
         NEW v \in ReadLater(w), v \notin def[u]
  PROVE  v \in ReadLater(u)
<1>0. PICK n \in 0 .. Cardinality(Block) - 1 :
        \E p \in [0 .. n -> Block] : ReadOn(v, w, n, p)
  BY DEF ReadLater
<1>1. PICK p \in [0 .. n -> Block] : ReadOn(v, w, n, p)
  BY <1>0
<1>2. n \in Nat /\ v \in Var
  BY DEF ReadLater
<1> DEFINE q == [l \in 0 .. n + 1 |-> IF l = 0 THEN u ELSE p[l - 1]]
<1>3. q \in [0 .. n + 1 -> Block]
  BY <1>2
<1>4. \A l \in 0 .. n + 1 : q[l] = IF l = 0 THEN u ELSE p[l - 1]
  OBVIOUS
<1> HIDE DEF q
<1>5. ASSUME NEW l \in 0 .. (n + 1) - 1
      PROVE  q[l + 1] \in succs[q[l]] /\ v \notin def[q[l]]
  <2>1. q[l + 1] = p[l]
    BY <1>2, <1>4
  <2>2. CASE l = 0
    BY <1>1, <1>2, <1>4, <2>1, <2>2 DEF ReadOn
  <2>3. CASE l # 0
    <3>1. l - 1 \in 0 .. n - 1 /\ q[l] = p[l - 1] /\ (l - 1) + 1 = l
      BY <1>2, <1>4, <2>3
    <3> QED
      BY <1>1, <2>1, <3>1 DEF ReadOn
  <2> QED
    BY <2>2, <2>3
<1>6. q[0] = u /\ q[n + 1] = p[n]
  BY <1>2, <1>4
<1>7. ReadOn(v, u, n + 1, q)
  BY <1>1, <1>5, <1>6 DEF ReadOn
<1> QED
  BY <1>2, <1>3, <1>7, ShortWay

\* What process puts into in_ is read later.
LEMMA NewInRead ==
  ASSUME TypeOK, ReadInv, phase # "start", NEW u \in Block
  PROVE  NewIn(u) \subseteq ReadLater(u)
<1> SUFFICES ASSUME NEW v \in NewIn(u) PROVE v \in ReadLater(u)
  OBVIOUS
<1>1. CASE v \in use[u]
  BY <1>1, ReadHere DEF TypeOK
<1>2. CASE v \notin def[u] /\ v \in NewOut(u)
  <2>1. PICK w \in succs[u] : v \in in[w]
    BY <1>2 DEF NewOut
  <2>2. w \in Block /\ v \in ReadLater(w)
    BY <2>1 DEF TypeOK, ReadInv
  <2> QED
    BY <1>2, <2>2, ReadBehind
<1> QED
  BY <1>1, <1>2 DEF NewIn

\* Every variable in in_ is read later, whatever the order of the passes.
LEMMA NextReadInv == IInv /\ ReadInv /\ [Next]_vars => ReadInv'
<1> SUFFICES ASSUME IInv, ReadInv, [Next]_vars PROVE ReadInv'
  OBVIOUS
<1>0. CASE ClearInOut \/ BuildCFG
  <2>1. IInv' /\ phase' \in {"build", "search"}
    BY <1>0, CallerIInv DEF ClearInOut, BuildCFG
  <2> QED
    BY <2>1 DEF IInv, SearchInv, ReadInv
<1> SUFFICES ASSUME ~(ClearInOut \/ BuildCFG) PROVE ReadInv'
  BY <1>0
<1>1. UNCHANGED cfg /\ (phase = "start" => phase' = "start")
  BY DEF vars, Next, Analyse, CalcInOut, Terminated, Enter, Leave, EndSearch,
         FirstPass, SecondPass, Finish
<1>2. \A u : ReadLater(u)' = ReadLater(u)
  BY <1>1 DEF cfg, ReadLater, ReadOn
<1>3. ASSUME NEW u, NEW queue, NEW flags, Process(u, queue, flags), phase = "process"
      PROVE  ReadInv'
  <2>1. \A w \in Block : in'[w] = in[w] \/ (w = u /\ in'[w] = NewIn(u))
    <3>1. in' = [in EXCEPT ![u] = NewIn(u)] /\ in \in [Block -> SUBSET Var]
      BY <1>3 DEF Process, IInv, TypeOK
    <3> QED
      BY <3>1
  <2>2. \A w \in Block : NewIn(w) \subseteq ReadLater(w)
    BY <1>3, NewInRead DEF IInv
  <2> QED
    BY <1>2, <1>3, <2>1, <2>2 DEF ReadInv
<1>4. CASE UNCHANGED in
  BY <1>1, <1>2, <1>4 DEF ReadInv
<1>5. CASE FirstPass
  BY <1>3, <1>5 DEF FirstPass
<1>6. ASSUME NEW u \in Block, SecondPass(u) PROVE ReadInv'
  BY <1>3, <1>6 DEF SecondPass
<1> QED
  BY <1>4, <1>5, <1>6 DEF vars, Next, Analyse, CalcInOut, Terminated, Enter, Leave,
                          EndSearch, Finish

\* The invariant together with what it says of later reads.
THEOREM FullInductive == Spec => []FullInv
<1>1. Init => ReadInv
  BY DEF Init, ReadInv
<1> QED
  BY InitIInv, NextIInv, NextReadInv, <1>1, PTL DEF Spec, FullInv

\* The search leaves nothing out: a block that is entered has all its
\* successors entered when the search is over.
LEMMA VisitedClosed ==
  ASSUME IInv, phase \in {"process", "done"}, NEW u \in visited
  PROVE  succs[u] \subseteq visited
<1>1. PICK i \in 1 .. Len(postorder) : postorder[i] = u
  BY DEF IInv, SearchInv
<1> QED
  BY <1>1 DEF IInv, SearchInv

\* A solved set contains what is read later: otherwise take the last block of
\* the way at whose start the variable is missing.
LEMMA SolvedRead ==
  ASSUME IInv, FixedPoint, phase = "done", NEW u \in visited,
         NEW v \in ReadLater(u)
  PROVE  v \in in[u]
<1>0. PICK n \in 0 .. Cardinality(Block) - 1 :
        \E p \in [0 .. n -> Block] : ReadOn(v, u, n, p)
  BY DEF ReadLater
<1>1. PICK p \in [0 .. n -> Block] : ReadOn(v, u, n, p)
  BY <1>0
<1>2. n \in Nat /\ v \in Var
  BY DEF ReadLater
<1>3. /\ p[0] = u
      /\ \A l \in 0 .. n - 1 : p[l + 1] \in succs[p[l]] /\ v \notin def[p[l]]
      /\ v \in use[p[n]]
  BY <1>1 DEF ReadOn
<1>4. \A l \in 0 .. n : p[l] \in visited
  <2> DEFINE Missed == {l \in 0 .. n : p[l] \notin visited}
  <2> SUFFICES ASSUME Missed # {} PROVE FALSE
    OBVIOUS
  <2>1. PICK l \in Missed : \A j \in Missed : l <= j
    <3>1. Missed \in SUBSET Nat
      BY <1>2
    <3> HIDE DEF Missed
    <3> QED
      BY <3>1, LeastNatural
  <2>2. l # 0 /\ l \in 0 .. n
    BY <1>3
  <2>3. l - 1 \in 0 .. n - 1 /\ l - 1 \in 0 .. n /\ (l - 1) + 1 = l /\ l - 1 < l
    BY <1>2, <2>2
  <2>4. p[l - 1] \in visited
    BY <1>2, <2>1, <2>2, <2>3
  <2>5. p[l] \in succs[p[l - 1]]
    BY <1>3, <2>3
  <2> QED
    BY <2>1, <2>4, <2>5, VisitedClosed
<1>5. ASSUME NEW l \in 0 .. n PROVE in[p[l]] = NewIn(p[l])
  BY <1>4 DEF FixedPoint, Solved
<1> DEFINE Live == {l \in 0 .. n : v \in in[p[l]]}
<1>6. n \in Live
  BY <1>2, <1>3, <1>5 DEF NewIn
<1>7. PICK l \in Live : \A j \in Live : l <= j
  <2>1. Live \in SUBSET Nat
    BY <1>2
  <2> HIDE DEF Live
  <2> QED
    BY <1>6, <2>1, LeastNatural
<1>8. l = 0
  <2> SUFFICES ASSUME l # 0 PROVE FALSE
    OBVIOUS
  <2>1. /\ l \in 0 .. n /\ l - 1 \in 0 .. n - 1 /\ l - 1 \in 0 .. n
        /\ (l - 1) + 1 = l /\ l - 1 < l
    BY <1>2
  <2>2. p[l] \in succs[p[l - 1]] /\ v \notin def[p[l - 1]]
    BY <1>3, <2>1
  <2>3. v \in NewIn(p[l - 1])
    BY <1>7, <2>2 DEF NewIn, NewOut
  <2>4. l - 1 \in Live
    BY <1>5, <2>1, <2>3
  <2> QED
    BY <1>2, <1>7, <2>1, <2>4
<1> QED
  BY <1>3, <1>7, <1>8

\* When CalcInOut returns, a variable is in in_ of a reachable block exactly when
\* some path from the block reads it before writing it.
THEOREM Meaning == Spec => []LiveIffReadLater
<1>1. FullInv /\ FixedPoint => LiveIffReadLater
  <2> SUFFICES ASSUME IInv, ReadInv, FixedPoint, phase = "done", NEW u \in visited
               PROVE  in[u] = ReadLater(u)
    BY DEF FullInv, LiveIffReadLater
  <2>1. in[u] \subseteq ReadLater(u)
    BY DEF IInv, TypeOK, ReadInv
  <2> QED
    BY <2>1, SolvedRead
<1> QED
  BY FullInductive, Fixed, <1>1, PTL
=============================================================================
