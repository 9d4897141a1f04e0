------------------------------ MODULE Liveness ------------------------------
(***************************************************************************)
(* Block-level liveness: CFG::CalcInOut of liveness_analysis/CFG.cpp.      *)
(*                                                                         *)
(* The control-flow graph and the def/use sets of its blocks are whatever  *)
(* CFGBuilder found.  A depth-first search from the entry block lists the  *)
(* reachable blocks in postorder; one pass over that list is followed by a *)
(* worklist that takes back edges to the fixed point.  The successors of a *)
(* block are searched in any order and the worklist is a set, which covers *)
(* every order of its queue.  Before that, RegAlloc::Visit clears what an  *)
(* earlier analysis has left in the blocks, since CalcInOut does not.      *)
(***************************************************************************)
EXTENDS Integers, Sequences, FiniteSets

CONSTANTS
  Block,    \* block ids
  Entry,    \* block 0
  Var,      \* variable ids
  MaxSucc   \* bound: successors of a block (a branch has two)

ASSUME EntryAssumption == Entry \in Block
ASSUME BlockAssumption == IsFiniteSet(Block)
ASSUME SuccAssumption == MaxSucc \in Nat

VARIABLES
  succs, def, use,   \* succs_, def_ and use_ of each block
  phase,
  visited, path,     \* the search: blocks entered, the recursion's call stack
  postorder, next,   \* the list it leaves and the position of the first pass
  worklist, in_worklist,
  in, out            \* in_ and out_ of each block

cfg  == <<succs, def, use>>
search == <<visited, path, postorder>>
vars == <<cfg, phase, search, next, worklist, in_worklist, in, out>>

preds(u) == {p \in Block : u \in succs[p]}

TypeOK ==
  /\ succs \in [Block -> SUBSET Block]
  /\ def \in [Block -> SUBSET Var]
  /\ use \in [Block -> SUBSET Var]
  /\ phase \in {"start", "build", "search", "process", "done"}
  /\ visited \in SUBSET Block
  /\ path \in Seq(Block)
  /\ postorder \in Seq(Block)
  /\ next \in Nat \ {0}
  /\ worklist \in SUBSET Block
  /\ in_worklist \in SUBSET Block
  /\ in \in [Block -> SUBSET Var]
  /\ out \in [Block -> SUBSET Var]

\* in_ and out_ are what the last analysis of the function left, of another
\* graph with other numbers for its variables; empty if there was none (Mem2reg).
Init ==
  /\ succs = [b \in Block |-> {}]
  /\ def = [b \in Block |-> {}]
  /\ use = [b \in Block |-> {}]
  /\ phase = "start"
  /\ visited = {Entry}
  /\ path = <<Entry>>
  /\ postorder = << >>
  /\ next = 1
  /\ worklist = {}
  /\ in_worklist = {}
  /\ in \in [Block -> SUBSET Var]
  /\ out \in [Block -> SUBSET Var]

\* Mutation: the caller clears nothing either.
ClearNothing ==
  /\ phase = "start"
  /\ phase' = "build"
  /\ UNCHANGED <<cfg, search, next, worklist, in_worklist, in, out>>

\* RegAlloc::Visit clears the blocks; those Mem2reg is given are new.
ClearInOut ==
  /\ phase = "start"
  /\ phase' = "build"
  /\ in' = [b \in Block |-> {}]
  /\ out' = [b \in Block |-> {}]
  /\ UNCHANGED <<cfg, search, next, worklist, in_worklist>>

\* CFGBuilder: whatever graph and sets the function's instructions give.
BuildCFG ==
  /\ phase = "build"
  /\ succs' \in [Block -> {S \in SUBSET Block : Cardinality(S) <= MaxSucc}]
  /\ def' \in [Block -> SUBSET Var]
  /\ use' \in [Block -> SUBSET Var]
  /\ phase' = "search"
  /\ UNCHANGED <<search, next, worklist, in_worklist, in, out>>

-----------------------------------------------------------------------------
(* dfs: the last block of path is the one being searched.                  *)

Current == path[Len(path)]

Enter(v) ==
  /\ phase = "search" /\ path # << >>
  /\ v \in succs[Current] \ visited
  /\ visited' = visited \cup {v}
  /\ path' = Append(path, v)
  /\ UNCHANGED <<cfg, phase, postorder, next, worklist, in_worklist, in, out>>

Leave ==
  /\ phase = "search" /\ path # << >>
  /\ succs[Current] \subseteq visited
  /\ postorder' = Append(postorder, Current)
  /\ path' = SubSeq(path, 1, Len(path) - 1)
  /\ UNCHANGED <<cfg, phase, visited, next, worklist, in_worklist, in, out>>

EndSearch ==
  /\ phase = "search" /\ path = << >>
  /\ phase' = "process"
  /\ UNCHANGED <<cfg, search, next, worklist, in_worklist, in, out>>

-----------------------------------------------------------------------------
(* process: recompute one block; a change queues its predecessors.         *)

\* Mutation: only what was not known to be live is passed on.
NewOutDelta(u) == (UNION {in[v] : v \in succs[u]}) \ out[u]

NewOut(u) == UNION {in[v] : v \in succs[u]}

\* Mutation: definitions do not end liveness.
NewInKeepsDef(u) == NewOut(u) \cup use[u]

NewIn(u) == (NewOut(u) \ def[u]) \cup use[u]

Changed(u) == NewOut(u) # out[u] \/ NewIn(u) # in[u]

\* process(u), called with the given queue and flags.
Process(u, queue, flags) ==
  /\ in'  = [in EXCEPT ![u] = NewIn(u)]
  /\ out' = [out EXCEPT ![u] = NewOut(u)]
  /\ LET new == IF Changed(u) THEN preds(u) \ flags ELSE {}
     IN  /\ worklist' = queue \cup new
         /\ in_worklist' = flags \cup new

FirstPass ==
  /\ phase = "process" /\ next <= Len(postorder)
  /\ Process(postorder[next], worklist, in_worklist)
  /\ next' = next + 1
  /\ UNCHANGED <<cfg, phase, search>>

\* Mutation: the flag stays up while the block is processed.
SecondPassKeepsFlag(u) ==
  /\ phase = "process" /\ next > Len(postorder)
  /\ u \in worklist
  /\ Process(u, worklist \ {u}, in_worklist)
  /\ UNCHANGED <<cfg, phase, search, next>>

\* Mutation: the block is processed before it leaves the worklist.
SecondPassRequeues(u) ==
  /\ phase = "process" /\ next > Len(postorder)
  /\ u \in worklist
  /\ Process(u, worklist, in_worklist)
  /\ UNCHANGED <<cfg, phase, search, next>>

\* A queued block leaves the worklist and its flag is lowered before it is
\* processed, so a block that precedes itself can queue itself again.
SecondPass(u) ==
  /\ phase = "process" /\ next > Len(postorder)
  /\ u \in worklist
  /\ Process(u, worklist \ {u}, in_worklist \ {u})
  /\ UNCHANGED <<cfg, phase, search, next>>

Finish ==
  /\ phase = "process" /\ next > Len(postorder) /\ worklist = {}
  /\ phase' = "done"
  /\ UNCHANGED <<cfg, search, next, worklist, in_worklist, in, out>>

Terminated == phase = "done" /\ UNCHANGED vars

-----------------------------------------------------------------------------
CalcInOut ==
  \/ \E v \in Block : Enter(v)
  \/ Leave
  \/ EndSearch
  \/ FirstPass
  \/ \E u \in Block : SecondPass(u)
  \/ Finish

Analyse == ClearInOut \/ BuildCFG \/ CalcInOut

Next == Analyse \/ Terminated

Spec == Init /\ [][Next]_vars

\* One sequential program.
FairSpec == Spec /\ WF_vars(Analyse)

-----------------------------------------------------------------------------
(* Properties.                                                             *)

Solved(u) == out[u] = NewOut(u) /\ in[u] = NewIn(u)

\* When CalcInOut returns, in_ and out_ of every reachable block satisfy the
\* liveness equations: no predecessor of a changed block was forgotten, on back
\* edges and self loops included.
FixedPoint == phase = "done" => \A u \in visited : Solved(u)

\* A solution of the equations, as the in sets of the blocks.
Solution(I) ==
  \A u \in Block :
    ((UNION {I[v] : v \in succs[u]}) \ def[u]) \cup use[u] = I[u]

\* Once the caller has cleared the blocks, no variable is ever in in_ that some
\* solution does not have live, so the fixed point that is reached is the least
\* one: no variable interferes with another only because the analysis went
\* through a loop, or because it was live in an earlier analysis.
LeastSolution ==
  phase # "start" =>
    \A I \in [Block -> SUBSET Var] :
      Solution(I) => \A u \in Block : in[u] \subseteq I[u]

\* p is a way of n edges from the start of u to a read of v, on which no block
\* that is passed through writes v.
ReadOn(v, u, n, p) ==
  /\ p[0] = u
  /\ \A i \in 0 .. n - 1 : p[i + 1] \in succs[p[i]] /\ v \notin def[p[i]]
  /\ v \in use[p[n]]

\* The variables some execution from the start of u reads before writing them.
\* A way need not pass through a block twice.
ReadLater(u) ==
  {v \in Var : \E n \in 0 .. Cardinality(Block) - 1 :
                 \E p \in [0 .. n -> Block] : ReadOn(v, u, n, p)}

\* What in_ means: a variable is live at the start of a reachable block exactly
\* when some path from there reads it before writing it (CalcInOut).
LiveIffReadLater ==
  phase = "done" => \A u \in visited : in[u] = ReadLater(u)

\* process only ever adds live variables, which bounds the worklist loop.
OnlyGrows ==
  [][phase # "start" =>
       \A u \in Block : in[u] \subseteq in'[u] /\ out[u] \subseteq out'[u]]_vars

\* CalcInOut returns on every control-flow graph.
CalcInOutTerminates == <>(phase = "done")

\* The search: what it has entered is on the call stack or listed, and the
\* successors of what is listed have been entered.
SearchInv ==
  /\ \A i \in 1 .. Len(path) : path[i] \in visited
  /\ \A u \in visited :
       \/ \E i \in 1 .. Len(path) : path[i] = u
       \/ \E i \in 1 .. Len(postorder) : postorder[i] = u
  /\ \A i \in 1 .. Len(postorder) : postorder[i] \in visited
  /\ \A i \in 1 .. Len(postorder) : succs[postorder[i]] \subseteq visited
  /\ phase \in {"start", "build"} => postorder = << >>
  /\ phase \in {"start", "build", "search"} => next = 1 /\ worklist = {}
  /\ phase \in {"build", "search"} => \A u \in Block : in[u] = {} /\ out[u] = {}
  /\ phase \in {"process", "done"} => path = << >>

\* Every listed block is still to come, queued, or solved; the flags mirror
\* the queue, and no value exceeds what its successors will justify.
PassInv ==
  /\ in_worklist = worklist
  /\ \A i \in 1 .. Len(postorder) :
       i < next => postorder[i] \in worklist \/ Solved(postorder[i])
  /\ phase # "start" =>
       \A u \in Block : in[u] \subseteq NewIn(u) /\ out[u] \subseteq NewOut(u)
  /\ phase = "done" => next > Len(postorder) /\ worklist = {}

\* The inductive invariant behind FixedPoint and LeastSolution.
IInv == TypeOK /\ SearchInv /\ PassInv /\ LeastSolution

\* Once the blocks are cleared, no variable is ever in in_ that no path reads.
ReadInv == phase # "start" => \A u \in Block : in[u] \subseteq ReadLater(u)

\* The inductive invariant behind LiveIffReadLater.
FullInv == IInv /\ ReadInv
=============================================================================
