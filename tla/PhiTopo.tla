------------------------------- MODULE PhiTopo -------------------------------
(***************************************************************************)
(* Replacing the phi nodes of one control-flow edge by moves: class        *)
(* PhiTopo (codegen/phi_topo.cpp) orders the parallel copies, and          *)
(* ReplacePhiWithMoves (IR_visitor/phi_eliminator) emits one move per      *)
(* element of the order.  The model executes every move as it is emitted,  *)
(* so that `env` is the state the emitted code reaches.  The queue's       *)
(* content is a set and the cycle scan picks any node: every numbering of  *)
(* names is covered.                                                       *)
(***************************************************************************)
EXTENDS Integers, FiniteSets

CONSTANTS
  Name,      \* phi results, and the variables and constants they read
  NoName,    \* g_ has no value
  None       \* no cycle is being followed

ASSUME NameAssumption ==
  IsFiniteSet(Name) /\ NoName \notin Name /\ None \notin Name

VARIABLES
  pc,        \* "collect", "queue", "scan", "cycle", "done" or "broken"
  g,         \* g_: the source of each phi result
  deg,       \* deg_: copies still to be emitted that read a name
  q,         \* the queue of Solve
  todo,      \* ids the scan for cycles has not visited
  start, u,  \* the cycle being followed and the node reached
  env,       \* the value of every name after the moves emitted so far
  temp,      \* the value of the cycle temporary
  written    \* history: phi results whose copy is done

solve == <<deg, q, todo, start, u>>
code  == <<env, temp, written>>
vars  == <<pc, g, solve, code>>

Readers(n) == {v \in Name : g[v] = n}

\* The names that have an id.
Ids == {n \in Name : g[n] # NoName \/ Readers(n) # {}}

TypeOK ==
  /\ pc \in {"collect", "queue", "scan", "cycle", "done", "broken"}
  /\ g \in [Name -> Name \cup {NoName}]
  /\ deg \in [Name -> Nat]
  /\ q \in SUBSET Name /\ todo \in SUBSET Name
  /\ start \in Name \cup {None} /\ u \in Name \cup {None}
  /\ env \in [Name -> Name]
  /\ temp \in Name \cup {NoName}
  /\ written \in SUBSET Name

\* Every name starts with a value of its own, so that two names never agree by
\* chance.
Init ==
  /\ pc = "collect"
  /\ g = [n \in Name |-> NoName]
  /\ deg = [n \in Name |-> 0]
  /\ q = {} /\ todo = {}
  /\ start = None /\ u = None
  /\ env = [n \in Name |-> n]
  /\ temp = NoName
  /\ written = {}

\* ReplacePhiWithMoves adds the value each phi node of the successor has for
\* this block: one value per phi node and predecessor.
AddEdge(from, to) ==
  /\ pc = "collect"
  /\ g[to] = NoName
  /\ g' = [g EXCEPT ![to] = from]
  /\ UNCHANGED <<pc, solve, code>>

StartSolve ==
  /\ pc = "collect"
  /\ pc' = "queue"
  /\ deg' = [n \in Name |-> Cardinality(Readers(n))]
  /\ q' = {n \in Ids : Readers(n) = {}}
  /\ UNCHANGED <<g, todo, start, u, code>>

\* The move `to <- from` is emitted.
Move(to, from) ==
  /\ env' = [env EXCEPT ![to] = env[from]]
  /\ written' = written \cup {to}
  /\ UNCHANGED temp

\* Mutation: the source's reader count is not reduced.
PopForgetsReader(n) ==
  /\ pc = "queue" /\ n \in q
  /\ IF g[n] = NoName
     THEN q' = q \ {n} /\ UNCHANGED code
     ELSE /\ Move(n, g[n])
          /\ q' = q \ {n}
  /\ UNCHANGED <<pc, g, deg, todo, start, u>>

\* Mutation: a name that is no phi result is not dequeued.
PopKeepsSource(n) ==
  /\ pc = "queue" /\ n \in q
  /\ IF g[n] = NoName
     THEN UNCHANGED <<q, deg, code>>
     ELSE /\ Move(n, g[n])
          /\ deg' = [deg EXCEPT ![g[n]] = @ - 1]
          /\ q' = (q \ {n}) \cup (IF deg[g[n]] = 1 THEN {g[n]} ELSE {})
  /\ UNCHANGED <<pc, g, todo, start, u>>

\* Mutation: a source is released while another copy still reads it.
PopReleasesEarly(n) ==
  /\ pc = "queue" /\ n \in q
  /\ IF g[n] = NoName
     THEN q' = q \ {n} /\ UNCHANGED <<deg, code>>
     ELSE /\ Move(n, g[n])
          /\ deg' = [deg EXCEPT ![g[n]] = @ - 1]
          /\ q' = (q \ {n}) \cup {g[n]}
  /\ UNCHANGED <<pc, g, todo, start, u>>

\* A name nothing reads any more may be overwritten.
Pop(n) ==
  /\ pc = "queue" /\ n \in q
  /\ IF g[n] = NoName
     THEN q' = q \ {n} /\ UNCHANGED <<deg, code>>
     ELSE /\ Move(n, g[n])
          /\ deg' = [deg EXCEPT ![g[n]] = @ - 1]
          /\ q' = (q \ {n}) \cup (IF deg[g[n]] = 1 THEN {g[n]} ELSE {})
  /\ UNCHANGED <<pc, g, todo, start, u>>

EndQueue ==
  /\ pc = "queue" /\ q = {}
  /\ pc' = "scan"
  /\ todo' = Ids
  /\ UNCHANGED <<g, deg, q, start, u, code>>

\* Mutation: the destination is saved instead of the first source.
SaveDestination(n) ==
  /\ temp' = env[n]
  /\ UNCHANGED <<env, written>>

\* The first source of the cycle is saved in the temporary.
SaveFirst(n) ==
  /\ temp' = env[g[n]]
  /\ UNCHANGED <<env, written>>

\* The scan visits every id once.  A name that is still read lies on a cycle;
\* it is skipped when it is no phi result, and when it is copied to itself.
Visit(n) ==
  /\ pc = "scan" /\ n \in todo
  /\ todo' = todo \ {n}
  /\ deg' = [deg EXCEPT ![n] = IF @ > 0 THEN @ - 1 ELSE @]
  /\ IF deg[n] = 0 \/ g[n] \in {NoName, n}
     THEN /\ written' = IF deg[n] > 0 /\ g[n] = n THEN written \cup {n}
                        ELSE written
          /\ UNCHANGED <<pc, start, u, env, temp>>
     ELSE /\ pc' = "cycle"
          /\ start' = n /\ u' = g[n]
          /\ SaveFirst(n)
  /\ UNCHANGED <<g, q>>

\* The next name on the way around; `broken cycle` aborts the compiler.
FollowCycle ==
  /\ pc = "cycle" /\ u # start
  /\ deg' = [deg EXCEPT ![u] = @ - 1]
  /\ IF g[u] = NoName
     THEN pc' = "broken" /\ UNCHANGED <<u, code>>
     ELSE /\ Move(u, g[u])
          /\ u' = g[u]
          /\ UNCHANGED pc
  /\ UNCHANGED <<g, q, todo, start>>

\* The cycle is closed from the temporary.
CloseCycle ==
  /\ pc = "cycle" /\ u = start
  /\ env' = [env EXCEPT ![start] = temp]
  /\ written' = written \cup {start}
  /\ pc' = "scan"
  /\ start' = None /\ u' = None
  /\ UNCHANGED <<g, deg, q, todo, temp>>

Finish ==
  /\ pc = "scan" /\ todo = {}
  /\ pc' = "done"
  /\ UNCHANGED <<g, solve, code>>

Terminated == pc \in {"done", "broken"} /\ UNCHANGED vars

Solve ==
  \/ StartSolve
  \/ \E n \in Name : Pop(n)
  \/ EndQueue
  \/ \E n \in Name : Visit(n)
  \/ FollowCycle
  \/ CloseCycle
  \/ Finish

Next ==
  \/ \E from, to \in Name : AddEdge(from, to)
  \/ Solve
  \/ Terminated

Spec == Init /\ [][Next]_vars

\* Solve is one sequential call.
FairSpec == Spec /\ WF_vars(Solve)

-----------------------------------------------------------------------------
\* Solve never aborts with `broken cycle`, and the names left over when the
\* queue is empty are exactly cycles: each is a phi result that one other phi
\* node reads.
LeftoversAreCycles ==
  /\ pc # "broken"
  /\ pc = "scan" => \A n \in Name : deg[n] > 0 => g[n] # NoName /\ deg[n] = 1

\* The moves, executed one after the other, have the effect of the parallel
\* copy: no source is overwritten before every phi node has read it.
SequentialIsParallel ==
  pc = "done" =>
    \A n \in Name : env[n] = IF g[n] = NoName THEN n ELSE g[n]

\* The inductive invariant.  A copy is pending until its move is emitted;
\* names that are not written still have their own value.
Pending == {n \in Name : g[n] # NoName /\ n \notin written}
PendingReaders(n) == {v \in Pending : g[v] = n}

EnvInv ==
  \A n \in Name : /\ n \in written => g[n] # NoName /\ env[n] = g[n]
                  /\ n \notin written => env[n] = n

\* Before Solve nothing is emitted; while the queue runs deg_ counts the pending
\* readers, and every pending phi result nothing reads is queued.
QueueInv ==
  /\ pc = "collect" => written = {}
  /\ pc = "queue" =>
       /\ \A n \in Name : deg[n] = Cardinality(PendingReaders(n))
       /\ \A n \in q \cup written : PendingReaders(n) = {}
       /\ q \cap written = {}
       /\ \A n \in Pending : PendingReaders(n) = {} => n \in q

\* Afterwards the pending copies permute the pending names ...
Permutes(P, Q) ==
  /\ \A v \in P : g[v] \in Q
  /\ \A n \in Q : \E v \in P : g[v] = n
  /\ \A v, w \in P : g[v] = g[w] => v = w

\* ... and a cycle is opened at u: its first source waits in the temporary and
\* takes the place of u among the names still read.
ScanInv ==
  /\ pc \in {"scan", "done"} =>
       /\ Permutes(Pending, Pending)
       /\ \A n \in Name : deg[n] = IF n \in Pending THEN 1 ELSE 0
       /\ Pending \subseteq todo
  /\ pc = "done" => todo = {}
  /\ pc = "cycle" =>
       /\ start \in Pending /\ u \in Pending
       /\ g[start] # start
       /\ temp = g[start]
       /\ Permutes(Pending, (Pending \ {u}) \cup {g[start]})
       /\ u # g[start] => g[start] \notin Pending
       /\ \A n \in Name : deg[n] = IF n \in Pending \ {start} THEN 1 ELSE 0
       /\ Pending \ {start} \subseteq todo

\* No source is overwritten before its last pending reader, in any phase of
\* Solve: the queue, the scan and the cycle being followed.
IInv == TypeOK /\ pc # "broken" /\ EnvInv /\ QueueInv /\ ScanInv

\* Solve implements the parallel copy of the phi nodes.
Copies == INSTANCE ParallelCopy
            WITH source <- g,
                 value <- IF pc = "done" THEN env ELSE [n \in Name |-> n]
ImplementsParallelCopy == Copies!Spec

\* Solve returns, whatever the phi nodes are.
SolveTerminates == (pc = "queue") ~> (pc = "done")

=============================================================================
