---------------------------- MODULE SCCPExecution ----------------------------
(***************************************************************************)
(* What constant propagation promises of the executions of the function it  *)
(* works on.                                                                *)
(***************************************************************************)
EXTENDS SCCP, Execution

\* When the loop has ended, every execution stays in executable blocks, and a
\* variable whose cell is a constant has no other value.
Agrees(lat, env) == \A x \in DOMAIN env : GetLattice(lat, x) \in {Bottom, Const(env[x])}

LatticeTrue ==
  phase = "constants" =>
    \A c : Reaches(blocks, c) =>
      c.at \in executable \cup {Returned} /\ Agrees(lattice, c.env)

\* No step of the rewriting loses an execution: wherever the function could be,
\* having done what it did, the rewritten one can be, having done the same.
KeepsExecutions ==
  phase \in {"constants", "fold", "dead"} =>
    \A c : Reaches(blocks, c) =>
      \E d : Reaches(blocks', d) /\ d.at = c.at /\ d.trace = c.trace

ExecutionsKept == [][KeepsExecutions]_<<function, phase, sccpVars>>

\* Nor does it add one, where only what has a value is ever read; and that stays so.
AddsNoExecution ==
  phase \in {"constants", "fold", "dead"} /\ AlwaysReads(blocks) =>
    /\ AlwaysReads(blocks')
    /\ \A d : Reaches(blocks', d) =>
         \E c : Reaches(blocks, c) /\ c.at = d.at /\ c.trace = d.trace

NoExecutionAdded == [][AddsNoExecution]_<<function, phase, sccpVars>>
==============================================================================
