----------------------------- MODULE CSEExecution -----------------------------
(***************************************************************************)
(* What the sharing of addresses promises of the executions of the function *)
(* it works on.                                                             *)
(***************************************************************************)
EXTENDS CSE, Execution

\* No execution is lost: wherever the function that CSE was given could be,
\* having done what it did, the one it leaves can be, having done the same.
SharingKeeps ==
  phase = "shared" =>
    \A c : Reaches(given, c) =>
      \E d : Reaches(blocks, d) /\ d.at = c.at /\ d.trace = c.trace

\* And none is added to a function that only reads what has a value; the one that
\* is left only reads what has a value, too.
SharingAdds ==
  phase = "shared" /\ AlwaysReads(given) =>
    /\ AlwaysReads(blocks)
    /\ \A d : Reaches(blocks, d) =>
         \E c : Reaches(given, c) /\ c.at = d.at /\ c.trace = d.trace
===============================================================================
