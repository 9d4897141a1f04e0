------------------------------- MODULE Pipeline -------------------------------
(***************************************************************************)
(* The passes, one after the other, as the drivers in test/ call them: the *)
(* inliner on the program, then for every function mem2reg, critical edges, *)
(* SCCP, CSE, the removal of phis and of empty blocks, and the assembly of  *)
(* what is left.  The code runs a pass over all functions before the next   *)
(* pass; after the inliner no pass looks at another function, so the model  *)
(* takes one function through all its passes first.                         *)
(***************************************************************************)
EXTENDS IRMeaning, Inliner, Mem2reg, SCCP, CSE, PhiMoves, EmptyBlocks, Emission

CONSTANT Programs   \* a set of [root, order, want, last]: a program, its functions
                    \* in order, what it has to do for each input, and its last phase

VARIABLES
  want,      \* what the program has to do: input |-> meaning
  last,      \* the last phase its functions go through
  fn         \* the function being optimised: its place in order

passVars == <<m2rVars, sccpVars, cseVars, phiVars, emptyVars, frameVars, emitVars>>
vars == <<want, last, root, order, inlineVars, fn, function, phase, passVars>>

Init ==
  /\ \E p \in Programs : root = p.root /\ order = p.order /\ want = p.want /\ last = p.last
  /\ turn = 1 /\ grown = FALSE
  /\ inlined = [f \in DOMAIN root |-> {}]
  /\ fresh = [f \in DOMAIN root |-> 0]
  /\ fn = 1 /\ phase = "inline"
  /\ params = <<>> /\ blocks = <<>>
  /\ dom = <<>> /\ frontier = <<>> /\ cells = <<>> /\ placed = 0 /\ pending = <<>> /\ replace = <<>>
  /\ lattice = <<>> /\ executable = {} /\ flow_worklist = <<>> /\ ssa_worklist = <<>>
  /\ renames = <<>> /\ available = <<>> /\ scanned = 0 /\ place = 0 /\ given = <<>>
  /\ at = 0 /\ held = <<>> /\ copies = <<>>
  /\ preds = <<>> /\ from = -1 /\ changed = FALSE
  /\ has_calls = FALSE /\ in_register = {} /\ same = <<>>
  /\ address = <<>> /\ inner = <<>> /\ stack_size = 0
  /\ fused = {} /\ layout = <<>> /\ code = <<>>

PassOrder == <<"mem2reg", "sccp", "cse", "phi", "empty-blocks", "emit">>
Result(pass) ==
  CASE pass = "mem2reg" -> "split" [] pass = "sccp" -> "propagated" [] pass = "cse" -> "shared"
    [] pass = "phi" -> "moved" [] pass = "empty-blocks" -> "threaded"
    [] pass = "emit" -> "emitted"

InlinePass ==
  /\ phase = "inline" /\ InlineStep
  /\ UNCHANGED <<want, last, fn, function, phase, passVars>>

EndInline ==
  /\ phase = "inline" /\ turn \notin DOMAIN order
  /\ phase' = "functions"
  /\ UNCHANGED <<want, last, root, order, inlineVars, fn, function, passVars>>

LoadFunction ==
  /\ phase = "functions" /\ fn \in DOMAIN order
  /\ params' = root[order[fn]].params /\ blocks' = root[order[fn]].blocks
  /\ phase' = PassOrder[1]
  /\ UNCHANGED <<want, last, root, order, inlineVars, fn, passVars>>

OnePass ==
  /\ \/ Mem2regStep /\ UNCHANGED <<sccpVars, cseVars, phiVars, emptyVars, frameVars, emitVars>>
     \/ SCCPStep /\ UNCHANGED <<m2rVars, cseVars, phiVars, emptyVars, frameVars, emitVars>>
     \/ CSEStep /\ UNCHANGED <<m2rVars, sccpVars, phiVars, emptyVars, frameVars, emitVars>>
     \/ PhiStep /\ UNCHANGED <<m2rVars, sccpVars, cseVars, emptyVars, frameVars, emitVars>>
     \/ EmptyBlocksStep /\ UNCHANGED <<m2rVars, sccpVars, cseVars, phiVars, frameVars, emitVars>>
     \/ FrameStep /\ UNCHANGED <<m2rVars, sccpVars, cseVars, phiVars, emptyVars, emitVars>>
     \/ EmissionStep /\ UNCHANGED <<m2rVars, sccpVars, cseVars, phiVars, emptyVars>>
  /\ UNCHANGED <<want, last, root, order, inlineVars, fn>>

NextPass ==
  /\ \E k \in 1 .. Len(PassOrder) - 1 : phase = Result(PassOrder[k]) /\ phase' = PassOrder[k + 1]
  /\ phase # last
  /\ UNCHANGED <<want, last, root, order, inlineVars, fn, function, passVars>>

StoreFunction ==
  /\ phase = last
  /\ root' = [root EXCEPT ![order[fn]].blocks = blocks]
  /\ fn' = fn + 1
  /\ phase' = "functions"
  /\ UNCHANGED <<want, last, order, inlineVars, function, passVars>>

Finished == phase = "functions" /\ fn \notin DOMAIN order

Next ==
  \/ InlinePass \/ EndInline \/ LoadFunction \/ OnePass \/ NextPass \/ StoreFunction
  \/ Finished /\ UNCHANGED vars

Spec == Init /\ [][Next]_vars

\* The compiler is one sequential program, which takes its next step until it
\* is done.  Since some step is possible in every state before that, this is
\* WF_vars(Next), written without ENABLED.
FairSpec == Spec /\ ([]<><<TRUE>>_vars \/ <>[]Finished)

------------------------------------------------------------------------------
\* The program with the function being optimised as it is now.
Now == IF fn \in DOMAIN order /\ phase \notin {"inline", "functions"}
       THEN [root EXCEPT ![order[fn]].blocks = blocks] ELSE root

Right == \A input \in DOMAIN want : Meaning(Now, input) = want[input]

\* The lowered program does what the source program does.
GenerationRight == phase = "inline" /\ turn = 1 /\ ~grown => Right

\* Inlining, in whatever order the functions are visited, changes nothing.
InliningRight == phase = "functions" /\ fn = 1 => Right

\* Values instead of stack cells: after the renaming, and after the critical
\* edges are split, every path reads the value last stored.
PromotionRight == phase \in {"promoted", "split"} => Right

\* Constants in place of variables, before and after dead blocks are emptied.
PropagationRight == phase \in {"fold", "propagated"} => Right

\* One address computed for all its uses in a block (CSE) is the address each of
\* them computed itself.
SharingRight == phase = "shared" => Right

\* No live move stands behind the live jump or branch of its block.  The search of
\* ReplacePhiWithMoves for the terminator does not guarantee it: it stops at the
\* branch that SCCP removed and left before the jump.
MovesBeforeJump ==
  \A b \in Blocks : \A j, k \in DOMAIN blocks[b].ins :
    LET Lives(n, kinds) == ~blocks[b].ins[n].removed /\ blocks[b].ins[n].kind \in kinds
    IN Lives(j, {"br", "jmp"}) /\ Lives(k, {"move"}) => k < j

\* The moves at the ends of the predecessors do what the phi nodes did, on every
\* edge of every function, where MovesBeforeJump holds (ReplacePhiWithMoves).
MovesRight == phase = "moved" /\ MovesBeforeJump => Right

\* Jumps past emptied blocks keep the meaning: no move and no condition is lost
\* (EliminateEmptyBlocks).
ThreadingRight == phase = "threaded" => Right

\* The machine instructions of a function, in the order they are written, do
\* what its instructions did, whichever variables share a place: fused
\* compares, inverted branches and jumps left out, immediates and shifts.
EmissionRight == phase = "emitted" => Right

\* Rounds of inlining, worklists and scans that start over all come to an end.
CompilationTerminates == <>Finished
===============================================================================
