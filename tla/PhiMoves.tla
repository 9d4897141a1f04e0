------------------------------- MODULE PhiMoves -------------------------------
(***************************************************************************)
(* ReplacePhiWithMoves (src/IR_visitor/phi_eliminator/phi_eliminator.cpp):  *)
(* at the end of every block the phis of its successors become moves.  The  *)
(* order of the moves of one edge is that of PhiTopo::Solve; here each move *)
(* is a step, and any copy that may go first may.                           *)
(***************************************************************************)
EXTENDS Function

VARIABLES
  at,       \* the block being rewritten
  held,     \* its terminator while it is taken out, or <<>>
  copies    \* what is left to move, for each successor: <<result, source>>

phiVars == <<at, held, copies>>

StartPhis ==
  /\ phase = "phi"
  /\ at' = 0 /\ held' = <<>> /\ copies' = <<>>
  /\ phase' = "moves"
  /\ UNCHANGED function

\* The first branch or jump of the block, live or removed.
FirstJump(b) ==
  LET hits == {k \in DOMAIN blocks[b].ins : blocks[b].ins[k].kind \in {"br", "jmp"}}
  IN IF hits = {} THEN 0 ELSE Min(hits)

\* The copies the edge from b to v stands for.
EdgeCopies(b, v) ==
  UNION {{<<blocks[v].phi[k].res, e[1]>> : e \in {d \in ToSet(blocks[v].phi[k].val) : d[2] = b}} :
         k \in DOMAIN blocks[v].phi}

TakeTerminator ==
  /\ phase = "moves" /\ at \in Blocks /\ held = <<>> /\ FirstJump(at) # 0
  /\ LET k == FirstJump(at)
         i == blocks[at].ins[k]
     IN /\ held' = <<i>>
        /\ copies' = [j \in DOMAIN i.to |-> EdgeCopies(at, i.to[j])]
        /\ blocks' = [blocks EXCEPT ![at].ins = RemoveAt(@, k)]
  /\ UNCHANGED <<params, phase, at>>

\* A block that falls off its end, or has nothing left, is passed over.
PassOver ==
  /\ phase = "moves" /\ at \in Blocks /\ held = <<>> /\ FirstJump(at) = 0
  /\ at' = at + 1
  /\ UNCHANGED <<function, phase, held, copies>>

AppendIns(i) == blocks' = [blocks EXCEPT ![at].ins = Append(@, i)]

\* Mutation: a result is overwritten although another copy reads it.
EmitAnyMove ==
  /\ held # <<>> /\ copies # <<>>
  /\ \E c \in Head(copies) :
       /\ AppendIns(Move(c[1], c[2]))
       /\ copies' = <<Head(copies) \ {c}>> \o Tail(copies)
  /\ UNCHANGED <<params, phase, at, held>>

\* A copy whose result no other copy still reads; a copy to itself is dropped.
EmitMove ==
  /\ held # <<>> /\ copies # <<>>
  /\ \E c \in Head(copies) :
       /\ \A d \in Head(copies) \ {c} : d[2] # c[1]
       /\ IF c[1] = c[2] THEN UNCHANGED blocks ELSE AppendIns(Move(c[1], c[2]))
       /\ copies' = <<Head(copies) \ {c}>> \o Tail(copies)
  /\ UNCHANGED <<params, phase, at, held>>

Temp == <<"phi.temp", 0>>

\* Only cycles are left: the source of one copy is saved first.
BreakCycle ==
  /\ held # <<>> /\ copies # <<>> /\ Head(copies) # {}
  /\ \A c \in Head(copies) : \E d \in Head(copies) \ {c} : d[2] = c[1]
  /\ \E c \in Head(copies) :
       /\ AppendIns(Move(Temp, c[2]))
       /\ copies' = <<(Head(copies) \ {c}) \cup {<<c[1], Temp>>}>> \o Tail(copies)
  /\ UNCHANGED <<params, phase, at, held>>

NextSuccessor ==
  /\ held # <<>> /\ copies # <<>> /\ Head(copies) = {}
  /\ copies' = Tail(copies)
  /\ UNCHANGED <<function, phase, at, held>>

\* The terminator goes back behind the moves.
PutTerminator ==
  /\ held # <<>> /\ copies = <<>>
  /\ AppendIns(held[1])
  /\ held' = <<>> /\ at' = at + 1
  /\ UNCHANGED <<params, phase, copies>>

ClearPhis ==
  /\ phase = "moves" /\ at \notin Blocks
  /\ blocks' = [b \in Blocks |-> [blocks[b] EXCEPT !.phi = <<>>]]
  /\ phase' = "moved"
  /\ UNCHANGED <<params, phiVars>>

PhiStep ==
  \/ StartPhis \/ TakeTerminator \/ PassOver \/ EmitMove \/ BreakCycle
  \/ NextSuccessor \/ PutTerminator \/ ClearPhis
==============================================================================
