--------------------------- MODULE RegAllocProofs ---------------------------
(* An executed instruction reads the value last written, for every function    *)
(* whose pruned edges are spurious, if t5 is kept from what crosses a call.    *)
EXTENDS RegAlloc, InterferenceGraphProofs

\* What WellFormed says of one instruction.
LEMMA InstrFacts ==
  ASSUME NEW p \in Programs, NEW b \in Block
  PROVE  /\ Len(p.code[b]) \in Nat
         /\ p.out[b] \subseteq Node
         /\ \A i \in 1 .. Len(p.code[b]) :
              /\ p.code[b][i].use \subseteq Node
              /\ p.code[b][i].def \in Node => p.code[b][i].def \notin DOMAIN p.params
              /\ p.code[b][i].kind = "move" =>
                   /\ p.code[b][i].def \in Node
                   /\ \E v \in Node : p.code[b][i].use = {v}
<1>1. WellFormed(p)
  BY ProgramAssumption
<1>2. p.code[b] \in Seq(Instr)
  BY <1>1 DEF WellFormed
<1>3. p.out[b] \subseteq Node
  BY <1>1 DEF WellFormed
<1>4. Len(p.code[b]) \in Nat /\ \A i \in 1 .. Len(p.code[b]) : p.code[b][i] \in Instr
  BY <1>2, LenProperties
<1>5. \A i \in 1 .. Len(p.code[b]) : p.code[b][i].use \subseteq Node
  BY <1>4 DEF Instr
<1>6. \A i \in 1 .. Len(p.code[b]) :
        p.code[b][i].def \in Node => p.code[b][i].def \in DefOf(p.code[b])
  BY DEF DefOf
<1>7. DefOf(p.code[b]) \cap DOMAIN p.params = {}
  BY <1>1 DEF WellFormed
<1>8. \A i \in 1 .. Len(p.code[b]) :
        p.code[b][i].kind = "move" =>
          /\ p.code[b][i].def \in Node
          /\ \E v \in Node : p.code[b][i].use = {v}
  BY <1>1 DEF WellFormed
<1> QED
  BY <1>3, <1>4, <1>5, <1>6, <1>7, <1>8

\* After the last instruction the live-out set is live.
LEMMA LiveAtEnd ==
  ASSUME NEW p \in Programs, NEW b \in Block
  PROVE  LiveAfter(p, b, Len(p.code[b])) = p.out[b]
<1>1. Len(p.code[b]) \in Nat /\ p.out[b] \subseteq Node
  BY InstrFacts
<1>2. Len(p.code[b]) + 1 .. Len(p.code[b]) = {}
  BY <1>1
<1> QED
  BY <1>1, <1>2 DEF LiveAfter

\* One instruction backwards: the result leaves, the operands enter.
LEMMA LiveBefore ==
  ASSUME NEW p \in Programs, NEW b \in Block, NEW i \in 1 .. Len(p.code[b])
  PROVE  LiveAfter(p, b, i - 1)
           = (LiveAfter(p, b, i) \ {p.code[b][i].def}) \cup p.code[b][i].use
<1> DEFINE n == Len(p.code[b])
           D(j) == p.code[b][j].def
           U(j) == p.code[b][j].use
<1>1. n \in Nat /\ i \in 1 .. n /\ U(i) \subseteq Node
  BY InstrFacts
<1>2. /\ i - 1 + 1 .. n = {i} \cup (i + 1 .. n)
      /\ \A j \in i + 1 .. n : i - 1 + 1 .. j - 1 = {i} \cup (i + 1 .. j - 1)
      /\ i - 1 + 1 .. i - 1 = {}
  BY <1>1
<1>3. ASSUME NEW v \in LiveAfter(p, b, i - 1) PROVE v \in (LiveAfter(p, b, i) \ {D(i)}) \cup U(i)
  <2>1. CASE v \in U(i)
    BY <2>1
  <2>2. CASE v \notin U(i)
    <3>1. v \in Node
      BY <1>3 DEF LiveAfter
    <3>2. CASE v \in p.out[b] /\ \A j \in i - 1 + 1 .. n : D(j) # v
      BY <3>1, <3>2, <1>2 DEF LiveAfter
    <3>3. CASE \E j \in i - 1 + 1 .. n :
                 v \in U(j) /\ \A m \in i - 1 + 1 .. j - 1 : D(m) # v
      <4>1. PICK j \in i - 1 + 1 .. n :
                   v \in U(j) /\ \A m \in i - 1 + 1 .. j - 1 : D(m) # v
        BY <3>3
      <4>2. j \in i + 1 .. n
        BY <4>1, <1>2, <2>2
      <4>3. D(i) # v /\ \A m \in i + 1 .. j - 1 : D(m) # v
        BY <4>1, <4>2, <1>2
      <4> QED
        BY <3>1, <4>1, <4>2, <4>3 DEF LiveAfter
    <3> QED
      BY <1>3, <3>2, <3>3 DEF LiveAfter
  <2> QED
    BY <2>1, <2>2
<1>4. ASSUME NEW v \in (LiveAfter(p, b, i) \ {D(i)}) \cup U(i) PROVE v \in LiveAfter(p, b, i - 1)
  <2>1. v \in Node
    BY <1>1, <1>4 DEF LiveAfter
  <2>2. CASE v \in U(i)
    <3>1. i \in i - 1 + 1 .. n /\ \A m \in i - 1 + 1 .. i - 1 : D(m) # v
      BY <1>1, <1>2
    <3> QED
      BY <2>1, <2>2, <3>1 DEF LiveAfter
  <2>3. CASE v \in LiveAfter(p, b, i) /\ D(i) # v
    <3>1. CASE v \in p.out[b] /\ \A j \in i + 1 .. n : D(j) # v
      BY <2>1, <2>3, <3>1, <1>2 DEF LiveAfter
    <3>2. CASE \E j \in i + 1 .. n :
                 v \in U(j) /\ \A m \in i + 1 .. j - 1 : D(m) # v
      <4>1. PICK j \in i + 1 .. n :
                   v \in U(j) /\ \A m \in i + 1 .. j - 1 : D(m) # v
        BY <3>2
      <4>2. j \in i - 1 + 1 .. n /\ \A m \in i - 1 + 1 .. j - 1 : D(m) # v
        BY <4>1, <2>3, <1>2
      <4> QED
        BY <2>1, <4>1, <4>2 DEF LiveAfter
    <3> QED
      BY <2>3, <3>1, <3>2 DEF LiveAfter
  <2> QED
    BY <1>4, <2>2, <2>3
<1> QED
  BY <1>3, <1>4

\* Before the first instruction: the summary CFGBuilder makes of the block.
LEMMA LiveAtStart ==
  ASSUME NEW p \in Programs, NEW b \in Block
  PROVE  LiveAfter(p, b, 0) = LiveInOf(p, b)
<1> DEFINE c == p.code[b]
<1>1. Len(c) \in Nat /\ p.out[b] \subseteq Node
  BY InstrFacts
<1>2. \A j : 0 + 1 .. j = 1 .. j
  OBVIOUS
<1>3. \A v \in Node : v \in DefOf(c) <=> \E j \in 1 .. Len(c) : c[j].def = v
  BY DEF DefOf
<1> HIDE DEF c
<1>4. LiveAfter(p, b, 0) =
        {v \in Node : \/ v \in p.out[b] /\ \A j \in 1 .. Len(c) : c[j].def # v
                      \/ \E j \in 1 .. Len(c) :
                           v \in c[j].use /\ \A m \in 1 .. j - 1 : c[m].def # v}
  BY DEF LiveAfter, c
<1>5. LiveInOf(p, b) = (p.out[b] \ DefOf(c)) \cup UseOf(c)
  BY DEF LiveInOf, c
<1> QED
  BY <1>1, <1>3, <1>4, <1>5 DEF UseOf

\* What WellFormed says of the parameters.
LEMMA ParamFacts ==
  ASSUME NEW p \in Programs
  PROVE  /\ DOMAIN p.params \subseteq Node
         /\ \A n \in DOMAIN p.params : /\ p.params[n] \in ArgReg
                                       /\ p.params[n] \in Reg
                                       /\ p.params[n] # NoReg
         /\ \A m, n \in DOMAIN p.params : p.params[m] = p.params[n] => m = n
  BY ProgramAssumption, RegAssumption DEF WellFormed

\* The initial states satisfy the invariant.
LEMMA InitAllocInv == InitRegAlloc => AllocInv
<1> SUFFICES ASSUME InitRegAlloc PROVE AllocInv
  OBVIOUS
<1> USE DEF InitRegAlloc
<1>0. /\ prog \in Programs /\ 1 \in Block
      /\ DOMAIN prog.params \subseteq Node
      /\ \A n \in DOMAIN prog.params : /\ prog.params[n] \in ArgReg
                                       /\ prog.params[n] \in Reg
                                       /\ prog.params[n] # NoReg
      /\ \A m, n \in DOMAIN prog.params :
           prog.params[m] = prog.params[n] => m = n
  BY ParamFacts, BlockAssumption DEF Block
<1>1. IInv
  <2>1. TypeOK
    BY <1>0, RegAssumption DEF TypeOK, Phases
  <2>2. GraphInv
    BY <1>0 DEF GraphInv
  <2>3. RepInv
    BY <1>0 DEF RepInv
  <2>4. ColorInv
    BY <1>0 DEF ColorInv
  <2> QED
    BY <2>1, <2>2, <2>3, <2>4 DEF IInv
<1>3. ControlInv
  <2>1. Len(prog.code[1]) \in Nat /\ live = LiveAfter(prog, 1, Size(1))
    BY <1>0, InstrFacts, LiveAtEnd DEF Size
  <2>2. pos \in 0 .. Size(block) + 1 /\ pos <= Size(block)
    BY <2>1 DEF Size
  <2>3. \A n \in precolored : phys_reg[n] = prog.params[n]
    BY <1>0
  <2> QED
    BY <1>0, <2>1, <2>2, <2>3 DEF ControlInv
<1>4. EdgeInv /\ CrossInv
  <2> SUFFICES ASSUME NEW b \in Block, NEW i \in 1 .. Size(b) PROVE ~Passed(b, i)
    BY DEF EdgeInv, CrossInv
  <2>1. Size(1) \in Nat
    BY <1>0, InstrFacts DEF Size
  <2>2. b = 1 => ~(i > pos)
    BY <2>1 DEF Size
  <2> QED
    BY <2>2 DEF Passed, Block
<1>5. ExecutionInv
  BY DEF ExecutionInv
<1> QED
  BY <1>1, <1>3, <1>4, <1>5 DEF AllocInv

\* One instruction of the walk preserves the engine's invariant: its edges are
\* symmetric and have an end that is not a parameter.
LEMMA VisitIInv ==
  ASSUME IInv, ControlInv, VisitInstruction
  PROVE  IInv'
<1> DEFINE ins == Ins(block, pos)
<1>0. /\ at = "walk" /\ phase = "build" /\ prog \in Programs /\ block \in Block
      /\ pos \in 1 .. Len(prog.code[block])
      /\ precolored = DOMAIN prog.params
  BY DEF VisitInstruction, ControlInv, Size
<1>1. /\ ins.use \subseteq Node
      /\ ins.def \in Node => ins.def \notin precolored
      /\ ins.kind = "move" => ins.def \in Node /\ \E v \in Node : ins.use = {v}
  BY <1>0, InstrFacts DEF Ins
<1>2. live \subseteq Node
  BY <1>0 DEF ControlInv, LiveAfter
<1>3. Neighbors(ins) \subseteq Node
  BY <1>1, <1>2 DEF Neighbors, Generated, Killed
<1>4. /\ move_pairs' = IF ins.kind = "move" /\ ins.def \notin ins.use
                       THEN Append(move_pairs,
                                   <<CHOOSE v \in ins.use : TRUE, ins.def>>)
                       ELSE move_pairs
      /\ IF ins.def \in Node
         THEN /\ adjacency' = AddEdges(ins.def, Neighbors(ins))
              /\ nodes' = nodes \cup {ins.def} \cup Neighbors(ins)
                            \cup (ins.use \cap Promotable)
         ELSE /\ nodes' = nodes \cup (ins.use \cap Promotable)
              /\ adjacency' = adjacency
      /\ weight' = CountUse(CountDef(weight, ins), ins)
      /\ UNCHANGED <<phase, precolored, phys_reg, call_crossing_vars, coalesced,
                     cursor, color, pending, history>>
  BY DEF VisitInstruction
<1> HIDE DEF ins
<1>5. weight' \in [Node -> Nat]
  <2>1. weight \in [Node -> Nat]
    BY DEF IInv, TypeOK
  <2>2. CountDef(weight, ins) \in [Node -> Nat]
    BY <2>1 DEF CountDef
  <2> QED
    BY <1>4, <2>2 DEF CountUse
<1>6. /\ move_pairs' \in Seq(Node \X Node)
      /\ \A i \in 1 .. Len(move_pairs') : move_pairs'[i][1] # move_pairs'[i][2]
  <2>1. /\ move_pairs \in Seq(Node \X Node)
        /\ \A i \in 1 .. Len(move_pairs) : move_pairs[i][1] # move_pairs[i][2]
        /\ Len(move_pairs) \in Nat
    BY LenProperties DEF IInv, TypeOK, GraphInv
  <2>2. CASE ins.kind = "move" /\ ins.def \notin ins.use
    <3>1. PICK v \in Node : ins.use = {v}
      BY <1>1, <2>2
    <3>2. (CHOOSE w \in ins.use : TRUE) = v /\ v # ins.def /\ ins.def \in Node
      BY <3>1, <2>2, <1>1
    <3>3. move_pairs' = Append(move_pairs, <<v, ins.def>>)
      BY <1>4, <2>2, <3>2
    <3>4. /\ move_pairs' \in Seq(Node \X Node)
          /\ Len(move_pairs') = Len(move_pairs) + 1
          /\ \A i \in 1 .. Len(move_pairs) : move_pairs'[i] = move_pairs[i]
          /\ move_pairs'[Len(move_pairs) + 1] = <<v, ins.def>>
      <4>1. <<v, ins.def>> \in Node \X Node
        BY <3>2
      <4> QED
        BY <2>1, <3>3, <4>1, AppendProperties
    <3>5. ASSUME NEW i \in 1 .. Len(move_pairs')
          PROVE  move_pairs'[i][1] # move_pairs'[i][2]
      <4>1. CASE i = Len(move_pairs) + 1
        BY <4>1, <3>2, <3>4
      <4>2. CASE i # Len(move_pairs) + 1
        <5>1. i \in 1 .. Len(move_pairs)
          BY <4>2, <3>4, <2>1
        <5> QED
          BY <5>1, <3>4, <2>1
      <4> QED
        BY <4>1, <4>2
    <3> QED
      BY <3>4, <3>5
  <2>3. CASE ~(ins.kind = "move" /\ ins.def \notin ins.use)
    BY <1>4, <2>1, <2>3
  <2> QED
    BY <2>2, <2>3
<1>7. /\ nodes' \in SUBSET Node /\ nodes \subseteq nodes'
      /\ adjacency' \in [Node -> SUBSET Node]
  <2>1. nodes \in SUBSET Node /\ adjacency \in [Node -> SUBSET Node]
    BY DEF IInv, TypeOK
  <2> QED
    BY <2>1, <1>1, <1>3, <1>4 DEF AddEdges
<1>8. TypeOK'
  BY <1>4, <1>5, <1>6, <1>7 DEF IInv, TypeOK, color, history
<1>9. /\ \A u \in Node : adjacency'[u] \subseteq nodes' /\ u \notin adjacency'[u]
      /\ \A u \in Node : \A v \in adjacency'[u] : u \in adjacency'[v]
      /\ \A u \in Node : \A v \in adjacency'[u] : u \notin precolored \/ v \notin precolored
                                                 \/ v \in adjacency[u]
  <2>1. /\ \A u \in Node : adjacency[u] \subseteq nodes /\ u \notin adjacency[u]
        /\ \A u \in Node : \A v \in adjacency[u] : u \in adjacency[v]
        /\ adjacency \in [Node -> SUBSET Node] /\ nodes \subseteq Node
    BY DEF IInv, GraphInv, TypeOK
  <2>2. CASE ins.def \in Node
    BY <2>1, <2>2, <1>1, <1>3, <1>4 DEF AddEdges
  <2>3. CASE ins.def \notin Node
    BY <2>1, <2>3, <1>4
  <2> QED
    BY <2>2, <2>3
<1>10. GraphInv'
  <2>1. precolored' \subseteq nodes' /\ \A m \in precolored' : phys_reg'[m] # NoReg
    BY <1>4, <1>7 DEF IInv, GraphInv
  <2>2. \A m, n \in precolored' : phys_reg'[m] = phys_reg'[n] => m = n
    BY <1>4 DEF IInv, GraphInv
  <2> QED
    BY <1>6, <1>9, <2>1, <2>2 DEF GraphInv
<1>11. RepInv'
  BY <1>0, <1>4, <1>7 DEF IInv, TypeOK, RepInv, history
<1>12. ColorInv'
  <2>1. \A u \in nodes' : \A v \in adjacency'[u] :
          phys_reg'[u] # NoReg => phys_reg'[u] # phys_reg'[v]
    <3> SUFFICES ASSUME NEW u \in nodes', NEW v \in adjacency'[u],
                        phys_reg[u] # NoReg
                 PROVE  phys_reg[u] # phys_reg[v]
      BY <1>4
    <3>1. u \in Node /\ v \in Node
      BY <1>7
    <3>2. u \in precolored
      BY <3>1, <1>0 DEF IInv, ColorInv
    <3>3. CASE v \notin precolored
      BY <3>1, <3>3, <1>0 DEF IInv, ColorInv
    <3>4. CASE v \in adjacency[u]
      BY <3>2, <3>4 DEF IInv, ColorInv, GraphInv
    <3> QED
      BY <1>9, <3>1, <3>2, <3>3, <3>4
  <2>2. /\ phase' = phase /\ active_nodes' = active_nodes /\ stack' = stack
        /\ precolored' = precolored /\ phys_reg' = phys_reg /\ pending' = pending
        /\ coalesced' = coalesced /\ rep' = rep
    BY <1>4 DEF color, history
  <2>3. active_nodes = {} /\ stack = << >>
    BY <1>0 DEF IInv, ColorInv
  <2>4. /\ \A n \in Node \ precolored : phys_reg[n] = NoReg
        /\ \A n \in pending : coalesced[n] # NoNode
        /\ \A n \in Node : phys_reg[n] \in {NoReg, phys_reg[rep[n]]}
    BY <1>0 DEF IInv, ColorInv
  <2> QED
    BY <1>0, <2>1, <2>2, <2>3, <2>4 DEF ColorInv
<1> QED
  BY <1>8, <1>10, <1>11, <1>12 DEF IInv

\* An instruction leaves an edge for each conflict it is part of, and the live
\* set it leaves is exact.
LEMMA VisitAllocInv ==
  ASSUME AllocInv, VisitInstruction
  PROVE  AllocInv'
<1> DEFINE ins == Ins(block, pos)
<1>0. /\ at = "walk" /\ phase = "build" /\ prog \in Programs /\ block \in Block
      /\ pos \in 1 .. Len(prog.code[block])
      /\ live = LiveAfter(prog, block, pos)
  BY DEF VisitInstruction, AllocInv, ControlInv, Size
<1>1. /\ ins.use \subseteq Node /\ live \subseteq Node
      /\ ins = prog.code[block][pos] /\ Len(prog.code[block]) \in Nat
  BY <1>0, InstrFacts DEF Ins, LiveAfter
<1>2. /\ live' = Generated(ins)
      /\ call_live' = IF ins.kind = "call" THEN call_live \cup Killed(ins)
                      ELSE call_live
      /\ adjacency' = IF ins.def \in Node THEN AddEdges(ins.def, Neighbors(ins))
                      ELSE adjacency
      /\ pos' = pos - 1
      /\ UNCHANGED <<phase, precolored, phys_reg, prog, at, block, holds,
                     interference>>
  BY DEF VisitInstruction, history
<1>3. IInv'
  BY VisitIInv DEF AllocInv
<1>5. live' = LiveAfter(prog, block, pos')
  BY <1>0, <1>1, <1>2, LiveBefore DEF Generated, Killed
<1> HIDE DEF ins
<1>6. ControlInv'
  <2>1. call_live' \subseteq Node
    BY <1>1, <1>2 DEF AllocInv, ControlInv, Killed
  <2>2. pos' \in 0 .. Size(block)' + 1 /\ pos' <= Size(block)'
    BY <1>0, <1>1, <1>2 DEF Size
  <2> QED
    BY <1>0, <1>2, <1>5, <2>1, <2>2 DEF AllocInv, ControlInv
<1>7. EdgeInv'
  <2>1. ASSUME NEW b \in Block, NEW i \in 1 .. Size(b), NEW u \in Node, NEW v \in Node,
               Conflict(prog, b, i, u, v), b < block \/ (b = block /\ i > pos')
        PROVE  v \in adjacency'[u]
    <3>1. adjacency[u] \subseteq adjacency'[u]
      BY <1>2 DEF AddEdges
    <3>2. CASE b < block \/ (b = block /\ i > pos)
      <4>1. v \in adjacency[u]
        BY <1>0, <2>1, <3>2 DEF AllocInv, EdgeInv, Passed
      <4> QED
        BY <3>1, <4>1
    <3>3. CASE b = block /\ i = pos
      <4>1. ins.def = u /\ v # u /\ v \in live /\ ~(ins.kind = "move" /\ v \in ins.use)
        BY <1>0, <1>1, <2>1, <3>3 DEF Conflict
      <4>2. v \in Neighbors(ins)
        BY <4>1 DEF Neighbors, Generated, Killed
      <4> QED
        BY <1>2, <4>1, <4>2 DEF AddEdges
    <3>4. i \in Int /\ pos \in Int
      BY <1>0, <1>1
    <3> QED
      BY <1>2, <2>1, <3>2, <3>3, <3>4
  <2>2. Size(block)' = Size(block) /\ \A b \in Block : Size(b)' = Size(b)
    BY <1>2 DEF Size
  <2> QED
    BY <1>0, <1>2, <2>1, <2>2 DEF EdgeInv, Passed
<1>8. CrossInv'
  <2> SUFFICES ASSUME NEW b \in Block, NEW i \in 1 .. Size(b),
                      Ins(b, i).kind = "call", b < block \/ (b = block /\ i > pos')
               PROVE  LiveAfter(prog, b, i) \ {Ins(b, i).def} \subseteq call_live'
    BY <1>0, <1>2 DEF CrossInv, Passed, Size, Ins
  <2>1. CASE b < block \/ (b = block /\ i > pos)
    <3>1. LiveAfter(prog, b, i) \ {Ins(b, i).def} \subseteq call_live
      BY <1>0, <2>1 DEF AllocInv, CrossInv, Passed
    <3> QED
      BY <1>2, <3>1
  <2>2. CASE b = block /\ i = pos
    BY <1>0, <1>2, <2>2 DEF Killed, ins
  <2>3. i \in Int /\ pos \in Int
    BY <1>0, <1>1
  <2> QED
    BY <1>2, <2>1, <2>2, <2>3
<1>9. ExecutionInv'
  BY <1>0, <1>2 DEF ExecutionInv
<1> QED
  BY <1>3, <1>6, <1>7, <1>8, <1>9 DEF AllocInv

\* A step that leaves the engine alone leaves its invariant alone.
LEMMA EngineUnchanged ==
  ASSUME IInv, UNCHANGED vars
  PROVE  /\ IInv'
         /\ UNCHANGED <<phase, precolored, phys_reg, adjacency, interference,
                        call_crossing_vars>>
<1>1. IInv'
  BY NextIInv
<1>2. UNCHANGED <<phase, precolored, phys_reg, adjacency, interference,
                  call_crossing_vars>>
  BY DEF vars, graph, history
<1> QED
  BY <1>1, <1>2

\* The walk moves on to the next block, or ends with every block passed.
LEMMA NextBlockAllocInv ==
  ASSUME AllocInv, NextBlock
  PROVE  AllocInv'
<1>0. /\ at = "walk" /\ pos = 0 /\ phase = "build" /\ prog \in Programs
      /\ block \in Block /\ NumBlocks \in Nat
      /\ UNCHANGED <<vars, prog, call_live, holds>>
      /\ UNCHANGED <<phase, precolored, phys_reg, adjacency, interference>>
  <2>1. /\ at = "walk" /\ pos = 0
        /\ vars' = vars /\ UNCHANGED <<prog, call_live, holds>>
    BY DEF NextBlock
  <2>2. UNCHANGED <<phase, precolored, phys_reg, adjacency, interference>>
    BY <2>1 DEF vars, graph, history
  <2>3. phase = "build" /\ prog \in Programs /\ block \in Block
    BY <2>1 DEF AllocInv, ControlInv
  <2> QED
    BY <2>1, <2>2, <2>3, BlockAssumption
<1>1. IInv'
  BY <1>0, EngineUnchanged DEF AllocInv
<1>2. \A b \in Block : Size(b) \in Nat /\ Size(b)' = Size(b)
  BY <1>0, InstrFacts DEF Size
<1>3. ControlInv'
  <2>1. CASE block < NumBlocks
    <3>1. /\ block' = block + 1 /\ pos' = Size(block + 1) /\ at' = at
          /\ live' = prog.out[block + 1]
      BY <2>1 DEF NextBlock
    <3>2. block' \in Block
      BY <1>0, <2>1, <3>1 DEF Block
    <3>3. pos' = Size(block)'
      BY <1>0, <3>1 DEF Size
    <3>4. live' = LiveAfter(prog', block', pos')
      BY <1>0, <3>1, <3>2, LiveAtEnd DEF Size
    <3>5. pos' \in 0 .. Size(block)' + 1 /\ pos' <= Size(block)'
      BY <1>0, <3>1, <3>2, <3>3, <1>2
    <3> QED
      BY <1>0, <3>1, <3>2, <3>4, <3>5 DEF AllocInv, ControlInv
  <2>2. CASE ~(block < NumBlocks)
    <3>1. block' = block /\ pos' = pos /\ at' = "prune"
      BY <2>2 DEF NextBlock
    <3> QED
      BY <1>0, <1>2, <3>1 DEF AllocInv, ControlInv, Size
  <2> QED
    BY <2>1, <2>2
<1>4. EdgeInv' /\ CrossInv'
  <2>1. ASSUME NEW b \in Block, NEW i \in 1 .. Size(b), Passed(b, i)'
        PROVE  Passed(b, i)
    <3>1. b \in Int /\ block \in Int /\ i > pos
      BY <1>0, <1>2 DEF Block
    <3>2. at' = "walk" => b < block + 1 \/ (b = block + 1 /\ i > Size(block + 1))
      <4>1. at' = "walk" => block' = block + 1 /\ pos' = Size(block + 1)
        <5>1. CASE block < NumBlocks
          BY <5>1 DEF NextBlock
        <5>2. CASE ~(block < NumBlocks)
          BY <5>2 DEF NextBlock
        <5> QED
          BY <5>1, <5>2
      <4>2. at' = "walk" => b < block' \/ (b = block' /\ i > pos')
        BY <2>1 DEF Passed
      <4> QED
        BY <4>1, <4>2
    <3>3. at' # "walk" => b <= block
      <4>1. at' # "walk" => ~(block < NumBlocks)
        BY <1>0 DEF NextBlock
      <4>2. b <= NumBlocks
        BY DEF Block
      <4> QED
        BY <1>0, <3>1, <4>1, <4>2
    <3>4. ~(b = block + 1 /\ i > Size(block + 1))
      BY <1>2
    <3> QED
      BY <3>1, <3>2, <3>3, <3>4 DEF Passed
  <2>2. EdgeInv'
    BY <1>0, <1>2, <2>1 DEF AllocInv, EdgeInv
  <2>3. at' \in {"walk", "prune"}
    BY DEF NextBlock
  <2>4. CrossInv'
    BY <1>0, <1>2, <2>1, <2>3 DEF AllocInv, CrossInv, Ins
  <2> QED
    BY <2>2, <2>4
<1>5. ExecutionInv'
  BY <1>0 DEF ExecutionInv, NextBlock
<1> QED
  BY <1>1, <1>3, <1>4, <1>5 DEF AllocInv

\* The deletion of edges keeps the graph symmetric, and no conflict is among
\* what it deletes from a function whose pruned edges are spurious.
LEMMA PruneAllocInv ==
  ASSUME AllocInv, Prune, SpuriousOnly(prog)
  PROVE  AllocInv'
<1>0. /\ at = "prune" /\ phase = "build" /\ prog \in Programs /\ at' = "cross"
      /\ adjacency' = [n \in Node |->
            {m \in adjacency[n] : /\ <<n, m>> \notin Pruned(prog)
                                  /\ <<m, n>> \notin Pruned(prog)}]
      /\ UNCHANGED <<phase, nodes, precolored, phys_reg, weight, move_pairs,
                     call_crossing_vars, coalesced, cursor, color, pending,
                     history, prog, block, pos, holds, live, call_live>>
  BY DEF Prune, AllocInv, ControlInv, machine
<1>1. UNCHANGED <<adj, active_nodes, worklist, spill_degree, stack, spilled,
                  interference, rep>>
  BY <1>0 DEF color, history
<1>2. /\ adjacency' \in [Node -> SUBSET Node]
      /\ \A u \in Node : adjacency'[u] \subseteq adjacency[u]
      /\ \A u \in Node : \A v \in adjacency'[u] : u \in adjacency'[v]
  <2>1. adjacency \in [Node -> SUBSET Node]
    BY DEF AllocInv, IInv, TypeOK
  <2>2. \A u \in Node : \A v \in adjacency[u] : u \in adjacency[v]
    BY DEF AllocInv, IInv, GraphInv
  <2> QED
    BY <1>0, <2>1, <2>2
<1>3. IInv'
  <2>1. TypeOK'
    BY <1>0, <1>1, <1>2 DEF AllocInv, IInv, TypeOK
  <2>2. GraphInv'
    BY <1>0, <1>2 DEF AllocInv, IInv, GraphInv
  <2>3. RepInv'
    BY <1>0, <1>1, <1>2 DEF AllocInv, IInv, RepInv
  <2>4. ColorInv'
    <3>1. nodes \subseteq Node
      BY DEF AllocInv, IInv, TypeOK
    <3>2. \A u \in nodes : \A v \in adjacency'[u] :
            phys_reg[u] # NoReg => phys_reg[u] # phys_reg[v]
      BY <1>2, <3>1 DEF AllocInv, IInv, ColorInv
    <3> QED
      BY <1>0, <1>1, <3>2 DEF AllocInv, IInv, ColorInv
  <2> QED
    BY <2>1, <2>2, <2>3, <2>4 DEF IInv
<1>4. CrossInv'
  BY <1>0 DEF AllocInv, CrossInv, Passed, Size, Ins
<1>5. ControlInv'
  BY <1>0 DEF AllocInv, ControlInv, Size
<1>6. EdgeInv'
  <2> SUFFICES ASSUME NEW b \in Block, NEW i \in 1 .. Size(b), NEW u \in Node,
                      NEW v \in Node, Conflict(prog, b, i, u, v)
               PROVE  v \in adjacency'[u]
    BY <1>0 DEF EdgeInv, Size
  <2>1. v \in adjacency[u]
    BY <1>0 DEF AllocInv, EdgeInv, Passed
  <2>2. Interferes(prog, u, v)
    BY DEF Interferes, Size
  <2>3. <<u, v>> \notin Pruned(prog) /\ <<v, u>> \notin Pruned(prog)
    BY <2>2 DEF SpuriousOnly
  <2> QED
    BY <1>0, <2>1, <2>3
<1>7. ExecutionInv'
  BY <1>0 DEF ExecutionInv
<1> QED
  BY <1>3, <1>4, <1>5, <1>6, <1>7 DEF AllocInv

\* The call-crossing variables are recorded.
LEMMA CrossCallsAllocInv ==
  ASSUME AllocInv, CrossCalls
  PROVE  AllocInv'
<1>0. /\ at = "cross" /\ phase = "build" /\ at' = "color"
      /\ call_crossing_vars' = call_live /\ call_live \subseteq Node
      /\ UNCHANGED <<phase, nodes, adjacency, precolored, phys_reg, weight,
                     move_pairs, coalesced, cursor, color, pending, history,
                     prog, block, pos, holds, live, call_live>>
  BY DEF CrossCalls, AllocInv, ControlInv, machine
<1>1. UNCHANGED <<adj, active_nodes, worklist, spill_degree, stack, spilled,
                  interference, rep>>
  BY <1>0 DEF color, history
<1>2. IInv'
  <2>1. TypeOK'
    BY <1>0, <1>1 DEF AllocInv, IInv, TypeOK
  <2>2. GraphInv'
    BY <1>0 DEF AllocInv, IInv, GraphInv
  <2>3. RepInv'
    BY <1>0, <1>1 DEF AllocInv, IInv, RepInv
  <2>4. ColorInv'
    BY <1>0, <1>1 DEF AllocInv, IInv, ColorInv
  <2> QED
    BY <2>1, <2>2, <2>3, <2>4 DEF IInv
<1>3. CrossInv'
  BY <1>0 DEF AllocInv, CrossInv, Passed, Size, Ins
<1>4. ControlInv'
  BY <1>0 DEF AllocInv, ControlInv, Size
<1>5. EdgeInv'
  BY <1>0, <1>1 DEF AllocInv, EdgeInv, Passed, Size
<1>6. ExecutionInv'
  BY <1>0 DEF ExecutionInv
<1> QED
  BY <1>2, <1>3, <1>4, <1>5, <1>6 DEF AllocInv

\* What Coalesce and Color leave alone: the edges they were given.
LEMMA RunGraph ==
  ASSUME Run
  PROVE  /\ phase # "done" /\ phase' # "build"
         /\ UNCHANGED <<precolored, call_crossing_vars>>
         /\ interference' = IF phase = "build" THEN adjacency ELSE interference
<1> USE DEF graph, color, history
<1>1. CASE StartCoalesce
  BY <1>1 DEF StartCoalesce
<1>2. CASE CoalesceMerge \/ CoalesceSkip
  BY <1>2 DEF CoalesceMerge, CoalesceSkip
<1>3. CASE StartColor \/ EndSimplify
  BY <1>3 DEF StartColor, EndSimplify
<1>4. ASSUME NEW n \in Node, Simplify(n) \/ Spill(n)
      PROVE  /\ phase # "done" /\ phase' # "build"
             /\ UNCHANGED <<precolored, call_crossing_vars>>
             /\ interference' = IF phase = "build" THEN adjacency ELSE interference
  BY <1>4 DEF Simplify, Spill
<1>5. CASE Select
  BY <1>5 DEF Select
<1>6. CASE EndSelect \/ Finish
  BY <1>6 DEF EndSelect, Finish
<1>7. ASSUME NEW n \in Node, Propagate(n)
      PROVE  /\ phase # "done" /\ phase' # "build"
             /\ UNCHANGED <<precolored, call_crossing_vars>>
             /\ interference' = IF phase = "build" THEN adjacency ELSE interference
  BY <1>7 DEF Propagate
<1> QED
  BY <1>1, <1>2, <1>3, <1>4, <1>5, <1>6, <1>7 DEF Run

\* Coalesce and Color take over the edges.
LEMMA AllocateAllocInv ==
  ASSUME AllocInv, Allocate
  PROVE  AllocInv'
<1>0. /\ at = "color" /\ Run /\ UNCHANGED <<prog, at, block, pos, holds, live, call_live>>
      /\ prog \in Programs
  BY DEF Allocate, walk, machine, AllocInv, ControlInv
<1>1. IInv'
  <2>1. Next
    BY <1>0 DEF Next
  <2> QED
    BY <2>1, NextIInv DEF AllocInv
<1>2. CrossInv'
  <2>1. UNCHANGED call_crossing_vars
    BY <1>0, RunGraph
  <2> QED
    BY <1>0, <2>1 DEF AllocInv, CrossInv, Passed, Size, Ins
<1>3. /\ phase # "done" /\ phase' # "build"
      /\ UNCHANGED <<precolored, call_crossing_vars>>
      /\ interference' = IF phase = "build" THEN adjacency ELSE interference
  BY <1>0, RunGraph
<1>4. ControlInv'
  <2>1. \A n \in precolored : phys_reg'[n] = phys_reg[n]
    BY <1>0, RunKeepsParameters DEF AllocInv
  <2> QED
    BY <1>0, <1>3, <2>1 DEF AllocInv, ControlInv, Size
<1>5. EdgeInv'
  BY <1>0, <1>3 DEF AllocInv, EdgeInv, Passed, Size
<1>6. ExecutionInv'
  BY <1>0 DEF ExecutionInv
<1> QED
  BY <1>1, <1>2, <1>4, <1>5, <1>6 DEF AllocInv

\* The execution leaves the allocation alone.
LEMMA Executing ==
  ASSUME AllocInv, UNCHANGED <<vars, prog, live, call_live>>,
         at \in {"color", "execute"}, at' = "execute"
  PROVE  /\ IInv' /\ EdgeInv' /\ CrossInv'
         /\ UNCHANGED <<phase, precolored, phys_reg, interference>>
         /\ CallCrossingAvoidsT5' = CallCrossingAvoidsT5
<1>1. /\ IInv'
      /\ UNCHANGED <<phase, precolored, phys_reg, adjacency, interference,
                     call_crossing_vars>>
  BY EngineUnchanged DEF AllocInv
<1>2. EdgeInv'
  BY <1>1 DEF AllocInv, EdgeInv, Passed, Size
<1>3. CrossInv'
  BY <1>1 DEF AllocInv, CrossInv, Passed, Size, Ins
<1>4. CallCrossingAvoidsT5' = CallCrossingAvoidsT5
  BY <1>1 DEF CallCrossingAvoidsT5
<1> QED
  BY <1>1, <1>2, <1>3, <1>4

\* At the entry only parameters are live, and they are in their registers.
LEMMA StartAllocInv ==
  ASSUME AllocInv, StartExecution
  PROVE  AllocInv'
<1>0. /\ at = "color" /\ phase = "done" /\ at' = "execute" /\ block' = 1 /\ pos' = 1
      /\ holds' = [r \in Reg |-> {n \in DOMAIN prog.params : prog.params[n] = r}]
      /\ UNCHANGED <<vars, prog, live, call_live>> /\ prog' = prog
      /\ prog \in Programs /\ 1 \in Block
  BY BlockAssumption DEF StartExecution, AllocInv, ControlInv, Block
<1>1. /\ IInv' /\ EdgeInv' /\ CrossInv'
      /\ UNCHANGED <<phase, precolored, phys_reg, interference>>
      /\ CallCrossingAvoidsT5' = CallCrossingAvoidsT5
  BY <1>0, Executing
<1>2. /\ DOMAIN prog.params \subseteq Node
      /\ \A n \in DOMAIN prog.params : prog.params[n] \in Reg
      /\ Len(prog.code[1]) \in Nat
  BY <1>0, ParamFacts, InstrFacts
<1>3. ControlInv'
  <2>1. holds' \in [Reg -> SUBSET Node]
    BY <1>0, <1>2
  <2>2. pos' \in 0 .. Size(block)' + 1
    BY <1>0, <1>2 DEF Size
  <2>3. 1 \in prog.reach
    BY <1>0, ProgramAssumption DEF WellFormed
  <2> QED
    BY <1>0, <1>1, <2>1, <2>2, <2>3 DEF AllocInv, ControlInv
<1>4. ExecutionInv'
  <2>1. LiveAfter(prog, 1, 0) \subseteq DOMAIN prog.params
    BY <1>0, LiveAtStart, ProgramAssumption DEF WellFormed
  <2>2. \A n \in DOMAIN prog.params : phys_reg[n] = prog.params[n]
    BY DEF AllocInv, ControlInv
  <2>3. \A v \in LiveAfter(prog, 1, 0) : v \in holds'[phys_reg[v]]
    BY <1>0, <1>2, <2>1, <2>2
  <2> QED
    BY <1>0, <1>1, <2>3 DEF ExecutionInv
<1> QED
  BY <1>1, <1>3, <1>4 DEF AllocInv

\* An executed instruction overwrites no value that is still needed.
LEMMA StepAllocInv ==
  ASSUME AllocInv, Step
  PROVE  AllocInv'
<1> DEFINE ins == Ins(block, pos)
<1>0. /\ at = "execute" /\ phase = "done" /\ prog \in Programs /\ block \in Block
      /\ pos \in 1 .. Len(prog.code[block]) /\ Len(prog.code[block]) \in Nat
      /\ holds' = After(ins) /\ pos' = pos + 1
      /\ UNCHANGED <<vars, prog, live, call_live>>
      /\ prog' = prog /\ at' = at /\ block' = block /\ call_live' = call_live
  <2>1. /\ at = "execute" /\ phase = "done" /\ prog \in Programs /\ block \in Block
        /\ pos <= Len(prog.code[block]) /\ pos \in 0 .. Size(block) + 1 /\ pos > 0
    BY DEF Step, AllocInv, ControlInv, Size
  <2>2. Len(prog.code[block]) \in Nat
    BY <2>1, InstrFacts
  <2>3. pos \in 1 .. Len(prog.code[block])
    BY <2>1, <2>2 DEF Size
  <2>4. /\ holds' = After(ins) /\ pos' = pos + 1
        /\ UNCHANGED <<vars, prog, live, call_live>>
        /\ prog' = prog /\ at' = at /\ block' = block /\ call_live' = call_live
    BY DEF Step
  <2> QED
    BY <2>1, <2>2, <2>3, <2>4
<1>1. /\ IInv' /\ EdgeInv' /\ CrossInv'
      /\ UNCHANGED <<phase, precolored, phys_reg, interference>>
      /\ CallCrossingAvoidsT5' = CallCrossingAvoidsT5
  BY <1>0, Executing
<1>2. /\ ins = prog.code[block][pos]
      /\ ins.use \subseteq Node
      /\ LiveAfter(prog, block, pos - 1)
           = (LiveAfter(prog, block, pos) \ {ins.def}) \cup ins.use
  BY <1>0, InstrFacts, LiveBefore DEF Ins
<1>3. /\ phys_reg \in [Node -> Reg \cup {NoReg}]
      /\ holds \in [Reg -> SUBSET Node]
  BY DEF AllocInv, IInv, TypeOK, ControlInv
<1> HIDE DEF ins
<1>4. ControlInv'
  <2>1. holds' \in [Reg -> SUBSET Node]
    BY <1>0, <1>3 DEF After
  <2>2. pos' \in 0 .. Size(block)' + 1 /\ pos' > 0
    BY <1>0 DEF Size
  <2> QED
    BY <1>0, <1>1, <2>1, <2>2 DEF AllocInv, ControlInv
<1>5. ASSUME NEW v \in LiveAfter(prog, block, pos), phys_reg[v] # NoReg,
             CallCrossingAvoidsT5
      PROVE  v \in After(ins)[phys_reg[v]]
  <2> DEFINE r == phys_reg[v]
  <2>1. v \in Node /\ r \in Reg
    <3>1. v \in Node
      BY DEF LiveAfter
    <3> QED
      BY <1>3, <1>5, <3>1
  <2>a. ins.kind = "call" /\ v # ins.def => r # T5
    <3> SUFFICES ASSUME ins.kind = "call", v # ins.def PROVE r # T5
      OBVIOUS
    <3>1. v \in call_crossing_vars
      BY <1>0, <1>5 DEF AllocInv, CrossInv, Passed, Size, ins
    <3> QED
      BY <1>5, <3>1 DEF CallCrossingAvoidsT5
  <2>2. v # ins.def => After(ins)[r] =
          IF ins.def \notin Node \/ phys_reg[ins.def] # r THEN holds[r] \ {ins.def}
          ELSE IF ins.kind = "move" /\ \E w \in ins.use : phys_reg[w] = r
               THEN (holds[r] \ {ins.def}) \cup {ins.def}
          ELSE {ins.def}
    BY <2>1, <2>a DEF After
  <2> HIDE DEF r
  <2>3. CASE v = ins.def
    BY <2>1, <2>3 DEF After, r
  <2>4. CASE v # ins.def
    <3>1. v \in holds[r]
      BY <1>0, <1>2, <1>5, <2>4 DEF AllocInv, ExecutionInv, r
    <3>2. CASE ins.def \notin Node \/ phys_reg[ins.def] # r
      BY <2>2, <2>4, <3>1, <3>2 DEF r
    <3>3. CASE ins.kind = "move" /\ \E w \in ins.use : phys_reg[w] = r
      BY <2>2, <2>4, <3>1, <3>3 DEF r
    <3>4. CASE /\ ins.def \in Node /\ phys_reg[ins.def] = r
               /\ ~(ins.kind = "move" /\ \E w \in ins.use : phys_reg[w] = r)
      <4>1. Conflict(prog, block, pos, ins.def, v)
        BY <1>2, <1>5, <2>4, <3>4 DEF Conflict, r
      <4>2. v \in interference[ins.def]
        BY <1>0, <2>1, <3>4, <4>1 DEF AllocInv, EdgeInv, Size
      <4>3. ProperColoring
        BY IInvProper DEF AllocInv
      <4>4. phys_reg[ins.def] # phys_reg[v]
        BY <1>5, <3>4, <4>2, <4>3 DEF ProperColoring, r
      <4> QED
        BY <3>4, <4>4 DEF r
    <3> QED
      BY <3>2, <3>3, <3>4
  <2> QED
    BY <2>3, <2>4
<1>6. ExecutionInv'
  <2>1. pos' - 1 = pos
    BY <1>0
  <2> QED
    BY <1>0, <1>1, <1>5, <2>1 DEF ExecutionInv
<1> QED
  BY <1>1, <1>4, <1>6 DEF AllocInv

\* What a successor needs was live at the end of the block.
LEMMA GotoAllocInv ==
  ASSUME AllocInv, NEW b \in Block, Goto(b)
  PROVE  AllocInv'
<1>0. /\ at = "execute" /\ phase = "done" /\ prog \in Programs /\ block \in Block
      /\ pos \in 0 .. Size(block) + 1 /\ pos > Size(block)
      /\ b \in prog.succs[block] /\ block' = b /\ pos' = 1
      /\ UNCHANGED <<vars, prog, live, call_live>>
      /\ prog' = prog /\ at' = at /\ holds' = holds /\ call_live' = call_live
  BY DEF Goto, AllocInv, ControlInv
<1>1. /\ IInv' /\ EdgeInv' /\ CrossInv'
      /\ UNCHANGED <<phase, precolored, phys_reg, interference>>
      /\ CallCrossingAvoidsT5' = CallCrossingAvoidsT5
  BY <1>0, Executing
<1>2. /\ \A c \in Block : Len(prog.code[c]) \in Nat
      /\ block \in prog.reach /\ b \in prog.reach
  <2>1. \A c \in Block : Len(prog.code[c]) \in Nat
    BY <1>0, InstrFacts
  <2>2. block \in prog.reach
    BY <1>0 DEF AllocInv, ControlInv
  <2>3. prog.succs[block] \subseteq prog.reach
    BY <1>0, <2>2, ProgramAssumption DEF WellFormed
  <2> QED
    BY <1>0, <2>1, <2>2, <2>3
<1>3. ControlInv'
  <2>1. pos' \in 0 .. Size(block)' + 1
    BY <1>0, <1>2 DEF Size
  <2> QED
    BY <1>0, <1>1, <1>2, <2>1 DEF AllocInv, ControlInv
<1>4. LiveAfter(prog, b, 0) \subseteq LiveAfter(prog, block, pos - 1)
  <2>1. pos - 1 = Len(prog.code[block])
    BY <1>0, <1>2 DEF Size
  <2>2. LiveAfter(prog, block, pos - 1) = prog.out[block]
    BY <1>0, <2>1, LiveAtEnd
  <2>3. prog.out[block] = UNION {LiveInOf(prog, s) : s \in prog.succs[block]}
    BY <1>0, <1>2, ProgramAssumption DEF WellFormed
  <2>4. LiveAfter(prog, b, 0) = LiveInOf(prog, b)
    BY <1>0, LiveAtStart
  <2> QED
    BY <1>0, <2>2, <2>3, <2>4
<1>5. ExecutionInv'
  <2>1. pos' - 1 = 0
    BY <1>0
  <2> QED
    BY <1>0, <1>1, <1>4, <2>1 DEF AllocInv, ExecutionInv
<1> QED
  BY <1>1, <1>3, <1>5 DEF AllocInv

\* Every step preserves the invariant.
LEMMA NextAllocInv ==
  ASSUME \A p \in Programs : SpuriousOnly(p),
         AllocInv, [NextRegAlloc]_allvars
  PROVE  AllocInv'
<1>1. CASE Prune
  <2>1. SpuriousOnly(prog)
    BY DEF AllocInv, ControlInv
  <2> QED
    BY <1>1, <2>1, PruneAllocInv
<1>2. CASE Step
  BY <1>2, StepAllocInv
<1>3. CASE VisitInstruction \/ NextBlock \/ CrossCalls
  BY <1>3, VisitAllocInv, NextBlockAllocInv, CrossCallsAllocInv
<1>4. CASE Allocate \/ StartExecution
  BY <1>4, AllocateAllocInv, StartAllocInv
<1>5. CASE \E b \in Block : Goto(b)
  BY <1>5, GotoAllocInv
<1>6. CASE UNCHANGED allvars
  <2>1. /\ UNCHANGED <<vars, prog, live, call_live>>
        /\ UNCHANGED <<prog, at, block, pos, holds, live, call_live>>
    BY <1>6 DEF allvars, walk, machine
  <2>2. /\ IInv'
        /\ UNCHANGED <<phase, precolored, phys_reg, adjacency, interference,
                       call_crossing_vars>>
    BY <2>1, EngineUnchanged DEF AllocInv
  <2>4. ControlInv' /\ ExecutionInv'
    BY <2>1, <2>2 DEF AllocInv, ControlInv, ExecutionInv, CallCrossingAvoidsT5, Size
  <2>5. EdgeInv' /\ CrossInv'
    BY <2>1, <2>2 DEF AllocInv, EdgeInv, CrossInv, Passed, Size, Ins
  <2> QED
    BY <2>2, <2>4, <2>5 DEF AllocInv
<1> QED
  BY <1>1, <1>2, <1>3, <1>4, <1>5, <1>6 DEF NextRegAlloc, Return

\* What is still needed includes what the next instruction reads.
LEMMA AllocInvReads == AllocInv => AllocationSound
<1> SUFFICES ASSUME AllocInv, CallCrossingAvoidsT5, at = "execute", pos <= Size(block),
                    NEW v \in Ins(block, pos).use, phys_reg[v] # NoReg
             PROVE  v \in holds[phys_reg[v]]
  BY DEF AllocationSound, ReadsLastWrite
<1>1. /\ prog \in Programs /\ block \in Block /\ pos \in 0 .. Size(block) + 1
      /\ pos > 0
  BY DEF AllocInv, ControlInv
<1>2. pos \in 1 .. Len(prog.code[block])
  BY <1>1, InstrFacts DEF Size
<1>3. v \in LiveAfter(prog, block, pos - 1)
  BY <1>1, <1>2, LiveBefore DEF Ins
<1> QED
  BY <1>3 DEF AllocInv, ExecutionInv

\* The inductive invariant holds throughout, for every function whose pruned
\* edges are spurious, every pool and every iteration order.
THEOREM AllocInductive ==
  ASSUME \A p \in Programs : SpuriousOnly(p)
  PROVE  SpecRegAlloc => []AllocInv
<1>1. AllocInv /\ [NextRegAlloc]_allvars => AllocInv'
  BY NextAllocInv
<1> QED
  BY InitAllocInv, <1>1, PTL DEF SpecRegAlloc

\* Under the same hypothesis, and if t5 is kept from the variables that cross
\* calls, an executed instruction reads, from the register the allocator chose,
\* the value last written to the variable.
THEOREM AllocationCorrect ==
  ASSUME \A p \in Programs : SpuriousOnly(p)
  PROVE  SpecRegAlloc => []AllocationSound
<1> QED
  BY AllocInductive, AllocInvReads, PTL

\* The live set of the backward walk is exact at every instruction, whatever is
\* pruned and whatever the pool.
THEOREM WalkIsExact == SpecRegAlloc => []WalkExact
<1> DEFINE WalkInv == /\ prog \in Programs /\ block \in Block
                      /\ at = "walk" => pos \in 0 .. Size(block) /\ WalkExact
<1>1. InitRegAlloc => WalkInv
  <2> SUFFICES ASSUME InitRegAlloc PROVE WalkInv
    OBVIOUS
  <2>1. prog \in Programs /\ block = 1 /\ 1 \in Block /\ pos = Size(1) /\ live = prog.out[1]
    BY BlockAssumption DEF InitRegAlloc, Block
  <2>2. Size(1) \in Nat /\ prog.out[1] = LiveAfter(prog, 1, Size(1))
    BY <2>1, InstrFacts, LiveAtEnd DEF Size
  <2> QED
    BY <2>1, <2>2 DEF WalkExact
<1>2. WalkInv /\ [NextRegAlloc]_allvars => WalkInv'
  <2> SUFFICES ASSUME WalkInv, [NextRegAlloc]_allvars PROVE WalkInv'
    OBVIOUS
  <2>0. \A b \in Block : Size(b) \in Nat
    BY InstrFacts DEF Size
  <2>1. CASE VisitInstruction
    <3>1. /\ prog' = prog /\ block' = block /\ pos' = pos - 1 /\ pos \in 1 .. Size(block)
          /\ live' = (live \ {Ins(block, pos).def}) \cup Ins(block, pos).use
          /\ live = LiveAfter(prog, block, pos)
      BY <2>1, <2>0 DEF VisitInstruction, Generated, Killed, WalkExact
    <3>2. live' = LiveAfter(prog', block', pos')
      BY <3>1, LiveBefore DEF Ins, Size
    <3>3. pos' \in 0 .. Size(block)'
      BY <3>1, <2>0 DEF Size
    <3> QED
      BY <3>1, <3>2, <3>3 DEF WalkExact
  <2>2. CASE NextBlock
    <3>1. CASE block < NumBlocks
      <4>1. /\ prog' = prog /\ block' = block + 1 /\ pos' = Size(block + 1)
            /\ live' = prog.out[block + 1]
        BY <2>2, <3>1 DEF NextBlock
      <4>2. block' \in Block
        BY <3>1, <4>1, BlockAssumption DEF Block
      <4>3. Size(block)' = pos' /\ pos' \in 0 .. pos'
        BY <2>0, <4>1, <4>2 DEF Size
      <4>4. live' = LiveAfter(prog', block', pos')
        BY <4>1, <4>2, LiveAtEnd DEF Size
      <4> QED
        BY <4>1, <4>2, <4>3, <4>4 DEF WalkExact
    <3>2. CASE ~(block < NumBlocks)
      BY <2>2, <3>2 DEF NextBlock
    <3> QED
      BY <3>1, <3>2
  <2>3. CASE Prune \/ CrossCalls
    BY <2>3 DEF Prune, CrossCalls, machine
  <2>4. CASE Allocate
    BY <2>4 DEF Allocate, walk, machine
  <2>5. CASE StartExecution \/ Step
    BY <2>5, BlockAssumption DEF StartExecution, Step, Block
  <2>6. CASE \E b \in Block : Goto(b)
    BY <2>6 DEF Goto
  <2>7. CASE UNCHANGED allvars
    BY <2>7 DEF allvars, walk, machine, Size, WalkExact
  <2> QED
    BY <2>1, <2>2, <2>3, <2>4, <2>5, <2>6, <2>7 DEF NextRegAlloc, Return
<1>3. WalkInv => WalkExact
  BY DEF WalkExact
<1> QED
  BY <1>1, <1>2, <1>3, PTL DEF SpecRegAlloc
=============================================================================
