--------------------------------- MODULE SCCP ---------------------------------
(***************************************************************************)
(* Sparse conditional constant propagation                                  *)
(* (src/IR_visitor/sccp/sccp.cpp): the lattice, the two worklists of the    *)
(* fixed-point loop, and the four steps that rewrite the function.          *)
(***************************************************************************)
EXTENDS Function, ConstantFolding

VARIABLES
  lattice,         \* what is known of each variable; absent is top
  executable,      \* the blocks found executable
  flow_worklist,   \* blocks to evaluate
  ssa_worklist     \* variables whose uses are to be evaluated again

sccpVars == <<lattice, executable, flow_worklist, ssa_worklist>>

Top == <<"top", 0>>
Bottom == <<"bottom", 0>>

GetLattice(lat, x) == IF IsConstant(x) THEN x ELSE IF x \in DOMAIN lat THEN lat[x] ELSE Top

\* Mutation: two different constants meet in the first.
MeetFirst(a, b) == IF a = Top THEN b ELSE a

Meet(a, b) == IF a = Top THEN b ELSE IF b = Top \/ a = b THEN a ELSE Bottom

\* What EvalIns computes for the result of an instruction from the values of
\* its operands.
EvaluateCells(i, cell) ==
  CASE i.kind = "move" -> cell[1]
    [] Folds(i) /\ Bottom \in ToSet(cell) -> Bottom
    [] Folds(i) /\ Bottom \notin ToSet(cell) ->
         IF Top \in ToSet(cell) THEN Top ELSE Const(Fold(i, [k \in DOMAIN cell |-> cell[k][2]]))
    [] i.kind \in OpaqueKinds -> Bottom

Evaluate(lat, i) == EvaluateCells(i, [k \in DOMAIN i.use |-> GetLattice(lat, i.use[k])])

\* The meet of a sequence of cells, from the first to the last.
MeetAll(c) ==
  LET met[k \in 0 .. Len(c)] == IF k = 0 THEN Top ELSE Meet(met[k - 1], c[k])
  IN met[Len(c)]

\* Mutation: the value of the last executable predecessor counts.
EvaluatePhiLast(lat, exec, phi) ==
  FoldLeft(LAMBDA c, e : IF e[2] \in exec THEN GetLattice(lat, e[1]) ELSE c, Top, phi.val)

\* Values from predecessors that are not executable do not count.
EvaluatePhi(lat, exec, phi) ==
  MeetAll([k \in 1 .. Len(phi.val) |->
             IF phi.val[k][2] \in exec THEN GetLattice(lat, phi.val[k][1]) ELSE Top])

\* s is the state of the analysis inside a step: [lat, exec, flow, ssa].
Lower(s, x, cell) ==
  IF cell = GetLattice(s.lat, x) THEN s
  ELSE [s EXCEPT !.lat = [y \in DOMAIN s.lat \cup {x} |-> IF y = x THEN cell ELSE s.lat[y]],
                 !.ssa = Append(@, x)]

EvalPhi(s, phi) == Lower(s, phi.res, EvaluatePhi(s.lat, s.exec, phi))

\* The phis q[k] with k in K, one after the other.
EvalPhis(s, q, K) ==
  LET after[k \in 0 .. Len(q)] ==
        IF k = 0 THEN s ELSE IF k \in K THEN EvalPhi(after[k - 1], q[k]) ELSE after[k - 1]
  IN after[Len(q)]

Enter(s, t) == [s EXCEPT !.exec = @ \cup {t}, !.flow = Append(@, t)]

\* Mutation: a block that is executable already is left alone.
ReenterNot(s, t) == IF t \in s.exec THEN s ELSE Enter(s, t)

\* A new edge into a block that is executable already: its phis again.
Reenter(s, t) ==
  IF t \in s.exec THEN EvalPhis(s, blocks[t].phi, DOMAIN blocks[t].phi) ELSE Enter(s, t)

EvalBranch(s, i) ==
  LET cond == GetLattice(s.lat, i.use[1])
      taken == IF cond[2] # 0 THEN i.to[1] ELSE i.to[2]
  IN IF ~IsConstant(cond) THEN Reenter(Reenter(s, i.to[1]), i.to[2])
     ELSE IF taken \in s.exec THEN s ELSE Enter(s, taken)

EvalIns(s, i) ==
  CASE i.kind = "br" -> EvalBranch(s, i)
    [] i.kind = "jmp" -> Reenter(s, i.to[1])
    [] i.kind \notin {"br", "jmp"} ->
         IF IsTracked(i) THEN Lower(s, i.res, Evaluate(s.lat, i)) ELSE s

\* The instructions q[k] with k in K, one after the other.
EvalInss(s, q, K) ==
  LET after[k \in 0 .. Len(q)] ==
        IF k = 0 THEN s ELSE IF k \in K THEN EvalIns(after[k - 1], q[k]) ELSE after[k - 1]
  IN after[Len(q)]

\* The places of the live instructions of a block.
LivePlaces(b) == {k \in DOMAIN blocks[b].ins : ~blocks[b].ins[k].removed}

Analysis == [lat |-> lattice, exec |-> executable, flow |-> flow_worklist, ssa |-> ssa_worklist]

Commit(s) ==
  /\ lattice' = s.lat
  /\ executable' = s.exec
  /\ flow_worklist' = s.flow
  /\ ssa_worklist' = s.ssa

StartSCCP ==
  /\ phase = "sccp"
  /\ Commit([lat |-> [p \in ToSet(params) |-> Bottom], exec |-> {0}, flow |-> <<0>>, ssa |-> <<>>])
  /\ phase' = "flow"
  /\ UNCHANGED function

\* The inner loops empty one worklist before they look at the other.
EvalBlock ==
  /\ phase = "flow" /\ flow_worklist # <<>>
  /\ LET u == Head(flow_worklist)
         s == [Analysis EXCEPT !.flow = Tail(@)]
     IN Commit(EvalInss(EvalPhis(s, blocks[u].phi, DOMAIN blocks[u].phi), blocks[u].ins, LivePlaces(u)))
  /\ UNCHANGED <<function, phase>>

\* use_map: for every executable block, the instructions that read x, then its phis.
ReadingIns(b, x) == {k \in LivePlaces(b) : x \in ToSet(blocks[b].ins[k].use)}
ReadingPhis(b, x) ==
  {k \in DOMAIN blocks[b].phi : \E e \in ToSet(blocks[b].phi[k].val) : e[1] = x}

EvalUsesIn(s, b, x) ==
  IF b \notin s.exec THEN s
  ELSE EvalPhis(EvalInss(s, blocks[b].ins, ReadingIns(b, x)), blocks[b].phi, ReadingPhis(b, x))

\* The first n blocks, one after the other.
EvalUsesBefore(s, n, x) ==
  LET after[k \in 0 .. n] == IF k = 0 THEN s ELSE EvalUsesIn(after[k - 1], k - 1, x)
  IN after[n]

EvalUses ==
  /\ phase = "ssa" /\ ssa_worklist # <<>>
  /\ Commit(EvalUsesBefore([Analysis EXCEPT !.ssa = Tail(@)], Cardinality(Blocks), Head(ssa_worklist)))
  /\ UNCHANGED <<function, phase>>

SwitchWorklist ==
  /\ \/ phase = "flow" /\ flow_worklist = <<>>
     \/ phase = "ssa" /\ ssa_worklist = <<>>
  /\ phase' = IF flow_worklist = <<>> /\ ssa_worklist = <<>> THEN "constants"
              ELSE IF phase = "flow" THEN "ssa" ELSE "flow"
  /\ UNCHANGED <<function, sccpVars>>

\* Step A: constants for variables, in executable blocks.
KnownValue(x) == IF IsVariable(x) /\ IsConstant(GetLattice(lattice, x)) THEN lattice[x] ELSE x

ReplaceConstants ==
  /\ phase = "constants"
  /\ blocks' = [b \in Blocks |->
       IF b \in executable THEN ReplaceInBlock(blocks[b], KnownValue) ELSE blocks[b]]
  /\ phase' = "fold"
  /\ UNCHANGED <<params, sccpVars>>

\* Step B: the next instruction in program order that can be folded.
Foldable ==
  {p \in LivePositions(blocks) :
     /\ p[1] \in executable
     /\ Folds(At(blocks, p))
     /\ \A k \in DOMAIN At(blocks, p).use : IsConstant(At(blocks, p).use[k])}

FoldConstant ==
  /\ phase = "fold" /\ Foldable # {}
  /\ LET p == CHOOSE q \in Foldable : \A r \in Foldable \ {q} : Before(q, r)
         i == At(blocks, p)
         v == Const(Fold(i, [k \in DOMAIN i.use |-> i.use[k][2]]))
         Result(x) == IF x = i.res THEN v ELSE x
     IN blocks' = [b \in Blocks |-> ReplaceInBlock(
                     IF b = p[1] THEN [blocks[b] EXCEPT !.ins[p[2]].removed = TRUE] ELSE blocks[b], Result)]
  /\ UNCHANGED <<params, phase, sccpVars>>

\* Step C: a branch on a constant is marked removed and a jump appended.
ConvertBranch(block) ==
  LET hit == {k \in DOMAIN block.ins :
                ~block.ins[k].removed /\ block.ins[k].kind = "br" /\ IsConstant(block.ins[k].use[1])}
      k == CHOOSE n \in hit : \A m \in hit : n <= m
      i == block.ins[k]
  IN IF hit = {} THEN block
     ELSE [block EXCEPT !.ins = Append([@ EXCEPT ![k].removed = TRUE],
                                       Jump(IF i.use[1][2] # 0 THEN i.to[1] ELSE i.to[2]))]

ConvertBranches ==
  /\ phase = "fold" /\ Foldable = {}
  /\ blocks' = [b \in Blocks |-> IF b \in executable THEN ConvertBranch(blocks[b]) ELSE blocks[b]]
  /\ phase' = "dead"
  /\ UNCHANGED <<params, sccpVars>>

\* The elements of q at the places in K.
Selected(q, K) ==
  LET kept[k \in 0 .. Len(q)] ==
        IF k = 0 THEN <<>> ELSE IF k \in K THEN Append(kept[k - 1], q[k]) ELSE kept[k - 1]
  IN kept[Len(q)]

\* Step D: the other blocks are emptied, their entries leave the phis of
\* the blocks they led to.
KeptEntries(phi, b) ==
  {k \in DOMAIN phi.val : phi.val[k][2] \in executable \/ b \notin Succs(blocks[phi.val[k][2]])}

WithoutDead(phi, b) == [phi EXCEPT !.val = Selected(phi.val, KeptEntries(phi, b))]

RemoveDead ==
  /\ phase = "dead"
  /\ blocks' = [b \in Blocks |->
       IF b \in executable
       THEN [blocks[b] EXCEPT !.phi = [k \in DOMAIN blocks[b].phi |-> WithoutDead(blocks[b].phi[k], b)]]
       ELSE [phi |-> <<>>, ins |-> [k \in DOMAIN blocks[b].ins |-> [blocks[b].ins[k] EXCEPT !.removed = TRUE]]]]
  /\ phase' = "propagated"
  /\ UNCHANGED <<params, sccpVars>>

SCCPStep ==
  \/ StartSCCP \/ EvalBlock \/ EvalUses \/ SwitchWorklist
  \/ ReplaceConstants \/ FoldConstant \/ ConvertBranches \/ RemoveDead

------------------------------------------------------------------------------
\* What the passes before hand over: instructions as IR.tla describes them,
\* nothing behind a terminator, every variable defined once (SSA) and no
\* parameter defined, and no critical edges: behind every value of a phi is a
\* block that jumps to the block of the phi, or the only block that leads there.
Operand == STRING \X Int
Instruction ==
  [kind : TrackedKinds \cup {"br", "jmp", "store", "ret"}, op : STRING, uns : BOOLEAN,
   res : Operand, use : Seq(Operand), to : Seq(Blocks), removed : BOOLEAN]

LiveIns(b) == {blocks[b].ins[k] : k \in LivePlaces(b)}
AllIns == UNION {LiveIns(b) : b \in Blocks}
AllPhis == UNION {ToSet(blocks[b].phi) : b \in Blocks}
Operands(i) == CASE i.kind = "br" -> 1 [] i.kind = "move" -> 1 [] i.kind \notin {"br", "move"} -> 0
Targets(i) == CASE i.kind = "br" -> 2 [] i.kind = "jmp" -> 1 [] i.kind \notin {"br", "jmp"} -> 0

JumpsTo(c, b) == \E i \in LiveIns(c) : i.kind = "jmp" /\ i.to[1] = b
LeadsTo(c, b) ==
  JumpsTo(c, b) \/ \E i \in LiveIns(c) : i.kind = "br" /\ (i.to[1] = b \/ i.to[2] = b)

Shaped ==
  /\ Cardinality(Blocks) \in Nat \ {0} /\ Blocks = 0 .. Cardinality(Blocks) - 1
  /\ \A b \in Blocks :
       /\ blocks[b].ins \in Seq(Instruction)
       /\ blocks[b].phi \in Seq([res : Operand, val : Seq(Operand \X Blocks)])
  /\ \A b \in Blocks : blocks[b] = [phi |-> blocks[b].phi, ins |-> blocks[b].ins]
  /\ \A i \in AllIns : Len(i.use) >= Operands(i) /\ Len(i.to) >= Targets(i)

TerminatorsLast ==
  \A b \in Blocks : \A k \in LivePlaces(b) :
    IsTerminator(blocks[b].ins[k]) => \A j \in LivePlaces(b) : j <= k

DefPlaces(b) == {k \in LivePlaces(b) : IsTracked(blocks[b].ins[k])}
DefinedOnce ==
  /\ \A a, b \in Blocks : \A j \in DefPlaces(a), k \in DefPlaces(b) :
       blocks[a].ins[j].res = blocks[b].ins[k].res => a = b /\ j = k
  /\ \A i \in AllIns : Folds(i) => IsTracked(i)
  /\ \A i \in AllIns : IsTracked(i) =>
       /\ IsVariable(i.res) /\ i.res \notin ToSet(params)
       /\ \A phi \in AllPhis : phi.res # i.res

WellFormed ==
  /\ Shaped /\ TerminatorsLast /\ DefinedOnce
  /\ \A p \in ToSet(params) : IsVariable(p)
  /\ \A phi \in AllPhis :
       /\ IsVariable(phi.res) /\ phi.res \notin ToSet(params)
       /\ \A other \in AllPhis : phi.res = other.res => phi = other
  /\ \A b \in Blocks : \A phi \in ToSet(blocks[b].phi) : \A e \in ToSet(phi.val) :
       \/ JumpsTo(e[2], b)
       \/ b # 0 /\ \A c \in Blocks : LeadsTo(c, b) => c = e[2]

------------------------------------------------------------------------------
\* SCCP on any function it can be handed.
SCCPSpec ==
  /\ phase = "sccp" /\ WellFormed
  /\ [][SCCPStep]_<<function, phase, sccpVars>>

\* The analysis only goes down the lattice: a variable leaves top once and a
\* constant once, and a block found executable stays so.
Descends ==
  /\ executable \subseteq executable'
  /\ \A x \in DOMAIN lattice : Meet(lattice[x], GetLattice(lattice', x)) = GetLattice(lattice', x)

LatticeDescends == [][(phase = "flow" \/ phase = "ssa") => Descends]_<<function, phase, sccpVars>>

\* What the lattice and the executable blocks have to satisfy for a phi and for
\* an instruction: it would evaluate to nothing else, and every edge that can
\* be taken leads to an executable block.
PhiSolved(lat, exec, phi) == GetLattice(lat, phi.res) = EvaluatePhi(lat, exec, phi)
InsSolved(lat, exec, i) ==
  /\ i.kind = "br" =>
       LET cond == GetLattice(lat, i.use[1])
       IN IF IsConstant(cond) THEN i.to[IF cond[2] # 0 THEN 1 ELSE 2] \in exec
          ELSE i.to[1] \in exec /\ i.to[2] \in exec
  /\ i.kind = "jmp" => i.to[1] \in exec
  /\ IsTracked(i) => GetLattice(lat, i.res) = Evaluate(lat, i)

\* When both worklists are empty the lattice is a solution on the executable
\* blocks.
Solution ==
  phase = "constants" =>
    \A b \in executable :
      /\ \A phi \in ToSet(blocks[b].phi) : PhiSolved(lattice, executable, phi)
      /\ \A i \in LiveIns(b) : InsSolved(lattice, executable, i)

\* While the worklists are worked off: what is not solved is still to come, by
\* its own block, by a variable it reads, or, for a phi, by a block that jumps to
\* its own.
PhiCovered(s, b, phi) ==
  \/ PhiSolved(s.lat, s.exec, phi)
  \/ \E e \in ToSet(phi.val) :
       \/ e[1] \in ToSet(s.ssa)
       \/ e[2] \in ToSet(s.flow) /\ JumpsTo(e[2], b)
InsCovered(s, i) ==
  \/ InsSolved(s.lat, s.exec, i)
  \/ \E x \in ToSet(i.use) : x \in ToSet(s.ssa)
BlockCovered(s, b) ==
  \/ b \in ToSet(s.flow)
  \/ /\ \A phi \in ToSet(blocks[b].phi) : PhiCovered(s, b, phi)
     /\ \A i \in LiveIns(b) : InsCovered(s, i)

\* Nothing would evaluate to more than is known of it, so evaluating it can
\* only lower the lattice.
Below(a, b) == Meet(b, a) = a
Lowering(s) ==
  /\ \A i \in AllIns : IsTracked(i) => Below(Evaluate(s.lat, i), GetLattice(s.lat, i.res))
  /\ \A phi \in AllPhis : Below(EvaluatePhi(s.lat, s.exec, phi), GetLattice(s.lat, phi.res))

\* The names the analysis tracks, and the shape of its state.
Names == ToSet(params) \cup {i.res : i \in {j \in AllIns : IsTracked(j)}} \cup {phi.res : phi \in AllPhis}
StateOK(s) ==
  /\ DOMAIN s.lat \subseteq Names
  /\ s.exec \subseteq Blocks
  /\ \A b \in s.exec : b = 0 \/ \E c \in s.exec : LeadsTo(c, b)
  /\ s.flow \in Seq(Blocks) /\ ToSet(s.flow) \subseteq s.exec
  /\ s.ssa \in Seq(Names)

AnalysisInv(s) ==
  /\ StateOK(s)
  /\ Lowering(s)
  /\ 0 \in s.exec /\ \A p \in ToSet(params) : GetLattice(s.lat, p) = Bottom
  /\ \A b \in s.exec : BlockCovered(s, b)

\* The fixed-point loop keeps what its result and its end rest on: it is handed a
\* function in SSA form without critical edges, what is not solved is waiting in
\* a worklist, and nothing would evaluate to more than its cell says; so that with
\* empty worklists the lattice is a solution.  Inductive.
FixpointInv ==
  /\ phase \in {"sccp", "flow", "ssa", "constants"} => WellFormed
  /\ phase \in {"flow", "ssa", "constants"} => AnalysisInv(Analysis)
  /\ phase = "constants" => flow_worklist = <<>> /\ ssa_worklist = <<>>
  /\ Solution

\* What of the shape is left while operands are replaced.
IsSequence(s) == Len(s) \in Nat /\ s = [k \in 1 .. Len(s) |-> s[k]]
Formed ==
  /\ Cardinality(Blocks) \in Nat /\ Blocks = 0 .. Cardinality(Blocks) - 1
  /\ \A b \in Blocks :
       /\ blocks[b] = [phi |-> blocks[b].phi, ins |-> blocks[b].ins]
       /\ IsSequence(blocks[b].ins) /\ IsSequence(blocks[b].phi)
       /\ \A i \in ToSet(blocks[b].ins) :
            i = [kind |-> i.kind, op |-> i.op, uns |-> i.uns, res |-> i.res, use |-> i.use,
                 to |-> i.to, removed |-> i.removed]
       /\ \A phi \in ToSet(blocks[b].phi) :
            phi = [res |-> phi.res, val |-> phi.val] /\ IsSequence(phi.val)

\* No live edge that can be taken leads to a block that will be emptied.
ExecutableClosed ==
  /\ 0 \in executable /\ executable \subseteq Blocks
  /\ \A b \in executable : \A i \in LiveIns(b) :
       /\ i.kind = "jmp" => i.to[1] \in executable
       /\ i.kind = "br" =>
            /\ 1 \in DOMAIN i.use
            /\ IF IsConstant(i.use[1]) THEN i.to[IF i.use[1][2] # 0 THEN 1 ELSE 2] \in executable
               ELSE i.to[1] \in executable /\ i.to[2] \in executable

\* What the rewriting rests on: what is folded is the only definition of its
\* variable, and a branch the last live instruction of its block.
RewritingInv ==
  /\ phase \in {"fold", "dead"} => Formed /\ ExecutableClosed
  /\ phase = "fold" => TerminatorsLast /\ DefinedOnce

SCCPInv == FixpointInv /\ RewritingInv
==============================================================================
