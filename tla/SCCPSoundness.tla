---------------------------- MODULE SCCPSoundness ----------------------------
(* What constant propagation knows is true: every execution of the function   *)
(* stays in executable blocks, and variables have the values the lattice      *)
(* gives them.  And what it rewrites keeps every execution and adds none:     *)
(* constants for variables, folded instructions, converted branches, emptied  *)
(* blocks.                                                                    *)
EXTENDS SCCPExecution, SCCPProofs

------------------------------------------------------------------------------
(* One step.                                                                  *)

\* The cell of what is read holds its value.
LEMMA ReadTrue ==
  ASSUME NEW env, Agrees(lattice, env), NEW x \in Operand, Readable(env, x)
  PROVE  GetLattice(lattice, x) \in {Bottom, Const(Value(env, x))}
<1>1. CASE IsConstant(x)
  <2>1. x = <<x[1], x[2]>>
    BY DEF Operand
  <2> QED
    BY <1>1, <2>1 DEF GetLattice, IsConstant, Const, Value
<1>2. CASE ~IsConstant(x)
  BY <1>2 DEF Readable, Agrees, Value
<1> QED
  BY <1>1, <1>2

LEMMA Constants ==
  ASSUME NEW v
  PROVE  Const(v) # Top /\ Const(v) # Bottom /\ IsConstant(Const(v)) /\ Const(v)[2] = v
  BY DEF Const, Top, Bottom, IsConstant

LEMMA ConstantsDiffer ==
  ASSUME NEW v
  PROVE  ~IsConstant(Bottom) /\ ~IsConstant(Top) /\ Top # Bottom
  BY DEF Top, Bottom, IsConstant

\* What an instruction gives its result is what it evaluates to.
LEMMA EvaluateTrue ==
  ASSUME WellFormed, NEW env, Agrees(lattice, env), NEW i \in AllIns, IsTracked(i),
         CanRead(env, i), NEW v \in Results(env, i)
  PROVE  Evaluate(lattice, i) \in {Bottom, Const(v)}
<1> DEFINE cell == [k \in DOMAIN i.use |-> GetLattice(lattice, i.use[k])]
<1>1. /\ i.use \in Seq(Operand) /\ i.kind \in TrackedKinds
      /\ i.kind = "move" => 1 \in DOMAIN i.use
  BY AllInsShape
<1>2. ASSUME NEW k \in DOMAIN i.use
      PROVE  cell[k] = Bottom \/ cell[k] = Const(Values(env, i)[k])
  <2>1. i.use[k] \in Operand
    BY <1>1
  <2> QED
    BY <2>1, ReadTrue DEF Values, CanRead
<1>3. Evaluate(lattice, i) = EvaluateCells(i, cell)
  BY DEF Evaluate
<1>4. DOMAIN cell = DOMAIN i.use /\ DOMAIN Values(env, i) = DOMAIN i.use
  BY DEF Values
<1>5. \A c \in ToSet(cell) : \E k \in DOMAIN i.use : c = cell[k]
  BY DEF ToSet
<1> HIDE DEF cell
<1>6. CASE i.kind = "move"
  <2>1. ~Folds(i) /\ v = Values(env, i)[1]
    BY <1>6 DEF Folds, FoldedKinds, Results, IsAddress
  <2>2. EvaluateCells(i, cell) = cell[1]
    BY <1>6 DEF EvaluateCells, Folds, FoldedKinds, OpaqueKinds
  <2> QED
    BY <1>1, <1>2, <1>3, <1>6, <2>1, <2>2
<1>7. CASE Folds(i)
  <2>1. i.kind # "move" /\ v = Fold(i, Values(env, i))
    BY <1>7 DEF Folds, FoldedKinds, Results, IsSilent
  <2>2. CASE Bottom \in ToSet(cell)
    BY <1>3, <1>7, <2>1, <2>2 DEF EvaluateCells, Folds, FoldedKinds
  <2>3. CASE Bottom \notin ToSet(cell)
    <3>1. \A k \in DOMAIN i.use : cell[k] \in ToSet(cell)
      BY <1>4 DEF ToSet
    <3>2. \A k \in DOMAIN i.use : cell[k] = Const(Values(env, i)[k])
      BY <1>2, <2>3, <3>1
    <3>3. Top \notin ToSet(cell)
      BY <1>5, <3>2, Constants
    <3>4. [k \in DOMAIN cell |-> cell[k][2]] = Values(env, i)
      <4>1. \A k \in DOMAIN i.use : cell[k][2] = Values(env, i)[k]
        BY <3>2, Constants
      <4>2. Values(env, i) = [k \in DOMAIN i.use |-> Values(env, i)[k]]
        BY DEF Values
      <4> QED
        BY <1>4, <4>1, <4>2
    <3>5. EvaluateCells(i, cell) = Const(Fold(i, [k \in DOMAIN cell |-> cell[k][2]]))
      BY <1>7, <2>1, <2>3, <3>3 DEF EvaluateCells, Folds, FoldedKinds, OpaqueKinds
    <3> QED
      BY <1>3, <2>1, <3>4, <3>5
  <2> QED
    BY <2>2, <2>3
<1>8. CASE i.kind \in OpaqueKinds
  <2>1. i.kind # "move" /\ ~Folds(i)
    BY <1>8 DEF OpaqueKinds, Folds, FoldedKinds
  <2> QED
    BY <1>3, <1>8, <2>1 DEF EvaluateCells
<1> QED
  BY <1>1, <1>6, <1>7, <1>8 DEF TrackedKinds, Folds

\* What a phi is assigned on an edge from an executable block is what it evaluates
\* to.
LEMMA EvaluatePhiTrue ==
  ASSUME WellFormed, NEW env, Agrees(lattice, env), NEW phi \in AllPhis,
         NEW e \in ToSet(phi.val), e[2] \in executable, Readable(env, e[1])
  PROVE  EvaluatePhi(lattice, executable, phi) \in {Bottom, Const(Value(env, e[1]))}
<1> DEFINE c == [k \in 1 .. Len(phi.val) |->
                   IF phi.val[k][2] \in executable THEN GetLattice(lattice, phi.val[k][1]) ELSE Top]
<1>1. phi.val \in Seq(Operand \X Blocks) /\ Len(phi.val) \in Nat
      /\ DOMAIN phi.val = 1 .. Len(phi.val)
  BY AllPhisShape
<1>2. PICK k \in 1 .. Len(phi.val) : e = phi.val[k]
  BY <1>1 DEF ToSet
<1>3. e[1] \in Operand
  BY <1>1, <1>2
<1>4. Len(c) = Len(phi.val) /\ c[k] = GetLattice(lattice, e[1])
  BY <1>1, <1>2, LenProperties
<1>5. EvaluatePhi(lattice, executable, phi) = MeetAll(c)
  BY DEF EvaluatePhi
<1> HIDE DEF c
<1>6. Below(MeetAll(c), c[k])
  BY <1>1, <1>2, <1>4, MeetAllIs
<1>7. GetLattice(lattice, e[1]) \in {Bottom, Const(Value(env, e[1]))}
  BY <1>3, ReadTrue
<1> QED
  BY <1>4, <1>5, <1>6, <1>7, BelowIs, Constants, ConstantsDiffer

\* The lattice is a solution and true of a configuration in an executable block.
Known(c) == c.at \in executable \cup {Returned} /\ Agrees(lattice, c.env)

\* Only a configuration inside the function has a next one.
LEMMA StepInside ==
  ASSUME NEW c, NEW d, Step(blocks, c, d), Blocks = 0 .. Cardinality(Blocks) - 1
  PROVE  c.at \in Blocks /\ c.at # Returned
<1>1. c.at \in Blocks
  BY DEF Step, Blocks
<1>2. Returned \notin 0 .. Cardinality(Blocks) - 1
  BY DEF Returned
<1> QED
  BY <1>1, <1>2

LEMMA StepTrue ==
  ASSUME FixpointInv, phase = "constants", NEW c, NEW d, Known(c), Step(blocks, c, d)
  PROVE  Known(d)
<1>1. WellFormed /\ AnalysisInv(Analysis)
  BY DEF FixpointInv
<1>2. executable \subseteq Blocks
  BY <1>1 DEF AnalysisInv, StateOK, Analysis
<1>3. c.at \in Blocks /\ c.at \in executable /\ Agrees(lattice, c.env)
  BY <1>1, StepInside DEF Known, WellFormed, Shaped
<1> DEFINE i == blocks[c.at].ins[c.pc]
<1>4. c.pc \in DOMAIN blocks[c.at].ins /\ (Skip(i, c, d) \/ Compute(i, c, d) \/ Finish(i, c, d) \/ Leave(blocks, i, c, d))
  BY DEF Step
<1>5. ~i.removed => i \in LiveIns(c.at) /\ i \in AllIns /\ InsSolved(lattice, executable, i)
  <2>1. ~i.removed => i \in LiveIns(c.at)
    BY <1>4 DEF LiveIns, LivePlaces
  <2> QED
    BY <1>3, <2>1 DEF AllIns, FixpointInv, Solution
<1> HIDE DEF i
<1>6. CASE Skip(i, c, d)
  BY <1>6 DEF Skip, Known
<1>7. CASE Compute(i, c, d)
  <2>1. CASE ~IsTracked(i)
    BY <1>3, <1>7, <2>1 DEF Compute, Known
  <2>2. CASE IsTracked(i)
    <3>1. PICK v \in Results(c.env, i) : d.env = Assigned(c.env, i.res, v)
      BY <1>7, <2>2 DEF Compute
    <3>2. Evaluate(lattice, i) \in {Bottom, Const(v)}
      BY <1>1, <1>3, <1>5, <1>7, <2>2, EvaluateTrue DEF Compute
    <3>3. GetLattice(lattice, i.res) = Evaluate(lattice, i)
      BY <1>5, <1>7, <2>2 DEF Compute, InsSolved
    <3>4. Agrees(lattice, d.env)
      BY <1>3, <3>1, <3>2, <3>3 DEF Agrees, Assigned
    <3> QED
      BY <1>3, <1>7, <3>4 DEF Compute, Known
  <2> QED
    BY <2>1, <2>2
<1>8. CASE Leave(blocks, i, c, d)
  <2>1. i \in AllIns /\ InsSolved(lattice, executable, i) /\ i.use \in Seq(Operand)
        /\ (i.kind = "br" => 1 \in DOMAIN i.use)
    BY <1>1, <1>5, <1>8, AllInsShape DEF Leave
  <2>2. d.at \in executable
    <3>1. CASE i.kind = "jmp"
      BY <1>8, <2>1, <3>1 DEF Leave, InsSolved
    <3>2. CASE i.kind = "br"
      <4>1. i.use[1] \in Operand
        BY <2>1, <3>2
      <4>2. Readable(c.env, i.use[1])
            /\ d.at = i.to[IF Value(c.env, i.use[1]) # 0 THEN 1 ELSE 2]
        BY <1>8, <3>2 DEF Leave
      <4>3. GetLattice(lattice, i.use[1]) \in {Bottom, Const(Value(c.env, i.use[1]))}
        BY <1>3, <4>1, <4>2, ReadTrue
      <4> QED
        BY <2>1, <3>2, <4>2, <4>3, Constants, ConstantsDiffer DEF InsSolved
    <3> QED
      BY <1>8, <3>1, <3>2 DEF Leave
  <2> DEFINE phis == ToSet(blocks[d.at].phi)
  <2>3. phis \subseteq AllPhis /\ \A phi \in phis : PhiSolved(lattice, executable, phi)
    BY <1>2, <2>2 DEF AllPhis, FixpointInv, Solution
  <2>4. Arrive(phis, c, d)
    BY <1>8 DEF Leave
  <2> HIDE DEF phis
  <2>5. ASSUME NEW x \in DOMAIN d.env PROVE GetLattice(lattice, x) \in {Bottom, Const(d.env[x])}
    <3>1. CASE \E phi \in phis : phi.res = x
      <4>1. PICK phi \in phis : phi.res = x
        BY <3>1
      <4>2. PICK e \in ToSet(phi.val) :
              e[2] = c.at /\ Readable(c.env, e[1]) /\ d.env[phi.res] = Value(c.env, e[1])
        BY <2>4 DEF Arrive
      <4>3. EvaluatePhi(lattice, executable, phi) \in {Bottom, Const(Value(c.env, e[1]))}
        BY <1>1, <1>3, <2>3, <4>2, EvaluatePhiTrue
      <4> QED
        BY <2>3, <4>1, <4>2, <4>3 DEF PhiSolved
    <3>2. CASE \A phi \in phis : phi.res # x
      <4>1. x \in DOMAIN c.env /\ d.env[x] = c.env[x]
        BY <2>4, <3>2 DEF Arrive
      <4> QED
        BY <1>3, <4>1 DEF Agrees
    <3> QED
      BY <3>1, <3>2
  <2> QED
    BY <2>2, <2>5 DEF Known, Agrees
<1>9. CASE Finish(i, c, d)
  BY <1>3, <1>9 DEF Finish, Known
<1> QED
  BY <1>4, <1>6, <1>7, <1>8, <1>9

------------------------------------------------------------------------------
(* Executions.                                                                *)

LEMMA ExecutionTrue ==
  ASSUME FixpointInv, phase = "constants", NEW n \in Nat, NEW run, Execution(blocks, run, n)
  PROVE  \A k \in 0 .. n : Known(run[k])
<1> DEFINE S == {k \in 0 .. n : Known(run[k])}
<1>1. 0 \in S
  <2>1. run[0].at = 0 /\ DOMAIN run[0].env = ToSet(params)
    BY DEF Execution
  <2>2. 0 \in executable
    BY DEF FixpointInv, AnalysisInv, Analysis
  <2>3. \A p \in ToSet(params) : GetLattice(lattice, p) = Bottom
    BY DEF FixpointInv, AnalysisInv, Analysis
  <2> QED
    BY <2>1, <2>2, <2>3 DEF Known, Agrees
<1>2. ASSUME NEW k \in S, k < n PROVE k + 1 \in S
  <2>1. k \in 0 .. n - 1 /\ k + 1 \in 0 .. n
    BY <1>2
  <2>2. Step(blocks, run[k], run[k + 1])
    BY <2>1 DEF Execution
  <2> QED
    BY <2>1, <2>2, StepTrue
<1>3. S \in SUBSET (0 .. n)
  OBVIOUS
<1> HIDE DEF S
<1>4. \A k \in 0 .. n : k \in S
  BY <1>1, <1>2, <1>3, UpTo
<1> QED
  BY <1>4 DEF S

\* Executions stay in executable blocks, and variables have the values the lattice
\* gives them, when the fixed-point loop has ended (SCCPer::RunOnFunction).
THEOREM Sound == SCCPSpec => []LatticeTrue
<1>1. FixpointInv => LatticeTrue
  <2> SUFFICES ASSUME FixpointInv, phase = "constants", NEW c, Reaches(blocks, c)
               PROVE  Known(c)
    BY DEF LatticeTrue, Known
  <2>1. PICK n \in Nat : \E run : Execution(blocks, run, n) /\ run[n] = c
    BY DEF Reaches
  <2>2. n \in 0 .. n
    OBVIOUS
  <2> QED
    BY <2>1, <2>2, ExecutionTrue
<1> QED
  BY <1>1, Fixpoint, PTL

------------------------------------------------------------------------------
(* Configurations that can be reached.                                        *)

LEMMA Begins ==
  ASSUME NEW bs, NEW c, c.at = 0, c.pc = 1, c.trace = << >>, DOMAIN c.env = ToSet(params)
  PROVE  Reaches(bs, c)
<1> DEFINE run == [k \in {0} |-> c]
<1>1. Execution(bs, run, 0) /\ run[0] = c
  BY DEF Execution
<1> QED
  BY <1>1 DEF Reaches

LEMMA GoesOn ==
  ASSUME NEW bs, NEW c, NEW d, Reaches(bs, c), Step(bs, c, d)
  PROVE  Reaches(bs, d)
<1>1. PICK n \in Nat : \E run : Execution(bs, run, n) /\ run[n] = c
  BY DEF Reaches
<1>2. PICK run : Execution(bs, run, n) /\ run[n] = c
  BY <1>1
<1> DEFINE longer == [k \in 0 .. n + 1 |-> IF k <= n THEN run[k] ELSE d]
<1>3. longer[0] = run[0] /\ longer[n + 1] = d
  OBVIOUS
<1>4. ASSUME NEW k \in 0 .. n PROVE Step(bs, longer[k], longer[k + 1])
  <2>1. CASE k = n
    <3>1. longer[k] = c /\ longer[k + 1] = d
      BY <1>2, <2>1
    <3> QED
      BY <3>1
  <2>2. CASE k # n
    <3>1. k \in 0 .. n - 1 /\ longer[k] = run[k] /\ longer[k + 1] = run[k + 1]
      BY <2>2
    <3> QED
      BY <1>2, <3>1 DEF Execution
  <2> QED
    BY <2>1, <2>2
<1> HIDE DEF longer
<1>5. Execution(bs, longer, n + 1)
  BY <1>2, <1>3, <1>4 DEF Execution
<1> QED
  BY <1>3, <1>5 DEF Reaches

\* Removed instructions are passed over.
LEMMA SkipsTo ==
  ASSUME NEW bs, NEW c, Reaches(bs, c), c.at \in DOMAIN bs, c.pc \in Nat,
         NEW n \in Nat, c.pc <= n,
         \A k \in c.pc .. n - 1 : k \in DOMAIN bs[c.at].ins /\ bs[c.at].ins[k].removed
  PROVE  \E d : Reaches(bs, d) /\ d.at = c.at /\ d.pc = n /\ d.env = c.env /\ d.trace = c.trace
<1> DEFINE Passed(d, m) ==
             Reaches(bs, d) /\ d.at = c.at /\ d.pc = c.pc + m /\ d.env = c.env /\ d.trace = c.trace
           S == {m \in 0 .. n - c.pc : \E d : Passed(d, m)}
<1>1. 0 \in S
  <2>1. Passed(c, 0)
    OBVIOUS
  <2> QED
    BY <2>1
<1>2. ASSUME NEW m \in S, m < n - c.pc PROVE m + 1 \in S
  <2>1. PICK d : Passed(d, m)
    OBVIOUS
  <2> DEFINE e == [at |-> c.at, pc |-> c.pc + m + 1, env |-> c.env, trace |-> c.trace]
  <2>2. c.pc + m \in c.pc .. n - 1 /\ c.pc + (m + 1) = c.pc + m + 1 /\ m + 1 \in 0 .. n - c.pc
    BY <1>2
  <2>3. Skip(bs[c.at].ins[c.pc + m], d, e)
    BY <2>1, <2>2 DEF Skip
  <2>4. Step(bs, d, e)
    BY <2>1, <2>2, <2>3 DEF Step
  <2>5. Reaches(bs, e)
    BY <2>1, <2>4, GoesOn
  <2>6. Passed(e, m + 1)
    BY <2>2, <2>5
  <2> HIDE DEF Passed
  <2> QED
    BY <2>2, <2>6
<1>3. n - c.pc \in Nat /\ S \in SUBSET (0 .. n - c.pc)
  OBVIOUS
<1> HIDE DEF S
<1>4. n - c.pc \in S
  BY <1>1, <1>2, <1>3, UpTo
<1>5. PICK d : Passed(d, n - c.pc)
  BY <1>4 DEF S
<1> QED
  BY <1>5

------------------------------------------------------------------------------
(* Blocks before and after their operands are replaced.                       *)

\* blocks'[b] is blocks[b] with other operands, and perhaps fewer instructions.
SameOutline(b) ==
  /\ blocks'[b] = [phi |-> blocks'[b].phi, ins |-> blocks'[b].ins]
  /\ blocks'[b].ins = [k \in DOMAIN blocks[b].ins |-> blocks'[b].ins[k]]
  /\ \A k \in DOMAIN blocks[b].ins :
       LET i == blocks[b].ins[k]
           j == blocks'[b].ins[k]
       IN /\ j = [kind |-> i.kind, op |-> i.op, uns |-> i.uns, res |-> i.res, use |-> j.use,
                  to |-> i.to, removed |-> j.removed]
          /\ DOMAIN j.use = DOMAIN i.use
          /\ i.removed => j.removed
  /\ blocks'[b].phi = [k \in DOMAIN blocks[b].phi |-> blocks'[b].phi[k]]
  /\ \A k \in DOMAIN blocks[b].phi :
       LET phi == blocks[b].phi[k]
           new == blocks'[b].phi[k]
       IN /\ new = [res |-> phi.res, val |-> new.val]
          /\ new.val = [n \in DOMAIN phi.val |-> new.val[n]]
          /\ \A n \in DOMAIN phi.val : new.val[n][2] = phi.val[n][2]

\* Sequences, records and places of what the passes before hand over.
LEMMA ShapedFormed ==
  ASSUME Shaped
  PROVE  Formed
<1>6. Cardinality(Blocks) \in Nat /\ Blocks = 0 .. Cardinality(Blocks) - 1
  BY DEF Shaped
<1> SUFFICES ASSUME NEW b \in Blocks
             PROVE  /\ blocks[b] = [phi |-> blocks[b].phi, ins |-> blocks[b].ins]
                    /\ IsSequence(blocks[b].ins) /\ IsSequence(blocks[b].phi)
                    /\ \A i \in ToSet(blocks[b].ins) :
                         i = [kind |-> i.kind, op |-> i.op, uns |-> i.uns, res |-> i.res,
                              use |-> i.use, to |-> i.to, removed |-> i.removed]
                    /\ \A phi \in ToSet(blocks[b].phi) :
                         phi = [res |-> phi.res, val |-> phi.val] /\ IsSequence(phi.val)
  BY <1>6 DEF Formed
<1> DEFINE PhiShape == [res : Operand, val : Seq(Operand \X Blocks)]
           q == blocks[b].ins
           r == blocks[b].phi
<1>1. /\ q \in Seq(Instruction) /\ r \in Seq(PhiShape)
      /\ blocks[b] = [phi |-> blocks[b].phi, ins |-> blocks[b].ins]
  BY DEF Shaped
<1> HIDE DEF q, r
<1>2. IsSequence(q)
  <2> HIDE DEF PhiShape
  <2> QED
    BY <1>1 DEF IsSequence
<1>3. IsSequence(r)
  <2> HIDE DEF PhiShape
  <2> QED
    BY <1>1 DEF IsSequence
<1>4. \A i \in ToSet(q) :
        i = [kind |-> i.kind, op |-> i.op, uns |-> i.uns, res |-> i.res,
             use |-> i.use, to |-> i.to, removed |-> i.removed]
  <2>1. \A i \in ToSet(q) : i \in Instruction
    BY <1>1, ToSetPlaces
  <2> QED
    BY <2>1 DEF Instruction
<1>5. \A phi \in ToSet(r) : phi = [res |-> phi.res, val |-> phi.val] /\ IsSequence(phi.val)
  <2>1. \A phi \in ToSet(r) : phi \in PhiShape
    <3> HIDE DEF PhiShape
    <3> QED
      BY <1>1, ToSetPlaces
  <2>2. \A phi \in ToSet(r) : phi = [res |-> phi.res, val |-> phi.val]
                              /\ phi.val \in Seq(Operand \X Blocks)
    BY <2>1
  <2>3. \A s \in Seq(Operand \X Blocks) : IsSequence(s)
    BY DEF IsSequence
  <2> QED
    BY <2>2, <2>3
<1> QED
  BY <1>1, <1>2, <1>3, <1>4, <1>5 DEF q, r

LEMMA SequenceIs ==
  ASSUME NEW s, IsSequence(s)
  PROVE  /\ Len(s) \in Nat /\ DOMAIN s = 1 .. Len(s)
         /\ s \in Seq({s[k] : k \in DOMAIN s})
<1>1. Len(s) \in Nat /\ DOMAIN s = 1 .. Len(s) /\ s = [k \in 1 .. Len(s) |-> s[k]]
  BY DEF IsSequence
<1> DEFINE S == {s[k] : k \in DOMAIN s}
<1>2. \A k \in 1 .. Len(s) : s[k] \in S
  BY <1>1
<1> HIDE DEF S
<1>3. s \in [1 .. Len(s) -> S]
  BY <1>1, <1>2
<1>4. s \in Seq(S)
  BY <1>1, <1>3, SeqDef
<1> QED
  BY <1>1, <1>4 DEF S

LEMMA SequenceMade ==
  ASSUME NEW s, IsSequence(s), NEW r, r = [k \in DOMAIN s |-> r[k]]
  PROVE  IsSequence(r)
<1>1. Len(s) \in Nat /\ DOMAIN s = 1 .. Len(s)
  BY SequenceIs
<1> DEFINE S == {r[k] : k \in DOMAIN r}
<1>2. \A k \in 1 .. Len(s) : r[k] \in S
  BY <1>1
<1> HIDE DEF S
<1>3. r \in [1 .. Len(s) -> S]
  BY <1>1, <1>2
<1>4. r \in Seq(S)
  BY <1>1, <1>3, SeqDef
<1>5. Len(r) \in Nat /\ DOMAIN r = 1 .. Len(r)
  BY <1>4
<1> QED
  BY <1>1, <1>5 DEF IsSequence

\* Field by field.
LEMMA OutlineFields ==
  ASSUME NEW b, SameOutline(b)
  PROVE  /\ DOMAIN blocks'[b].ins = DOMAIN blocks[b].ins
         /\ DOMAIN blocks'[b].phi = DOMAIN blocks[b].phi
         /\ \A k \in DOMAIN blocks[b].ins :
              /\ blocks'[b].ins[k].kind = blocks[b].ins[k].kind
              /\ blocks'[b].ins[k].op = blocks[b].ins[k].op
              /\ blocks'[b].ins[k].uns = blocks[b].ins[k].uns
              /\ blocks'[b].ins[k].res = blocks[b].ins[k].res
              /\ blocks'[b].ins[k].to = blocks[b].ins[k].to
              /\ DOMAIN blocks'[b].ins[k].use = DOMAIN blocks[b].ins[k].use
              /\ blocks[b].ins[k].removed => blocks'[b].ins[k].removed
         /\ \A k \in DOMAIN blocks[b].phi :
              /\ blocks'[b].phi[k].res = blocks[b].phi[k].res
              /\ DOMAIN blocks'[b].phi[k].val = DOMAIN blocks[b].phi[k].val
              /\ \A n \in DOMAIN blocks[b].phi[k].val :
                   blocks'[b].phi[k].val[n][2] = blocks[b].phi[k].val[n][2]
<1>1. /\ DOMAIN blocks'[b].ins = DOMAIN blocks[b].ins
      /\ DOMAIN blocks'[b].phi = DOMAIN blocks[b].phi
  BY DEF SameOutline
<1>2. ASSUME NEW k \in DOMAIN blocks[b].ins
      PROVE  /\ blocks'[b].ins[k].kind = blocks[b].ins[k].kind
             /\ blocks'[b].ins[k].op = blocks[b].ins[k].op
             /\ blocks'[b].ins[k].uns = blocks[b].ins[k].uns
             /\ blocks'[b].ins[k].res = blocks[b].ins[k].res
             /\ blocks'[b].ins[k].to = blocks[b].ins[k].to
             /\ DOMAIN blocks'[b].ins[k].use = DOMAIN blocks[b].ins[k].use
             /\ blocks[b].ins[k].removed => blocks'[b].ins[k].removed
  <2> DEFINE i == blocks[b].ins[k]
             j == blocks'[b].ins[k]
  <2>1. /\ j = [kind |-> i.kind, op |-> i.op, uns |-> i.uns, res |-> i.res, use |-> j.use,
                to |-> i.to, removed |-> j.removed]
        /\ DOMAIN j.use = DOMAIN i.use
        /\ i.removed => j.removed
    BY DEF SameOutline
  <2> HIDE DEF i, j
  <2>2. /\ j.kind = i.kind /\ j.op = i.op /\ j.uns = i.uns /\ j.res = i.res /\ j.to = i.to
        /\ DOMAIN j.use = DOMAIN i.use
        /\ i.removed => j.removed
    BY <2>1
  <2> QED
    BY <2>2 DEF i, j
<1>3. ASSUME NEW k \in DOMAIN blocks[b].phi
      PROVE  /\ blocks'[b].phi[k].res = blocks[b].phi[k].res
             /\ DOMAIN blocks'[b].phi[k].val = DOMAIN blocks[b].phi[k].val
             /\ \A n \in DOMAIN blocks[b].phi[k].val :
                  blocks'[b].phi[k].val[n][2] = blocks[b].phi[k].val[n][2]
  <2> DEFINE phi == blocks[b].phi[k]
             new == blocks'[b].phi[k]
  <2>1. /\ new = [res |-> phi.res, val |-> new.val]
        /\ new.val = [n \in DOMAIN phi.val |-> new.val[n]]
        /\ \A n \in DOMAIN phi.val : new.val[n][2] = phi.val[n][2]
    BY DEF SameOutline
  <2> HIDE DEF phi, new
  <2>2. new.res = phi.res
    BY <2>1
  <2>3. DOMAIN new.val = DOMAIN phi.val
    BY <2>1
  <2> QED
    BY <2>1, <2>2, <2>3 DEF phi, new
<1> QED
  BY <1>1, <1>2, <1>3

\* Replacing operands and removing instructions keeps what the rewriting rests on.
LEMMA OutlineKept ==
  ASSUME Formed, Blocks' = Blocks, params' = params, \A b \in Blocks : SameOutline(b)
  PROVE  /\ Formed'
         /\ TerminatorsLast => TerminatorsLast'
         /\ DefinedOnce => DefinedOnce'
<1>1. ASSUME NEW b \in Blocks
      PROVE  /\ DOMAIN blocks'[b].ins = DOMAIN blocks[b].ins
             /\ DOMAIN blocks'[b].phi = DOMAIN blocks[b].phi
             /\ LivePlaces(b)' \subseteq LivePlaces(b) /\ DefPlaces(b)' \subseteq DefPlaces(b)
             /\ \A k \in DOMAIN blocks[b].ins :
                  /\ blocks'[b].ins[k].kind = blocks[b].ins[k].kind
                  /\ blocks'[b].ins[k].res = blocks[b].ins[k].res
  <2>1. /\ DOMAIN blocks'[b].ins = DOMAIN blocks[b].ins
        /\ DOMAIN blocks'[b].phi = DOMAIN blocks[b].phi
    BY OutlineFields
  <2>2. \A k \in DOMAIN blocks[b].ins :
          /\ blocks'[b].ins[k].kind = blocks[b].ins[k].kind
          /\ blocks'[b].ins[k].res = blocks[b].ins[k].res
          /\ blocks[b].ins[k].removed => blocks'[b].ins[k].removed
    BY OutlineFields
  <2>3. LivePlaces(b)' \subseteq LivePlaces(b)
    BY <2>1, <2>2 DEF LivePlaces
  <2>4. \A k \in LivePlaces(b) : k \in DOMAIN blocks[b].ins
    BY DEF LivePlaces
  <2>5. DefPlaces(b)' \subseteq DefPlaces(b)
    BY <2>2, <2>3, <2>4 DEF DefPlaces, IsTracked
  <2> QED
    BY <2>1, <2>2, <2>3, <2>5
<1>2. Formed'
  <2>1. ASSUME NEW b \in Blocks
        PROVE  /\ blocks'[b] = [phi |-> blocks'[b].phi, ins |-> blocks'[b].ins]
               /\ IsSequence(blocks'[b].ins) /\ IsSequence(blocks'[b].phi)
    <3>1. IsSequence(blocks[b].ins) /\ IsSequence(blocks[b].phi)
      BY DEF Formed
    <3>2. /\ blocks'[b] = [phi |-> blocks'[b].phi, ins |-> blocks'[b].ins]
          /\ blocks'[b].ins = [k \in DOMAIN blocks[b].ins |-> blocks'[b].ins[k]]
          /\ blocks'[b].phi = [k \in DOMAIN blocks[b].phi |-> blocks'[b].phi[k]]
      BY DEF SameOutline
    <3> QED
      BY <3>1, <3>2, SequenceMade
  <2>2. ASSUME NEW b \in Blocks, NEW i \in ToSet(blocks'[b].ins)
        PROVE  i = [kind |-> i.kind, op |-> i.op, uns |-> i.uns, res |-> i.res, use |-> i.use,
                    to |-> i.to, removed |-> i.removed]
    <3>1. PICK k \in DOMAIN blocks[b].ins : i = blocks'[b].ins[k]
      BY <1>1 DEF ToSet
    <3> DEFINE j == blocks[b].ins[k]
    <3>2. i = [kind |-> j.kind, op |-> j.op, uns |-> j.uns, res |-> j.res, use |-> i.use,
               to |-> j.to, removed |-> i.removed]
      BY <3>1 DEF SameOutline
    <3> HIDE DEF j
    <3>3. i.kind = j.kind /\ i.op = j.op /\ i.uns = j.uns /\ i.res = j.res /\ i.to = j.to
      BY <3>2
    <3> QED
      BY <3>2, <3>3
  <2>3. ASSUME NEW b \in Blocks, NEW phi \in ToSet(blocks'[b].phi)
        PROVE  phi = [res |-> phi.res, val |-> phi.val] /\ IsSequence(phi.val)
    <3>1. PICK k \in DOMAIN blocks[b].phi : phi = blocks'[b].phi[k]
      BY <1>1 DEF ToSet
    <3> DEFINE old == blocks[b].phi[k]
    <3> DEFINE new == blocks'[b].phi[k]
    <3>6. /\ new = [res |-> old.res, val |-> new.val]
          /\ new.val = [n \in DOMAIN old.val |-> new.val[n]]
      BY DEF SameOutline
    <3>7. phi = new
      BY <3>1
    <3> HIDE DEF new
    <3>2. /\ phi = [res |-> old.res, val |-> phi.val]
          /\ phi.val = [n \in DOMAIN old.val |-> phi.val[n]]
      BY <3>6, <3>7
    <3>3. old \in ToSet(blocks[b].phi)
      BY DEF ToSet
    <3>4. IsSequence(old.val)
      BY <3>3 DEF Formed
    <3> HIDE DEF old
    <3>5. phi.res = old.res /\ phi.val = [n \in DOMAIN old.val |-> phi.val[n]]
      BY <3>2
    <3> QED
      BY <3>2, <3>4, <3>5, SequenceMade
  <2>4. (\A b \in Blocks :
           /\ blocks[b] = [phi |-> blocks[b].phi, ins |-> blocks[b].ins]
           /\ IsSequence(blocks[b].ins) /\ IsSequence(blocks[b].phi)
           /\ \A i \in ToSet(blocks[b].ins) :
                i = [kind |-> i.kind, op |-> i.op, uns |-> i.uns, res |-> i.res, use |-> i.use,
                     to |-> i.to, removed |-> i.removed]
           /\ \A phi \in ToSet(blocks[b].phi) :
                phi = [res |-> phi.res, val |-> phi.val] /\ IsSequence(phi.val))'
    BY <2>1, <2>2, <2>3
  <2>5. (Cardinality(Blocks) \in Nat /\ Blocks = 0 .. Cardinality(Blocks) - 1)'
    BY DEF Formed
  <2> QED
    BY <2>4, <2>5 DEF Formed
<1>3. TerminatorsLast => TerminatorsLast'
  <2> SUFFICES ASSUME TerminatorsLast, NEW b \in Blocks, NEW k \in LivePlaces(b)',
                      IsTerminator(blocks'[b].ins[k]), NEW j \in LivePlaces(b)'
               PROVE  j <= k
    BY DEF TerminatorsLast
  <2>1. k \in LivePlaces(b) /\ j \in LivePlaces(b) /\ k \in DOMAIN blocks[b].ins
    BY <1>1 DEF LivePlaces
  <2>2. IsTerminator(blocks[b].ins[k])
    BY <1>1, <2>1 DEF IsTerminator
  <2> QED
    BY <2>1, <2>2 DEF TerminatorsLast
<1>4. DefinedOnce => DefinedOnce'
  <2> SUFFICES ASSUME DefinedOnce PROVE DefinedOnce'
    OBVIOUS
  <2>1. ASSUME NEW a \in Blocks, NEW b \in Blocks, NEW j \in DefPlaces(a)', NEW k \in DefPlaces(b)',
               blocks'[a].ins[j].res = blocks'[b].ins[k].res
        PROVE  a = b /\ j = k
    <3>1. j \in DefPlaces(a) /\ k \in DefPlaces(b)
      BY <1>1
    <3>2. j \in DOMAIN blocks[a].ins /\ k \in DOMAIN blocks[b].ins
      BY <3>1 DEF DefPlaces, LivePlaces
    <3>3. blocks[a].ins[j].res = blocks[b].ins[k].res
      BY <1>1, <2>1, <3>2
    <3> QED
      BY <3>1, <3>3 DEF DefinedOnce
  <2>2. ASSUME NEW i \in AllIns'
        PROVE  /\ Folds(i) => IsTracked(i)
               /\ IsTracked(i) => /\ IsVariable(i.res) /\ i.res \notin ToSet(params)
                                  /\ \A phi \in AllPhis' : phi.res # i.res
    <3>1. PICK b \in Blocks : \E k \in LivePlaces(b)' : i = blocks'[b].ins[k]
      BY DEF AllIns, LiveIns
    <3>2. PICK k \in LivePlaces(b)' : i = blocks'[b].ins[k]
      BY <3>1
    <3>3. k \in LivePlaces(b) /\ k \in DOMAIN blocks[b].ins
      BY <1>1 DEF LivePlaces
    <3> DEFINE j == blocks[b].ins[k]
    <3>4. j.kind = i.kind /\ j.res = i.res
      BY <1>1, <3>2, <3>3
    <3>5. j \in AllIns
      BY <3>3 DEF AllIns, LiveIns
    <3> HIDE DEF j
    <3>6. (IsTracked(j) <=> IsTracked(i)) /\ (Folds(j) <=> Folds(i))
      BY <3>4 DEF IsTracked, Folds
    <3>7. /\ Folds(i) => IsTracked(i)
          /\ IsTracked(i) => /\ IsVariable(i.res) /\ i.res \notin ToSet(params)
                             /\ \A phi \in AllPhis : phi.res # i.res
      BY <3>4, <3>5, <3>6 DEF DefinedOnce
    <3>8. ASSUME NEW phi \in AllPhis', IsTracked(i) PROVE phi.res # i.res
      <4>1. PICK c \in Blocks : phi \in ToSet(blocks'[c].phi)
        BY DEF AllPhis
      <4>2. PICK n \in DOMAIN blocks[c].phi : phi = blocks'[c].phi[n]
        BY <1>1, <4>1 DEF ToSet
      <4>3. phi.res = blocks[c].phi[n].res
        BY <4>2, OutlineFields
      <4>4. blocks[c].phi[n] \in AllPhis
        BY DEF AllPhis, ToSet
      <4> QED
        BY <3>7, <3>8, <4>3, <4>4
    <3> QED
      BY <3>7, <3>8
  <2> QED
    BY <2>1, <2>2 DEF DefinedOnce
<1> QED
  BY <1>2, <1>3, <1>4

------------------------------------------------------------------------------
(* Steps before and after operands are replaced, when variable x is no longer *)
(* assigned.                                                                  *)

\* The configuration without x.
Cut(c, x) == [at |-> c.at, pc |-> c.pc, trace |-> c.trace,
              env |-> [y \in DOMAIN c.env \ {x} |-> c.env[y]]]

\* What is read as y in c is read as z without x.
SameReading(c, x, y, z) ==
  Readable(c.env, y) => /\ Readable(Cut(c, x).env, z)
                        /\ Value(Cut(c, x).env, z) = Value(c.env, y)

\* j is i with other operands, and they read the same without x.
Like(j, i) ==
  /\ j.kind = i.kind /\ j.op = i.op /\ j.uns = i.uns /\ j.res = i.res /\ j.to = i.to
  /\ DOMAIN j.use = DOMAIN i.use
ReadsSame(j, i, c, x) == \A k \in DOMAIN i.use : SameReading(c, x, i.use[k], j.use[k])

LEMMA CutFields ==
  ASSUME NEW c, NEW x
  PROVE  /\ Cut(c, x).at = c.at /\ Cut(c, x).pc = c.pc /\ Cut(c, x).trace = c.trace
         /\ DOMAIN Cut(c, x).env = DOMAIN c.env \ {x}
         /\ \A y \in DOMAIN c.env \ {x} : Cut(c, x).env[y] = c.env[y]
         /\ Cut(c, x).env = [y \in DOMAIN c.env \ {x} |-> c.env[y]]
  BY DEF Cut

LEMMA ResultsSame ==
  ASSUME NEW i, NEW j, NEW c, NEW x, Like(j, i), ReadsSame(j, i, c, x), CanRead(c.env, i)
  PROVE  /\ CanRead(Cut(c, x).env, j) /\ Values(Cut(c, x).env, j) = Values(c.env, i)
         /\ Results(Cut(c, x).env, j) = Results(c.env, i)
         /\ IsTracked(j) <=> IsTracked(i)
         /\ IsSilent(j) <=> IsSilent(i)
<1> DEFINE env == Cut(c, x).env
<1>0. \A k \in DOMAIN i.use : Readable(env, j.use[k]) /\ Value(env, j.use[k]) = Value(c.env, i.use[k])
  BY DEF ReadsSame, SameReading, CanRead
<1> HIDE DEF env
<1>1. CanRead(env, j)
  BY <1>0 DEF CanRead, Like
<1>2. Values(env, j) = Values(c.env, i)
  BY <1>0 DEF Like, Values
<1>3. /\ IsTracked(j) <=> IsTracked(i)
      /\ IsSilent(j) <=> IsSilent(i)
      /\ Folds(j) <=> Folds(i)
      /\ IsAddress(j) <=> IsAddress(i)
  BY DEF Like, IsTracked, IsSilent, Folds, IsAddress
<1>4. \A v : Fold(j, v) = Fold(i, v)
  BY DEF Like, Fold
<1>5. Results(env, j) = Results(c.env, i)
  BY <1>2, <1>3, <1>4 DEF Results, Like
<1> QED
  BY <1>1, <1>2, <1>3, <1>5 DEF env

LEMMA CutAssigned ==
  ASSUME NEW c, NEW d, NEW x, NEW r, NEW v, r # x, d.env = Assigned(c.env, r, v)
  PROVE  Cut(d, x).env = Assigned(Cut(c, x).env, r, v)
<1>1. /\ DOMAIN d.env = DOMAIN c.env \cup {r}
      /\ \A y \in DOMAIN d.env : d.env[y] = IF y = r THEN v ELSE c.env[y]
  BY DEF Assigned
<1> DEFINE left == Cut(d, x).env
           env == Cut(c, x).env
<1>2. /\ left = [y \in DOMAIN d.env \ {x} |-> d.env[y]]
      /\ env = [y \in DOMAIN c.env \ {x} |-> c.env[y]]
  BY DEF Cut
<1> HIDE DEF left, env
<1>3. DOMAIN d.env \ {x} = DOMAIN env \cup {r}
  BY <1>1, <1>2
<1>4. \A y \in DOMAIN d.env \ {x} : d.env[y] = IF y = r THEN v ELSE env[y]
  BY <1>1, <1>2
<1>5. left = [y \in DOMAIN env \cup {r} |-> IF y = r THEN v ELSE env[y]]
  BY <1>2, <1>3, <1>4
<1> QED
  BY <1>5 DEF Assigned, left, env

\* A step of i that stays in the block or returns is a step of j.
LEMMA LikeStep ==
  ASSUME NEW i, NEW j, NEW c, NEW d, NEW x, Like(j, i), j.removed <=> i.removed,
         ~i.removed => ReadsSame(j, i, c, x), ~i.removed /\ IsTracked(i) => i.res # x
  PROVE  /\ Skip(i, c, d) => Skip(j, Cut(c, x), Cut(d, x))
         /\ Compute(i, c, d) => Compute(j, Cut(c, x), Cut(d, x))
         /\ Finish(i, c, d) => Finish(j, Cut(c, x), Cut(d, x))
<1> DEFINE cc == Cut(c, x)
           dd == Cut(d, x)
<1>0. /\ cc.at = c.at /\ cc.pc = c.pc /\ cc.trace = c.trace
      /\ dd.at = d.at /\ dd.pc = d.pc /\ dd.trace = d.trace
      /\ d.env = c.env => dd.env = cc.env
  BY DEF Cut
<1>1. Skip(i, c, d) => Skip(j, cc, dd)
  <2> HIDE DEF cc, dd
  <2> QED
    BY <1>0 DEF Skip
<1>2. ASSUME Compute(i, c, d) PROVE Compute(j, cc, dd)
  <2>1. ~i.removed /\ ~j.removed /\ ~IsTerminator(j) /\ CanRead(c.env, i)
        /\ d.at = c.at /\ d.pc = c.pc + 1
    BY <1>2 DEF Like, IsTerminator, Compute
  <2>2. /\ CanRead(cc.env, j) /\ Values(cc.env, j) = Values(c.env, i)
        /\ Results(cc.env, j) = Results(c.env, i)
        /\ IsTracked(j) <=> IsTracked(i)
        /\ IsSilent(j) <=> IsSilent(i)
    BY <2>1, ResultsSame
  <2>3. PICK v \in Results(c.env, i) :
          /\ d.env = IF IsTracked(i) THEN Assigned(c.env, i.res, v) ELSE c.env
          /\ d.trace = IF IsSilent(i) THEN c.trace
                       ELSE Append(c.trace, <<i.kind, i.op, Values(c.env, i), v>>)
    BY <1>2 DEF Compute
  <2>4. dd.env = IF IsTracked(j) THEN Assigned(cc.env, j.res, v) ELSE cc.env
    <3>1. CASE IsTracked(i)
      <4>1. i.res # x /\ d.env = Assigned(c.env, i.res, v)
        BY <2>1, <2>3, <3>1
      <4>2. dd.env = Assigned(cc.env, i.res, v)
        BY <4>1, CutAssigned
      <4> QED
        BY <2>2, <3>1, <4>2 DEF Like
    <3>2. CASE ~IsTracked(i)
      BY <1>0, <2>2, <2>3, <3>2
    <3> QED
      BY <3>1, <3>2
  <2> HIDE DEF cc, dd
  <2>5. dd.trace = IF IsSilent(j) THEN cc.trace
                   ELSE Append(cc.trace, <<j.kind, j.op, Values(cc.env, j), v>>)
    BY <1>0, <2>2, <2>3 DEF Like
  <2>6. dd.at = cc.at /\ dd.pc = cc.pc + 1
    BY <1>0, <2>1
  <2> QED
    BY <2>1, <2>2, <2>3, <2>4, <2>5, <2>6 DEF Compute
<1>3. ASSUME Finish(i, c, d) PROVE Finish(j, cc, dd)
  <2>1. ~i.removed /\ ~j.removed /\ CanRead(c.env, i)
    BY <1>3 DEF Finish
  <2>2. CanRead(cc.env, j) /\ Values(cc.env, j) = Values(c.env, i)
    BY <2>1, ResultsSame
  <2> HIDE DEF cc, dd
  <2> QED
    BY <1>0, <1>3, <2>1, <2>2 DEF Finish, Like
<1> QED
  BY <1>1, <1>2, <1>3

\* A step of i to another block is a step of j.
LEMMA LikeLeave ==
  ASSUME NEW i, NEW j, NEW c, NEW d, NEW x, Like(j, i), ~j.removed, ReadsSame(j, i, c, x),
         i.kind = "br" => 1 \in DOMAIN i.use,
         Leave(blocks, i, c, d), SameOutline(d.at),
         \A k \in DOMAIN blocks[d.at].phi :
           /\ blocks[d.at].phi[k].res # x
           /\ \A n \in DOMAIN blocks[d.at].phi[k].val :
                SameReading(c, x, blocks[d.at].phi[k].val[n][1], blocks'[d.at].phi[k].val[n][1])
  PROVE  Leave(blocks', j, Cut(c, x), Cut(d, x))
<1> DEFINE cc == Cut(c, x)
           dd == Cut(d, x)
           q == blocks[d.at].phi
           r == blocks'[d.at].phi
<1>1. /\ cc.at = c.at /\ cc.trace = c.trace
      /\ dd.at = d.at /\ dd.pc = d.pc /\ dd.trace = d.trace
      /\ DOMAIN cc.env = DOMAIN c.env \ {x} /\ DOMAIN dd.env = DOMAIN d.env \ {x}
  BY DEF Cut
<1>2. /\ \A y \in DOMAIN c.env \ {x} : cc.env[y] = c.env[y]
      /\ \A y \in DOMAIN d.env \ {x} : dd.env[y] = d.env[y]
  BY DEF Cut
<1>3. \/ j.kind = "jmp" /\ dd.at = j.to[1]
      \/ /\ j.kind = "br" /\ Readable(cc.env, j.use[1])
         /\ dd.at = j.to[IF Value(cc.env, j.use[1]) # 0 THEN 1 ELSE 2]
  <2>1. CASE i.kind = "jmp"
    BY <1>1, <2>1 DEF Leave, Like
  <2>2. CASE i.kind = "br"
    <3>1. Readable(c.env, i.use[1]) /\ d.at = i.to[IF Value(c.env, i.use[1]) # 0 THEN 1 ELSE 2]
      BY <2>2 DEF Leave
    <3>2. Readable(cc.env, j.use[1]) /\ Value(cc.env, j.use[1]) = Value(c.env, i.use[1])
      BY <2>2, <3>1 DEF ReadsSame, SameReading
    <3> HIDE DEF cc, dd
    <3> QED
      BY <1>1, <2>2, <3>1, <3>2 DEF Like
  <2> QED
    BY <2>1, <2>2 DEF Leave
<1>4. Arrive(ToSet(q), c, d) /\ d.pc = 1 /\ d.trace = c.trace
  BY DEF Leave
<1>5. /\ DOMAIN r = DOMAIN q
      /\ \A k \in DOMAIN q :
           /\ r[k].res = q[k].res /\ q[k].res # x
           /\ DOMAIN r[k].val = DOMAIN q[k].val
           /\ \A n \in DOMAIN q[k].val : r[k].val[n][2] = q[k].val[n][2]
  BY OutlineFields
<1>6. \A k \in DOMAIN q : \A n \in DOMAIN q[k].val :
        Readable(c.env, q[k].val[n][1]) =>
          /\ Readable(cc.env, r[k].val[n][1])
          /\ Value(cc.env, r[k].val[n][1]) = Value(c.env, q[k].val[n][1])
  BY DEF SameReading
<1> HIDE DEF q, r, cc, dd
<1>7. /\ \A phi \in ToSet(r) : \E k \in DOMAIN q : phi = r[k]
      /\ \A phi \in ToSet(q) : \E k \in DOMAIN q : phi = q[k]
      /\ \A k \in DOMAIN q : q[k] \in ToSet(q) /\ r[k] \in ToSet(r)
  BY <1>5 DEF ToSet
<1>8. {phi.res : phi \in ToSet(r)} = {phi.res : phi \in ToSet(q)}
      /\ x \notin {phi.res : phi \in ToSet(q)}
  BY <1>5, <1>7
<1>9. DOMAIN dd.env = DOMAIN cc.env \cup {phi.res : phi \in ToSet(r)}
  <2>1. DOMAIN d.env = DOMAIN c.env \cup {phi.res : phi \in ToSet(q)}
    BY <1>4 DEF Arrive
  <2> QED
    BY <1>1, <1>8, <2>1
<1>10. ASSUME NEW phi \in ToSet(r)
       PROVE  \E e \in ToSet(phi.val) :
                e[2] = cc.at /\ Readable(cc.env, e[1]) /\ dd.env[phi.res] = Value(cc.env, e[1])
  <2>1. PICK k \in DOMAIN q : phi = r[k]
    BY <1>7
  <2>2. PICK e \in ToSet(q[k].val) :
          e[2] = c.at /\ Readable(c.env, e[1]) /\ d.env[q[k].res] = Value(c.env, e[1])
    BY <1>4, <1>7 DEF Arrive
  <2>3. PICK n \in DOMAIN q[k].val : e = q[k].val[n]
    BY <2>2 DEF ToSet
  <2> DEFINE f == r[k].val[n]
  <2>4. f \in ToSet(phi.val)
    BY <1>5, <2>1, <2>3 DEF ToSet
  <2>5. f[2] = c.at /\ Readable(cc.env, f[1]) /\ Value(cc.env, f[1]) = Value(c.env, e[1])
    BY <1>5, <1>6, <2>2, <2>3
  <2>6. phi.res = q[k].res /\ q[k].res # x
    BY <1>5, <2>1
  <2>7. q[k].res \in DOMAIN d.env
    <3>1. DOMAIN d.env = DOMAIN c.env \cup {p.res : p \in ToSet(q)}
      BY <1>4 DEF Arrive
    <3>2. q[k].res \in {p.res : p \in ToSet(q)}
      BY <1>7
    <3> QED
      BY <3>1, <3>2
  <2>8. dd.env[phi.res] = Value(cc.env, f[1])
    BY <1>2, <2>2, <2>5, <2>6, <2>7
  <2> QED
    BY <1>1, <2>4, <2>5, <2>8
<1>11. ASSUME NEW y \in DOMAIN cc.env, \A phi \in ToSet(r) : phi.res # y
       PROVE  dd.env[y] = cc.env[y]
  <2>1. y \in DOMAIN c.env /\ y # x
    BY <1>1
  <2>2. \A phi \in ToSet(q) : phi.res # y
    BY <1>5, <1>7, <1>11
  <2>3. DOMAIN d.env = DOMAIN c.env \cup {phi.res : phi \in ToSet(q)} /\ d.env[y] = c.env[y]
    BY <1>4, <2>1, <2>2 DEF Arrive
  <2> QED
    BY <1>2, <2>1, <2>3
<1>12. Arrive(ToSet(r), cc, dd)
  BY <1>9, <1>10, <1>11 DEF Arrive
<1>13. dd.pc = 1 /\ dd.trace = cc.trace /\ r = blocks'[dd.at].phi
  BY <1>1, <1>4 DEF r
<1>14. Leave(blocks', j, cc, dd)
  BY <1>3, <1>12, <1>13 DEF Leave
<1> QED
  BY <1>14 DEF cc, dd

LEMMA OutlineLike ==
  ASSUME NEW b, SameOutline(b), NEW k \in DOMAIN blocks[b].ins
  PROVE  /\ DOMAIN blocks'[b].ins = DOMAIN blocks[b].ins
         /\ Like(blocks'[b].ins[k], blocks[b].ins[k])
<1>1. /\ DOMAIN blocks'[b].ins = DOMAIN blocks[b].ins
      /\ blocks'[b].ins[k].kind = blocks[b].ins[k].kind
      /\ blocks'[b].ins[k].op = blocks[b].ins[k].op
      /\ blocks'[b].ins[k].uns = blocks[b].ins[k].uns
      /\ blocks'[b].ins[k].res = blocks[b].ins[k].res
      /\ blocks'[b].ins[k].to = blocks[b].ins[k].to
      /\ DOMAIN blocks'[b].ins[k].use = DOMAIN blocks[b].ins[k].use
  BY OutlineFields
<1> QED
  BY <1>1 DEF Like

\* A step of the function is a step of the one with other operands, unless the
\* instruction has been removed.
LEMMA ReplacedStep ==
  ASSUME Formed, Blocks' = Blocks, NEW x, NEW c, NEW d,
         \A b \in Blocks : SameOutline(b), Step(blocks, c, d),
         NEW i, NEW j, i = blocks[c.at].ins[c.pc], j = blocks'[c.at].ins[c.pc],
         j.removed <=> i.removed,
         ~i.removed => ReadsSame(j, i, c, x),
         ~i.removed /\ IsTracked(i) => i.res # x,
         ~i.removed /\ i.kind = "br" => 1 \in DOMAIN i.use,
         ~i.removed /\ i.kind \in {"br", "jmp"} =>
           /\ d.at \in Blocks
           /\ \A k \in DOMAIN blocks[d.at].phi :
                /\ blocks[d.at].phi[k].res # x
                /\ \A n \in DOMAIN blocks[d.at].phi[k].val :
                     SameReading(c, x, blocks[d.at].phi[k].val[n][1], blocks'[d.at].phi[k].val[n][1])
  PROVE  Step(blocks', Cut(c, x), Cut(d, x))
<1>1. /\ c.at \in Blocks /\ c.pc \in DOMAIN blocks[c.at].ins
      /\ Skip(i, c, d) \/ Compute(i, c, d) \/ Finish(i, c, d) \/ Leave(blocks, i, c, d)
  BY DEF Step, Blocks
<1>2. Like(j, i) /\ DOMAIN blocks'[c.at].ins = DOMAIN blocks[c.at].ins
  <2>1. SameOutline(c.at) /\ c.pc \in DOMAIN blocks[c.at].ins
    BY <1>1
  <2>2. /\ DOMAIN blocks'[c.at].ins = DOMAIN blocks[c.at].ins
        /\ Like(blocks'[c.at].ins[c.pc], blocks[c.at].ins[c.pc])
    BY <2>1, OutlineLike
  <2> QED
    BY <2>2
<1>3. Leave(blocks, i, c, d) => Leave(blocks', j, Cut(c, x), Cut(d, x))
  <2> SUFFICES ASSUME Leave(blocks, i, c, d) PROVE Leave(blocks', j, Cut(c, x), Cut(d, x))
    OBVIOUS
  <2>1. ~i.removed /\ ~j.removed /\ i.kind \in {"br", "jmp"}
    BY DEF Leave
  <2>2. SameOutline(d.at) /\ ReadsSame(j, i, c, x) /\ (i.kind = "br" => 1 \in DOMAIN i.use)
    BY <2>1
  <2> QED
    BY <1>2, <2>1, <2>2, LikeLeave
<1>4. \/ Skip(j, Cut(c, x), Cut(d, x)) \/ Compute(j, Cut(c, x), Cut(d, x))
      \/ Finish(j, Cut(c, x), Cut(d, x)) \/ Leave(blocks', j, Cut(c, x), Cut(d, x))
  BY <1>1, <1>2, <1>3, LikeStep
<1>5. Cut(c, x).at = c.at /\ Cut(c, x).pc = c.pc
  BY DEF Cut
<1> QED
  BY <1>1, <1>2, <1>4, <1>5 DEF Step, Blocks

------------------------------------------------------------------------------
(* Step A: ReplaceConstants.                                                  *)

LEMMA PhiReplaced ==
  ASSUME NEW phi, phi = [res |-> phi.res, val |-> phi.val], NEW val
  PROVE  [phi EXCEPT !.val = val] = [res |-> phi.res, val |-> val]
  OBVIOUS

LEMMA UseReplaced ==
  ASSUME NEW i, NEW use,
         i = [kind |-> i.kind, op |-> i.op, uns |-> i.uns, res |-> i.res, use |-> i.use,
              to |-> i.to, removed |-> i.removed]
  PROVE  [i EXCEPT !.use = use] =
           [kind |-> i.kind, op |-> i.op, uns |-> i.uns, res |-> i.res, use |-> use,
            to |-> i.to, removed |-> i.removed]
  OBVIOUS

LEMMA RemovedMarked ==
  ASSUME NEW i, NEW flag,
         i = [kind |-> i.kind, op |-> i.op, uns |-> i.uns, res |-> i.res, use |-> i.use,
              to |-> i.to, removed |-> i.removed]
  PROVE  [i EXCEPT !.removed = flag] =
           [kind |-> i.kind, op |-> i.op, uns |-> i.uns, res |-> i.res, use |-> i.use,
            to |-> i.to, removed |-> flag]
  OBVIOUS

LEMMA RemovedInBlock ==
  ASSUME NEW block, NEW q, NEW r, block = [phi |-> r, ins |-> q], NEW n
  PROVE  [block EXCEPT !.ins[n].removed = TRUE] =
           [phi |-> r, ins |-> [q EXCEPT ![n] = [@ EXCEPT !.removed = TRUE]]]
<1>1. block.ins = q
  OBVIOUS
<1> DEFINE new == [q EXCEPT ![n] = [@ EXCEPT !.removed = TRUE]]
<1>2. [block EXCEPT !.ins[n].removed = TRUE] = [block EXCEPT !.ins = new]
  BY <1>1
<1> HIDE DEF new
<1>3. [block EXCEPT !.ins = new] = [phi |-> r, ins |-> new]
  OBVIOUS
<1> QED
  BY <1>2, <1>3 DEF new

\* The instructions and the phis of a formed function.
LEMMA FormedPlaces ==
  ASSUME Formed, NEW b \in Blocks
  PROVE  /\ \A k \in DOMAIN blocks[b].ins :
              blocks[b].ins[k] =
                [kind |-> blocks[b].ins[k].kind, op |-> blocks[b].ins[k].op,
                 uns |-> blocks[b].ins[k].uns, res |-> blocks[b].ins[k].res,
                 use |-> blocks[b].ins[k].use, to |-> blocks[b].ins[k].to,
                 removed |-> blocks[b].ins[k].removed]
         /\ \A k \in DOMAIN blocks[b].phi :
              /\ blocks[b].phi[k] = [res |-> blocks[b].phi[k].res, val |-> blocks[b].phi[k].val]
              /\ IsSequence(blocks[b].phi[k].val)
<1>1. \A k \in DOMAIN blocks[b].ins : blocks[b].ins[k] \in ToSet(blocks[b].ins)
  BY DEF ToSet
<1>2. \A k \in DOMAIN blocks[b].phi : blocks[b].phi[k] \in ToSet(blocks[b].phi)
  BY DEF ToSet
<1> QED
  BY <1>1, <1>2 DEF Formed

\* A block that is left alone has the same outline.
LEMMA AloneOutline ==
  ASSUME Formed, NEW b \in Blocks, blocks'[b] = blocks[b]
  PROVE  SameOutline(b)
<1>1. ASSUME NEW k \in DOMAIN blocks[b].ins
      PROVE  blocks[b].ins[k] =
                [kind |-> blocks[b].ins[k].kind, op |-> blocks[b].ins[k].op,
                 uns |-> blocks[b].ins[k].uns, res |-> blocks[b].ins[k].res,
                 use |-> blocks[b].ins[k].use, to |-> blocks[b].ins[k].to,
                 removed |-> blocks[b].ins[k].removed]
  BY FormedPlaces
<1>2. ASSUME NEW k \in DOMAIN blocks[b].phi
      PROVE  /\ blocks[b].phi[k] = [res |-> blocks[b].phi[k].res, val |-> blocks[b].phi[k].val]
             /\ IsSequence(blocks[b].phi[k].val)
  BY FormedPlaces
<1>3. /\ blocks[b] = [phi |-> blocks[b].phi, ins |-> blocks[b].ins]
      /\ IsSequence(blocks[b].ins) /\ IsSequence(blocks[b].phi)
  BY DEF Formed
<1>4. /\ blocks[b].ins = [k \in DOMAIN blocks[b].ins |-> blocks[b].ins[k]]
      /\ blocks[b].phi = [k \in DOMAIN blocks[b].phi |-> blocks[b].phi[k]]
  BY <1>3 DEF IsSequence
<1>5. ASSUME NEW k \in DOMAIN blocks[b].phi
      PROVE  blocks[b].phi[k].val =
               [n \in DOMAIN blocks[b].phi[k].val |-> blocks[b].phi[k].val[n]]
  <2>1. IsSequence(blocks[b].phi[k].val)
    BY <1>2
  <2> QED
    BY <2>1 DEF IsSequence
<1> QED
  BY <1>1, <1>2, <1>3, <1>4, <1>5 DEF SameOutline

\* A constant read in place of a variable has its value.
LEMMA KnownValueReading ==
  ASSUME NEW c, Agrees(lattice, c.env), NEW x, x \notin DOMAIN c.env, NEW y
  PROVE  SameReading(c, x, y, KnownValue(y))
<1> DEFINE env == Cut(c, x).env
<1>1. DOMAIN env = DOMAIN c.env /\ \A z \in DOMAIN c.env : env[z] = c.env[z]
  BY DEF Cut
<1> HIDE DEF env
<1> SUFFICES ASSUME Readable(c.env, y)
             PROVE  Readable(env, KnownValue(y)) /\ Value(env, KnownValue(y)) = Value(c.env, y)
  BY DEF SameReading, env
<1>2. CASE IsVariable(y) /\ IsConstant(GetLattice(lattice, y))
  <2>1. ~IsConstant(y)
    BY <1>2 DEF IsVariable, IsConstant
  <2>2. y \in DOMAIN c.env /\ GetLattice(lattice, y) \in {Bottom, Const(c.env[y])}
    BY <2>1 DEF Readable, Agrees
  <2>3. GetLattice(lattice, y) = Const(c.env[y])
    BY <1>2, <2>2, ConstantsDiffer
  <2>4. GetLattice(lattice, y) = lattice[y]
    BY <1>2, <2>1, ConstantsDiffer DEF GetLattice
  <2>5. KnownValue(y) = Const(c.env[y])
    BY <1>2, <2>3, <2>4 DEF KnownValue
  <2> QED
    BY <2>1, <2>5, Constants DEF Readable, Value
<1>3. CASE ~(IsVariable(y) /\ IsConstant(GetLattice(lattice, y)))
  BY <1>1, <1>3 DEF KnownValue, Readable, Value
<1> QED
  BY <1>2, <1>3

\* What ReplaceConstants does to a block.
LEMMA ConstantsReplaced ==
  ASSUME ReplaceConstants, Formed, NEW b \in Blocks
  PROVE  /\ SameOutline(b)
         /\ b \notin executable => blocks'[b] = blocks[b]
         /\ \A k \in DOMAIN blocks[b].ins : blocks'[b].ins[k].removed = blocks[b].ins[k].removed
         /\ b \in executable =>
              /\ \A k \in LivePlaces(b) : \A n \in DOMAIN blocks[b].ins[k].use :
                   blocks'[b].ins[k].use[n] = KnownValue(blocks[b].ins[k].use[n])
              /\ \A k \in DOMAIN blocks[b].phi : \A n \in DOMAIN blocks[b].phi[k].val :
                   blocks'[b].phi[k].val[n][1] = KnownValue(blocks[b].phi[k].val[n][1])
<1>1. blocks'[b] = IF b \in executable THEN ReplaceInBlock(blocks[b], KnownValue) ELSE blocks[b]
  BY DEF ReplaceConstants
<1>2. CASE b \notin executable
  BY <1>1, <1>2, AloneOutline
<1>3. CASE b \in executable
  <2> DEFINE q == blocks[b].ins
             r == blocks[b].phi
             q2 == blocks'[b].ins
             r2 == blocks'[b].phi
  <2>1. blocks'[b] = [phi |-> [k \in DOMAIN r |-> ReplaceInPhi(r[k], KnownValue)],
                      ins |-> [k \in DOMAIN q |-> IF q[k].removed THEN q[k] ELSE ReplaceIn(q[k], KnownValue)]]
    BY <1>1, <1>3 DEF ReplaceInBlock
  <2>2. /\ q2 = [k \in DOMAIN q |-> IF q[k].removed THEN q[k] ELSE ReplaceIn(q[k], KnownValue)]
        /\ r2 = [k \in DOMAIN r |-> ReplaceInPhi(r[k], KnownValue)]
        /\ blocks'[b] = [phi |-> r2, ins |-> q2]
    BY <2>1
  <2>3. \A k \in DOMAIN q :
          q[k] = [kind |-> q[k].kind, op |-> q[k].op, uns |-> q[k].uns, res |-> q[k].res,
                  use |-> q[k].use, to |-> q[k].to, removed |-> q[k].removed]
    BY FormedPlaces
  <2>4. \A k \in DOMAIN r : r[k] = [res |-> r[k].res, val |-> r[k].val] /\ IsSequence(r[k].val)
    BY FormedPlaces
  <2>5. \A k \in LivePlaces(b) : k \in DOMAIN q /\ ~q[k].removed
    BY DEF LivePlaces
  <2> HIDE DEF q, r, q2, r2
  <2>6. ASSUME NEW k \in DOMAIN q
        PROVE  /\ q2[k] = [kind |-> q[k].kind, op |-> q[k].op, uns |-> q[k].uns, res |-> q[k].res,
                           use |-> q2[k].use, to |-> q[k].to, removed |-> q2[k].removed]
               /\ DOMAIN q2[k].use = DOMAIN q[k].use
               /\ q2[k].removed = q[k].removed
               /\ ~q[k].removed => \A n \in DOMAIN q[k].use : q2[k].use[n] = KnownValue(q[k].use[n])
    <3> DEFINE i == q[k]
               j == q2[k]
               use == [n \in DOMAIN i.use |-> KnownValue(i.use[n])]
    <3>1. i = [kind |-> i.kind, op |-> i.op, uns |-> i.uns, res |-> i.res,
               use |-> i.use, to |-> i.to, removed |-> i.removed]
      BY <2>3
    <3>2. j = IF i.removed THEN i ELSE [i EXCEPT !.use = use]
      BY <2>2 DEF ReplaceIn
    <3> HIDE DEF i, j, use
    <3>3. CASE i.removed
      BY <3>1, <3>2, <3>3 DEF i, j
    <3>4. CASE ~i.removed
      <4>1. j = [kind |-> i.kind, op |-> i.op, uns |-> i.uns, res |-> i.res, use |-> use,
                 to |-> i.to, removed |-> i.removed]
        BY <3>1, <3>2, <3>4, UseReplaced
      <4>2. j.use = use /\ j.removed = i.removed
        BY <4>1
      <4>3. DOMAIN use = DOMAIN i.use /\ \A n \in DOMAIN i.use : use[n] = KnownValue(i.use[n])
        BY DEF use
      <4> QED
        BY <4>1, <4>2, <4>3 DEF i, j
    <3> QED
      BY <3>3, <3>4
  <2>7. ASSUME NEW k \in DOMAIN r
        PROVE  /\ r2[k] = [res |-> r[k].res, val |-> r2[k].val]
               /\ r2[k].val = [n \in DOMAIN r[k].val |-> r2[k].val[n]]
               /\ \A n \in DOMAIN r[k].val :
                    r2[k].val[n][2] = r[k].val[n][2] /\ r2[k].val[n][1] = KnownValue(r[k].val[n][1])
    <3> DEFINE phi == r[k]
               new == r2[k]
               val == [n \in DOMAIN phi.val |-> <<KnownValue(phi.val[n][1]), phi.val[n][2]>>]
    <3>1. phi = [res |-> phi.res, val |-> phi.val]
      BY <2>4
    <3>2. new = [phi EXCEPT !.val = val]
      BY <2>2 DEF ReplaceInPhi
    <3> HIDE DEF phi, new, val
    <3>3. new = [res |-> phi.res, val |-> val]
      BY <3>1, <3>2, PhiReplaced
    <3>4. new.val = val
      BY <3>3
    <3>5. /\ val = [n \in DOMAIN phi.val |-> val[n]]
          /\ \A n \in DOMAIN phi.val : val[n][1] = KnownValue(phi.val[n][1]) /\ val[n][2] = phi.val[n][2]
      BY DEF val
    <3> QED
      BY <3>3, <3>4, <3>5 DEF phi, new
  <2>8. /\ q2 = [k \in DOMAIN q |-> q2[k]]
        /\ r2 = [k \in DOMAIN r |-> r2[k]]
    BY <2>2
  <2>9. SameOutline(b)
    <3>1. blocks'[b] = [phi |-> r2, ins |-> q2]
      BY <2>2 DEF q2, r2
    <3>2. \A k \in DOMAIN q :
            /\ q2[k] = [kind |-> q[k].kind, op |-> q[k].op, uns |-> q[k].uns, res |-> q[k].res,
                        use |-> q2[k].use, to |-> q[k].to, removed |-> q2[k].removed]
            /\ DOMAIN q2[k].use = DOMAIN q[k].use
            /\ q[k].removed => q2[k].removed
      BY <2>6
    <3>3. \A k \in DOMAIN r :
            /\ r2[k] = [res |-> r[k].res, val |-> r2[k].val]
            /\ r2[k].val = [n \in DOMAIN r[k].val |-> r2[k].val[n]]
            /\ \A n \in DOMAIN r[k].val : r2[k].val[n][2] = r[k].val[n][2]
      BY <2>7
    <3> QED
      BY <2>8, <3>1, <3>2, <3>3 DEF SameOutline, q, r, q2, r2
  <2>10. \A k \in LivePlaces(b) : \A n \in DOMAIN q[k].use : q2[k].use[n] = KnownValue(q[k].use[n])
    BY <2>5, <2>6
  <2> QED
    BY <1>3, <2>6, <2>7, <2>9, <2>10 DEF q, r, q2, r2
<1> QED
  BY <1>2, <1>3

\* Every step of an execution is one of the function with constants in it.
LEMMA ConstantsStep ==
  ASSUME FixpointInv, ReplaceConstants, NEW c, NEW d, Known(c), Step(blocks, c, d),
         NEW x, x \notin Names, x \notin DOMAIN c.env
  PROVE  Step(blocks', Cut(c, x), Cut(d, x))
<1>1. phase = "constants" /\ WellFormed /\ Formed
  BY ShapedFormed DEF ReplaceConstants, FixpointInv, WellFormed
<1>2. c.at \in Blocks /\ c.at \in executable /\ Agrees(lattice, c.env)
  BY <1>1, StepInside DEF Known, WellFormed, Shaped
<1> DEFINE i == blocks[c.at].ins[c.pc]
           j == blocks'[c.at].ins[c.pc]
<1>3. Blocks' = Blocks /\ \A b \in Blocks : SameOutline(b)
  BY <1>1, ConstantsReplaced DEF ReplaceConstants, Blocks
<1>4. /\ c.pc \in DOMAIN blocks[c.at].ins
      /\ Skip(i, c, d) \/ Compute(i, c, d) \/ Finish(i, c, d) \/ Leave(blocks, i, c, d)
  BY DEF Step
<1>5. ~i.removed => c.pc \in LivePlaces(c.at) /\ i \in AllIns
  <2>1. ~i.removed => c.pc \in LivePlaces(c.at)
    BY <1>4 DEF LivePlaces
  <2> QED
    BY <1>2, <2>1 DEF AllIns, LiveIns
<1>6. j.removed = i.removed
  BY <1>1, <1>2, <1>4, ConstantsReplaced
<1>7. ~i.removed => ReadsSame(j, i, c, x)
  <2> SUFFICES ASSUME ~i.removed, NEW n \in DOMAIN i.use PROVE SameReading(c, x, i.use[n], j.use[n])
    BY DEF ReadsSame
  <2>1. j.use[n] = KnownValue(i.use[n])
    BY <1>1, <1>2, <1>5, ConstantsReplaced
  <2> QED
    BY <1>2, <2>1, KnownValueReading
<1>8. ~i.removed /\ IsTracked(i) => i.res # x
  <2> HIDE DEF i
  <2> QED
    BY <1>1, <1>5, AllInsShape
<1>9. ~i.removed /\ i.kind = "br" => 1 \in DOMAIN i.use
  <2> HIDE DEF i
  <2> QED
    BY <1>1, <1>5, AllInsShape
<1>10. ASSUME ~i.removed, i.kind \in {"br", "jmp"}
       PROVE  /\ d.at \in Blocks
              /\ \A k \in DOMAIN blocks[d.at].phi :
                   /\ blocks[d.at].phi[k].res # x
                   /\ \A n \in DOMAIN blocks[d.at].phi[k].val :
                        SameReading(c, x, blocks[d.at].phi[k].val[n][1], blocks'[d.at].phi[k].val[n][1])
  <2>1. Known(d)
    BY <1>1, StepTrue
  <2>2. d.at \in Blocks
    <3> HIDE DEF i
    <3>1. Leave(blocks, i, c, d)
      <4>1. IsTerminator(i)
        BY <1>10 DEF IsTerminator
      <4> QED
        BY <1>4, <1>10, <4>1 DEF Skip, Compute, Finish
    <3> QED
      BY <1>1, <1>5, <3>1, AllInsShape DEF Leave
  <2>3. d.at # Returned
    <3>1. Returned \notin 0 .. Cardinality(Blocks) - 1
      BY DEF Returned
    <3> QED
      BY <1>1, <2>2, <3>1 DEF WellFormed, Shaped
  <2>4. d.at \in executable
    BY <2>1, <2>3 DEF Known
  <2>5. ASSUME NEW k \in DOMAIN blocks[d.at].phi
        PROVE  /\ blocks[d.at].phi[k].res # x
               /\ \A n \in DOMAIN blocks[d.at].phi[k].val :
                    SameReading(c, x, blocks[d.at].phi[k].val[n][1], blocks'[d.at].phi[k].val[n][1])
    <3>1. blocks[d.at].phi[k] \in AllPhis
      BY <2>2 DEF AllPhis, ToSet
    <3>2. blocks[d.at].phi[k].res \in Names
      BY <3>1 DEF Names
    <3>3. \A n \in DOMAIN blocks[d.at].phi[k].val :
            blocks'[d.at].phi[k].val[n][1] = KnownValue(blocks[d.at].phi[k].val[n][1])
      BY <1>1, <2>2, <2>4, ConstantsReplaced
    <3> QED
      BY <1>2, <3>2, <3>3, KnownValueReading
  <2> QED
    BY <2>2, <2>5
<1> HIDE DEF i, j
<1>11. i = blocks[c.at].ins[c.pc] /\ j = blocks'[c.at].ins[c.pc]
  BY DEF i, j
<1> QED
  BY <1>1, <1>3, <1>6, <1>7, <1>8, <1>9, <1>10, <1>11, ReplacedStep

\* So every execution is one of it, and it does the same.
LEMMA ConstantsKeep ==
  ASSUME FixpointInv, ReplaceConstants, NEW c, Reaches(blocks, c)
  PROVE  \E d : Reaches(blocks', d) /\ d.at = c.at /\ d.trace = c.trace
<1>1. phase = "constants" /\ WellFormed
  BY DEF ReplaceConstants, FixpointInv
<1>2. PICK n \in Nat : \E run : Execution(blocks, run, n) /\ run[n] = c
  BY DEF Reaches
<1>3. PICK run : Execution(blocks, run, n) /\ run[n] = c
  BY <1>2
<1> DEFINE Used == Names \cup UNION {DOMAIN run[k].env : k \in 0 .. n}
<1>4. PICK x : x \notin Used
  BY NoSetContainsEverything
<1>5. x \notin Names /\ \A k \in 0 .. n : x \notin DOMAIN run[k].env
  BY <1>4
<1>6. \A k \in 0 .. n : Known(run[k])
  BY <1>1, <1>3, ExecutionTrue
<1> DEFINE S == {k \in 0 .. n : Reaches(blocks', Cut(run[k], x))}
<1>7. 0 \in S
  <2>1. /\ run[0].at = 0 /\ run[0].pc = 1 /\ run[0].trace = << >>
        /\ DOMAIN run[0].env = ToSet(params)
    BY <1>3 DEF Execution
  <2>2. DOMAIN Cut(run[0], x).env = ToSet(params)
    BY <1>5, <2>1 DEF Cut
  <2>3. Cut(run[0], x).at = 0 /\ Cut(run[0], x).pc = 1 /\ Cut(run[0], x).trace = << >>
    BY <2>1 DEF Cut
  <2>4. Reaches(blocks', Cut(run[0], x))
    BY <2>2, <2>3, Begins
  <2> QED
    BY <2>4
<1>8. ASSUME NEW k \in S, k < n PROVE k + 1 \in S
  <2>1. k \in 0 .. n - 1 /\ k \in 0 .. n /\ k + 1 \in 0 .. n
    BY <1>8
  <2>2. Step(blocks, run[k], run[k + 1])
    BY <1>3, <2>1 DEF Execution
  <2>3. Step(blocks', Cut(run[k], x), Cut(run[k + 1], x))
    BY <1>5, <1>6, <2>1, <2>2, ConstantsStep
  <2>4. Reaches(blocks', Cut(run[k + 1], x))
    BY <2>3, GoesOn
  <2> QED
    BY <2>1, <2>4
<1>9. S \in SUBSET (0 .. n) /\ n \in 0 .. n
  OBVIOUS
<1> HIDE DEF S
<1>10. n \in S
  BY <1>7, <1>8, <1>9, UpTo
<1>11. Reaches(blocks', Cut(c, x))
  BY <1>3, <1>10 DEF S
<1>12. Cut(c, x).at = c.at /\ Cut(c, x).trace = c.trace
  BY DEF Cut
<1> QED
  BY <1>11, <1>12

LEMMA NamesVariable ==
  ASSUME WellFormed, NEW x \in Names
  PROVE  IsVariable(x)
<1>1. CASE x \in ToSet(params)
  BY <1>1 DEF WellFormed
<1>2. CASE \E i \in AllIns : IsTracked(i) /\ x = i.res
  BY <1>2, AllInsShape
<1>3. CASE \E phi \in AllPhis : x = phi.res
  BY <1>3, AllPhisShape
<1> QED
  BY <1>1, <1>2, <1>3 DEF Names

\* What the rewriting rests on holds from here on.
LEMMA ConstantsInv ==
  ASSUME FixpointInv, ReplaceConstants
  PROVE  RewritingInv'
<1>1. /\ phase = "constants" /\ WellFormed /\ Formed /\ Solution
      /\ 0 \in executable /\ executable \subseteq Blocks /\ DOMAIN lattice \subseteq Names
  BY ShapedFormed DEF ReplaceConstants, FixpointInv, WellFormed, AnalysisInv, StateOK, Analysis
<1>2. Blocks' = Blocks /\ params' = params /\ executable' = executable /\ phase' = "fold"
  BY DEF ReplaceConstants, Blocks, sccpVars
<1>3. \A b \in Blocks : SameOutline(b)
  BY <1>1, ConstantsReplaced
<1>4. Formed' /\ TerminatorsLast' /\ DefinedOnce'
  BY <1>1, <1>2, <1>3, OutlineKept DEF WellFormed
<1>5. ASSUME NEW b \in executable, NEW j \in LiveIns(b)'
      PROVE  /\ j.kind = "jmp" => j.to[1] \in executable
             /\ j.kind = "br" =>
                  /\ 1 \in DOMAIN j.use
                  /\ IF IsConstant(j.use[1]) THEN j.to[IF j.use[1][2] # 0 THEN 1 ELSE 2] \in executable
                     ELSE j.to[1] \in executable /\ j.to[2] \in executable
  <2>1. b \in Blocks
    BY <1>1
  <2>2. PICK k \in LivePlaces(b)' : j = blocks'[b].ins[k]
    BY DEF LiveIns
  <2>3. k \in DOMAIN blocks'[b].ins /\ ~blocks'[b].ins[k].removed
    BY DEF LivePlaces
  <2>4. k \in DOMAIN blocks[b].ins
    BY <1>3, <2>1, <2>3, OutlineFields
  <2>5. k \in LivePlaces(b)
    <3>1. ~blocks[b].ins[k].removed
      BY <1>1, <2>1, <2>3, <2>4, ConstantsReplaced
    <3> QED
      BY <2>4, <3>1 DEF LivePlaces
  <2> DEFINE i == blocks[b].ins[k]
  <2>6. i \in LiveIns(b) /\ i \in AllIns
    BY <2>1, <2>5 DEF LiveIns, AllIns
  <2>7. j.kind = i.kind /\ j.to = i.to /\ DOMAIN j.use = DOMAIN i.use
    BY <1>3, <2>1, <2>2, <2>4, OutlineFields
  <2>8. \A n \in DOMAIN i.use : j.use[n] = KnownValue(i.use[n])
    BY <1>1, <2>1, <2>2, <2>5, ConstantsReplaced
  <2> HIDE DEF i
  <2>9. InsSolved(lattice, executable, i)
    BY <1>1, <2>6 DEF Solution
  <2>10. i.kind = "br" => 1 \in DOMAIN i.use /\ i.use[1] \in Operand
    <3>1. i.use \in Seq(Operand) /\ (i.kind = "br" => 1 \in DOMAIN i.use)
      BY <1>1, <2>6, AllInsShape
    <3> QED
      BY <3>1
  <2>11. ASSUME i.kind = "br"
         PROVE  IF IsConstant(j.use[1]) THEN i.to[IF j.use[1][2] # 0 THEN 1 ELSE 2] \in executable
                ELSE i.to[1] \in executable /\ i.to[2] \in executable
    <3> DEFINE y == i.use[1]
               z == j.use[1]
               cond == GetLattice(lattice, y)
    <3>1. z = KnownValue(y)
      BY <2>8, <2>10, <2>11
    <3>2. IF IsConstant(cond) THEN i.to[IF cond[2] # 0 THEN 1 ELSE 2] \in executable
          ELSE i.to[1] \in executable /\ i.to[2] \in executable
      BY <2>9, <2>11 DEF InsSolved
    <3> HIDE DEF y, z
    <3>3. CASE IsConstant(cond)
      <4>1. CASE IsConstant(y)
        <5>1. z = y /\ cond = y
          BY <3>1, <4>1 DEF KnownValue, IsVariable, IsConstant, GetLattice
        <5> QED
          BY <3>2, <3>3, <5>1 DEF y, z
      <4>2. CASE IsVariable(y)
        <5>1. ~IsConstant(y)
          BY <4>2 DEF IsVariable, IsConstant
        <5>2. cond = lattice[y]
          BY <3>3, <5>1, ConstantsDiffer DEF GetLattice
        <5>3. z = cond
          BY <3>1, <3>3, <4>2, <5>2 DEF KnownValue
        <5> HIDE DEF cond
        <5> QED
          BY <3>2, <3>3, <5>3 DEF y, z
      <4>3. CASE ~IsConstant(y) /\ ~IsVariable(y)
        <5>1. y \notin DOMAIN lattice
          BY <1>1, <4>3, NamesVariable
        <5>2. cond = Top
          BY <4>3, <5>1 DEF GetLattice
        <5> HIDE DEF cond
        <5> QED
          BY <3>3, <5>2, ConstantsDiffer
      <4> QED
        BY <4>1, <4>2, <4>3
    <3>4. CASE ~IsConstant(cond)
      <4>1. ~IsConstant(y)
        BY <3>4 DEF GetLattice
      <4>2. z = y
        BY <3>1, <3>4 DEF KnownValue
      <4> HIDE DEF cond
      <4> QED
        BY <3>2, <3>4, <4>1, <4>2
    <3> QED
      BY <3>3, <3>4
  <2> QED
    BY <2>7, <2>9, <2>10, <2>11 DEF InsSolved
<1>6. ExecutableClosed'
  BY <1>1, <1>2, <1>5 DEF ExecutableClosed
<1> QED
  BY <1>2, <1>4, <1>6 DEF RewritingInv

------------------------------------------------------------------------------
(* Step B: FoldConstant.                                                      *)

LEMMA Least ==
  ASSUME NEW S \in SUBSET Nat, S # {}
  PROVE  \E n \in S : \A m \in S : n <= m
<1>1. PICK n \in S : \A j \in S : ~(<<j, n>> \in OpToRel(<, Nat))
  BY WFMin, NatLessThanWellFounded
<1>2. \A j \in S : ~(j < n)
  BY <1>1 DEF OpToRel
<1> QED
  BY <1>2

LEMMA LivePositionsAre ==
  \A p : p \in LivePositions(blocks) <=> \E b \in Blocks : \E k \in LivePlaces(b) : p = <<b, k>>
BY DEF LivePositions, LivePlaces, Blocks

\* Some instruction that can be folded comes first.
LEMMA FirstFoldable ==
  ASSUME Formed, Foldable # {}
  PROVE  \E q \in Foldable : \A r \in Foldable \ {q} : Before(q, r)
<1>1. \A q \in Foldable : q[1] \in Nat /\ q[2] \in Nat /\ q = <<q[1], q[2]>>
  <2> SUFFICES ASSUME NEW q \in Foldable PROVE q[1] \in Nat /\ q[2] \in Nat /\ q = <<q[1], q[2]>>
    OBVIOUS
  <2>1. q \in LivePositions(blocks)
    BY DEF Foldable
  <2>2. PICK b \in Blocks : \E k \in LivePlaces(b) : q = <<b, k>>
    BY <2>1, LivePositionsAre
  <2>3. PICK k \in LivePlaces(b) : q = <<b, k>>
    BY <2>2
  <2>4. b \in Nat
    BY DEF Formed
  <2>5. k \in Nat
    <3>1. IsSequence(blocks[b].ins)
      BY DEF Formed
    <3>2. k \in 1 .. Len(blocks[b].ins) /\ Len(blocks[b].ins) \in Nat
      BY <3>1, SequenceIs DEF LivePlaces
    <3> QED
      BY <3>2
  <2> QED
    BY <2>3, <2>4, <2>5
<1> DEFINE A == {q[1] : q \in Foldable}
<1>2. A \in SUBSET Nat /\ A # {}
  BY <1>1
<1> HIDE DEF A
<1>3. PICK a \in A : \A m \in A : a <= m
  BY <1>2, Least
<1> DEFINE B == {q[2] : q \in {r \in Foldable : r[1] = a}}
<1>4. B \in SUBSET Nat /\ B # {}
  BY <1>1, <1>3 DEF A
<1> HIDE DEF B
<1>5. PICK b \in B : \A m \in B : b <= m
  BY <1>4, Least
<1>6. PICK q \in Foldable : q[1] = a /\ q[2] = b
  BY <1>5 DEF B
<1>7. ASSUME NEW r \in Foldable, r # q PROVE Before(q, r)
  <2>1. r[1] \in A /\ (r[1] = a => r[2] \in B)
    BY DEF A, B
  <2>2. a <= r[1] /\ (r[1] = a => b <= r[2])
    BY <1>3, <1>5, <2>1
  <2>3. r[1] = a => r[2] # b
    BY <1>1, <1>6, <1>7
  <2>4. a \in Nat /\ b \in Nat /\ r[1] \in Nat /\ r[2] \in Nat
    BY <1>1, <1>6
  <2> QED
    BY <1>6, <2>2, <2>3, <2>4 DEF Before
<1> QED
  BY <1>7

\* What is read as y is read as v where x was.
Substituted(x, v, y) == IF y = x THEN v ELSE y

\* What an instruction computes from constants.
FoldedValue(i) == Const(Fold(i, [k \in DOMAIN i.use |-> i.use[k][2]]))

\* FoldConstant folds the instruction at place n of block a.
FoldsAt(a, n) ==
  /\ a \in Blocks /\ n \in LivePlaces(a) /\ Folds(blocks[a].ins[n])
  /\ \A k \in DOMAIN blocks[a].ins[n].use : IsConstant(blocks[a].ins[n].use[k])
  /\ blocks' = [b \in Blocks |->
       ReplaceInBlock(IF b = a THEN [blocks[b] EXCEPT !.ins[n].removed = TRUE] ELSE blocks[b],
                      LAMBDA y : Substituted(blocks[a].ins[n].res, FoldedValue(blocks[a].ins[n]), y))]

LEMMA FoldPlace ==
  ASSUME FoldConstant, Formed
  PROVE  \E a, n : FoldsAt(a, n)
<1> DEFINE p == CHOOSE q \in Foldable : \A r \in Foldable \ {q} : Before(q, r)
<1>1. p \in Foldable
  BY FirstFoldable DEF FoldConstant
<1>2. blocks' = LET i == At(blocks, p)
                    v == Const(Fold(i, [k \in DOMAIN i.use |-> i.use[k][2]]))
                    Result(x) == IF x = i.res THEN v ELSE x
                IN [b \in Blocks |-> ReplaceInBlock(
                     IF b = p[1] THEN [blocks[b] EXCEPT !.ins[p[2]].removed = TRUE] ELSE blocks[b], Result)]
  BY DEF FoldConstant
<1> HIDE DEF p
<1>3. PICK a \in Blocks : \E n \in LivePlaces(a) : p = <<a, n>>
  BY <1>1, LivePositionsAre DEF Foldable
<1>4. PICK n \in LivePlaces(a) : p = <<a, n>>
  BY <1>3
<1>5. At(blocks, p) = blocks[a].ins[n] /\ p[1] = a /\ p[2] = n
  BY <1>4 DEF At
<1>6. Folds(blocks[a].ins[n])
      /\ \A k \in DOMAIN blocks[a].ins[n].use : IsConstant(blocks[a].ins[n].use[k])
  BY <1>1, <1>5 DEF Foldable
<1>7. blocks' = [b \in Blocks |->
       ReplaceInBlock(IF b = a THEN [blocks[b] EXCEPT !.ins[n].removed = TRUE] ELSE blocks[b],
                      LAMBDA y : Substituted(blocks[a].ins[n].res, FoldedValue(blocks[a].ins[n]), y))]
  BY <1>2, <1>5 DEF Substituted, FoldedValue
<1>8. FoldsAt(a, n)
  BY <1>6, <1>7 DEF FoldsAt
<1> QED
  BY <1>8

\* What FoldConstant does to a block.
LEMMA FoldReplaced ==
  ASSUME NEW a, NEW n, FoldsAt(a, n), Formed, NEW b \in Blocks,
         NEW x, NEW v, x = blocks[a].ins[n].res, v = FoldedValue(blocks[a].ins[n])
  PROVE  /\ SameOutline(b)
         /\ b = a => blocks'[b].ins[n].removed
         /\ \A k \in DOMAIN blocks[b].ins : (b # a \/ k # n) =>
              /\ blocks'[b].ins[k].removed = blocks[b].ins[k].removed
              /\ ~blocks[b].ins[k].removed => \A m \in DOMAIN blocks[b].ins[k].use :
                   blocks'[b].ins[k].use[m] = Substituted(x, v, blocks[b].ins[k].use[m])
         /\ \A k \in DOMAIN blocks[b].phi : \A m \in DOMAIN blocks[b].phi[k].val :
              blocks'[b].phi[k].val[m][1] = Substituted(x, v, blocks[b].phi[k].val[m][1])
<1> DEFINE block == IF b = a THEN [blocks[b] EXCEPT !.ins[n].removed = TRUE] ELSE blocks[b]
           q == blocks[b].ins
           r == blocks[b].phi
           q1 == block.ins
           q2 == blocks'[b].ins
           r2 == blocks'[b].phi
<1>1. blocks'[b] = [phi |-> [k \in DOMAIN block.phi |-> ReplaceInPhi(block.phi[k], LAMBDA y : Substituted(x, v, y))],
                    ins |-> [k \in DOMAIN q1 |-> IF q1[k].removed THEN q1[k]
                                                 ELSE ReplaceIn(q1[k], LAMBDA y : Substituted(x, v, y))]]
  BY DEF FoldsAt, ReplaceInBlock
<1>2. \A k \in DOMAIN q :
        q[k] = [kind |-> q[k].kind, op |-> q[k].op, uns |-> q[k].uns, res |-> q[k].res,
                use |-> q[k].use, to |-> q[k].to, removed |-> q[k].removed]
  BY FormedPlaces
<1>3. \A k \in DOMAIN r : r[k] = [res |-> r[k].res, val |-> r[k].val] /\ IsSequence(r[k].val)
  BY FormedPlaces
<1>4. blocks[b] = [phi |-> r, ins |-> q]
  BY DEF Formed
<1>5. b = a => n \in DOMAIN q
  BY DEF FoldsAt, LivePlaces
<1> HIDE DEF q, r
<1>6. /\ block.phi = r
      /\ DOMAIN q1 = DOMAIN q
      /\ \A k \in DOMAIN q : q1[k] = IF b = a /\ k = n THEN [q[k] EXCEPT !.removed = TRUE] ELSE q[k]
  <2>1. CASE b = a
    <3>1. block = [phi |-> r, ins |-> [q EXCEPT ![n] = [@ EXCEPT !.removed = TRUE]]]
      BY <1>4, <2>1, RemovedInBlock
    <3> HIDE DEF block
    <3>2. block.phi = r /\ q1 = [q EXCEPT ![n] = [@ EXCEPT !.removed = TRUE]]
      BY <3>1
    <3> HIDE DEF q1
    <3> QED
      BY <2>1, <3>2
  <2>2. CASE b # a
    <3>1. block = [phi |-> r, ins |-> q]
      BY <1>4, <2>2
    <3> HIDE DEF block
    <3> QED
      BY <2>2, <3>1
  <2> QED
    BY <2>1, <2>2
<1> HIDE DEF block, q1
<1>7. /\ q2 = [k \in DOMAIN q |-> IF q1[k].removed THEN q1[k]
                                  ELSE ReplaceIn(q1[k], LAMBDA y : Substituted(x, v, y))]
      /\ r2 = [k \in DOMAIN r |-> ReplaceInPhi(r[k], LAMBDA y : Substituted(x, v, y))]
      /\ blocks'[b] = [phi |-> r2, ins |-> q2]
  BY <1>1, <1>6
<1> HIDE DEF q2, r2
<1>8. ASSUME NEW k \in DOMAIN q
      PROVE  /\ q2[k] = [kind |-> q[k].kind, op |-> q[k].op, uns |-> q[k].uns, res |-> q[k].res,
                         use |-> q2[k].use, to |-> q[k].to, removed |-> q2[k].removed]
             /\ DOMAIN q2[k].use = DOMAIN q[k].use
             /\ q[k].removed => q2[k].removed
             /\ b = a /\ k = n => q2[k].removed
             /\ (b # a \/ k # n) =>
                  /\ q2[k].removed = q[k].removed
                  /\ ~q[k].removed => \A m \in DOMAIN q[k].use :
                       q2[k].use[m] = Substituted(x, v, q[k].use[m])
  <2> DEFINE i == q[k]
             j == q2[k]
             use == [m \in DOMAIN i.use |-> Substituted(x, v, i.use[m])]
  <2>1. i = [kind |-> i.kind, op |-> i.op, uns |-> i.uns, res |-> i.res,
             use |-> i.use, to |-> i.to, removed |-> i.removed]
    BY <1>2
  <2>2. CASE b = a /\ k = n
    <3>1. q1[k] = [i EXCEPT !.removed = TRUE]
      BY <1>6, <2>2
    <3> HIDE DEF i
    <3>2. [i EXCEPT !.removed = TRUE] =
            [kind |-> i.kind, op |-> i.op, uns |-> i.uns, res |-> i.res,
             use |-> i.use, to |-> i.to, removed |-> TRUE]
      BY <2>1, RemovedMarked
    <3>3. q1[k] = [kind |-> i.kind, op |-> i.op, uns |-> i.uns, res |-> i.res,
                   use |-> i.use, to |-> i.to, removed |-> TRUE]
      BY <3>1, <3>2
    <3>4. q1[k].removed
      BY <3>3
    <3>5. j = q1[k]
      BY <1>7, <3>4
    <3> HIDE DEF j
    <3>6. j.use = i.use /\ j.removed = TRUE
      BY <3>3, <3>5
    <3> QED
      BY <2>2, <3>3, <3>5, <3>6 DEF i, j
  <2>3. CASE b # a \/ k # n
    <3>1. q1[k] = i
      BY <1>6, <2>3
    <3>2. j = IF i.removed THEN i ELSE [i EXCEPT !.use = use]
      BY <1>7, <3>1 DEF ReplaceIn
    <3> HIDE DEF i, j, use
    <3>3. CASE i.removed
      BY <2>1, <2>3, <3>2, <3>3 DEF i, j
    <3>4. CASE ~i.removed
      <4>1. j = [kind |-> i.kind, op |-> i.op, uns |-> i.uns, res |-> i.res, use |-> use,
                 to |-> i.to, removed |-> i.removed]
        BY <2>1, <3>2, <3>4, UseReplaced
      <4>2. j.use = use /\ j.removed = i.removed
        BY <4>1
      <4>3. DOMAIN use = DOMAIN i.use /\ \A m \in DOMAIN i.use : use[m] = Substituted(x, v, i.use[m])
        BY DEF use
      <4> QED
        BY <2>3, <4>1, <4>2, <4>3 DEF i, j
    <3> QED
      BY <3>3, <3>4
  <2> QED
    BY <2>2, <2>3
<1>9. ASSUME NEW k \in DOMAIN r
      PROVE  /\ r2[k] = [res |-> r[k].res, val |-> r2[k].val]
             /\ r2[k].val = [m \in DOMAIN r[k].val |-> r2[k].val[m]]
             /\ \A m \in DOMAIN r[k].val : /\ r2[k].val[m][2] = r[k].val[m][2]
                                           /\ r2[k].val[m][1] = Substituted(x, v, r[k].val[m][1])
  <2> DEFINE phi == r[k]
             new == r2[k]
             val == [m \in DOMAIN phi.val |-> <<Substituted(x, v, phi.val[m][1]), phi.val[m][2]>>]
  <2>1. phi = [res |-> phi.res, val |-> phi.val]
    BY <1>3
  <2>2. new = [phi EXCEPT !.val = val]
    BY <1>7 DEF ReplaceInPhi
  <2> HIDE DEF phi, new, val
  <2>3. new = [res |-> phi.res, val |-> val]
    BY <2>1, <2>2, PhiReplaced
  <2>4. new.val = val
    BY <2>3
  <2>5. /\ val = [m \in DOMAIN phi.val |-> val[m]]
        /\ \A m \in DOMAIN phi.val : val[m][1] = Substituted(x, v, phi.val[m][1]) /\ val[m][2] = phi.val[m][2]
    BY DEF val
  <2> QED
    BY <2>3, <2>4, <2>5 DEF phi, new
<1>10. /\ q2 = [k \in DOMAIN q |-> q2[k]]
       /\ r2 = [k \in DOMAIN r |-> r2[k]]
  BY <1>7
<1>11. SameOutline(b)
  <2>1. \A k \in DOMAIN q :
          /\ q2[k] = [kind |-> q[k].kind, op |-> q[k].op, uns |-> q[k].uns, res |-> q[k].res,
                      use |-> q2[k].use, to |-> q[k].to, removed |-> q2[k].removed]
          /\ DOMAIN q2[k].use = DOMAIN q[k].use
          /\ q[k].removed => q2[k].removed
    BY <1>8
  <2>2. \A k \in DOMAIN r :
          /\ r2[k] = [res |-> r[k].res, val |-> r2[k].val]
          /\ r2[k].val = [m \in DOMAIN r[k].val |-> r2[k].val[m]]
          /\ \A m \in DOMAIN r[k].val : r2[k].val[m][2] = r[k].val[m][2]
    BY <1>9
  <2>3. blocks'[b] = [phi |-> r2, ins |-> q2]
    BY <1>7
  <2> QED
    BY <1>10, <2>1, <2>2, <2>3 DEF SameOutline, q, r, q2, r2
<1> QED
  BY <1>5, <1>8, <1>9, <1>11 DEF q, r, q2, r2

\* An instruction that is not the one folded.
LEMMA FoldElsewhere ==
  ASSUME NEW a, NEW n, FoldsAt(a, n), Formed, NEW b \in Blocks,
         NEW x, NEW v, x = blocks[a].ins[n].res, v = FoldedValue(blocks[a].ins[n]),
         NEW k \in DOMAIN blocks[b].ins, b # a \/ k # n
  PROVE  /\ blocks'[b].ins[k].removed = blocks[b].ins[k].removed
         /\ ~blocks[b].ins[k].removed => \A m \in DOMAIN blocks[b].ins[k].use :
              blocks'[b].ins[k].use[m] = Substituted(x, v, blocks[b].ins[k].use[m])
BY FoldReplaced

\* Executions stay in executable blocks.
LEMMA ClosedStep ==
  ASSUME Formed, ExecutableClosed, NEW c, NEW d, c.at \in executable \cup {Returned},
         Step(blocks, c, d)
  PROVE  /\ c.at \in executable /\ c.at \in Blocks /\ Returned \notin Blocks
         /\ d.at \in executable \cup {Returned}
         /\ \A i : i = blocks[c.at].ins[c.pc] /\ ~i.removed =>
              /\ i.kind = "br" => 1 \in DOMAIN i.use
              /\ i.kind \in {"br", "jmp"} => d.at \in executable
<1>1. Returned \notin Blocks
  <2>1. Returned \notin 0 .. Cardinality(Blocks) - 1
    BY DEF Returned
  <2> QED
    BY <2>1 DEF Formed
<1>2. c.at \in Blocks /\ c.at \in executable
  BY <1>1 DEF Step, Blocks
<1> DEFINE i == blocks[c.at].ins[c.pc]
<1>3. /\ c.pc \in DOMAIN blocks[c.at].ins
      /\ Skip(i, c, d) \/ Compute(i, c, d) \/ Finish(i, c, d) \/ Leave(blocks, i, c, d)
  BY DEF Step
<1>4. ~i.removed =>
        /\ i.kind = "jmp" => i.to[1] \in executable
        /\ i.kind = "br" =>
             /\ 1 \in DOMAIN i.use
             /\ IF IsConstant(i.use[1]) THEN i.to[IF i.use[1][2] # 0 THEN 1 ELSE 2] \in executable
                ELSE i.to[1] \in executable /\ i.to[2] \in executable
  <2>1. ~i.removed => i \in LiveIns(c.at)
    BY <1>3 DEF LiveIns, LivePlaces
  <2> QED
    BY <1>2, <2>1 DEF ExecutableClosed
<1> HIDE DEF i
<1>5. Leave(blocks, i, c, d) => d.at \in executable
  <2> SUFFICES ASSUME Leave(blocks, i, c, d) PROVE d.at \in executable
    OBVIOUS
  <2>1. CASE i.kind = "jmp"
    BY <1>4, <2>1 DEF Leave
  <2>2. CASE i.kind = "br"
    <3>1. ~i.removed /\ d.at = i.to[IF Value(c.env, i.use[1]) # 0 THEN 1 ELSE 2]
      BY <2>2 DEF Leave
    <3>2. CASE IsConstant(i.use[1])
      <4>1. Value(c.env, i.use[1]) = i.use[1][2]
        BY <3>2 DEF Value
      <4> QED
        BY <1>4, <2>2, <3>1, <3>2, <4>1
    <3>3. CASE ~IsConstant(i.use[1])
      BY <1>4, <2>2, <3>1, <3>3
    <3> QED
      BY <3>2, <3>3
  <2> QED
    BY <2>1, <2>2 DEF Leave
<1>6. ~i.removed /\ i.kind \in {"br", "jmp"} => Leave(blocks, i, c, d)
  <2>1. i.kind \in {"br", "jmp"} => IsTerminator(i) /\ i.kind # "ret"
    BY DEF IsTerminator
  <2> QED
    BY <1>3, <2>1 DEF Skip, Compute, Finish
<1>7. d.at \in executable \cup {Returned}
  BY <1>2, <1>3, <1>5 DEF Skip, Compute, Finish
<1> QED
  BY <1>1, <1>2, <1>4, <1>5, <1>6, <1>7 DEF i

\* The variable of the instruction that is folded has the value it is folded to.
Holds(c, x, v) == x \in DOMAIN c.env => c.env[x] = v[2]

LEMMA SubstitutedReading ==
  ASSUME NEW c, NEW x, NEW v, IsVariable(x), v = Const(v[2]), Holds(c, x, v), NEW y
  PROVE  SameReading(c, x, y, Substituted(x, v, y))
<1> DEFINE env == Cut(c, x).env
           z == Substituted(x, v, y)
<1>1. DOMAIN env = DOMAIN c.env \ {x} /\ \A u \in DOMAIN c.env \ {x} : env[u] = c.env[u]
  BY DEF Cut
<1> HIDE DEF env
<1> SUFFICES ASSUME Readable(c.env, y)
             PROVE  Readable(env, z) /\ Value(env, z) = Value(c.env, y)
  BY DEF SameReading, env
<1>2. ~IsConstant(x) /\ IsConstant(v)
  <2>1. IsConstant(Const(v[2]))
    BY Constants
  <2> QED
    BY <2>1 DEF IsVariable, IsConstant
<1>3. CASE y = x
  <2>1. z = v /\ x \in DOMAIN c.env
    BY <1>2, <1>3 DEF Substituted, Readable
  <2> HIDE DEF z
  <2> QED
    BY <1>2, <1>3, <2>1 DEF Readable, Value, Holds
<1>4. CASE y # x
  <2>1. z = y
    BY <1>4 DEF Substituted
  <2> HIDE DEF z
  <2> QED
    BY <1>1, <1>4, <2>1 DEF Readable, Value
<1> QED
  BY <1>3, <1>4

\* Of the instruction that is folded, and of all the others.
LEMMA FoldedIs ==
  ASSUME RewritingInv, phase = "fold", NEW a, NEW n, FoldsAt(a, n), NEW i0, i0 = blocks[a].ins[n]
  PROVE  /\ a \in Blocks /\ n \in DOMAIN blocks[a].ins /\ ~i0.removed /\ Folds(i0) /\ IsTracked(i0)
         /\ \A k \in DOMAIN i0.use : IsConstant(i0.use[k])
         /\ IsVariable(i0.res) /\ i0.res \notin ToSet(params)
         /\ \A b \in Blocks : \A k \in LivePlaces(b) :
              IsTracked(blocks[b].ins[k]) /\ blocks[b].ins[k].res = i0.res => b = a /\ k = n
         /\ \A b \in Blocks : \A k \in DOMAIN blocks[b].phi : blocks[b].phi[k].res # i0.res
<1>1. DefinedOnce
  BY DEF RewritingInv
<1>2. /\ a \in Blocks /\ n \in LivePlaces(a) /\ Folds(i0)
      /\ \A k \in DOMAIN i0.use : IsConstant(i0.use[k])
  BY DEF FoldsAt
<1>3. n \in DOMAIN blocks[a].ins /\ ~i0.removed
  BY <1>2 DEF LivePlaces
<1>4. i0 \in AllIns
  BY <1>2 DEF AllIns, LiveIns
<1>5. IsTracked(i0)
  BY <1>1, <1>2, <1>4 DEF DefinedOnce
<1>6. IsVariable(i0.res) /\ i0.res \notin ToSet(params) /\ \A phi \in AllPhis : phi.res # i0.res
  BY <1>1, <1>4, <1>5 DEF DefinedOnce
<1>7. n \in DefPlaces(a)
  BY <1>2, <1>5 DEF DefPlaces
<1>8. ASSUME NEW b \in Blocks, NEW k \in LivePlaces(b), IsTracked(blocks[b].ins[k]),
             blocks[b].ins[k].res = i0.res
      PROVE  b = a /\ k = n
  <2>1. k \in DefPlaces(b)
    BY <1>8 DEF DefPlaces
  <2> QED
    BY <1>1, <1>2, <1>7, <1>8, <2>1 DEF DefinedOnce
<1>9. \A b \in Blocks : \A k \in DOMAIN blocks[b].phi : blocks[b].phi[k] \in AllPhis
  BY DEF AllPhis, ToSet
<1> QED
  BY <1>2, <1>3, <1>5, <1>6, <1>8, <1>9

\* Every step of an execution is one of the function without the instruction, and
\* its variable still has the value.
LEMMA FoldStep ==
  ASSUME RewritingInv, phase = "fold", NEW a, NEW n, FoldsAt(a, n), Blocks' = Blocks,
         NEW x, NEW v, x = blocks[a].ins[n].res, v = FoldedValue(blocks[a].ins[n]),
         NEW c, NEW d, c.at \in executable \cup {Returned}, Holds(c, x, v), Step(blocks, c, d)
  PROVE  /\ d.at \in executable \cup {Returned} /\ Holds(d, x, v)
         /\ Step(blocks', Cut(c, x), Cut(d, x))
<1>1. Formed /\ ExecutableClosed
  BY DEF RewritingInv
<1> DEFINE i0 == blocks[a].ins[n]
           i == blocks[c.at].ins[c.pc]
           j == blocks'[c.at].ins[c.pc]
<1>2. /\ ~i0.removed /\ Folds(i0) /\ IsTracked(i0) /\ IsVariable(x) /\ x = i0.res
      /\ \A k \in DOMAIN i0.use : IsConstant(i0.use[k])
      /\ \A b \in Blocks : \A k \in DOMAIN blocks[b].phi : blocks[b].phi[k].res # x
  BY FoldedIs
<1>3. /\ c.at \in executable /\ c.at \in Blocks /\ d.at \in executable \cup {Returned}
      /\ ~i.removed => /\ i.kind = "br" => 1 \in DOMAIN i.use
                       /\ i.kind \in {"br", "jmp"} => d.at \in executable
  BY <1>1, ClosedStep
<1>4. executable \subseteq Blocks /\ \A b \in Blocks : SameOutline(b)
  BY <1>1, FoldReplaced DEF ExecutableClosed
<1>5. /\ c.pc \in DOMAIN blocks[c.at].ins
      /\ Skip(i, c, d) \/ Compute(i, c, d) \/ Finish(i, c, d) \/ Leave(blocks, i, c, d)
  BY DEF Step
<1>6. v = Const(v[2]) /\ v[2] = Fold(i0, [k \in DOMAIN i0.use |-> i0.use[k][2]])
  BY Constants DEF FoldedValue
<1>7. CASE c.at = a /\ c.pc = n
  <2>1. i = i0 /\ j.removed
    BY <1>1, <1>3, <1>7, FoldReplaced
  <2>2. ~IsTerminator(i0) /\ i0.kind # "ret" /\ i0.kind \notin {"br", "jmp"}
    BY <1>2 DEF Folds, FoldedKinds, IsTerminator
  <2>3. c.pc \in DOMAIN blocks'[c.at].ins
    BY <1>3, <1>4, <1>5, OutlineFields
  <2> HIDE DEF i, j, i0
  <2>4. Compute(i0, c, d)
    BY <1>2, <1>5, <2>1, <2>2 DEF Skip, Finish, Leave
  <2>5. PICK val \in Results(c.env, i0) : d.env = Assigned(c.env, x, val) /\ d.trace = c.trace
    <3>1. IsSilent(i0)
      BY <1>2 DEF IsSilent
    <3> QED
      BY <1>2, <2>4, <3>1 DEF Compute
  <2>6. val = v[2]
    <3>1. val = Fold(i0, Values(c.env, i0))
      BY <1>2, <2>5 DEF Results
    <3>2. Values(c.env, i0) = [k \in DOMAIN i0.use |-> i0.use[k][2]]
      BY <1>2 DEF Values, Value
    <3> QED
      BY <1>6, <3>1, <3>2
  <2>7. Holds(d, x, v)
    BY <2>5, <2>6 DEF Holds, Assigned
  <2>8. Cut(d, x).env = Cut(c, x).env
    <3>1. DOMAIN d.env = DOMAIN c.env \cup {x} /\ \A y \in DOMAIN c.env \ {x} : d.env[y] = c.env[y]
      BY <2>5 DEF Assigned
    <3>2. DOMAIN d.env \ {x} = DOMAIN c.env \ {x}
      BY <3>1
    <3>3. [y \in DOMAIN d.env \ {x} |-> d.env[y]] = [y \in DOMAIN c.env \ {x} |-> c.env[y]]
      BY <3>1, <3>2
    <3> QED
      BY <3>3 DEF Cut
  <2>9. d.at = c.at /\ d.pc = c.pc + 1 /\ d.trace = c.trace
    BY <2>4, <2>5 DEF Compute
  <2>10. Skip(j, Cut(c, x), Cut(d, x))
    BY <2>1, <2>8, <2>9 DEF Skip, Cut
  <2>11. Cut(c, x).at = c.at /\ Cut(c, x).pc = c.pc
    BY DEF Cut
  <2>12. Step(blocks', Cut(c, x), Cut(d, x))
    BY <1>3, <2>3, <2>10, <2>11 DEF Step, Blocks, j
  <2> QED
    BY <1>3, <2>7, <2>12
<1>8. CASE c.at # a \/ c.pc # n
  <2>1. /\ j.removed = i.removed
        /\ ~i.removed => \A m \in DOMAIN i.use : j.use[m] = Substituted(x, v, i.use[m])
    <3>1. /\ blocks'[c.at].ins[c.pc].removed = blocks[c.at].ins[c.pc].removed
          /\ ~blocks[c.at].ins[c.pc].removed => \A m \in DOMAIN blocks[c.at].ins[c.pc].use :
               blocks'[c.at].ins[c.pc].use[m] = Substituted(x, v, blocks[c.at].ins[c.pc].use[m])
      <4> HIDE DEF i0, i, j
      <4> QED
        BY <1>1, <1>3, <1>5, <1>8, FoldElsewhere
    <3> QED
      BY <3>1
  <2>2. \A b \in Blocks : \A k \in DOMAIN blocks[b].phi : \A m \in DOMAIN blocks[b].phi[k].val :
          blocks'[b].phi[k].val[m][1] = Substituted(x, v, blocks[b].phi[k].val[m][1])
    BY <1>1, FoldReplaced
  <2>3. \A y : SameReading(c, x, y, Substituted(x, v, y))
    BY <1>2, <1>6, SubstitutedReading
  <2>4. ~i.removed => ReadsSame(j, i, c, x)
    BY <2>1, <2>3 DEF ReadsSame
  <2>5. ~i.removed /\ IsTracked(i) => i.res # x
    <3>1. ~i.removed => c.pc \in LivePlaces(c.at)
      BY <1>5 DEF LivePlaces
    <3>2. \A b \in Blocks : \A k \in LivePlaces(b) :
            IsTracked(blocks[b].ins[k]) /\ (b # a \/ k # n) => blocks[b].ins[k].res # x
      <4> HIDE DEF i0, i, j
      <4> QED
        BY FoldedIs
    <3> QED
      BY <1>3, <1>8, <3>1, <3>2
  <2>6. ~i.removed /\ i.kind \in {"br", "jmp"} =>
          /\ d.at \in Blocks
          /\ \A k \in DOMAIN blocks[d.at].phi :
               /\ blocks[d.at].phi[k].res # x
               /\ \A m \in DOMAIN blocks[d.at].phi[k].val :
                    SameReading(c, x, blocks[d.at].phi[k].val[m][1], blocks'[d.at].phi[k].val[m][1])
    <3> SUFFICES ASSUME ~i.removed, i.kind \in {"br", "jmp"}, NEW k \in DOMAIN blocks[d.at].phi
                 PROVE  /\ blocks[d.at].phi[k].res # x
                        /\ \A m \in DOMAIN blocks[d.at].phi[k].val :
                             SameReading(c, x, blocks[d.at].phi[k].val[m][1], blocks'[d.at].phi[k].val[m][1])
      BY <1>3, <1>4
    <3>1. d.at \in Blocks
      BY <1>3, <1>4
    <3>2. \A m \in DOMAIN blocks[d.at].phi[k].val :
            blocks'[d.at].phi[k].val[m][1] = Substituted(x, v, blocks[d.at].phi[k].val[m][1])
      BY <2>2, <3>1
    <3> QED
      BY <1>2, <2>3, <3>1, <3>2
  <2>7. Holds(d, x, v)
    <3>1. Skip(i, c, d) \/ Finish(i, c, d) => Holds(d, x, v)
      <4> HIDE DEF i
      <4> QED
        BY DEF Skip, Finish, Holds
    <3>2. Compute(i, c, d) => Holds(d, x, v)
      <4> HIDE DEF i
      <4>1. Compute(i, c, d) => (IsTracked(i) => i.res # x)
        BY <2>5 DEF Compute
      <4> QED
        BY <4>1 DEF Compute, Holds, Assigned
    <3>3. Leave(blocks, i, c, d) => Holds(d, x, v)
      <4> SUFFICES ASSUME Leave(blocks, i, c, d) PROVE Holds(d, x, v)
        OBVIOUS
      <4>1. ~i.removed /\ i.kind \in {"br", "jmp"} /\ Arrive(ToSet(blocks[d.at].phi), c, d)
        BY DEF Leave
      <4>2. \A phi \in ToSet(blocks[d.at].phi) : phi.res # x
        BY <2>6, <4>1 DEF ToSet
      <4> QED
        BY <4>1, <4>2 DEF Arrive, Holds
    <3> QED
      BY <1>5, <3>1, <3>2, <3>3
  <2>8. ~i.removed /\ i.kind = "br" => 1 \in DOMAIN i.use
    BY <1>3
  <2> HIDE DEF i, j
  <2>9. i = blocks[c.at].ins[c.pc] /\ j = blocks'[c.at].ins[c.pc]
    BY DEF i, j
  <2>10. Step(blocks', Cut(c, x), Cut(d, x))
    <3>1. j.removed <=> i.removed
      BY <2>1
    <3>2. \A b \in Blocks : SameOutline(b)
      BY <1>4
    <3>3. Formed /\ Blocks' = Blocks /\ Step(blocks, c, d)
      BY <1>1
    <3> QED
      BY <2>4, <2>5, <2>6, <2>8, <2>9, <3>1, <3>2, <3>3, ReplacedStep
  <2> QED
    BY <1>3, <2>7, <2>10
<1> QED
  BY <1>7, <1>8

\* So every execution is one of it, and it does the same.
LEMMA FoldKeeps ==
  ASSUME RewritingInv, FoldConstant, NEW c, Reaches(blocks, c)
  PROVE  \E d : Reaches(blocks', d) /\ d.at = c.at /\ d.trace = c.trace
<1>1. phase = "fold" /\ Formed /\ ExecutableClosed
  BY DEF FoldConstant, RewritingInv
<1>2. PICK a, n : FoldsAt(a, n)
  BY <1>1, FoldPlace
<1> DEFINE x == blocks[a].ins[n].res
           v == FoldedValue(blocks[a].ins[n])
<1>3. x \notin ToSet(params)
  BY <1>1, <1>2, FoldedIs
<1>4. Blocks' = Blocks
  BY <1>2 DEF FoldsAt, Blocks
<1>5. PICK l \in Nat : \E run : Execution(blocks, run, l) /\ run[l] = c
  BY DEF Reaches
<1>6. PICK run : Execution(blocks, run, l) /\ run[l] = c
  BY <1>5
<1> HIDE DEF x, v
<1> DEFINE Kept(k) == /\ run[k].at \in executable \cup {Returned} /\ Holds(run[k], x, v)
                      /\ Reaches(blocks', Cut(run[k], x))
           S == {k \in 0 .. l : Kept(k)}
<1>7. 0 \in S
  <2>1. /\ run[0].at = 0 /\ run[0].pc = 1 /\ run[0].trace = << >>
        /\ DOMAIN run[0].env = ToSet(params)
    BY <1>6 DEF Execution
  <2>2. DOMAIN Cut(run[0], x).env = ToSet(params)
    BY <1>3, <2>1 DEF Cut
  <2>3. Cut(run[0], x).at = 0 /\ Cut(run[0], x).pc = 1 /\ Cut(run[0], x).trace = << >>
    BY <2>1 DEF Cut
  <2>4. Reaches(blocks', Cut(run[0], x))
    BY <2>2, <2>3, Begins
  <2>5. run[0].at \in executable
    BY <1>1, <2>1 DEF ExecutableClosed
  <2>6. Holds(run[0], x, v)
    BY <1>3, <2>1 DEF Holds
  <2> QED
    BY <2>4, <2>5, <2>6
<1>8. ASSUME NEW k \in S, k < l PROVE k + 1 \in S
  <2>1. k \in 0 .. l - 1 /\ k \in 0 .. l /\ k + 1 \in 0 .. l /\ Kept(k)
    BY <1>8
  <2>2. Step(blocks, run[k], run[k + 1])
    BY <1>6, <2>1 DEF Execution
  <2>3. /\ run[k + 1].at \in executable \cup {Returned} /\ Holds(run[k + 1], x, v)
        /\ Step(blocks', Cut(run[k], x), Cut(run[k + 1], x))
    BY <1>1, <1>2, <1>4, <2>1, <2>2, FoldStep DEF x, v
  <2>4. Reaches(blocks', Cut(run[k + 1], x))
    BY <2>1, <2>3, GoesOn
  <2> QED
    BY <2>1, <2>3, <2>4
<1>9. S \in SUBSET (0 .. l) /\ l \in 0 .. l
  OBVIOUS
<1> HIDE DEF S
<1>10. l \in S
  BY <1>7, <1>8, <1>9, UpTo
<1>11. Reaches(blocks', Cut(c, x))
  BY <1>6, <1>10 DEF S
<1>12. Cut(c, x).at = c.at /\ Cut(c, x).trace = c.trace
  BY DEF Cut
<1> QED
  BY <1>11, <1>12

\* What the rewriting rests on is kept.
LEMMA FoldInv ==
  ASSUME RewritingInv, FoldConstant
  PROVE  RewritingInv'
<1>1. phase = "fold" /\ Formed /\ ExecutableClosed /\ TerminatorsLast /\ DefinedOnce
  BY DEF FoldConstant, RewritingInv
<1>2. PICK a, n : FoldsAt(a, n)
  BY <1>1, FoldPlace
<1>3. Blocks' = Blocks /\ params' = params /\ phase' = phase /\ executable' = executable
  BY <1>2 DEF FoldsAt, Blocks, FoldConstant, sccpVars
<1> DEFINE x == blocks[a].ins[n].res
           v == FoldedValue(blocks[a].ins[n])
<1>4. IsVariable(x) /\ IsConstant(v)
  BY <1>1, <1>2, FoldedIs, Constants DEF FoldedValue
<1>5. ASSUME NEW b \in Blocks
      PROVE  /\ SameOutline(b)
             /\ b = a => blocks'[b].ins[n].removed
             /\ \A k \in DOMAIN blocks[b].ins : (b # a \/ k # n) =>
                  /\ blocks'[b].ins[k].removed = blocks[b].ins[k].removed
                  /\ ~blocks[b].ins[k].removed => \A m \in DOMAIN blocks[b].ins[k].use :
                       blocks'[b].ins[k].use[m] = Substituted(x, v, blocks[b].ins[k].use[m])
  BY <1>1, <1>2, FoldReplaced
<1> HIDE DEF x, v
<1>6. Formed' /\ TerminatorsLast' /\ DefinedOnce'
  BY <1>1, <1>3, <1>5, OutlineKept
<1>7. ASSUME NEW b \in executable, NEW j \in LiveIns(b)'
      PROVE  /\ j.kind = "jmp" => j.to[1] \in executable
             /\ j.kind = "br" =>
                  /\ 1 \in DOMAIN j.use
                  /\ IF IsConstant(j.use[1]) THEN j.to[IF j.use[1][2] # 0 THEN 1 ELSE 2] \in executable
                     ELSE j.to[1] \in executable /\ j.to[2] \in executable
  <2>1. b \in Blocks
    BY <1>1 DEF ExecutableClosed
  <2>2. PICK k \in LivePlaces(b)' : j = blocks'[b].ins[k]
    BY DEF LiveIns
  <2>3. k \in DOMAIN blocks'[b].ins /\ ~blocks'[b].ins[k].removed
    BY DEF LivePlaces
  <2>4. k \in DOMAIN blocks[b].ins
    BY <1>5, <2>1, <2>3, OutlineFields
  <2>5. b # a \/ k # n
    BY <1>5, <2>1, <2>3
  <2> DEFINE i == blocks[b].ins[k]
  <2>6. ~i.removed /\ \A m \in DOMAIN i.use : j.use[m] = Substituted(x, v, i.use[m])
    BY <1>5, <2>1, <2>2, <2>3, <2>4, <2>5
  <2>7. i \in LiveIns(b)
    BY <2>4, <2>6 DEF LiveIns, LivePlaces
  <2>8. j.kind = i.kind /\ j.to = i.to /\ DOMAIN j.use = DOMAIN i.use
    BY <1>5, <2>1, <2>2, <2>4, OutlineFields
  <2>9. /\ i.kind = "jmp" => i.to[1] \in executable
        /\ i.kind = "br" =>
             /\ 1 \in DOMAIN i.use
             /\ IF IsConstant(i.use[1]) THEN i.to[IF i.use[1][2] # 0 THEN 1 ELSE 2] \in executable
                ELSE i.to[1] \in executable /\ i.to[2] \in executable
    BY <1>1, <2>7 DEF ExecutableClosed
  <2> HIDE DEF i
  <2>10. CASE i.kind = "br" /\ IsConstant(i.use[1])
    <3>1. i.use[1] # x
      BY <1>4, <2>10 DEF IsVariable, IsConstant
    <3>2. j.use[1] = i.use[1]
      BY <2>6, <2>9, <2>10, <3>1 DEF Substituted
    <3> QED
      BY <2>8, <2>9, <2>10, <3>2
  <2>11. CASE ~(i.kind = "br" /\ IsConstant(i.use[1]))
    BY <2>8, <2>9, <2>11
  <2> QED
    BY <2>10, <2>11
<1>8. ExecutableClosed'
  BY <1>1, <1>3, <1>7 DEF ExecutableClosed
<1> QED
  BY <1>3, <1>6, <1>8 DEF RewritingInv

------------------------------------------------------------------------------
(* Step C: ConvertBranches.                                                   *)

\* The branch at place k of block b becomes a jump at the end of the block.
ConvertedAt(b, k) ==
  /\ b \in executable /\ k \in LivePlaces(b)
  /\ blocks[b].ins[k].kind = "br" /\ IsConstant(blocks[b].ins[k].use[1])
  /\ blocks'[b] = [phi |-> blocks[b].phi, ins |-> blocks'[b].ins]
  /\ IsSequence(blocks'[b].ins) /\ DOMAIN blocks'[b].ins = 1 .. Len(blocks[b].ins) + 1
  /\ \A m \in DOMAIN blocks[b].ins \ {k} : blocks'[b].ins[m] = blocks[b].ins[m]
  /\ blocks'[b].ins[k] = [blocks[b].ins[k] EXCEPT !.removed = TRUE]
  /\ blocks'[b].ins[Len(blocks[b].ins) + 1] =
       Jump(blocks[b].ins[k].to[IF blocks[b].ins[k].use[1][2] # 0 THEN 1 ELSE 2])

\* A jump appended.
LEMMA Appended ==
  ASSUME NEW q, IsSequence(q), NEW i
  PROVE  /\ IsSequence(Append(q, i)) /\ DOMAIN Append(q, i) = 1 .. Len(q) + 1
         /\ \A m \in DOMAIN q : Append(q, i)[m] = q[m]
         /\ Append(q, i)[Len(q) + 1] = i
<1> DEFINE S == {q[k] : k \in DOMAIN q} \cup {i}
           r == Append(q, i)
<1>1. Len(q) \in Nat /\ DOMAIN q = 1 .. Len(q) /\ q \in Seq({q[k] : k \in DOMAIN q})
  BY SequenceIs
<1>2. \A k \in 1 .. Len(q) : q[k] \in S
  BY <1>1
<1>3. i \in S
  OBVIOUS
<1> HIDE DEF S
<1>4. q \in [1 .. Len(q) -> S]
  BY <1>1, <1>2 DEF IsSequence
<1>5. q \in Seq(S)
  BY <1>1, <1>4, SeqDef
<1>6. /\ r \in Seq(S) /\ Len(r) = Len(q) + 1
      /\ \A m \in 1 .. Len(q) : r[m] = q[m]
      /\ r[Len(q) + 1] = i
  BY <1>3, <1>5, AppendProperties
<1> HIDE DEF r
<1>7. IsSequence(r) /\ DOMAIN r = 1 .. Len(q) + 1
  BY <1>1, <1>6 DEF IsSequence
<1> QED
  BY <1>1, <1>6, <1>7 DEF r

LEMMA Converts ==
  ASSUME ConvertBranches, Formed, NEW b \in Blocks
  PROVE  blocks'[b] = blocks[b] \/ \E k : ConvertedAt(b, k)
<1> DEFINE block == blocks[b]
           hit == {k \in DOMAIN block.ins :
                     ~block.ins[k].removed /\ block.ins[k].kind = "br" /\ IsConstant(block.ins[k].use[1])}
           k == CHOOSE n \in hit : \A m \in hit : n <= m
           i == block.ins[k]
           marked == [block.ins EXCEPT ![k].removed = TRUE]
           target == IF i.use[1][2] # 0 THEN i.to[1] ELSE i.to[2]
<1>1. blocks'[b] = IF b \in executable
                   THEN IF hit = {} THEN block ELSE [block EXCEPT !.ins = Append(marked, Jump(target))]
                   ELSE block
  BY DEF ConvertBranches, ConvertBranch
<1>2. CASE b \notin executable \/ hit = {}
  BY <1>1, <1>2
<1>3. CASE b \in executable /\ hit # {}
  <2>1. IsSequence(block.ins) /\ block = [phi |-> block.phi, ins |-> block.ins]
    BY DEF Formed
  <2>2. Len(block.ins) \in Nat /\ DOMAIN block.ins = 1 .. Len(block.ins)
    BY <2>1, SequenceIs
  <2>3. hit \in SUBSET Nat
    BY <2>2
  <2>4. k \in hit
    <3> HIDE DEF hit
    <3>1. \E n \in hit : \A m \in hit : n <= m
      BY <1>3, <2>3, Least
    <3> QED
      BY <3>1
  <2>5. k \in LivePlaces(b) /\ i.kind = "br" /\ IsConstant(i.use[1]) /\ k \in DOMAIN block.ins
    BY <2>4 DEF LivePlaces
  <2>6. blocks'[b] = [block EXCEPT !.ins = Append(marked, Jump(target))]
    BY <1>1, <1>3
  <2> HIDE DEF k, hit
  <2>7. /\ marked = [m \in DOMAIN block.ins |-> marked[m]]
        /\ marked[k] = [i EXCEPT !.removed = TRUE]
        /\ \A m \in DOMAIN block.ins \ {k} : marked[m] = block.ins[m]
    BY <2>5
  <2> HIDE DEF marked, target, block
  <2>8. IsSequence(marked) /\ DOMAIN marked = DOMAIN block.ins
    BY <2>1, <2>7, SequenceMade
  <2>9. Len(marked) = Len(block.ins)
    <3>1. Len(marked) \in Nat /\ DOMAIN marked = 1 .. Len(marked)
      BY <2>8, SequenceIs
    <3> QED
      BY <2>2, <2>8, <3>1
  <2> DEFINE longer == Append(marked, Jump(target))
  <2>10. /\ IsSequence(longer) /\ DOMAIN longer = 1 .. Len(block.ins) + 1
         /\ \A m \in DOMAIN block.ins : longer[m] = marked[m]
         /\ longer[Len(block.ins) + 1] = Jump(target)
    BY <2>8, <2>9, Appended
  <2>11. blocks'[b] = [block EXCEPT !.ins = longer]
    BY <2>6
  <2> HIDE DEF longer
  <2>12. blocks'[b] = [phi |-> block.phi, ins |-> longer]
    BY <2>1, <2>11
  <2>13. blocks'[b].ins = longer
    BY <2>12
  <2>14. target = i.to[IF i.use[1][2] # 0 THEN 1 ELSE 2]
    BY DEF target
  <2>15. \A m \in DOMAIN block.ins \ {k} : longer[m] = block.ins[m]
    BY <2>7, <2>10
  <2>16. longer[k] = [i EXCEPT !.removed = TRUE]
    BY <2>5, <2>7, <2>10
  <2>17. ConvertedAt(b, k)
    BY <1>3, <2>5, <2>10, <2>12, <2>13, <2>14, <2>15, <2>16 DEF ConvertedAt, block
  <2> QED
    BY <2>17
<1> QED
  BY <1>2, <1>3

LEMMA JumpFields ==
  ASSUME NEW t
  PROVE  /\ Jump(t) = [kind |-> "jmp", op |-> "", uns |-> FALSE, res |-> NoName, use |-> <<>>,
                       to |-> <<t>>, removed |-> FALSE]
         /\ Jump(t).kind = "jmp" /\ Jump(t).to[1] = t /\ ~Jump(t).removed
  BY DEF Jump, Ins

\* Every step of an execution can be done after the conversion.
LEMMA ConvertStep ==
  ASSUME RewritingInv, ConvertBranches, NEW c, NEW d, c.at \in executable \cup {Returned},
         Step(blocks, c, d), Reaches(blocks', c)
  PROVE  Reaches(blocks', d) /\ d.at \in executable \cup {Returned}
<1>1. phase = "fold" /\ Formed /\ ExecutableClosed /\ TerminatorsLast
  BY DEF ConvertBranches, RewritingInv
<1>2. Blocks' = Blocks /\ executable \subseteq Blocks
  BY <1>1 DEF ConvertBranches, Blocks, ExecutableClosed
<1> DEFINE i == blocks[c.at].ins[c.pc]
<1>3. /\ c.at \in executable /\ c.at \in Blocks /\ d.at \in executable \cup {Returned}
      /\ ~i.removed => /\ i.kind = "br" => 1 \in DOMAIN i.use
                       /\ i.kind \in {"br", "jmp"} => d.at \in executable
  BY <1>1, ClosedStep
<1>4. /\ c.pc \in DOMAIN blocks[c.at].ins
      /\ Skip(i, c, d) \/ Compute(i, c, d) \/ Finish(i, c, d) \/ Leave(blocks, i, c, d)
  BY DEF Step
<1>5. \A b \in Blocks : blocks'[b].phi = blocks[b].phi
  <2> SUFFICES ASSUME NEW b \in Blocks PROVE blocks'[b].phi = blocks[b].phi
    OBVIOUS
  <2>1. CASE blocks'[b] = blocks[b]
    BY <2>1
  <2>2. CASE \E k : ConvertedAt(b, k)
    <3>1. blocks'[b] = [phi |-> blocks[b].phi, ins |-> blocks'[b].ins]
      BY <2>2 DEF ConvertedAt
    <3> QED
      BY <3>1
  <2> QED
    BY <1>1, <2>1, <2>2, Converts
<1>6. IsSequence(blocks[c.at].ins)
  BY <1>1, <1>3 DEF Formed
<1>7. Len(blocks[c.at].ins) \in Nat /\ DOMAIN blocks[c.at].ins = 1 .. Len(blocks[c.at].ins)
  BY <1>6, SequenceIs
<1>8. CASE blocks'[c.at] = blocks[c.at] \/ \E k : ConvertedAt(c.at, k) /\ k # c.pc
  <2>1. c.pc \in DOMAIN blocks'[c.at].ins /\ blocks'[c.at].ins[c.pc] = i
    <3>1. CASE blocks'[c.at] = blocks[c.at]
      BY <1>4, <3>1
    <3>2. CASE \E k : ConvertedAt(c.at, k) /\ k # c.pc
      <4>1. PICK k : ConvertedAt(c.at, k) /\ k # c.pc
        BY <3>2
      <4>2. DOMAIN blocks'[c.at].ins = 1 .. Len(blocks[c.at].ins) + 1
        BY <4>1 DEF ConvertedAt
      <4>3. c.pc \in DOMAIN blocks[c.at].ins \ {k}
        BY <1>4, <4>1
      <4>4. blocks'[c.at].ins[c.pc] = i
        BY <4>1, <4>3 DEF ConvertedAt
      <4> QED
        BY <1>4, <1>7, <4>2, <4>4
    <3> QED
      BY <1>8, <3>1, <3>2
  <2> HIDE DEF i
  <2>2. Leave(blocks, i, c, d) => Leave(blocks', i, c, d)
    <3>1. Leave(blocks, i, c, d) => d.at \in Blocks
      BY <1>2, <1>3 DEF Leave
    <3> QED
      BY <1>5, <3>1 DEF Leave
  <2>3. Step(blocks', c, d)
    BY <1>2, <1>3, <1>4, <2>1, <2>2 DEF Step, Blocks
  <2> QED
    BY <1>3, <2>3, GoesOn
<1>9. CASE ConvertedAt(c.at, c.pc)
  <2> DEFINE N == Len(blocks[c.at].ins) + 1
             q2 == blocks'[c.at].ins
             jump == q2[N]
  <2>1. /\ ~i.removed /\ i.kind = "br" /\ IsConstant(i.use[1])
        /\ c.pc \in LivePlaces(c.at)
    BY <1>9 DEF ConvertedAt, LivePlaces
  <2>13. DOMAIN q2 = 1 .. N /\ q2[N] = Jump(i.to[IF i.use[1][2] # 0 THEN 1 ELSE 2])
    <3> HIDE DEF i
    <3> QED
      BY <1>9 DEF ConvertedAt, i
  <2>2. \A m \in c.pc .. N - 1 : m \in DOMAIN q2 /\ q2[m].removed
    <3> SUFFICES ASSUME NEW m \in c.pc .. N - 1 PROVE m \in DOMAIN q2 /\ q2[m].removed
      OBVIOUS
    <3>1. m \in DOMAIN blocks[c.at].ins /\ c.pc \in Nat
      BY <1>4, <1>7
    <3>2. m \in DOMAIN q2
      <4>1. m \in 1 .. Len(blocks[c.at].ins)
        BY <1>7, <3>1
      <4>2. m \in 1 .. N
        BY <1>7, <4>1
      <4> HIDE DEF q2, N, i
      <4> QED
        BY <2>13, <4>2
    <3>3. CASE m = c.pc
      <4>1. q2[m] = [i EXCEPT !.removed = TRUE]
        BY <1>9, <3>3 DEF ConvertedAt
      <4>2. i = [kind |-> i.kind, op |-> i.op, uns |-> i.uns, res |-> i.res,
                 use |-> i.use, to |-> i.to, removed |-> i.removed]
        BY <1>1, <1>3, <1>4, FormedPlaces
      <4> HIDE DEF i, q2
      <4>3. [i EXCEPT !.removed = TRUE] =
              [kind |-> i.kind, op |-> i.op, uns |-> i.uns, res |-> i.res, use |-> i.use,
               to |-> i.to, removed |-> TRUE]
        BY <4>2, RemovedMarked
      <4>4. q2[m].removed
        BY <4>1, <4>3
      <4> QED
        BY <3>2, <4>4
    <3>4. CASE m # c.pc
      <4>1. q2[m] = blocks[c.at].ins[m]
        BY <1>9, <3>1, <3>4 DEF ConvertedAt
      <4>2. IsTerminator(i)
        BY <2>1 DEF IsTerminator
      <4>3. m \notin LivePlaces(c.at)
        <5>1. m \in LivePlaces(c.at) => m <= c.pc
          BY <1>1, <1>3, <2>1, <4>2 DEF TerminatorsLast
        <5>2. ~(m <= c.pc)
          BY <3>1, <3>4
        <5> QED
          BY <5>1, <5>2
      <4>4. blocks[c.at].ins[m].removed
        BY <3>1, <4>3 DEF LivePlaces
      <4> QED
        BY <3>2, <4>1, <4>4
    <3> QED
      BY <3>3, <3>4
  <2>3. c.pc \in Nat /\ N \in Nat /\ c.pc <= N
    BY <1>4, <1>7
  <2>4. PICK e : Reaches(blocks', e) /\ e.at = c.at /\ e.pc = N /\ e.env = c.env /\ e.trace = c.trace
    <3> HIDE DEF N
    <3>1. c.at \in DOMAIN blocks'
      BY <1>2, <1>3 DEF Blocks
    <3>2. \A m \in c.pc .. N - 1 :
            m \in DOMAIN blocks'[c.at].ins /\ blocks'[c.at].ins[m].removed
      BY <2>2
    <3>3. Reaches(blocks', c)
      OBVIOUS
    <3> HIDE DEF q2, jump
    <3> QED
      BY <2>3, <3>1, <3>2, <3>3, SkipsTo
  <2>5. /\ jump = Jump(i.to[IF i.use[1][2] # 0 THEN 1 ELSE 2])
        /\ N \in DOMAIN q2
    <3>1. N \in 1 .. N
      BY <1>7
    <3> HIDE DEF N, q2, i
    <3> QED
      BY <2>13, <3>1
  <2>6. /\ jump.kind = "jmp" /\ ~jump.removed
        /\ jump.to[1] = i.to[IF i.use[1][2] # 0 THEN 1 ELSE 2]
    BY <2>5, JumpFields
  <2> HIDE DEF i
  <2>7. Leave(blocks, i, c, d)
    <3>1. IsTerminator(i) /\ i.kind # "ret"
      BY <2>1 DEF IsTerminator
    <3> QED
      BY <1>4, <2>1, <3>1 DEF Skip, Compute, Finish
  <2>8. /\ d.at = i.to[IF i.use[1][2] # 0 THEN 1 ELSE 2] /\ d.pc = 1 /\ d.trace = c.trace
        /\ Arrive(ToSet(blocks[d.at].phi), c, d)
    BY <2>1, <2>7 DEF Leave, Value
  <2>9. d.at \in Blocks
    BY <1>2, <1>3, <2>1
  <2>10. Arrive(ToSet(blocks'[d.at].phi), e, d)
    <3>1. blocks'[d.at].phi = blocks[d.at].phi
      BY <1>5, <2>9
    <3>2. Arrive(ToSet(blocks'[d.at].phi), c, d)
      BY <2>8, <3>1
    <3> QED
      BY <2>4, <3>2 DEF Arrive
  <2>11. Leave(blocks', jump, e, d)
    BY <2>4, <2>6, <2>8, <2>10 DEF Leave
  <2>12. Step(blocks', e, d)
    BY <1>2, <1>3, <2>4, <2>5, <2>11 DEF Step, Blocks
  <2> QED
    BY <1>3, <2>4, <2>12, GoesOn
<1> QED
  BY <1>1, <1>3, <1>8, <1>9, Converts

LEMMA ConvertKeeps ==
  ASSUME RewritingInv, ConvertBranches, NEW c, Reaches(blocks, c)
  PROVE  \E d : Reaches(blocks', d) /\ d.at = c.at /\ d.trace = c.trace
<1>1. 0 \in executable
  BY DEF ConvertBranches, RewritingInv, ExecutableClosed
<1>2. PICK l \in Nat : \E run : Execution(blocks, run, l) /\ run[l] = c
  BY DEF Reaches
<1>3. PICK run : Execution(blocks, run, l) /\ run[l] = c
  BY <1>2
<1> DEFINE S == {k \in 0 .. l : run[k].at \in executable \cup {Returned} /\ Reaches(blocks', run[k])}
<1>4. 0 \in S
  <2>1. /\ run[0].at = 0 /\ run[0].pc = 1 /\ run[0].trace = << >>
        /\ DOMAIN run[0].env = ToSet(params)
    BY <1>3 DEF Execution
  <2>2. Reaches(blocks', run[0])
    BY <2>1, Begins
  <2> QED
    BY <1>1, <2>1, <2>2
<1>5. ASSUME NEW k \in S, k < l PROVE k + 1 \in S
  <2>1. k \in 0 .. l - 1 /\ k + 1 \in 0 .. l /\ run[k].at \in executable \cup {Returned}
        /\ Reaches(blocks', run[k])
    BY <1>5
  <2>2. Step(blocks, run[k], run[k + 1])
    BY <1>3, <2>1 DEF Execution
  <2> QED
    BY <2>1, <2>2, ConvertStep
<1>6. S \in SUBSET (0 .. l) /\ l \in 0 .. l
  OBVIOUS
<1> HIDE DEF S
<1>7. l \in S
  BY <1>4, <1>5, <1>6, UpTo
<1> QED
  BY <1>3, <1>7 DEF S

\* What the last step rests on is kept.
LEMMA ConvertInv ==
  ASSUME RewritingInv, ConvertBranches
  PROVE  RewritingInv'
<1>1. phase = "fold" /\ Formed /\ ExecutableClosed
  BY DEF ConvertBranches, RewritingInv
<1>2. Blocks' = Blocks /\ executable \subseteq Blocks /\ phase' = "dead" /\ executable' = executable
  BY <1>1 DEF ConvertBranches, Blocks, ExecutableClosed, sccpVars
<1>3. ASSUME NEW b \in Blocks
      PROVE  /\ blocks'[b] = [phi |-> blocks'[b].phi, ins |-> blocks'[b].ins]
             /\ blocks'[b].phi = blocks[b].phi
             /\ IsSequence(blocks'[b].ins)
  <2>1. CASE blocks'[b] = blocks[b]
    BY <1>1, <2>1 DEF Formed
  <2>2. CASE \E k : ConvertedAt(b, k)
    <3>1. /\ blocks'[b] = [phi |-> blocks[b].phi, ins |-> blocks'[b].ins]
          /\ IsSequence(blocks'[b].ins)
      BY <2>2 DEF ConvertedAt
    <3>2. blocks'[b].phi = blocks[b].phi
      BY <3>1
    <3> QED
      BY <3>1, <3>2
  <2> QED
    BY <1>1, <2>1, <2>2, Converts
<1> DEFINE Marked(b, m) == [blocks[b].ins[m] EXCEPT !.removed = TRUE]
\* An instruction of the new block is one of the old, perhaps removed, or the jump.
<1>4. ASSUME NEW b \in Blocks, NEW m \in DOMAIN blocks'[b].ins
      PROVE  \/ m \in DOMAIN blocks[b].ins /\ blocks'[b].ins[m] = blocks[b].ins[m]
             \/ m \in DOMAIN blocks[b].ins /\ blocks'[b].ins[m] = Marked(b, m)
             \/ \E i \in LiveIns(b) :
                  /\ b \in executable /\ i.kind = "br" /\ IsConstant(i.use[1])
                  /\ blocks'[b].ins[m] = Jump(i.to[IF i.use[1][2] # 0 THEN 1 ELSE 2])
  <2>1. CASE blocks'[b] = blocks[b]
    BY <2>1
  <2>2. CASE \E k : ConvertedAt(b, k)
    <3>1. PICK k : ConvertedAt(b, k)
      BY <2>2
    <3>2. IsSequence(blocks[b].ins)
      BY <1>1 DEF Formed
    <3>3. Len(blocks[b].ins) \in Nat /\ DOMAIN blocks[b].ins = 1 .. Len(blocks[b].ins)
      BY <3>2, SequenceIs
    <3>4. DOMAIN blocks'[b].ins = 1 .. Len(blocks[b].ins) + 1
      BY <3>1 DEF ConvertedAt
    <3>5. m \in DOMAIN blocks[b].ins \/ m = Len(blocks[b].ins) + 1
      BY <3>3, <3>4
    <3>6. CASE m \in DOMAIN blocks[b].ins /\ m # k
      <4>1. blocks'[b].ins[m] = blocks[b].ins[m]
        BY <3>1, <3>6 DEF ConvertedAt
      <4> QED
        BY <3>6, <4>1
    <3>7. CASE m \in DOMAIN blocks[b].ins /\ m = k
      <4>1. blocks'[b].ins[m] = Marked(b, m)
        BY <3>1, <3>7 DEF ConvertedAt
      <4> QED
        BY <3>7, <4>1
    <3>8. CASE m = Len(blocks[b].ins) + 1
      <4> DEFINE i == blocks[b].ins[k]
      <4>1. b \in executable /\ i \in LiveIns(b) /\ i.kind = "br" /\ IsConstant(i.use[1])
        BY <3>1 DEF ConvertedAt, LiveIns
      <4>2. blocks'[b].ins[m] = Jump(i.to[IF i.use[1][2] # 0 THEN 1 ELSE 2])
        <5> HIDE DEF i
        <5> QED
          BY <3>1, <3>8 DEF ConvertedAt, i
      <4> HIDE DEF i
      <4> QED
        BY <4>1, <4>2
    <3> QED
      BY <3>5, <3>6, <3>7, <3>8
  <2> QED
    BY <1>1, <2>1, <2>2, Converts
<1>5. ASSUME NEW b \in Blocks, NEW m \in DOMAIN blocks[b].ins,
             NEW j, j = Marked(b, m)
      PROVE  /\ j = [kind |-> j.kind, op |-> j.op, uns |-> j.uns, res |-> j.res, use |-> j.use,
                     to |-> j.to, removed |-> j.removed]
             /\ j.removed
  <2> DEFINE i == blocks[b].ins[m]
  <2>1. i = [kind |-> i.kind, op |-> i.op, uns |-> i.uns, res |-> i.res, use |-> i.use,
             to |-> i.to, removed |-> i.removed]
    BY <1>1, FormedPlaces
  <2>2. j = [i EXCEPT !.removed = TRUE]
    BY <1>5
  <2> HIDE DEF i
  <2>3. j = [kind |-> i.kind, op |-> i.op, uns |-> i.uns, res |-> i.res, use |-> i.use,
             to |-> i.to, removed |-> TRUE]
    BY <2>1, <2>2, RemovedMarked
  <2>4. /\ j.kind = i.kind /\ j.op = i.op /\ j.uns = i.uns /\ j.res = i.res /\ j.use = i.use
        /\ j.to = i.to /\ j.removed = TRUE
    BY <2>3
  <2> QED
    BY <2>3, <2>4
<1> HIDE DEF Marked
<1>6. ASSUME NEW b \in Blocks, NEW j \in ToSet(blocks'[b].ins)
      PROVE  j = [kind |-> j.kind, op |-> j.op, uns |-> j.uns, res |-> j.res, use |-> j.use,
                  to |-> j.to, removed |-> j.removed]
  <2>1. PICK m \in DOMAIN blocks'[b].ins : j = blocks'[b].ins[m]
    BY DEF ToSet
  <2>2. CASE m \in DOMAIN blocks[b].ins /\ j = blocks[b].ins[m]
    BY <1>1, <2>2, FormedPlaces
  <2>3. CASE m \in DOMAIN blocks[b].ins /\ j = Marked(b, m)
    BY <1>5, <2>3
  <2>4. CASE \E t : j = Jump(t)
    <3>1. PICK t : j = Jump(t)
      BY <2>4
    <3>2. j = [kind |-> "jmp", op |-> "", uns |-> FALSE, res |-> NoName, use |-> <<>>,
               to |-> <<t>>, removed |-> FALSE]
      BY <3>1, JumpFields
    <3> QED
      BY <3>2
  <2> QED
    BY <1>4, <2>1, <2>2, <2>3, <2>4
<1>7. Formed'
  <2>1. \A b \in Blocks : \A phi \in ToSet(blocks'[b].phi) :
          phi = [res |-> phi.res, val |-> phi.val] /\ IsSequence(phi.val)
    BY <1>1, <1>3 DEF Formed
  <2>2. \A b \in Blocks : IsSequence(blocks'[b].phi)
    BY <1>1, <1>3 DEF Formed
  <2>3. (\A b \in Blocks :
           /\ blocks[b] = [phi |-> blocks[b].phi, ins |-> blocks[b].ins]
           /\ IsSequence(blocks[b].ins) /\ IsSequence(blocks[b].phi)
           /\ \A i \in ToSet(blocks[b].ins) :
                i = [kind |-> i.kind, op |-> i.op, uns |-> i.uns, res |-> i.res, use |-> i.use,
                     to |-> i.to, removed |-> i.removed]
           /\ \A phi \in ToSet(blocks[b].phi) :
                phi = [res |-> phi.res, val |-> phi.val] /\ IsSequence(phi.val))'
    BY <1>2, <1>3, <1>6, <2>1, <2>2
  <2>4. (Cardinality(Blocks) \in Nat /\ Blocks = 0 .. Cardinality(Blocks) - 1)'
    BY <1>1, <1>2 DEF Formed
  <2> QED
    BY <2>3, <2>4 DEF Formed
<1>8. ASSUME NEW b \in executable, NEW j \in LiveIns(b)'
      PROVE  /\ j.kind = "jmp" => j.to[1] \in executable
             /\ j.kind = "br" =>
                  /\ 1 \in DOMAIN j.use
                  /\ IF IsConstant(j.use[1]) THEN j.to[IF j.use[1][2] # 0 THEN 1 ELSE 2] \in executable
                     ELSE j.to[1] \in executable /\ j.to[2] \in executable
  <2>1. b \in Blocks
    BY <1>2
  <2>2. PICK m \in LivePlaces(b)' : j = blocks'[b].ins[m]
    BY DEF LiveIns
  <2>3. m \in DOMAIN blocks'[b].ins /\ ~j.removed
    BY <2>2 DEF LivePlaces
  <2>4. CASE m \in DOMAIN blocks[b].ins /\ j = blocks[b].ins[m]
    <3>1. j \in LiveIns(b)
      BY <2>3, <2>4 DEF LiveIns, LivePlaces
    <3> QED
      BY <1>1, <3>1 DEF ExecutableClosed
  <2>5. CASE m \in DOMAIN blocks[b].ins /\ j = Marked(b, m)
    BY <1>5, <2>1, <2>3, <2>5
  <2>6. CASE \E i \in LiveIns(b) :
               /\ i.kind = "br" /\ IsConstant(i.use[1])
               /\ j = Jump(i.to[IF i.use[1][2] # 0 THEN 1 ELSE 2])
    <3>1. PICK i \in LiveIns(b) : /\ i.kind = "br" /\ IsConstant(i.use[1])
                                  /\ j = Jump(i.to[IF i.use[1][2] # 0 THEN 1 ELSE 2])
      BY <2>6
    <3>2. i.to[IF i.use[1][2] # 0 THEN 1 ELSE 2] \in executable
      BY <1>1, <3>1 DEF ExecutableClosed
    <3>3. j.kind = "jmp" /\ j.to[1] = i.to[IF i.use[1][2] # 0 THEN 1 ELSE 2]
      BY <3>1, JumpFields
    <3> QED
      BY <3>2, <3>3
  <2> QED
    BY <1>4, <2>1, <2>2, <2>3, <2>4, <2>5, <2>6
<1>9. ExecutableClosed'
  BY <1>1, <1>2, <1>8 DEF ExecutableClosed
<1> QED
  BY <1>2, <1>7, <1>9 DEF RewritingInv

------------------------------------------------------------------------------
(* Step D: RemoveDead.                                                        *)

\* Selected is the last of the sequences after 0, 1, ... Len(q) places.
SelectTrace(f, q, K) ==
  f = [k \in 0 .. Len(q) |->
         IF k = 0 THEN <<>> ELSE IF k \in K THEN Append(f[k - 1], q[k]) ELSE f[k - 1]]

LEMMA SelectTraceExists ==
  ASSUME NEW q, NEW K, Len(q) \in Nat
  PROVE  \E f : SelectTrace(f, q, K) /\ Selected(q, K) = f[Len(q)]
<1> DEFINE Upto(f, n) ==
             f = [k \in 0 .. n |->
                    IF k = 0 THEN <<>> ELSE IF k \in K THEN Append(f[k - 1], q[k]) ELSE f[k - 1]]
           S == {n \in 0 .. Len(q) : \E f : Upto(f, n)}
<1>1. 0 \in S
  <2>1. Upto([k \in 0 .. 0 |-> <<>>], 0)
    OBVIOUS
  <2>2. 0 \in 0 .. Len(q)
    OBVIOUS
  <2> HIDE DEF Upto
  <2> QED
    BY <2>1, <2>2
<1>2. ASSUME NEW n \in S, n < Len(q) PROVE n + 1 \in S
  <2>1. PICK f : Upto(f, n)
    OBVIOUS
  <2> DEFINE last == IF n + 1 \in K THEN Append(f[n], q[n + 1]) ELSE f[n]
             g == [k \in 0 .. n + 1 |-> IF k <= n THEN f[k] ELSE last]
  <2>2. Upto(g, n + 1)
    <3>1. n \in Nat /\ n \in 0 .. n
      OBVIOUS
    <3> SUFFICES ASSUME NEW k \in 0 .. n + 1
                 PROVE  g[k] = IF k = 0 THEN <<>>
                               ELSE IF k \in K THEN Append(g[k - 1], q[k]) ELSE g[k - 1]
      OBVIOUS
    <3>2. CASE k = n + 1
      <4>1. g[k - 1] = f[n] /\ k # 0 /\ ~(k <= n)
        BY <3>1, <3>2
      <4>2. g[k] = last
        BY <4>1
      <4>3. last = IF k \in K THEN Append(f[n], q[k]) ELSE f[n]
        BY <3>2
      <4> HIDE DEF g, last
      <4> QED
        BY <4>1, <4>2, <4>3
    <3>3. CASE k \in 0 .. n /\ k # 0
      <4>1. k - 1 \in 0 .. n /\ k - 1 <= n /\ k <= n /\ k - 1 \in 0 .. n + 1
        BY <3>1, <3>3
      <4>2. g[k] = f[k] /\ g[k - 1] = f[k - 1]
        BY <4>1
      <4>3. f[k] = IF k = 0 THEN <<>> ELSE IF k \in K THEN Append(f[k - 1], q[k]) ELSE f[k - 1]
        BY <2>1, <3>3
      <4> HIDE DEF g
      <4> QED
        BY <3>3, <4>2, <4>3
    <3>4. CASE k = 0
      <4>1. g[0] = f[0] /\ f[0] = <<>>
        BY <2>1, <3>1
      <4> QED
        BY <3>4, <4>1
    <3> QED
      BY <3>1, <3>2, <3>3, <3>4
  <2>3. n + 1 \in 0 .. Len(q)
    BY <1>2
  <2> HIDE DEF Upto, g
  <2> QED
    BY <2>2, <2>3
<1>3. \E f : Upto(f, Len(q))
  <2>1. S \in SUBSET (0 .. Len(q))
    OBVIOUS
  <2>2. Len(q) \in 0 .. Len(q)
    OBVIOUS
  <2> HIDE DEF S, Upto
  <2>3. Len(q) \in S
    BY <1>1, <1>2, <2>1, <2>2, UpTo
  <2> QED
    BY <2>3 DEF S
<1> DEFINE kept == CHOOSE f : Upto(f, Len(q))
<1>4. Upto(kept, Len(q))
  BY <1>3
<1>5. Selected(q, K) = kept[Len(q)]
  BY DEF Selected
<1> QED
  BY <1>4, <1>5 DEF SelectTrace

\* What is at a place in K stays.
LEMMA SelectedStays ==
  ASSUME NEW q, IsSequence(q), NEW K, NEW k \in DOMAIN q, k \in K
  PROVE  q[k] \in ToSet(Selected(q, K))
<1>1. Len(q) \in Nat /\ DOMAIN q = 1 .. Len(q)
  BY SequenceIs
<1>2. PICK f : SelectTrace(f, q, K) /\ Selected(q, K) = f[Len(q)]
  BY <1>1, SelectTraceExists
<1> DEFINE S == {q[n] : n \in DOMAIN q}
           Found(n) == f[n] \in Seq(S) /\ (k <= n => \E m \in 1 .. Len(f[n]) : f[n][m] = q[k])
           T == {n \in 0 .. Len(q) : Found(n)}
<1>3. \A n \in 1 .. Len(q) : q[n] \in S
  BY <1>1
<1> HIDE DEF S
<1>4. 0 \in T
  <2>1. 0 \in 0 .. Len(q)
    BY <1>1
  <2>2. f[0] = <<>>
    BY <1>2, <2>1 DEF SelectTrace
  <2>3. f[0] \in Seq(S) /\ ~(k <= 0)
    BY <1>1, <2>2
  <2> QED
    BY <2>1, <2>3
<1>5. ASSUME NEW n \in T, n < Len(q) PROVE n + 1 \in T
  <2>1. n \in Nat /\ n + 1 \in 0 .. Len(q) /\ n + 1 \in 1 .. Len(q) /\ n + 1 # 0 /\ (n + 1) - 1 = n
    BY <1>1, <1>5
  <2>2. f[n + 1] = IF n + 1 \in K THEN Append(f[n], q[n + 1]) ELSE f[n]
    BY <1>2, <2>1 DEF SelectTrace
  <2>3. Found(n)
    BY <1>5
  <2>4. CASE n + 1 \notin K
    <3>1. k <= n + 1 => k <= n
      <4>1. k # n + 1 /\ k \in Nat
        BY <1>1, <2>4
      <4> QED
        BY <2>1, <4>1
    <3> QED
      BY <2>1, <2>2, <2>3, <2>4, <3>1
  <2>5. CASE n + 1 \in K
    <3> DEFINE s == f[n]
               t == Append(f[n], q[n + 1])
    <3>1. /\ t \in Seq(S) /\ Len(t) = Len(s) + 1 /\ Len(s) \in Nat
          /\ \A m \in 1 .. Len(s) : t[m] = s[m]
          /\ t[Len(s) + 1] = q[n + 1]
      BY <1>3, <2>1, <2>3, AppendProperties
    <3>2. f[n + 1] = t
      BY <2>2, <2>5
    <3>3. k <= n => \E m \in 1 .. Len(s) : s[m] = q[k]
      BY <2>3
    <3> HIDE DEF s, t
    <3>4. ASSUME k <= n + 1 PROVE \E m \in 1 .. Len(t) : t[m] = q[k]
      <4>1. CASE k = n + 1
        <5>1. Len(t) \in 1 .. Len(t) /\ t[Len(t)] = q[k]
          BY <3>1, <4>1
        <5> QED
          BY <5>1
      <4>2. CASE k <= n
        <5>1. PICK m \in 1 .. Len(s) : s[m] = q[k]
          BY <3>3, <4>2
        <5>2. m \in 1 .. Len(t) /\ t[m] = q[k]
          BY <3>1, <5>1
        <5> QED
          BY <5>2
      <4>3. k \in Nat
        BY <1>1
      <4> QED
        BY <2>1, <3>4, <4>1, <4>2, <4>3
    <3> QED
      BY <2>1, <3>1, <3>2, <3>4
  <2> QED
    BY <2>4, <2>5
<1>6. T \in SUBSET (0 .. Len(q)) /\ Len(q) \in 0 .. Len(q)
  BY <1>1
<1> HIDE DEF T
<1>7. Len(q) \in T
  BY <1>1, <1>4, <1>5, <1>6, UpTo
<1>8. Found(Len(q))
  BY <1>7 DEF T
<1>9. k <= Len(q)
  BY <1>1
<1>10. PICK m \in 1 .. Len(f[Len(q)]) : f[Len(q)][m] = q[k]
  BY <1>8, <1>9
<1>11. m \in DOMAIN f[Len(q)]
  BY <1>8
<1> QED
  BY <1>2, <1>10, <1>11 DEF ToSet

\* And nothing else comes in.
LEMMA SelectedFrom ==
  ASSUME NEW q, IsSequence(q), NEW K
  PROVE  ToSet(Selected(q, K)) \subseteq ToSet(q)
<1>1. Len(q) \in Nat /\ DOMAIN q = 1 .. Len(q)
  BY SequenceIs
<1>2. PICK f : SelectTrace(f, q, K) /\ Selected(q, K) = f[Len(q)]
  BY <1>1, SelectTraceExists
<1> DEFINE S == ToSet(q)
           T == {n \in 0 .. Len(q) : f[n] \in Seq(S)}
<1>3. \A n \in 1 .. Len(q) : q[n] \in S
  BY <1>1 DEF ToSet
<1> HIDE DEF S
<1>4. 0 \in T
  <2>1. 0 \in 0 .. Len(q)
    BY <1>1
  <2>2. f[0] = <<>>
    BY <1>2, <2>1 DEF SelectTrace
  <2>3. <<>> \in Seq(S)
    OBVIOUS
  <2>4. f[0] \in Seq(S)
    BY <2>2, <2>3
  <2> QED
    BY <2>1, <2>4
<1>5. ASSUME NEW n \in T, n < Len(q) PROVE n + 1 \in T
  <2>1. n \in Nat /\ n + 1 \in 0 .. Len(q) /\ n + 1 \in 1 .. Len(q) /\ n + 1 # 0 /\ (n + 1) - 1 = n
    BY <1>1, <1>5
  <2>2. f[n + 1] = IF n + 1 \in K THEN Append(f[n], q[n + 1]) ELSE f[n]
    BY <1>2, <2>1 DEF SelectTrace
  <2>3. f[n] \in Seq(S)
    BY <1>5
  <2>4. Append(f[n], q[n + 1]) \in Seq(S)
    BY <1>3, <2>1, <2>3, AppendProperties
  <2> QED
    BY <2>1, <2>2, <2>3, <2>4
<1>6. T \in SUBSET (0 .. Len(q)) /\ Len(q) \in 0 .. Len(q)
  BY <1>1
<1> HIDE DEF T
<1>7. Len(q) \in T
  BY <1>1, <1>4, <1>5, <1>6, UpTo
<1>8. f[Len(q)] \in Seq(S)
  BY <1>7 DEF T
<1>9. \A m \in DOMAIN f[Len(q)] : f[Len(q)][m] \in S
  BY <1>8
<1> QED
  BY <1>2, <1>9 DEF ToSet, S

\* A block that stays keeps its instructions and its phis, but for the entries
\* of the blocks that are emptied.
LEMMA DeadReplaced ==
  ASSUME Formed, RemoveDead, executable \subseteq Blocks, NEW b \in executable
  PROVE  /\ blocks'[b].ins = blocks[b].ins
         /\ DOMAIN blocks'[b].phi = DOMAIN blocks[b].phi
         /\ \A k \in DOMAIN blocks[b].phi :
              /\ blocks'[b].phi[k].res = blocks[b].phi[k].res
              /\ \A e \in ToSet(blocks[b].phi[k].val) :
                   e[2] \in executable => e \in ToSet(blocks'[b].phi[k].val)
              /\ ToSet(blocks'[b].phi[k].val) \subseteq ToSet(blocks[b].phi[k].val)
<1> DEFINE q == blocks[b].phi
           Kept(k) == Selected(q[k].val, KeptEntries(q[k], b))
           r == [k \in DOMAIN q |-> WithoutDead(q[k], b)]
<1>1. b \in Blocks
  OBVIOUS
<1>2. blocks'[b] = [blocks[b] EXCEPT !.phi = r]
  BY <1>1 DEF RemoveDead
<1>3. blocks[b] = [phi |-> blocks[b].phi, ins |-> blocks[b].ins]
  BY <1>1 DEF Formed
<1>4. ASSUME NEW k \in DOMAIN q
      PROVE  r[k] = [res |-> q[k].res, val |-> Kept(k)]
  <2>1. q[k] = [res |-> q[k].res, val |-> q[k].val]
    BY <1>1, FormedPlaces
  <2>2. r[k] = [q[k] EXCEPT !.val = Kept(k)]
    BY DEF WithoutDead
  <2> HIDE DEF Kept, q, r
  <2> QED
    BY <2>1, <2>2, PhiReplaced
<1>5. DOMAIN r = DOMAIN q
  OBVIOUS
<1> HIDE DEF r
<1>6. blocks'[b] = [phi |-> r, ins |-> blocks[b].ins]
  BY <1>2, <1>3
<1>7. blocks'[b].phi = r /\ blocks'[b].ins = blocks[b].ins
  BY <1>6
<1>8. ASSUME NEW k \in DOMAIN q, NEW e \in ToSet(q[k].val), e[2] \in executable
      PROVE  e \in ToSet(Kept(k))
  <2>1. PICK n \in DOMAIN q[k].val : e = q[k].val[n]
    BY DEF ToSet
  <2>2. n \in KeptEntries(q[k], b)
    BY <1>8, <2>1 DEF KeptEntries
  <2>3. IsSequence(q[k].val)
    BY <1>1, FormedPlaces
  <2> HIDE DEF q
  <2> QED
    BY <2>1, <2>2, <2>3, SelectedStays
<1>9. ASSUME NEW k \in DOMAIN q
      PROVE  ToSet(Kept(k)) \subseteq ToSet(q[k].val)
  <2>1. IsSequence(q[k].val)
    BY <1>1, FormedPlaces
  <2> HIDE DEF q
  <2> QED
    BY <2>1, SelectedFrom
<1> HIDE DEF Kept
<1>10. ASSUME NEW k \in DOMAIN q
       PROVE  r[k].res = q[k].res /\ r[k].val = Kept(k)
  <2>1. r[k] = [res |-> q[k].res, val |-> Kept(k)]
    BY <1>4
  <2> QED
    BY <2>1
<1> QED
  BY <1>5, <1>7, <1>8, <1>9, <1>10 DEF q

\* Every step of an execution can be done after the removal.
LEMMA DeadStep ==
  ASSUME RewritingInv, RemoveDead, NEW c, NEW d, c.at \in executable \cup {Returned},
         Step(blocks, c, d), Reaches(blocks', c)
  PROVE  Reaches(blocks', d) /\ d.at \in executable \cup {Returned}
<1>1. Formed /\ ExecutableClosed
  BY DEF RemoveDead, RewritingInv
<1>2. Blocks' = Blocks /\ executable \subseteq Blocks
  BY <1>1 DEF RemoveDead, Blocks, ExecutableClosed
<1> DEFINE i == blocks[c.at].ins[c.pc]
<1>3. /\ c.at \in executable /\ c.at \in Blocks /\ d.at \in executable \cup {Returned}
      /\ ~i.removed /\ i.kind \in {"br", "jmp"} => d.at \in executable
  BY <1>1, ClosedStep
<1>4. /\ c.pc \in DOMAIN blocks[c.at].ins
      /\ Skip(i, c, d) \/ Compute(i, c, d) \/ Finish(i, c, d) \/ Leave(blocks, i, c, d)
  BY DEF Step
<1>5. blocks'[c.at].ins = blocks[c.at].ins
  BY <1>1, <1>2, <1>3, DeadReplaced
<1>6. blocks'[c.at].ins[c.pc] = i
  BY <1>5
<1> HIDE DEF i
<1>7. Leave(blocks, i, c, d) => Leave(blocks', i, c, d)
  <2> SUFFICES ASSUME Leave(blocks, i, c, d) PROVE Leave(blocks', i, c, d)
    OBVIOUS
  <2> DEFINE q == blocks[d.at].phi
             r == blocks'[d.at].phi
  <2>1. d.at \in executable /\ Arrive(ToSet(q), c, d)
    BY <1>3 DEF Leave
  <2>2. /\ DOMAIN r = DOMAIN q
        /\ \A k \in DOMAIN q :
             /\ r[k].res = q[k].res
             /\ \A e \in ToSet(q[k].val) : e[2] \in executable => e \in ToSet(r[k].val)
    BY <1>1, <1>2, <2>1, DeadReplaced
  <2> HIDE DEF q, r
  <2>3. /\ \A phi \in ToSet(r) : \E k \in DOMAIN q : phi = r[k]
        /\ \A phi \in ToSet(q) : \E k \in DOMAIN q : phi = q[k]
        /\ \A k \in DOMAIN q : q[k] \in ToSet(q) /\ r[k] \in ToSet(r)
    BY <2>2 DEF ToSet
  <2>4. {phi.res : phi \in ToSet(r)} = {phi.res : phi \in ToSet(q)}
    BY <2>2, <2>3
  <2>5. DOMAIN d.env = DOMAIN c.env \cup {phi.res : phi \in ToSet(r)}
    BY <2>1, <2>4 DEF Arrive
  <2>6. ASSUME NEW phi \in ToSet(r)
        PROVE  \E e \in ToSet(phi.val) :
                 e[2] = c.at /\ Readable(c.env, e[1]) /\ d.env[phi.res] = Value(c.env, e[1])
    <3>1. PICK k \in DOMAIN q : phi = r[k]
      BY <2>3
    <3>2. PICK e \in ToSet(q[k].val) :
            e[2] = c.at /\ Readable(c.env, e[1]) /\ d.env[q[k].res] = Value(c.env, e[1])
      BY <2>1, <2>3 DEF Arrive
    <3>3. e \in ToSet(phi.val) /\ phi.res = q[k].res
      BY <1>3, <2>2, <3>1, <3>2
    <3> QED
      BY <3>2, <3>3
  <2>7. ASSUME NEW y \in DOMAIN c.env, \A phi \in ToSet(r) : phi.res # y
        PROVE  d.env[y] = c.env[y]
    <3>1. \A phi \in ToSet(q) : phi.res # y
      BY <2>2, <2>3, <2>7
    <3> QED
      BY <2>1, <3>1 DEF Arrive
  <2>8. Arrive(ToSet(r), c, d)
    BY <2>5, <2>6, <2>7 DEF Arrive
  <2> QED
    BY <2>8 DEF Leave, r
<1>8. Step(blocks', c, d)
  BY <1>2, <1>3, <1>4, <1>5, <1>6, <1>7 DEF Step, Blocks
<1> QED
  BY <1>3, <1>8, GoesOn

LEMMA DeadKeeps ==
  ASSUME RewritingInv, RemoveDead, NEW c, Reaches(blocks, c)
  PROVE  \E d : Reaches(blocks', d) /\ d.at = c.at /\ d.trace = c.trace
<1>1. 0 \in executable
  BY DEF RemoveDead, RewritingInv, ExecutableClosed
<1>2. PICK l \in Nat : \E run : Execution(blocks, run, l) /\ run[l] = c
  BY DEF Reaches
<1>3. PICK run : Execution(blocks, run, l) /\ run[l] = c
  BY <1>2
<1> DEFINE S == {k \in 0 .. l : run[k].at \in executable \cup {Returned} /\ Reaches(blocks', run[k])}
<1>4. 0 \in S
  <2>1. /\ run[0].at = 0 /\ run[0].pc = 1 /\ run[0].trace = << >>
        /\ DOMAIN run[0].env = ToSet(params)
    BY <1>3 DEF Execution
  <2>2. Reaches(blocks', run[0])
    BY <2>1, Begins DEF RemoveDead
  <2> QED
    BY <1>1, <2>1, <2>2
<1>5. ASSUME NEW k \in S, k < l PROVE k + 1 \in S
  <2>1. k \in 0 .. l - 1 /\ k + 1 \in 0 .. l /\ run[k].at \in executable \cup {Returned}
        /\ Reaches(blocks', run[k])
    BY <1>5
  <2>2. Step(blocks, run[k], run[k + 1])
    BY <1>3, <2>1 DEF Execution
  <2> QED
    BY <2>1, <2>2, DeadStep
<1>6. S \in SUBSET (0 .. l) /\ l \in 0 .. l
  OBVIOUS
<1> HIDE DEF S
<1>7. l \in S
  BY <1>4, <1>5, <1>6, UpTo
<1> QED
  BY <1>3, <1>7 DEF S

------------------------------------------------------------------------------
(* And back: what the rewritten function does, the one before could do.       *)

\* d is where c is, with the same values but for x, which it has not.
Without(c, d, x) ==
  /\ d.at = c.at /\ d.pc = c.pc /\ d.trace = c.trace
  /\ DOMAIN d.env = DOMAIN c.env \ {x}
  /\ \A y \in DOMAIN d.env : d.env[y] = c.env[y]

LEMMA WithoutReading ==
  ASSUME NEW c, NEW d, NEW x, Without(c, d, x), NEW y, NEW z, SameReading(c, x, y, z),
         Readable(c.env, y)
  PROVE  Readable(d.env, z) /\ Value(d.env, z) = Value(c.env, y)
<1> DEFINE env == Cut(c, x).env
<1>1. /\ DOMAIN env = DOMAIN c.env \ {x}
      /\ \A u \in DOMAIN c.env \ {x} : env[u] = c.env[u]
  BY CutFields
<1>2. Readable(env, z) /\ Value(env, z) = Value(c.env, y)
  BY DEF SameReading
<1> HIDE DEF env
<1>3. CASE IsConstant(z)
  BY <1>2, <1>3 DEF Readable, Value
<1>4. CASE ~IsConstant(z)
  <2>1. z \in DOMAIN env /\ z \in DOMAIN d.env
    BY <1>1, <1>2, <1>4 DEF Readable, Without
  <2>2. d.env[z] = env[z]
    BY <1>1, <2>1 DEF Without
  <2> QED
    BY <1>2, <1>4, <2>1, <2>2 DEF Readable, Value
<1> QED
  BY <1>3, <1>4

\* What the operands of an instruction read as, in both.
LEMMA WithoutOperands ==
  ASSUME NEW i, NEW j, NEW c, NEW d, NEW x, Without(c, d, x),
         ReadsSame(j, i, c, x), CanRead(c.env, i)
  PROVE  \A k \in DOMAIN i.use :
           Readable(d.env, j.use[k]) /\ Value(d.env, j.use[k]) = Value(c.env, i.use[k])
<1> TAKE k \in DOMAIN i.use
<1>1. SameReading(c, x, i.use[k], j.use[k]) /\ Readable(c.env, i.use[k])
  BY DEF ReadsSame, CanRead
<1> QED
  BY <1>1, WithoutReading

\* What an instruction reads and gives, in both.
LEMMA WithoutValues ==
  ASSUME NEW i, NEW j, NEW c, NEW d, NEW x, Without(c, d, x), Like(j, i),
         ReadsSame(j, i, c, x), CanRead(c.env, i)
  PROVE  /\ CanRead(d.env, j) /\ Values(d.env, j) = Values(c.env, i)
         /\ Results(d.env, j) = Results(c.env, i)
<1>1. \A k \in DOMAIN i.use : Readable(d.env, j.use[k]) /\ Value(d.env, j.use[k]) = Value(c.env, i.use[k])
  BY WithoutOperands
<1>2. CanRead(d.env, j) /\ Values(d.env, j) = Values(c.env, i)
  BY <1>1 DEF CanRead, Values, Like
<1>3. /\ Folds(j) <=> Folds(i)
      /\ IsAddress(j) <=> IsAddress(i)
      /\ j.kind = i.kind
      /\ \A v : Fold(j, v) = Fold(i, v)
  BY DEF Like, Folds, IsAddress, Fold
<1>4. Results(d.env, j) = Results(c.env, i)
  BY <1>2, <1>3 DEF Results
<1> QED
  BY <1>2, <1>4

\* The next configuration of the function before: that of the rewritten one, and x
\* as it was.
WithX(c, e, x) ==
  [at |-> e.at, pc |-> e.pc, trace |-> e.trace,
   env |-> [y \in DOMAIN e.env \cup (DOMAIN c.env \cap {x}) |-> IF y = x THEN c.env[x] ELSE e.env[y]]]

LEMMA WithXFields ==
  ASSUME NEW c, NEW e, NEW x, x \notin DOMAIN e.env, NEW f, f = WithX(c, e, x)
  PROVE  /\ f.at = e.at /\ f.pc = e.pc /\ f.trace = e.trace
         /\ DOMAIN f.env = DOMAIN e.env \cup (DOMAIN c.env \cap {x})
         /\ \A y \in DOMAIN e.env : f.env[y] = e.env[y]
         /\ x \in DOMAIN c.env => f.env[x] = c.env[x]
         /\ Without(f, e, x)
         /\ x \in DOMAIN f.env <=> x \in DOMAIN c.env
<1>1. f.at = e.at /\ f.pc = e.pc /\ f.trace = e.trace
  BY DEF WithX
<1>2. /\ DOMAIN f.env = DOMAIN e.env \cup (DOMAIN c.env \cap {x})
      /\ \A y \in DOMAIN f.env : f.env[y] = IF y = x THEN c.env[x] ELSE e.env[y]
  BY DEF WithX
<1> QED
  BY <1>1, <1>2 DEF Without

\* A step of j that stays in the block or returns is a step of i.
LEMMA LikeBack ==
  ASSUME NEW i, NEW j, NEW c, NEW d, NEW e, NEW x, Without(c, d, x), Like(j, i),
         j.removed <=> i.removed,
         ~i.removed => ReadsSame(j, i, c, x) /\ CanRead(c.env, i) /\ (IsTracked(i) => i.res # x),
         Skip(j, d, e) \/ Compute(j, d, e) \/ Finish(j, d, e)
  PROVE  \E f : /\ Skip(i, c, f) \/ Compute(i, c, f) \/ Finish(i, c, f)
                /\ Without(f, e, x) /\ (x \in DOMAIN f.env <=> x \in DOMAIN c.env)
<1>1. /\ j.kind = i.kind /\ j.op = i.op /\ j.res = i.res
      /\ IsTracked(j) <=> IsTracked(i)
      /\ IsSilent(j) <=> IsSilent(i)
      /\ IsTerminator(j) <=> IsTerminator(i)
  BY DEF Like, IsTracked, IsSilent, IsTerminator, Folds, IsAddress
<1>2. /\ d.at = c.at /\ d.pc = c.pc /\ d.trace = c.trace
      /\ DOMAIN d.env = DOMAIN c.env \ {x}
      /\ \A y \in DOMAIN d.env : d.env[y] = c.env[y]
  BY DEF Without
<1> DEFINE same == [at |-> e.at, pc |-> e.pc, trace |-> e.trace, env |-> c.env]
<1>3. same.at = e.at /\ same.pc = e.pc /\ same.trace = e.trace /\ same.env = c.env
  OBVIOUS
<1> HIDE DEF same
<1>4. e.env = d.env => Without(same, e, x)
  BY <1>2, <1>3 DEF Without
<1>5. CASE Skip(j, d, e)
  <2>1. Skip(i, c, same)
    BY <1>2, <1>3, <1>5 DEF Skip
  <2> QED
    BY <1>3, <1>4, <1>5, <2>1 DEF Skip
<1>6. CASE Finish(j, d, e)
  <2>1. ~i.removed /\ CanRead(c.env, i) /\ Values(d.env, j) = Values(c.env, i)
    BY <1>6, WithoutValues DEF Finish
  <2>2. Finish(i, c, same)
    BY <1>1, <1>2, <1>3, <1>6, <2>1 DEF Finish
  <2> QED
    BY <1>3, <1>4, <1>6, <2>2 DEF Finish
<1>7. CASE Compute(j, d, e)
  <2>1. /\ ~i.removed /\ ~IsTerminator(i) /\ CanRead(c.env, i)
        /\ Values(d.env, j) = Values(c.env, i) /\ Results(d.env, j) = Results(c.env, i)
        /\ e.at = d.at /\ e.pc = d.pc + 1
    BY <1>1, <1>7, WithoutValues DEF Compute
  <2>2. PICK v \in Results(d.env, j) :
          /\ e.env = IF IsTracked(j) THEN Assigned(d.env, j.res, v) ELSE d.env
          /\ e.trace = IF IsSilent(j) THEN d.trace
                       ELSE Append(d.trace, <<j.kind, j.op, Values(d.env, j), v>>)
    BY <1>7 DEF Compute
  <2>3. e.trace = IF IsSilent(i) THEN c.trace
                  ELSE Append(c.trace, <<i.kind, i.op, Values(c.env, i), v>>)
    BY <1>1, <1>2, <2>1, <2>2
  <2>4. CASE IsTracked(i)
    <3> DEFINE env == Assigned(c.env, i.res, v)
               f == [at |-> e.at, pc |-> e.pc, trace |-> e.trace, env |-> env]
    <3>1. f.at = e.at /\ f.pc = e.pc /\ f.trace = e.trace /\ f.env = env
      OBVIOUS
    <3>2. /\ DOMAIN env = DOMAIN c.env \cup {i.res}
          /\ \A y \in DOMAIN env : env[y] = IF y = i.res THEN v ELSE c.env[y]
      BY DEF Assigned
    <3>3. i.res # x /\ e.env = Assigned(d.env, i.res, v)
      BY <1>1, <2>1, <2>2, <2>4
    <3>4. /\ DOMAIN e.env = DOMAIN d.env \cup {i.res}
          /\ \A y \in DOMAIN e.env : e.env[y] = IF y = i.res THEN v ELSE d.env[y]
      BY <3>3 DEF Assigned
    <3> HIDE DEF f
    <3>5. Compute(i, c, f)
      BY <1>2, <2>1, <2>2, <2>3, <2>4, <3>1 DEF Compute
    <3> HIDE DEF env
    <3>6. Without(f, e, x) /\ (x \in DOMAIN f.env <=> x \in DOMAIN c.env)
      BY <1>2, <3>1, <3>2, <3>3, <3>4 DEF Without
    <3> QED
      BY <3>5, <3>6
  <2>5. CASE ~IsTracked(i)
    <3>1. e.env = d.env
      BY <1>1, <2>2, <2>5
    <3>2. Compute(i, c, same)
      BY <1>2, <1>3, <2>1, <2>2, <2>3, <2>5 DEF Compute
    <3> QED
      BY <1>3, <1>4, <3>1, <3>2
  <2> QED
    BY <2>4, <2>5
<1> QED
  BY <1>5, <1>6, <1>7

\* c is about to execute an instruction that the rewritten function has too, with
\* operands that read the same without x.
Renders(c, x) ==
  LET i == blocks[c.at].ins[c.pc]
      j == blocks'[c.at].ins[c.pc]
  IN /\ c.at \in Blocks /\ c.pc \in DOMAIN blocks[c.at].ins
     /\ \A b \in Blocks : SameOutline(b)
     /\ j.removed <=> i.removed
     /\ ~i.removed =>
          /\ ReadsSame(j, i, c, x)
          /\ IsTracked(i) => i.res # x
          /\ i.kind = "jmp" => i.to[1] \in Blocks
          /\ i.kind = "br" =>
               /\ 1 \in DOMAIN i.use
               /\ i.to[IF Value(c.env, i.use[1]) # 0 THEN 1 ELSE 2] \in Blocks
     /\ \A b \in Blocks : \A k \in DOMAIN blocks[b].phi :
          /\ blocks[b].phi[k].res # x
          /\ \A n \in DOMAIN blocks[b].phi[k].val :
               SameReading(c, x, blocks[b].phi[k].val[n][1], blocks'[b].phi[k].val[n][1])

\* The phis on the way taken.
LEMMA ArriveLike ==
  ASSUME NEW c, NEW d, NEW e, NEW x, Without(c, d, x), Renders(c, x), NEW b \in Blocks,
         Arrive(ToSet(blocks'[b].phi), d, e),
         \A phi \in ToSet(blocks[b].phi) : \A o \in ToSet(phi.val) :
           o[2] = c.at => Readable(c.env, o[1])
  PROVE  x \notin DOMAIN e.env /\ Arrive(ToSet(blocks[b].phi), c, WithX(c, e, x))
<1> DEFINE q == blocks[b].phi
           r == blocks'[b].phi
           f == WithX(c, e, x)
<1>1. SameOutline(b)
  BY DEF Renders
<1>2. /\ DOMAIN r = DOMAIN q
      /\ \A k \in DOMAIN q :
           /\ r[k].res = q[k].res /\ q[k].res # x
           /\ DOMAIN r[k].val = DOMAIN q[k].val
           /\ \A n \in DOMAIN q[k].val : r[k].val[n][2] = q[k].val[n][2]
  <2>1. /\ DOMAIN r = DOMAIN q
        /\ \A k \in DOMAIN q :
             /\ r[k].res = q[k].res
             /\ DOMAIN r[k].val = DOMAIN q[k].val
             /\ \A n \in DOMAIN q[k].val : r[k].val[n][2] = q[k].val[n][2]
    BY <1>1, OutlineFields
  <2>2. \A k \in DOMAIN q : q[k].res # x
    BY DEF Renders
  <2> HIDE DEF q, r
  <2> QED
    BY <2>1, <2>2
<1>3. \A k \in DOMAIN q : \A n \in DOMAIN q[k].val :
        Readable(c.env, q[k].val[n][1]) =>
          /\ Readable(d.env, r[k].val[n][1])
          /\ Value(d.env, r[k].val[n][1]) = Value(c.env, q[k].val[n][1])
  <2>1. \A k \in DOMAIN q : \A n \in DOMAIN q[k].val :
          SameReading(c, x, q[k].val[n][1], r[k].val[n][1])
    BY DEF Renders
  <2> HIDE DEF q, r
  <2> TAKE k \in DOMAIN q
  <2> TAKE n \in DOMAIN q[k].val
  <2>2. SameReading(c, x, q[k].val[n][1], r[k].val[n][1])
    BY <2>1
  <2> QED
    BY <2>2, WithoutReading
<1>4. \A phi \in ToSet(q) : \A o \in ToSet(phi.val) : o[2] = c.at => Readable(c.env, o[1])
  OBVIOUS
<1>5. /\ DOMAIN e.env = DOMAIN d.env \cup {phi.res : phi \in ToSet(r)}
      /\ \A phi \in ToSet(r) : \E o \in ToSet(phi.val) :
           o[2] = d.at /\ Readable(d.env, o[1]) /\ e.env[phi.res] = Value(d.env, o[1])
      /\ \A y \in DOMAIN d.env : (\A phi \in ToSet(r) : phi.res # y) => e.env[y] = d.env[y]
  BY DEF Arrive
<1> HIDE DEF q, r
<1>6. /\ \A phi \in ToSet(r) : \E k \in DOMAIN q : phi = r[k]
      /\ \A phi \in ToSet(q) : \E k \in DOMAIN q : phi = q[k]
      /\ \A k \in DOMAIN q : q[k] \in ToSet(q) /\ r[k] \in ToSet(r)
  BY <1>2 DEF ToSet
<1>7. {phi.res : phi \in ToSet(r)} = {phi.res : phi \in ToSet(q)}
      /\ x \notin {phi.res : phi \in ToSet(q)}
  BY <1>2, <1>6
<1>8. /\ d.at = c.at /\ DOMAIN d.env = DOMAIN c.env \ {x}
      /\ \A y \in DOMAIN d.env : d.env[y] = c.env[y]
  BY DEF Without
<1>9. x \notin DOMAIN e.env
  BY <1>5, <1>7, <1>8
<1>10. /\ DOMAIN f.env = DOMAIN e.env \cup (DOMAIN c.env \cap {x})
       /\ \A y \in DOMAIN e.env : f.env[y] = e.env[y]
       /\ x \in DOMAIN c.env => f.env[x] = c.env[x]
  BY <1>9, WithXFields
<1> HIDE DEF f
<1>11. DOMAIN f.env = DOMAIN c.env \cup {phi.res : phi \in ToSet(q)}
  BY <1>5, <1>7, <1>8, <1>10
<1>12. ASSUME NEW phi \in ToSet(q)
       PROVE  \E o \in ToSet(phi.val) :
                o[2] = c.at /\ Readable(c.env, o[1]) /\ f.env[phi.res] = Value(c.env, o[1])
  <2>1. PICK k \in DOMAIN q : phi = q[k]
    BY <1>6
  <2>2. PICK o \in ToSet(r[k].val) :
          o[2] = d.at /\ Readable(d.env, o[1]) /\ e.env[r[k].res] = Value(d.env, o[1])
    BY <1>5, <1>6
  <2>3. PICK n \in DOMAIN q[k].val : o = r[k].val[n]
    BY <1>2, <2>2 DEF ToSet
  <2> DEFINE g == q[k].val[n]
  <2>4. g \in ToSet(phi.val) /\ g[2] = c.at
    BY <1>2, <1>8, <2>1, <2>2, <2>3 DEF ToSet
  <2>5. Readable(c.env, g[1])
    BY <1>4, <2>4
  <2>6. Value(d.env, o[1]) = Value(c.env, g[1])
    BY <1>3, <2>3, <2>5
  <2>7. q[k].res \in DOMAIN e.env /\ r[k].res = q[k].res
    BY <1>2, <1>5, <1>6, <1>7
  <2>8. f.env[phi.res] = Value(c.env, g[1])
    BY <1>10, <2>1, <2>2, <2>6, <2>7
  <2> QED
    BY <2>4, <2>5, <2>8
<1>13. ASSUME NEW y \in DOMAIN c.env, \A phi \in ToSet(q) : phi.res # y
       PROVE  f.env[y] = c.env[y]
  <2>1. CASE y = x
    BY <1>10, <2>1
  <2>2. CASE y # x
    <3>1. y \in DOMAIN d.env /\ y \in DOMAIN e.env
      BY <1>5, <1>8, <2>2
    <3>2. \A phi \in ToSet(r) : phi.res # y
      BY <1>7, <1>13
    <3> QED
      BY <1>5, <1>8, <1>10, <3>1, <3>2
  <2> QED
    BY <2>1, <2>2
<1>14. Arrive(ToSet(q), c, f)
  BY <1>11, <1>12, <1>13 DEF Arrive
<1> QED
  BY <1>9, <1>14 DEF q, f

\* A step of j to another block is a step of i.
LEMMA LeaveBack ==
  ASSUME NEW c, NEW d, NEW e, NEW x, Without(c, d, x), Renders(c, x), ReadsAt(blocks, c),
         NEW i, NEW j, i = blocks[c.at].ins[c.pc], j = blocks'[c.at].ins[c.pc],
         Leave(blocks', j, d, e)
  PROVE  \E f : /\ Leave(blocks, i, c, f)
                /\ Without(f, e, x) /\ (x \in DOMAIN f.env <=> x \in DOMAIN c.env)
<1>1. /\ ~j.removed
      /\ \/ j.kind = "jmp" /\ e.at = j.to[1]
         \/ /\ j.kind = "br" /\ Readable(d.env, j.use[1])
            /\ e.at = j.to[IF Value(d.env, j.use[1]) # 0 THEN 1 ELSE 2]
      /\ e.pc = 1 /\ e.trace = d.trace
      /\ Arrive(ToSet(blocks'[e.at].phi), d, e)
  BY DEF Leave
<1>2. /\ c.at \in Blocks /\ c.pc \in DOMAIN blocks[c.at].ins
      /\ ~i.removed
      /\ ReadsSame(j, i, c, x)
      /\ i.kind = "jmp" => i.to[1] \in Blocks
      /\ i.kind = "br" =>
           /\ 1 \in DOMAIN i.use
           /\ i.to[IF Value(c.env, i.use[1]) # 0 THEN 1 ELSE 2] \in Blocks
  BY <1>1 DEF Renders
<1>3. Like(j, i)
  <2>1. SameOutline(c.at)
    BY <1>2 DEF Renders
  <2> QED
    BY <1>2, <2>1, OutlineLike
<1>4. j.kind = i.kind /\ j.to = i.to
  BY <1>3 DEF Like
<1>5. /\ CanRead(c.env, i)
      /\ \A b \in Blocks : \A phi \in ToSet(blocks[b].phi) : \A o \in ToSet(phi.val) :
           o[2] = c.at => Readable(c.env, o[1])
  <2>1. i.kind \in {"br", "jmp"}
    BY <1>1, <1>4
  <2> QED
    BY <1>2, <2>1 DEF ReadsAt, Blocks
<1>6. i.kind = "br" => Readable(c.env, i.use[1]) /\ Value(d.env, j.use[1]) = Value(c.env, i.use[1])
  <2> SUFFICES ASSUME i.kind = "br"
               PROVE  Readable(c.env, i.use[1]) /\ Value(d.env, j.use[1]) = Value(c.env, i.use[1])
    OBVIOUS
  <2>1. 1 \in DOMAIN i.use
    BY <1>2
  <2>2. Readable(c.env, i.use[1])
    BY <1>5, <2>1 DEF CanRead
  <2>3. ReadsSame(j, i, c, x) /\ CanRead(c.env, i)
    BY <1>2, <1>5
  <2>4. Value(d.env, j.use[1]) = Value(c.env, i.use[1])
    BY <2>1, <2>3, WithoutOperands
  <2> QED
    BY <2>2, <2>4
<1>7. e.at \in Blocks
  BY <1>1, <1>2, <1>4, <1>6
<1> DEFINE f == WithX(c, e, x)
<1>8. x \notin DOMAIN e.env /\ Arrive(ToSet(blocks[e.at].phi), c, f)
  BY <1>1, <1>5, <1>7, ArriveLike
<1>9. /\ f.at = e.at /\ f.pc = e.pc /\ f.trace = e.trace
      /\ Without(f, e, x) /\ (x \in DOMAIN f.env <=> x \in DOMAIN c.env)
  BY <1>8, WithXFields
<1> HIDE DEF f
<1>10. d.trace = c.trace
  BY DEF Without
<1>11. Leave(blocks, i, c, f)
  BY <1>1, <1>2, <1>4, <1>6, <1>8, <1>9, <1>10 DEF Leave
<1> QED
  BY <1>9, <1>11

LEMMA RendersBack ==
  ASSUME Blocks' = Blocks, NEW c, NEW d, NEW e, NEW x, Without(c, d, x), Renders(c, x),
         ReadsAt(blocks, c), Step(blocks', d, e)
  PROVE  \E f : /\ Step(blocks, c, f)
                /\ Without(f, e, x) /\ (x \in DOMAIN f.env <=> x \in DOMAIN c.env)
<1> DEFINE i == blocks[c.at].ins[c.pc]
           j == blocks'[c.at].ins[c.pc]
<1>1. d.at = c.at /\ d.pc = c.pc
  BY DEF Without
<1>2. Skip(j, d, e) \/ Compute(j, d, e) \/ Finish(j, d, e) \/ Leave(blocks', j, d, e)
  BY <1>1 DEF Step
<1>3. /\ c.at \in Blocks /\ c.pc \in DOMAIN blocks[c.at].ins
      /\ SameOutline(c.at)
      /\ j.removed <=> i.removed
      /\ ~i.removed => ReadsSame(j, i, c, x) /\ (IsTracked(i) => i.res # x)
  BY DEF Renders
<1>4. Like(j, i)
  BY <1>3, OutlineLike
<1>5. ~i.removed => CanRead(c.env, i)
  BY <1>3 DEF ReadsAt, Blocks
<1>6. \A f : Skip(i, c, f) \/ Compute(i, c, f) \/ Finish(i, c, f) \/ Leave(blocks, i, c, f) =>
        Step(blocks, c, f)
  BY <1>3 DEF Step, Blocks
<1>7. CASE Skip(j, d, e) \/ Compute(j, d, e) \/ Finish(j, d, e)
  <2> HIDE DEF i, j
  <2>1. \E f : /\ Skip(i, c, f) \/ Compute(i, c, f) \/ Finish(i, c, f)
               /\ Without(f, e, x) /\ (x \in DOMAIN f.env <=> x \in DOMAIN c.env)
    BY <1>3, <1>4, <1>5, <1>7, LikeBack
  <2> QED
    BY <1>6, <2>1
<1>8. CASE Leave(blocks', j, d, e)
  <2>1. i = blocks[c.at].ins[c.pc] /\ j = blocks'[c.at].ins[c.pc]
    OBVIOUS
  <2> HIDE DEF i, j
  <2>2. \E f : /\ Leave(blocks, i, c, f)
               /\ Without(f, e, x) /\ (x \in DOMAIN f.env <=> x \in DOMAIN c.env)
    BY <1>8, <2>1, LeaveBack
  <2> QED
    BY <1>6, <2>2
<1> QED
  BY <1>2, <1>7, <1>8

\* Where the function before can read what it has to, the rewritten one can.
LEMMA RendersReads ==
  ASSUME Blocks' = Blocks, NEW c, NEW d, NEW x, Without(c, d, x), Renders(c, x), ReadsAt(blocks, c)
  PROVE  ReadsAt(blocks', d)
<1> DEFINE i == blocks[c.at].ins[c.pc]
           j == blocks'[c.at].ins[c.pc]
<1>1. d.at = c.at /\ d.pc = c.pc
  BY DEF Without
<1>2. /\ c.at \in Blocks /\ c.pc \in DOMAIN blocks[c.at].ins
      /\ \A b \in Blocks : SameOutline(b)
      /\ j.removed <=> i.removed
      /\ ~i.removed => ReadsSame(j, i, c, x)
  BY DEF Renders
<1>3. Like(j, i)
  BY <1>2, OutlineLike
<1>4. ~i.removed =>
        /\ CanRead(c.env, i)
        /\ \A b \in Blocks : \A phi \in ToSet(blocks[b].phi) : \A o \in ToSet(phi.val) :
             i.kind \in {"br", "jmp"} /\ o[2] = c.at => Readable(c.env, o[1])
  BY <1>2 DEF ReadsAt, Blocks
<1> SUFFICES ASSUME ~j.removed
             PROVE  /\ CanRead(d.env, j)
                    /\ \A b \in Blocks : \A phi \in ToSet(blocks'[b].phi) : \A o \in ToSet(phi.val) :
                         j.kind \in {"br", "jmp"} /\ o[2] = d.at => Readable(d.env, o[1])
  BY <1>1 DEF ReadsAt, Blocks
<1>5. j.kind = i.kind
  BY <1>3 DEF Like
<1> HIDE DEF i, j
<1>6. CanRead(d.env, j)
  BY <1>2, <1>3, <1>4, WithoutValues
<1>7. ASSUME NEW b \in Blocks, NEW phi \in ToSet(blocks'[b].phi), NEW o \in ToSet(phi.val),
             j.kind \in {"br", "jmp"}, o[2] = d.at
      PROVE  Readable(d.env, o[1])
  <2> DEFINE q == blocks[b].phi
             r == blocks'[b].phi
  <2>1. /\ DOMAIN r = DOMAIN q
        /\ \A k \in DOMAIN q :
             /\ DOMAIN r[k].val = DOMAIN q[k].val
             /\ \A n \in DOMAIN q[k].val : r[k].val[n][2] = q[k].val[n][2]
    BY <1>2, OutlineFields
  <2>2. \A k \in DOMAIN q : \A n \in DOMAIN q[k].val :
          SameReading(c, x, q[k].val[n][1], r[k].val[n][1])
    BY DEF Renders
  <2>3. \A p \in ToSet(q) : \A m \in ToSet(p.val) : m[2] = c.at => Readable(c.env, m[1])
    BY <1>2, <1>4, <1>5, <1>7
  <2>4. phi \in ToSet(r)
    OBVIOUS
  <2> HIDE DEF q, r
  <2>5. PICK k \in DOMAIN q : phi = r[k]
    BY <2>1, <2>4 DEF ToSet
  <2>6. PICK n \in DOMAIN q[k].val : o = r[k].val[n]
    BY <2>1, <2>5 DEF ToSet
  <2>7. q[k] \in ToSet(q) /\ q[k].val[n] \in ToSet(q[k].val)
    BY DEF ToSet
  <2>8. q[k].val[n][2] = c.at
    BY <1>1, <1>7, <2>1, <2>6
  <2>9. Readable(c.env, q[k].val[n][1])
    BY <2>3, <2>7, <2>8
  <2>10. SameReading(c, x, q[k].val[n][1], o[1])
    BY <2>2, <2>6
  <2> QED
    BY <2>9, <2>10, WithoutReading
<1> QED
  BY <1>6, <1>7

\* ReplaceConstants: all operands read the same.
LEMMA ConstantsRender ==
  ASSUME FixpointInv, ReplaceConstants, NEW c, Known(c),
         c.at \in Blocks, c.pc \in DOMAIN blocks[c.at].ins,
         NEW x, x \notin Names, x \notin DOMAIN c.env
  PROVE  Renders(c, x)
<1>1. phase = "constants" /\ WellFormed /\ Formed
  BY ShapedFormed DEF ReplaceConstants, FixpointInv, WellFormed
<1>2. Agrees(lattice, c.env) /\ c.at \in executable
  <2>1. Returned \notin 0 .. Cardinality(Blocks) - 1
    BY DEF Returned
  <2> QED
    BY <1>1, <2>1 DEF Known, WellFormed, Shaped
<1> DEFINE i == blocks[c.at].ins[c.pc]
           j == blocks'[c.at].ins[c.pc]
<1>3. \A b \in Blocks : SameOutline(b)
  BY <1>1, ConstantsReplaced
<1>4. ~i.removed => c.pc \in LivePlaces(c.at) /\ i \in AllIns
  BY DEF LivePlaces, AllIns, LiveIns
<1>5. j.removed <=> i.removed
  BY <1>1, ConstantsReplaced
<1>6. ~i.removed => ReadsSame(j, i, c, x)
  <2> SUFFICES ASSUME ~i.removed, NEW n \in DOMAIN i.use PROVE SameReading(c, x, i.use[n], j.use[n])
    BY DEF ReadsSame
  <2>1. j.use[n] = KnownValue(i.use[n])
    BY <1>1, <1>2, <1>4, ConstantsReplaced
  <2> QED
    BY <1>2, <2>1, KnownValueReading
<1>7. ~i.removed =>
        /\ IsTracked(i) => i.res # x
        /\ i.kind = "jmp" => i.to[1] \in Blocks
        /\ i.kind = "br" => 1 \in DOMAIN i.use /\ i.to[1] \in Blocks /\ i.to[2] \in Blocks
  <2> HIDE DEF i
  <2> QED
    BY <1>1, <1>4, AllInsShape
<1>8. ASSUME NEW b \in Blocks, NEW k \in DOMAIN blocks[b].phi
      PROVE  /\ blocks[b].phi[k].res # x
             /\ \A n \in DOMAIN blocks[b].phi[k].val :
                  SameReading(c, x, blocks[b].phi[k].val[n][1], blocks'[b].phi[k].val[n][1])
  <2>1. blocks[b].phi[k] \in AllPhis
    BY DEF AllPhis, ToSet
  <2>2. blocks[b].phi[k].res \in Names
    BY <2>1 DEF Names
  <2>3. CASE b \in executable
    <3>1. \A n \in DOMAIN blocks[b].phi[k].val :
            blocks'[b].phi[k].val[n][1] = KnownValue(blocks[b].phi[k].val[n][1])
      BY <1>1, <2>3, ConstantsReplaced
    <3> QED
      BY <1>2, <2>2, <3>1, KnownValueReading
  <2>4. CASE b \notin executable
    <3>1. blocks'[b] = blocks[b]
      BY <1>1, <2>4, ConstantsReplaced
    <3>2. \A y : SameReading(c, x, y, y)
      BY DEF SameReading, Cut, Readable, Value
    <3> QED
      BY <2>2, <3>1, <3>2
  <2> QED
    BY <2>3, <2>4
<1> QED
  BY <1>3, <1>5, <1>6, <1>7, <1>8 DEF Renders

\* Of every configuration reached before the constants are put in.
LEMMA ReachedKnown ==
  ASSUME FixpointInv, phase = "constants", NEW c, Reaches(blocks, c)
  PROVE  Known(c)
<1>1. PICK n \in Nat : \E run : Execution(blocks, run, n) /\ run[n] = c
  BY DEF Reaches
<1>2. n \in 0 .. n
  OBVIOUS
<1> QED
  BY <1>1, <1>2, ExecutionTrue

\* The rewritten function, at d, reads only what has a value, and the one before
\* could be there, having done the same.
WasPossible(d) == ReadsAt(blocks', d) /\ \E c : Reaches(blocks, c) /\ c.at = d.at /\ c.trace = d.trace

LEMMA ConstantsAdd ==
  ASSUME FixpointInv, ReplaceConstants, AlwaysReads(blocks), NEW d, Reaches(blocks', d)
  PROVE  WasPossible(d)
<1>1. phase = "constants" /\ WellFormed /\ Blocks' = Blocks
  BY DEF ReplaceConstants, FixpointInv, Blocks
<1>2. PICK n \in Nat : \E run : Execution(blocks', run, n) /\ run[n] = d
  BY DEF Reaches
<1>3. PICK run : Execution(blocks', run, n) /\ run[n] = d
  BY <1>2
<1>4. PICK x : x \notin Names
  BY NoSetContainsEverything
<1> DEFINE Behind(c, e) == Reaches(blocks, c) /\ Without(c, e, x) /\ x \notin DOMAIN c.env
           S == {k \in 0 .. n : \E c : Behind(c, run[k])}
<1>5. 0 \in S
  <2>1. /\ run[0].at = 0 /\ run[0].pc = 1 /\ run[0].trace = << >>
        /\ DOMAIN run[0].env = ToSet(params)
    BY <1>3 DEF Execution
  <2>2. x \notin DOMAIN run[0].env
    BY <1>4, <2>1 DEF Names
  <2>3. Behind(run[0], run[0])
    BY <2>1, <2>2, Begins DEF Without
  <2> QED
    BY <2>3
<1>6. \A c, e : Behind(c, e) /\ e.at \in Blocks /\ e.pc \in DOMAIN blocks'[e.at].ins =>
        Renders(c, x) /\ ReadsAt(blocks, c)
  <2> SUFFICES ASSUME NEW c, NEW e, Behind(c, e), e.at \in Blocks, e.pc \in DOMAIN blocks'[e.at].ins
               PROVE  Renders(c, x) /\ ReadsAt(blocks, c)
    OBVIOUS
  <2>1. Known(c) /\ ReadsAt(blocks, c)
    BY <1>1, ReachedKnown DEF AlwaysReads
  <2>2. Formed
    BY <1>1, ShapedFormed DEF WellFormed
  <2>3. c.at = e.at /\ c.pc = e.pc
    BY DEF Without
  <2>4. c.at \in Blocks /\ c.pc \in DOMAIN blocks[c.at].ins
    <3>1. SameOutline(e.at)
      BY <2>2, ConstantsReplaced
    <3> QED
      BY <2>3, <3>1, OutlineFields
  <2> QED
    BY <1>4, <2>1, <2>4, ConstantsRender
<1>7. ASSUME NEW k \in S, k < n PROVE k + 1 \in S
  <2>1. k \in 0 .. n - 1 /\ k + 1 \in 0 .. n
    BY <1>7
  <2>2. PICK c : Behind(c, run[k])
    BY <1>7
  <2>3. Step(blocks', run[k], run[k + 1])
    BY <1>3, <2>1 DEF Execution
  <2>4. run[k].at \in Blocks /\ run[k].pc \in DOMAIN blocks'[run[k].at].ins
    BY <1>1, <2>3 DEF Step, Blocks
  <2>5. Renders(c, x) /\ ReadsAt(blocks, c)
    BY <1>6, <2>2, <2>4
  <2>6. PICK f : /\ Step(blocks, c, f)
                 /\ Without(f, run[k + 1], x) /\ (x \in DOMAIN f.env <=> x \in DOMAIN c.env)
    BY <1>1, <2>2, <2>3, <2>5, RendersBack
  <2>7. Behind(f, run[k + 1])
    BY <2>2, <2>6, GoesOn
  <2> HIDE DEF Behind
  <2> QED
    BY <2>1, <2>7
<1>8. S \in SUBSET (0 .. n) /\ n \in 0 .. n
  OBVIOUS
<1> HIDE DEF S
<1>9. n \in S
  BY <1>5, <1>7, <1>8, UpTo
<1>10. PICK c : Behind(c, d)
  BY <1>3, <1>9 DEF S
<1>11. ReadsAt(blocks', d)
  <2>1. CASE d.at \in Blocks /\ d.pc \in DOMAIN blocks'[d.at].ins
    BY <1>1, <1>6, <1>10, <2>1, RendersReads
  <2>2. CASE ~(d.at \in Blocks /\ d.pc \in DOMAIN blocks'[d.at].ins)
    BY <1>1, <2>2 DEF ReadsAt, Blocks
  <2> QED
    BY <2>1, <2>2
<1>12. Reaches(blocks, c) /\ c.at = d.at /\ c.trace = d.trace
  BY <1>10 DEF Without
<1> QED
  BY <1>11, <1>12 DEF WasPossible

\* FoldConstant: all other instructions read the same, without the variable.
LEMMA FoldRender ==
  ASSUME RewritingInv, phase = "fold", NEW a, NEW n, FoldsAt(a, n),
         NEW x, NEW v, x = blocks[a].ins[n].res, v = FoldedValue(blocks[a].ins[n]),
         NEW c, c.at \in executable, c.pc \in DOMAIN blocks[c.at].ins, Holds(c, x, v),
         c.at # a \/ c.pc # n
  PROVE  Renders(c, x)
<1>1. Formed /\ ExecutableClosed /\ c.at \in Blocks /\ executable \subseteq Blocks
  BY DEF RewritingInv, ExecutableClosed
<1> DEFINE i == blocks[c.at].ins[c.pc]
           j == blocks'[c.at].ins[c.pc]
<1>2. /\ IsVariable(x)
      /\ \A b \in Blocks : \A k \in LivePlaces(b) :
           IsTracked(blocks[b].ins[k]) /\ blocks[b].ins[k].res = x => b = a /\ k = n
      /\ \A b \in Blocks : \A k \in DOMAIN blocks[b].phi : blocks[b].phi[k].res # x
  BY FoldedIs
<1>3. v = Const(v[2])
  BY Constants DEF FoldedValue
<1>4. \A y : SameReading(c, x, y, Substituted(x, v, y))
  BY <1>2, <1>3, SubstitutedReading
<1>5. \A b \in Blocks : SameOutline(b)
  BY <1>1, FoldReplaced
<1>6. /\ blocks'[c.at].ins[c.pc].removed = blocks[c.at].ins[c.pc].removed
      /\ ~blocks[c.at].ins[c.pc].removed => \A m \in DOMAIN blocks[c.at].ins[c.pc].use :
           blocks'[c.at].ins[c.pc].use[m] = Substituted(x, v, blocks[c.at].ins[c.pc].use[m])
  BY <1>1, FoldElsewhere
<1>7. \A b \in Blocks : \A k \in DOMAIN blocks[b].phi : \A m \in DOMAIN blocks[b].phi[k].val :
        blocks'[b].phi[k].val[m][1] = Substituted(x, v, blocks[b].phi[k].val[m][1])
  BY <1>1, FoldReplaced
<1>8. ~i.removed => c.pc \in LivePlaces(c.at) /\ i \in LiveIns(c.at)
  BY DEF LivePlaces, LiveIns
<1>9. ~i.removed => ReadsSame(j, i, c, x)
  BY <1>4, <1>6 DEF ReadsSame
<1>10. ~i.removed /\ IsTracked(i) => i.res # x
  BY <1>1, <1>2, <1>8
<1>11. ~i.removed =>
         /\ i.kind = "jmp" => i.to[1] \in Blocks
         /\ i.kind = "br" =>
              /\ 1 \in DOMAIN i.use
              /\ i.to[IF Value(c.env, i.use[1]) # 0 THEN 1 ELSE 2] \in Blocks
  <2> SUFFICES ASSUME ~i.removed
               PROVE  /\ i.kind = "jmp" => i.to[1] \in Blocks
                      /\ i.kind = "br" =>
                           /\ 1 \in DOMAIN i.use
                           /\ i.to[IF Value(c.env, i.use[1]) # 0 THEN 1 ELSE 2] \in Blocks
    OBVIOUS
  <2> HIDE DEF i, j
  <2>1. /\ i.kind = "jmp" => i.to[1] \in executable
        /\ i.kind = "br" =>
             /\ 1 \in DOMAIN i.use
             /\ IF IsConstant(i.use[1]) THEN i.to[IF i.use[1][2] # 0 THEN 1 ELSE 2] \in executable
                ELSE i.to[1] \in executable /\ i.to[2] \in executable
    BY <1>1, <1>8 DEF ExecutableClosed
  <2>2. IsConstant(i.use[1]) => Value(c.env, i.use[1]) = i.use[1][2]
    BY DEF Value
  <2> QED
    BY <1>1, <2>1, <2>2
<1>12. j.removed <=> i.removed
  BY <1>6
<1>13. \A b \in Blocks : \A k \in DOMAIN blocks[b].phi :
         /\ blocks[b].phi[k].res # x
         /\ \A m \in DOMAIN blocks[b].phi[k].val :
              SameReading(c, x, blocks[b].phi[k].val[m][1], blocks'[b].phi[k].val[m][1])
  BY <1>2, <1>4, <1>7
<1> HIDE DEF i, j
<1>14. i = blocks[c.at].ins[c.pc] /\ j = blocks'[c.at].ins[c.pc]
  BY DEF i, j
<1> QED
  BY <1>1, <1>5, <1>9, <1>10, <1>11, <1>12, <1>13, <1>14 DEF Renders

\* Where the instruction was is nothing to do; before, it gave its variable the
\* value.
LEMMA FoldedBack ==
  ASSUME RewritingInv, phase = "fold", NEW a, NEW n, FoldsAt(a, n),
         NEW x, NEW v, x = blocks[a].ins[n].res, v = FoldedValue(blocks[a].ins[n]),
         NEW c, NEW d, NEW e, c.at = a, c.pc = n, Without(c, d, x), Step(blocks', d, e)
  PROVE  \E f : Step(blocks, c, f) /\ Without(f, e, x)
<1>1. Formed
  BY DEF RewritingInv
<1> DEFINE i == blocks[a].ins[n]
           j == blocks'[a].ins[n]
           env == Assigned(c.env, x, v[2])
           f == [at |-> c.at, pc |-> c.pc + 1, trace |-> c.trace, env |-> env]
<1>2. /\ a \in Blocks /\ n \in DOMAIN blocks[a].ins /\ ~i.removed /\ Folds(i) /\ IsTracked(i)
      /\ \A k \in DOMAIN i.use : IsConstant(i.use[k])
  BY FoldedIs
<1>3. j.removed
  BY <1>1, <1>2, FoldReplaced
<1>4. v[2] = Fold(i, [k \in DOMAIN i.use |-> i.use[k][2]])
  BY Constants DEF FoldedValue
<1>5. f.at = c.at /\ f.pc = c.pc + 1 /\ f.trace = c.trace /\ f.env = env
  OBVIOUS
<1>6. /\ DOMAIN env = DOMAIN c.env \cup {x}
      /\ \A y \in DOMAIN c.env : y # x => env[y] = c.env[y]
  BY DEF Assigned
<1>7. Skip(j, d, e)
  <2>1. d.at = a /\ d.pc = n
    BY DEF Without
  <2>2. Skip(j, d, e) \/ Compute(j, d, e) \/ Finish(j, d, e) \/ Leave(blocks', j, d, e)
    BY <2>1 DEF Step
  <2> HIDE DEF j
  <2> QED
    BY <1>3, <2>2 DEF Compute, Finish, Leave
<1> HIDE DEF f
<1>8. Compute(i, c, f)
  <2> HIDE DEF i, env
  <2>1. IsSilent(i) /\ ~IsTerminator(i)
    BY <1>2 DEF IsSilent, Folds, FoldedKinds, IsTerminator
  <2>2. CanRead(c.env, i)
    BY <1>2 DEF CanRead, Readable
  <2>3. Values(c.env, i) = [k \in DOMAIN i.use |-> i.use[k][2]]
    BY <1>2 DEF Values, Value
  <2>4. v[2] \in Results(c.env, i)
    BY <1>2, <1>4, <2>3 DEF Results
  <2>5. f.env = Assigned(c.env, i.res, v[2])
    BY <1>5 DEF env, i
  <2> QED
    BY <1>2, <1>5, <2>1, <2>2, <2>4, <2>5 DEF Compute
<1>9. Step(blocks, c, f)
  BY <1>2, <1>8 DEF Step, Blocks
<1> HIDE DEF env, j
<1>10. Without(f, e, x)
  <2>1. /\ d.at = c.at /\ d.pc = c.pc /\ d.trace = c.trace
        /\ DOMAIN d.env = DOMAIN c.env \ {x}
        /\ \A y \in DOMAIN d.env : d.env[y] = c.env[y]
    BY DEF Without
  <2>2. e.at = d.at /\ e.pc = d.pc + 1 /\ e.env = d.env /\ e.trace = d.trace
    BY <1>7 DEF Skip
  <2> QED
    BY <1>5, <1>6, <2>1, <2>2 DEF Without
<1> QED
  BY <1>9, <1>10

LEMMA FoldAdds ==
  ASSUME RewritingInv, FoldConstant, AlwaysReads(blocks), NEW d, Reaches(blocks', d)
  PROVE  WasPossible(d)
<1>1. phase = "fold" /\ Formed /\ ExecutableClosed /\ executable \subseteq Blocks
  BY DEF FoldConstant, RewritingInv, ExecutableClosed
<1>2. PICK a, n : FoldsAt(a, n)
  BY <1>1, FoldPlace
<1> DEFINE x == blocks[a].ins[n].res
           v == FoldedValue(blocks[a].ins[n])
<1>3. x \notin ToSet(params)
  BY <1>1, <1>2, FoldedIs
<1>4. Blocks' = Blocks
  BY <1>2 DEF FoldsAt, Blocks
<1>5. PICK l \in Nat : \E run : Execution(blocks', run, l) /\ run[l] = d
  BY DEF Reaches
<1>6. PICK run : Execution(blocks', run, l) /\ run[l] = d
  BY <1>5
<1>7. \A b \in Blocks : DOMAIN blocks'[b].ins = DOMAIN blocks[b].ins
  <2> SUFFICES ASSUME NEW b \in Blocks PROVE DOMAIN blocks'[b].ins = DOMAIN blocks[b].ins
    OBVIOUS
  <2>1. SameOutline(b)
    BY <1>1, <1>2, FoldReplaced
  <2> QED
    BY <2>1, OutlineFields
<1>8. Returned \notin Blocks
  <2>1. Returned \notin 0 .. Cardinality(Blocks) - 1
    BY DEF Returned
  <2> QED
    BY <1>1, <2>1 DEF Formed
<1>9. ASSUME NEW c, c.at \in executable, c.pc \in DOMAIN blocks[c.at].ins, Holds(c, x, v),
             c.at # a \/ c.pc # n
      PROVE  Renders(c, x)
  BY <1>1, <1>2, <1>9, FoldRender
<1>10. ASSUME NEW c, NEW e, NEW f, c.at = a, c.pc = n, Without(c, e, x), Step(blocks', e, f)
       PROVE  \E g : Step(blocks, c, g) /\ Without(g, f, x)
  BY <1>1, <1>2, <1>10, FoldedBack
<1>11. ASSUME NEW c, NEW g, c.at \in executable \cup {Returned}, Holds(c, x, v), Step(blocks, c, g)
       PROVE  g.at \in executable \cup {Returned} /\ Holds(g, x, v)
  BY <1>1, <1>2, <1>4, <1>11, FoldStep
<1>12. blocks'[a].ins[n].removed
  <2>1. a \in Blocks
    BY <1>2 DEF FoldsAt
  <2> QED
    BY <1>1, <1>2, <2>1, FoldReplaced
<1> HIDE DEF x, v
<1> DEFINE Behind(c, e) == /\ Reaches(blocks, c) /\ Without(c, e, x)
                           /\ c.at \in executable \cup {Returned} /\ Holds(c, x, v)
           S == {k \in 0 .. l : \E c : Behind(c, run[k])}
<1>13. 0 \in S
  <2>1. /\ run[0].at = 0 /\ run[0].pc = 1 /\ run[0].trace = << >>
        /\ DOMAIN run[0].env = ToSet(params)
    <3>1. params' = params
      BY DEF FoldConstant
    <3> QED
      BY <1>6, <3>1 DEF Execution
  <2>2. x \notin DOMAIN run[0].env
    BY <1>3, <2>1
  <2>3. Without(run[0], run[0], x) /\ Holds(run[0], x, v)
    BY <2>2 DEF Without, Holds
  <2>4. Reaches(blocks, run[0]) /\ run[0].at \in executable
    BY <1>1, <2>1, Begins DEF ExecutableClosed
  <2> QED
    BY <2>3, <2>4
<1>14. ASSUME NEW c, NEW e, Behind(c, e), e.at \in Blocks, e.pc \in DOMAIN blocks'[e.at].ins,
              c.at # a \/ c.pc # n
       PROVE  Renders(c, x) /\ ReadsAt(blocks, c)
  <2>1. c.at = e.at /\ c.pc = e.pc
    BY <1>14 DEF Without
  <2>2. c.at \in executable /\ c.pc \in DOMAIN blocks[c.at].ins /\ Holds(c, x, v)
    BY <1>7, <1>8, <1>14, <2>1
  <2>3. ReadsAt(blocks, c)
    BY <1>14 DEF AlwaysReads
  <2> QED
    BY <1>9, <1>14, <2>2, <2>3
<1>15. ASSUME NEW k \in S, k < l PROVE k + 1 \in S
  <2>1. k \in 0 .. l - 1 /\ k + 1 \in 0 .. l
    BY <1>15
  <2>2. PICK c : Behind(c, run[k])
    BY <1>15
  <2>3. Step(blocks', run[k], run[k + 1])
    BY <1>6, <2>1 DEF Execution
  <2>4. run[k].at \in Blocks /\ run[k].pc \in DOMAIN blocks'[run[k].at].ins
    BY <1>4, <2>3 DEF Step, Blocks
  <2>5. \E g : Step(blocks, c, g) /\ Without(g, run[k + 1], x)
    <3>1. CASE c.at = a /\ c.pc = n
      BY <1>10, <2>2, <2>3, <3>1
    <3>2. CASE c.at # a \/ c.pc # n
      <4>1. Renders(c, x) /\ ReadsAt(blocks, c)
        BY <1>14, <2>2, <2>4, <3>2
      <4> QED
        BY <1>4, <2>2, <2>3, <4>1, RendersBack
    <3> QED
      BY <3>1, <3>2
  <2>6. PICK g : Step(blocks, c, g) /\ Without(g, run[k + 1], x)
    BY <2>5
  <2>7. Behind(g, run[k + 1])
    BY <1>11, <2>2, <2>6, GoesOn
  <2> HIDE DEF Behind
  <2> QED
    BY <2>1, <2>7
<1>16. S \in SUBSET (0 .. l) /\ l \in 0 .. l
  OBVIOUS
<1> HIDE DEF S
<1>17. l \in S
  BY <1>13, <1>15, <1>16, UpTo
<1>18. PICK c : Behind(c, d)
  BY <1>6, <1>17 DEF S
<1>19. ReadsAt(blocks', d)
  <2>1. CASE ~(d.at \in Blocks /\ d.pc \in DOMAIN blocks'[d.at].ins)
    BY <1>4, <2>1 DEF ReadsAt, Blocks
  <2>2. CASE d.at = a /\ d.pc = n
    BY <1>12, <2>2 DEF ReadsAt
  <2>3. CASE /\ d.at \in Blocks /\ d.pc \in DOMAIN blocks'[d.at].ins
             /\ d.at # a \/ d.pc # n
    <3>1. c.at = d.at /\ c.pc = d.pc
      BY <1>18 DEF Without
    <3>2. Renders(c, x) /\ ReadsAt(blocks, c)
      BY <1>14, <1>18, <2>3, <3>1
    <3> QED
      BY <1>4, <1>18, <3>2, RendersReads
  <2> QED
    BY <2>1, <2>2, <2>3
<1>20. Reaches(blocks, c) /\ c.at = d.at /\ c.trace = d.trace
  BY <1>18 DEF Without
<1> QED
  BY <1>19, <1>20 DEF WasPossible

\* c is where d is; or c is at a converted branch, and d behind it, on its way to the jump.
Passing(c, d) ==
  /\ d.at = c.at /\ d.env = c.env /\ d.trace = c.trace
  /\ d.pc = c.pc \/ (ConvertedAt(c.at, c.pc) /\ c.pc < d.pc)
  /\ \A k : ConvertedAt(c.at, k) => c.pc <= k

LEMMA ConvertPhis ==
  ASSUME ConvertBranches, Formed, NEW b \in Blocks
  PROVE  blocks'[b].phi = blocks[b].phi
<1>1. CASE blocks'[b] = blocks[b]
  BY <1>1
<1>2. CASE \E k : ConvertedAt(b, k)
  <2>1. blocks'[b] = [phi |-> blocks[b].phi, ins |-> blocks'[b].ins]
    BY <1>2 DEF ConvertedAt
  <2> QED
    BY <2>1
<1> QED
  BY <1>1, <1>2, Converts

\* A block is left for an executable one.
LEMMA LeavesTo ==
  ASSUME ExecutableClosed, NEW bs, NEW b \in executable, NEW i \in LiveIns(b), NEW c, NEW d,
         Leave(bs, i, c, d)
  PROVE  d.at \in executable
<1>1. /\ i.kind = "jmp" => i.to[1] \in executable
      /\ i.kind = "br" =>
           IF IsConstant(i.use[1]) THEN i.to[IF i.use[1][2] # 0 THEN 1 ELSE 2] \in executable
           ELSE i.to[1] \in executable /\ i.to[2] \in executable
  BY DEF ExecutableClosed
<1>2. \/ i.kind = "jmp" /\ d.at = i.to[1]
      \/ i.kind = "br" /\ d.at = i.to[IF Value(c.env, i.use[1]) # 0 THEN 1 ELSE 2]
  BY DEF Leave
<1>3. IsConstant(i.use[1]) => Value(c.env, i.use[1]) = i.use[1][2]
  BY DEF Value
<1> QED
  BY <1>1, <1>2, <1>3

\* Where a block begins no branch has been passed.
LEMMA PassingFirst ==
  ASSUME Formed, executable \subseteq Blocks, NEW e, e.pc = 1
  PROVE  Passing(e, e)
<1> SUFFICES ASSUME NEW k, ConvertedAt(e.at, k) PROVE 1 <= k
  BY DEF Passing
<1>1. e.at \in Blocks /\ k \in DOMAIN blocks[e.at].ins
  BY DEF ConvertedAt, LivePlaces
<1>2. IsSequence(blocks[e.at].ins)
  BY <1>1 DEF Formed
<1> QED
  BY <1>1, <1>2, SequenceIs

\* d is about to execute what c is, or what the conversion made of it.
ConvertedTo(c, d) ==
  LET i == blocks[c.at].ins[c.pc]
      j == blocks'[c.at].ins[d.pc]
  IN \/ /\ d.pc = c.pc /\ j = i /\ c.pc \in DOMAIN blocks[c.at].ins
        /\ \A k : ConvertedAt(c.at, k) => c.pc + 1 <= k
     \/ j.removed /\ ConvertedAt(c.at, c.pc) /\ c.pc < d.pc + 1
     \/ /\ ConvertedAt(c.at, c.pc) /\ i \in LiveIns(c.at) /\ i.kind = "br" /\ IsConstant(i.use[1])
        /\ j = Jump(i.to[IF i.use[1][2] # 0 THEN 1 ELSE 2])

\* What is at the place of d: the instruction c is about to execute; or one that is
\* removed, at the branch or behind it; or the jump the branch has become.
LEMMA ConvertedIs ==
  ASSUME RewritingInv, ConvertBranches, NEW c, NEW d, c.at \in executable, Passing(c, d),
         d.pc \in DOMAIN blocks'[c.at].ins
  PROVE  ConvertedTo(c, d)
<1> SUFFICES ASSUME NEW i, NEW j, i = blocks[c.at].ins[c.pc], j = blocks'[c.at].ins[d.pc]
             PROVE  \/ /\ d.pc = c.pc /\ j = i /\ c.pc \in DOMAIN blocks[c.at].ins
                       /\ \A k : ConvertedAt(c.at, k) => c.pc + 1 <= k
                    \/ j.removed /\ ConvertedAt(c.at, c.pc) /\ c.pc < d.pc + 1
                    \/ /\ ConvertedAt(c.at, c.pc) /\ i \in LiveIns(c.at) /\ i.kind = "br" /\ IsConstant(i.use[1])
                       /\ j = Jump(i.to[IF i.use[1][2] # 0 THEN 1 ELSE 2])
  BY DEF ConvertedTo
<1>1. phase = "fold" /\ Formed /\ TerminatorsLast /\ c.at \in Blocks
  BY DEF ConvertBranches, RewritingInv, ExecutableClosed
<1> DEFINE q == blocks[c.at].ins
           r == blocks'[c.at].ins
<1>2. IsSequence(q)
  BY <1>1 DEF Formed
<1>3. Len(q) \in Nat /\ DOMAIN q = 1 .. Len(q)
  BY <1>2, SequenceIs
<1>4. CASE \A k : ~ConvertedAt(c.at, k)
  <2>1. blocks'[c.at] = blocks[c.at]
    BY <1>1, <1>4, Converts
  <2>2. d.pc = c.pc
    BY <1>4 DEF Passing
  <2> QED
    BY <1>4, <2>1, <2>2
<1>5. ASSUME NEW k, ConvertedAt(c.at, k)
      PROVE  /\ k \in DOMAIN q /\ ~q[k].removed /\ q[k].kind = "br" /\ IsConstant(q[k].use[1])
             /\ DOMAIN r = 1 .. Len(q) + 1
             /\ \A m \in DOMAIN q \ {k} : r[m] = q[m]
             /\ r[k] = [q[k] EXCEPT !.removed = TRUE]
             /\ r[Len(q) + 1] = Jump(q[k].to[IF q[k].use[1][2] # 0 THEN 1 ELSE 2])
             /\ \A m \in LivePlaces(c.at) : m <= k
  <2>1. k \in LivePlaces(c.at) /\ IsTerminator(q[k])
    BY <1>5 DEF ConvertedAt, IsTerminator
  <2>2. \A m \in LivePlaces(c.at) : m <= k
    BY <1>1, <2>1 DEF TerminatorsLast
  <2>3. k \in DOMAIN q /\ ~q[k].removed
    BY <2>1 DEF LivePlaces
  <2>4. r[Len(q) + 1] = Jump(q[k].to[IF q[k].use[1][2] # 0 THEN 1 ELSE 2])
    BY <1>5 DEF ConvertedAt
  <2> QED
    BY <1>5, <2>2, <2>3, <2>4 DEF ConvertedAt
<1>6. ASSUME NEW k, NEW m, ConvertedAt(c.at, k), ConvertedAt(c.at, m)
      PROVE  k = m
  <2>1. k \in LivePlaces(c.at) /\ m \in LivePlaces(c.at) /\ k \in DOMAIN q /\ m \in DOMAIN q
    BY <1>6 DEF ConvertedAt, LivePlaces
  <2>2. k <= m /\ m <= k
    BY <1>5, <1>6, <2>1
  <2>3. k \in Nat /\ m \in Nat
    BY <1>3, <2>1
  <2> HIDE DEF q
  <2> QED
    BY <2>2, <2>3
<1>7. ASSUME NEW k, ConvertedAt(c.at, k), c.pc # k
      PROVE  /\ d.pc = c.pc /\ j = i /\ c.pc \in DOMAIN q
             /\ \A m : ConvertedAt(c.at, m) => c.pc + 1 <= m
  <2>1. d.pc = c.pc /\ c.pc <= k
    BY <1>6, <1>7 DEF Passing
  <2>2. k \in DOMAIN q /\ DOMAIN r = 1 .. Len(q) + 1 /\ \A m \in DOMAIN q \ {k} : r[m] = q[m]
    BY <1>5, <1>7
  <2>3. c.pc \in DOMAIN r
    BY <2>1
  <2> HIDE DEF q, r
  <2>4. c.pc \in 1 .. Len(q) + 1 /\ k \in 1 .. Len(q)
    BY <1>3, <2>2, <2>3
  <2>5. c.pc \in 1 .. Len(q) /\ c.pc + 1 <= k
    BY <1>3, <1>7, <2>1, <2>4
  <2>6. c.pc \in DOMAIN q /\ r[c.pc] = q[c.pc]
    BY <1>3, <1>7, <2>2, <2>5
  <2>7. j = i
    BY <2>1, <2>6 DEF q, r
  <2>8. \A m : ConvertedAt(c.at, m) => c.pc + 1 <= m
    BY <1>6, <1>7, <2>5
  <2> QED
    BY <2>1, <2>6, <2>7, <2>8
<1>8. ASSUME ConvertedAt(c.at, c.pc)
      PROVE  \/ j.removed /\ c.pc < d.pc + 1
             \/ /\ i \in LiveIns(c.at) /\ i.kind = "br" /\ IsConstant(i.use[1])
                /\ j = Jump(i.to[IF i.use[1][2] # 0 THEN 1 ELSE 2])
  <2>1. /\ c.pc \in DOMAIN q /\ ~i.removed /\ i.kind = "br" /\ IsConstant(i.use[1])
        /\ DOMAIN r = 1 .. Len(q) + 1
        /\ \A m \in DOMAIN q \ {c.pc} : r[m] = q[m]
        /\ r[c.pc] = [i EXCEPT !.removed = TRUE]
        /\ r[Len(q) + 1] = Jump(i.to[IF i.use[1][2] # 0 THEN 1 ELSE 2])
        /\ \A m \in LivePlaces(c.at) : m <= c.pc
    BY <1>5, <1>8
  <2>2. i \in LiveIns(c.at)
    BY <2>1 DEF LiveIns, LivePlaces
  <2>3. i = [kind |-> i.kind, op |-> i.op, uns |-> i.uns, res |-> i.res,
             use |-> i.use, to |-> i.to, removed |-> i.removed]
    BY <1>1, <2>1, FormedPlaces
  <2>4. d.pc = c.pc \/ c.pc < d.pc
    BY DEF Passing
  <2>5. j = r[d.pc] /\ d.pc \in DOMAIN r
    OBVIOUS
  <2>6. \A m \in DOMAIN q : m \notin LivePlaces(c.at) => q[m].removed
    BY DEF LivePlaces
  <2> HIDE DEF q, r
  <2>7. c.pc \in 1 .. Len(q) /\ d.pc \in 1 .. Len(q) + 1 /\ c.pc < d.pc + 1
    <3>1. c.pc \in 1 .. Len(q) /\ d.pc \in 1 .. Len(q) + 1
      BY <1>3, <2>1, <2>5
    <3> QED
      BY <2>4, <3>1
  <2>8. CASE d.pc = c.pc
    <3>1. j = [i EXCEPT !.removed = TRUE]
      BY <2>1, <2>5, <2>8
    <3>2. j = [kind |-> i.kind, op |-> i.op, uns |-> i.uns, res |-> i.res, use |-> i.use,
               to |-> i.to, removed |-> TRUE]
      BY <2>3, <3>1, RemovedMarked
    <3>3. j.removed
      BY <3>2
    <3> QED
      BY <2>7, <3>3
  <2>9. CASE d.pc # c.pc /\ d.pc \in 1 .. Len(q)
    <3>1. d.pc \in DOMAIN q \ {c.pc}
      BY <1>3, <2>9
    <3>2. d.pc \notin LivePlaces(c.at)
      <4>1. ~(d.pc <= c.pc)
        BY <2>4, <2>7, <2>9
      <4> QED
        BY <2>1, <4>1
    <3>3. r[d.pc] = q[d.pc] /\ q[d.pc].removed
      <4>1. d.pc \in DOMAIN q
        BY <3>1
      <4> QED
        BY <2>1, <2>6, <3>1, <3>2, <4>1
    <3>4. j.removed
      BY <2>5, <3>3
    <3> QED
      BY <2>7, <3>4
  <2>10. CASE d.pc = Len(q) + 1
    BY <2>1, <2>2, <2>5, <2>10
  <2>11. d.pc \in 1 .. Len(q) \/ d.pc = Len(q) + 1
    BY <1>3, <2>7
  <2> QED
    BY <2>8, <2>9, <2>10, <2>11
<1> QED
  BY <1>4, <1>7, <1>8

\* Every step after the conversion is one before it, or the way to the jump.
LEMMA ConvertBack ==
  ASSUME RewritingInv, ConvertBranches, NEW c, NEW d, NEW e, c.at \in executable \cup {Returned},
         Passing(c, d), Step(blocks', d, e)
  PROVE  \E f : (f = c \/ Step(blocks, c, f)) /\ Passing(f, e)
<1>1. phase = "fold" /\ Formed /\ ExecutableClosed
  BY DEF ConvertBranches, RewritingInv
<1>2. Blocks' = Blocks /\ executable \subseteq Blocks /\ Returned \notin Blocks
  <2>1. Returned \notin 0 .. Cardinality(Blocks) - 1
    BY DEF Returned
  <2> QED
    BY <1>1, <2>1 DEF ConvertBranches, Blocks, ExecutableClosed, Formed
<1> DEFINE i == blocks[c.at].ins[c.pc]
           j == blocks'[c.at].ins[d.pc]
<1>3. /\ d.at = c.at /\ d.env = c.env /\ d.trace = c.trace
      /\ \A k : ConvertedAt(c.at, k) => c.pc <= k
  BY DEF Passing
<1>4. /\ d.pc \in DOMAIN blocks'[c.at].ins /\ c.at \in Blocks /\ c.at \in executable
      /\ Skip(j, d, e) \/ Compute(j, d, e) \/ Finish(j, d, e) \/ Leave(blocks', j, d, e)
  BY <1>2, <1>3 DEF Step, Blocks
<1>5. \/ /\ d.pc = c.pc /\ j = i /\ c.pc \in DOMAIN blocks[c.at].ins
         /\ \A k : ConvertedAt(c.at, k) => c.pc + 1 <= k
      \/ j.removed /\ ConvertedAt(c.at, c.pc) /\ c.pc < d.pc + 1
      \/ /\ ConvertedAt(c.at, c.pc) /\ i \in LiveIns(c.at) /\ i.kind = "br" /\ IsConstant(i.use[1])
         /\ j = Jump(i.to[IF i.use[1][2] # 0 THEN 1 ELSE 2])
  <2>1. c.at \in executable /\ d.pc \in DOMAIN blocks'[c.at].ins
    BY <1>4
  <2>2. ConvertedTo(c, d)
    BY <2>1, ConvertedIs
  <2> QED
    BY <2>2 DEF ConvertedTo
<1>6. c.pc \in DOMAIN blocks[c.at].ins /\ ~i.removed => i \in LiveIns(c.at)
  BY DEF LiveIns, LivePlaces
<1>7. c.pc \in DOMAIN blocks[c.at].ins =>
        \A f : Skip(i, c, f) \/ Compute(i, c, f) \/ Finish(i, c, f) \/ Leave(blocks, i, c, f) =>
          Step(blocks, c, f)
  BY <1>4 DEF Step, Blocks
<1>8. \A k : ConvertedAt(c.at, k) => k \in DOMAIN blocks[c.at].ins
  BY DEF ConvertedAt, LivePlaces
<1> HIDE DEF i, j
<1>9. CASE /\ d.pc = c.pc /\ j = i /\ c.pc \in DOMAIN blocks[c.at].ins
           /\ \A k : ConvertedAt(c.at, k) => c.pc + 1 <= k
  <2>1. CASE Skip(i, d, e) \/ Compute(i, d, e)
    <3>1. Step(blocks, c, e)
      BY <1>3, <1>7, <1>9, <2>1 DEF Skip, Compute
    <3>2. e.at = c.at /\ e.pc = c.pc + 1
      BY <1>3, <1>9, <2>1 DEF Skip, Compute
    <3>3. Passing(e, e)
      BY <1>9, <3>2 DEF Passing
    <3> QED
      BY <3>1, <3>3
  <2>2. CASE Finish(i, d, e)
    <3>1. Step(blocks, c, e)
      BY <1>3, <1>7, <1>9, <2>2 DEF Finish
    <3>2. e.at = Returned
      BY <2>2 DEF Finish
    <3>3. Passing(e, e)
      BY <1>2, <3>2 DEF Passing, ConvertedAt
    <3> QED
      BY <3>1, <3>3
  <2>3. CASE Leave(blocks', i, d, e)
    <3>1. ~i.removed
      BY <2>3 DEF Leave
    <3>2. e.at \in Blocks
      BY <1>1, <1>2, <1>4, <1>6, <1>9, <2>3, <3>1, LeavesTo
    <3>3. blocks'[e.at].phi = blocks[e.at].phi
      BY <1>1, <3>2, ConvertPhis
    <3>4. Leave(blocks, i, c, e)
      BY <1>3, <2>3, <3>3 DEF Leave, Arrive
    <3>5. Step(blocks, c, e)
      BY <1>7, <1>9, <3>4
    <3>6. Passing(e, e)
      BY <1>1, <1>2, <2>3, PassingFirst DEF Leave
    <3> QED
      BY <3>5, <3>6
  <2> QED
    BY <1>4, <1>9, <2>1, <2>2, <2>3
<1>10. CASE j.removed /\ ConvertedAt(c.at, c.pc) /\ c.pc < d.pc + 1
  <2>1. Skip(j, d, e)
    BY <1>4, <1>10 DEF Compute, Finish, Leave
  <2>2. e.at = d.at /\ e.pc = d.pc + 1 /\ e.env = d.env /\ e.trace = d.trace
    BY <2>1 DEF Skip
  <2>3. Passing(c, e)
    BY <1>3, <1>10, <2>2 DEF Passing
  <2> QED
    BY <2>3
<1>11. CASE /\ ConvertedAt(c.at, c.pc) /\ i \in LiveIns(c.at) /\ i.kind = "br" /\ IsConstant(i.use[1])
            /\ j = Jump(i.to[IF i.use[1][2] # 0 THEN 1 ELSE 2])
  <2>1. /\ j.kind = "jmp" /\ ~j.removed
        /\ j.to[1] = i.to[IF i.use[1][2] # 0 THEN 1 ELSE 2]
    BY <1>11, JumpFields
  <2>2. Leave(blocks', j, d, e)
    <3>1. IsTerminator(j) /\ j.kind # "ret"
      BY <2>1 DEF IsTerminator
    <3> QED
      BY <1>4, <2>1, <3>1 DEF Skip, Compute, Finish
  <2>3. /\ e.at = i.to[IF i.use[1][2] # 0 THEN 1 ELSE 2] /\ e.pc = 1 /\ e.trace = d.trace
        /\ Arrive(ToSet(blocks'[e.at].phi), d, e)
    BY <2>1, <2>2 DEF Leave
  <2>4. e.at \in Blocks
    BY <1>1, <1>2, <1>4, <1>11, <2>3 DEF ExecutableClosed
  <2>5. Arrive(ToSet(blocks[e.at].phi), c, e)
    <3>1. blocks'[e.at].phi = blocks[e.at].phi
      BY <1>1, <2>4, ConvertPhis
    <3>2. Arrive(ToSet(blocks[e.at].phi), d, e)
      BY <2>3, <3>1
    <3> QED
      BY <1>3, <3>2 DEF Arrive
  <2>6. ~i.removed
    BY <1>11 DEF LiveIns, LivePlaces
  <2>7. Leave(blocks, i, c, e)
    BY <1>3, <1>11, <2>3, <2>5, <2>6 DEF Leave, Readable, Value
  <2>8. Step(blocks, c, e)
    BY <1>7, <1>8, <1>11, <2>7
  <2>9. Passing(e, e)
    BY <1>1, <1>2, <2>3, PassingFirst
  <2> QED
    BY <2>8, <2>9
<1> QED
  BY <1>5, <1>9, <1>10, <1>11

\* The jump reads nothing, and its phis what those of the branch did.
LEMMA ConvertReads ==
  ASSUME RewritingInv, ConvertBranches, NEW c, NEW d, c.at \in executable \cup {Returned},
         Passing(c, d), ReadsAt(blocks, c)
  PROVE  ReadsAt(blocks', d)
<1>1. phase = "fold" /\ Formed /\ ExecutableClosed
  BY DEF ConvertBranches, RewritingInv
<1>2. Blocks' = Blocks /\ executable \subseteq Blocks /\ Returned \notin Blocks
  <2>1. Returned \notin 0 .. Cardinality(Blocks) - 1
    BY DEF Returned
  <2> QED
    BY <1>1, <2>1 DEF ConvertBranches, Blocks, ExecutableClosed, Formed
<1>3. d.at = c.at /\ d.env = c.env
  BY DEF Passing
<1> DEFINE i == blocks[c.at].ins[c.pc]
           j == blocks'[c.at].ins[d.pc]
<1> SUFFICES ASSUME c.at \in Blocks, d.pc \in DOMAIN blocks'[c.at].ins, ~j.removed
             PROVE  /\ CanRead(c.env, j)
                    /\ \A b \in Blocks : \A phi \in ToSet(blocks'[b].phi) : \A e \in ToSet(phi.val) :
                         j.kind \in {"br", "jmp"} /\ e[2] = c.at => Readable(c.env, e[1])
  BY <1>2, <1>3 DEF ReadsAt, Blocks
<1>4. c.at \in executable
  BY <1>2
<1>5. \/ d.pc = c.pc /\ j = i /\ c.pc \in DOMAIN blocks[c.at].ins
      \/ /\ ConvertedAt(c.at, c.pc) /\ i \in LiveIns(c.at) /\ i.kind = "br"
         /\ \E t : j = Jump(t)
  <2>1. c.at \in executable /\ d.pc \in DOMAIN blocks'[c.at].ins
    BY <1>4
  <2>2. ConvertedTo(c, d)
    BY <2>1, ConvertedIs
  <2>3. \/ d.pc = c.pc /\ j = i /\ c.pc \in DOMAIN blocks[c.at].ins
        \/ j.removed
        \/ /\ ConvertedAt(c.at, c.pc) /\ i \in LiveIns(c.at) /\ i.kind = "br"
           /\ j = Jump(i.to[IF i.use[1][2] # 0 THEN 1 ELSE 2])
    BY <2>2 DEF ConvertedTo
  <2>4. ~j.removed
    OBVIOUS
  <2> QED
    BY <2>3, <2>4
<1>6. c.pc \in DOMAIN blocks[c.at].ins /\ ~i.removed =>
        /\ CanRead(c.env, i)
        /\ \A b \in Blocks : \A phi \in ToSet(blocks[b].phi) : \A e \in ToSet(phi.val) :
             i.kind \in {"br", "jmp"} /\ e[2] = c.at => Readable(c.env, e[1])
  BY DEF ReadsAt, Blocks
<1>7. \A b \in Blocks : blocks'[b].phi = blocks[b].phi
  BY <1>1, ConvertPhis
<1>8. ConvertedAt(c.at, c.pc) => c.pc \in DOMAIN blocks[c.at].ins /\ ~i.removed
  BY DEF ConvertedAt, LivePlaces
<1> HIDE DEF i, j
<1>9. CASE d.pc = c.pc /\ j = i /\ c.pc \in DOMAIN blocks[c.at].ins
  BY <1>6, <1>7, <1>9
<1>10. CASE ConvertedAt(c.at, c.pc) /\ i.kind = "br" /\ \E t : j = Jump(t)
  <2>1. j.kind = "jmp" /\ CanRead(c.env, j)
    <3>1. PICK t : j = Jump(t)
      BY <1>10
    <3>2. j = [kind |-> "jmp", op |-> "", uns |-> FALSE, res |-> NoName, use |-> <<>>,
               to |-> <<t>>, removed |-> FALSE]
      BY <3>1, JumpFields
    <3>3. j.kind = "jmp" /\ j.use = <<>>
      BY <3>2
    <3>4. DOMAIN j.use = {}
      BY <3>3
    <3> QED
      BY <3>3, <3>4 DEF CanRead
  <2> QED
    BY <1>6, <1>7, <1>8, <1>10, <2>1
<1> QED
  BY <1>5, <1>9, <1>10

LEMMA ConvertAdds ==
  ASSUME RewritingInv, ConvertBranches, AlwaysReads(blocks), NEW d, Reaches(blocks', d)
  PROVE  WasPossible(d)
<1>1. Formed /\ ExecutableClosed /\ 0 \in executable /\ executable \subseteq Blocks
  BY DEF ConvertBranches, RewritingInv, ExecutableClosed
<1>2. PICK l \in Nat : \E run : Execution(blocks', run, l) /\ run[l] = d
  BY DEF Reaches
<1>3. PICK run : Execution(blocks', run, l) /\ run[l] = d
  BY <1>2
<1> DEFINE Behind(c, e) == Reaches(blocks, c) /\ c.at \in executable \cup {Returned} /\ Passing(c, e)
           S == {k \in 0 .. l : \E c : Behind(c, run[k])}
<1>4. 0 \in S
  <2>1. /\ run[0].at = 0 /\ run[0].pc = 1 /\ run[0].trace = << >>
        /\ DOMAIN run[0].env = ToSet(params)
    <3>1. params' = params
      BY DEF ConvertBranches
    <3> QED
      BY <1>3, <3>1 DEF Execution
  <2>2. Reaches(blocks, run[0]) /\ run[0].at \in executable
    BY <1>1, <2>1, Begins
  <2>3. Passing(run[0], run[0])
    BY <1>1, <2>1, PassingFirst
  <2> QED
    BY <2>2, <2>3
<1>5. ASSUME NEW k \in S, k < l PROVE k + 1 \in S
  <2>1. k \in 0 .. l - 1 /\ k + 1 \in 0 .. l
    BY <1>5
  <2>2. PICK c : Behind(c, run[k])
    BY <1>5
  <2>3. Step(blocks', run[k], run[k + 1])
    BY <1>3, <2>1 DEF Execution
  <2>4. PICK f : (f = c \/ Step(blocks, c, f)) /\ Passing(f, run[k + 1])
    BY <2>2, <2>3, ConvertBack
  <2>5. Reaches(blocks, f) /\ f.at \in executable \cup {Returned}
    BY <1>1, <2>2, <2>4, GoesOn, ClosedStep
  <2>6. Behind(f, run[k + 1])
    BY <2>4, <2>5
  <2> HIDE DEF Behind
  <2> QED
    BY <2>1, <2>6
<1>6. S \in SUBSET (0 .. l) /\ l \in 0 .. l
  OBVIOUS
<1> HIDE DEF S
<1>7. l \in S
  BY <1>4, <1>5, <1>6, UpTo
<1>8. PICK c : Behind(c, d)
  BY <1>3, <1>7 DEF S
<1>9. ReadsAt(blocks', d)
  BY <1>8, ConvertReads DEF AlwaysReads
<1> QED
  BY <1>8, <1>9 DEF WasPossible, Passing

\* RemoveDead: every step after the removal is one before it.
LEMMA DeadBack ==
  ASSUME RewritingInv, RemoveDead, NEW c, NEW d, c.at \in executable \cup {Returned},
         Step(blocks', c, d)
  PROVE  Step(blocks, c, d)
<1>1. Formed /\ ExecutableClosed
  BY DEF RemoveDead, RewritingInv
<1>2. Blocks' = Blocks /\ executable \subseteq Blocks /\ Returned \notin Blocks
  <2>1. Returned \notin 0 .. Cardinality(Blocks) - 1
    BY DEF Returned
  <2> QED
    BY <1>1, <2>1 DEF RemoveDead, Blocks, ExecutableClosed, Formed
<1>3. c.at \in Blocks /\ c.at \in executable
  BY <1>2 DEF Step, Blocks
<1>4. blocks'[c.at].ins = blocks[c.at].ins
  BY <1>1, <1>2, <1>3, DeadReplaced
<1> DEFINE i == blocks[c.at].ins[c.pc]
<1>5. /\ c.pc \in DOMAIN blocks[c.at].ins
      /\ Skip(i, c, d) \/ Compute(i, c, d) \/ Finish(i, c, d) \/ Leave(blocks', i, c, d)
  BY <1>4 DEF Step
<1>6. ~i.removed => i \in LiveIns(c.at)
  BY <1>5 DEF LiveIns, LivePlaces
<1> HIDE DEF i
<1>7. ASSUME Leave(blocks', i, c, d) PROVE Leave(blocks, i, c, d)
  <2> DEFINE q == blocks[d.at].phi
             r == blocks'[d.at].phi
  <2>1. ~i.removed /\ Arrive(ToSet(r), c, d)
    BY <1>7 DEF Leave
  <2>2. d.at \in executable
    BY <1>1, <1>3, <1>6, <1>7, <2>1, LeavesTo
  <2>3. /\ DOMAIN r = DOMAIN q
        /\ \A k \in DOMAIN q : r[k].res = q[k].res /\ ToSet(r[k].val) \subseteq ToSet(q[k].val)
    BY <1>1, <1>2, <2>2, DeadReplaced
  <2> HIDE DEF q, r
  <2>4. /\ \A phi \in ToSet(r) : \E k \in DOMAIN q : phi = r[k]
        /\ \A phi \in ToSet(q) : \E k \in DOMAIN q : phi = q[k]
        /\ \A k \in DOMAIN q : q[k] \in ToSet(q) /\ r[k] \in ToSet(r)
    BY <2>3 DEF ToSet
  <2>5. {phi.res : phi \in ToSet(r)} = {phi.res : phi \in ToSet(q)}
    BY <2>3, <2>4
  <2>6. DOMAIN d.env = DOMAIN c.env \cup {phi.res : phi \in ToSet(q)}
    BY <2>1, <2>5 DEF Arrive
  <2>7. ASSUME NEW phi \in ToSet(q)
        PROVE  \E e \in ToSet(phi.val) :
                 e[2] = c.at /\ Readable(c.env, e[1]) /\ d.env[phi.res] = Value(c.env, e[1])
    <3>1. PICK k \in DOMAIN q : phi = q[k]
      BY <2>4
    <3>2. PICK e \in ToSet(r[k].val) :
            e[2] = c.at /\ Readable(c.env, e[1]) /\ d.env[r[k].res] = Value(c.env, e[1])
      BY <2>1, <2>4 DEF Arrive
    <3>3. e \in ToSet(phi.val) /\ phi.res = r[k].res
      BY <2>3, <3>1, <3>2
    <3> QED
      BY <3>2, <3>3
  <2>8. ASSUME NEW y \in DOMAIN c.env, \A phi \in ToSet(q) : phi.res # y
        PROVE  d.env[y] = c.env[y]
    <3>1. \A phi \in ToSet(r) : phi.res # y
      BY <2>3, <2>4, <2>8
    <3> QED
      BY <2>1, <3>1 DEF Arrive
  <2>9. Arrive(ToSet(q), c, d)
    BY <2>6, <2>7, <2>8 DEF Arrive
  <2> QED
    BY <1>7, <2>9 DEF Leave, q
<1> QED
  BY <1>3, <1>5, <1>7 DEF Step, Blocks, i

\* The phis that stay read no more than before.
LEMMA DeadReads ==
  ASSUME RewritingInv, RemoveDead, NEW c, c.at \in executable \cup {Returned}, ReadsAt(blocks, c)
  PROVE  ReadsAt(blocks', c)
<1>1. Formed /\ ExecutableClosed
  BY DEF RemoveDead, RewritingInv
<1>2. Blocks' = Blocks /\ executable \subseteq Blocks /\ Returned \notin Blocks
  <2>1. Returned \notin 0 .. Cardinality(Blocks) - 1
    BY DEF Returned
  <2> QED
    BY <1>1, <2>1 DEF RemoveDead, Blocks, ExecutableClosed, Formed
<1> DEFINE i == blocks'[c.at].ins[c.pc]
<1> SUFFICES ASSUME c.at \in Blocks, c.pc \in DOMAIN blocks'[c.at].ins, ~i.removed
             PROVE  /\ CanRead(c.env, i)
                    /\ \A b \in Blocks : \A phi \in ToSet(blocks'[b].phi) : \A e \in ToSet(phi.val) :
                         i.kind \in {"br", "jmp"} /\ e[2] = c.at => Readable(c.env, e[1])
  BY <1>2 DEF ReadsAt, Blocks
<1>3. blocks'[c.at].ins = blocks[c.at].ins
  BY <1>1, <1>2, DeadReplaced
<1>4. /\ CanRead(c.env, i)
      /\ \A b \in Blocks : \A phi \in ToSet(blocks[b].phi) : \A e \in ToSet(phi.val) :
           i.kind \in {"br", "jmp"} /\ e[2] = c.at => Readable(c.env, e[1])
  BY <1>3 DEF ReadsAt, Blocks
<1> HIDE DEF i
<1>5. ASSUME NEW b \in Blocks, NEW phi \in ToSet(blocks'[b].phi), NEW e \in ToSet(phi.val)
      PROVE  \E old \in ToSet(blocks[b].phi) : e \in ToSet(old.val)
  <2>1. CASE b \in executable
    <3>1. PICK k \in DOMAIN blocks'[b].phi : phi = blocks'[b].phi[k]
      BY DEF ToSet
    <3>2. k \in DOMAIN blocks[b].phi /\ ToSet(phi.val) \subseteq ToSet(blocks[b].phi[k].val)
      BY <1>1, <1>2, <2>1, <3>1, DeadReplaced
    <3>3. blocks[b].phi[k] \in ToSet(blocks[b].phi)
      BY <3>2 DEF ToSet
    <3> QED
      BY <3>2, <3>3
  <2>2. CASE b \notin executable
    <3>1. blocks'[b].phi = <<>>
      BY <2>2 DEF RemoveDead
    <3>2. ToSet(blocks'[b].phi) = {}
      BY <3>1 DEF ToSet
    <3> QED
      BY <3>2
  <2> QED
    BY <2>1, <2>2
<1> QED
  BY <1>4, <1>5

LEMMA DeadAdds ==
  ASSUME RewritingInv, RemoveDead, AlwaysReads(blocks), NEW d, Reaches(blocks', d)
  PROVE  WasPossible(d)
<1>1. Formed /\ ExecutableClosed /\ 0 \in executable
  BY DEF RemoveDead, RewritingInv, ExecutableClosed
<1>2. PICK l \in Nat : \E run : Execution(blocks', run, l) /\ run[l] = d
  BY DEF Reaches
<1>3. PICK run : Execution(blocks', run, l) /\ run[l] = d
  BY <1>2
<1> DEFINE S == {k \in 0 .. l : run[k].at \in executable \cup {Returned} /\ Reaches(blocks, run[k])}
<1>4. 0 \in S
  <2>1. /\ run[0].at = 0 /\ run[0].pc = 1 /\ run[0].trace = << >>
        /\ DOMAIN run[0].env = ToSet(params)
    <3>1. params' = params
      BY DEF RemoveDead
    <3> QED
      BY <1>3, <3>1 DEF Execution
  <2>2. Reaches(blocks, run[0])
    BY <2>1, Begins
  <2> QED
    BY <1>1, <2>1, <2>2
<1>5. ASSUME NEW k \in S, k < l PROVE k + 1 \in S
  <2>1. k \in 0 .. l - 1 /\ k + 1 \in 0 .. l /\ run[k].at \in executable \cup {Returned}
        /\ Reaches(blocks, run[k])
    BY <1>5
  <2>2. Step(blocks', run[k], run[k + 1])
    BY <1>3, <2>1 DEF Execution
  <2>3. Step(blocks, run[k], run[k + 1])
    BY <2>1, <2>2, DeadBack
  <2>4. run[k + 1].at \in executable \cup {Returned}
    BY <1>1, <2>1, <2>3, ClosedStep
  <2> QED
    BY <2>1, <2>3, <2>4, GoesOn
<1>6. S \in SUBSET (0 .. l) /\ l \in 0 .. l
  OBVIOUS
<1> HIDE DEF S
<1>7. l \in S
  BY <1>4, <1>5, <1>6, UpTo
<1>8. Reaches(blocks, d) /\ d.at \in executable \cup {Returned}
  BY <1>3, <1>7 DEF S
<1>9. ReadsAt(blocks', d)
  BY <1>8, DeadReads DEF AlwaysReads
<1> QED
  BY <1>8, <1>9 DEF WasPossible

------------------------------------------------------------------------------
(* Every execution is kept, and none added.                                   *)

LEMMA RewritingKept ==
  ASSUME RewritingInv, UNCHANGED sccp
  PROVE  RewritingInv'
<1>1. UNCHANGED <<params, blocks, phase, executable>>
  BY DEF sccp, sccpVars, function
<1>2. Formed => Formed'
  BY <1>1 DEF Formed, Blocks
<1>3. ExecutableClosed => ExecutableClosed'
  BY <1>1 DEF ExecutableClosed, Blocks, LiveIns, LivePlaces
<1>4. TerminatorsLast => TerminatorsLast'
  BY <1>1 DEF TerminatorsLast, Blocks, LivePlaces
<1>5. DefinedOnce => DefinedOnce'
  BY <1>1 DEF DefinedOnce, Blocks, DefPlaces, LivePlaces, AllIns, AllPhis, LiveIns
<1> QED
  BY <1>1, <1>2, <1>3, <1>4, <1>5 DEF RewritingInv

LEMMA NextSCCP ==
  SCCPInv /\ [SCCPStep]_sccp => SCCPInv'
<1> SUFFICES ASSUME SCCPInv, [SCCPStep]_sccp
             PROVE  RewritingInv'
  BY NextFixpoint DEF SCCPInv
<1>1. FixpointInv /\ RewritingInv
  BY DEF SCCPInv
<1>2. CASE UNCHANGED sccp
  BY <1>1, <1>2, RewritingKept
<1>3. CASE phase' \notin {"fold", "dead"}
  BY <1>3 DEF RewritingInv
<1>4. StartSCCP \/ EvalBlock \/ EvalUses \/ SwitchWorklist \/ RemoveDead => phase' \notin {"fold", "dead"}
  <2>1. StartSCCP => phase' = "flow"
    BY DEF StartSCCP
  <2>2. EvalBlock => phase' = "flow"
    BY DEF EvalBlock
  <2>3. EvalUses => phase' = "ssa"
    BY DEF EvalUses
  <2>4. SwitchWorklist => phase' \in {"constants", "ssa", "flow"}
    BY DEF SwitchWorklist
  <2>5. RemoveDead => phase' = "propagated"
    BY DEF RemoveDead
  <2> QED
    BY <2>1, <2>2, <2>3, <2>4, <2>5
<1>5. ReplaceConstants \/ FoldConstant \/ ConvertBranches => RewritingInv'
  BY <1>1, ConstantsInv, FoldInv, ConvertInv
<1> QED
  BY <1>2, <1>3, <1>4, <1>5 DEF SCCPStep

\* What is not solved waits in a worklist; and while operands are replaced, constants
\* folded and branches converted, no edge that can be taken leads to a block that
\* is going to be emptied, and what is folded is the only definition of its
\* variable (SCCPer::RunOnFunction and the loops behind it).
THEOREM Rewriting == SCCPSpec => []SCCPInv
<1>1. phase = "sccp" /\ WellFormed => SCCPInv
  BY DEF SCCPInv, FixpointInv, RewritingInv, Solution
<1> QED
  BY <1>1, NextSCCP, PTL DEF SCCPSpec, sccp

\* Constant propagation loses no execution: each of its four rewriting steps
\* (SCCPer, behind the fixed-point loop) leaves a function that can be where
\* the one before could be, having done the same.
THEOREM Preserved == SCCPSpec => ExecutionsKept
<1>1. SCCPInv /\ [SCCPStep]_sccp => [KeepsExecutions]_sccp
  <2> SUFFICES ASSUME SCCPInv, SCCPStep, phase \in {"constants", "fold", "dead"},
                      NEW c, Reaches(blocks, c)
               PROVE  \E d : Reaches(blocks', d) /\ d.at = c.at /\ d.trace = c.trace
    BY DEF KeepsExecutions
  <2>1. FixpointInv /\ RewritingInv
    BY DEF SCCPInv
  <2>2. ~StartSCCP /\ ~EvalBlock /\ ~EvalUses /\ ~SwitchWorklist
    BY DEF StartSCCP, EvalBlock, EvalUses, SwitchWorklist
  <2> QED
    BY <2>1, <2>2, ConstantsKeep, FoldKeeps, ConvertKeeps, DeadKeeps DEF SCCPStep
<1> QED
  BY <1>1, Rewriting, PTL DEF SCCPSpec, ExecutionsKept, sccp

\* And it adds none: where the function reads only what has a value, each of the
\* four steps leaves one of which the same is true, and that can be nowhere, having
\* done something, that the one before could not.
THEOREM NoneAdded == SCCPSpec => NoExecutionAdded
<1>1. SCCPInv /\ [SCCPStep]_sccp => [AddsNoExecution]_sccp
  <2> SUFFICES ASSUME SCCPInv, SCCPStep, phase \in {"constants", "fold", "dead"}, AlwaysReads(blocks)
               PROVE  \A d : Reaches(blocks', d) => WasPossible(d)
    BY DEF AddsNoExecution, WasPossible, AlwaysReads
  <2>1. FixpointInv /\ RewritingInv
    BY DEF SCCPInv
  <2>2. ~StartSCCP /\ ~EvalBlock /\ ~EvalUses /\ ~SwitchWorklist
    BY DEF StartSCCP, EvalBlock, EvalUses, SwitchWorklist
  <2> QED
    BY <2>1, <2>2, ConstantsAdd, FoldAdds, ConvertAdds, DeadAdds DEF SCCPStep
<1> QED
  BY <1>1, Rewriting, PTL DEF SCCPSpec, NoExecutionAdded, sccp
==============================================================================
