------------------------------- MODULE Emission -------------------------------
(***************************************************************************)
(* AssemblyGenerator::Visit(IRFunctionNode) and the visits of the           *)
(* instructions (src/IR_visitor/assembly_generator/assembly_generator.cpp): *)
(* which compares are fused into their branch, the order of the blocks, and *)
(* the machine instructions of every block.                                 *)
(*                                                                         *)
(* Frame has decided where the variables live.  Saving registers around     *)
(* calls is CallSave's subject: a call here stores something into every save *)
(* slot and spoils the registers the parameters came in.                    *)
(***************************************************************************)
EXTENDS Frame

CONSTANTS
  ImmWidth,    \* bits of an immediate, 12 in the code
  LargeCode    \* estimated size above which far jumps are used, 8000 in the code

VARIABLES
  fused,       \* blocks whose last compare is left to the branch
  layout,      \* the blocks in the order they are written
  code         \* block |-> its machine instructions, for the blocks written

emitVars == <<fused, layout, code>>

\* The place of a variable, named after one that lives there.
PlaceOf(x) == IF same # <<>> /\ x = same[2] THEN same[1] ELSE x

------------------------------------------------------------------------------
\* Pre-scans of Visit(IRFunctionNode).
UseCount(x) ==
  MapThenSumSet(LAMBDA p : Len(SelectSeq(At(blocks, p).use, LAMBDA y : y = x)), LivePositions(blocks))

\* Mutation: the moves in between are only compared by name.
FusesByName(b) ==
  LET live == Live(blocks[b])
      cmp == live[LastCompare(live)]
  IN /\ LastCompare(live) # 0
     /\ cmp.res = Last(live).use[1] /\ UseCount(cmp.res) = 1
     /\ \A y \in MovesBetween(live) : y \notin ToSet(cmp.use)

\* The compare has no other use, and no move between it and the branch writes
\* the place of an operand.
Fuses(b) ==
  LET live == Live(blocks[b])
      cmp == live[LastCompare(live)]
  IN /\ LastCompare(live) # 0
     /\ cmp.res = Last(live).use[1] /\ UseCount(cmp.res) = 1
     /\ \A y \in MovesBetween(live) : \A x \in ToSet(cmp.use) : PlaceOf(x) # PlaceOf(y)

IsEmpty(b) == Live(blocks[b]) = <<>>

\* Depth first, the target of a jump next, of a branch the false target first.
RECURSIVE PlaceFrom(_, _)
PlaceFrom(b, placed) ==
  LET live == Live(blocks[b])
      OfKind(kind) == SelectSeq(live, LAMBDA i : i.kind = kind)
      with == Append(placed, b)
  IN CASE b \in ToSet(placed) -> placed
       [] b \notin ToSet(placed) /\ OfKind("ret") # <<>> -> with
       [] b \notin ToSet(placed) /\ OfKind("ret") = <<>> /\ OfKind("jmp") # <<>> ->
            PlaceFrom(OfKind("jmp")[1].to[1], with)
       [] b \notin ToSet(placed) /\ OfKind("ret") = <<>> /\ OfKind("jmp") = <<>> /\ OfKind("br") # <<>> ->
            LET to == OfKind("br")[1].to IN PlaceFrom(to[1], PlaceFrom(to[2], with))
       [] OTHER -> with

Layout ==
  LET reached == PlaceFrom(0, <<>>)
  IN reached \o SetToSortSeq(Blocks \ ToSet(reached), <)

Prescan ==
  /\ phase = "layout"
  /\ fused' = {b \in Blocks : Fuses(b)}
  /\ layout' = Layout
  /\ code' = <<>>
  /\ phase' = "write"
  /\ UNCHANGED <<function, frameVars>>

Large ==
  LET positions == LivePositions(blocks)
      calls == {p \in positions : At(blocks, p).kind = "call"}
  IN 3 * (Cardinality(positions) + Cardinality(calls) + Cardinality(Blocks)) > LargeCode

\* The block the text continues with, -1 behind the last one.
After(b) ==
  LET k == CHOOSE n \in DOMAIN layout : layout[n] = b
  IN IF k = Len(layout) THEN -1 ELSE layout[k + 1]

\* next_block_map_: empty blocks are skipped; large functions never ask.
NextInText(b) ==
  LET k == CHOOSE n \in DOMAIN layout : layout[n] = b
      hits == {n \in k + 1 .. Len(layout) : ~IsEmpty(layout[n])}
  IN IF hits = {} \/ Large THEN -1 ELSE layout[Min(hits)]

------------------------------------------------------------------------------
\* Registers, and operands brought into them.
Scratch(n) == <<"t register", n>>
A(n) == <<"a register", n>>
Garbage == <<"garbage", 0>>     \* a register nobody wrote
Zero == Const(0)
Asm(op, rd, rs, x) == Ins("asm", op, rd, <<rs, x>>, <<>>)
TakenIf(op, rs1, rs2, b) == Ins("bcc", op, NoName, <<rs1, rs2>>, <<b>>)

InMemory(x) == x \in DOMAIN address
InRegister(x) == x = Zero \/ (IsVariable(x) /\ ~InMemory(x))

\* current_stack_, and slots by their offset from sp.  A frame keeps its size even,
\* as the code keeps it a multiple of 16 bytes.
SaveSlots == IF has_calls THEN Cardinality(in_register) + 1 ELSE 0
TotalStack == LET n == stack_size + SaveSlots IN n + (n % 2)
LoadSlot(rd, a) == Ins("ld", "", rd, <<Const(TotalStack - a)>>, <<>>)
StoreSlot(rs, a) == Ins("sd", "", NoName, <<rs, Const(TotalStack - a)>>, <<>>)
FrameAddress(rd, a) == Ins("lea", "", rd, <<Const(TotalStack - a)>>, <<>>)

VariableToReg(x, n) == IF InRegister(x) THEN PlaceOf(x) ELSE Scratch(n)
VariableForceToReg(x, r) ==
  IF InMemory(x) THEN <<LoadSlot(r, address[x])>> ELSE <<Move(r, PlaceOf(x))>>
Bring(x, n) == IF InRegister(x) THEN <<>> ELSE VariableForceToReg(x, Scratch(n))

GetResultReg(x, n) == IF InMemory(x) THEN Scratch(n) ELSE PlaceOf(x)
RegToVariable(x, r) ==
  CASE x = NoName -> <<>>
    [] InMemory(x) -> <<StoreSlot(r, address[x])>>
    [] x # NoName /\ ~InMemory(x) /\ PlaceOf(x) # r -> <<Move(PlaceOf(x), r)>>
    [] OTHER -> <<>>

SmallImm(n) == n \in -(2^(ImmWidth - 1)) .. 2^(ImmWidth - 1) - 1

\* PrintIA: an immediate that does not fit goes to t6, and the instruction
\* loses its last letter.
Shortened(op) == CASE op = "addiw" -> "addi" [] op = "addi" -> "add"
PrintIA(op, rd, rs, n) ==
  IF SmallImm(n) THEN <<Asm(op, rd, rs, Const(n))>>
  ELSE <<Move(Scratch(6), Const(n)), Asm(Shortened(op), rd, rs, Scratch(6))>>

------------------------------------------------------------------------------
\* Visit(IRArithmeticInstructionNode).  Addresses fit a word here, so additions
\* to pointers are word additions too.
Log2(n) == CHOOSE k \in 0 .. Width : 2^k = n
IsPowerOfTwo(x) == IsConstant(x) /\ \E k \in 0 .. Width - 2 : x[2] = 2^k
IsSmall(x) == IsConstant(x) /\ SmallImm(x[2])

\* x * 2^k, x / 2^k and x % 2^k by shifts, or <<>>.
StrengthReduced(i, rd, rs, n) ==
  LET k == Log2(n)
      t == Scratch(6)
  IN CASE i.op = "*" /\ k = 0 -> <<Move(rd, rs)>>
       [] i.op = "*" /\ k > 0 -> <<Asm("slliw", rd, rs, Const(k))>>
       [] i.op = "/" /\ k > 0 /\ i.uns -> <<Asm("srliw", rd, rs, Const(k))>>
       [] i.op = "/" /\ k > 0 /\ ~i.uns ->
            <<Asm("sraiw", t, rs, Const(Width - 1)), Asm("srliw", t, t, Const(Width - k)),
              Asm("addw", t, rs, t), Asm("sraiw", rd, t, Const(k))>>
       [] i.op = "%" /\ k > 0 /\ i.uns /\ n <= 2^(ImmWidth - 1) - 1 ->
            <<Asm("andi", rd, rs, Const(n - 1))>>
       [] OTHER -> <<>>

SelectArithmetic(i) ==
  LET a == i.use[1]
      b == i.use[2]
      rd == GetResultReg(i.res, 2)
      rs1 == VariableToReg(a, 0)
      rs2 == VariableToReg(b, 1)
      byShift1 == IF i.op = "*" /\ IsPowerOfTwo(a) THEN StrengthReduced(i, rd, rs2, a[2]) ELSE <<>>
      byShift2 == IF IsPowerOfTwo(b) THEN StrengthReduced(i, rd, rs1, b[2]) ELSE <<>>
      body == CASE i.op = "+" /\ IsSmall(b) -> Bring(a, 0) \o PrintIA("addiw", rd, rs1, b[2])
                [] i.op = "-" /\ IsSmall(b) -> Bring(a, 0) \o PrintIA("addiw", rd, rs1, -b[2])
                [] i.op = "+" /\ ~IsSmall(b) /\ IsSmall(a) -> Bring(b, 1) \o PrintIA("addiw", rd, rs2, a[2])
                [] byShift2 # <<>> -> Bring(a, 0) \o byShift2
                [] byShift2 = <<>> /\ byShift1 # <<>> -> Bring(b, 1) \o byShift1
                [] OTHER -> Bring(a, 0) \o Bring(b, 1) \o <<Arith(rd, i.op, rs1, rs2, i.uns)>>
  IN body \o RegToVariable(i.res, GetResultReg(i.res, 2))

\* Visit(IRNegationInstructionNode).
SelectNegation(i) ==
  LET a == i.use[1]
      rd == GetResultReg(i.res, 1)
      rs == VariableToReg(a, 0)
      body == CASE i.op = "-" /\ IsConstant(a) -> <<Move(rd, Const(-a[2]))>>
                [] i.op = "-" /\ IsVariable(a) -> Bring(a, 0) \o <<Asm("sub", rd, Zero, rs)>>
                [] i.op = "!" -> Bring(a, 0) \o <<Asm("xori", rd, rs, Const(1))>>
                [] i.op = "~" -> Bring(a, 0) \o <<Asm("xori", rd, rs, Const(-1))>>
  IN body \o RegToVariable(i.res, GetResultReg(i.res, 1))

------------------------------------------------------------------------------
\* Visit(IRCompareInstructionNode): equality with zero or with a constant
\* whose negation fits too; else by a difference or by slt, and a flip.
FoldableConst(x) == IsConstant(x) /\ x[2] # 0 /\ SmallImm(x[2]) /\ SmallImm(-x[2])

Orders == [slt |-> <<"slt", FALSE, FALSE>>, sgt |-> <<"slt", TRUE, FALSE>>,
           sge |-> <<"slt", FALSE, TRUE>>, sle |-> <<"slt", TRUE, TRUE>>,
           ult |-> <<"sltu", FALSE, FALSE>>, ugt |-> <<"sltu", TRUE, FALSE>>,
           uge |-> <<"sltu", FALSE, TRUE>>, ule |-> <<"sltu", TRUE, TRUE>>]

IfZero(op, rd, r) == IF op = "eq" THEN <<Asm("sltiu", rd, r, Const(1))>> ELSE <<Asm("sltu", rd, Zero, r)>>

SelectEquality(i, rd) ==
  LET a == i.use[1]
      b == i.use[2]
      t == Scratch(0)
      Against(x, n, c) == Bring(x, n) \o PrintIA("addi", t, VariableToReg(x, n), -c[2]) \o IfZero(i.op, rd, t)
  IN CASE a = Zero -> Bring(b, 1) \o IfZero(i.op, rd, VariableToReg(b, 1))
       [] a # Zero /\ b = Zero -> Bring(a, 0) \o IfZero(i.op, rd, VariableToReg(a, 0))
       [] a # Zero /\ FoldableConst(b) -> Against(a, 0, b)
       [] Zero \notin {a, b} /\ ~FoldableConst(b) /\ FoldableConst(a) -> Against(b, 1, a)
       [] OTHER -> Bring(a, 0) \o Bring(b, 1)
                   \o <<Asm("sub", t, VariableToReg(a, 0), VariableToReg(b, 1))>> \o IfZero(i.op, rd, t)

SelectOrder(i, rd) ==
  LET order == Orders[i.op]
      rs1 == VariableToReg(i.use[1], 0)
      rs2 == VariableToReg(i.use[2], 1)
      t == IF order[3] THEN Scratch(0) ELSE rd
      less == IF order[2] THEN Asm(order[1], t, rs2, rs1) ELSE Asm(order[1], t, rs1, rs2)
  IN Bring(i.use[1], 0) \o Bring(i.use[2], 1)
     \o IF order[3] THEN <<less, Asm("xori", rd, t, Const(1))>> ELSE <<less>>

SelectCompare(i) ==
  LET rd == GetResultReg(i.res, 2)
  IN (IF i.op \in {"eq", "ne"} THEN SelectEquality(i, rd) ELSE SelectOrder(i, rd)) \o RegToVariable(i.res, GetResultReg(i.res, 2))

\* Visit(IRSelectInstructionNode).
SelectSelect(i) ==
  LET rd == GetResultReg(i.res, 1)
  IN Bring(i.use[1], 0)
     \o <<Asm("slti", rd, VariableToReg(i.use[1], 0), Const(1)), Asm("xori", rd, rd, Const(1))>>
     \o RegToVariable(i.res, GetResultReg(i.res, 1))

\* Visit(IRGetElementPtrInstructionNode).
SelectGEP(i) ==
  LET rd == GetResultReg(i.res, 1)
      p == VariableToReg(i.use[1], 0)
      n == i.use[2][2]
  IN Bring(i.use[1], 0) \o (IF n = 0 THEN <<Move(rd, p)>> ELSE PrintIA("addi", rd, p, n))
     \o RegToVariable(i.res, GetResultReg(i.res, 1))

------------------------------------------------------------------------------
\* Visit(IRBranchInstructionNode), Visit(IRJumpInstructionNode).
Inverted == [beq |-> "bne", bne |-> "beq", blt |-> "bge", bge |-> "blt", bltu |-> "bgeu", bgeu |-> "bltu"]

\* The branch of a compare: its opcode, and whether the operands change places.
BranchFor == [eq |-> <<"beq", FALSE>>, ne |-> <<"bne", FALSE>>,
              slt |-> <<"blt", FALSE>>, sge |-> <<"bge", FALSE>>,
              sgt |-> <<"blt", TRUE>>, sle |-> <<"bge", TRUE>>,
              ult |-> <<"bltu", FALSE>>, uge |-> <<"bgeu", FALSE>>,
              ugt |-> <<"bltu", TRUE>>, ule |-> <<"bgeu", TRUE>>]

\* One conditional branch when a target comes next in the text.
TwoWay(b, op, rs1, rs2, to) ==
  CASE to[2] = NextInText(b) -> <<TakenIf(op, rs1, rs2, to[1])>>
    [] to[2] # NextInText(b) /\ to[1] = NextInText(b) -> <<TakenIf(Inverted[op], rs1, rs2, to[2])>>
    [] OTHER -> <<TakenIf(op, rs1, rs2, to[1]), Jump(to[2])>>

SelectBranch(b, i) ==
  IF b \in fused
  THEN LET live == Live(blocks[b])
           cmp == live[LastCompare(live)]
           form == BranchFor[cmp.op]
           x == cmp.use[IF form[2] THEN 2 ELSE 1]
           y == cmp.use[IF form[2] THEN 1 ELSE 2]
       IN Bring(x, 0) \o Bring(y, 1) \o TwoWay(b, form[1], VariableToReg(x, 0), VariableToReg(y, 1), i.to)
  ELSE Bring(i.use[1], 0) \o TwoWay(b, "bne", VariableToReg(i.use[1], 0), Zero, i.to)

SelectJump(b, i) == IF i.to[1] = NextInText(b) THEN <<>> ELSE <<i>>

------------------------------------------------------------------------------
\* The visits of alloca, load, store, the address of an element, move, return.
\* Every value is one cell, so nothing is copied in pieces or by builtin_memcpy.
SelectAlloca(i) ==
  <<FrameAddress(GetResultReg(i.res, 1), inner[i.res])>> \o RegToVariable(i.res, GetResultReg(i.res, 1))

\* Through t2 when the result lives in memory (EmitInlineCopy).
SelectLoad(i) ==
  Bring(i.use[1], 0) \o <<Load(GetResultReg(i.res, 2), VariableToReg(i.use[1], 0))>>
  \o RegToVariable(i.res, GetResultReg(i.res, 2))

SelectStore(i) ==
  Bring(i.use[2], 0) \o Bring(i.use[1], 1) \o <<Store(VariableToReg(i.use[1], 1), VariableToReg(i.use[2], 0))>>

SelectGEPPrime(i) ==
  LET rd == GetResultReg(i.res, 1)
  IN Bring(i.use[1], 0) \o Bring(i.use[2], 2)
     \o <<Asm("add", rd, VariableToReg(i.use[1], 0), VariableToReg(i.use[2], 2))>> \o RegToVariable(i.res, rd)

DataMove(i) ==
  IF InMemory(i.res) THEN Bring(i.use[1], 0) \o <<StoreSlot(VariableToReg(i.use[1], 0), address[i.res])>>
  ELSE VariableForceToReg(i.use[1], PlaceOf(i.res))

SelectReturn(i) ==
  IF i.use = <<>> THEN <<i>> ELSE VariableForceToReg(i.use[1], A(0)) \o <<Return(<<A(0)>>)>>

------------------------------------------------------------------------------
\* Parameters beyond the registers are written by the caller, below its sp; here
\* the prologue brings them to their slots.
Prologue ==
  LET onStack == SelectSeq(params, LAMBDA x : x \notin in_register)
  IN <<Ins("enter", "", NoName, <<Const(TotalStack)>>, <<>>)>>
     \o [k \in DOMAIN onStack |-> StoreSlot(onStack[k], address[onStack[k]])]

\* Visit(IRCallInstructionNode).  The save slots are the lowest of the frame.
SelectCall(i) ==
  LET saves == [k \in 1 .. SaveSlots |-> Ins("sd", "", NoName, <<Garbage, Const(k - 1)>>, <<>>)]
      arguments == FlattenSeq([k \in DOMAIN i.use |-> VariableForceToReg(i.use[k], A(k - 1))])
      spoilt == [k \in 1 .. Cardinality(in_register) |-> Move(params[k], Garbage)]
  IN saves \o arguments \o <<Call(A(0), i.op, [k \in DOMAIN i.use |-> A(k - 1)])>>
     \o RegToVariable(i.res, A(0)) \o spoilt

Text(b, k) ==
  LET i == Live(blocks[b])[k]
  IN CASE i.kind = "arith" -> SelectArithmetic(i)
       [] i.kind = "neg" -> SelectNegation(i)
       [] i.kind = "cmp" ->
            IF b \in fused /\ k = LastCompare(Live(blocks[b])) THEN <<>> ELSE SelectCompare(i)
       [] i.kind = "select" -> SelectSelect(i)
       [] i.kind = "gep" -> SelectGEP(i)
       [] i.kind = "br" -> SelectBranch(b, i)
       [] i.kind = "jmp" -> SelectJump(b, i)
       [] i.kind = "alloca" -> SelectAlloca(i)
       [] i.kind = "load" -> SelectLoad(i)
       [] i.kind = "store" -> SelectStore(i)
       [] i.kind = "gepp" -> SelectGEPPrime(i)
       [] i.kind = "move" -> DataMove(i)
       [] i.kind = "ret" -> SelectReturn(i)
       [] i.kind = "call" -> SelectCall(i)

\* Visit(IRBlockNode): every live instruction, those behind a jump included,
\* and the text of the block after it.
WriteBlock ==
  /\ phase = "write" /\ Cardinality(DOMAIN code) < Len(layout)
  /\ LET b == layout[Cardinality(DOMAIN code) + 1]
         first == IF b = 0 THEN Prologue ELSE <<>>
         text == FlattenSeq([k \in DOMAIN Live(blocks[b]) |-> Text(b, k)])
         fall == IF After(b) = -1 THEN <<>> ELSE <<Jump(After(b))>>
     IN code' = code @@ (b :> [phi |-> <<>>, ins |-> first \o text \o fall])
  /\ UNCHANGED <<function, phase, frameVars, fused, layout>>

EndEmission ==
  /\ phase = "write" /\ Cardinality(DOMAIN code) = Len(layout)
  /\ blocks' = code
  /\ phase' = "emitted"
  /\ UNCHANGED <<params, frameVars, emitVars>>

EmissionStep == Prescan \/ WriteBlock \/ EndEmission
===============================================================================
