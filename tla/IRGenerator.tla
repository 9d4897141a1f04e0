----------------------------- MODULE IRGenerator -----------------------------
(***************************************************************************)
(* Lowering of a checked program to the intermediate representation         *)
(* (src/visitor/IR_generator/IR_generator.cpp).  Every expression leaves in *)
(* IR_name_ the name of a cell that holds its value; a comparison or a lazy *)
(* boolean that is evaluated while branch_ctx_ is active leaves no name and *)
(* branches to the labels of the context instead.  g is the generator: the  *)
(* blocks of cur_function_, cur_block_, the name counter, the stack of      *)
(* enclosing loops, branch_ctx_, let_target_, rvo_target_ and in_return_.   *)
(***************************************************************************)
EXTENDS Source

PassPointer == <<"pass", 0>>
ReturnBlock == 1
NoContext == [active |-> FALSE, true_label |-> 0, false_label |-> 0]
Context(t, f) == [active |-> TRUE, true_label |-> t, false_label |-> f]

Tmp(g, k) == <<"tmp", g.cnt + k>>
Took(g, k) == [g EXCEPT !.cnt = @ + k]
Named(g, x) == [g EXCEPT !.name = x]
Goto(g, b) == [g EXCEPT !.cur = b]
NextBlock(g) == Cardinality(DOMAIN g.blocks)
WithBlocks(g, n) == [g EXCEPT !.blocks = @ @@ [b \in NextBlock(g) .. NextBlock(g) + n - 1 |-> EmptyBlock]]

\* Allocas go to first_block_, everything else to cur_block_.
Emit(g, is) ==
  FoldByHalves(LAMBDA h, i : [h EXCEPT !.blocks[IF i.kind = "alloca" THEN 0 ELSE h.cur] =
                            AddInstruction(@, i)], g, is)

IsLeaf(ty) == ty \in {"i32", "u32", "bool"}

Copy(g, dst, src, ty, cells) ==
  IF IsLeaf(ty) THEN Emit(Took(g, 1), <<Load(Tmp(g, 1), src), Store(Tmp(g, 1), dst)>>)
  ELSE Emit(g, <<Call(NoName, "builtin_memcpy", <<dst, src, Const(cells)>>)>>)

BorrowInto(g, x, v) == Emit(g, <<Alloca(x, 1), Store(v, x)>>)

\* Mutation: a scalar is stored but control goes on.
ReturnGoesOn(g, e, name) ==
  CASE e.ty = "agg" -> Emit(Copy(g, PassPointer, name, "agg", e.cells), <<Jump(ReturnBlock)>>)
    [] e.ty = "never" -> g
    [] e.ty = "unit" -> Emit(g, <<Jump(ReturnBlock)>>)
    [] e.ty \notin {"agg", "never", "unit"} ->
         Emit(Took(g, 1), <<Load(Tmp(g, 1), name), Store(Tmp(g, 1), g.return_val)>>)

EmitReturn(g, e, name) ==
  CASE e.ty = "agg" ->
         Emit(IF g.rvo_target = NoName \/ name # g.rvo_target
              THEN Copy(g, PassPointer, name, "agg", e.cells) ELSE g, <<Jump(ReturnBlock)>>)
    [] e.ty = "never" -> g
    [] e.ty = "unit" -> Emit(g, <<Jump(ReturnBlock)>>)
    [] e.ty \notin {"agg", "never", "unit"} ->
         Emit(Took(g, 1), <<Load(Tmp(g, 1), name), Store(Tmp(g, 1), g.return_val), Jump(ReturnBlock)>>)

RECURSIVE Visit(_, _)

VisitConst(e, g) ==
  Named(Emit(Took(g, 1), <<Alloca(Tmp(g, 1), 1), Store(Const(e.n), Tmp(g, 1))>>), Tmp(g, 1))

\* Where an aggregate literal is built: in the variable of its let, in the
\* caller's result buffer, or in a temporary.
Target(e, g) ==
  IF g.let_target # NoName THEN Named([g EXCEPT !.let_target = NoName], g.let_target)
  ELSE IF g.rvo_target # NoName /\ g.in_return THEN Named([g EXCEPT !.in_return = FALSE], g.rvo_target)
  ELSE Named(Emit(Took(g, 1), <<Alloca(Tmp(g, 1), e.cells)>>), Tmp(g, 1))

\* [value; n]: a memset for zero, else a loop with an index and a running
\* pointer; g has taken 9 temporaries and holds the value in its name.
RepeatLoop(g, base, n, hdr) ==
  LET T(k) == Tmp(g, k - 9)
      setup == <<Load(T(1), g.name), Alloca(T(2), 1), Store(Const(0), T(2)), Alloca(T(3), 1),
                 GEP(T(4), "array", base, 0), Store(T(4), T(3)), Jump(hdr)>>
      test == <<Load(T(5), T(2)), Compare(T(6), "ult", T(5), Const(n)), Branch(T(6), hdr + 1, hdr + 2)>>
      body == <<Load(T(7), T(3)), Store(T(1), T(7)), Arith(T(8), "+", T(7), Const(1), FALSE),
                Store(T(8), T(3)), Arith(T(9), "+", T(5), Const(1), FALSE), Store(T(9), T(2)), Jump(hdr)>>
  IN Goto(Emit(Goto(Emit(Goto(Emit(WithBlocks(g, 3), setup), hdr), test), hdr + 1), body), hdr + 2)

VisitRepeat(e, g) ==
  IF e.a.k = "const" /\ e.a.n = 0
  THEN Emit(g, <<Call(NoName, "builtin_memset", <<g.name, Const(0), Const(e.cells)>>)>>)
  ELSE LET v == Visit(e.a, g)
       IN Named(RepeatLoop(Took(v, 9), g.name, e.cells, NextBlock(v)), g.name)

\* [a, b, ...]: each element through a pointer that advances by one element.
VisitArray(e, g) ==
  LET g1 == Target(e, g)
      first == [Emit(Took(g1, 1), <<GEP(Tmp(g1, 1), "array", g1.name, 0)>>) EXCEPT !.ptr = Tmp(g1, 1)]
      Element(h, k) ==
        LET v == Visit(e.es[k], h)
            c == Copy(v, h.ptr, v.name, "i32", 1)
        IN IF k = e.cells THEN c
           ELSE [Emit(Took(c, 1), <<Arith(Tmp(c, 1), "+", h.ptr, Const(1), FALSE)>>)
                   EXCEPT !.ptr = Tmp(c, 1)]
  IN Named(FoldByHalves(Element, first, [k \in 1 .. e.cells |-> k]), g1.name)

VisitStruct(e, g) ==
  LET g1 == Target(e, g)
      Member(h, k) ==
        LET v == Visit(e.es[k], h)
        IN Copy(Emit(Took(v, 1), <<GEP(Tmp(v, 1), "struct", g1.name, k - 1)>>), Tmp(v, 1), v.name, "i32", 1)
  IN Named(FoldByHalves(Member, g1, [k \in 1 .. e.cells |-> k]), g1.name)

VisitBorrow(e, g) ==
  LET x == Tmp(g, 1)
      v == Visit(e.a, Took(g, 1))
  IN Named(BorrowInto(v, x, v.name), x)

VisitDereference(e, g) ==
  LET x == Tmp(g, 1)
      v == Visit(e.a, Took(g, 1))
  IN Named(Emit(v, <<Load(x, v.name)>>), x)

VisitNegation(e, g) ==
  LET ctx == g.ctx
      twice == Visit(e.a.a, g)
      swapped == [Visit(e.a, [g EXCEPT !.ctx = Context(ctx.false_label, ctx.true_label)]) EXCEPT !.ctx = ctx]
      value == Visit(e.a, g)
  IN CASE ctx.active /\ e.ty = "bool" /\ e.a.k = "neg" -> twice
       [] ctx.active /\ e.ty = "bool" /\ e.a.k # "neg" ->
            Named(IF swapped.name = NoName THEN swapped
                  ELSE Emit(Took(swapped, 2),
                         <<Load(Tmp(swapped, 1), swapped.name),
                           Negation(Tmp(swapped, 2), "!", Tmp(swapped, 1)),
                           Branch(Tmp(swapped, 2), ctx.true_label, ctx.false_label)>>), NoName)
       [] ~(ctx.active /\ e.ty = "bool") ->
            Named(Emit(Took(value, 3),
                    <<Alloca(Tmp(value, 1), 1), Load(Tmp(value, 2), value.name),
                      Negation(Tmp(value, 3), NegationOp(e.op, e.ty), Tmp(value, 2)),
                      Store(Tmp(value, 3), Tmp(value, 1))>>), Tmp(value, 1))

VisitArithmetic(e, g) ==
  LET a == Visit(e.a, g)
      b == Visit(e.b, a)
      T(k) == Tmp(b, k)
  IN Named(Emit(Took(b, 4),
       <<Alloca(T(1), 1), Load(T(2), a.name), Load(T(3), b.name),
         Arith(T(4), e.op, T(2), T(3), e.ty = "u32"), Store(T(4), T(1))>>), T(1))

VisitComparison(e, g) ==
  LET a == Visit(e.a, [g EXCEPT !.ctx.active = FALSE])
      b == Visit(e.b, a)
      T(k) == Tmp(b, k)
      compare == Emit(Took(b, 4), <<Load(T(2), a.name), Load(T(3), b.name),
                                    Compare(T(4), CompareOp(e.op, e.a.ty), T(2), T(3))>>)
  IN IF g.ctx.active
     THEN Named(Emit([compare EXCEPT !.ctx.active = TRUE],
                     <<Branch(T(4), g.ctx.true_label, g.ctx.false_label)>>), NoName)
     ELSE Named(Emit(compare, <<Alloca(T(1), 1), Store(T(4), T(1))>>), T(1))

\* Branch on a condition that left its value in a cell.
BranchOnValue(g, t, f) ==
  IF g.name = NoName THEN g
  ELSE Emit(Took(g, 1), <<Load(Tmp(g, 1), g.name), Branch(Tmp(g, 1), t, f)>>)

VisitLazyBranch(e, g) ==
  LET rhs == NextBlock(g)
      t == IF e.op = "&&" THEN rhs ELSE g.ctx.true_label
      f == IF e.op = "&&" THEN g.ctx.false_label ELSE rhs
      a == BranchOnValue(Visit(e.a, [WithBlocks(g, 1) EXCEPT !.ctx = Context(t, f)]), t, f)
      b == Visit(e.b, [Goto(a, rhs) EXCEPT !.ctx = g.ctx])
  IN Named(BranchOnValue(b, g.ctx.true_label, g.ctx.false_label), NoName)

VisitLazyValue(e, g) ==
  LET x == Tmp(g, 1)
      a == Visit(e.a, Emit(Took(g, 1), <<Alloca(x, 1)>>))
      extra == NextBlock(a)
      cond == Emit(Took(WithBlocks(a, 2), 1), <<Load(Tmp(a, 1), a.name)>>)
      kept == Emit(Copy(cond, x, a.name, "bool", 1),
                   <<IF e.op = "&&" THEN Branch(Tmp(a, 1), extra, extra + 1)
                     ELSE Branch(Tmp(a, 1), extra + 1, extra)>>)
      b == Visit(e.b, Goto(kept, extra))
  IN Named(Goto(Emit(Copy(b, x, b.name, "bool", 1), <<Jump(extra + 1)>>), extra + 1), x)

VisitCast(e, g) ==
  LET a == Visit(e.a, g)
      b == Emit(Took(a, 3), <<Load(Tmp(a, 2), a.name), Select(Tmp(a, 3), Tmp(a, 2))>>)
  IN IF e.a.ty = "bool" THEN Named(BorrowInto(b, Tmp(a, 1), Tmp(a, 3)), Tmp(a, 1)) ELSE a

VisitAssignment(e, g) ==
  LET a == Visit(e.a, g)
      b == Visit(e.b, a)
  IN Named(Copy(b, a.name, b.name, e.a.ty, e.a.cells), a.name)

VisitCompoundAssignment(e, g) ==
  LET a == Visit(e.a, g)
      b == Visit(e.b, a)
      T(k) == Tmp(b, k)
  IN Named(Emit(Took(b, 3),
       <<Load(T(1), a.name), Load(T(2), b.name),
         Arith(T(3), e.op, T(1), T(2), e.b.ty = "u32"), Store(T(3), a.name)>>), NoName)

\* The name of the aggregate a place expression selects from, dereferenced
\* when it is a reference.
Aggregate(e, g, a) ==
  IF e.a.ty = "ptr" THEN Named(Emit(Took(g, 1), <<Load(Tmp(g, 1), a)>>), Tmp(g, 1)) ELSE Named(g, a)

VisitIndex(e, g) ==
  LET a == Visit(e.a, g)
      b == Visit(e.b, a)
      base == Aggregate(e, b, a.name)
  IN Named(Emit(Took(base, 2),
       <<Load(Tmp(base, 1), b.name),
         GEPPrime(Tmp(base, 2), "array", base.name, Tmp(base, 1))>>), Tmp(base, 2))

VisitField(e, g) ==
  LET a == Visit(e.a, g)
      base == Aggregate(e, a, a.name)
  IN Named(Emit(Took(base, 1), <<GEP(Tmp(base, 1), "struct", base.name, e.n)>>), Tmp(base, 1))

\* A call evaluates its arguments into names; an aggregate result is passed as
\* a pointer to a buffer of the caller.
EmitCall(e, g, f, self) ==
  LET arguments ==
        FoldByHalves(LAMBDA h, k : LET v == Visit(e.es[k], h)
                               IN [Emit(Took(v, 1), <<Load(Tmp(v, 1), v.name)>>)
                                     EXCEPT !.args = Append(h.args, Tmp(v, 1))],
                 [g EXCEPT !.args = self], [k \in DOMAIN e.es |-> k])
      h == [Took(arguments, 2) EXCEPT !.args = g.args]
      args == arguments.args
      result == Tmp(h, -1)
      cell == Tmp(h, 0)
  IN CASE e.ty = "agg" ->
            Named(Emit(h, <<Alloca(cell, e.cells), Call(NoName, f, Append(args, cell))>>), cell)
       [] e.ty = "unit" -> Named(Emit(h, <<Call(NoName, f, args)>>), NoName)
       [] e.ty \notin {"agg", "unit"} ->
            Named(BorrowInto(Emit(h, <<Call(result, f, args)>>), cell, result), cell)

VisitCall(e, g) == EmitCall(e, g, e.f, <<>>)

VisitMethodCall(e, g) ==
  LET a == Visit(e.a, g)
      base == Aggregate(e, a, a.name)
  IN EmitCall(e, base, e.f, <<base.name>>)

VisitExit(e, g) ==
  Emit(g, (IF g.return_val = NoName THEN <<>> ELSE <<Store(Const(0), g.return_val)>>)
            \o <<Jump(ReturnBlock)>>)

\* loops: the innermost loop last, as <<continue target, end block>>.
VisitContinue(e, g) == Emit(g, <<Jump(Last(g.loops)[1])>>)
VisitBreak(e, g) == Emit(g, <<Jump(Last(g.loops)[2])>>)

VisitReturned(e, g) ==
  LET v == [Visit(e, [g EXCEPT !.in_return = TRUE]) EXCEPT !.in_return = FALSE]
  IN EmitReturn(v, e, v.name)

VisitReturn(e, g) ==
  IF e.es = <<>> THEN Emit(g, <<Jump(ReturnBlock)>>) ELSE VisitReturned(e.es[1], g)

VisitLet(e, g) ==
  LET x == <<e.x, 0>>
      h == [Emit(g, <<Alloca(x, e.a.cells)>>) EXCEPT !.names = (e.x :> x) @@ @]
      v == Visit(e.a, h)
  IN IF e.a.k \in {"array", "repeat", "struct"}
     THEN [Visit(e.a, [h EXCEPT !.let_target = x]) EXCEPT !.let_target = NoName]
     ELSE Copy(v, x, v.name, e.a.ty, e.a.cells)

VisitAll(es, g) == FoldByHalves(LAMBDA h, e : Visit(e, h), g, es)

VisitBlock(e, g) ==
  LET h == VisitAll(e.ss, g) IN IF e.tail = <<>> THEN Named(h, NoName) ELSE Visit(e.tail[1], h)

\* A condition, with the labels it branches to while it is evaluated.
VisitCondition(c, g, t, f) ==
  BranchOnValue([Visit(c, [g EXCEPT !.ctx = Context(t, f)]) EXCEPT !.ctx.active = FALSE], t, f)

VisitIf(e, g) ==
  LET hasValue == e.ty \notin {"unit", "never"}
      x == IF hasValue THEN Tmp(g, 1) ELSE NoName
      g1 == IF hasValue THEN Emit(Took(g, 1), <<Alloca(x, e.cells)>>) ELSE g
      true == NextBlock(g1)
      end == true + 1
      false == true + 2
      noElse == e.e = <<>>
      cond == VisitCondition(e.c, WithBlocks(g1, IF noElse THEN 2 ELSE 3), true,
                             IF noElse THEN end ELSE false)
      Arm(h, b, block) ==
        LET v == Visit(b, Goto(h, block))
        IN Emit(IF hasValue THEN Copy(v, x, v.name, e.ty, e.cells) ELSE v, <<Jump(end)>>)
      then == Arm(cond, e.t, true)
  IN Named(Goto(IF noElse THEN then ELSE Arm(then, e.e[1], false), end), x)

InLoop(g, continue, end) == [g EXCEPT !.loops = Append(@, <<continue, end>>)]
OutOfLoop(g, end) == Named([Goto(g, end) EXCEPT !.loops = Front(@)], NoName)

VisitWhile(e, g) ==
  LET body == NextBlock(g)
      cond == body + 1
      end == body + 2
      enter == Goto(Emit(InLoop(WithBlocks(g, 3), cond, end), <<Jump(cond)>>), cond)
      test == VisitCondition(e.c, enter, body, end)
  IN OutOfLoop(Emit(Visit(e.b, Goto(test, body)), <<Jump(cond)>>), end)

VisitLoop(e, g) ==
  LET body == NextBlock(g)
      end == body + 1
      enter == Goto(Emit(InLoop(WithBlocks(g, 2), body, end), <<Jump(body)>>), body)
  IN OutOfLoop(Emit(Visit(e.b, enter), <<Jump(body)>>), end)

\* The statements of a function body: the last expression is returned.
VisitStatements(body, g) ==
  LET h == VisitAll(body.ss, g)
  IN IF body.tail = <<>> THEN Emit(h, <<Jump(ReturnBlock)>>) ELSE VisitReturned(body.tail[1], h)

Visit(e, g) ==    \* (the first test makes TLC evaluate g before the arms use it)
  CASE g.cur \notin DOMAIN g.blocks -> g
    [] e.k = "const" -> VisitConst(e, g)
    [] e.k = "path" -> Named(g, g.names[e.x])
    [] e.k = "repeat" -> VisitRepeat(e, Target(e, g))
    [] e.k = "array" -> VisitArray(e, g)
    [] e.k = "struct" -> VisitStruct(e, g)
    [] e.k = "borrow" -> VisitBorrow(e, g)
    [] e.k = "deref" -> VisitDereference(e, g)
    [] e.k = "neg" -> VisitNegation(e, g)
    [] e.k = "arith" -> VisitArithmetic(e, g)
    [] e.k = "cmp" -> VisitComparison(e, g)
    [] e.k = "lazy" -> IF g.ctx.active THEN VisitLazyBranch(e, g) ELSE VisitLazyValue(e, g)
    [] e.k = "cast" -> VisitCast(e, g)
    [] e.k = "assign" -> VisitAssignment(e, g)
    [] e.k = "opassign" -> VisitCompoundAssignment(e, g)
    [] e.k = "index" -> VisitIndex(e, g)
    [] e.k = "field" -> VisitField(e, g)
    [] e.k = "call" -> VisitCall(e, g)
    [] e.k = "method" -> VisitMethodCall(e, g)
    [] e.k = "exit" -> VisitExit(e, g)
    [] e.k = "continue" -> VisitContinue(e, g)
    [] e.k = "break" -> VisitBreak(e, g)
    [] e.k = "return" -> VisitReturn(e, g)
    [] e.k = "let" -> VisitLet(e, g)
    [] e.k = "block" -> VisitBlock(e, g)
    [] e.k = "if" -> VisitIf(e, g)
    [] e.k = "while" -> VisitWhile(e, g)
    [] e.k = "loop" -> VisitLoop(e, g)
    [] e.k = "body" -> VisitStatements(e, g)

\* A reference to self is the parameter itself; any other parameter is stored
\* in a cell of its own.
Argument(k) == <<"arg", k>>
VisitParameter(fn, g, k) ==
  IF k = 1 /\ fn.self THEN [g EXCEPT !.names = (fn.params[k].x :> Argument(k)) @@ @]
  ELSE [BorrowInto(g, <<fn.params[k].x, 0>>, Argument(k))
          EXCEPT !.names = (fn.params[k].x :> <<fn.params[k].x, 0>>) @@ @]

\* main returns an i32, whatever the source gives it.
ResultType(f, fn) == IF f = "main" THEN "i32" ELSE fn.ty

EnterFunction(type) ==
  [blocks |-> [b \in {0, ReturnBlock} |-> EmptyBlock], cur |-> 0, cnt |-> 0, loops |-> <<>>,
   ctx |-> NoContext, names |-> <<>>, name |-> NoName, let_target |-> NoName,
   rvo_target |-> IF type = "agg" THEN PassPointer ELSE NoName, in_return |-> FALSE,
   return_val |-> IF type \notin {"agg", "unit"} THEN <<"return.val", 0>> ELSE NoName,
   args |-> <<>>, ptr |-> NoName]

AllocaReturn(g) == IF g.return_val = NoName THEN g ELSE Emit(g, <<Alloca(g.return_val, 1)>>)

\* All returns go through one block.
EmitReturnBlock(g) ==
  Emit(Goto(g, ReturnBlock),
       IF g.return_val = NoName THEN <<Return(<<>>)>>
       ELSE <<Load(Tmp(g, 1), g.return_val), Return(<<Tmp(g, 1)>>)>>)

VisitFunction(f, fn) ==
  LET type == ResultType(f, fn)
      Parameter(g, k) == VisitParameter(fn, g, k)
      entered == AllocaReturn(FoldByHalves(Parameter, EnterFunction(type), [k \in DOMAIN fn.params |-> k]))
  IN [params |-> [k \in DOMAIN fn.params |-> Argument(k)] \o (IF type = "agg" THEN <<PassPointer>> ELSE <<>>),
      blocks |-> EmitReturnBlock(Visit([fn.body EXCEPT !.k = "body"], entered)).blocks]

Generate(P) == [f \in DOMAIN P |-> VisitFunction(f, P[f])]
===============================================================================
