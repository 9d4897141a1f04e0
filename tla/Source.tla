-------------------------------- MODULE Source --------------------------------
(***************************************************************************)
(* The source programs the compiler is given, after the semantic checkers,  *)
(* and what they mean: the reference every later stage is compared with.    *)
(* An expression is a record with its kind, its type and its parts.  Types  *)
(* are "i32", "u32", "bool", "ptr", "agg" (an array or a struct of scalars, *)
(* `cells' of them), "unit" and "never".  Names are unique in a function,   *)
(* which is what the scopes of the checkers resolve them to.                *)
(***************************************************************************)
EXTENDS IRMeaning, Folding

Num(n) == [k |-> "const", ty |-> "i32", cells |-> 1, n |-> n]
Bool(n) == [k |-> "const", ty |-> "bool", cells |-> 1, n |-> n]
Var(x, ty, cells) == [k |-> "path", ty |-> ty, cells |-> cells, x |-> x]
I32(x) == Var(x, "i32", 1)
Flag(x) == Var(x, "bool", 1)
Node1(k, op, ty, a) == [k |-> k, op |-> op, ty |-> ty, cells |-> 1, a |-> a]
Node2(k, op, ty, a, b) == [k |-> k, op |-> op, ty |-> ty, cells |-> 1, a |-> a, b |-> b]
Neg(op, a) == Node1("neg", op, a.ty, a)
Bin(op, a, b) == Node2("arith", op, a.ty, a, b)
Cmp(op, a, b) == Node2("cmp", op, "bool", a, b)
Lazy(op, a, b) == Node2("lazy", op, "bool", a, b)
Cast(a) == Node1("cast", "", "i32", a)
Set(a, b) == Node2("assign", "", "unit", a, b)
OpSet(op, a, b) == Node2("opassign", op, "unit", a, b)
Index(a, b) == Node2("index", "", "i32", a, b)
Field(a, n) == [k |-> "field", ty |-> "i32", cells |-> 1, a |-> a, n |-> n]
Borrow(a) == Node1("borrow", "", "ptr", a)
Deref(a, ty, cells) == [k |-> "deref", ty |-> ty, cells |-> cells, a |-> a]
Array(es) == [k |-> "array", ty |-> "agg", cells |-> Len(es), es |-> es]
Struct(es) == [k |-> "struct", ty |-> "agg", cells |-> Len(es), es |-> es]
Repeat(a, n) == [k |-> "repeat", ty |-> "agg", cells |-> n, a |-> a]
Invoke(f, ty, cells, es) == [k |-> "call", ty |-> ty, cells |-> cells, f |-> f, es |-> es]
Method(f, ty, a, es) == [k |-> "method", ty |-> ty, cells |-> 1, f |-> f, a |-> a, es |-> es]
Exit == [k |-> "exit", ty |-> "never", cells |-> 0]
Break == [k |-> "break", ty |-> "never", cells |-> 0]
Continue == [k |-> "continue", ty |-> "never", cells |-> 0]
Ret(es) == [k |-> "return", ty |-> "never", cells |-> 0, es |-> es]
Let(x, a) == [k |-> "let", ty |-> "unit", cells |-> 0, x |-> x, a |-> a]
Block(ss, tail) ==    \* tail: the expression without a semicolon, or none
  [k |-> "block", ty |-> IF tail = <<>> THEN "unit" ELSE tail[1].ty,
   cells |-> IF tail = <<>> THEN 0 ELSE tail[1].cells, ss |-> ss, tail |-> tail]
If(c, t, e) ==        \* e: the else block, or none
  [k |-> "if", ty |-> IF e = <<>> THEN "unit" ELSE t.ty, cells |-> t.cells, c |-> c, t |-> t, e |-> e]
While(c, b) == [k |-> "while", ty |-> "unit", cells |-> 0, c |-> c, b |-> b]
Loop(b) == [k |-> "loop", ty |-> "unit", cells |-> 0, b |-> b]
Fn(params, self, ty, cells, body) ==
  [params |-> params, self |-> self, ty |-> ty, cells |-> cells, body |-> body]

CompareOp(op, ty) ==
  CASE op = "==" -> "eq"
    [] op = "!=" -> "ne"
    [] op = ">" -> IF ty = "u32" THEN "ugt" ELSE "sgt"
    [] op = "<" -> IF ty = "u32" THEN "ult" ELSE "slt"
    [] op = ">=" -> IF ty = "u32" THEN "uge" ELSE "sge"
    [] op = "<=" -> IF ty = "u32" THEN "ule" ELSE "sle"

NegationOp(op, ty) == IF op = "-" THEN "-" ELSE IF ty = "bool" THEN "!" ELSE "~"

------------------------------------------------------------------------------
\* Evaluation.  s.val is the cells of the value, s.ctl what ends the block.
Yield(s, v) == [s EXCEPT !.val = v]
Scalar(s) == s.val[1]
Cells(s, a, n) == [k \in 1 .. n |-> Lookup(s.mem, a + k - 1)]
Put(s, a, v) == [s EXCEPT !.mem = [c \in a .. a + Len(v) - 1 |-> v[c - a + 1]] @@ @]
New(s, x, v) == Put([s EXCEPT !.env = (x :> s.sp) @@ @, !.sp = @ + Len(v)], s.sp, v)

RECURSIVE Eval(_, _, _), EvalAll(_, _, _), Place(_, _, _), Iterate(_, _, _, _), Apply(_, _, _, _)

EvalAll(P, es, s) ==    \* left to right; s.vals collects the values
  IF es = <<>> THEN [s EXCEPT !.vals = <<>>]
  ELSE LET h == Eval(P, Head(es), s)
           t == EvalAll(P, Tail(es), h)
       IN IF h.ctl # "" THEN h ELSE [t EXCEPT !.vals = <<h.val>> \o @]

Place(P, e, s) ==       \* s.loc is the address
  CASE e.k = "path" -> [s EXCEPT !.loc = s.env[e.x]]
    [] e.k = "deref" -> LET p == Eval(P, e.a, s) IN [p EXCEPT !.loc = Scalar(p)]
    [] e.k \in {"index", "field"} ->
         LET base == IF e.a.ty = "ptr" THEN LET p == Eval(P, e.a, s) IN [p EXCEPT !.loc = Scalar(p)]
                     ELSE Place(P, e.a, s)
             i == IF e.k = "field" THEN Yield(base, <<e.n>>) ELSE Eval(P, e.b, base)
         IN [i EXCEPT !.loc = base.loc + Scalar(i)]

Iterate(P, c, b, s) ==
  LET t == IF c = <<>> THEN Yield(s, <<1>>) ELSE Eval(P, c[1], s)
      r == Eval(P, b, t)
  IN IF s.fuel = 0 THEN [s EXCEPT !.ctl = "endless"]
     ELSE IF t.ctl # "" THEN t
     ELSE IF Scalar(t) = 0 THEN Yield(t, <<>>)
     ELSE IF r.ctl = "break" THEN [r EXCEPT !.ctl = ""]
     ELSE IF r.ctl \in {"", "continue"} THEN Iterate(P, c, b, [r EXCEPT !.ctl = "", !.fuel = @ - 1])
     ELSE r

Apply(P, f, args, s) ==
  LET fn == P[f]
      Bind(n, k) ==      \* `self' names the caller's object
        IF k = 1 /\ fn.self THEN [n EXCEPT !.env = (fn.params[k].x :> args[k][1]) @@ @]
        ELSE New(n, fn.params[k].x, args[k])
      s1 == FoldByHalves(Bind, [s EXCEPT !.env = <<>>], [k \in DOMAIN args |-> k])
      r == Eval(P, fn.body, s1)
  IN IF r.ctl \in {"", "return"}
     THEN [r EXCEPT !.env = s.env, !.sp = s.sp, !.ctl = ""] ELSE r

EvalCall(P, e, s) ==
  LET self == IF e.k = "call" THEN s ELSE Place(P, e.a, s)
      r == EvalAll(P, e.es, self)
  IN CASE r.ctl # "" -> r
       [] r.ctl = "" /\ e.f = "getInt" ->
            IF r.in = <<>> THEN [r EXCEPT !.ctl = "stuck"]
            ELSE Yield([r EXCEPT !.in = Tail(@)], <<Head(r.in)>>)
       [] r.ctl = "" /\ e.f = "printInt" -> Yield([r EXCEPT !.out = Append(@, r.vals[1][1])], <<>>)
       [] r.ctl = "" /\ e.f \notin Builtins ->
            Apply(P, e.f, (IF e.k = "call" THEN <<>> ELSE <<<<self.loc>>>>) \o r.vals, r)

Eval(P, e, s) ==
  IF s.ctl # "" THEN s ELSE
  CASE e.k = "const" -> Yield(s, <<e.n>>)
    [] e.k \in {"path", "index", "field", "deref"} ->
         LET p == Place(P, e, s) IN Yield(p, Cells(p, p.loc, e.cells))
    [] e.k = "borrow" -> LET p == Place(P, e.a, s) IN Yield(p, <<p.loc>>)
    [] e.k = "neg" ->
         LET r == Eval(P, e.a, s) IN Yield(r, <<NegationValue(NegationOp(e.op, e.ty), Scalar(r))>>)
    [] e.k \in {"arith", "cmp"} ->
         LET r == EvalAll(P, <<e.a, e.b>>, s)
             x == r.vals[1][1]
             y == r.vals[2][1]
         IN IF r.ctl # "" THEN r
            ELSE IF e.k = "arith" THEN Yield(r, <<ArithmeticValue(e.op, e.ty = "u32", x, y)>>)
            ELSE Yield(r, <<IF CompareHolds(CompareOp(e.op, e.a.ty), x, y) THEN 1 ELSE 0>>)
    [] e.k = "lazy" ->
         LET r == Eval(P, e.a, s)
         IN IF r.ctl = "" /\ (Scalar(r) = 1) = (e.op = "&&") THEN Eval(P, e.b, r) ELSE r
    [] e.k = "cast" -> Eval(P, e.a, s)
    [] e.k \in {"assign", "opassign"} ->
         LET v == Eval(P, e.b, s)
             p == Place(P, e.a, v)
             w == IF e.k = "assign" THEN v.val
                  ELSE <<ArithmeticValue(e.op, e.b.ty = "u32", Lookup(p.mem, p.loc), Scalar(v))>>
         IN IF v.ctl # "" THEN v ELSE Yield(Put(p, p.loc, w), <<>>)
    [] e.k \in {"array", "struct"} ->
         LET r == EvalAll(P, e.es, s)
         IN IF r.ctl # "" THEN r ELSE Yield(r, FlattenSeq(r.vals))
    [] e.k = "repeat" ->
         LET r == Eval(P, e.a, s) IN Yield(r, [i \in 1 .. e.cells |-> Scalar(r)])
    [] e.k \in {"call", "method"} -> EvalCall(P, e, s)
    [] e.k = "let" -> LET r == Eval(P, e.a, s) IN IF r.ctl # "" THEN r ELSE New(r, e.x, r.val)
    [] e.k = "block" ->
         FoldByHalves(LAMBDA r, x : Eval(P, x, r), Yield(s, <<>>), e.ss \o e.tail)
    [] e.k = "if" ->
         LET c == Eval(P, e.c, s)
         IN IF c.ctl # "" THEN c ELSE IF Scalar(c) = 1 THEN Eval(P, e.t, c)
            ELSE IF e.e = <<>> THEN Yield(c, <<>>) ELSE Eval(P, e.e[1], c)
    [] e.k = "while" -> Iterate(P, <<e.c>>, e.b, s)
    [] e.k = "loop" -> Iterate(P, <<>>, e.b, s)
    [] e.k \in {"break", "continue", "exit"} -> [s EXCEPT !.ctl = e.k]
    [] e.k = "return" ->
         LET r == IF e.es = <<>> THEN Yield(s, <<>>) ELSE Eval(P, e.es[1], s)
         IN IF r.ctl # "" THEN r ELSE [r EXCEPT !.ctl = "return"]

SourceMeaning(P, input) ==
  LET r == Apply(P, "main", <<>>,
             [mem |-> <<>>, sp |-> 0, env |-> <<>>, out |-> <<>>, in |-> input, fuel |-> Fuel,
              ctl |-> "", val |-> <<>>, vals |-> <<>>, loc |-> 0])
  IN [out |-> r.out, status |-> IF r.ctl \in {"", "exit"} THEN "ok" ELSE r.ctl, ret |-> 0]
===============================================================================
