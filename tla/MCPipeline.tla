------------------------------ MODULE MCPipeline ------------------------------
(***************************************************************************)
(* Instances of the mid end: source programs, lowered by the generator and  *)
(* taken through every pass, and control-flow graphs with one variable in   *)
(* memory, taken up to the removal of the phis.                             *)
(***************************************************************************)
EXTENDS IRGenerator, Pipeline

\* A program, the functions it declares, in order, and the numbers it reads.
Source(P, names, inputs) == [P |-> P, names |-> names, inputs |-> inputs]
Lowered(s) ==
  [root |-> Generate(s.P), order |-> s.names, last |-> "emitted",
   want |-> [i \in s.inputs |-> SourceMeaning(s.P, i)]]

\* main declares no result.
Main(ss) == Fn(<<>>, FALSE, "unit", 0, Block(ss \o <<Exit>>, <<>>))
Param(x) == [x |-> x]
GetInt == Invoke("getInt", "i32", 1, <<>>)
PrintInt(e) == Invoke("printInt", "unit", 0, <<e>>)
Add1(x) == OpSet("+", I32(x), Num(1))
Do(ss) == Block(ss, <<>>)

\* Lazy conditions of loops and branches, and an if with a value.
Conditions ==
  [main |-> Main(<<
     Let("a", GetInt), Let("b", GetInt), Let("r", Num(0)),
     While(Lazy("&&", Cmp("<", I32("r"), I32("a")), Neg("!", Cmp("==", I32("r"), I32("b")))),
           Do(<<Add1("r")>>)),
     PrintInt(I32("r")),
     If(Lazy("||", Cmp(">", I32("r"), Num(2)), Cmp("==", I32("a"), Num(1))), Do(<<Add1("r")>>), <<>>),
     Let("q", If(Cmp("<", I32("b"), Num(1)), Block(<<>>, <<Bin("*", I32("r"), Num(3))>>),
                 <<Block(<<>>, <<Neg("-", I32("r"))>>)>>)),
     PrintInt(I32("q"))>>)]

\* Arrays, a struct returned in place, a method, continue and break.
Arr == Var("arr", "agg", 3)
Pair == Var("p", "agg", 2)
Self == Var("self", "agg", 2)
Aggregates ==
  [main |-> Main(<<
     Let("arr", Array(<<Num(1), Num(2), GetInt>>)),
     Let("z", Repeat(Num(7), 3)), Let("w", Repeat(Num(0), 2)), Let("i", Num(0)),
     Loop(Do(<<
       If(Cmp("==", I32("i"), Num(3)), Do(<<Break>>), <<>>),
       OpSet("+", Index(Arr, I32("i")), Index(Var("z", "agg", 3), I32("i"))),
       PrintInt(Index(Arr, I32("i"))),
       Add1("i"), Continue>>)),
     Let("p", Invoke("mk", "agg", 2, <<I32("i"), Borrow(Arr)>>)),
     Method("bump", "unit", Pair, <<Num(4)>>),
     PrintInt(Field(Pair, 0)), PrintInt(Bin("+", Field(Pair, 1), Field(Pair, 1)))>>),
   mk |-> Fn(<<Param("n"), Param("r")>>, FALSE, "agg", 2,
             Block(<<>>, <<Struct(<<I32("n"), Index(Var("r", "ptr", 1), Num(1))>>)>>)),
   bump |-> Fn(<<Param("self"), Param("d")>>, TRUE, "unit", 0, Do(<<
             OpSet("+", Field(Self, 0), I32("d")),
             If(Cmp(">", Field(Self, 0), Num(3)), Do(<<Ret(<<>>)>>), <<>>)>>))]

\* Two variables swapped in a loop; recursion; a call that is inlined once
\* and a callee that is too large.
Calls ==
  [main |-> Main(<<
     Let("a", GetInt), Let("b", GetInt), Let("i", Num(0)), Let("t", Num(0)),
     While(Cmp("<", I32("i"), Num(3)), Do(<<
       Set(I32("t"), I32("a")), Set(I32("a"), I32("b")), Set(I32("b"), I32("t")), Add1("i")>>)),
     PrintInt(Bin("-", I32("a"), I32("b"))),
     PrintInt(Invoke("clamp", "i32", 1, <<I32("a")>>)),
     PrintInt(Invoke("clamp", "i32", 1, <<I32("b")>>)),
     PrintInt(Invoke("sum", "i32", 1, <<I32("b")>>))>>),
   clamp |-> Fn(<<Param("x")>>, FALSE, "i32", 1,
                Block(<<If(Cmp("<", I32("x"), Num(2)), Do(<<Ret(<<Num(2)>>)>>), <<>>)>>, <<I32("x")>>)),
   sum |-> Fn(<<Param("x")>>, FALSE, "i32", 1, Block(<<
                Let("s", I32("x")), Let("k", I32("x")),
                If(Cmp("<", Num(0), I32("k")), Do(<<
                  OpSet("-", I32("k"), Num(1)),
                  OpSet("+", I32("s"), Invoke("sum", "i32", 1, <<I32("k")>>))>>), <<>>)>>,
                <<I32("s")>>))]

\* Constants decide which code is dead.
Constants ==
  [main |-> Main(<<
     Let("c", Num(2)), Let("d", Bin("*", I32("c"), Num(3))), Let("n", GetInt),
     If(Cmp("<", I32("d"), Num(7)), Do(<<PrintInt(I32("d"))>>), <<Do(<<PrintInt(Num(9))>>)>>),
     While(Cmp("<", I32("c"), I32("n")), Do(<<Add1("c")>>)),
     PrintInt(Bin("^", I32("c"), I32("d")))>>)]

\* Every operator on constants, both signs, and on a number read.
U32(n) == [Num(n) EXCEPT !.ty = "u32"]
Operators == {"+", "-", "*", "/", "%", "<<", ">>", "&", "|", "^"}
Operation(op, a, b) == [main |-> Main(<<PrintInt(Bin(op, a, b)), PrintInt(Bin(op, GetInt, b))>>)]

\* Every comparison with a constant on either side, as a value and as the
\* condition of a branch, and the operators that have an immediate form.
Comparison(op, c) ==
  [main |-> Main(<<
     Let("n", [GetInt EXCEPT !.ty = c.ty]),
     PrintInt(Cast(Cmp(op, Var("n", c.ty, 1), c))), PrintInt(Cast(Cmp(op, c, Var("n", c.ty, 1)))),
     If(Cmp(op, Var("n", c.ty, 1), c), Do(<<PrintInt(Num(1))>>), <<Do(<<PrintInt(Num(2))>>)>>)>>)]
Immediate(op, c) ==
  [main |-> Main(<<Let("n", [GetInt EXCEPT !.ty = c.ty]),
                   PrintInt(Bin(op, Var("n", c.ty, 1), c)), PrintInt(Bin(op, c, Var("n", c.ty, 1)))>>)]
Comparisons == {"==", "!=", "<", "<=", ">", ">="}

\* Mutual recursion, a reference that is written through, unsigned
\* comparison and a lazy boolean that is kept.
Cell == Deref(Var("c", "ptr", 1), "i32", 1)
References ==
  [main |-> Main(<<
     Let("n", GetInt), Let("b", Lazy("||", Cmp("<", I32("n"), Num(0)), Cmp("==", I32("n"), Num(3)))),
     Invoke("inc", "unit", 0, <<Borrow(I32("n"))>>),
     PrintInt(I32("n")), PrintInt(Cast(Flag("b"))),
     PrintInt(Cast(Cmp(">=", [I32("n") EXCEPT !.ty = "u32"], U32(5)))),
     PrintInt(Invoke("even", "i32", 1, <<Bin("&", I32("n"), Num(3))>>))>>),
   inc |-> Fn(<<Param("c")>>, FALSE, "unit", 0, Do(<<Set(Cell, Bin("+", Cell, Num(1)))>>)),
   even |-> Fn(<<Param("x")>>, FALSE, "i32", 1, Block(<<
              If(Cmp("==", I32("x"), Num(0)), Do(<<Ret(<<Num(1)>>)>>), <<>>)>>,
              <<Invoke("odd", "i32", 1, <<Bin("-", I32("x"), Num(1))>>)>>)),
   odd |-> Fn(<<Param("y")>>, FALSE, "i32", 1, Block(<<
              If(Cmp("==", I32("y"), Num(0)), Do(<<Ret(<<Num(0)>>)>>), <<>>)>>,
              <<Invoke("even", "i32", 1, <<Bin("-", I32("y"), Num(1))>>)>>))]

\* A loop on a boolean variable, and a call inside a call whose result is
\* not used.
Inner == [f |-> Fn(<<Param("x")>>, FALSE, "i32", 1, Block(<<>>, <<Invoke("g", "i32", 1, <<I32("x")>>)>>)),
          g |-> Fn(<<Param("y")>>, FALSE, "i32", 1, Block(<<>>, <<Bin("+", I32("y"), Num(1))>>))]
Repeated ==
  [main |-> Main(<<
     Let("n", GetInt), Let("c", Cmp("<", I32("n"), Num(3))),
     While(Flag("c"), Do(<<PrintInt(I32("n")), Set(Flag("c"), Cmp("==", GetInt, Num(1)))>>)),
     Let("r", Invoke("f", "i32", 1, <<I32("n")>>)),
     PrintInt(I32("n"))>>)] @@ Inner

\* More parameters than registers, each used before and after a call, next to
\* an array in the frame.
Triple == Var("t", "agg", 3)
Arguments ==
  [main |-> Main(<<
     Let("n", GetInt), Invoke("down", "unit", 0, <<I32("n"), Num(2), Num(1)>>), PrintInt(I32("n"))>>),
   down |-> Fn(<<Param("x"), Param("y"), Param("z")>>, FALSE, "unit", 0, Do(<<
     Let("t", Array(<<I32("x"), I32("y"), I32("z")>>)), PrintInt(I32("x")),
     If(Cmp("<", Num(0), I32("z")), Do(<<
       Invoke("down", "unit", 0, <<I32("y"), I32("x"), Bin("-", I32("z"), Num(1))>>)>>), <<>>),
     PrintInt(Bin("+", I32("x"), Index(Triple, I32("z")))), PrintInt(I32("y"))>>))]

\* Calls inside calls: the blocks of both are inlined into main.
NestedCalls ==
  [main |-> Main(<<Let("r", Invoke("f", "i32", 1, <<GetInt>>)), PrintInt(I32("r"))>>)] @@ Inner

NestedCallPrograms == {Lowered(Source(NestedCalls, <<"g", "f", "main">>, {<<1>>}))}

Sources ==
  {Source(Conditions, <<"main">>, {<<3, 2>>, <<3, 1>>, <<1, 5>>, <<4, 0>>}),
   Source(Aggregates, <<"mk", "bump", "main">>, {<<3>>, <<-4>>}),
   Source(Calls, <<"main", "clamp", "sum">>, {<<3, 2>>, <<0, 5>>}),
   Source(Constants, <<"main">>, {<<0>>, <<4>>}),
   Source(Repeated, <<"g", "f", "main">>, {<<2, 1, 1, 0>>, <<2, 0>>, <<5>>}),
   Source(Arguments, <<"down", "main">>, {<<3>>}),
   Source(References, <<"inc", "even", "main", "odd">>, {<<3>>, <<-2>>})}
  \cup {Source(Operation(op, Num(a), Num(b)), <<"main">>, {<<-7>>}) : op \in Operators, a \in {-7, 6}, b \in {-2, 3}}
  \cup {Source(Operation(op, U32(a), U32(b)), <<"main">>, {<<-7>>}) :
          op \in Operators \ {">>"}, a \in {-7, 6}, b \in {-2, 3}}

  \cup {Source(Comparison(op, c), <<"main">>, {<<-17>>, <<-16>>, <<0>>, <<16>>, <<17>>}) :
          op \in Comparisons, c \in {Num(0), Num(-16), Num(16), U32(0), U32(16), U32(-16)}}
  \cup {Source(Immediate(op, c), <<"main">>, {<<-7>>, <<9>>}) :
          op \in {"+", "-", "*", "/", "%"}, c \in {Num(1), Num(15), Num(16), Num(-17), U32(1), U32(16)}}

SourcePrograms == {Lowered(s) : s \in Sources}

------------------------------------------------------------------------------
\* Graphs of three blocks and an exit: each block may store its number, then
\* jumps, branches on a number read or branches on the variable.
X == <<"x", 0>>
V(b) == <<"v", b>>

Branches(b, t) == Branch(V(b), IF t % 3 = 2 THEN 2 ELSE 1, IF t % 3 = 0 THEN 2 ELSE 3)
Ending(b, t) ==
  CASE t < 3 -> <<Jump(t + 1)>>
    [] t \in 3 .. 5 -> <<Call(V(b), "getInt", <<>>), Branches(b, t)>>
    [] t \in 6 .. 8 -> <<Load(V(b), X), Branches(b, t)>>

Entry == <<Alloca(X, 1), Store(Const(0), X)>>
ExitBlock(b) == <<Load(V(b), X), Call(NoName, "printInt", <<V(b)>>), Return(<<Const(0)>>)>>
Contents(is) == [phi |-> <<>>, ins |-> is]
StoreIf(b, store) == IF b \in store THEN <<Store(Const(b + 1), X)>> ELSE <<>>

Graph4(store, t) ==
  LET Inside(b) == StoreIf(b, store) \o Ending(b, t[b + 1])
  IN 0 :> Contents(Entry \o Inside(0)) @@ 1 :> Contents(Inside(1))
       @@ 2 :> Contents(Inside(2)) @@ 3 :> Contents(ExitBlock(3))

\* Graphs of four blocks that all branch on a number read, and an exit.
Pairs == {p \in (1 .. 4) \X (1 .. 4) : p[1] < p[2]}

Graph5(t) ==
  LET Inside(b) == StoreIf(b, {1, 3})
                   \o <<Call(V(b), "getInt", <<>>), Branch(V(b), t[b + 1][1], t[b + 1][2])>>
  IN 0 :> Contents(Entry \o Inside(0)) @@ 1 :> Contents(Inside(1)) @@ 2 :> Contents(Inside(2))
       @@ 3 :> Contents(Inside(3)) @@ 4 :> Contents(ExitBlock(4))

Connected(g) == Reachable(g) = DOMAIN g

AsProgram(g, end, inputs) ==
  LET r == [main |-> [params |-> <<>>, blocks |-> g]]
  IN [root |-> r, order |-> <<"main">>, last |-> end, want |-> [i \in inputs |-> Meaning(r, i)]]

GraphPrograms ==
  {AsProgram(Graph4(s, t), "moved", {<<0, 0, 0>>, <<0, 1, 0>>, <<1, 0, 1>>, <<1, 1, 0>>}) :
     s \in SUBSET {0, 1, 2}, t \in {u \in [1 .. 3 -> 0 .. 8] : Connected(Graph4({}, u))}}
  \cup {AsProgram(Graph5(t), "split", {<<0, 1, 0, 1>>, <<1, 0, 0, 1>>, <<1, 1, 0, 0>>}) :
          t \in {u \in [1 .. 4 -> Pairs] : Connected(Graph5(u))}}

AllPrograms == SourcePrograms \cup GraphPrograms
===============================================================================
