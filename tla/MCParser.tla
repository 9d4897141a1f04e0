------------------------------ MODULE MCParser ------------------------------
(***************************************************************************)
(* Programs for Parser: every tree of a few operators, with the parentheses *)
(* the language asks for, as the only statement of a body; and bodies with *)
(* two statements.                                                         *)
(***************************************************************************)
EXTENDS Parser

\* How tightly the language binds what is at the top of a tree.
Level(t) ==
  CASE t.type \in {"Return", "Break"}                      -> 1
    [] t.type = "Assignment"                               -> 2
    [] t.type = "LazyBoolean"                              -> IF t.op = "||" THEN 3 ELSE 4
    [] t.type = "Comparison"                               -> 5
    [] t.type = "ArithmeticOrLogic"                        ->
         CASE t.op = "|" -> 6 [] t.op = "^" -> 7 [] t.op = "&" -> 8
           [] t.op \in {"<<", ">>"} -> 9 [] t.op \in {"+", "-"} -> 10 [] OTHER -> 11
    [] t.type = "TypeCast"                                 -> 12
    [] t.type \in {"Borrow", "Dereference", "Negation"}    -> 13
    [] OTHER                                               -> 14

\* t where the language wants at least level m.
Fit(t, m) == IF Level(t) >= m THEN t ELSE Node("Grouped", "", <<t>>)

A == Node("Path", "a", <<>>)
NoStatements == Node("Block", "", <<>>)
Bare == Node("Return", "return", <<>>)

PrefixOf(o, e) ==
  Node(PrefixType(o), o, <<Fit(e, IF o \in Jump THEN 1 ELSE 13)>>)
BinaryOf(o, l, r) ==
  LET level == Level(Node(infix_type[o], o, <<>>))
  IN Node(infix_type[o], o,
          IF o \in Assignment THEN <<Fit(l, level + 1), Fit(r, level)>>
                              ELSE <<Fit(l, level), Fit(r, level + 1)>>)
\* A field that is called is put in parentheses: a.f() is a method call.
With(type, op, e, more) ==
  Node(type, op, <<IF type = "Call" /\ e.type = "Field" THEN Node("Grouped", "", <<e>>)
                                                        ELSE Fit(e, 14)>> \o more)

\* A statement that begins with a block ends with it: anything else is put in
\* parentheses.
RECURSIVE BeginsWithBlock(_)
BeginsWithBlock(e) ==
  e.type \in WithBlock \/ (e.type \in Binary \cup Postfix \cup {"TypeCast"}
                            /\ BeginsWithBlock(e.kids[1]))
Start(e) == IF e.type \notin WithBlock /\ BeginsWithBlock(e) THEN Node("Grouped", "", <<e>>)
                                                             ELSE e
Final(e) == Node(IF e.type \in WithBlock THEN "BlockStatement" ELSE "Last", "", <<Start(e)>>)
Semicolon(e) == Node("Semicolon", "", <<Start(e)>>)
Let(e) == Node("Let", "", <<e>>)
Braces(items) == Node("Block", "", items)

\* The trees with one more operator than e, or than l and r together.
OneMore(e, ops) ==
  {PrefixOf(o, e) : o \in ops \cap {"-", "!", "&", "return", "break"}}
    \cup (IF "deref" \in ops THEN {PrefixOf("*", e)} ELSE {})
    \cup (IF "as" \in ops THEN {Node("TypeCast", "as", <<Fit(e, 12)>>)} ELSE {})
    \cup (IF "(" \in ops THEN {Node("Grouped", "", <<e>>), With("Call", "(", e, <<>>)} ELSE {})
    \cup (IF "." \in ops THEN {With("Field", ".", e, <<>>), With("MethodCall", ".", e, <<>>)}
                         ELSE {})
    \cup (IF "{" \in ops THEN {Braces(<<Final(e)>>), Braces(<<Semicolon(e)>>)} ELSE {})
    \cup (IF "literal" \in ops
          THEN {Node("Array", "", <<e>>), Node("Struct", "b", <<e>>), Node("Repeat", "", <<A, e>>)}
          ELSE {})
    \cup (IF "if" \in ops THEN {Node("While", "", <<e, NoStatements>>)} ELSE {})
Joined(l, r, ops) ==
  {BinaryOf(o, l, r) : o \in (ops \ (Jump \cup {"as", "(", "[", "."})) \cap InfixToken}
    \cup (IF "literal" \in ops
          THEN {Node("Array", "", <<l, r>>), Node("Struct", "b", <<l, r>>)} ELSE {})
    \cup (IF "[" \in ops THEN {With("Index", "[", l, <<r>>)} ELSE {})
    \cup (IF "(" \in ops THEN {With("Call", "(", l, <<r>>)} ELSE {})
    \cup (IF "." \in ops THEN {With("MethodCall", ".", l, <<r>>)} ELSE {})

\* The trees with n operators.
Trees(leaves, ops, size) ==
  LET T[n \in 0..size] ==
        IF n = 0 THEN leaves
        ELSE UNION {OneMore(e, ops) : e \in T[n - 1]}
               \cup UNION {Joined(l[1], l[2], ops) :
                             l \in UNION {T[i] \X T[n - 1 - i] : i \in 0..(n - 1)}}
  IN UNION {T[n] : n \in 0..size}

\* Two of every operator, of every level, and three of some.
Every == {"=", "+=", "||", "&&", "==", "<", "|", "^", "&", "<<", "+", "-", "*", "as", "!",
               "deref", "return", "break", "(", "[", ".", "{", "if",
           "literal"}
Singles == Trees({A, NoStatements, Bare, Node("Array", "", <<>>), Node("Struct", "b", <<>>)},
                 Every, 1)
Pairs   == Trees({A, NoStatements}, Every, 2)
Triples == Trees({A}, {"=", "+", "*", "&", "return", "."}, 3)

\* Two statements of every kind, with blocks in blocks.  A semicolon behind a block
\* belongs to the block.
Bodies ==
  LET simple == {A, NoStatements, PrefixOf("-", A), BinaryOf("*", A, A), Braces(<<Final(A)>>),
                 Braces(<<Semicolon(A), Final(A)>>),
                 BinaryOf("=", A, Braces(<<Let(A), Final(NoStatements)>>)),
                 Node("If", "", <<A, NoStatements>>),
                 Node("If", "", <<A, NoStatements, Braces(<<Semicolon(Bare)>>)>>),
                 Node("If", "", <<A, NoStatements, Node("If", "", <<A, NoStatements>>)>>),
                 BinaryOf("+", A, Node("If", "", <<A, NoStatements, NoStatements>>)),
                 Node("While", "", <<BinaryOf("<", A, A), Braces(<<Semicolon(A)>>)>>)}
      first == {Node("Empty", "", <<>>)} \cup {Semicolon(e) : e \in simple \cup {Bare}}
                 \cup {Let(e) : e \in simple}
                 \cup {Final(e) : e \in {f \in simple : f.type \in WithBlock}}
      last  == first \cup {Final(e) : e \in simple}
  IN {b \in first \X last : ~(b[1].type = "BlockStatement" /\ b[2].type = "Empty")}

MCPrograms == {Braces(<<Final(e)>>) : e \in Singles \cup Pairs \cup Triples}
                \cup {Braces(<<Let(e), Semicolon(e)>>) : e \in Singles}
                \cup {Braces(b) : b \in Bodies}
                \cup {Braces(<<>>)}
=============================================================================
