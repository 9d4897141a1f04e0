------------------------------- MODULE Parser -------------------------------
(***************************************************************************)
(* The expression and statement parser (parser/node/expression.cpp,        *)
(* parser/node/statement.cpp): a recursive descent in which every          *)
(* constructor reads one construct, operators are read by a loop over      *)
(* binding powers, and an attempt that fails is abandoned by an exception  *)
(* that some caller catches, goes back to the token where the attempt      *)
(* began, and reads the same tokens as something else.                     *)
(*                                                                         *)
(* A construct under way is a frame of the stack; an exception unwinds the *)
(* stack to the next frame that catches it.  Names, literals, paths and    *)
(* types are single tokens.                                                *)
(***************************************************************************)
EXTENDS Naturals, Sequences, SequencesExt, TLC

CONSTANT Programs   \* bodies of functions, as the trees defined below

(***************************************************************************)
(* Trees: what the author of the program means.  The tokens of a tree are  *)
(* what the author writes; a tree has a node for every pair of parentheses.*)
(***************************************************************************)
Node(type, op, kids) == [type |-> type, op |-> op, kids |-> kids]

WithBlock == {"Block", "While", "If"}
Literal   == {"Array", "Repeat", "Struct"}
Postfix   == {"Call", "MethodCall", "Field", "Index"}
Prefix    == {"Borrow", "Dereference", "Negation", "Return", "Break"}
Binary    == {"ArithmeticOrLogic", "Comparison", "LazyBoolean", "Assignment"}

RECURSIVE Written(_)
Written(t) ==
  LET Each(kids) == FlattenSeq([i \in 1..Len(kids) |-> Written(kids[i])])
      List(before, kids) == FlattenSeq([i \in 1..Len(kids) |->
                              (IF i = 1 THEN <<>> ELSE <<",">>) \o before \o Written(kids[i])])
      First == Written(t.kids[1])
  IN CASE t.type = "Path"       -> <<t.op>>
       [] t.type \in Prefix     -> <<t.op>> \o Each(t.kids)
       [] t.type \in Binary     -> First \o <<t.op>> \o Written(t.kids[2])
       [] t.type = "Grouped"    -> <<"(">> \o First \o <<")">>
       [] t.type = "TypeCast"   -> First \o <<"as", "T">>
       [] t.type = "Field"      -> First \o <<".", "f">>
       [] t.type = "Index"      -> First \o <<"[">> \o Written(t.kids[2]) \o <<"]">>
       [] t.type = "Call"       -> First \o <<"(">> \o List(<<>>, Tail(t.kids)) \o <<")">>
       [] t.type = "MethodCall" -> First \o <<".", "f", "(">> \o List(<<>>, Tail(t.kids)) \o <<")">>
       [] t.type = "Array"      -> <<"[">> \o List(<<>>, t.kids) \o <<"]">>
       [] t.type = "Repeat"     -> <<"[">> \o First \o <<";">> \o Written(t.kids[2]) \o <<"]">>
       [] t.type = "Struct"     -> <<t.op, "{">> \o List(<<"f", ":">>, t.kids) \o <<"}">>
       [] t.type = "Block"      -> <<"{">> \o Each(t.kids) \o <<"}">>
       [] t.type = "While"      -> <<"while", "(">> \o First \o <<")">> \o Written(t.kids[2])
       [] t.type = "If"         -> <<"if", "(">> \o First \o <<")">> \o Written(t.kids[2])
                                     \o (IF Len(t.kids) = 3
                                         THEN <<"else">> \o Written(t.kids[3]) ELSE <<>>)
       [] t.type = "Empty"      -> <<";">>
       [] t.type = "Let"        -> <<"let", "x", ":", "T", "=">> \o First \o <<";">>
       [] t.type = "Semicolon"  -> First \o <<";">>
       [] OTHER                 -> First      \* a block or the value at the end

(***************************************************************************)
(* The tables of expression.h.  A look-up of what has no entry finds 0:    *)
(* the prefix borrow, and return and break as operators between operands.  *)
(***************************************************************************)
Comparison == {"==", "!=", "<", ">", "<=", ">="}
Assignment == {"=", "+=", "-=", "*=", "/=", "%=", "&=", "|=", "^=", "<<=", ">>="}
Arithmetic == {"*", "/", "%", "+", "-", "<<", ">>", "&", "^", "|"}
Jump       == {"return", "break"}
InfixToken == Comparison \cup Assignment \cup Arithmetic \cup Jump
                \cup {"&&", "||", ".", "as", "(", "["}

infix_type ==
  [t \in InfixToken |->
     CASE t \in Comparison   -> "Comparison"
       [] t \in Assignment   -> "Assignment"
       [] t \in Arithmetic   -> "ArithmeticOrLogic"
       [] t \in {"&&", "||"} -> "LazyBoolean"
       [] t = "as"           -> "TypeCast"
       [] t = "("            -> "Call"
       [] t = "["            -> "Index"
       [] t = "."            -> "Field"
       [] t = "return"       -> "Return"
       [] t = "break"        -> "Break"]

\* Assignments associate to the right; a bug for the checks: to the left.
AssignmentPowerLeft == <<500, 501>>
AssignmentPower == <<501, 500>>

\* The powers of a token between two operands: before it and after it.
InfixPower(t) ==
  CASE t = "."                -> <<5000000, 5000001>>
    [] t \in {"[", "("}       -> <<2000000, 1>>
    [] t = "as"               -> <<800000, 800001>>
    [] t \in {"*", "/", "%"}  -> <<500000, 500001>>
    [] t \in {"+", "-"}       -> <<200000, 200001>>
    [] t \in {"<<", ">>"}     -> <<100000, 100001>>
    [] t = "&"                -> <<50000, 50001>>
    [] t = "^"                -> <<20000, 20001>>
    [] t = "|"                -> <<10000, 10001>>
    [] t \in Comparison       -> <<5000, 5000>>
    [] t = "&&"               -> <<2000, 2001>>
    [] t = "||"               -> <<1000, 1001>>
    [] t \in Assignment       -> AssignmentPower
    [] OTHER                  -> <<0, 0>>

PrefixType(t) == CASE t \in {"&", "&&"} -> "Borrow"
                   [] t = "*"           -> "Dereference"
                   [] t \in {"-", "!"}  -> "Negation"
                   [] t = "return"      -> "Return"
                   [] t = "break"       -> "Break"

PrefixToken == {"&", "&&", "*", "-", "!"} \cup Jump
PrefixPower(t) == CASE t \in {"*", "-", "!"} -> 1000000
                    [] t \in Jump            -> 200
                    [] OTHER                 -> 0

Opening == {"{", "while", "if"}
Name    == {"a", "b", "c", "d"}

VARIABLES
  program,   \* what the author means
  tokens,    \* what the author wrote
  pos,       \* the next token
  stack,     \* the constructors under way, the innermost last
  mode,      \* "read"; "return": value is complete; "throw"; "done"
  value,     \* <<the node just completed>>, or nothing
  result     \* <<the tree of the body>>, or nothing: the parser rejects it

vars == <<program, tokens, pos, stack, mode, value, result>>

Token(i) == IF i <= Len(tokens) THEN tokens[i] ELSE "end of file"
token == Token(pos)
Top == Last(stack)

\* A node under construction: all its members are there from the start.  items are
\* the statements of a block, the bodies of if and while, the elements of an array
\* and the fields of a struct.
Fresh == [type |-> "", op |-> "", expr1 |-> <<>>, expr2 |-> <<>>,
          call_params |-> <<>>, items |-> <<>>]

\* What the later passes read of a node: the members that its type is about.
Tree(n) ==
  Node(n.type, n.op,
       CASE n.type \in Binary \cup {"Index"}       -> n.expr1 \o n.expr2
         [] n.type \in {"Call", "MethodCall"}      -> n.expr1 \o n.call_params
         [] n.type \in WithBlock \cup Literal      -> n.expr1 \o n.items
         [] OTHER                                  -> n.expr1)

Operand(power)      == [at |-> "operand", power |-> power]
Operators(power, n) == [at |-> "operators", power |-> power, node |-> n]
Waiting(at, f, n)   == [at |-> at, power |-> f.power, node |-> n]
Attempt(at)         == [at |-> at, tmp |-> pos]
Block(n)            == [at |-> "block", node |-> n]

Replace(frames) == Front(stack) \o frames

\* The ways a step can end.
Read(n, frames) == /\ pos' = pos + n
                   /\ stack' = frames
                   /\ mode' = "read"
                   /\ value' = <<>>
                   /\ UNCHANGED <<program, tokens, result>>
Return(n, node) == /\ pos' = pos + n
                   /\ stack' = Front(stack)
                   /\ mode' = "return"
                   /\ value' = <<node>>
                   /\ UNCHANGED <<program, tokens, result>>
Throw == /\ mode' = "throw"
         /\ value' = <<>>
         /\ UNCHANGED <<program, tokens, pos, stack, result>>

Reading(at)   == mode = "read" /\ Top.at = at
Returning(at) == mode = "return" /\ stack # <<>> /\ Top.at = at

Init ==
  /\ program \in Programs
  /\ tokens = Written(program)
  /\ pos = 2                       \* behind the brace that opens the body
  /\ stack = <<Block([Fresh EXCEPT !.type = "Block"])>>
  /\ mode = "read"
  /\ value = <<>>
  /\ result = <<>>

-----------------------------------------------------------------------------
(***************************************************************************)
(* ExpressionNode: the operand.                                            *)
(***************************************************************************)
\* The constructors of ExpressionWithBlockNode, entered at the token they open with.
Open(t) == CASE t = "{"     -> <<Block([Fresh EXCEPT !.type = "Block"])>>
             [] t = "while" -> <<[at |-> "conditions", node |-> [Fresh EXCEPT !.type = "While"]]>>
             [] t = "if"    -> <<[at |-> "conditions", node |-> [Fresh EXCEPT !.type = "If"]]>>

Path(t) == [Fresh EXCEPT !.type = "Path", !.op = t]

\* StructExprFieldNode: a name and a colon from pos + n on, and the value.
BeginsField(n) == Token(pos + n) = "f" /\ Token(pos + n + 1) = ":"
Field(n, f) ==
  IF BeginsField(n)
  THEN Read(n + 2, Replace(<<f, Operand(0)>>))
  ELSE Throw

ReadOperand ==
  /\ Reading("operand")
  /\ LET unary == [Fresh EXCEPT !.type = PrefixType(token), !.op = token]
     IN \/ /\ token \in Jump /\ Token(pos + 1) = ";"
           /\ Return(1, unary)
        \/ /\ token \in PrefixToken
           /\ ~(token \in Jump /\ Token(pos + 1) = ";")
           /\ Read(1, Replace(<<Waiting("prefix", Top, unary), Operand(PrefixPower(token))>>))
  \/ /\ Reading("operand")
     /\ \/ /\ token = "("
           /\ Read(1, Replace(<<Waiting("grouped", Top, [Fresh EXCEPT !.type = "Grouped"]),
                                Operand(0)>>))
        \/ /\ token \in Opening
           /\ Read(1, Replace(<<Waiting("with block", Top, Fresh)>> \o Open(token)))
        \/ /\ token = "["
           /\ IF Token(pos + 1) = "]"
              THEN Read(2, Replace(<<Operators(Top.power, [Fresh EXCEPT !.type = "Array"])>>))
              ELSE Read(1, Replace(<<Waiting("elements", Top, [Fresh EXCEPT !.type = "Array"]),
                                     Operand(0)>>))
        \/ /\ token \in Name            \* as a struct expression it throws at once
           /\ ~(Token(pos + 1) = "{" /\ (Token(pos + 2) = "}" \/ BeginsField(2)))
           /\ Read(1, Replace(<<Operators(Top.power, Path(token))>>))
        \/ /\ token \in Name
           /\ Token(pos + 1) = "{" /\ Token(pos + 2) = "}"
           /\ Read(3, Replace(<<Operators(Top.power, [Path(token) EXCEPT !.type = "Struct"])>>))
        \/ /\ token \in Name
           /\ Token(pos + 1) = "{" /\ BeginsField(2)
           /\ Field(2, Waiting("struct", Top, [Path(token) EXCEPT !.type = "Struct"])
                         @@ [tmp |-> pos])
        \/ /\ token \notin PrefixToken \cup Opening \cup Name \cup {"(", "["}
           /\ Throw

\* The operand that a prefix operator, a parenthesis or a block waited for.
OperandComplete ==
  \/ /\ Returning("prefix")
     /\ Read(0, Replace(<<Operators(Top.power,
                            [Top.node EXCEPT !.expr1 = <<Tree(value[1])>>])>>))
  \/ /\ Returning("grouped")
     /\ IF token = ")"
        THEN Read(1, Replace(<<Operators(Top.power,
                                 [Top.node EXCEPT !.expr1 = <<Tree(value[1])>>])>>))
        ELSE Throw
  \/ /\ Returning("with block")
     /\ Read(0, Replace(<<Operators(Top.power, value[1])>>))

-----------------------------------------------------------------------------
(***************************************************************************)
(* ExpressionNode: the loop over the operators behind the operand.         *)
(***************************************************************************)
\* What comes behind a block does not call, index or multiply it.
Detached(n, t) == n.type \in WithBlock /\ t \in {"(", "[", "*"} \cup Jump

Continues ==
  token \in InfixToken /\ ~Detached(Top.node, token)

\* expr1_ becomes a copy of the node, and the node takes the type and the operator;
\* its other members stay as they are.
Extended(n, t) == [n EXCEPT !.expr1 = <<Tree(n)>>, !.type = infix_type[t], !.op = t]

\* The arguments, from the token behind the parenthesis at pos + n - 1.
Arguments(n, node) ==
  IF Token(pos + n) = ")"
  THEN Read(n + 1, Replace(<<Operators(Top.power, node)>>))
  ELSE Read(n, Replace(<<Waiting("arguments", Top, [node EXCEPT !.call_params = <<>>]),
                         Operand(0)>>))

ReadOperator ==
  /\ Reading("operators")
  /\ Continues
  /\ LET power == InfixPower(token)[1]
         node  == Extended(Top.node, token)
     IN /\ Top.power <= power
        /\ \/ /\ Top.power = power
              /\ Throw
           \/ /\ Top.power # power
              /\ token = "("
              /\ Arguments(1, node)
           \/ /\ Top.power # power
              /\ token = "."
              /\ IF Token(pos + 2) = "("
                 THEN Arguments(3, [node EXCEPT !.type = "MethodCall"])
                 ELSE Read(2, Replace(<<Operators(Top.power, node)>>))
           \/ /\ Top.power # power
              /\ token = "as"
              /\ Read(2, Replace(<<Operators(Top.power, node)>>))
           \/ /\ Top.power # power
              /\ token \notin {"(", ".", "as"}
              /\ Read(1, Replace(<<Waiting("right", Top, node),
                                   Operand(InfixPower(token)[2])>>))

ExpressionEnds ==
  /\ Reading("operators")
  /\ Continues => Top.power > InfixPower(token)[1]
  /\ Return(0, Top.node)

RightComplete ==
  /\ Returning("right")
  /\ LET node == [Top.node EXCEPT !.expr2 = <<Tree(value[1])>>]
     IN IF node.type # "Index"
        THEN Read(0, Replace(<<Operators(Top.power, node)>>))
        ELSE IF token = "]"
             THEN Read(1, Replace(<<Operators(Top.power, node)>>))
             ELSE Throw

\* CallParamsNode; a comma may end the list.
ArgumentComplete ==
  /\ Returning("arguments")
  /\ LET node == [Top.node EXCEPT !.call_params = Append(@, Tree(value[1]))]
     IN \/ /\ token = ","
           /\ Token(pos + 1) # ")"
           /\ Read(1, Replace(<<Waiting("arguments", Top, node), Operand(0)>>))
        \/ /\ token = ")" \/ (token = "," /\ Token(pos + 1) = ")")
           /\ Read(IF token = ")" THEN 1 ELSE 2, Replace(<<Operators(Top.power, node)>>))
        \/ /\ token \notin {",", ")"}
           /\ Throw

\* ArrayElementsNode, StructExprFieldsNode; a semicolon is looked for behind the
\* first element only.
ElementComplete ==
  /\ Returning("elements")
  /\ LET node == [Top.node EXCEPT !.items = Append(@, Tree(value[1]))]
     IN \/ /\ token = "," /\ Token(pos + 1) # "]"
           /\ Read(1, Replace(<<Waiting("elements", Top, node), Operand(0)>>))
        \/ /\ token = ";" /\ Len(node.items) = 1
           /\ Read(1, Replace(<<Waiting("length", Top, [node EXCEPT !.type = "Repeat"]),
                                Operand(0)>>))
        \/ /\ token = "]" \/ (token = "," /\ Token(pos + 1) = "]")
           /\ Read(IF token = "]" THEN 1 ELSE 2, Replace(<<Operators(Top.power, node)>>))
        \/ /\ token \notin {",", "]"} /\ ~(token = ";" /\ Len(node.items) = 1)
           /\ Throw

LengthComplete ==
  /\ Returning("length")
  /\ IF token = "]"
     THEN Read(1, Replace(<<Operators(Top.power,
                              [Top.node EXCEPT !.items = Append(@, Tree(value[1]))])>>))
     ELSE Throw

FieldComplete ==
  /\ Returning("struct")
  /\ LET f == [Top EXCEPT !.node.items = Append(@, Tree(value[1]))]
     IN \/ /\ token = "," /\ Token(pos + 1) # "}"
           /\ Field(1, f)
        \/ /\ token = "}" \/ (token = "," /\ Token(pos + 1) = "}")
           /\ Read(IF token = "}" THEN 1 ELSE 2, Replace(<<Operators(Top.power, f.node)>>))
        \/ /\ token \notin {",", "}"}
           /\ Throw

-----------------------------------------------------------------------------
(***************************************************************************)
(* ExpressionWithBlockNode: conditions and bodies.                         *)
(***************************************************************************)
ReadConditions ==
  /\ Reading("conditions")
  /\ IF token = "(" THEN Read(1, Replace(<<[Top EXCEPT !.at = "condition"], Operand(0)>>))
                    ELSE Throw

\* The block that must open at pos + n, for the construct of frame f.
Body(n, f) ==
  IF Token(pos + n) = "{"
  THEN Read(n + 1, Replace(<<[f EXCEPT !.at = "body"]>> \o Open("{")))
  ELSE Throw

ConditionComplete ==
  /\ Returning("condition")
  /\ IF token = ")" /\ value[1].type # "Struct"
     THEN Body(1, [Top EXCEPT !.node.expr1 = <<Tree(value[1])>>])
     ELSE Throw

BodyComplete ==
  /\ Returning("body")
  /\ LET f == [Top EXCEPT !.node.items = Append(@, Tree(value[1]))]
     IN IF token = "else" /\ f.node.type = "If" /\ Len(f.node.items) = 1
        THEN IF Token(pos + 1) = "if"
             THEN Read(2, Replace(<<f>> \o Open("if")))
             ELSE Body(1, f)
        ELSE Return(0, f.node)

-----------------------------------------------------------------------------
(***************************************************************************)
(* StatementsNode, StatementNode, ExpressionStatementNode, LetStatementNode *)
(***************************************************************************)
\* The block whose statements are read, with one more of them; k frames are dropped.
WithStatement(k, type, kids) ==
  LET frames == SubSeq(stack, 1, Len(stack) - k)
  IN [frames EXCEPT ![Len(frames)].node.items = Append(@, Node(type, "", kids))]

ReadStatement ==
  /\ Reading("block")
  /\ \/ /\ token = "}"
        /\ Return(1, Top.node)
     \/ /\ token = ";"
        /\ Read(1, WithStatement(0, "Empty", <<>>))
     \/ /\ token = "let"
        /\ Read(5, stack \o <<Attempt("let"), Operand(0)>>)
     \/ /\ token \in Opening
        /\ Read(1, stack \o <<Attempt("expression with block")>> \o Open(token))
     \/ /\ token \notin Opening \cup {"}", ";", "let"}    \* the first attempt throws at once
        /\ Read(0, stack \o <<Attempt("expression without block"), Operand(0)>>)

StatementComplete ==
  \/ /\ Returning("expression with block")
     /\ IF token = ";"
        THEN Read(1, WithStatement(1, "Semicolon", <<Tree(value[1])>>))
        ELSE Read(0, WithStatement(1, "BlockStatement", <<Tree(value[1])>>))
  \/ /\ Returning("expression without block")
     /\ IF value[1].type \notin WithBlock /\ token = ";"
        THEN Read(1, WithStatement(1, "Semicolon", <<Tree(value[1])>>))
        ELSE Throw
  \/ /\ Returning("let")
     /\ IF token = ";" THEN Read(1, WithStatement(1, "Let", <<Tree(value[1])>>))
                       ELSE Throw
  \/ /\ Returning("last expression")
     /\ IF value[1].type \notin WithBlock /\ token = "}"
        THEN Read(0, WithStatement(1, "Last", <<Tree(value[1])>>))
        ELSE Throw

\* What is read instead once the attempt of frame f has failed; a bug for the
\* checks: a statement is tried as a statement again.
SecondReadingAgain(f) ==
  CASE f.at = "struct" -> <<Operators(f.power, Path(f.node.op))>>
    [] OTHER           -> <<[f EXCEPT !.at = "expression without block"], Operand(0)>>

SecondReading(f) ==
  CASE f.at = "struct"                -> <<Operators(f.power, Path(f.node.op))>>
    [] f.at = "expression with block" ->
         <<[f EXCEPT !.at = "expression without block"], Operand(0)>>
    [] OTHER                          -> <<[at |-> "last expression"], Operand(0)>>

\* An exception: the attempt that catches it goes back to where it began.
Attempts == {"struct", "expression with block", "expression without block", "let"}
Catching == {i \in 1..Len(stack) : stack[i].at \in Attempts}

Catch ==
  /\ mode = "throw"
  /\ Catching # {}
  /\ LET i == Max(Catching)
     IN /\ pos' = IF stack[i].at = "struct" THEN stack[i].tmp + 1 ELSE stack[i].tmp
        /\ stack' = SubSeq(stack, 1, i - 1) \o SecondReading(stack[i])
        /\ mode' = "read"
        /\ value' = <<>>
        /\ UNCHANGED <<program, tokens, result>>

Reject ==
  /\ mode = "throw"
  /\ Catching = {}
  /\ mode' = "done"
  /\ stack' = <<>>
  /\ UNCHANGED <<program, tokens, pos, value, result>>

Accept ==
  /\ mode = "return"
  /\ stack = <<>>
  /\ mode' = "done"
  /\ result' = <<Tree(value[1])>>
  /\ UNCHANGED <<program, tokens, pos, stack, value>>

Next ==
  \/ ReadOperand \/ OperandComplete
  \/ ReadOperator \/ ExpressionEnds \/ RightComplete \/ ArgumentComplete
  \/ ElementComplete \/ LengthComplete \/ FieldComplete
  \/ ReadConditions \/ ConditionComplete \/ BodyComplete
  \/ ReadStatement \/ StatementComplete
  \/ Catch \/ Reject \/ Accept

Spec == Init /\ [][Next]_vars
FairSpec == Spec /\ WF_vars(Next)

-----------------------------------------------------------------------------
(***************************************************************************)
(* What the language says, and where the parser is known to differ.        *)
(***************************************************************************)
RECURSIVE Subtrees(_), RightEdge(_), Chain(_)
Subtrees(t)  == {t} \cup UNION {Subtrees(t.kids[i]) : i \in 1..Len(t.kids)}
RightEdge(t) == {t} \cup (IF t.type \in Prefix \cup Binary /\ t.kids # <<>>
                         THEN RightEdge(Last(t.kids)) ELSE {})
Chain(t)     == {t} \cup (IF t.type \in Postfix THEN Chain(t.kids[1]) ELSE {})

\* Comparisons do not associate: the language rejects a == b == c.  It rejects a
\* struct expression as a condition as well.
Illegal ==
  \E t \in Subtrees(program) :
     \/ t.type = "Comparison" /\ t.kids[1].type = "Comparison"
     \/ t.type \in {"While", "If"} /\ t.kids[1].type = "Struct"

\* & has no power of its own: &a == b is read as &(a == b).
BorrowExtends(t) ==
  /\ t.type \in Binary \cup {"TypeCast"}
  /\ \E u \in RightEdge(t.kids[1]) :
       u.type = "Borrow" /\ ~(u.kids[1].type \in WithBlock /\ t.op = "*")

\* A call without arguments keeps those of a call before it: a.f(b).g() has b.
ArgumentsKept(t) ==
  /\ t.type \in {"Call", "MethodCall"} /\ Len(t.kids) = 1
  /\ \E u \in Chain(t.kids[1]) : u.type \in {"Call", "MethodCall"} /\ Len(u.kids) > 1

\* c + {a} * b is read as (c + {a}) * b.
BlockDetached(t) ==
  /\ t.type \in {"Call", "Index"} \/ (t.type = "ArithmeticOrLogic" /\ t.op = "*")
  /\ t.kids[1].type \in WithBlock

\* return and break without a value are known by the semicolon behind them.
JumpWithoutSemicolon ==
  \E i \in 1..Len(tokens) : tokens[i] \in Jump /\ Token(i + 1) \in {")", "]", "}", ","}

Misread ==
  \/ JumpWithoutSemicolon
  \/ \E t \in Subtrees(program) : BorrowExtends(t) \/ ArgumentsKept(t) \/ BlockDetached(t)

\* The tree the parser makes of what the author wrote is the tree the author
\* meant, operator by operator and statement by statement, however often an
\* attempt was given up on the way; and what the language forbids is rejected.  The
\* four exceptions are exact: what falls under one of them is misread or rejected.
ParsedAsWritten ==
  mode = "done" =>
    IF Illegal THEN Misread \/ result = <<>>
               ELSE (result = <<program>>) <=> ~Misread

\* Parsing ends: an attempt that was given up is not made a second time
\* (StatementsNode, ExpressionStatementNode).
ParsingEnds == <>(mode = "done")
=============================================================================
