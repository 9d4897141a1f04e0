---------------------------- MODULE ConstantFolding ----------------------------
(***************************************************************************)
(* The instructions constant propagation looks at, and what it computes for *)
(* those it can fold when all their operands are constants                  *)
(* (src/IR_visitor/sccp/sccp.cpp).                                          *)
(***************************************************************************)
EXTENDS IR

\* int32_t arithmetic of the host; a division by zero is given a value.
FoldArithmetic(a, b, op, uns) ==
  LET shift == Unsigned(b) % Width
  IN CASE op = "+" -> Wrap(a + b)
       [] op = "-" -> Wrap(a - b)
       [] op = "*" -> Wrap(a * b)
       [] op = "/" -> IF b = 0 THEN a
                      ELSE IF uns THEN Wrap(Unsigned(a) \div Unsigned(b)) ELSE Wrap(Quotient(a, b))
       [] op = "%" -> IF b = 0 THEN 0
                      ELSE IF uns THEN Wrap(Unsigned(a) % Unsigned(b)) ELSE Remainder(a, b)
       [] op = "<<" -> Wrap(a * 2^shift)
       [] op = ">>" -> IF uns THEN Wrap(Unsigned(a) \div 2^shift) ELSE a \div 2^shift
       [] op = "&" -> BitAnd(a, b)
       [] op = "|" -> BitOr(a, b)
       [] op = "^" -> BitXor(a, b)

FoldCompare(a, b, op) == IF CompareHolds(op, a, b) THEN 1 ELSE 0

\* is_minus_ or not: a boolean is complemented like a number.
FoldNegation(a, op) == IF op = "-" THEN Wrap(-a) ELSE BitNot(a)

FoldedKinds == {"arith", "cmp", "neg", "select"}
OpaqueKinds == {"call", "load", "alloca", "gep", "gepp"}   \* never a constant
TrackedKinds == FoldedKinds \cup OpaqueKinds \cup {"move"}
Folds(i) == i.kind \in FoldedKinds

\* The value of an instruction all of whose operands are constants.
Fold(i, v) ==
  CASE i.kind = "arith" -> FoldArithmetic(v[1], v[2], i.op, i.uns)
    [] i.kind = "cmp" -> FoldCompare(v[1], v[2], i.op)
    [] i.kind = "neg" -> FoldNegation(v[1], i.op)
    [] i.kind = "select" -> v[1]

\* Instructions whose result is tracked.
IsTracked(i) == i.kind \in TrackedKinds /\ i.res # NoName
==============================================================================
