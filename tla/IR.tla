---------------------------------- MODULE IR ----------------------------------
(***************************************************************************)
(* The intermediate representation the mid end works on (src/IR/IR_node.h). *)
(* An operand is a tagged pair: <<"const", n>> or a variable <<prefix, n>>, *)
(* so a name the NameAllocator would spell "%phi..3" is <<"phi", 3>>.  An   *)
(* instruction is one record for all the node classes: what it computes     *)
(* (kind, op, uns), its result, its operands in order, its target blocks,   *)
(* and the removed_ flag the passes set instead of erasing it.  Types are   *)
(* left out except where a pass looks at them (an address has in op whether *)
(* it counts in an array or in a struct); a scalar takes one cell.          *)
(***************************************************************************)
EXTENDS Integers, Sequences, SequencesExt, FiniteSets, FiniteSetsExt, TLC

CONSTANT Width   \* bits of an i32 in this instance

ASSUME WidthAssumption == Width \in Nat \ {0, 1}

NoName == <<"", 0>>
Const(n) == <<"const", n>>
IsConstant(x) == x[1] = "const"
IsVariable(x) == x[1] \notin {"", "const"}

Ins(kind, op, res, use, to) ==
  [kind |-> kind, op |-> op, uns |-> FALSE, res |-> res, use |-> use,
   to |-> to, removed |-> FALSE]

Arith(res, op, a, b, uns) == [Ins("arith", op, res, <<a, b>>, <<>>) EXCEPT !.uns = uns]
Compare(res, op, a, b) == Ins("cmp", op, res, <<a, b>>, <<>>)
Negation(res, op, a) == Ins("neg", op, res, <<a>>, <<>>)   \* "-", or "!" on i1, or "~"
Branch(cond, t, f) == Ins("br", "", NoName, <<cond>>, <<t, f>>)
Jump(b) == Ins("jmp", "", NoName, <<>>, <<b>>)
Return(v) == Ins("ret", "", NoName, v, <<>>)
Alloca(res, cells) == Ins("alloca", "", res, <<Const(cells)>>, <<>>)
Load(res, p) == Ins("load", "", res, <<p>>, <<>>)
Store(v, p) == Ins("store", "", NoName, <<v, p>>, <<>>)
GEP(res, type, p, index) == Ins("gep", type, res, <<p, Const(index)>>, <<>>)
GEPPrime(res, type, p, index) == Ins("gepp", type, res, <<p, index>>, <<>>)
Call(res, function, args) == Ins("call", function, res, args, <<>>)
Select(res, cond) == Ins("select", "", res, <<cond>>, <<>>)
Move(res, v) == Ins("move", "", res, <<v>>, <<>>)
Phi(res, val) == [res |-> res, val |-> val]

EmptyBlock == [phi |-> <<>>, ins |-> <<>>]
IsTerminator(i) == i.kind \in {"br", "jmp", "ret"}
IsAddress(i) == i.kind \in {"gep", "gepp"}

\* IRBlockNode::AddInstruction: an alloca goes to the front, anything else to
\* the end of a block that has no terminator yet.
AddInstruction(block, i) ==
  IF i.kind = "alloca" THEN [block EXCEPT !.ins = <<i>> \o @]
  ELSE IF \E k \in DOMAIN block.ins : IsTerminator(block.ins[k]) THEN block
  ELSE [block EXCEPT !.ins = Append(@, i)]

\* Blocks are numbered from 0; a new block gets the next number.
AddBlock(blocks, b) == blocks @@ (Cardinality(DOMAIN blocks) :> b)

Live(block) == SelectSeq(block.ins, LAMBDA i : ~i.removed)

\* The edges every pass that walks the instructions builds for itself: the
\* targets of the first instruction that is a live jump or branch.
SuccSeq(block) ==
  LET jumps == SelectSeq(Live(block), LAMBDA i : i.kind \in {"br", "jmp"})
  IN IF jumps = <<>> THEN <<>> ELSE jumps[1].to

Succs(block) == ToSet(SuccSeq(block))
Preds(blocks, b) == {a \in DOMAIN blocks : b \in Succs(blocks[a])}

\* The blocks the entry reaches along live edges.
Reachable(blocks) ==
  LET Grow(S, k) == S \cup UNION {Succs(blocks[b]) : b \in S}
  IN FoldSet(LAMBDA k, S : Grow(S, k), {0}, DOMAIN blocks)

\* The positions of the live instructions, as <<block, index>>.
LivePositions(blocks) ==
  UNION {{<<b, k>> : k \in {j \in DOMAIN blocks[b].ins : ~blocks[b].ins[j].removed}} :
         b \in DOMAIN blocks}

At(blocks, p) == blocks[p[1]].ins[p[2]]
Before(p, q) == p[1] < q[1] \/ (p[1] = q[1] /\ p[2] < q[2])

\* Replace an operand everywhere in an instruction or in a block's phis.
ReplaceIn(i, f(_)) == [i EXCEPT !.use = [k \in DOMAIN @ |-> f(@[k])]]
ReplaceInPhi(phi, f(_)) == [phi EXCEPT !.val = [k \in DOMAIN @ |-> <<f(@[k][1]), @[k][2]>>]]
ReplaceInBlock(block, f(_)) ==
  [phi |-> [k \in DOMAIN block.phi |-> ReplaceInPhi(block.phi[k], f)],
   ins |-> [k \in DOMAIN block.ins |->
              IF block.ins[k].removed THEN block.ins[k] ELSE ReplaceIn(block.ins[k], f)]]

\* int32_t and uint32_t views of a number.
Wrap(n) == ((n + 2^(Width - 1)) % 2^Width) - 2^(Width - 1)
Unsigned(n) == n % 2^Width

Abs(n) == IF n < 0 THEN -n ELSE n
Quotient(a, b) == IF (a < 0) = (b < 0) THEN Abs(a) \div Abs(b) ELSE -(Abs(a) \div Abs(b))
Remainder(a, b) == a - b * Quotient(a, b)

Bit(n, k) == (Unsigned(n) \div 2^k) % 2
BitSum(f(_)) == Wrap(MapThenSumSet(LAMBDA k : f(k) * 2^k, 0 .. Width - 1))
BitAnd(a, b) == BitSum(LAMBDA k : Bit(a, k) * Bit(b, k))
BitOr(a, b) == BitSum(LAMBDA k : IF Bit(a, k) + Bit(b, k) > 0 THEN 1 ELSE 0)
BitXor(a, b) == BitSum(LAMBDA k : (Bit(a, k) + Bit(b, k)) % 2)
BitNot(a) == Wrap(-1 - a)

CompareHolds(op, a, b) ==
  CASE op = "eq" -> a = b
    [] op = "ne" -> a # b
    [] op = "ugt" -> Unsigned(a) > Unsigned(b)
    [] op = "uge" -> Unsigned(a) >= Unsigned(b)
    [] op = "ult" -> Unsigned(a) < Unsigned(b)
    [] op = "ule" -> Unsigned(a) <= Unsigned(b)
    [] op = "sgt" -> a > b
    [] op = "sge" -> a >= b
    [] op = "slt" -> a < b
    [] op = "sle" -> a <= b
===============================================================================
