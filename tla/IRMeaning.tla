------------------------------- MODULE IRMeaning -------------------------------
(***************************************************************************)
(* What a program in the intermediate representation does: the numbers it   *)
(* prints for a sequence of numbers it reads, and what main returns.  The   *)
(* meaning of an instruction is the one its printer and the code generator  *)
(* give it; a name that was never assigned has the value Undef.             *)
(***************************************************************************)
EXTENDS IR, Folding

CONSTANT Fuel   \* blocks a run may enter before it counts as endless

ASSUME FuelAssumption == Fuel \in Nat

Undef == 2^(Width + 2)

ArithmeticValue(op, uns, a, b) ==
  LET shift == Unsigned(b) % Width
  IN CASE a = Undef \/ b = Undef -> Undef
       [] op = "+" -> Wrap(a + b)
       [] op = "-" -> Wrap(a - b)
       [] op = "*" -> Wrap(a * b)
       [] op \in {"/", "%"} /\ b = 0 -> Undef
       [] op = "/" -> Wrap(IF uns THEN Unsigned(a) \div Unsigned(b) ELSE Quotient(a, b))
       [] op = "%" -> Wrap(IF uns THEN Unsigned(a) % Unsigned(b) ELSE Remainder(a, b))
       [] op = "<<" -> Wrap(a * 2^shift)
       [] op = ">>" -> a \div 2^shift
       [] op = "&" -> BitAnd(a, b)
       [] op = "|" -> BitOr(a, b)
       [] op = "^" -> BitXor(a, b)

NegationValue(op, a) ==
  CASE a = Undef -> Undef
    [] op = "-" -> Wrap(-a)
    [] op = "!" -> 1 - a
    [] op = "~" -> BitNot(a)

\* RISC-V instructions on registers of twice the width, which hold words
\* sign-extended; an immediate form takes no register.  "enter" moves sp down by
\* a frame, and "ld", "sd" and "lea" address a slot of it from sp.
Double(n) == n % 2^(2 * Width)
ImmediateForms == {"addiw", "addi", "slliw", "srliw", "sraiw", "andi", "xori", "slti", "sltiu"}
MachineValue(op, a, b) ==
  CASE Undef \in {a, b} -> Undef
    [] op \in {"addiw", "addw"} -> Wrap(a + b)
    [] op \in {"addi", "add"} -> a + b
    [] op = "sub" -> a - b
    [] op = "slliw" -> Wrap(a * 2^b)
    [] op = "srliw" -> Wrap(Unsigned(a) \div 2^b)
    [] op = "sraiw" -> Wrap(a) \div 2^b
    [] op = "andi" -> BitAnd(a, b)
    [] op = "xori" -> BitXor(a, b)
    [] op \in {"slt", "slti"} -> IF a < b THEN 1 ELSE 0
    [] op \in {"sltu", "sltiu"} -> IF Double(a) < Double(b) THEN 1 ELSE 0

Takes(op, a, b) ==
  CASE op = "beq" -> a = b
    [] op = "bne" -> a # b
    [] op = "blt" -> a < b
    [] op = "bge" -> a >= b
    [] op = "bltu" -> Double(a) < Double(b)
    [] op = "bgeu" -> Double(a) >= Double(b)

Lookup(f, x) == IF x \in DOMAIN f THEN f[x] ELSE Undef
ValueOf(m, x) == IF IsConstant(x) THEN x[2] ELSE Lookup(m.env, x)
Assign(m, x, v) == IF x = NoName THEN m ELSE [m EXCEPT !.env = (x :> v) @@ @]
Write(m, cells) == [m EXCEPT !.mem = cells @@ @]

Running == -1
Stopped == -2

Stuck(m) == [m EXCEPT !.status = "stuck", !.next = Stopped]

RECURSIVE ExecFunction(_, _, _, _)

\* The library routines of builtin.ll that generated code calls.
ExecBuiltin(m, i) ==
  LET arg == [k \in DOMAIN i.use |-> ValueOf(m, i.use[k])]
  IN CASE i.op = "getInt" ->
            IF m.in = <<>> THEN Stuck(m)
            ELSE Assign([m EXCEPT !.in = Tail(@)], i.res, Head(m.in))
       [] i.op = "printInt" -> [m EXCEPT !.out = Append(@, arg[1])]
       [] i.op = "builtin_memset" ->
            Write(m, [a \in arg[1] .. arg[1] + arg[3] - 1 |-> arg[2]])
       [] i.op = "builtin_memcpy" ->
            Write(m, [a \in arg[1] .. arg[1] + arg[3] - 1 |->
                        Lookup(m.mem, a - arg[1] + arg[2])])

Builtins == {"getInt", "printInt", "builtin_memset", "builtin_memcpy"}

ExecIns(prog, m, i) ==
  LET arg == [k \in DOMAIN i.use |-> ValueOf(m, i.use[k])]
  IN CASE i.kind = "arith" -> Assign(m, i.res, ArithmeticValue(i.op, i.uns, arg[1], arg[2]))
       [] i.kind = "cmp" ->
            Assign(m, i.res, IF Undef \in {arg[1], arg[2]} THEN Undef
                             ELSE IF CompareHolds(i.op, arg[1], arg[2]) THEN 1 ELSE 0)
       [] i.kind = "neg" -> Assign(m, i.res, NegationValue(i.op, arg[1]))
       [] i.kind = "br" ->
            IF arg[1] = Undef THEN Stuck(m)
            ELSE [m EXCEPT !.next = IF arg[1] # 0 THEN i.to[1] ELSE i.to[2]]
       [] i.kind = "jmp" -> [m EXCEPT !.next = i.to[1]]
       [] i.kind = "ret" ->
            [m EXCEPT !.next = Stopped, !.ret = IF arg = <<>> THEN 0 ELSE arg[1]]
       [] i.kind = "alloca" ->
            Write(Assign([m EXCEPT !.sp = @ - arg[1]], i.res, m.sp - arg[1]),
                  [a \in m.sp - arg[1] .. m.sp - 1 |-> Undef])
       [] i.kind = "load" -> Assign(m, i.res, Lookup(m.mem, arg[1]))
       [] i.kind = "store" -> Write(m, arg[2] :> arg[1])
       [] i.kind \in {"gep", "gepp"} -> Assign(m, i.res, ArithmeticValue("+", FALSE, arg[1], arg[2]))
       [] i.kind \in {"select", "move"} -> Assign(m, i.res, arg[1])
       [] i.kind = "asm" ->
            IF i.op \in ImmediateForms /\ ~IsConstant(i.use[2]) THEN Stuck(m)
            ELSE Assign(m, i.res, MachineValue(i.op, arg[1], arg[2]))
       [] i.kind = "enter" -> [m EXCEPT !.sp = @ - arg[1]]
       [] i.kind = "lea" -> Assign(m, i.res, m.sp + arg[1])
       [] i.kind = "ld" ->
            LET v == Lookup(m.mem, m.sp + arg[1]) IN Assign(m, i.res, IF v = Undef THEN v ELSE Wrap(v))
       [] i.kind = "sd" -> Write(m, m.sp + arg[2] :> arg[1])
       [] i.kind = "bcc" ->
            IF Undef \in {arg[1], arg[2]} THEN Stuck(m)
            ELSE IF Takes(i.op, arg[1], arg[2]) THEN [m EXCEPT !.next = i.to[1]] ELSE m
       [] i.kind = "call" /\ i.op \in Builtins -> ExecBuiltin(m, i)
       [] i.kind = "call" /\ i.op \notin Builtins ->
            LET r == ExecFunction(prog, i.op, arg, m)
            IN IF r.status # "ok" THEN [r EXCEPT !.next = Stopped]
               ELSE Assign([r EXCEPT !.env = m.env, !.sp = m.sp, !.next = Running], i.res, r.ret)

\* The phis of a block read their operands for the edge taken, all at once.
ExecPhis(m, block, prev) ==
  LET Entry(phi) == SelectSeq(phi.val, LAMBDA e : e[2] = prev)
      Read(phi) == IF Entry(phi) = <<>> THEN Undef ELSE ValueOf(m, Entry(phi)[1][1])
  IN FoldByHalves(LAMBDA n, phi : Assign(n, phi.res, Read(phi)), m, block.phi)

RECURSIVE ExecBlock(_, _, _, _, _)
ExecBlock(prog, f, b, prev, m) ==
  LET start == ExecPhis([m EXCEPT !.fuel = @ - 1, !.next = Running], prog[f].blocks[b], prev)
      end == FoldByHalves(LAMBDA n, i : IF n.next # Running THEN n ELSE ExecIns(prog, n, i),
                      start, Live(prog[f].blocks[b]))
  IN CASE m.fuel = 0 -> [m EXCEPT !.status = "endless", !.next = Stopped]
       [] m.fuel > 0 /\ end.next = Running -> Stuck(end)
       [] m.fuel > 0 /\ end.next = Stopped -> end
       [] m.fuel > 0 /\ end.next >= 0 -> ExecBlock(prog, f, end.next, b, end)

ExecFunction(prog, f, arg, m) ==
  ExecBlock(prog, f, 0, -1,
            [m EXCEPT !.env = [p \in ToSet(prog[f].params) |->
                                 arg[CHOOSE k \in DOMAIN arg : prog[f].params[k] = p]]])

Meaning(prog, input) ==
  LET m == ExecFunction(prog, "main", <<>>,
             [env |-> <<>>, mem |-> <<>>, sp |-> 0, out |-> <<>>, in |-> input,
              fuel |-> Fuel, status |-> "ok", next |-> Running, ret |-> 0])
  IN [out |-> m.out, status |-> m.status, ret |-> m.ret]
===============================================================================
