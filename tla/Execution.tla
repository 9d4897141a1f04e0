------------------------------ MODULE Execution ------------------------------
(***************************************************************************)
(* Executions of the function a pass works on.  A configuration is          *)
(* [at, pc, env, trace]: the block, the place in it, the values of the      *)
(* variables assigned so far, and what has been done that is visible from   *)
(* outside: the operands of stores, calls, loads and the like and what they *)
(* gave.  What memory and other functions give is any number.  What Fold    *)
(* computes of constants is what the instruction computes (Pipeline checks  *)
(* that against IRMeaning), and an address is a pointer and a distance in   *)
(* cells.                                                                   *)
(***************************************************************************)
EXTENDS Function, ConstantFolding

Returned == -1   \* at, once the function has returned

Readable(env, x) == IsConstant(x) \/ x \in DOMAIN env
Value(env, x) == IF IsConstant(x) THEN x[2] ELSE env[x]
Values(env, i) == [k \in DOMAIN i.use |-> Value(env, i.use[k])]
Assigned(env, x, v) == [y \in DOMAIN env \cup {x} |-> IF y = x THEN v ELSE env[y]]

\* An instruction can only be executed when what it reads has a value.
CanRead(env, i) == \A k \in DOMAIN i.use : Readable(env, i.use[k])

Address(v) == v[1] + v[2]

IsSilent(i) == Folds(i) \/ IsAddress(i) \/ i.kind = "move"
Results(env, i) ==
  IF Folds(i) THEN {Fold(i, Values(env, i))}
  ELSE IF IsAddress(i) THEN {Address(Values(env, i))}
  ELSE IF i.kind = "move" THEN {Values(env, i)[1]} ELSE IF i.kind = "store" THEN {0} ELSE Int

Skip(i, c, d) ==
  i.removed /\ d.at = c.at /\ d.pc = c.pc + 1 /\ d.env = c.env /\ d.trace = c.trace

Compute(i, c, d) ==
  /\ ~i.removed /\ ~IsTerminator(i) /\ CanRead(c.env, i)
  /\ d.at = c.at /\ d.pc = c.pc + 1
  /\ \E v \in Results(c.env, i) :
       /\ d.env = IF IsTracked(i) THEN Assigned(c.env, i.res, v) ELSE c.env
       /\ d.trace = IF IsSilent(i) THEN c.trace
                    ELSE Append(c.trace, <<i.kind, i.op, Values(c.env, i), v>>)

Finish(i, c, d) ==
  /\ ~i.removed /\ i.kind = "ret" /\ CanRead(c.env, i)
  /\ d.at = Returned /\ d.env = c.env
  /\ d.trace = Append(c.trace, <<i.kind, i.op, Values(c.env, i), 0>>)

\* The phis of the next block are assigned at once, for the edge taken.
Arrive(phis, c, d) ==
  /\ DOMAIN d.env = DOMAIN c.env \cup {phi.res : phi \in phis}
  /\ \A phi \in phis : \E e \in ToSet(phi.val) :
       e[2] = c.at /\ Readable(c.env, e[1]) /\ d.env[phi.res] = Value(c.env, e[1])
  /\ \A x \in DOMAIN c.env : (\A phi \in phis : phi.res # x) => d.env[x] = c.env[x]

Leave(bs, i, c, d) ==
  /\ ~i.removed
  /\ \/ i.kind = "jmp" /\ d.at = i.to[1]
     \/ /\ i.kind = "br" /\ Readable(c.env, i.use[1])
        /\ d.at = i.to[IF Value(c.env, i.use[1]) # 0 THEN 1 ELSE 2]
  /\ d.pc = 1 /\ d.trace = c.trace
  /\ Arrive(ToSet(bs[d.at].phi), c, d)

Step(bs, c, d) ==
  /\ c.at \in DOMAIN bs /\ c.pc \in DOMAIN bs[c.at].ins
  /\ LET i == bs[c.at].ins[c.pc]
     IN Skip(i, c, d) \/ Compute(i, c, d) \/ Finish(i, c, d) \/ Leave(bs, i, c, d)

\* run[0], run[1], ... run[n] is an execution from the entry, for some arguments.
Execution(bs, run, n) ==
  /\ run[0].at = 0 /\ run[0].pc = 1 /\ run[0].trace = << >>
  /\ DOMAIN run[0].env = ToSet(params)
  /\ \A k \in 0 .. n - 1 : Step(bs, run[k], run[k + 1])

Reaches(bs, c) == \E n \in Nat : \E run : Execution(bs, run, n) /\ run[n] = c

\* The instruction in turn reads only what has a value, and so do the phis on the
\* ways it can take; no execution ever reads anything else
\* (DefinitionsDominateUses).
ReadsAt(bs, c) ==
  c.at \in DOMAIN bs /\ c.pc \in DOMAIN bs[c.at].ins =>
    LET i == bs[c.at].ins[c.pc]
    IN ~i.removed =>
         /\ CanRead(c.env, i)
         /\ \A b \in DOMAIN bs : \A phi \in ToSet(bs[b].phi) : \A e \in ToSet(phi.val) :
              i.kind \in {"br", "jmp"} /\ e[2] = c.at => Readable(c.env, e[1])

AlwaysReads(bs) == \A c : Reaches(bs, c) => ReadsAt(bs, c)
===============================================================================
