----------------------------- MODULE MCRegAlloc -----------------------------
(* Functions of three blocks (entry, a loop, exit), as they are after phi      *)
(* elimination and parameter demotion: a is a parameter, p its demoted copy or *)
(* a loop variable, q a loop variable, t and u are temporaries of the loop.    *)
EXTENDS RegAlloc, TLC

CONSTANTS s1, a0, t5, a, p, q, t, u

PoolThree == <<s1, a0, t5>>

Op(d, S)   == [def |-> d, use |-> S, kind |-> "op"]
Move(d, v) == [def |-> d, use |-> {v}, kind |-> "move"]
Call(d, S) == [def |-> d, use |-> S, kind |-> "call"]

Entries ==
  {<<Move(p, a), Op(q, {})>>, <<Op(p, {}), Op(q, {})>>, <<Move(p, a), Move(q, p)>>}

First  == {Op(t, {p}), Op(t, {q}), Call(t, {})}
Second == {Op(u, {p}), Op(u, {t}), Op(u, {q, t})}
Effect == {Call(NoVar, {p}), Call(NoVar, {t}), Op(Mem, {q})}

Bodies ==
  {<<x>> : x \in First}
    \cup {<<x, y>> : x \in First, y \in Second \cup Effect}
    \cup {<<y, x>> : x \in First, y \in Effect}
    \cup {<<x, y, z>> : x \in First, y \in Second, z \in Effect}
    \cup {<<x, z, y>> : x \in First, y \in Second, z \in Effect}

Moves ==
  {<< >>, <<Move(q, t)>>, <<Move(q, u)>>, <<Move(q, p)>>, <<Move(p, t)>>,
   <<Move(q, p), Move(p, t)>>, <<Move(p, t), Move(q, u)>>}

Branches == {Op(NoVar, {}), Op(NoVar, {t})}
Returns  == {Op(NoVar, {p}), Op(NoVar, {q})}

Succs == <<{2}, {2, 3}, {}>>

\* The live-out sets: the least solution, by iteration.
OutOf(c) ==
  LET Out[n \in Nat] ==
        IF n = 0 THEN [b \in Block |-> {}]
        ELSE [b \in Block |->
                UNION {(Out[n - 1][s] \ DefOf(c[s])) \cup UseOf(c[s]) :
                         s \in Succs[b]}]
  IN  Out[NumBlocks + 1]

Function(c) ==
  [code |-> c, succs |-> Succs, out |-> OutOf(c), params |-> (a :> a0),
   reach |-> Block]

\* Every variable is written before it is read, a demoted parameter only once.
AllPrograms ==
  {f \in {Function(<<e, body \o mv \o <<br>>, <<ret>>>>) :
            e \in Entries, body \in Bodies, mv \in Moves, br \in Branches,
            ret \in Returns} :
     /\ LiveInOf(f, 1) \subseteq {a}
     /\ f.code[1][1] = Move(p, a) => p \notin DefOf(f.code[2])}

SafePrograms == {f \in AllPrograms : SpuriousOnly(f)}

ShortPrograms == {f \in SafePrograms : Len(f.code[2]) <= 4}
=============================================================================
