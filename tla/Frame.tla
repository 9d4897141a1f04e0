--------------------------------- MODULE Frame ---------------------------------
(***************************************************************************)
(* Where the variables of a function live: MemoryAllocator puts parameters  *)
(* into registers, ParameterDemoter copies them out of there, RegAlloc      *)
(* gives some variables a register and the rest a slot of the frame         *)
(* (src/IR_visitor/memory_allocator, parameter_demoter, reg_alloc).         *)
(*                                                                         *)
(* Which variables get a register is a choice here: all of them, none or    *)
(* half, and a variable that a move writes between a compare and its branch *)
(* may share its register with an operand of the compare when the two do    *)
(* not interfere.  Colouring is RegAlloc's subject.  A slot, and a cell of  *)
(* an alloca, has size one; an address counts down from the caller's sp.   *)
(***************************************************************************)
EXTENDS Function

CONSTANT ArgRegs   \* parameters passed in registers, 8 in the code

ASSUME ArgRegsAssumption == ArgRegs \in Nat

VARIABLES
  has_calls,   \* has_calls_
  in_register, \* the parameters passed in registers
  same,        \* two variables in one register, or none
  address,     \* variable_storage_: the slot of every variable in memory
  inner,       \* inner_address_ of every alloca
  stack_size   \* stack_size_

frameVars == <<has_calls, in_register, same, address, inner, stack_size>>

\* MemoryAllocator::Visit(IRFunctionNode) and of parameters, all scalars here;
\* removed instructions count as calls too.
AllocateMemory ==
  /\ phase = "emit"
  /\ has_calls' = (Len(params) > ArgRegs
                   \/ \E b \in Blocks : \E i \in ToSet(blocks[b].ins) : i.kind = "call")
  /\ in_register' = {params[k] : k \in 1 .. Min({ArgRegs, Len(params)})}
  /\ phase' = "demote"
  /\ UNCHANGED <<function, same, address, inner, stack_size>>

------------------------------------------------------------------------------
\* ParameterDemoter::RunOnFunction: every use of a parameter in a register
\* becomes a use of its copy, made before anything else.
Demoted(x) == IF x \in in_register THEN <<"mv", CHOOSE k \in DOMAIN params : params[k] = x>> ELSE x
Copies ==
  [k \in 1 .. Cardinality(in_register) |-> Move(Demoted(params[k]), params[k])]
RenameInIns(i) == IF i.removed THEN i ELSE ReplaceIn(i, Demoted)

DemoteParameters ==
  /\ phase = "demote"
  /\ blocks' = [b \in Blocks |->
                  [blocks[b] EXCEPT !.ins = (IF b = 0 THEN Copies ELSE <<>>)
                                            \o [k \in DOMAIN @ |-> RenameInIns(@[k])]]]
  /\ phase' = "slots"
  /\ UNCHANGED <<params, frameVars>>

------------------------------------------------------------------------------
\* Which variables may share a register: neither is written while the other is
\* live, unless by a move from it.
UsedFirst(b, x) ==
  LET live == Live(blocks[b])
      uses == {k \in DOMAIN live : x \in ToSet(live[k].use)}
  IN \E k \in uses : \A j \in 1 .. k - 1 : live[j].res # x

Defines(b, x) == \E i \in ToSet(Live(blocks[b])) : i.res = x

LiveInBlocks(x) ==
  LET Grow(S) == S \cup {b \in Blocks : ~Defines(b, x) /\ Succs(blocks[b]) \cap S # {}}
  IN FoldSet(LAMBDA k, S : Grow(S), {b \in Blocks : UsedFirst(b, x)}, Blocks)

LiveAfter(b, k, x, entries) ==
  LET live == Live(blocks[b])
      Untouched(j) == \A i \in k + 1 .. j : live[i].res # x
  IN \/ \E j \in k + 1 .. Len(live) : x \in ToSet(live[j].use) /\ Untouched(j - 1)
     \/ Untouched(Len(live)) /\ Succs(blocks[b]) \cap entries # {}

WrittenWhileLive(x, y) ==
  LET entries == LiveInBlocks(y)
  IN \/ x \in ToSet(params) /\ 0 \in entries
     \/ \E b \in Blocks : \E k \in DOMAIN Live(blocks[b]) :
          LET i == Live(blocks[b])[k]
          IN /\ i.res = x /\ LiveAfter(b, k, y, entries)
             /\ ~(i.kind = "move" /\ i.use[1] = y)

Interfere(x, y) == WrittenWhileLive(x, y) \/ WrittenWhileLive(y, x)

\* The last compare before the branch that ends the block, with moves between.
LastCompare(live) ==
  LET others == {k \in 1 .. Len(live) - 1 : live[k].kind # "move"}
  IN IF Len(live) < 2 \/ others = {} THEN 0
     ELSE IF Last(live).kind = "br" /\ live[Max(others)].kind = "cmp" THEN Max(others) ELSE 0

MovesBetween(live) == {live[k].res : k \in LastCompare(live) + 1 .. Len(live) - 1}
CompareOperands(live) == {x \in ToSet(live[LastCompare(live)].use) : IsVariable(x)}

Sharable(promoted) ==
  UNION {LET live == Live(blocks[b])
         IN {p \in CompareOperands(live) \X MovesBetween(live) :
               p[1] # p[2] /\ {p[1], p[2]} \subseteq promoted /\ ~Interfere(p[1], p[2])} :
         b \in {c \in Blocks : LastCompare(Live(blocks[c])) # 0}}

------------------------------------------------------------------------------
\* RegAlloc::Visit, step 6.  The order in memory only decides how long the
\* offsets are written: parameters, then allocas, then variables.
Results == {At(blocks, p).res : p \in LivePositions(blocks)} \ {NoName}
Half == {x \in Results : x[2] % 2 = 0}

Base ==
  CASE ~has_calls -> 0
    [] has_calls /\ Len(params) > ArgRegs -> 1 + ArgRegs
    [] has_calls /\ Len(params) <= ArgRegs -> 1 + Cardinality(in_register)

Listed(S) == FoldSet(LAMBDA x, list : Append(list, x), <<>>, S)

\* The addresses of slots of these sizes, the first behind `start'.
Stacked(start, sizes) ==
  [k \in DOMAIN sizes |-> start + FoldLeft(+, 0, SubSeq(sizes, 1, k))]

PlaceVariables ==
  /\ phase = "slots"
  /\ \E spilled \in {{}, Half, Results} :
       LET onStack == SelectSeq(params, LAMBDA x : x \notin in_register)
           allocas == Listed({At(blocks, p) : p \in {q \in LivePositions(blocks) : At(blocks, q).kind = "alloca"}})
           names == onStack \o Listed(spilled)
           sizes == [k \in 1 .. Len(onStack) |-> 1] \o [k \in DOMAIN allocas |-> allocas[k].use[1][2]]
                    \o [k \in 1 .. Cardinality(spilled) |-> 1]
           at == Stacked(Base, sizes)
           Slot(k) == at[IF k <= Len(onStack) THEN k ELSE k + Len(allocas)]
       IN /\ address' = [x \in ToSet(names) |-> Slot(CHOOSE k \in DOMAIN names : names[k] = x)]
          /\ inner' = [x \in {i.res : i \in ToSet(allocas)} |->
                         at[Len(onStack) + CHOOSE k \in DOMAIN allocas : allocas[k].res = x]]
          /\ stack_size' = IF at = <<>> THEN Base ELSE Last(at)
          /\ same' \in {<<>>} \cup Sharable(Results \ spilled)
  /\ phase' = "layout"
  /\ UNCHANGED <<function, has_calls, in_register>>

FrameStep == AllocateMemory \/ DemoteParameters \/ PlaceVariables
===============================================================================
