-------------------------------- MODULE Inliner --------------------------------
(***************************************************************************)
(* FunctionInliner (src/IR_visitor/function_inliner/function_inliner.cpp).  *)
(* Run goes over the functions until a round inlines nothing; in a function *)
(* the calls are tried in program order, each callee at most once.          *)
(***************************************************************************)
EXTENDS IR

CONSTANT MaxInlineInstructions   \* kMaxInlineInstructions

ASSUME MaxInlineAssumption == MaxInlineInstructions \in Nat

VARIABLES
  root,      \* the program: name |-> [params, blocks]
  order,     \* root->functions_: the names in order
  turn,      \* the function of this round that is looked at
  inlined,   \* inline_sets: the callees each function has tried
  fresh,     \* allocators: how many %inline. names each function has used
  grown      \* this round inlined something

inlineVars == <<turn, inlined, fresh, grown>>

CountInstructions(bs) == Cardinality(LivePositions(bs))

FirstOf(ps) == CHOOSE p \in ps : \A q \in ps \ {p} : Before(p, q)

\* The calls of f that are still to be tried.
Sites(f) ==
  {p \in LivePositions(root[f].blocks) :
     LET i == At(root[f].blocks, p)
     IN i.kind = "call" /\ i.op \in DOMAIN root \ ({f} \cup inlined[f])}

\* Mutation: the cloned blocks keep the targets they had in the callee.
CloneKeepsTargets(i, name, base) ==
  LET Rename(x) == IF x \in DOMAIN name THEN name[x] ELSE x
  IN [ReplaceIn(i, Rename) EXCEPT !.res = Rename(@)]

\* CloneInstruction: names and blocks of the callee are mapped.
CloneInstruction(i, name, base) ==
  LET Rename(x) == IF x \in DOMAIN name THEN name[x] ELSE x
  IN [ReplaceIn(i, Rename) EXCEPT !.res = Rename(@), !.to = [k \in DOMAIN @ |-> @[k] + base]]

\* Phase 1: parameters stand for the arguments, every result gets a new name.
NameRemap(callee, call, n) ==
  LET ps == LivePositions(callee.blocks)
      results == {p \in ps : At(callee.blocks, p).res # NoName}
      Number(p) == Cardinality({q \in results : Before(q, p)})
  IN [x \in {At(callee.blocks, p).res : p \in results} |->
        <<"inline", n + Number(CHOOSE p \in results : At(callee.blocks, p).res = x)>>]
     @@ [x \in ToSet(callee.params) |-> call.use[CHOOSE k \in DOMAIN callee.params : callee.params[k] = x]]

\* Phase 4: a return becomes a move to the call's result and a jump.
ReturnTo(cont, call, i) ==
  IF i.kind # "ret" THEN <<i>>
  ELSE <<[i EXCEPT !.removed = TRUE]>>
       \o (IF call.res = NoName \/ i.use = <<>> THEN <<>> ELSE <<Move(call.res, i.use[1])>>)
       \o <<Jump(cont)>>

\* InlineCall: the callee's blocks are cloned behind the caller's, its allocas
\* in front of the entry block, and the block is split behind the call.
InlineCall(f, p) ==
  LET bs == root[f].blocks
      call == At(bs, p)
      callee == root[call.op]
      name == NameRemap(callee, call, fresh[f])
      base == Cardinality(DOMAIN bs)
      n == Cardinality(DOMAIN callee.blocks)
      cont == base + n
      clone == [b \in DOMAIN callee.blocks |->
                  LET live == Live(callee.blocks[b])
                  IN [k \in DOMAIN live |-> CloneInstruction(live[k], name, base)]]
      Body(b) == FlattenSeq([k \in DOMAIN clone[b] |->
                   IF clone[b][k].kind = "alloca" THEN <<>> ELSE ReturnTo(cont, call, clone[b][k])])
      allocas == Reverse(FlattenSeq([k \in 1 .. n |->
                   SelectSeq(clone[k - 1], LAMBDA i : i.kind = "alloca")]))
      after == SubSeq(bs[p[1]].ins, p[2] + 1, Len(bs[p[1]].ins))
      split == [bs EXCEPT ![p[1]].ins = Append(SubSeq(@, 1, p[2] - 1), Jump(base))]
  IN [split EXCEPT ![0].ins = allocas \o @]
     @@ [b \in base .. cont - 1 |-> [phi |-> <<>>, ins |-> Body(b - base)]]
     @@ (cont :> [phi |-> <<>>, ins |-> IF after = <<>> THEN <<Jump(cont)>> ELSE after])

Callee(f) == At(root[f].blocks, FirstOf(Sites(f))).op

Inline ==
  /\ turn \in DOMAIN order
  /\ LET f == order[turn]
     IN /\ Sites(f) # {}
        /\ CountInstructions(root[Callee(f)].blocks) <= MaxInlineInstructions
        /\ root' = [root EXCEPT ![f].blocks = InlineCall(f, FirstOf(Sites(f)))]
        /\ inlined' = [inlined EXCEPT ![f] = @ \cup {Callee(f)}]
        /\ fresh' = [fresh EXCEPT ![f] = @ + CountInstructions(root[Callee(f)].blocks)]
  /\ grown' = TRUE
  /\ UNCHANGED <<order, turn>>

\* A callee that is too large is not tried again.
RefuseInline ==
  /\ turn \in DOMAIN order
  /\ LET f == order[turn]
     IN /\ Sites(f) # {}
        /\ CountInstructions(root[Callee(f)].blocks) > MaxInlineInstructions
        /\ inlined' = [inlined EXCEPT ![f] = @ \cup {Callee(f)}]
  /\ UNCHANGED <<root, order, turn, fresh, grown>>

NextCaller ==
  /\ turn \in DOMAIN order /\ Sites(order[turn]) = {}
  /\ turn' = IF turn = Len(order) /\ grown THEN 1 ELSE turn + 1
  /\ grown' = (turn < Len(order) /\ grown)
  /\ UNCHANGED <<root, order, inlined, fresh>>

InlineStep == Inline \/ RefuseInline \/ NextCaller
===============================================================================
