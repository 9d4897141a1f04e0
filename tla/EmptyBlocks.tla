----------------------------- MODULE EmptyBlocks -----------------------------
(***************************************************************************)
(* EliminateEmptyBlocks                                                     *)
(* (src/IR_visitor/empty_block_eliminator/empty_block_eliminator.cpp): four *)
(* passes that thread control around blocks with nothing but a branch, a    *)
(* move and a jump, a jump, or nothing.  A pass scans the blocks in order   *)
(* with the predecessors it computed before the scan, and starts over while *)
(* a scan changed something; the last pass scans once.                      *)
(***************************************************************************)
EXTENDS Function, Folding

VARIABLES
  preds,     \* predecessors when the scan began, one entry per edge
  from,      \* the scan has reached this block; -1 before a scan
  changed    \* this scan changed something

emptyVars == <<preds, from, changed>>

ScanPasses == <<"branch-only", "move-only", "jump-only", "empty">>

StartEmptyBlocks ==
  /\ phase = "empty-blocks"
  /\ preds' = <<>> /\ from' = -1 /\ changed' = FALSE
  /\ phase' = ScanPasses[1]
  /\ UNCHANGED function

PredSeq(b) ==
  FlattenSeq([k \in 1 .. Cardinality(Blocks) |->
                LET hits == SelectSeq(SuccSeq(blocks[k - 1]), LAMBDA v : v = b)
                IN [j \in DOMAIN hits |-> k - 1]])

StartScan ==
  /\ phase \in ToSet(ScanPasses) /\ from = -1
  /\ preds' = [b \in Blocks |-> PredSeq(b)]
  /\ from' = 1 /\ changed' = FALSE
  /\ UNCHANGED <<function, phase>>

\* The live instructions of a block by kind, and the first of some kind.
Kinds(b) == LET live == Live(blocks[b]) IN [k \in DOMAIN live |-> live[k].kind]
LiveAt(bs, b, P(_)) == {k \in DOMAIN bs[b].ins : ~bs[b].ins[k].removed /\ P(bs[b].ins[k])}
MarkRemoved(bs, b, k) == [bs EXCEPT ![b].ins[k].removed = TRUE]
AppendTo(bs, b, i) == [bs EXCEPT ![b].ins = Append(@, i)]

\* Mutation: only the true target of a branch is redirected.
RedirectTrue(bs, b, old, new) ==
  LET ks == LiveAt(bs, b, LAMBDA i : i.kind \in {"br", "jmp"})
      k == Min(ks)
      to == [bs[b].ins[k].to EXCEPT ![1] = IF @ = old THEN new ELSE @]
      aimed == [bs EXCEPT ![b].ins[k].to = to]
  IN IF ks = {} THEN bs
     ELSE IF Len(to) = 2 /\ to[1] = to[2] THEN AppendTo(MarkRemoved(aimed, b, k), b, Jump(to[1]))
     ELSE aimed

\* The first live branch or jump of block b goes to `new` where it went to
\* `old`; a branch with equal targets becomes a jump.
Redirect(bs, b, old, new) ==
  LET ks == LiveAt(bs, b, LAMBDA i : i.kind \in {"br", "jmp"})
      k == Min(ks)
      to == [j \in DOMAIN bs[b].ins[k].to |-> IF bs[b].ins[k].to[j] = old THEN new ELSE bs[b].ins[k].to[j]]
      aimed == [bs EXCEPT ![b].ins[k].to = to]
  IN IF ks = {} THEN bs
     ELSE IF Len(to) = 2 /\ to[1] = to[2] THEN AppendTo(MarkRemoved(aimed, b, k), b, Jump(to[1]))
     ELSE aimed

\* The block the scan stops at next: nothing changes in between.
Candidate(P(_)) == LET hits == {b \in Blocks : b >= from /\ P(b)} IN IF hits = {} THEN -1 ELSE Min(hits)

Visited(b, bs) ==
  /\ blocks' = bs
  /\ from' = b + 1
  /\ changed' = TRUE
  /\ UNCHANGED <<params, phase, preds>>

------------------------------------------------------------------------------
\* Pass 1.  The branch of the block is copied into every predecessor that
\* jumps here and moves a value into the condition, testing that value.
OtherUse(bs, b, x) ==
  \E p \in LivePositions(bs) :
    \/ At(bs, p).kind = "br" /\ p[1] # b /\ At(bs, p).use[1] = x
    \/ At(bs, p).kind = "move" /\ At(bs, p).use[1] = x

Threads(bs, b, p) ==
  LET br == blocks[b].ins[Min(LiveAt(blocks, b, LAMBDA i : TRUE))]
      jmp == LiveAt(bs, p, LAMBDA i : i.kind = "jmp" /\ i.to[1] = b)
      mv == LiveAt(bs, p, LAMBDA i : i.kind = "move" /\ i.res = br.use[1])
  IN [ok |-> jmp # {} /\ mv # {} /\ ~OtherUse(bs, b, br.use[1]), jmp |-> jmp, mv |-> mv, br |-> br]

ThreadBranchInto(bs, b, p) ==
  LET t == Threads(bs, b, p)
      source == bs[p].ins[Min(t.mv)].use[1]
  IN IF ~t.ok THEN bs
     ELSE MarkRemoved(AppendTo(MarkRemoved(bs, p, Min(t.jmp)), p, Branch(source, t.br.to[1], t.br.to[2])), p, Min(t.mv))

BranchOnly(b) ==
  /\ Kinds(b) = <<"br">>
  /\ \E k \in DOMAIN preds[b] : Threads(blocks, b, preds[b][k]).ok

ThreadBranch ==
  /\ phase = "branch-only" /\ from >= 0 /\ Candidate(BranchOnly) >= 0
  /\ LET b == Candidate(BranchOnly)
         Into(bs, p) == ThreadBranchInto(bs, b, p)
     IN Visited(b, MarkRemoved(FoldByHalves(Into, blocks, preds[b]), b, Min(LiveAt(blocks, b, LAMBDA i : TRUE))))

------------------------------------------------------------------------------
\* Pass 2.  A block with one move and one jump: the move is duplicated into
\* every predecessor.
MoveOnly(b) ==
  LET live == Live(blocks[b])
      mv == live[IF live[1].kind = "move" THEN 1 ELSE 2]
      jmp == live[IF live[1].kind = "jmp" THEN 1 ELSE 2]
  IN /\ Kinds(b) \in {<<"move", "jmp">>, <<"jmp", "move">>}
     /\ jmp.to[1] # b
     /\ \A p \in LivePositions(blocks) :
          p[1] # b => /\ At(blocks, p).res # mv.res
                      /\ p[1] # jmp.to[1] => mv.res \notin ToSet(At(blocks, p).use)

InsertBeforeLast(bs, b, i) == [bs EXCEPT ![b].ins = Front(@) \o <<i, Last(@)>>]

ThreadMove ==
  /\ phase = "move-only" /\ from >= 0 /\ Candidate(MoveOnly) >= 0
  /\ LET b == Candidate(MoveOnly)
         live == LiveAt(blocks, b, LAMBDA i : TRUE)
         mv == blocks[b].ins[CHOOSE k \in live : blocks[b].ins[k].kind = "move"]
         jmp == blocks[b].ins[CHOOSE k \in live : blocks[b].ins[k].kind = "jmp"]
         Into(bs, p) == Redirect(InsertBeforeLast(bs, p, Move(mv.res, mv.use[1])), p, b, jmp.to[1])
     IN Visited(b, MarkRemoved(MarkRemoved(FoldByHalves(Into, blocks, preds[b]), b, Min(live)), b, Max(live)))

------------------------------------------------------------------------------
\* Pass 3.  A block with only a jump: its predecessors go to the end of the
\* chain of such blocks.
JumpOnly(b) == Kinds(b) = <<"jmp">> /\ Live(blocks[b])[1].to[1] # b

RECURSIVE EndOfChain(_, _)
EndOfChain(target, visited) ==
  LET next == Live(blocks[target])[1].to[1]
  IN IF Kinds(target) # <<"jmp">> THEN target
     ELSE IF next = target \/ next \in visited THEN target
     ELSE EndOfChain(next, visited \cup {target})

\* Mutation: the jump of a block that was threaded stays.
ThreadJumpKeeps ==
  /\ phase = "jump-only" /\ from >= 0 /\ Candidate(JumpOnly) >= 0
  /\ LET b == Candidate(JumpOnly)
         target == EndOfChain(Live(blocks[b])[1].to[1], {b})
         Into(bs, p) == Redirect(bs, p, b, target)
     IN Visited(b, FoldByHalves(Into, blocks, preds[b]))

\* Its own jump is removed.
ThreadJump ==
  /\ phase = "jump-only" /\ from >= 0 /\ Candidate(JumpOnly) >= 0
  /\ LET b == Candidate(JumpOnly)
         target == EndOfChain(Live(blocks[b])[1].to[1], {b})
         Into(bs, p) == Redirect(bs, p, b, target)
     IN Visited(b, MarkRemoved(FoldByHalves(Into, blocks, preds[b]), b, Min(LiveAt(blocks, b, LAMBDA i : TRUE))))

------------------------------------------------------------------------------
\* Pass 4.  An empty block leads where its last jump led, although removed.
LastJump(b) == SelectLastInSeq(blocks[b].ins, LAMBDA i : i.kind = "jmp")

RECURSIVE FollowChain(_, _)
FollowChain(b, visited) ==
  LET next == blocks[b].ins[LastJump(b)].to[1]
  IN IF b \in visited \/ Kinds(b) # <<>> \/ LastJump(b) = 0 THEN b
     ELSE IF next = b THEN b
     ELSE FollowChain(next, visited \cup {b})

Empty(b) == Kinds(b) = <<>> /\ preds[b] # <<>> /\ FollowChain(b, {}) # b

SkipEmpty ==
  /\ phase = "empty" /\ from >= 0 /\ Candidate(Empty) >= 0
  /\ LET b == Candidate(Empty)
         Into(bs, p) == Redirect(bs, p, b, FollowChain(b, {}))
     IN Visited(b, FoldByHalves(Into, blocks, preds[b]))

------------------------------------------------------------------------------
Found == CASE phase = "branch-only" -> Candidate(BranchOnly) >= 0
           [] phase = "move-only" -> Candidate(MoveOnly) >= 0
           [] phase = "jump-only" -> Candidate(JumpOnly) >= 0
           [] phase = "empty" -> Candidate(Empty) >= 0

\* The scan is over: again, or on to the next pass.
EndScan ==
  /\ phase \in ToSet(ScanPasses) /\ from >= 0 /\ ~Found
  /\ LET k == CHOOSE n \in DOMAIN ScanPasses : ScanPasses[n] = phase
     IN phase' = IF k = 4 THEN "threaded" ELSE IF changed THEN phase ELSE ScanPasses[k + 1]
  /\ from' = -1
  /\ UNCHANGED <<function, preds, changed>>

EmptyBlocksStep ==
  StartEmptyBlocks \/ StartScan \/ ThreadBranch \/ ThreadMove \/ ThreadJump \/ SkipEmpty \/ EndScan
==============================================================================
