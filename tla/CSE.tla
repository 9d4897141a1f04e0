--------------------------------- MODULE CSE ---------------------------------
(***************************************************************************)
(* Common address computations of one block (src/IR_visitor/cse/cse.cpp).   *)
(* Renames gathered in one block are applied to the blocks scanned after it *)
(* at once and to all the others by a final sweep.                          *)
(***************************************************************************)
EXTENDS Function

VARIABLES
  renames,     \* a removed result |-> the result that stands for it
  available,   \* key of an address computed in the block |-> its result
  scanned,     \* blocks done in pass 1
  place,       \* the instruction of the next block that comes next
  given        \* history: the blocks as they were before the pass

cseVars == <<renames, available, scanned, place, given>>

Resolve(map, x) == IF x \in DOMAIN map THEN map[x] ELSE x
Extended(map, x, y) == [z \in DOMAIN map \cup {x} |-> IF z = x THEN y ELSE map[z]]

\* Mutation: the index is left out of the key.
KeyWithoutIndex(map, i) == <<i.kind, <<Resolve(map, i.use[1])>>, i.op>>

\* The key of an address: what it is computed from, and the type it counts in.
Key(map, i) == <<i.kind, [k \in DOMAIN i.use |-> Resolve(map, i.use[k])], i.op>>

StartCSE ==
  /\ phase = "cse"
  /\ renames' = <<>> /\ available' = <<>> /\ scanned' = 0 /\ place' = 1
  /\ given' = blocks
  /\ phase' = "scan"
  /\ UNCHANGED function

\* Pass 1: the next instruction of the next block, and what becomes of it.
Scanning == phase = "scan" /\ scanned \in Blocks /\ place \in DOMAIN blocks[scanned].ins
Scanned == blocks[scanned].ins[place]
Renamed == ReplaceIn(Scanned, LAMBDA x : Resolve(renames, x))

Becomes(i) ==
  /\ blocks' = [blocks EXCEPT ![scanned].ins[place] = i]
  /\ place' = place + 1
  /\ UNCHANGED <<params, phase, scanned, given>>

ScanRemoved ==
  /\ Scanning /\ Scanned.removed
  /\ Becomes(Scanned)
  /\ UNCHANGED <<renames, available>>

ScanOther ==
  /\ Scanning /\ ~Scanned.removed /\ ~IsAddress(Scanned)
  /\ Becomes(Renamed)
  /\ UNCHANGED <<renames, available>>

\* The address is there already: its result gets another name.
ShareAddress ==
  /\ Scanning /\ ~Scanned.removed /\ IsAddress(Scanned)
  /\ Key(renames, Renamed) \in DOMAIN available
  /\ Becomes([Renamed EXCEPT !.removed = TRUE])
  /\ renames' = Extended(renames, Scanned.res, available[Key(renames, Renamed)])
  /\ UNCHANGED available

RecordAddress ==
  /\ Scanning /\ ~Scanned.removed /\ IsAddress(Scanned)
  /\ Key(renames, Renamed) \notin DOMAIN available
  /\ Becomes(Renamed)
  /\ available' = Extended(available, Key(renames, Renamed), Scanned.res)
  /\ UNCHANGED renames

\* Mutation: the addresses of a block stay available in the next.
ScanNextBlockKeeps ==
  /\ phase = "scan" /\ scanned \in Blocks /\ place \notin DOMAIN blocks[scanned].ins
  /\ scanned' = scanned + 1 /\ place' = 1
  /\ UNCHANGED <<function, phase, renames, available, given>>

ScanNextBlock ==
  /\ phase = "scan" /\ scanned \in Blocks /\ place \notin DOMAIN blocks[scanned].ins
  /\ scanned' = scanned + 1 /\ place' = 1 /\ available' = <<>>
  /\ UNCHANGED <<function, phase, renames, given>>

\* Pass 2: every block and every phi.
ApplyRenames ==
  /\ phase = "scan" /\ scanned \notin Blocks
  /\ blocks' = [b \in Blocks |-> ReplaceInBlock(blocks[b], LAMBDA x : Resolve(renames, x))]
  /\ phase' = "shared"
  /\ UNCHANGED <<params, cseVars>>

CSEStep ==
  \/ StartCSE
  \/ ScanRemoved \/ ScanOther \/ ShareAddress \/ RecordAddress \/ ScanNextBlock
  \/ ApplyRenames

------------------------------------------------------------------------------
\* What the passes before hand over: instructions as IR.tla describes them,
\* nothing live behind a live terminator, every result defined once, and in its
\* block before it is read there (SSA).
Shapely(bs) ==
  /\ Cardinality(DOMAIN bs) \in Nat /\ DOMAIN bs = 0 .. Cardinality(DOMAIN bs) - 1
  /\ \A b \in DOMAIN bs :
       /\ bs[b] = [phi |-> bs[b].phi, ins |-> bs[b].ins]
       /\ Len(bs[b].ins) \in Nat /\ DOMAIN bs[b].ins = 1 .. Len(bs[b].ins)
       /\ \A i \in ToSet(bs[b].ins) :
            i = [kind |-> i.kind, op |-> i.op, uns |-> i.uns, res |-> i.res, use |-> i.use,
                 to |-> i.to, removed |-> i.removed]
       /\ \A i \in ToSet(bs[b].ins) : ~i.removed =>
            /\ i.kind \in {"jmp", "br"} => i.to[1] \in DOMAIN bs
            /\ i.kind = "br" => i.to[2] \in DOMAIN bs /\ 1 \in DOMAIN i.use
       /\ \A phi \in ToSet(bs[b].phi) : phi = [res |-> phi.res, val |-> phi.val]

SingleAssignment(bs) ==
  /\ \A p, q \in LivePositions(bs) :
       At(bs, p).res = At(bs, q).res => p = q \/ At(bs, p).res = NoName
  /\ \A p \in LivePositions(bs) :
       IsAddress(At(bs, p)) =>
         /\ IsVariable(At(bs, p).res) /\ At(bs, p).res \notin ToSet(params)
         /\ \A b \in DOMAIN bs : \A phi \in ToSet(bs[b].phi) : phi.res # At(bs, p).res

InOrder(bs) ==
  \A p, q \in LivePositions(bs) :
    p[1] = q[1] =>
      /\ IsTerminator(At(bs, p)) => q[2] <= p[2]
      /\ At(bs, q).res \in ToSet(At(bs, p).use) => q[2] < p[2]

InSSAForm(bs) == Shapely(bs) /\ SingleAssignment(bs) /\ InOrder(bs)

\* CSE on any function it can be handed.
CSESpec == phase = "cse" /\ InSSAForm(blocks) /\ [][CSEStep]_<<function, phase, cseVars>>

------------------------------------------------------------------------------
\* Two address computations that are the same once everything is renamed.
SameAddress(i, j) ==
  /\ i.kind = j.kind /\ i.op = j.op /\ DOMAIN i.use = DOMAIN j.use
  /\ \A k \in DOMAIN i.use : Resolve(renames, i.use[k]) = Resolve(renames, j.use[k])

Addresses == {p \in LivePositions(given) : IsAddress(At(given, p))}

\* q computes what p computed before it in the same block, and p keeps its name.
Shares(p, q) ==
  /\ p[1] = q[1] /\ p[2] < q[2]
  /\ At(given, p).res \notin DOMAIN renames
  /\ SameAddress(At(given, p), At(given, q))

\* Every rename is of one computation to an equal one.
RenamesJustified ==
  \A x \in DOMAIN renames : \E p, q \in Addresses :
    /\ At(given, p).res = renames[x] /\ At(given, q).res = x
    /\ Shares(p, q) /\ Before(q, <<scanned, place>>)

\* What is available was computed before in this block.
AvailableJustified ==
  \A key \in DOMAIN available : \E p \in Addresses :
    LET i == At(given, p)
    IN /\ p[1] = scanned /\ p[2] < place
       /\ available[key] = i.res /\ i.res \notin DOMAIN renames
       /\ key[1] = i.kind /\ key[3] = i.op /\ DOMAIN key[2] = DOMAIN i.use
       /\ \A k \in DOMAIN i.use : Resolve(renames, key[2][k]) = Resolve(renames, i.use[k])

\* Operands are as given or renamed, and exactly what has another name is removed.
Rewritten(i, j) ==
  IF i.removed THEN j = i
  ELSE /\ j = [kind |-> i.kind, op |-> i.op, uns |-> i.uns, res |-> i.res, use |-> j.use,
               to |-> i.to, removed |-> i.res \in DOMAIN renames]
       /\ DOMAIN j.use = DOMAIN i.use
       /\ i.res \in DOMAIN renames \/
          \A k \in DOMAIN i.use :
            \/ j.use[k] = Resolve(renames, i.use[k])
            \/ phase = "scan" /\ j.use[k] = i.use[k]

RenamedPhis(phis) ==
  [n \in DOMAIN phis |-> ReplaceInPhi(phis[n], LAMBDA x : Resolve(renames, x))]

BlocksRewritten ==
  /\ DOMAIN blocks = DOMAIN given
  /\ \A b \in DOMAIN given :
       /\ DOMAIN blocks[b].ins = DOMAIN given[b].ins
       /\ blocks[b] = [phi |-> IF phase = "scan" THEN given[b].phi ELSE RenamedPhis(given[b].phi),
                       ins |-> blocks[b].ins]
       /\ \A k \in DOMAIN given[b].ins : Rewritten(given[b].ins[k], blocks[b].ins[k])

\* What CSE keeps while it scans, and leaves: the function it was given with some
\* address computations removed, each equal to one before it in its block whose
\* result is read instead, in phis and other blocks too.  Inductive.
CSEInv ==
  /\ phase = "cse" => InSSAForm(blocks)
  /\ phase \in {"scan", "shared"} =>
       InSSAForm(given) /\ RenamesJustified /\ AvailableJustified /\ BlocksRewritten
==============================================================================
