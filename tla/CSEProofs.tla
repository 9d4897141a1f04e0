------------------------------ MODULE CSEProofs ------------------------------
(* The sharing of addresses is justified on every function it can be handed:  *)
(* every result that gets another name is of a computation equal to one       *)
(* before it in its block; so no execution is lost and none is added.         *)
EXTENDS CSEExecution, WellFoundedInduction, TLAPS

------------------------------------------------------------------------------
(* The function CSE is handed.                                                *)

LEMMA Positions ==
  ASSUME NEW bs
  PROVE  \A p : p \in LivePositions(bs) <=>
           \E b \in DOMAIN bs : \E k \in DOMAIN bs[b].ins : p = <<b, k>> /\ ~bs[b].ins[k].removed
BY DEF LivePositions

LEMMA PositionsAt ==
  ASSUME NEW bs, Shapely(bs), NEW p \in LivePositions(bs)
  PROVE  /\ p = <<p[1], p[2]>> /\ p[1] \in DOMAIN bs /\ p[2] \in DOMAIN bs[p[1]].ins
         /\ p[1] \in Nat /\ p[2] \in Nat /\ p[2] > 0
         /\ At(bs, p) = bs[p[1]].ins[p[2]] /\ ~At(bs, p).removed
         /\ At(bs, p) \in ToSet(bs[p[1]].ins)
<1>0. PICK b \in DOMAIN bs : \E k \in DOMAIN bs[b].ins : p = <<b, k>> /\ ~bs[b].ins[k].removed
  BY Positions
<1>1. PICK k \in DOMAIN bs[b].ins : p = <<b, k>> /\ ~bs[b].ins[k].removed
  BY <1>0
<1>2. p[1] = b /\ p[2] = k
  BY <1>1
<1>3. b \in Nat /\ k \in Nat /\ k > 0
  BY DEF Shapely
<1>4. bs[b].ins[k] \in ToSet(bs[b].ins)
  BY DEF ToSet
<1> QED
  BY <1>1, <1>2, <1>3, <1>4 DEF At

\* The fields of an instruction.
Fields(i) ==
  i = [kind |-> i.kind, op |-> i.op, uns |-> i.uns, res |-> i.res, use |-> i.use,
       to |-> i.to, removed |-> i.removed]

LEMMA UseSet ==
  ASSUME NEW i, NEW use,
         i = [kind |-> i.kind, op |-> i.op, uns |-> i.uns, res |-> i.res, use |-> i.use,
              to |-> i.to, removed |-> i.removed]
  PROVE  [i EXCEPT !.use = use] =
           [kind |-> i.kind, op |-> i.op, uns |-> i.uns, res |-> i.res, use |-> use,
            to |-> i.to, removed |-> i.removed]
  OBVIOUS

LEMMA RemovedSet ==
  ASSUME NEW i, NEW flag,
         i = [kind |-> i.kind, op |-> i.op, uns |-> i.uns, res |-> i.res, use |-> i.use,
              to |-> i.to, removed |-> i.removed]
  PROVE  [i EXCEPT !.removed = flag] =
           [kind |-> i.kind, op |-> i.op, uns |-> i.uns, res |-> i.res, use |-> i.use,
            to |-> i.to, removed |-> flag]
  OBVIOUS

LEMMA GivenFields ==
  ASSUME NEW bs, Shapely(bs), NEW b \in DOMAIN bs, NEW k \in DOMAIN bs[b].ins
  PROVE  Fields(bs[b].ins[k])
<1>1. bs[b].ins[k] \in ToSet(bs[b].ins)
  BY DEF ToSet
<1> QED
  BY <1>1 DEF Shapely, Fields

\* A variable is a name.
LEMMA Named ==
  ASSUME NEW x, IsVariable(x)
  PROVE  x # NoName
<1>1. x[1] # "" /\ NoName[1] = ""
  BY DEF IsVariable, NoName
<1> QED
  BY <1>1

------------------------------------------------------------------------------
(* Renames.                                                                   *)

\* A name that stands for others has no other name itself.
Flat == \A x \in DOMAIN renames : renames[x] \notin DOMAIN renames

LEMMA ResolveTwice ==
  ASSUME Flat, NEW u
  PROVE  Resolve(renames, Resolve(renames, u)) = Resolve(renames, u)
  BY DEF Flat, Resolve

LEMMA JustifiedFlat ==
  ASSUME RenamesJustified
  PROVE  Flat
  BY DEF RenamesJustified, Shares, Flat

LEMMA ResolveExtended ==
  ASSUME Flat, NEW x, NEW y, x \notin DOMAIN renames, y \notin DOMAIN renames, x # y,
         \A z \in DOMAIN renames : renames[z] # x,
         renames' = Extended(renames, x, y), NEW u
  PROVE  /\ DOMAIN renames' = DOMAIN renames \cup {x}
         /\ renames'[x] = y /\ \A z \in DOMAIN renames : renames'[z] = renames[z]
         /\ Resolve(renames', u) = Resolve(renames', Resolve(renames, u))
<1>1. /\ DOMAIN renames' = DOMAIN renames \cup {x}
      /\ renames'[x] = y /\ \A z \in DOMAIN renames : renames'[z] = renames[z]
  BY DEF Extended
<1>2. CASE u \in DOMAIN renames
  <2>1. renames[u] \notin DOMAIN renames'
    BY <1>1, <1>2 DEF Flat
  <2> QED
    BY <1>1, <1>2, <2>1 DEF Resolve
<1>3. CASE u \notin DOMAIN renames
  BY <1>1, <1>3 DEF Resolve
<1> QED
  BY <1>1, <1>2, <1>3

LEMMA SameAddressKept ==
  ASSUME NEW i, NEW j, SameAddress(i, j),
         \A u : Resolve(renames', u) = Resolve(renames', Resolve(renames, u))
  PROVE  SameAddress(i, j)'
  BY DEF SameAddress

------------------------------------------------------------------------------
(* One instruction of pass 1.                                                 *)

\* The instruction in turn and the one it was: live, they are alike, and its
\* result has no other name yet.
LEMMA Turn ==
  ASSUME CSEInv, Scanning
  PROVE  /\ Shapely(given) /\ SingleAssignment(given) /\ InOrder(given) /\ Flat
         /\ scanned \in DOMAIN given /\ place \in DOMAIN given[scanned].ins
         /\ scanned \in Nat /\ place \in Nat
         /\ Fields(given[scanned].ins[place])
         /\ Rewritten(given[scanned].ins[place], Scanned) /\ Fields(Scanned)
<1>1. phase = "scan" /\ scanned \in DOMAIN blocks /\ place \in DOMAIN blocks[scanned].ins
  BY DEF Scanning, Blocks
<1>2. InSSAForm(given) /\ RenamesJustified /\ BlocksRewritten
  BY <1>1 DEF CSEInv
<1>3. scanned \in DOMAIN given /\ place \in DOMAIN given[scanned].ins
  BY <1>1, <1>2 DEF BlocksRewritten
<1>4. Shapely(given) /\ scanned \in Nat /\ place \in Nat
  BY <1>2, <1>3 DEF InSSAForm, Shapely
<1>5. Fields(given[scanned].ins[place])
  BY <1>3, <1>4, GivenFields
<1>6. Rewritten(given[scanned].ins[place], Scanned)
  BY <1>2, <1>3 DEF BlocksRewritten, Scanned
<1>7. Fields(Scanned)
  <2> DEFINE i == given[scanned].ins[place]
             j == Scanned
  <2>1. CASE i.removed
    BY <1>5, <1>6, <2>1 DEF Rewritten
  <2>2. CASE ~i.removed
    <3>1. PICK flag : j = [kind |-> i.kind, op |-> i.op, uns |-> i.uns, res |-> i.res, use |-> j.use,
                           to |-> i.to, removed |-> flag]
      BY <1>6, <2>2 DEF Rewritten
    <3> HIDE DEF i, j
    <3>2. Fields(j)
      BY <3>1 DEF Fields
    <3> QED
      BY <3>2 DEF j
  <2> QED
    BY <2>1, <2>2
<1> QED
  BY <1>2, <1>3, <1>4, <1>5, <1>6, <1>7, JustifiedFlat DEF InSSAForm

LEMMA LiveTurn ==
  ASSUME CSEInv, Scanning, ~Scanned.removed, NEW i, i = given[scanned].ins[place]
  PROVE  /\ ~i.removed /\ i.res \notin DOMAIN renames /\ i.res = Scanned.res /\ i.kind = Scanned.kind
         /\ <<scanned, place>> \in LivePositions(given) /\ At(given, <<scanned, place>>) = i
         /\ Renamed = [kind |-> i.kind, op |-> i.op, uns |-> i.uns, res |-> i.res,
                       use |-> Renamed.use, to |-> i.to, removed |-> FALSE]
         /\ DOMAIN Renamed.use = DOMAIN i.use
         /\ \A k \in DOMAIN i.use : Renamed.use[k] = Resolve(renames, i.use[k])
<1> DEFINE j == Scanned
           use == [k \in DOMAIN j.use |-> Resolve(renames, j.use[k])]
<1>1. /\ Flat /\ scanned \in DOMAIN given /\ place \in DOMAIN given[scanned].ins
      /\ Fields(i) /\ Rewritten(i, j) /\ Fields(j)
  BY Turn
<1>2. ~i.removed
  BY <1>1 DEF Rewritten
<1>3. /\ j = [kind |-> i.kind, op |-> i.op, uns |-> i.uns, res |-> i.res, use |-> j.use,
               to |-> i.to, removed |-> i.res \in DOMAIN renames]
      /\ DOMAIN j.use = DOMAIN i.use
      /\ i.res \in DOMAIN renames \/
         \A k \in DOMAIN i.use : \/ j.use[k] = Resolve(renames, i.use[k])
                                 \/ phase = "scan" /\ j.use[k] = i.use[k]
  BY <1>1, <1>2 DEF Rewritten
<1>4. <<scanned, place>> \in LivePositions(given) /\ At(given, <<scanned, place>>) = i
  BY <1>1, <1>2, Positions DEF At
<1>5. Renamed = [j EXCEPT !.use = use]
  BY DEF Renamed, ReplaceIn
<1>0. ~j.removed
  OBVIOUS
<1> HIDE DEF j
<1>6. j.kind = i.kind /\ j.op = i.op /\ j.uns = i.uns /\ j.res = i.res /\ j.to = i.to
      /\ j.removed = (i.res \in DOMAIN renames)
  BY <1>3
<1>7. i.res \notin DOMAIN renames /\ j.removed = FALSE
  <2>1. i.res \notin DOMAIN renames
    BY <1>0, <1>6
  <2>2. (i.res \in DOMAIN renames) = FALSE
    BY <2>1
  <2> QED
    BY <1>6, <2>1, <2>2
<1> HIDE DEF use
<1>8. [j EXCEPT !.use = use] =
        [kind |-> j.kind, op |-> j.op, uns |-> j.uns, res |-> j.res, use |-> use,
         to |-> j.to, removed |-> j.removed]
  BY <1>1, UseSet DEF Fields
<1>9. Renamed = [kind |-> i.kind, op |-> i.op, uns |-> i.uns, res |-> i.res, use |-> use,
                 to |-> i.to, removed |-> FALSE]
  BY <1>5, <1>6, <1>7, <1>8
<1>10. Renamed.use = use
  BY <1>9
<1>11. DOMAIN use = DOMAIN i.use /\ \A k \in DOMAIN i.use : use[k] = Resolve(renames, j.use[k])
  BY <1>3 DEF use
<1>12. ASSUME NEW k \in DOMAIN i.use PROVE use[k] = Resolve(renames, i.use[k])
  BY <1>1, <1>3, <1>7, <1>11, ResolveTwice
<1> QED
  BY <1>2, <1>4, <1>6, <1>7, <1>9, <1>10, <1>11, <1>12 DEF j

\* What the instruction in turn becomes, and what all the others stay.
LEMMA BlocksKept ==
  ASSUME CSEInv, Scanning, NEW n, Becomes(n),
         NEW i, i = given[scanned].ins[place], Rewritten(i, n)',
         \A b \in DOMAIN given : \A k \in DOMAIN given[b].ins : \A g, j :
           <<b, k>> # <<scanned, place>> /\ g = given[b].ins[k] /\ Rewritten(g, j) =>
             Rewritten(g, j)'
  PROVE  BlocksRewritten'
<1>1. /\ phase = "scan" /\ phase' = "scan" /\ given' = given
      /\ blocks' = [blocks EXCEPT ![scanned].ins[place] = n]
  BY DEF Scanning, Becomes
<1>2. BlocksRewritten
  BY <1>1 DEF CSEInv
<1>3. DOMAIN blocks' = DOMAIN blocks
  BY <1>1
<1>4. ASSUME NEW b \in DOMAIN given
      PROVE  /\ DOMAIN blocks'[b].ins = DOMAIN given[b].ins
             /\ blocks'[b] = [phi |-> given[b].phi, ins |-> blocks'[b].ins]
             /\ \A k \in DOMAIN given[b].ins : \A g, j :
                  g = given[b].ins[k] /\ j = blocks'[b].ins[k] => Rewritten(g, j)'
  <2>1. /\ DOMAIN blocks[b].ins = DOMAIN given[b].ins
        /\ blocks[b] = [phi |-> given[b].phi, ins |-> blocks[b].ins]
        /\ \A k \in DOMAIN given[b].ins : Rewritten(given[b].ins[k], blocks[b].ins[k])
        /\ b \in DOMAIN blocks
    BY <1>1, <1>2 DEF BlocksRewritten
  <2>2. CASE b # scanned
    <3>1. blocks'[b] = blocks[b]
      BY <1>1, <2>1, <2>2
    <3>2. ASSUME NEW k \in DOMAIN given[b].ins, NEW g, NEW j, g = given[b].ins[k], j = blocks[b].ins[k]
          PROVE  Rewritten(g, j)'
      <4>1. Rewritten(g, j) /\ <<b, k>> # <<scanned, place>>
        BY <2>1, <2>2, <3>2
      <4> QED
        BY <3>2, <4>1
    <3> QED
      BY <1>1, <2>1, <3>1, <3>2
  <2>3. CASE b = scanned
    <3> DEFINE ins == [blocks[b].ins EXCEPT ![place] = n]
    <3>1. blocks'[b] = [blocks[b] EXCEPT !.ins = ins]
      BY <1>1, <2>1, <2>3
    <3>2. DOMAIN ins = DOMAIN given[b].ins
      BY <2>1
    <3>3. \A k \in DOMAIN given[b].ins : ins[k] = IF k = place THEN n ELSE blocks[b].ins[k]
      BY <2>1
    <3> HIDE DEF ins
    <3>4. [blocks[b] EXCEPT !.ins = ins] = [phi |-> given[b].phi, ins |-> ins]
      BY <2>1
    <3>5. blocks'[b] = [phi |-> given[b].phi, ins |-> ins] /\ blocks'[b].ins = ins
      BY <3>1, <3>4
    <3>6. ASSUME NEW k \in DOMAIN given[b].ins, NEW g, NEW j, g = given[b].ins[k], j = ins[k]
          PROVE  Rewritten(g, j)'
      <4>1. CASE k = place
        BY <2>3, <3>3, <3>6, <4>1
      <4>2. CASE k # place
        <5>1. Rewritten(g, j) /\ <<b, k>> # <<scanned, place>>
          BY <2>1, <3>3, <3>6, <4>2
        <5> QED
          BY <3>6, <5>1
      <4> QED
        BY <4>1, <4>2
    <3> QED
      BY <1>1, <3>2, <3>5, <3>6
  <2> QED
    BY <2>2, <2>3
<1> QED
  BY <1>1, <1>2, <1>3, <1>4 DEF BlocksRewritten

\* While nothing gets another name, what has one stays justified.
LEMMA JustifiedLater ==
  ASSUME RenamesJustified, Shapely(given), renames' = renames, given' = given,
         scanned \in Nat,
         \/ scanned' = scanned /\ place \in Nat /\ place' = place + 1
         \/ scanned' = scanned + 1 /\ place' = 1
  PROVE  RenamesJustified'
<1>1. Addresses' = Addresses /\ \A p \in Addresses : p[1] \in Nat /\ p[2] \in Nat
  <2>1. \A p \in Addresses : p[1] \in Nat /\ p[2] \in Nat
    BY PositionsAt DEF Addresses
  <2> QED
    BY <2>1 DEF Addresses
<1>2. \A p, q : Shares(p, q)' <=> Shares(p, q)
  BY DEF Shares, SameAddress
<1>3. ASSUME NEW q \in Addresses, Before(q, <<scanned, place>>)
      PROVE  Before(q, <<scanned', place'>>)
  BY <1>1, <1>3 DEF Before
<1>4. ASSUME NEW x \in DOMAIN renames
      PROVE  \E p, q \in Addresses :
               /\ At(given, p).res = renames[x] /\ At(given, q).res = x
               /\ Shares(p, q)' /\ Before(q, <<scanned', place'>>)
  <2>1. PICK p, q \in Addresses :
          /\ At(given, p).res = renames[x] /\ At(given, q).res = x
          /\ Shares(p, q) /\ Before(q, <<scanned, place>>)
    BY DEF RenamesJustified
  <2> QED
    BY <1>2, <1>3, <2>1
<1> QED
  BY <1>1, <1>4 DEF RenamesJustified

LEMMA JustifiedStill ==
  ASSUME RenamesJustified, renames' = renames, given' = given, scanned' = scanned, place' = place
  PROVE  RenamesJustified'
<1>1. Addresses' = Addresses
  BY DEF Addresses
<1>2. \A p, q : Shares(p, q)' <=> Shares(p, q)
  BY DEF Shares, SameAddress
<1>3. \A x \in DOMAIN renames : \E p, q \in Addresses :
        /\ At(given, p).res = renames[x] /\ At(given, q).res = x
        /\ Shares(p, q)' /\ Before(q, <<scanned, place>>)
  BY <1>2 DEF RenamesJustified
<1> QED
  BY <1>1, <1>3 DEF RenamesJustified

\* What is available of an address: its name, and that it is what key says.
Computes(p, key) ==
  LET i == At(given, p)
  IN /\ p[1] = scanned /\ p[2] < place
     /\ available[key] = i.res /\ i.res \notin DOMAIN renames
     /\ key[1] = i.kind /\ key[3] = i.op /\ DOMAIN key[2] = DOMAIN i.use
     /\ \A k \in DOMAIN i.use : Resolve(renames, key[2][k]) = Resolve(renames, i.use[k])

LEMMA AvailableLater ==
  ASSUME AvailableJustified, Shapely(given), renames' = renames, given' = given,
         available' = available, scanned' = scanned, place \in Nat, place' = place + 1
  PROVE  AvailableJustified'
<1>1. Addresses' = Addresses /\ \A p \in Addresses : p[2] \in Nat
  <2>1. \A p \in Addresses : p[2] \in Nat
    BY PositionsAt DEF Addresses
  <2> QED
    BY <2>1 DEF Addresses
<1>2. ASSUME NEW p \in Addresses, NEW key, Computes(p, key)
      PROVE  Computes(p, key)'
  BY <1>1, <1>2 DEF Computes
<1>3. \A key \in DOMAIN available : \E p \in Addresses : Computes(p, key)
  BY DEF AvailableJustified, Computes
<1>4. \A key \in DOMAIN available' : \E p \in Addresses' : Computes(p, key)'
  BY <1>1, <1>2, <1>3
<1> QED
  BY <1>4 DEF AvailableJustified, Computes

\* An instruction that gives no result another name.
LEMMA PlainStep ==
  ASSUME CSEInv, Scanning, NEW n, Becomes(n), renames' = renames, AvailableJustified',
         NEW i, i = given[scanned].ins[place], Rewritten(i, n)'
  PROVE  CSEInv'
<1>1. /\ phase = "scan" /\ phase' = "scan" /\ given' = given /\ params' = params
      /\ scanned' = scanned /\ place' = place + 1
  BY DEF Scanning, Becomes
<1>2. /\ InSSAForm(given) /\ RenamesJustified
      /\ Shapely(given) /\ scanned \in Nat /\ place \in Nat
  BY <1>1, Turn DEF CSEInv
<1>3. RenamesJustified'
  BY <1>1, <1>2, JustifiedLater
<1>4. \A g, j : Rewritten(g, j) => Rewritten(g, j)'
  BY <1>1 DEF Rewritten
<1>5. BlocksRewritten'
  BY <1>4, BlocksKept
<1>6. InSSAForm(given)'
  BY <1>1, <1>2 DEF InSSAForm, SingleAssignment
<1> QED
  BY <1>1, <1>3, <1>5, <1>6 DEF CSEInv

LEMMA ScanRemovedInv ==
  ASSUME CSEInv, ScanRemoved
  PROVE  CSEInv'
<1>1. /\ Scanning /\ Becomes(Scanned) /\ renames' = renames /\ available' = available
      /\ phase = "scan" /\ phase' = "scan" /\ given' = given
      /\ scanned' = scanned /\ place' = place + 1
  BY DEF ScanRemoved, Scanning, Becomes
<1>2. AvailableJustified'
  <2>1. AvailableJustified
    BY <1>1 DEF CSEInv
  <2> QED
    BY <1>1, <2>1, Turn, AvailableLater
<1> DEFINE i == given[scanned].ins[place]
           n == Scanned
<1>3. Rewritten(i, n)
  BY <1>1, Turn
<1> HIDE DEF i, n
<1>4. ASSUME NEW g, NEW j, g = i, j = n PROVE Rewritten(g, j)'
  BY <1>1, <1>3, <1>4 DEF Rewritten
<1>5. ASSUME NEW g, NEW j, g = i, j = n PROVE CSEInv'
  <2>1. g = given[scanned].ins[place] /\ Becomes(j)
    BY <1>1, <1>5 DEF i, n
  <2>2. Rewritten(g, j)'
    BY <1>4, <1>5
  <2> QED
    BY <1>1, <1>2, <2>1, <2>2, PlainStep
<1> QED
  BY <1>5

\* The instruction in turn with its operands renamed is as it has to be.
LEMMA RenamedRight ==
  ASSUME CSEInv, Scanning, ~Scanned.removed, NEW g, NEW j, g = given[scanned].ins[place],
         j = Renamed, renames' = renames, phase' = "scan"
  PROVE  Rewritten(g, j)'
<1>1. /\ ~g.removed /\ g.res \notin DOMAIN renames
      /\ j = [kind |-> g.kind, op |-> g.op, uns |-> g.uns, res |-> g.res,
              use |-> j.use, to |-> g.to, removed |-> FALSE]
      /\ DOMAIN j.use = DOMAIN g.use
      /\ \A k \in DOMAIN g.use : j.use[k] = Resolve(renames, g.use[k])
  BY LiveTurn
<1>2. (g.res \in DOMAIN renames) = FALSE
  BY <1>1
<1>3. j = [kind |-> g.kind, op |-> g.op, uns |-> g.uns, res |-> g.res,
           use |-> j.use, to |-> g.to, removed |-> g.res \in DOMAIN renames]
  BY <1>1, <1>2
<1> QED
  BY <1>1, <1>3 DEF Rewritten

LEMMA ScanOtherInv ==
  ASSUME CSEInv, ScanOther
  PROVE  CSEInv'
<1>1. /\ Scanning /\ Becomes(Renamed) /\ renames' = renames /\ available' = available
      /\ phase = "scan" /\ phase' = "scan" /\ given' = given
      /\ scanned' = scanned /\ place' = place + 1 /\ ~Scanned.removed
  BY DEF ScanOther, Scanning, Becomes
<1>2. AvailableJustified'
  <2>1. AvailableJustified
    BY <1>1 DEF CSEInv
  <2> QED
    BY <1>1, <2>1, Turn, AvailableLater
<1>3. ASSUME NEW g, NEW j, g = given[scanned].ins[place], j = Renamed PROVE CSEInv'
  <2>1. Rewritten(g, j)'
    BY <1>1, <1>3, RenamedRight
  <2>2. Becomes(j)
    BY <1>1, <1>3
  <2> QED
    BY <1>1, <1>2, <1>3, <2>1, <2>2, PlainStep
<1> QED
  BY <1>3

\* The key of the address in turn.
LEMMA KeyOfTurn ==
  ASSUME CSEInv, Scanning, ~Scanned.removed, NEW i, i = given[scanned].ins[place],
         NEW key, key = Key(renames, Renamed)
  PROVE  /\ key[1] = i.kind /\ key[3] = i.op /\ DOMAIN key[2] = DOMAIN i.use
         /\ \A k \in DOMAIN i.use : key[2][k] = Resolve(renames, i.use[k])
         /\ \A k \in DOMAIN i.use : Resolve(renames, key[2][k]) = Resolve(renames, i.use[k])
<1>1. /\ Renamed.kind = i.kind /\ Renamed.op = i.op
      /\ DOMAIN Renamed.use = DOMAIN i.use /\ Flat
      /\ \A k \in DOMAIN i.use : Renamed.use[k] = Resolve(renames, i.use[k])
  <2>1. /\ Renamed = [kind |-> i.kind, op |-> i.op, uns |-> i.uns, res |-> i.res,
                      use |-> Renamed.use, to |-> i.to, removed |-> FALSE]
        /\ DOMAIN Renamed.use = DOMAIN i.use
        /\ \A k \in DOMAIN i.use : Renamed.use[k] = Resolve(renames, i.use[k])
    BY LiveTurn
  <2>2. Renamed.kind = i.kind /\ Renamed.op = i.op
    BY <2>1
  <2> QED
    BY <2>1, <2>2, Turn
<1> DEFINE use == [k \in DOMAIN Renamed.use |-> Resolve(renames, Renamed.use[k])]
<1>2. key = <<Renamed.kind, use, Renamed.op>>
  BY DEF Key
<1>3. DOMAIN use = DOMAIN i.use /\ \A k \in DOMAIN i.use : use[k] = Resolve(renames, i.use[k])
  BY <1>1, ResolveTwice
<1> HIDE DEF use
<1>4. key[1] = i.kind /\ key[2] = use /\ key[3] = i.op
  BY <1>1, <1>2
<1> QED
  BY <1>1, <1>3, <1>4, ResolveTwice

LEMMA RecordAddressInv ==
  ASSUME CSEInv, RecordAddress
  PROVE  CSEInv'
<1> DEFINE new == Key(renames, Renamed)
           turn == <<scanned, place>>
           i == given[scanned].ins[place]
<1>1. /\ Scanning /\ Becomes(Renamed) /\ renames' = renames /\ ~Scanned.removed
      /\ available' = Extended(available, new, Scanned.res) /\ IsAddress(Scanned)
      /\ phase = "scan" /\ phase' = "scan" /\ given' = given
      /\ scanned' = scanned /\ place' = place + 1
  BY DEF RecordAddress, Scanning, Becomes
<1>2. /\ AvailableJustified /\ Shapely(given) /\ scanned \in Nat /\ place \in Nat
  BY <1>1, Turn DEF CSEInv
<1>3. /\ turn \in LivePositions(given) /\ At(given, turn) = i
      /\ i.res \notin DOMAIN renames /\ i.res = Scanned.res /\ i.kind = Scanned.kind
  BY <1>1, LiveTurn
<1>4. turn \in Addresses /\ turn[1] = scanned /\ turn[2] = place
  BY <1>1, <1>3 DEF Addresses, IsAddress
<1>5. /\ new[1] = i.kind /\ new[3] = i.op /\ DOMAIN new[2] = DOMAIN i.use
      /\ \A k \in DOMAIN i.use : Resolve(renames, new[2][k]) = Resolve(renames, i.use[k])
  BY <1>1, KeyOfTurn
<1>6. /\ DOMAIN available' = DOMAIN available \cup {new} /\ available'[new] = i.res
      /\ \A key \in DOMAIN available : key # new => available'[key] = available[key]
  BY <1>1, <1>3 DEF Extended
<1>7. Addresses' = Addresses /\ \A p \in Addresses : p[2] \in Nat
  <2>1. \A p \in Addresses : p[2] \in Nat
    BY <1>2, PositionsAt DEF Addresses
  <2> QED
    BY <1>1, <2>1 DEF Addresses
<1> HIDE DEF new, turn, i
<1>8. ASSUME NEW key \in DOMAIN available' PROVE \E p \in Addresses' : Computes(p, key)'
  <2>1. CASE key = new
    <3>1. /\ turn[1] = scanned' /\ turn[2] < place'
          /\ available'[key] = i.res /\ i.res \notin DOMAIN renames'
          /\ key[1] = i.kind /\ key[3] = i.op /\ DOMAIN key[2] = DOMAIN i.use
          /\ \A k \in DOMAIN i.use : Resolve(renames', key[2][k]) = Resolve(renames', i.use[k])
      BY <1>1, <1>2, <1>3, <1>4, <1>5, <1>6, <2>1
    <3>2. At(given', turn) = i
      BY <1>1, <1>3
    <3>3. \A p : p = turn => Computes(p, key)'
      BY <3>1, <3>2 DEF Computes
    <3> QED
      BY <1>4, <1>7, <3>3
  <2>2. CASE key # new
    <3>1. PICK p \in Addresses : Computes(p, key)
      BY <1>2, <1>6, <2>2 DEF AvailableJustified, Computes
    <3>2. Computes(p, key)'
      BY <1>1, <1>2, <1>6, <1>7, <2>2, <3>1 DEF Computes
    <3> QED
      BY <1>7, <3>2
  <2> QED
    BY <2>1, <2>2
<1>9. AvailableJustified'
  BY <1>8 DEF AvailableJustified, Computes
<1>10. ASSUME NEW g, NEW j, g = given[scanned].ins[place], j = Renamed PROVE CSEInv'
  <2>1. Rewritten(g, j)'
    BY <1>1, <1>10, RenamedRight
  <2>2. Becomes(j)
    BY <1>1, <1>10
  <2> QED
    BY <1>1, <1>9, <1>10, <2>1, <2>2, PlainStep
<1> QED
  BY <1>10

\* A result of an address is the result of nothing else.
LEMMA OnlyOne ==
  ASSUME SingleAssignment(given), NEW p \in Addresses, NEW q \in LivePositions(given),
         At(given, p).res = At(given, q).res
  PROVE  p = q
<1>1. p \in LivePositions(given) /\ IsVariable(At(given, p).res)
  BY DEF Addresses, SingleAssignment
<1>2. At(given, p).res # NoName
  BY <1>1, Named
<1> QED
  BY <1>1, <1>2 DEF SingleAssignment

\* The shared address in turn: its result x is renamed to y, which stands before it.
LEMMA Shared ==
  ASSUME CSEInv, ShareAddress, NEW x, x = Scanned.res,
         NEW y, y = available[Key(renames, Renamed)]
  PROVE  /\ \E p \in Addresses :
              /\ At(given, p).res = y /\ p[1] = scanned /\ p[2] < place
              /\ SameAddress(At(given, p), At(given, <<scanned, place>>))
         /\ <<scanned, place>> \in Addresses /\ At(given, <<scanned, place>>).res = x
         /\ x # y /\ x \notin DOMAIN renames /\ y \notin DOMAIN renames
         /\ \A z \in DOMAIN renames : renames[z] # x
<1> DEFINE new == Key(renames, Renamed)
           turn == <<scanned, place>>
           i == given[scanned].ins[place]
<1>1. Scanning /\ ~Scanned.removed /\ IsAddress(Scanned) /\ phase = "scan" /\ new \in DOMAIN available
  BY DEF ShareAddress, Scanning
<1>2. /\ AvailableJustified /\ RenamesJustified /\ Shapely(given) /\ SingleAssignment(given)
      /\ scanned \in Nat /\ place \in Nat
  BY <1>1, Turn DEF CSEInv
<1>3. /\ turn \in LivePositions(given) /\ At(given, turn) = i
      /\ i.res \notin DOMAIN renames /\ i.res = x /\ i.kind = Scanned.kind
  BY <1>1, LiveTurn
<1>4. turn \in Addresses /\ turn[1] = scanned /\ turn[2] = place
  BY <1>1, <1>3 DEF Addresses, IsAddress
<1>5. /\ new[1] = i.kind /\ new[3] = i.op /\ DOMAIN new[2] = DOMAIN i.use
      /\ \A k \in DOMAIN i.use : Resolve(renames, new[2][k]) = Resolve(renames, i.use[k])
  BY <1>1, KeyOfTurn
<1> HIDE DEF new, turn, i
<1>6. PICK p \in Addresses : Computes(p, new)
  BY <1>1, <1>2 DEF AvailableJustified, Computes
<1>7. available[new] = y
  BY DEF new
<1>8. /\ p[1] = scanned /\ p[2] < place
      /\ At(given, p).res = y /\ y \notin DOMAIN renames
      /\ new[1] = At(given, p).kind /\ new[3] = At(given, p).op
      /\ DOMAIN new[2] = DOMAIN At(given, p).use
      /\ \A k \in DOMAIN At(given, p).use :
           Resolve(renames, new[2][k]) = Resolve(renames, At(given, p).use[k])
  BY <1>6, <1>7 DEF Computes
<1>9. SameAddress(At(given, p), i)
  BY <1>5, <1>8 DEF SameAddress
<1>10. x # y
  <2>1. p # turn
    BY <1>2, <1>4, <1>8
  <2> QED
    BY <1>2, <1>3, <1>8, <2>1, OnlyOne
<1>11. ASSUME NEW z \in DOMAIN renames PROVE renames[z] # x
  <2>1. PICK o \in Addresses : \E q \in Addresses :
          At(given, o).res = renames[z] /\ Shares(o, q) /\ Before(q, <<scanned, place>>)
    BY <1>2 DEF RenamesJustified
  <2>2. PICK q \in Addresses :
          At(given, o).res = renames[z] /\ Shares(o, q) /\ Before(q, <<scanned, place>>)
    BY <2>1
  <2>3. o[1] = q[1] /\ o[2] < q[2] /\ (q[1] < scanned \/ (q[1] = scanned /\ q[2] < place))
    BY <2>2 DEF Shares, Before
  <2>4. o[1] \in Nat /\ o[2] \in Nat /\ q[1] \in Nat /\ q[2] \in Nat
    BY <1>2, PositionsAt DEF Addresses
  <2>5. o # turn
    BY <1>2, <1>4, <2>3, <2>4
  <2> QED
    BY <1>2, <1>3, <2>2, <2>5, OnlyOne
<1> QED
  BY <1>3, <1>4, <1>8, <1>9, <1>10, <1>11 DEF turn

LEMMA ShareAddressInv ==
  ASSUME CSEInv, ShareAddress
  PROVE  CSEInv'
<1> DEFINE turn == <<scanned, place>>
           i == given[scanned].ins[place]
           n == [Renamed EXCEPT !.removed = TRUE]
           x == Scanned.res
           y == available[Key(renames, Renamed)]
<1>1. /\ Scanning /\ ~Scanned.removed /\ IsAddress(Scanned) /\ Becomes(n)
      /\ renames' = Extended(renames, x, y) /\ available' = available
      /\ phase = "scan" /\ phase' = "scan" /\ given' = given /\ params' = params
      /\ scanned' = scanned /\ place' = place + 1
  BY DEF ShareAddress, Scanning, Becomes
<1>2. /\ AvailableJustified /\ RenamesJustified /\ InSSAForm(given) /\ Shapely(given)
      /\ SingleAssignment(given) /\ scanned \in Nat /\ place \in Nat /\ Flat
  BY <1>1, Turn DEF CSEInv
<1>3. /\ \E p \in Addresses :
           /\ At(given, p).res = y /\ p[1] = scanned /\ p[2] < place
           /\ SameAddress(At(given, p), At(given, turn))
      /\ turn \in Addresses /\ At(given, turn).res = x
      /\ x # y /\ x \notin DOMAIN renames /\ y \notin DOMAIN renames
      /\ \A z \in DOMAIN renames : renames[z] # x
  BY Shared
<1>4. /\ turn \in LivePositions(given) /\ At(given, turn) = i /\ ~i.removed /\ i.res = x
      /\ Renamed = [kind |-> i.kind, op |-> i.op, uns |-> i.uns, res |-> i.res,
                    use |-> Renamed.use, to |-> i.to, removed |-> FALSE]
      /\ DOMAIN Renamed.use = DOMAIN i.use /\ turn[1] = scanned /\ turn[2] = place
  BY <1>1, LiveTurn
<1> HIDE DEF turn, i, n, x, y
<1>5. /\ DOMAIN renames' = DOMAIN renames \cup {x}
      /\ renames'[x] = y /\ \A z \in DOMAIN renames : renames'[z] = renames[z]
      /\ \A u : Resolve(renames', u) = Resolve(renames', Resolve(renames, u))
  BY <1>1, <1>2, <1>3, ResolveExtended
<1>6. /\ Addresses' = Addresses
      /\ \A p \in Addresses : p[1] \in Nat /\ p[2] \in Nat /\ p \in LivePositions(given)
  <2>1. \A p \in Addresses : p[1] \in Nat /\ p[2] \in Nat /\ p \in LivePositions(given)
    BY <1>2, PositionsAt DEF Addresses
  <2> QED
    BY <1>1, <2>1 DEF Addresses
<1>7. RenamesJustified'
  <2> SUFFICES ASSUME NEW z \in DOMAIN renames'
               PROVE  \E p, q \in Addresses :
                        /\ At(given, p).res = renames'[z] /\ At(given, q).res = z
                        /\ Shares(p, q)' /\ Before(q, <<scanned', place'>>)
    BY <1>1, <1>6 DEF RenamesJustified
  <2>1. CASE z = x
    <3>1. PICK p \in Addresses :
            /\ At(given, p).res = y /\ p[1] = scanned /\ p[2] < place
            /\ SameAddress(At(given, p), At(given, turn))
      BY <1>3
    <3>2. \A g, j : SameAddress(g, j) => SameAddress(g, j)'
      BY <1>5, SameAddressKept
    <3>3. \A g, j : g = At(given, p) /\ j = At(given, turn) => SameAddress(g, j)'
      BY <3>1, <3>2
    <3>4. y \notin DOMAIN renames'
      BY <1>3, <1>5
    <3>5. \A q : q = turn => Shares(p, q)'
      BY <1>1, <1>4, <3>1, <3>3, <3>4 DEF Shares
    <3>6. Before(turn, <<scanned', place'>>)
      BY <1>1, <1>2, <1>4 DEF Before
    <3> QED
      BY <1>3, <1>5, <2>1, <3>1, <3>5, <3>6
  <2>2. CASE z # x
    <3>0. z \in DOMAIN renames /\ renames'[z] = renames[z]
      BY <1>5, <2>2
    <3>1. PICK p, q \in Addresses :
            /\ At(given, p).res = renames[z] /\ At(given, q).res = z
            /\ Shares(p, q) /\ Before(q, <<scanned, place>>)
      BY <1>2, <3>0 DEF RenamesJustified
    <3>2. \A g, j : SameAddress(g, j) => SameAddress(g, j)'
      BY <1>5, SameAddressKept
    <3>3. \A g, j : g = At(given, p) /\ j = At(given, q) => SameAddress(g, j)'
      BY <3>1, <3>2 DEF Shares
    <3>4. renames[z] \notin DOMAIN renames'
      BY <1>2, <1>3, <1>5, <3>0 DEF Flat
    <3>5. Shares(p, q)'
      BY <1>1, <3>1, <3>3, <3>4 DEF Shares
    <3>6. Before(q, <<scanned', place'>>)
      BY <1>1, <1>2, <1>6, <3>1 DEF Before
    <3> QED
      BY <3>0, <3>1, <3>5, <3>6
  <2> QED
    BY <2>1, <2>2
<1>8. AvailableJustified'
  <2>1. ASSUME NEW key \in DOMAIN available PROVE \E p \in Addresses : Computes(p, key)'
    <3>1. PICK p \in Addresses : Computes(p, key)
      BY <1>2 DEF AvailableJustified, Computes
    <3>2. p[2] < place /\ p # turn
      BY <1>2, <1>4, <1>6, <3>1 DEF Computes
    <3>3. At(given, p).res # x
      BY <1>2, <1>3, <1>6, <3>2, OnlyOne
    <3>4. /\ p[1] = scanned' /\ p[2] < place'
          /\ available'[key] = At(given', p).res /\ At(given', p).res \notin DOMAIN renames'
      BY <1>1, <1>2, <1>5, <1>6, <3>1, <3>2, <3>3 DEF Computes
    <3>5. /\ key[1] = At(given', p).kind /\ key[3] = At(given', p).op
          /\ DOMAIN key[2] = DOMAIN At(given', p).use
          /\ \A k \in DOMAIN At(given', p).use :
               Resolve(renames', key[2][k]) = Resolve(renames', At(given', p).use[k])
      <4>1. /\ key[1] = At(given, p).kind /\ key[3] = At(given, p).op
            /\ DOMAIN key[2] = DOMAIN At(given, p).use
            /\ \A k \in DOMAIN At(given, p).use :
                 Resolve(renames, key[2][k]) = Resolve(renames, At(given, p).use[k])
        BY <3>1 DEF Computes
      <4>2. \A u, v : Resolve(renames, u) = Resolve(renames, v) => Resolve(renames', u) = Resolve(renames', v)
        BY <1>5
      <4> QED
        BY <1>1, <4>1, <4>2
    <3> QED
      BY <3>4, <3>5 DEF Computes
  <2> QED
    BY <1>1, <1>6, <2>1 DEF AvailableJustified, Computes
<1>9. ASSUME NEW g, NEW j, g = i, j = n PROVE Rewritten(g, j)'
  <2>1. n = [kind |-> i.kind, op |-> i.op, uns |-> i.uns, res |-> i.res,
             use |-> Renamed.use, to |-> i.to, removed |-> TRUE]
    <3> DEFINE r == Renamed
    <3>1. r = [kind |-> i.kind, op |-> i.op, uns |-> i.uns, res |-> i.res,
                    use |-> r.use, to |-> i.to, removed |-> FALSE]
      BY <1>4
    <3>2. n = [r EXCEPT !.removed = TRUE]
      BY DEF n
    <3>3. r.use = Renamed.use
      OBVIOUS
    <3> HIDE DEF r
    <3>4. r = [kind |-> r.kind, op |-> r.op, uns |-> r.uns, res |-> r.res,
               use |-> r.use, to |-> r.to, removed |-> r.removed]
      BY <3>1
    <3>5. n = [kind |-> r.kind, op |-> r.op, uns |-> r.uns, res |-> r.res,
               use |-> r.use, to |-> r.to, removed |-> TRUE]
      BY <3>2, <3>4, RemovedSet
    <3>6. r.kind = i.kind /\ r.op = i.op /\ r.uns = i.uns /\ r.res = i.res /\ r.to = i.to
      BY <3>1
    <3> QED
      BY <3>3, <3>5, <3>6
  <2>2. n.use = Renamed.use
    BY <2>1
  <2>3. i.res \in DOMAIN renames' /\ (i.res \in DOMAIN renames') = TRUE
    BY <1>4, <1>5
  <2>4. j = [kind |-> g.kind, op |-> g.op, uns |-> g.uns, res |-> g.res,
             use |-> j.use, to |-> g.to, removed |-> g.res \in DOMAIN renames']
    BY <1>9, <2>1, <2>2, <2>3
  <2> QED
    BY <1>4, <1>9, <2>2, <2>3, <2>4 DEF Rewritten
<1>10. ASSUME NEW b \in DOMAIN given, NEW k \in DOMAIN given[b].ins, NEW g, NEW j,
              <<b, k>> # turn, g = given[b].ins[k], Rewritten(g, j)
       PROVE  Rewritten(g, j)'
  <2>1. CASE g.removed
    BY <1>10, <2>1 DEF Rewritten
  <2>2. CASE ~g.removed
    <3>1. <<b, k>> \in LivePositions(given) /\ At(given, <<b, k>>) = g
      BY <1>10, <2>2, Positions DEF At
    <3>2. g.res # x
      BY <1>2, <1>3, <1>10, <3>1, OnlyOne
    <3>3. (g.res \in DOMAIN renames') = (g.res \in DOMAIN renames)
      BY <1>5, <3>2
    <3>4. ASSUME NEW u PROVE Resolve(renames, u) = Resolve(renames', u) \/ Resolve(renames, u) = u
      BY <1>5 DEF Resolve
    <3>5. /\ j = [kind |-> g.kind, op |-> g.op, uns |-> g.uns, res |-> g.res, use |-> j.use,
                  to |-> g.to, removed |-> g.res \in DOMAIN renames]
          /\ DOMAIN j.use = DOMAIN g.use
          /\ g.res \in DOMAIN renames \/
             \A m \in DOMAIN g.use :
               j.use[m] = Resolve(renames, g.use[m]) \/ j.use[m] = g.use[m]
      BY <1>10, <2>2 DEF Rewritten
    <3>6. j = [kind |-> g.kind, op |-> g.op, uns |-> g.uns, res |-> g.res, use |-> j.use,
               to |-> g.to, removed |-> g.res \in DOMAIN renames']
      BY <3>3, <3>5
    <3>7. g.res \in DOMAIN renames' \/
          \A m \in DOMAIN g.use :
            j.use[m] = Resolve(renames', g.use[m]) \/ j.use[m] = g.use[m]
      BY <3>3, <3>4, <3>5
    <3> QED
      BY <1>1, <2>2, <3>5, <3>6, <3>7 DEF Rewritten
  <2> QED
    BY <2>1, <2>2
<1>11. ASSUME NEW g, NEW j, g = i, j = n PROVE BlocksRewritten'
  <2>1. g = given[scanned].ins[place] /\ Becomes(j) /\ Rewritten(g, j)'
    BY <1>1, <1>9, <1>11 DEF i
  <2>2. \A b \in DOMAIN given : \A k \in DOMAIN given[b].ins : \A o, r :
           <<b, k>> # <<scanned, place>> /\ o = given[b].ins[k] /\ Rewritten(o, r) =>
             Rewritten(o, r)'
    BY <1>10 DEF turn
  <2> QED
    BY <1>1, <2>1, <2>2, BlocksKept
<1>12. InSSAForm(given)'
  BY <1>1, <1>2 DEF InSSAForm, SingleAssignment
<1> QED
  BY <1>1, <1>7, <1>8, <1>11, <1>12 DEF CSEInv

LEMMA ScanNextBlockInv ==
  ASSUME CSEInv, ScanNextBlock
  PROVE  CSEInv'
<1>1. /\ phase = "scan" /\ phase' = "scan" /\ scanned \in DOMAIN blocks /\ given' = given
      /\ blocks' = blocks /\ params' = params /\ renames' = renames /\ available' = <<>>
      /\ scanned' = scanned + 1 /\ place' = 1
  BY DEF ScanNextBlock, function, Blocks
<1>2. InSSAForm(given) /\ RenamesJustified /\ BlocksRewritten /\ Shapely(given)
  BY <1>1 DEF CSEInv, InSSAForm
<1>3. scanned \in Nat
  BY <1>1, <1>2 DEF BlocksRewritten, Shapely
<1>4. RenamesJustified'
  BY <1>1, <1>2, <1>3, JustifiedLater
<1>5. BlocksRewritten'
  BY <1>1, <1>2 DEF BlocksRewritten, Rewritten, RenamedPhis
<1>6. AvailableJustified'
  BY <1>1 DEF AvailableJustified
<1>7. InSSAForm(given)'
  BY <1>1, <1>2 DEF InSSAForm, SingleAssignment
<1> QED
  BY <1>1, <1>4, <1>5, <1>6, <1>7 DEF CSEInv

LEMMA ApplyRenamesInv ==
  ASSUME CSEInv, ApplyRenames
  PROVE  CSEInv'
<1>1. /\ phase = "scan" /\ phase' = "shared" /\ params' = params /\ renames' = renames
      /\ available' = available /\ scanned' = scanned /\ place' = place /\ given' = given
      /\ DOMAIN blocks' = DOMAIN blocks
      /\ \A b \in DOMAIN blocks :
           blocks'[b] = ReplaceInBlock(blocks[b], LAMBDA x : Resolve(renames, x))
  BY DEF ApplyRenames, cseVars, Blocks
<1>2. /\ InSSAForm(given) /\ RenamesJustified /\ AvailableJustified /\ BlocksRewritten
      /\ Shapely(given) /\ Flat
  BY <1>1, JustifiedFlat DEF CSEInv, InSSAForm
<1>3. ASSUME NEW b \in DOMAIN given
      PROVE  /\ DOMAIN blocks'[b].ins = DOMAIN given[b].ins
             /\ \A q : q = given[b].phi =>
                  blocks'[b] = [phi |-> RenamedPhis(q)', ins |-> blocks'[b].ins]
             /\ \A k \in DOMAIN given[b].ins : \A g, j :
                  g = given[b].ins[k] /\ j = blocks'[b].ins[k] => Rewritten(g, j)'
  <2>1. /\ DOMAIN blocks[b].ins = DOMAIN given[b].ins /\ b \in DOMAIN blocks
        /\ blocks[b] = [phi |-> given[b].phi, ins |-> blocks[b].ins]
        /\ \A k \in DOMAIN given[b].ins : Rewritten(given[b].ins[k], blocks[b].ins[k])
    BY <1>1, <1>2 DEF BlocksRewritten
  <2> DEFINE ins == [k \in DOMAIN blocks[b].ins |->
                       IF blocks[b].ins[k].removed THEN blocks[b].ins[k]
                       ELSE ReplaceIn(blocks[b].ins[k], LAMBDA x : Resolve(renames, x))]
             phis == [n \in DOMAIN blocks[b].phi |->
                       ReplaceInPhi(blocks[b].phi[n], LAMBDA x : Resolve(renames, x))]
  <2>2. blocks'[b] = [phi |-> phis, ins |-> ins]
    BY <1>1, <2>1 DEF ReplaceInBlock
  <2>3. blocks[b].phi = given[b].phi
    BY <2>1
  <2>4. ASSUME NEW q, q = blocks[b].phi PROVE phis = RenamedPhis(q)'
    BY <1>1, <2>4 DEF RenamedPhis, ReplaceInPhi, Resolve
  <2>5. DOMAIN ins = DOMAIN given[b].ins
    BY <2>1
  <2>6. ASSUME NEW k \in DOMAIN given[b].ins, NEW g, NEW h, NEW j,
               g = given[b].ins[k], h = blocks[b].ins[k], j = ins[k]
        PROVE  Rewritten(g, j)'
    <3>1. /\ Rewritten(g, h)
          /\ j = IF h.removed THEN h ELSE ReplaceIn(h, LAMBDA x : Resolve(renames, x))
      BY <2>1, <2>6
    <3> HIDE DEF ins, phis
    <3>3. CASE g.removed
      BY <3>1, <3>3 DEF Rewritten
    <3>4. CASE ~g.removed
      <4>1. /\ h = [kind |-> g.kind, op |-> g.op, uns |-> g.uns, res |-> g.res, use |-> h.use,
                    to |-> g.to, removed |-> g.res \in DOMAIN renames]
            /\ DOMAIN h.use = DOMAIN g.use
            /\ g.res \in DOMAIN renames \/
               \A m \in DOMAIN g.use :
                 h.use[m] = Resolve(renames, g.use[m]) \/ h.use[m] = g.use[m]
        BY <3>1, <3>4 DEF Rewritten
      <4>2. h.removed = (g.res \in DOMAIN renames)
        BY <4>1
      <4>3. CASE g.res \in DOMAIN renames
        BY <1>1, <3>1, <3>4, <4>1, <4>2, <4>3 DEF Rewritten
      <4>4. CASE g.res \notin DOMAIN renames
        <5> DEFINE use == [m \in DOMAIN h.use |-> Resolve(renames, h.use[m])]
        <5>1. j = [h EXCEPT !.use = use]
          BY <3>1, <4>2, <4>4 DEF ReplaceIn
        <5>2. /\ DOMAIN use = DOMAIN g.use
              /\ \A m \in DOMAIN g.use : use[m] = Resolve(renames, g.use[m])
          BY <1>2, <4>1, <4>4, ResolveTwice
        <5> HIDE DEF use
        <5>3. /\ h.kind = g.kind /\ h.op = g.op /\ h.uns = g.uns /\ h.res = g.res /\ h.to = g.to
              /\ h.removed = (g.res \in DOMAIN renames)
          BY <4>1
        <5>4. h = [kind |-> h.kind, op |-> h.op, uns |-> h.uns, res |-> h.res, use |-> h.use,
                   to |-> h.to, removed |-> h.removed]
          BY <4>1, <5>3
        <5>5. j = [kind |-> h.kind, op |-> h.op, uns |-> h.uns, res |-> h.res, use |-> use,
                   to |-> h.to, removed |-> h.removed]
          BY <5>1, <5>4, UseSet
        <5>6. j.use = use
          BY <5>5
        <5>7. j = [kind |-> g.kind, op |-> g.op, uns |-> g.uns, res |-> g.res, use |-> j.use,
                   to |-> g.to, removed |-> g.res \in DOMAIN renames]
          BY <5>3, <5>5, <5>6
        <5> QED
          BY <1>1, <3>4, <5>2, <5>6, <5>7 DEF Rewritten
      <4> QED
        BY <4>3, <4>4
    <3> QED
      BY <3>3, <3>4
  <2> HIDE DEF ins, phis
  <2>7. blocks'[b].ins = ins
    BY <2>2
  <2> QED
    BY <2>2, <2>3, <2>4, <2>5, <2>6, <2>7
<1>4. BlocksRewritten'
  BY <1>1, <1>2, <1>3 DEF BlocksRewritten
<1>5. RenamesJustified'
  BY <1>1, <1>2, JustifiedStill
<1>6. AvailableJustified'
  BY <1>1, <1>2 DEF AvailableJustified, Addresses
<1>7. InSSAForm(given)'
  BY <1>1, <1>2 DEF InSSAForm, SingleAssignment
<1> QED
  BY <1>1, <1>4, <1>5, <1>6, <1>7 DEF CSEInv

LEMMA StartCSEInv ==
  ASSUME CSEInv, StartCSE
  PROVE  CSEInv'
<1>1. /\ phase = "cse" /\ phase' = "scan" /\ given' = blocks /\ blocks' = blocks
      /\ params' = params /\ renames' = <<>> /\ available' = <<>>
  BY DEF StartCSE, function
<1>2. InSSAForm(blocks)
  BY <1>1 DEF CSEInv
<1>3. InSSAForm(given)'
  BY <1>1, <1>2 DEF InSSAForm, SingleAssignment
<1>4. RenamesJustified' /\ AvailableJustified'
  BY <1>1 DEF RenamesJustified, AvailableJustified
<1>5. ASSUME NEW b \in DOMAIN blocks
      PROVE  /\ blocks[b] = [phi |-> blocks[b].phi, ins |-> blocks[b].ins]
             /\ \A k \in DOMAIN blocks[b].ins : \A g, j :
                  g = blocks[b].ins[k] /\ j = blocks[b].ins[k] => Rewritten(g, j)'
  <2>1. blocks[b] = [phi |-> blocks[b].phi, ins |-> blocks[b].ins]
    BY <1>2 DEF InSSAForm, Shapely
  <2>2. ASSUME NEW k \in DOMAIN blocks[b].ins, NEW g, g = blocks[b].ins[k] PROVE Rewritten(g, g)'
    <3>1. CASE g.removed
      BY <3>1 DEF Rewritten
    <3>2. CASE ~g.removed
      <4>1. Fields(g)
        BY <1>2, <2>2, GivenFields DEF InSSAForm
      <4>2. (g.res \in DOMAIN renames') = FALSE
        BY <1>1
      <4>3. g.removed = FALSE
        BY <3>2
      <4>4. g = [kind |-> g.kind, op |-> g.op, uns |-> g.uns, res |-> g.res, use |-> g.use,
                 to |-> g.to, removed |-> g.res \in DOMAIN renames']
        BY <4>1, <4>2, <4>3 DEF Fields
      <4> QED
        BY <1>1, <3>2, <4>4 DEF Rewritten
    <3> QED
      BY <3>1, <3>2
  <2> QED
    BY <2>1, <2>2
<1>6. BlocksRewritten'
  BY <1>1, <1>5 DEF BlocksRewritten
<1> QED
  BY <1>1, <1>3, <1>4, <1>6 DEF CSEInv

LEMMA CSEStutter ==
  ASSUME CSEInv, UNCHANGED <<function, phase, cseVars>>
  PROVE  CSEInv'
<1>1. /\ blocks' = blocks /\ params' = params /\ phase' = phase /\ renames' = renames
      /\ available' = available /\ scanned' = scanned /\ place' = place /\ given' = given
  BY DEF function, cseVars
<1>2. phase = "cse" => InSSAForm(blocks)'
  BY <1>1 DEF CSEInv, InSSAForm, SingleAssignment
<1>3. CASE phase \in {"scan", "shared"}
  <2>1. InSSAForm(given) /\ RenamesJustified /\ AvailableJustified /\ BlocksRewritten
    BY <1>3 DEF CSEInv
  <2>2. InSSAForm(given)'
    BY <1>1, <2>1 DEF InSSAForm, SingleAssignment
  <2>3. RenamesJustified'
    BY <1>1, <2>1, JustifiedStill
  <2>4. AvailableJustified'
    BY <1>1, <2>1 DEF AvailableJustified, Addresses
  <2>5. BlocksRewritten'
    <3>1. \A g, j : Rewritten(g, j) => Rewritten(g, j)'
      BY <1>1 DEF Rewritten
    <3>2. \A q : RenamedPhis(q)' = RenamedPhis(q)
      BY <1>1 DEF RenamedPhis, ReplaceInPhi, Resolve
    <3>3. \A b \in DOMAIN given : \A k \in DOMAIN given[b].ins : \A g, j :
            g = given[b].ins[k] /\ j = blocks[b].ins[k] => Rewritten(g, j)'
      BY <2>1, <3>1 DEF BlocksRewritten
    <3>4. \A b \in DOMAIN given : \A q : q = given[b].phi => RenamedPhis(q)' = RenamedPhis(given[b].phi)
      BY <3>2
    <3> QED
      BY <1>1, <2>1, <3>3, <3>4 DEF BlocksRewritten
  <2> QED
    BY <1>1, <1>2, <2>2, <2>3, <2>4, <2>5 DEF CSEInv
<1> QED
  BY <1>1, <1>2, <1>3 DEF CSEInv

\* CSE only ever removes an address that is equal to one computed before it in its
\* block, and only renames its result to that one's, in any function in SSA form.
THEOREM Sharing == CSESpec => []CSEInv
<1>1. phase = "cse" /\ InSSAForm(blocks) => CSEInv
  BY DEF CSEInv
<1>2. CSEInv /\ [CSEStep]_<<function, phase, cseVars>> => CSEInv'
  <2> SUFFICES ASSUME CSEInv, [CSEStep]_<<function, phase, cseVars>> PROVE CSEInv'
    OBVIOUS
  <2>1. CASE StartCSE
    BY <2>1, StartCSEInv
  <2>2. CASE ScanRemoved
    BY <2>2, ScanRemovedInv
  <2>3. CASE ScanOther
    BY <2>3, ScanOtherInv
  <2>4. CASE ShareAddress
    BY <2>4, ShareAddressInv
  <2>5. CASE RecordAddress
    BY <2>5, RecordAddressInv
  <2>6. CASE ScanNextBlock
    BY <2>6, ScanNextBlockInv
  <2>7. CASE ApplyRenames
    BY <2>7, ApplyRenamesInv
  <2>8. CASE UNCHANGED <<function, phase, cseVars>>
    BY <2>8, CSEStutter
  <2> QED
    BY <2>1, <2>2, <2>3, <2>4, <2>5, <2>6, <2>7, <2>8 DEF CSEStep
<1> QED
  BY <1>1, <1>2, PTL DEF CSESpec

------------------------------------------------------------------------------
(* Executions of the given function and of the one that is left.              *)

Left == CSEInv /\ phase = "shared"

LEMMA LeftFacts ==
  ASSUME Left
  PROVE  /\ Shapely(given) /\ SingleAssignment(given) /\ InOrder(given)
         /\ RenamesJustified /\ Flat /\ DOMAIN blocks = DOMAIN given
         /\ \A p \in Addresses : p \in LivePositions(given) /\ p[1] \in Nat /\ p[2] \in Nat /\ p[2] > 0
<1>1. InSSAForm(given) /\ RenamesJustified /\ BlocksRewritten
  BY DEF Left, CSEInv
<1>2. \A p \in Addresses : p \in LivePositions(given) /\ p[1] \in Nat /\ p[2] \in Nat /\ p[2] > 0
  BY <1>1, PositionsAt DEF Addresses, InSSAForm
<1> QED
  BY <1>1, <1>2, JustifiedFlat DEF InSSAForm, BlocksRewritten

\* Which results have another name, and what is known of the two.
LEMMA Renames ==
  ASSUME Left, NEW x \in DOMAIN renames
  PROVE  /\ IsVariable(x) /\ IsVariable(renames[x]) /\ x \notin ToSet(params)
         /\ \A b \in DOMAIN given : \A phi \in ToSet(given[b].phi) :
              phi.res # x /\ phi.res # renames[x]
         /\ \E p, q \in Addresses : At(given, p).res = renames[x] /\ At(given, q).res = x /\ Shares(p, q)
<1>1. PICK p, q \in Addresses : At(given, p).res = renames[x] /\ At(given, q).res = x /\ Shares(p, q)
  BY LeftFacts DEF RenamesJustified
<1>2. /\ p \in LivePositions(given) /\ IsAddress(At(given, p))
      /\ q \in LivePositions(given) /\ IsAddress(At(given, q))
  BY DEF Addresses
<1> QED
  BY <1>1, <1>2, LeftFacts DEF SingleAssignment

\* Where an execution of the given function is in good order: the addresses this
\* block has computed are still what they were computed from, and a removed result
\* is the one that stands for it, unless it is left from an earlier visit.
Good(c) ==
  /\ c.pc \in Nat
  /\ \A p \in Addresses : p[1] = c.at /\ p[2] < c.pc =>
       /\ At(given, p).res \in DOMAIN c.env /\ CanRead(c.env, At(given, p))
       /\ c.env[At(given, p).res] = Address(Values(c.env, At(given, p)))
  /\ \A x \in DOMAIN renames : x \in DOMAIN c.env =>
       /\ renames[x] \in DOMAIN c.env
       /\ \/ c.env[x] = c.env[renames[x]]
          \/ \E q \in Addresses : At(given, q).res = x /\ q[1] = c.at /\ c.pc <= q[2]

\* An operand that is not computed later in this block.
Settled(c, u) == \A q \in Addresses : At(given, q).res = u /\ q[1] = c.at => q[2] < c.pc

LEMMA ResolvedValue ==
  ASSUME Left, NEW c, Good(c), NEW u, Readable(c.env, u), Settled(c, u)
  PROVE  /\ Readable(c.env, Resolve(renames, u)) /\ Resolve(renames, u) \notin DOMAIN renames
         /\ Value(c.env, Resolve(renames, u)) = Value(c.env, u)
<1>1. CASE u \in DOMAIN renames
  <2>1. ~IsConstant(u) /\ ~IsConstant(renames[u])
    BY <1>1, Renames DEF IsVariable, IsConstant
  <2>2. u \in DOMAIN c.env
    BY <2>1 DEF Readable
  <2>3. \A q \in Addresses : At(given, q).res = u /\ q[1] = c.at => ~(c.pc <= q[2])
    BY LeftFacts DEF Settled, Good
  <2>4. renames[u] \in DOMAIN c.env /\ c.env[u] = c.env[renames[u]]
    BY <1>1, <2>2, <2>3 DEF Good
  <2>5. renames[u] \notin DOMAIN renames
    BY <1>1, LeftFacts DEF Flat
  <2> QED
    BY <1>1, <2>1, <2>4, <2>5 DEF Resolve, Readable, Value
<1>2. CASE u \notin DOMAIN renames
  BY <1>2 DEF Resolve
<1> QED
  BY <1>1, <1>2

\* What an instruction up to here reads is settled.
LEMMA ReadSettled ==
  ASSUME Left, NEW c, c.pc \in Nat, NEW p \in LivePositions(given), p[1] = c.at, p[2] <= c.pc,
         NEW u \in ToSet(At(given, p).use)
  PROVE  Settled(c, u)
<1>1. p[2] \in Nat
  BY LeftFacts, PositionsAt
<1> SUFFICES ASSUME NEW q \in Addresses, At(given, q).res = u, q[1] = c.at PROVE q[2] < c.pc
  BY DEF Settled
<1>2. q[2] < p[2] /\ q[2] \in Nat
  BY LeftFacts DEF InOrder
<1> QED
  BY <1>1, <1>2

\* At a terminator everything is settled.
LEMMA AllSettled ==
  ASSUME Left, NEW c, c.pc \in Nat, <<c.at, c.pc>> \in LivePositions(given),
         IsTerminator(At(given, <<c.at, c.pc>>)), NEW u
  PROVE  Settled(c, u)
<1> SUFFICES ASSUME NEW q \in Addresses, At(given, q).res = u, q[1] = c.at PROVE q[2] < c.pc
  BY DEF Settled
<1> DEFINE r == <<c.at, c.pc>>
<1>1. r[1] = c.at /\ r[2] = c.pc /\ r \in LivePositions(given)
  OBVIOUS
<1> HIDE DEF r
<1>2. q[2] <= c.pc /\ q[2] \in Nat /\ IsTerminator(At(given, r))
  BY <1>1, LeftFacts DEF InOrder, r
<1>3. q # r
  BY <1>2 DEF Addresses, IsAddress, IsTerminator
<1>4. q = <<q[1], q[2]>>
  BY LeftFacts, PositionsAt
<1>5. q[2] # c.pc
  BY <1>1, <1>3, <1>4 DEF r
<1> QED
  BY <1>2, <1>5

LEMMA GoodSkip ==
  ASSUME Left, NEW c, Good(c), NEW d, c.at \in DOMAIN given, c.pc \in DOMAIN given[c.at].ins,
         Skip(given[c.at].ins[c.pc], c, d)
  PROVE  Good(d)
<1>1. /\ d.at = c.at /\ d.pc = c.pc + 1 /\ d.env = c.env /\ c.pc \in Nat
      /\ given[c.at].ins[c.pc].removed
  BY DEF Skip, Good
<1>2. ASSUME NEW p \in Addresses, p[1] = c.at PROVE p[2] # c.pc /\ p[2] \in Nat
  <2>1. p \in LivePositions(given) /\ p[2] \in Nat
    BY LeftFacts
  <2>2. ~given[p[1]].ins[p[2]].removed
    BY <2>1, LeftFacts, PositionsAt
  <2> QED
    BY <1>1, <1>2, <2>1, <2>2
<1>3. ASSUME NEW p \in Addresses, p[1] = c.at
      PROVE  (p[2] < c.pc + 1 => p[2] < c.pc) /\ (c.pc <= p[2] => c.pc + 1 <= p[2])
  BY <1>1, <1>2, <1>3
<1> QED
  BY <1>1, <1>3 DEF Good

\* Two addresses, one shared with the other, that are both settled are equal.
LEMMA SharedValue ==
  ASSUME Left, NEW c, Good(c), NEW p \in Addresses, NEW q \in Addresses, Shares(p, q),
         q[1] = c.at, q[2] = c.pc, CanRead(c.env, At(given, q))
  PROVE  /\ At(given, p).res \in DOMAIN c.env
         /\ c.env[At(given, p).res] = Address(Values(c.env, At(given, q)))
<1> DEFINE i == At(given, p)
           j == At(given, q)
<1>1. p[1] = c.at /\ p[2] < c.pc /\ SameAddress(i, j)
  BY DEF Shares
<1>2. i.res \in DOMAIN c.env /\ CanRead(c.env, i) /\ c.env[i.res] = Address(Values(c.env, i))
  BY <1>1 DEF Good
<1>3. c.pc \in Nat /\ p \in LivePositions(given) /\ q \in LivePositions(given) /\ p[2] \in Nat
  BY LeftFacts DEF Good
<1>4. ASSUME NEW k \in DOMAIN i.use PROVE Value(c.env, i.use[k]) = Value(c.env, j.use[k])
  <2>1. k \in DOMAIN j.use /\ Resolve(renames, i.use[k]) = Resolve(renames, j.use[k])
    BY <1>1 DEF SameAddress
  <2>2. i.use[k] \in ToSet(i.use) /\ j.use[k] \in ToSet(j.use)
    BY <2>1 DEF ToSet
  <2>3. Settled(c, i.use[k])
    BY <1>1, <1>3, <2>2, ReadSettled
  <2>4. Settled(c, j.use[k])
    BY <1>3, <2>2, ReadSettled
  <2>5. Readable(c.env, i.use[k]) /\ Readable(c.env, j.use[k])
    BY <1>2, <2>1 DEF CanRead
  <2> HIDE DEF i, j
  <2>6. Value(c.env, Resolve(renames, i.use[k])) = Value(c.env, i.use[k])
    BY <2>3, <2>5, ResolvedValue
  <2>7. Value(c.env, Resolve(renames, j.use[k])) = Value(c.env, j.use[k])
    BY <2>4, <2>5, ResolvedValue
  <2> QED
    BY <2>1, <2>6, <2>7
<1>5. Values(c.env, i) = Values(c.env, j)
  BY <1>1, <1>4 DEF Values, SameAddress
<1> QED
  BY <1>2, <1>5

\* What a computation leaves of the values read before it.
LEMMA ValuesKept ==
  ASSUME NEW env, NEW new, NEW i, CanRead(env, i),
         \A y \in ToSet(i.use) : y \in DOMAIN env => y \in DOMAIN new /\ new[y] = env[y]
  PROVE  CanRead(new, i) /\ Values(new, i) = Values(env, i)
<1>1. ASSUME NEW k \in DOMAIN i.use
      PROVE  Readable(new, i.use[k]) /\ Value(new, i.use[k]) = Value(env, i.use[k])
  <2>1. i.use[k] \in ToSet(i.use) /\ Readable(env, i.use[k])
    BY DEF ToSet, CanRead
  <2> QED
    BY <2>1 DEF Readable, Value
<1> QED
  BY <1>1 DEF CanRead, Values

LEMMA GoodCompute ==
  ASSUME Left, NEW c, Good(c), NEW d, c.at \in DOMAIN given, c.pc \in DOMAIN given[c.at].ins,
         Compute(given[c.at].ins[c.pc], c, d)
  PROVE  Good(d)
<1> DEFINE i == given[c.at].ins[c.pc]
           r == <<c.at, c.pc>>
<1>1. /\ c.pc \in Nat /\ ~i.removed /\ CanRead(c.env, i) /\ d.at = c.at /\ d.pc = c.pc + 1
      /\ \E v \in Results(c.env, i) :
           d.env = IF IsTracked(i) THEN Assigned(c.env, i.res, v) ELSE c.env
  BY DEF Compute, Good
<1>2. r \in LivePositions(given) /\ At(given, r) = i /\ r[1] = c.at /\ r[2] = c.pc
  BY <1>1, Positions DEF At
<1>3. PICK v \in Results(c.env, i) :
        d.env = IF IsTracked(i) THEN Assigned(c.env, i.res, v) ELSE c.env
  BY <1>1
<1>4. IsAddress(i) => r \in Addresses /\ v = Address(Values(c.env, i)) /\ IsTracked(i)
  <2>1. IsAddress(i) => v = Address(Values(c.env, i))
    BY <1>3 DEF Results, IsAddress, Folds, FoldedKinds
  <2>2. IsAddress(i) => r \in Addresses
    BY <1>2 DEF Addresses
  <2>3. IsAddress(i) => i.kind \in TrackedKinds
    BY DEF IsAddress, TrackedKinds, OpaqueKinds
  <2>4. IsAddress(i) => i.res # NoName
    <3>1. IsAddress(i) => IsVariable(i.res)
      BY <1>2, LeftFacts DEF SingleAssignment
    <3> QED
      BY <3>1, Named
  <2> QED
    BY <2>1, <2>2, <2>3, <2>4 DEF IsTracked
<1> HIDE DEF i, r
<1>5. /\ \A y \in DOMAIN c.env : y \in DOMAIN d.env /\ (y # i.res => d.env[y] = c.env[y])
      /\ \A y \in DOMAIN d.env : y \in DOMAIN c.env \/ (y = i.res /\ IsTracked(i))
      /\ IsTracked(i) => i.res \in DOMAIN d.env /\ d.env[i.res] = v
      /\ ~IsTracked(i) => d.env = c.env
  BY <1>3 DEF Assigned
\* The addresses of the block, the one just computed among them.
<1>6. ASSUME NEW p \in Addresses, p[1] = d.at, p[2] < d.pc
      PROVE  /\ At(given, p).res \in DOMAIN d.env /\ CanRead(d.env, At(given, p))
             /\ d.env[At(given, p).res] = Address(Values(d.env, At(given, p)))
  <2> DEFINE j == At(given, p)
  <2>1. /\ p \in LivePositions(given) /\ p[2] \in Nat /\ p[2] <= c.pc /\ p[1] = c.at
        /\ p = <<p[1], p[2]>>
    BY <1>1, <1>6, LeftFacts, PositionsAt
  <2>2. i.res \notin ToSet(j.use)
    BY <1>1, <1>2, <2>1, LeftFacts DEF InOrder
  <2>3. \A y \in ToSet(j.use) : y \in DOMAIN c.env => y \in DOMAIN d.env /\ d.env[y] = c.env[y]
    BY <1>5, <2>2
  <2>4. CASE p[2] < c.pc
    <3>1. j.res \in DOMAIN c.env /\ CanRead(c.env, j) /\ c.env[j.res] = Address(Values(c.env, j))
      BY <2>1, <2>4 DEF Good
    <3>2. j.res # i.res
      BY <1>1, <1>2, <2>1, <2>4, LeftFacts, OnlyOne
    <3> HIDE DEF j
    <3>3. CanRead(d.env, j) /\ Values(d.env, j) = Values(c.env, j)
      BY <2>3, <3>1, ValuesKept
    <3>4. j.res \in DOMAIN d.env /\ d.env[j.res] = c.env[j.res]
      BY <1>5, <3>1, <3>2
    <3> QED
      BY <3>1, <3>3, <3>4 DEF j
  <2>5. CASE p[2] = c.pc
    <3>1. p = r
      BY <2>1, <2>5 DEF r
    <3>2. j = i /\ IsAddress(i)
      BY <1>2, <3>1 DEF Addresses
    <3> HIDE DEF j
    <3>3. CanRead(d.env, j) /\ Values(d.env, j) = Values(c.env, j)
      BY <1>1, <2>3, <3>2, ValuesKept
    <3> QED
      BY <1>4, <1>5, <3>2, <3>3 DEF j
  <2> QED
    BY <1>1, <2>1, <2>4, <2>5
\* The removed results, the one just computed among them.
<1>7. ASSUME NEW x \in DOMAIN renames, x \in DOMAIN d.env
      PROVE  /\ renames[x] \in DOMAIN d.env
             /\ \/ d.env[x] = d.env[renames[x]]
                \/ \E q \in Addresses : At(given, q).res = x /\ q[1] = d.at /\ d.pc <= q[2]
  <2>1. PICK p, q \in Addresses : At(given, p).res = renames[x] /\ At(given, q).res = x /\ Shares(p, q)
    BY Renames
  <2>2. renames[x] \notin DOMAIN renames /\ renames[x] # x
    BY LeftFacts DEF Flat
  <2>3. CASE x = i.res
    <3>1. q = r /\ IsAddress(i)
      BY <1>2, <2>1, <2>3, LeftFacts, OnlyOne DEF Addresses
    <3>2. renames[x] \in DOMAIN c.env /\ c.env[renames[x]] = Address(Values(c.env, i))
      BY <1>1, <1>2, <2>1, <3>1, SharedValue
    <3> QED
      BY <1>4, <1>5, <2>2, <2>3, <3>1, <3>2
  <2>4. CASE x # i.res
    <3>1. x \in DOMAIN c.env
      BY <1>5, <1>7, <2>4
    <3>2. /\ renames[x] \in DOMAIN c.env
          /\ \/ c.env[x] = c.env[renames[x]]
             \/ \E o \in Addresses : At(given, o).res = x /\ o[1] = c.at /\ c.pc <= o[2]
      BY <3>1 DEF Good
    <3>3. ASSUME NEW o \in Addresses, At(given, o).res = x, o[1] = c.at, c.pc <= o[2]
          PROVE  d.pc <= o[2]
      <4>1. o # r
        BY <1>2, <2>4, <3>3
      <4>2. o = <<o[1], o[2]>> /\ o[2] \in Nat
        BY LeftFacts, PositionsAt
      <4>3. o[2] # c.pc
        BY <3>3, <4>1, <4>2 DEF r
      <4> QED
        BY <1>1, <3>3, <4>2, <4>3
    <3>4. CASE renames[x] = i.res
      <4>1. p = r
        BY <1>2, <2>1, <3>4, LeftFacts, OnlyOne
      <4>2. q[1] = c.at /\ c.pc <= q[2] /\ q[2] \in Nat
        BY <1>1, <1>2, <2>1, <4>1, LeftFacts DEF Shares
      <4> QED
        BY <1>1, <1>5, <2>1, <3>2, <3>3, <4>2
    <3>5. CASE renames[x] # i.res
      BY <1>1, <1>5, <2>4, <3>1, <3>2, <3>3, <3>5
    <3> QED
      BY <3>4, <3>5
  <2> QED
    BY <2>3, <2>4
<1> QED
  BY <1>1, <1>6, <1>7 DEF Good

\* Leaving the block for another.
LEMMA GoodAway ==
  ASSUME Left, NEW c, Good(c), NEW d,
         <<c.at, c.pc>> \in LivePositions(given), IsTerminator(At(given, <<c.at, c.pc>>)),
         d.pc = 1,
         \A x \in DOMAIN renames : x \in DOMAIN d.env =>
           /\ x \in DOMAIN c.env /\ d.env[x] = c.env[x]
           /\ renames[x] \in DOMAIN c.env =>
                renames[x] \in DOMAIN d.env /\ d.env[renames[x]] = c.env[renames[x]]
  PROVE  Good(d)
<1>1. d.pc \in Nat /\ \A p \in Addresses : ~(p[1] = d.at /\ p[2] < d.pc)
  BY LeftFacts
<1>2. ASSUME NEW x \in DOMAIN renames, x \in DOMAIN d.env
      PROVE  renames[x] \in DOMAIN d.env /\ d.env[x] = d.env[renames[x]]
  <2>1. Settled(c, x) /\ c.pc \in Nat
    BY AllSettled DEF Good
  <2>2. \A q \in Addresses : At(given, q).res = x /\ q[1] = c.at => ~(c.pc <= q[2])
    BY <2>1, LeftFacts DEF Settled
  <2>3. x \in DOMAIN c.env /\ renames[x] \in DOMAIN c.env /\ c.env[x] = c.env[renames[x]]
    BY <1>2, <2>2 DEF Good
  <2> QED
    BY <1>2, <2>3
<1> QED
  BY <1>1, <1>2 DEF Good

------------------------------------------------------------------------------
(* Step by step, the function that is left does the same without the removed  *)
(* results.                                                                    *)

PrunedEnv(env) == [x \in DOMAIN env \ DOMAIN renames |-> env[x]]
Pruned(c) == [at |-> c.at, pc |-> c.pc, env |-> PrunedEnv(c.env), trace |-> c.trace]

LEMMA ReadsSame ==
  ASSUME Left, NEW c, Good(c), NEW u, Readable(c.env, u), Settled(c, u)
  PROVE  /\ Readable(PrunedEnv(c.env), Resolve(renames, u))
         /\ Value(PrunedEnv(c.env), Resolve(renames, u)) = Value(c.env, u)
<1>1. /\ Readable(c.env, Resolve(renames, u)) /\ Resolve(renames, u) \notin DOMAIN renames
      /\ Value(c.env, Resolve(renames, u)) = Value(c.env, u)
  BY ResolvedValue
<1> QED
  BY <1>1 DEF Readable, Value, PrunedEnv

\* The live instruction in turn in the given function and in the one that is left.
AtTurn(c, i, j) ==
  /\ Left /\ Good(c) /\ c.at \in DOMAIN given /\ c.pc \in DOMAIN given[c.at].ins
  /\ i = given[c.at].ins[c.pc] /\ ~i.removed /\ j = blocks[c.at].ins[c.pc]

LEMMA InTurn ==
  ASSUME NEW c, NEW i, NEW j, AtTurn(c, i, j)
  PROVE  /\ <<c.at, c.pc>> \in LivePositions(given) /\ At(given, <<c.at, c.pc>>) = i
         /\ j.kind = i.kind /\ j.op = i.op /\ j.uns = i.uns /\ j.res = i.res /\ j.to = i.to
         /\ j.removed = (i.res \in DOMAIN renames)
         /\ i.res \in DOMAIN renames => IsAddress(i)
         /\ i.res \notin DOMAIN renames =>
              DOMAIN j.use = DOMAIN i.use /\ \A k \in DOMAIN i.use : j.use[k] = Resolve(renames, i.use[k])
<1>0. /\ Left /\ Good(c) /\ c.at \in DOMAIN given /\ c.pc \in DOMAIN given[c.at].ins
      /\ i = given[c.at].ins[c.pc] /\ ~i.removed /\ j = blocks[c.at].ins[c.pc]
  BY DEF AtTurn
<1>1. BlocksRewritten /\ phase = "shared"
  BY <1>0 DEF Left, CSEInv
<1>2. Rewritten(i, j)
  BY <1>0, <1>1 DEF BlocksRewritten
<1>3. <<c.at, c.pc>> \in LivePositions(given) /\ At(given, <<c.at, c.pc>>) = i
  BY <1>0, Positions DEF At
<1>4. /\ j = [kind |-> i.kind, op |-> i.op, uns |-> i.uns, res |-> i.res, use |-> j.use,
              to |-> i.to, removed |-> i.res \in DOMAIN renames]
      /\ i.res \notin DOMAIN renames =>
              DOMAIN j.use = DOMAIN i.use /\ \A k \in DOMAIN i.use : j.use[k] = Resolve(renames, i.use[k])
  BY <1>0, <1>1, <1>2 DEF Rewritten
<1>5. i.res \in DOMAIN renames => IsAddress(i)
  <2> SUFFICES ASSUME i.res \in DOMAIN renames PROVE IsAddress(i)
    OBVIOUS
  <2>1. PICK q \in Addresses : At(given, q).res = i.res
    BY <1>0, Renames
  <2>2. q = <<c.at, c.pc>>
    BY <1>0, <1>3, <2>1, LeftFacts, OnlyOne
  <2> QED
    BY <1>3, <2>2 DEF Addresses
<1>6. /\ j.kind = i.kind /\ j.op = i.op /\ j.uns = i.uns /\ j.res = i.res /\ j.to = i.to
      /\ j.removed = (i.res \in DOMAIN renames)
  BY <1>4
<1> QED
  BY <1>3, <1>4, <1>5, <1>6

LEMMA OperandsSame ==
  ASSUME NEW c, NEW i, NEW j, AtTurn(c, i, j), i.res \notin DOMAIN renames,
         NEW k \in DOMAIN i.use, Readable(c.env, i.use[k])
  PROVE  /\ Readable(PrunedEnv(c.env), j.use[k])
         /\ Value(PrunedEnv(c.env), j.use[k]) = Value(c.env, i.use[k])
<1> DEFINE r == <<c.at, c.pc>>
<1>0. Left /\ Good(c)
  BY DEF AtTurn
<1>1. /\ r \in LivePositions(given) /\ At(given, r) = i /\ r[1] = c.at /\ r[2] = c.pc
      /\ j.use[k] = Resolve(renames, i.use[k])
  BY InTurn
<1>2. i.use[k] \in ToSet(i.use) /\ c.pc \in Nat
  BY <1>0 DEF ToSet, Good
<1> HIDE DEF r
<1>3. Settled(c, i.use[k])
  BY <1>0, <1>1, <1>2, ReadSettled
<1> QED
  BY <1>0, <1>1, <1>3, ReadsSame

LEMMA ValuesSame ==
  ASSUME NEW c, NEW i, NEW j, AtTurn(c, i, j), i.res \notin DOMAIN renames, CanRead(c.env, i)
  PROVE  CanRead(PrunedEnv(c.env), j) /\ Values(PrunedEnv(c.env), j) = Values(c.env, i)
<1>1. DOMAIN j.use = DOMAIN i.use
  BY InTurn
<1>2. ASSUME NEW k \in DOMAIN i.use
      PROVE  /\ Readable(PrunedEnv(c.env), j.use[k])
             /\ Value(PrunedEnv(c.env), j.use[k]) = Value(c.env, i.use[k])
  <2>1. Readable(c.env, i.use[k])
    BY DEF CanRead
  <2> QED
    BY <2>1, OperandsSame
<1> QED
  BY <1>1, <1>2 DEF CanRead, Values

\* The result depends on what an instruction is and on the values it reads only.
LEMMA ResultsSame ==
  ASSUME NEW i, NEW j, j.kind = i.kind, j.op = i.op, j.uns = i.uns, NEW env, NEW new,
         Values(new, j) = Values(env, i)
  PROVE  Results(new, j) = Results(env, i)
<1>1. Folds(j) = Folds(i) /\ IsAddress(j) = IsAddress(i)
  BY DEF Folds, IsAddress
<1>2. \A v : Fold(j, v) = Fold(i, v)
  BY DEF Fold
<1> QED
  BY <1>1, <1>2 DEF Results

LEMMA PrunedSkip ==
  ASSUME Left, NEW c, Good(c), NEW d, c.at \in DOMAIN given, c.pc \in DOMAIN given[c.at].ins,
         Skip(given[c.at].ins[c.pc], c, d)
  PROVE  Skip(blocks[c.at].ins[c.pc], Pruned(c), Pruned(d))
<1>1. BlocksRewritten
  BY DEF Left, CSEInv
<1>2. blocks[c.at].ins[c.pc] = given[c.at].ins[c.pc]
  BY <1>1 DEF BlocksRewritten, Rewritten, Skip
<1> QED
  BY <1>2 DEF Skip, Pruned

LEMMA PrunedCompute ==
  ASSUME NEW c, NEW i, NEW j, AtTurn(c, i, j), NEW d, Compute(i, c, d)
  PROVE  \/ Skip(j, Pruned(c), Pruned(d))
         \/ Compute(j, Pruned(c), Pruned(d))
<1>1. /\ ~i.removed /\ ~IsTerminator(i) /\ CanRead(c.env, i)
      /\ d.at = c.at /\ d.pc = c.pc + 1
      /\ \E v \in Results(c.env, i) :
           /\ d.env = IF IsTracked(i) THEN Assigned(c.env, i.res, v) ELSE c.env
           /\ d.trace = IF IsSilent(i) THEN c.trace
                        ELSE Append(c.trace, <<i.kind, i.op, Values(c.env, i), v>>)
  BY DEF Compute
<1>2. /\ j.kind = i.kind /\ j.op = i.op /\ j.uns = i.uns /\ j.res = i.res
      /\ j.removed = (i.res \in DOMAIN renames)
      /\ i.res \in DOMAIN renames => IsAddress(i)
  BY <1>1, InTurn
<1>3. i.res \notin DOMAIN renames =>
        CanRead(PrunedEnv(c.env), j) /\ Values(PrunedEnv(c.env), j) = Values(c.env, i)
  BY <1>1, ValuesSame
<1>4. PICK v \in Results(c.env, i) :
        /\ d.env = IF IsTracked(i) THEN Assigned(c.env, i.res, v) ELSE c.env
        /\ d.trace = IF IsSilent(i) THEN c.trace
                     ELSE Append(c.trace, <<i.kind, i.op, Values(c.env, i), v>>)
  BY <1>1
<1>5. CASE i.res \in DOMAIN renames
  <2>1. d.trace = c.trace
    BY <1>2, <1>4, <1>5 DEF IsSilent
  <2>2. PrunedEnv(d.env) = PrunedEnv(c.env)
    BY <1>4, <1>5 DEF Assigned, PrunedEnv
  <2>3. j.removed
    BY <1>2, <1>5
  <2> QED
    BY <1>1, <2>1, <2>2, <2>3 DEF Skip, Pruned
<1>6. CASE i.res \notin DOMAIN renames
  <2>1. /\ CanRead(PrunedEnv(c.env), j) /\ Values(PrunedEnv(c.env), j) = Values(c.env, i)
        /\ ~j.removed
    BY <1>2, <1>3, <1>6
  <2>2. v \in Results(PrunedEnv(c.env), j)
    BY <1>2, <1>4, <2>1, ResultsSame
  <2>3. /\ IsTracked(j) = IsTracked(i) /\ IsTerminator(j) = IsTerminator(i)
        /\ IsSilent(j) = IsSilent(i)
    BY <1>2 DEF IsTracked, IsTerminator, IsSilent, Folds, IsAddress
  <2>4. PrunedEnv(Assigned(c.env, i.res, v)) = Assigned(PrunedEnv(c.env), i.res, v)
    BY <1>6 DEF Assigned, PrunedEnv
  <2>5. PrunedEnv(d.env) = IF IsTracked(j) THEN Assigned(PrunedEnv(c.env), j.res, v) ELSE PrunedEnv(c.env)
    BY <1>2, <1>4, <2>3, <2>4
  <2>6. d.trace = IF IsSilent(j) THEN c.trace
                  ELSE Append(c.trace, <<j.kind, j.op, Values(PrunedEnv(c.env), j), v>>)
    BY <1>2, <1>4, <2>1, <2>3
  <2>7. ~IsTerminator(j)
    BY <1>1, <2>3
  <2> QED
    BY <1>1, <2>1, <2>2, <2>5, <2>6, <2>7 DEF Compute, Pruned
<1> QED
  BY <1>5, <1>6

LEMMA PrunedFinish ==
  ASSUME NEW c, NEW i, NEW j, AtTurn(c, i, j), NEW d, Finish(i, c, d)
  PROVE  Finish(j, Pruned(c), Pruned(d))
<1>1. /\ ~i.removed /\ i.kind = "ret" /\ CanRead(c.env, i)
      /\ d.at = Returned /\ d.env = c.env
      /\ d.trace = Append(c.trace, <<i.kind, i.op, Values(c.env, i), 0>>)
  BY DEF Finish
<1>2. /\ j.kind = i.kind /\ j.op = i.op /\ j.removed = (i.res \in DOMAIN renames)
      /\ i.res \notin DOMAIN renames
  BY <1>1, InTurn DEF IsAddress
<1>3. CanRead(PrunedEnv(c.env), j) /\ Values(PrunedEnv(c.env), j) = Values(c.env, i)
  BY <1>1, <1>2, ValuesSame
<1> QED
  BY <1>1, <1>2, <1>3 DEF Finish, Pruned

\* The phis that are left, one by one.
LEMMA PhisLeft ==
  ASSUME Left, NEW b \in DOMAIN given
  PROVE  LET phis == given[b].phi
             left == blocks[b].phi
         IN /\ DOMAIN left = DOMAIN phis
            /\ \A n \in DOMAIN phis :
                 /\ left[n].res = phis[n].res /\ DOMAIN left[n].val = DOMAIN phis[n].val
                 /\ \A k \in DOMAIN phis[n].val :
                      left[n].val[k] = <<Resolve(renames, phis[n].val[k][1]), phis[n].val[k][2]>>
<1> DEFINE phis == given[b].phi
           left == blocks[b].phi
<1>1. BlocksRewritten /\ phase = "shared" /\ Shapely(given)
  BY LeftFacts DEF Left, CSEInv
<1>2. blocks[b] = [phi |-> RenamedPhis(phis), ins |-> blocks[b].ins]
  BY <1>1 DEF BlocksRewritten
<1>3. left = RenamedPhis(phis)
  BY <1>2
<1>4. ASSUME NEW n \in DOMAIN phis
      PROVE  /\ left[n].res = phis[n].res /\ DOMAIN left[n].val = DOMAIN phis[n].val
             /\ \A k \in DOMAIN phis[n].val :
                  left[n].val[k] = <<Resolve(renames, phis[n].val[k][1]), phis[n].val[k][2]>>
  <2> DEFINE phi == phis[n]
             val == [k \in DOMAIN phi.val |-> <<Resolve(renames, phi.val[k][1]), phi.val[k][2]>>]
  <2>1. phi = [res |-> phi.res, val |-> phi.val]
    BY <1>1 DEF Shapely, ToSet
  <2>2. left[n] = [phi EXCEPT !.val = val]
    BY <1>3 DEF RenamedPhis, ReplaceInPhi
  <2>3. \A k \in DOMAIN phi.val :
          val[k] = <<Resolve(renames, phi.val[k][1]), phi.val[k][2]>>
    OBVIOUS
  <2>4. DOMAIN val = DOMAIN phi.val
    OBVIOUS
  <2> HIDE DEF phi, val
  <2>5. left[n] = [res |-> phi.res, val |-> val]
    BY <2>1, <2>2
  <2>6. left[n].res = phi.res /\ left[n].val = val
    BY <2>5
  <2>7. phi = phis[n]
    BY DEF phi
  <2> QED
    BY <2>3, <2>4, <2>6, <2>7
<1>5. DOMAIN left = DOMAIN phis
  BY <1>3 DEF RenamedPhis
<1> QED
  BY <1>4, <1>5

LEMMA PrunedArrive ==
  ASSUME Left, NEW c, Good(c), \A u : Settled(c, u), NEW d, NEW b \in DOMAIN given,
         Arrive(ToSet(given[b].phi), c, d)
  PROVE  Arrive(ToSet(blocks[b].phi), Pruned(c), Pruned(d))
<1> DEFINE phis == given[b].phi
           left == blocks[b].phi
<1>1. /\ DOMAIN left = DOMAIN phis
      /\ \A n \in DOMAIN phis :
           /\ left[n].res = phis[n].res /\ DOMAIN left[n].val = DOMAIN phis[n].val
           /\ \A k \in DOMAIN phis[n].val :
                left[n].val[k] = <<Resolve(renames, phis[n].val[k][1]), phis[n].val[k][2]>>
  BY PhisLeft
<1>2. /\ DOMAIN d.env = DOMAIN c.env \cup {phi.res : phi \in ToSet(phis)}
      /\ \A phi \in ToSet(phis) : \E e \in ToSet(phi.val) :
           e[2] = c.at /\ Readable(c.env, e[1]) /\ d.env[phi.res] = Value(c.env, e[1])
      /\ \A x \in DOMAIN c.env : (\A phi \in ToSet(phis) : phi.res # x) => d.env[x] = c.env[x]
  BY DEF Arrive
<1>3. \A n \in DOMAIN phis : phis[n] \in ToSet(phis) /\ left[n] \in ToSet(left)
  BY <1>1 DEF ToSet
<1>4. /\ \A phi \in ToSet(phis) : \E n \in DOMAIN phis : phi = phis[n]
      /\ \A phi \in ToSet(left) : \E n \in DOMAIN phis : phi = left[n]
  BY <1>1 DEF ToSet
<1>5. \A phi \in ToSet(phis) : phi.res \notin DOMAIN renames
  BY Renames
<1> HIDE DEF phis, left
<1>6. {phi.res : phi \in ToSet(left)} = {phi.res : phi \in ToSet(phis)}
  BY <1>1, <1>3, <1>4
<1>7. DOMAIN PrunedEnv(d.env) = DOMAIN PrunedEnv(c.env) \cup {phi.res : phi \in ToSet(left)}
  BY <1>2, <1>5, <1>6 DEF PrunedEnv
<1>8. ASSUME NEW phi \in ToSet(left)
      PROVE  \E e \in ToSet(phi.val) :
               /\ e[2] = c.at /\ Readable(PrunedEnv(c.env), e[1])
               /\ PrunedEnv(d.env)[phi.res] = Value(PrunedEnv(c.env), e[1])
  <2>1. PICK n \in DOMAIN phis : phi = left[n]
    BY <1>4
  <2>2. PICK e \in ToSet(phis[n].val) :
          e[2] = c.at /\ Readable(c.env, e[1]) /\ d.env[phis[n].res] = Value(c.env, e[1])
    BY <1>2, <1>3
  <2>3. PICK k \in DOMAIN phis[n].val : e = phis[n].val[k]
    BY DEF ToSet
  <2>4. phi.val[k] \in ToSet(phi.val) /\ phi.val[k] = <<Resolve(renames, e[1]), e[2]>>
    BY <1>1, <2>1, <2>3 DEF ToSet
  <2>5. /\ Readable(PrunedEnv(c.env), Resolve(renames, e[1]))
        /\ Value(PrunedEnv(c.env), Resolve(renames, e[1])) = Value(c.env, e[1])
    BY <2>2, ReadsSame
  <2>6. phi.res = phis[n].res /\ phi.res \notin DOMAIN renames /\ phi.res \in DOMAIN d.env
    BY <1>1, <1>2, <1>3, <1>5, <2>1
  <2>7. PrunedEnv(d.env)[phi.res] = d.env[phi.res]
    BY <2>6 DEF PrunedEnv
  <2> QED
    BY <2>2, <2>4, <2>5, <2>6, <2>7
<1>9. ASSUME NEW x \in DOMAIN PrunedEnv(c.env), \A phi \in ToSet(left) : phi.res # x
      PROVE  PrunedEnv(d.env)[x] = PrunedEnv(c.env)[x]
  <2>1. x \in DOMAIN c.env /\ x \notin DOMAIN renames /\ x \in DOMAIN d.env
    BY <1>2 DEF PrunedEnv
  <2>2. \A phi \in ToSet(phis) : phi.res # x
    BY <1>1, <1>3, <1>4, <1>9
  <2>3. d.env[x] = c.env[x]
    BY <1>2, <2>1, <2>2
  <2> QED
    BY <2>1, <2>3 DEF PrunedEnv
<1> QED
  BY <1>7, <1>8, <1>9 DEF Arrive, Pruned, left

LEMMA PrunedLeave ==
  ASSUME NEW c, NEW i, NEW j, AtTurn(c, i, j), NEW d, Leave(given, i, c, d)
  PROVE  Leave(blocks, j, Pruned(c), Pruned(d)) /\ Good(d)
<1> DEFINE r == <<c.at, c.pc>>
<1>0. /\ Left /\ Good(c) /\ c.at \in DOMAIN given /\ c.pc \in DOMAIN given[c.at].ins
      /\ i = given[c.at].ins[c.pc] /\ ~i.removed /\ c.pc \in Nat
  BY DEF AtTurn, Good
<1>1. /\ i.kind \in {"jmp", "br"}
      /\ \/ i.kind = "jmp" /\ d.at = i.to[1]
         \/ /\ i.kind = "br" /\ Readable(c.env, i.use[1])
            /\ d.at = i.to[IF Value(c.env, i.use[1]) # 0 THEN 1 ELSE 2]
      /\ d.pc = 1 /\ d.trace = c.trace
      /\ Arrive(ToSet(given[d.at].phi), c, d)
  BY DEF Leave
<1>2. /\ j.kind = i.kind /\ j.to = i.to /\ j.removed = (i.res \in DOMAIN renames)
      /\ i.res \in DOMAIN renames => IsAddress(i)
      /\ r \in LivePositions(given) /\ At(given, r) = i
      /\ i.res \notin DOMAIN renames =>
           \A k \in DOMAIN i.use : j.use[k] = Resolve(renames, i.use[k])
  BY InTurn
<1>3. i.res \notin DOMAIN renames /\ ~j.removed /\ IsTerminator(i)
  BY <1>1, <1>2 DEF IsAddress, IsTerminator
<1>4. d.at \in DOMAIN given
  <2>1. i \in ToSet(given[c.at].ins)
    BY <1>0 DEF ToSet
  <2>2. Shapely(given)
    BY <1>0, LeftFacts
  <2>3. /\ i.kind \in {"jmp", "br"} => i.to[1] \in DOMAIN given
        /\ i.kind = "br" => i.to[2] \in DOMAIN given
    BY <1>0, <2>1, <2>2 DEF Shapely
  <2> QED
    BY <1>1, <2>3
<1>5. \A u : Settled(c, u)
  BY <1>0, <1>2, <1>3, AllSettled
<1> HIDE DEF r
<1>6. Arrive(ToSet(blocks[d.at].phi), Pruned(c), Pruned(d))
  BY <1>0, <1>1, <1>4, <1>5, PrunedArrive
<1>7. ASSUME NEW x \in DOMAIN renames, x \in DOMAIN d.env
      PROVE  /\ x \in DOMAIN c.env /\ d.env[x] = c.env[x]
             /\ renames[x] \in DOMAIN c.env =>
                  renames[x] \in DOMAIN d.env /\ d.env[renames[x]] = c.env[renames[x]]
  <2>1. \A phi \in ToSet(given[d.at].phi) : phi.res # x /\ phi.res # renames[x]
    BY <1>0, <1>4, Renames
  <2> QED
    BY <1>1, <1>7, <2>1 DEF Arrive
<1>8. Good(d)
  <2>1. <<c.at, c.pc>> \in LivePositions(given) /\ IsTerminator(At(given, <<c.at, c.pc>>))
    BY <1>2, <1>3 DEF r
  <2>2. Left /\ Good(c) /\ d.pc = 1
    BY <1>0, <1>1
  <2> QED
    BY <1>7, <2>1, <2>2, GoodAway
<1>9. i.kind = "br" => Readable(PrunedEnv(c.env), j.use[1]) /\ Value(PrunedEnv(c.env), j.use[1]) = Value(c.env, i.use[1])
  <2> SUFFICES ASSUME i.kind = "br"
               PROVE  /\ Readable(PrunedEnv(c.env), j.use[1])
                      /\ Value(PrunedEnv(c.env), j.use[1]) = Value(c.env, i.use[1])
    OBVIOUS
  <2>1. Readable(c.env, i.use[1])
    BY <1>1
  <2>2. i \in ToSet(given[c.at].ins) /\ Shapely(given)
    BY <1>0, LeftFacts DEF ToSet
  <2>3. 1 \in DOMAIN i.use
    BY <1>0, <2>2 DEF Shapely
  <2> QED
    BY <1>3, <2>1, <2>3, OperandsSame
<1>10. /\ Pruned(c).at = c.at /\ Pruned(c).env = PrunedEnv(c.env) /\ Pruned(c).trace = c.trace
       /\ Pruned(d).at = d.at /\ Pruned(d).pc = d.pc /\ Pruned(d).trace = d.trace
  BY DEF Pruned
<1> QED
  BY <1>1, <1>2, <1>3, <1>6, <1>8, <1>9, <1>10 DEF Leave

\* Induction up to a bound, for a set of numbers.
LEMMA UpTo ==
  ASSUME NEW N \in Nat, NEW S \in SUBSET (0 .. N), 0 \in S,
         \A n \in S : n < N => n + 1 \in S
  PROVE  \A n \in 0 .. N : n \in S
<1> DEFINE Missed == (0 .. N) \ S
<1>1. SUFFICES ASSUME Missed # {} PROVE FALSE
  OBVIOUS
<1>2. Missed \in SUBSET Nat
  OBVIOUS
<1>3. PICK n \in Missed : \A j \in Missed : ~(<<j, n>> \in OpToRel(<, Nat))
  <2> HIDE DEF Missed
  <2> QED
    BY <1>1, <1>2, WFMin, NatLessThanWellFounded
<1>4. n # 0 /\ n \in 0 .. N
  BY <1>3
<1>5. n - 1 \in 0 .. N /\ n - 1 < N /\ (n - 1) + 1 = n
  BY <1>4
<1>6. \A j \in Missed : ~(j < n)
  BY <1>2, <1>3 DEF OpToRel
<1> QED
  BY <1>4, <1>5, <1>6

LEMMA StepKept ==
  ASSUME Left, NEW c, NEW d, Good(c), Step(given, c, d)
  PROVE  Step(blocks, Pruned(c), Pruned(d)) /\ (d.at = Returned \/ Good(d))
<1>0. /\ c.at \in DOMAIN given /\ c.pc \in DOMAIN given[c.at].ins
      /\ DOMAIN blocks = DOMAIN given /\ DOMAIN blocks[c.at].ins = DOMAIN given[c.at].ins
  <2>1. BlocksRewritten
    BY DEF Left, CSEInv
  <2> QED
    BY <2>1 DEF Step, BlocksRewritten
<1> DEFINE i == given[c.at].ins[c.pc]
           j == blocks[c.at].ins[c.pc]
<1>1. Pruned(c).at = c.at /\ Pruned(c).pc = c.pc
  BY DEF Pruned
<1>2. Skip(i, c, d) \/ Compute(i, c, d) \/ Finish(i, c, d) \/ Leave(given, i, c, d)
  BY DEF Step
<1>3. ~i.removed => AtTurn(c, i, j)
  BY <1>0 DEF AtTurn
<1>4. CASE Skip(i, c, d)
  <2>1. Skip(j, Pruned(c), Pruned(d)) /\ Good(d)
    BY <1>0, <1>4, PrunedSkip, GoodSkip
  <2> QED
    BY <1>0, <1>1, <2>1 DEF Step
<1>5. CASE Compute(i, c, d)
  <2>1. Good(d)
    BY <1>0, <1>5, GoodCompute
  <2>2. AtTurn(c, i, j)
    BY <1>3, <1>5 DEF Compute
  <2>3. Skip(j, Pruned(c), Pruned(d)) \/ Compute(j, Pruned(c), Pruned(d))
    BY <1>5, <2>2, PrunedCompute
  <2> QED
    BY <1>0, <1>1, <2>1, <2>3 DEF Step
<1>6. CASE Finish(i, c, d)
  <2>1. AtTurn(c, i, j) /\ d.at = Returned
    BY <1>3, <1>6 DEF Finish
  <2>2. Finish(j, Pruned(c), Pruned(d))
    BY <1>6, <2>1, PrunedFinish
  <2> QED
    BY <1>0, <1>1, <2>1, <2>2 DEF Step
<1>7. CASE Leave(given, i, c, d)
  <2>1. AtTurn(c, i, j)
    BY <1>3, <1>7 DEF Leave
  <2>2. Leave(blocks, j, Pruned(c), Pruned(d)) /\ Good(d)
    BY <1>7, <2>1, PrunedLeave
  <2> QED
    BY <1>0, <1>1, <2>2 DEF Step
<1> QED
  BY <1>2, <1>4, <1>5, <1>6, <1>7

LEMMA GoodStart ==
  ASSUME Left, NEW c, c.pc = 1, DOMAIN c.env = ToSet(params)
  PROVE  Good(c) /\ DOMAIN PrunedEnv(c.env) = ToSet(params)
<1>1. \A x \in DOMAIN renames : x \notin DOMAIN c.env
  BY Renames
<1>2. \A p \in Addresses : ~(p[2] < c.pc)
  BY LeftFacts
<1> QED
  BY <1>1, <1>2 DEF Good, PrunedEnv

LEMMA RunKept ==
  ASSUME Left, NEW n \in Nat, NEW run, Execution(given, run, n)
  PROVE  Reaches(blocks, Pruned(run[n]))
<1>1. /\ run[0].at = 0 /\ run[0].pc = 1 /\ run[0].trace = << >>
      /\ DOMAIN run[0].env = ToSet(params)
      /\ \A k \in 0 .. n - 1 : Step(given, run[k], run[k + 1])
  BY DEF Execution
<1> DEFINE S == {k \in 0 .. n : run[k].at = Returned \/ Good(run[k])}
<1>2. 0 \in S
  BY <1>1, GoodStart
<1>3. ASSUME NEW k \in S, k < n PROVE k + 1 \in S
  <2>1. k \in 0 .. n - 1 /\ k + 1 \in 0 .. n
    BY <1>3
  <2>2. Step(given, run[k], run[k + 1])
    BY <1>1, <2>1
  <2>3. run[k].at # Returned
    BY <2>2, LeftFacts DEF Step, Shapely, Returned
  <2>4. Good(run[k])
    BY <2>3
  <2>5. run[k + 1].at = Returned \/ Good(run[k + 1])
    BY <2>2, <2>4, StepKept
  <2> QED
    BY <2>1, <2>5
<1> HIDE DEF S
<1>4. \A k \in 0 .. n : k \in S
  BY <1>2, <1>3, UpTo DEF S
<1> DEFINE run2 == [k \in 0 .. n |-> Pruned(run[k])]
<1>5. \A k \in 0 .. n : run2[k] = Pruned(run[k])
  OBVIOUS
<1>6. ASSUME NEW k \in 0 .. n - 1 PROVE Step(blocks, run2[k], run2[k + 1])
  <2>1. k \in 0 .. n /\ k + 1 \in 0 .. n
    BY <1>6
  <2>2. Step(given, run[k], run[k + 1])
    BY <1>1
  <2>3. run[k].at # Returned
    BY <2>2, LeftFacts DEF Step, Shapely, Returned
  <2>4. Good(run[k])
    BY <1>4, <2>1, <2>3 DEF S
  <2> HIDE DEF run2
  <2> QED
    BY <1>5, <2>1, <2>2, <2>4, StepKept
<1>7. 0 \in 0 .. n /\ n \in 0 .. n
  OBVIOUS
<1> HIDE DEF run2
<1>8. /\ run2[0].at = 0 /\ run2[0].pc = 1 /\ run2[0].trace = << >>
      /\ DOMAIN run2[0].env = ToSet(params)
  <2>1. DOMAIN PrunedEnv(run[0].env) = ToSet(params)
    BY <1>1, GoodStart
  <2>2. run2[0] = Pruned(run[0])
    BY <1>5, <1>7
  <2> QED
    BY <1>1, <2>1, <2>2 DEF Pruned
<1>9. Execution(blocks, run2, n)
  BY <1>6, <1>8 DEF Execution
<1> QED
  BY <1>5, <1>7, <1>9 DEF Reaches

\* CSE loses no execution: whatever a function in SSA form could do, the one that
\* is left can do, where a removed address is read from the one that stands for it.
THEOREM Kept == CSESpec => []SharingKeeps
<1>1. ASSUME CSEInv PROVE SharingKeeps
  <2> SUFFICES ASSUME phase = "shared", NEW c, Reaches(given, c)
               PROVE  \E d : Reaches(blocks, d) /\ d.at = c.at /\ d.trace = c.trace
    BY DEF SharingKeeps
  <2>1. Left
    BY <1>1 DEF Left
  <2>2. PICK n \in Nat : \E run : Execution(given, run, n) /\ run[n] = c
    BY DEF Reaches
  <2>3. PICK run : Execution(given, run, n) /\ run[n] = c
    BY <2>2
  <2>4. Reaches(blocks, Pruned(c))
    BY <2>1, <2>3, RunKept
  <2>5. Pruned(c).at = c.at /\ Pruned(c).trace = c.trace
    BY DEF Pruned
  <2> QED
    BY <2>4, <2>5
<1> QED
  BY <1>1, Sharing, PTL

------------------------------------------------------------------------------
(* And back: what the function that is left does, the given one can do.       *)

\* e of the function that is left is where c of the given one is.
Matches(c, e) ==
  /\ e.at = c.at /\ e.pc = c.pc /\ e.trace = c.trace
  /\ DOMAIN e.env = DOMAIN c.env \ DOMAIN renames
  /\ \A x \in DOMAIN e.env : e.env[x] = c.env[x]

LEMMA MatchesPruned ==
  ASSUME NEW c, NEW e, Matches(c, e), NEW x
  PROVE  /\ Readable(e.env, x) <=> Readable(PrunedEnv(c.env), x)
         /\ Readable(e.env, x) => Value(e.env, x) = Value(PrunedEnv(c.env), x)
BY DEF Matches, Readable, Value, PrunedEnv

\* What the instruction in turn reads, in both.
LEMMA ReadsBack ==
  ASSUME NEW c, NEW i, NEW j, AtTurn(c, i, j), i.res \notin DOMAIN renames, CanRead(c.env, i),
         NEW e, Matches(c, e)
  PROVE  Values(e.env, j) = Values(c.env, i)
<1>1. DOMAIN j.use = DOMAIN i.use
  BY InTurn
<1>2. ASSUME NEW k \in DOMAIN i.use PROVE Value(e.env, j.use[k]) = Value(c.env, i.use[k])
  <2>1. Readable(c.env, i.use[k])
    BY DEF CanRead
  <2>2. /\ Readable(PrunedEnv(c.env), j.use[k])
        /\ Value(PrunedEnv(c.env), j.use[k]) = Value(c.env, i.use[k])
    BY <2>1, OperandsSame
  <2> QED
    BY <2>2, MatchesPruned
<1> QED
  BY <1>1, <1>2 DEF Values

LEMMA SkipBack ==
  ASSUME Left, NEW c, NEW e, NEW f, Good(c), Matches(c, e),
         c.at \in DOMAIN given, c.pc \in DOMAIN given[c.at].ins,
         given[c.at].ins[c.pc].removed, Skip(blocks[c.at].ins[c.pc], e, f)
  PROVE  \E d : Skip(given[c.at].ins[c.pc], c, d) /\ Matches(d, f)
<1> DEFINE d == [at |-> c.at, pc |-> c.pc + 1, env |-> c.env, trace |-> c.trace]
<1>1. d.at = c.at /\ d.pc = c.pc + 1 /\ d.env = c.env /\ d.trace = c.trace
  OBVIOUS
<1> HIDE DEF d
<1>2. f.at = e.at /\ f.pc = e.pc + 1 /\ f.env = e.env /\ f.trace = e.trace
  BY DEF Skip
<1>3. Matches(d, f)
  BY <1>1, <1>2 DEF Matches
<1> QED
  BY <1>1, <1>3 DEF Skip

\* The given function computes a removed address while the other passes it over.
LEMMA AddressBack ==
  ASSUME NEW c, NEW i, NEW j, AtTurn(c, i, j), i.res \in DOMAIN renames, CanRead(c.env, i),
         NEW e, NEW f, Matches(c, e), Skip(j, e, f)
  PROVE  \E d : Compute(i, c, d) /\ Matches(d, f)
<1> DEFINE v == Address(Values(c.env, i))
           env == Assigned(c.env, i.res, v)
           d == [at |-> c.at, pc |-> c.pc + 1, env |-> env, trace |-> c.trace]
<1>1. d.at = c.at /\ d.pc = c.pc + 1 /\ d.env = env /\ d.trace = c.trace
  OBVIOUS
<1>2. ~i.removed /\ Left
  BY DEF AtTurn
<1>3. IsAddress(i) /\ IsVariable(i.res)
  BY <1>2, InTurn, Renames
<1>4. i.res # NoName
  BY <1>3, Named
<1>5. IsTracked(i) /\ IsSilent(i) /\ ~IsTerminator(i) /\ v \in Results(c.env, i)
  BY <1>3, <1>4 DEF IsAddress, IsTracked, TrackedKinds, OpaqueKinds, IsSilent, IsTerminator,
                    Results, Folds, FoldedKinds
<1>6. DOMAIN env = DOMAIN c.env \cup {i.res} /\ \A x \in DOMAIN c.env : x # i.res => env[x] = c.env[x]
  BY DEF Assigned
<1>7. f.at = e.at /\ f.pc = e.pc + 1 /\ f.env = e.env /\ f.trace = e.trace
  BY DEF Skip
<1> HIDE DEF d, env, v
<1>8. Matches(d, f)
  BY <1>1, <1>6, <1>7 DEF Matches
<1>9. Compute(i, c, d)
  BY <1>1, <1>2, <1>5 DEF Compute, env
<1> QED
  BY <1>8, <1>9

LEMMA ComputeBack ==
  ASSUME NEW c, NEW i, NEW j, AtTurn(c, i, j), i.res \notin DOMAIN renames, CanRead(c.env, i),
         NEW e, NEW f, Matches(c, e), Compute(j, e, f)
  PROVE  \E d : Compute(i, c, d) /\ Matches(d, f)
<1>1. /\ j.kind = i.kind /\ j.op = i.op /\ j.uns = i.uns /\ j.res = i.res /\ ~i.removed
  BY InTurn DEF AtTurn
<1>2. Values(e.env, j) = Values(c.env, i)
  BY ReadsBack
<1>3. /\ ~IsTerminator(j) /\ f.at = e.at /\ f.pc = e.pc + 1
      /\ \E v \in Results(e.env, j) :
           /\ f.env = IF IsTracked(j) THEN Assigned(e.env, j.res, v) ELSE e.env
           /\ f.trace = IF IsSilent(j) THEN e.trace
                        ELSE Append(e.trace, <<j.kind, j.op, Values(e.env, j), v>>)
  BY DEF Compute
<1>4. PICK v \in Results(e.env, j) :
        /\ f.env = IF IsTracked(j) THEN Assigned(e.env, j.res, v) ELSE e.env
        /\ f.trace = IF IsSilent(j) THEN e.trace
                     ELSE Append(e.trace, <<j.kind, j.op, Values(e.env, j), v>>)
  BY <1>3
<1>5. v \in Results(c.env, i)
  BY <1>1, <1>2, ResultsSame
<1>6. /\ IsTracked(j) = IsTracked(i) /\ IsTerminator(j) = IsTerminator(i)
      /\ IsSilent(j) = IsSilent(i)
  BY <1>1 DEF IsTracked, IsTerminator, IsSilent, Folds, IsAddress
<1> DEFINE env == IF IsTracked(i) THEN Assigned(c.env, i.res, v) ELSE c.env
           d == [at |-> c.at, pc |-> c.pc + 1, env |-> env, trace |-> f.trace]
<1>7. d.at = c.at /\ d.pc = c.pc + 1 /\ d.env = env /\ d.trace = f.trace
  OBVIOUS
<1>8. /\ DOMAIN f.env = DOMAIN env \ DOMAIN renames
      /\ \A x \in DOMAIN f.env : f.env[x] = env[x]
  <2>1. DOMAIN e.env = DOMAIN c.env \ DOMAIN renames /\ \A x \in DOMAIN e.env : e.env[x] = c.env[x]
    BY DEF Matches
  <2>2. CASE IsTracked(i)
    <3>1. f.env = Assigned(e.env, i.res, v) /\ env = Assigned(c.env, i.res, v)
      BY <1>1, <1>4, <1>6, <2>2
    <3> HIDE DEF env
    <3> QED
      BY <2>1, <3>1 DEF Assigned
  <2>3. CASE ~IsTracked(i)
    BY <1>4, <1>6, <2>1, <2>3
  <2> QED
    BY <2>2, <2>3
<1> HIDE DEF d
<1>9. Matches(d, f)
  <2> HIDE DEF env
  <2> QED
    BY <1>3, <1>7, <1>8 DEF Matches
<1>10. f.trace = IF IsSilent(i) THEN c.trace ELSE Append(c.trace, <<i.kind, i.op, Values(c.env, i), v>>)
  <2>1. e.trace = c.trace
    BY DEF Matches
  <2> QED
    BY <1>1, <1>2, <1>4, <1>6, <2>1
<1>11. ~IsTerminator(i)
  BY <1>3, <1>6
<1>12. Compute(i, c, d)
  BY <1>1, <1>5, <1>7, <1>10, <1>11 DEF Compute
<1> QED
  BY <1>9, <1>12

LEMMA FinishBack ==
  ASSUME NEW c, NEW i, NEW j, AtTurn(c, i, j), i.res \notin DOMAIN renames, CanRead(c.env, i),
         NEW e, NEW f, Matches(c, e), Finish(j, e, f)
  PROVE  \E d : Finish(i, c, d) /\ Matches(d, f)
<1>1. j.kind = i.kind /\ j.op = i.op /\ ~i.removed
  BY InTurn DEF AtTurn
<1>2. Values(e.env, j) = Values(c.env, i)
  BY ReadsBack
<1>3. /\ j.kind = "ret" /\ f.at = Returned /\ f.env = e.env
      /\ f.trace = Append(e.trace, <<j.kind, j.op, Values(e.env, j), 0>>)
  BY DEF Finish
<1> DEFINE d == [at |-> Returned, pc |-> f.pc, env |-> c.env, trace |-> f.trace]
<1>4. d.at = Returned /\ d.pc = f.pc /\ d.env = c.env /\ d.trace = f.trace
  OBVIOUS
<1> HIDE DEF d
<1>5. e.trace = c.trace
  BY DEF Matches
<1>6. Matches(d, f)
  BY <1>3, <1>4 DEF Matches
<1>7. Finish(i, c, d)
  BY <1>1, <1>2, <1>3, <1>4, <1>5 DEF Finish
<1> QED
  BY <1>6, <1>7

\* The environment of the given function behind the phis of b, when the other one
\* has f.env there.
Arrived(c, f, b) ==
  LET res == {phi.res : phi \in ToSet(given[b].phi)}
  IN [x \in DOMAIN c.env \cup res |-> IF x \in res THEN f.env[x] ELSE c.env[x]]

LEMMA ArriveBack ==
  ASSUME Left, NEW c, Good(c), \A u : Settled(c, u), NEW e, Matches(c, e), NEW f,
         NEW b \in DOMAIN given, Arrive(ToSet(blocks[b].phi), e, f),
         \A phi \in ToSet(given[b].phi) : \A o \in ToSet(phi.val) :
           o[2] = c.at => Readable(c.env, o[1]),
         NEW d, d.env = Arrived(c, f, b)
  PROVE  /\ Arrive(ToSet(given[b].phi), c, d)
         /\ DOMAIN f.env = DOMAIN d.env \ DOMAIN renames
         /\ \A x \in DOMAIN f.env : f.env[x] = d.env[x]
<1> DEFINE phis == given[b].phi
           left == blocks[b].phi
           res == {phi.res : phi \in ToSet(phis)}
<1>1. /\ DOMAIN left = DOMAIN phis
      /\ \A n \in DOMAIN phis :
           /\ left[n].res = phis[n].res /\ DOMAIN left[n].val = DOMAIN phis[n].val
           /\ \A k \in DOMAIN phis[n].val :
                left[n].val[k] = <<Resolve(renames, phis[n].val[k][1]), phis[n].val[k][2]>>
  BY PhisLeft
<1>2. /\ DOMAIN f.env = DOMAIN e.env \cup {phi.res : phi \in ToSet(left)}
      /\ \A phi \in ToSet(left) : \E o \in ToSet(phi.val) :
           o[2] = e.at /\ Readable(e.env, o[1]) /\ f.env[phi.res] = Value(e.env, o[1])
      /\ \A x \in DOMAIN e.env : (\A phi \in ToSet(left) : phi.res # x) => f.env[x] = e.env[x]
  BY DEF Arrive
<1>3. \A n \in DOMAIN phis : phis[n] \in ToSet(phis) /\ left[n] \in ToSet(left)
  BY <1>1 DEF ToSet
<1>4. /\ \A phi \in ToSet(phis) : \E n \in DOMAIN phis : phi = phis[n]
      /\ \A phi \in ToSet(left) : \E n \in DOMAIN phis : phi = left[n]
  BY <1>1 DEF ToSet
<1>5. \A phi \in ToSet(phis) : phi.res \notin DOMAIN renames
  BY Renames
<1>6. \A phi \in ToSet(phis) : \A o \in ToSet(phi.val) : o[2] = c.at => Readable(c.env, o[1])
  OBVIOUS
<1>7. /\ DOMAIN d.env = DOMAIN c.env \cup res
      /\ \A x \in DOMAIN d.env : d.env[x] = IF x \in res THEN f.env[x] ELSE c.env[x]
  BY DEF Arrived
<1> HIDE DEF phis, left, res
<1>8. /\ \A x : x \in res <=> \E phi \in ToSet(phis) : phi.res = x
      /\ \A x : x \in res <=> \E phi \in ToSet(left) : phi.res = x
  BY <1>1, <1>3, <1>4 DEF res
<1>9. e.at = c.at /\ DOMAIN e.env = DOMAIN c.env \ DOMAIN renames /\ \A x \in DOMAIN e.env : e.env[x] = c.env[x]
  BY DEF Matches
<1>10. \A x : x \in res => x \notin DOMAIN renames
  BY <1>5, <1>8
<1>11. DOMAIN f.env = DOMAIN e.env \cup res
  <2>1. {phi.res : phi \in ToSet(left)} = res
    BY <1>8
  <2> QED
    BY <1>2, <2>1
<1>12. DOMAIN f.env = DOMAIN d.env \ DOMAIN renames
  BY <1>7, <1>9, <1>10, <1>11
<1>13. ASSUME NEW x \in DOMAIN f.env PROVE f.env[x] = d.env[x]
  <2>1. x \in DOMAIN d.env
    BY <1>12
  <2>2. CASE x \in res
    BY <1>7, <2>1, <2>2
  <2>3. CASE x \notin res
    <3>1. x \in DOMAIN e.env
      BY <1>11, <2>3
    <3>2. f.env[x] = e.env[x]
      BY <1>2, <1>8, <2>3, <3>1
    <3> QED
      BY <1>7, <1>9, <2>1, <2>3, <3>1, <3>2
  <2> QED
    BY <2>2, <2>3
<1>14. ASSUME NEW phi \in ToSet(phis)
       PROVE  \E o \in ToSet(phi.val) :
                o[2] = c.at /\ Readable(c.env, o[1]) /\ d.env[phi.res] = Value(c.env, o[1])
  <2>1. PICK n \in DOMAIN phis : phi = phis[n]
    BY <1>4
  <2>2. PICK o \in ToSet(left[n].val) :
          o[2] = e.at /\ Readable(e.env, o[1]) /\ f.env[left[n].res] = Value(e.env, o[1])
    BY <1>2, <1>3
  <2>3. PICK k \in DOMAIN phis[n].val : o = left[n].val[k]
    BY <1>1 DEF ToSet
  <2> DEFINE g == phis[n].val[k]
  <2>4. g \in ToSet(phi.val) /\ o = <<Resolve(renames, g[1]), g[2]>>
    BY <1>1, <2>1, <2>3 DEF ToSet
  <2> HIDE DEF g
  <2>5. g[2] = c.at /\ o[1] = Resolve(renames, g[1])
    BY <1>9, <2>2, <2>4
  <2>6. Readable(c.env, g[1])
    BY <1>6, <2>4, <2>5
  <2>7. Value(PrunedEnv(c.env), o[1]) = Value(c.env, g[1])
    BY <2>5, <2>6, ReadsSame
  <2>8. Value(e.env, o[1]) = Value(PrunedEnv(c.env), o[1])
    BY <2>2, MatchesPruned
  <2>9. phi.res \in res /\ left[n].res = phi.res
    BY <1>1, <1>8, <2>1
  <2>10. d.env[phi.res] = f.env[phi.res]
    BY <1>7, <2>9
  <2> QED
    BY <2>2, <2>4, <2>5, <2>6, <2>7, <2>8, <2>9, <2>10
<1>15. ASSUME NEW x \in DOMAIN c.env, \A phi \in ToSet(phis) : phi.res # x
       PROVE  d.env[x] = c.env[x]
  BY <1>7, <1>8, <1>15
<1>16. DOMAIN d.env = DOMAIN c.env \cup {phi.res : phi \in ToSet(phis)}
  BY <1>7 DEF res
<1>17. Arrive(ToSet(phis), c, d)
  BY <1>14, <1>15, <1>16 DEF Arrive
<1> QED
  BY <1>12, <1>13, <1>17 DEF phis

LEMMA LeaveBack ==
  ASSUME NEW c, NEW i, NEW j, AtTurn(c, i, j), i.res \notin DOMAIN renames, ReadsAt(given, c),
         NEW e, NEW f, Matches(c, e), Leave(blocks, j, e, f)
  PROVE  \E d : Leave(given, i, c, d) /\ Matches(d, f)
<1> DEFINE d == [at |-> f.at, pc |-> 1, env |-> Arrived(c, f, f.at), trace |-> c.trace]
<1>0. /\ Left /\ Good(c) /\ c.at \in DOMAIN given /\ c.pc \in DOMAIN given[c.at].ins
      /\ i = given[c.at].ins[c.pc] /\ ~i.removed /\ c.pc \in Nat
  BY DEF AtTurn, Good
<1>1. /\ j.kind \in {"jmp", "br"}
      /\ \/ j.kind = "jmp" /\ f.at = j.to[1]
         \/ /\ j.kind = "br" /\ Readable(e.env, j.use[1])
            /\ f.at = j.to[IF Value(e.env, j.use[1]) # 0 THEN 1 ELSE 2]
      /\ f.pc = 1 /\ f.trace = e.trace
      /\ Arrive(ToSet(blocks[f.at].phi), e, f)
  BY DEF Leave
<1>2. /\ j.kind = i.kind /\ j.to = i.to
      /\ <<c.at, c.pc>> \in LivePositions(given) /\ At(given, <<c.at, c.pc>>) = i
  BY InTurn
<1>3. i \in ToSet(given[c.at].ins) /\ Shapely(given)
  BY <1>0, LeftFacts DEF ToSet
<1>4. /\ i.kind \in {"jmp", "br"} => i.to[1] \in DOMAIN given
      /\ i.kind = "br" => i.to[2] \in DOMAIN given /\ 1 \in DOMAIN i.use
  BY <1>0, <1>3 DEF Shapely
<1>5. f.at \in DOMAIN given
  BY <1>1, <1>2, <1>4
<1>6. /\ CanRead(c.env, i)
      /\ \A b \in DOMAIN given : \A phi \in ToSet(given[b].phi) : \A o \in ToSet(phi.val) :
           o[2] = c.at => Readable(c.env, o[1])
  BY <1>0, <1>1, <1>2 DEF ReadsAt
<1>7. \A u : Settled(c, u)
  BY <1>0, <1>1, <1>2, AllSettled DEF IsTerminator
<1>8. i.kind = "br" => Readable(c.env, i.use[1]) /\ Value(e.env, j.use[1]) = Value(c.env, i.use[1])
  <2> SUFFICES ASSUME i.kind = "br"
               PROVE  Readable(c.env, i.use[1]) /\ Value(e.env, j.use[1]) = Value(c.env, i.use[1])
    OBVIOUS
  <2>1. 1 \in DOMAIN i.use /\ Readable(c.env, i.use[1])
    BY <1>4, <1>6 DEF CanRead
  <2>2. /\ Readable(PrunedEnv(c.env), j.use[1])
        /\ Value(PrunedEnv(c.env), j.use[1]) = Value(c.env, i.use[1])
    BY <2>1, OperandsSame
  <2> QED
    BY <2>1, <2>2, MatchesPruned
<1>9. d.at = f.at /\ d.pc = 1 /\ d.env = Arrived(c, f, f.at) /\ d.trace = c.trace
  OBVIOUS
<1> HIDE DEF d
<1>10. /\ Arrive(ToSet(given[f.at].phi), c, d)
       /\ DOMAIN f.env = DOMAIN d.env \ DOMAIN renames
       /\ \A x \in DOMAIN f.env : f.env[x] = d.env[x]
  BY <1>0, <1>1, <1>5, <1>6, <1>7, <1>9, ArriveBack
<1>11. Leave(given, i, c, d)
  BY <1>0, <1>1, <1>2, <1>8, <1>9, <1>10 DEF Leave
<1>12. Matches(d, f)
  BY <1>1, <1>9, <1>10 DEF Matches
<1> QED
  BY <1>11, <1>12

LEMMA StepBack ==
  ASSUME Left, NEW c, NEW e, NEW f, Good(c), ReadsAt(given, c), Matches(c, e), Step(blocks, e, f)
  PROVE  \E d : Step(given, c, d) /\ Matches(d, f)
<1>1. e.at = c.at /\ e.pc = c.pc
  BY DEF Matches
<1>2. BlocksRewritten
  BY DEF Left, CSEInv
<1>3. c.at \in DOMAIN given /\ c.pc \in DOMAIN given[c.at].ins
  BY <1>1, <1>2 DEF Step, BlocksRewritten
<1> DEFINE i == given[c.at].ins[c.pc]
           j == blocks[c.at].ins[c.pc]
<1>4. Skip(j, e, f) \/ Compute(j, e, f) \/ Finish(j, e, f) \/ Leave(blocks, j, e, f)
  BY <1>1 DEF Step
<1>5. \A d : Skip(i, c, d) \/ Compute(i, c, d) \/ Finish(i, c, d) \/ Leave(given, i, c, d) =>
        Step(given, c, d)
  BY <1>3 DEF Step
<1>6. i.removed => j = i
  BY <1>2, <1>3 DEF BlocksRewritten, Rewritten
<1>7. ~i.removed => AtTurn(c, i, j) /\ CanRead(c.env, i) /\ j.removed = (i.res \in DOMAIN renames)
  <2> SUFFICES ASSUME ~i.removed
               PROVE  AtTurn(c, i, j) /\ CanRead(c.env, i) /\ j.removed = (i.res \in DOMAIN renames)
    OBVIOUS
  <2>1. AtTurn(c, i, j)
    BY <1>3 DEF AtTurn
  <2>2. CanRead(c.env, i)
    BY <1>3 DEF ReadsAt
  <2> HIDE DEF i, j
  <2> QED
    BY <2>1, <2>2, InTurn
<1>8. CASE i.removed
  <2>1. Skip(j, e, f)
    BY <1>4, <1>6, <1>8 DEF Compute, Finish, Leave
  <2>2. \E d : Skip(i, c, d) /\ Matches(d, f)
    BY <1>3, <1>8, <2>1, SkipBack
  <2> QED
    BY <1>5, <2>2
<1>9. CASE ~i.removed
  <2> HIDE DEF i, j
  <2>1. AtTurn(c, i, j) /\ CanRead(c.env, i) /\ j.removed = (i.res \in DOMAIN renames)
    BY <1>7, <1>9
  <2>2. CASE i.res \in DOMAIN renames
    <3>1. Skip(j, e, f)
      BY <1>4, <2>1, <2>2 DEF Compute, Finish, Leave
    <3>2. \E d : Compute(i, c, d) /\ Matches(d, f)
      BY <2>1, <2>2, <3>1, AddressBack
    <3> QED
      BY <1>5, <3>2
  <2>3. CASE i.res \notin DOMAIN renames
    <3>1. Compute(j, e, f) \/ Finish(j, e, f) \/ Leave(blocks, j, e, f)
      BY <1>4, <2>1, <2>3 DEF Skip
    <3>2. CASE Compute(j, e, f)
      BY <1>5, <2>1, <2>3, <3>2, ComputeBack
    <3>3. CASE Finish(j, e, f)
      BY <1>5, <2>1, <2>3, <3>3, FinishBack
    <3>4. CASE Leave(blocks, j, e, f)
      BY <1>5, <2>1, <2>3, <3>4, LeaveBack
    <3> QED
      BY <3>1, <3>2, <3>3, <3>4
  <2> QED
    BY <2>2, <2>3
<1> QED
  BY <1>8, <1>9

\* One step more of an execution.
LEMMA Longer ==
  ASSUME NEW bs, NEW n \in Nat, NEW run, Execution(bs, run, n), NEW d, Step(bs, run[n], d)
  PROVE  \E more : Execution(bs, more, n + 1) /\ more[n + 1] = d
<1> DEFINE more == [k \in 0 .. n + 1 |-> IF k = n + 1 THEN d ELSE run[k]]
<1>1. /\ \A k \in 0 .. n : more[k] = run[k]
      /\ more[n + 1] = d /\ more[0] = run[0]
  OBVIOUS
<1> HIDE DEF more
<1>2. ASSUME NEW k \in 0 .. (n + 1) - 1 PROVE Step(bs, more[k], more[k + 1])
  <2>1. CASE k = n
    BY <1>1, <2>1
  <2>2. CASE k # n
    <3>1. k \in 0 .. n - 1 /\ k \in 0 .. n /\ k + 1 \in 0 .. n
      BY <2>2
    <3> QED
      BY <1>1, <3>1 DEF Execution
  <2> QED
    BY <2>1, <2>2
<1>3. Execution(bs, more, n + 1)
  BY <1>1, <1>2 DEF Execution
<1> QED
  BY <1>1, <1>3

\* Where the given function is when the other one is at e.
Behind(e, n) ==
  \E run : /\ Execution(given, run, n) /\ Matches(run[n], e)
           /\ run[n].at = Returned \/ Good(run[n])

LEMMA StartBack ==
  ASSUME Left, NEW e, e.at = 0, e.pc = 1, e.trace = << >>, DOMAIN e.env = ToSet(params)
  PROVE  Behind(e, 0)
<1> DEFINE run == [k \in {0} |-> e]
<1>1. run[0] = e
  OBVIOUS
<1> HIDE DEF run
<1>2. Good(e) /\ \A x \in DOMAIN renames : x \notin DOMAIN e.env
  BY GoodStart, Renames
<1>3. Matches(e, e)
  BY <1>2 DEF Matches
<1>4. Execution(given, run, 0)
  BY <1>1 DEF Execution
<1> QED
  BY <1>1, <1>2, <1>3, <1>4 DEF Behind

LEMMA StepBehind ==
  ASSUME Left, AlwaysReads(given), NEW e, NEW f, NEW n \in Nat, Behind(e, n), Step(blocks, e, f)
  PROVE  Behind(f, n + 1)
<1>1. PICK run : /\ Execution(given, run, n) /\ Matches(run[n], e)
                 /\ run[n].at = Returned \/ Good(run[n])
  BY DEF Behind
<1> DEFINE c == run[n]
<1>2. Reaches(given, c)
  BY <1>1 DEF Reaches
<1> HIDE DEF c
<1>3. ReadsAt(given, c)
  BY <1>2 DEF AlwaysReads
<1>4. c.at # Returned
  <2>1. e.at \in DOMAIN given
    BY LeftFacts DEF Step
  <2>2. e.at \in Nat
    BY <2>1, LeftFacts DEF Shapely
  <2> QED
    BY <1>1, <2>2 DEF Matches, Returned, c
<1>5. Good(c) /\ Matches(c, e)
  BY <1>1, <1>4 DEF c
<1>6. PICK d : Step(given, c, d) /\ Matches(d, f)
  BY <1>3, <1>5, StepBack
<1>7. d.at = Returned \/ Good(d)
  BY <1>5, <1>6, StepKept
<1>8. Execution(given, run, n) /\ Step(given, run[n], d)
  BY <1>1, <1>6 DEF c
<1>9. \E more : Execution(given, more, n + 1) /\ more[n + 1] = d
  BY <1>8, Longer
<1>10. PICK more : Execution(given, more, n + 1) /\ more[n + 1] = d
  BY <1>9
<1> QED
  BY <1>6, <1>7, <1>10 DEF Behind

\* Where the given function can read what it has to, the other one can.
LEMMA ReadsLeft ==
  ASSUME Left, NEW c, NEW e, c.at = Returned \/ Good(c), ReadsAt(given, c), Matches(c, e)
  PROVE  ReadsAt(blocks, e)
<1>1. e.at = c.at /\ e.pc = c.pc
  BY DEF Matches
<1>2. DOMAIN blocks = DOMAIN given /\ BlocksRewritten /\ Shapely(given)
  BY LeftFacts DEF Left, CSEInv
<1> DEFINE i == given[c.at].ins[c.pc]
           j == blocks[c.at].ins[c.pc]
<1> SUFFICES ASSUME c.at \in DOMAIN given, c.pc \in DOMAIN blocks[c.at].ins, ~j.removed
             PROVE  /\ CanRead(e.env, j)
                    /\ \A b \in DOMAIN given : \A phi \in ToSet(blocks[b].phi) :
                         \A o \in ToSet(phi.val) :
                           j.kind \in {"br", "jmp"} /\ o[2] = c.at => Readable(e.env, o[1])
  BY <1>1, <1>2 DEF ReadsAt
<1>3. c.pc \in DOMAIN given[c.at].ins
  BY <1>2 DEF BlocksRewritten
<1>4. Good(c)
  <2>1. c.at \in Nat
    BY <1>2 DEF Shapely
  <2> QED
    BY <2>1 DEF Returned
<1>5. ~i.removed
  BY <1>2, <1>3 DEF BlocksRewritten, Rewritten
<1>6. AtTurn(c, i, j)
  BY <1>3, <1>4, <1>5 DEF AtTurn
<1>7. /\ CanRead(c.env, i)
      /\ \A b \in DOMAIN given : \A phi \in ToSet(given[b].phi) : \A o \in ToSet(phi.val) :
           i.kind \in {"br", "jmp"} /\ o[2] = c.at => Readable(c.env, o[1])
  BY <1>3, <1>5 DEF ReadsAt
<1> HIDE DEF i, j
<1>8. /\ i.res \notin DOMAIN renames /\ j.kind = i.kind /\ DOMAIN j.use = DOMAIN i.use
      /\ <<c.at, c.pc>> \in LivePositions(given) /\ At(given, <<c.at, c.pc>>) = i
  BY <1>6, InTurn
<1>9. CanRead(e.env, j)
  <2> SUFFICES ASSUME NEW k \in DOMAIN i.use PROVE Readable(e.env, j.use[k])
    BY <1>8 DEF CanRead
  <2>1. Readable(c.env, i.use[k])
    BY <1>7 DEF CanRead
  <2>2. Readable(PrunedEnv(c.env), j.use[k])
    BY <1>6, <1>8, <2>1, OperandsSame
  <2> QED
    BY <2>2, MatchesPruned
<1>10. ASSUME j.kind \in {"br", "jmp"}, NEW b \in DOMAIN given, NEW phi \in ToSet(blocks[b].phi),
              NEW o \in ToSet(phi.val), o[2] = c.at
       PROVE  Readable(e.env, o[1])
  <2> DEFINE phis == given[b].phi
             left == blocks[b].phi
  <2>1. /\ DOMAIN left = DOMAIN phis
        /\ \A n \in DOMAIN phis :
             /\ DOMAIN left[n].val = DOMAIN phis[n].val
             /\ \A k \in DOMAIN phis[n].val :
                  left[n].val[k] = <<Resolve(renames, phis[n].val[k][1]), phis[n].val[k][2]>>
    BY PhisLeft
  <2>2. \A old \in ToSet(phis) : \A g \in ToSet(old.val) : g[2] = c.at => Readable(c.env, g[1])
    BY <1>7, <1>8, <1>10
  <2>3. phi \in ToSet(left)
    OBVIOUS
  <2> HIDE DEF phis, left
  <2>4. PICK n \in DOMAIN phis : phi = left[n]
    BY <2>1, <2>3 DEF ToSet
  <2>5. PICK k \in DOMAIN phis[n].val : o = left[n].val[k]
    BY <2>1, <2>4 DEF ToSet
  <2> DEFINE g == phis[n].val[k]
  <2>6. phis[n] \in ToSet(phis) /\ g \in ToSet(phis[n].val) /\ o = <<Resolve(renames, g[1]), g[2]>>
    BY <2>1, <2>5 DEF ToSet
  <2> HIDE DEF g
  <2>7. o[1] = Resolve(renames, g[1]) /\ g[2] = c.at
    BY <1>10, <2>6
  <2>8. Readable(c.env, g[1])
    BY <2>2, <2>6, <2>7
  <2>9. Settled(c, g[1])
    BY <1>4, <1>8, <1>10, AllSettled DEF IsTerminator, Good
  <2>10. Readable(PrunedEnv(c.env), o[1])
    BY <1>4, <2>7, <2>8, <2>9, ReadsSame
  <2> QED
    BY <2>10, MatchesPruned
<1> QED
  BY <1>9, <1>10

LEMMA RunBack ==
  ASSUME Left, AlwaysReads(given), NEW n \in Nat, NEW run, Execution(blocks, run, n)
  PROVE  /\ ReadsAt(blocks, run[n])
         /\ \E c : Reaches(given, c) /\ c.at = run[n].at /\ c.trace = run[n].trace
<1>1. /\ run[0].at = 0 /\ run[0].pc = 1 /\ run[0].trace = << >>
      /\ DOMAIN run[0].env = ToSet(params)
      /\ \A k \in 0 .. n - 1 : Step(blocks, run[k], run[k + 1])
  BY DEF Execution
<1> DEFINE S == {k \in 0 .. n : Behind(run[k], k)}
<1>2. 0 \in S
  BY <1>1, StartBack
<1>3. ASSUME NEW k \in S, k < n PROVE k + 1 \in S
  <2>1. k \in 0 .. n - 1 /\ k + 1 \in 0 .. n /\ k \in Nat /\ Behind(run[k], k)
    BY <1>3
  <2>2. Step(blocks, run[k], run[k + 1])
    BY <1>1, <2>1
  <2>3. Behind(run[k + 1], k + 1)
    BY <2>1, <2>2, StepBehind
  <2> QED
    BY <2>1, <2>3
<1> HIDE DEF S
<1>4. \A k \in 0 .. n : k \in S
  BY <1>2, <1>3, UpTo DEF S
<1>5. Behind(run[n], n)
  BY <1>4 DEF S
<1>6. PICK back : /\ Execution(given, back, n) /\ Matches(back[n], run[n])
                  /\ back[n].at = Returned \/ Good(back[n])
  BY <1>5 DEF Behind
<1>7. Reaches(given, back[n])
  BY <1>6 DEF Reaches
<1>8. ReadsAt(given, back[n])
  BY <1>7 DEF AlwaysReads
<1>9. ReadsAt(blocks, run[n])
  BY <1>6, <1>8, ReadsLeft
<1> QED
  BY <1>6, <1>7, <1>9 DEF Matches

\* CSE adds no execution: whatever the function that is left does, the one it was
\* given could do, when that one never reads a variable that has no value; and then
\* the one that is left never does either.
THEOREM Added == CSESpec => []SharingAdds
<1>1. ASSUME CSEInv PROVE SharingAdds
  <2> SUFFICES ASSUME phase = "shared", AlwaysReads(given), NEW d, Reaches(blocks, d)
               PROVE  /\ ReadsAt(blocks, d)
                      /\ \E c : Reaches(given, c) /\ c.at = d.at /\ c.trace = d.trace
    BY DEF SharingAdds, AlwaysReads
  <2>1. Left
    BY <1>1 DEF Left
  <2>2. PICK n \in Nat : \E run : Execution(blocks, run, n) /\ run[n] = d
    BY DEF Reaches
  <2>3. PICK run : Execution(blocks, run, n) /\ run[n] = d
    BY <2>2
  <2> QED
    BY <2>1, <2>3, RunBack
<1> QED
  BY <1>1, Sharing, PTL
==============================================================================
