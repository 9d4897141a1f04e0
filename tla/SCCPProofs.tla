------------------------------ MODULE SCCPProofs ------------------------------
(* The fixed point of sparse conditional constant propagation: the lattice    *)
(* only goes down, and when both worklists are empty it is a solution, for    *)
(* every function in SSA form whose critical edges are split.                 *)
EXTENDS SCCP, SequenceTheorems, WellFoundedInduction, TLAPS

------------------------------------------------------------------------------
(* Induction, and the folds over phis, instructions and blocks.              *)

\* Induction up to a bound, for a set of numbers.
LEMMA UpTo ==
  ASSUME NEW N \in Nat, NEW S \in SUBSET (0 .. N), 0 \in S,
         \A n \in S : n < N => n + 1 \in S
  PROVE  \A n \in 0 .. N : n \in S
<1> DEFINE Missed == (0 .. N) \ S
<1>1. SUFFICES ASSUME Missed # {} PROVE FALSE
  OBVIOUS
<1>2. Missed \in SUBSET Nat
  OBVIOUS
<1>3. PICK n \in Missed : \A j \in Missed : ~(<<j, n>> \in OpToRel(<, Nat))
  <2> HIDE DEF Missed
  <2> QED
    BY <1>1, <1>2, WFMin, NatLessThanWellFounded
<1>4. n # 0 /\ n \in 0 .. N
  BY <1>3
<1>5. n - 1 \in 0 .. N /\ n - 1 < N /\ (n - 1) + 1 = n
  BY <1>4
<1>6. \A j \in Missed : ~(j < n)
  BY <1>2, <1>3 DEF OpToRel
<1> QED
  BY <1>4, <1>5, <1>6

\* EvalPhis is the last of the states after 0, 1, ... Len(q) places.
PhiTrace(f, s, q, K) ==
  f = [k \in 0 .. Len(q) |-> IF k = 0 THEN s ELSE IF k \in K THEN EvalPhi(f[k - 1], q[k]) ELSE f[k - 1]]

LEMMA PhiTraceExists ==
  ASSUME NEW s, NEW q, NEW K, Len(q) \in Nat
  PROVE  \E f : PhiTrace(f, s, q, K) /\ EvalPhis(s, q, K) = f[Len(q)]
<1> DEFINE Upto(f, n) ==
             f = [k \in 0 .. n |-> IF k = 0 THEN s ELSE IF k \in K THEN EvalPhi(f[k - 1], q[k]) ELSE f[k - 1]]
           S == {n \in 0 .. Len(q) : \E f : Upto(f, n)}
<1>1. 0 \in S
  <2>1. Upto([k \in 0 .. 0 |-> s], 0)
    OBVIOUS
  <2>2. 0 \in 0 .. Len(q)
    OBVIOUS
  <2> HIDE DEF Upto
  <2> QED
    BY <2>1, <2>2
<1>2. ASSUME NEW n \in S, n < Len(q) PROVE n + 1 \in S
  <2>1. PICK f : Upto(f, n)
    OBVIOUS
  <2> DEFINE g == [k \in 0 .. n + 1 |-> IF k <= n THEN f[k] ELSE IF n + 1 \in K THEN EvalPhi(f[n], q[n + 1]) ELSE f[n]]
  <2>2. Upto(g, n + 1)
    <3>1. n \in Nat /\ n \in 0 .. n
      OBVIOUS
    <3> SUFFICES ASSUME NEW k \in 0 .. n + 1
                 PROVE  g[k] = IF k = 0 THEN s ELSE IF k \in K THEN EvalPhi(g[k - 1], q[k]) ELSE g[k - 1]
      OBVIOUS
    <3>2. CASE k = n + 1
      <4>1. g[k - 1] = f[n] /\ k # 0 /\ ~(k <= n)
        BY <3>1, <3>2
      <4>2. (n + 1) - 1 = n
        BY <3>1
      <4> QED
        BY <3>2, <4>1, <4>2
    <3>3. CASE k \in 0 .. n /\ k # 0
      <4>1. k - 1 \in 0 .. n /\ k - 1 <= n /\ k <= n /\ k - 1 \in 0 .. n + 1
        BY <3>1, <3>3
      <4>2. g[k] = f[k] /\ g[k - 1] = f[k - 1]
        BY <4>1
      <4>3. f[k] = IF k = 0 THEN s ELSE IF k \in K THEN EvalPhi(f[k - 1], q[k]) ELSE f[k - 1]
        BY <2>1, <3>3
      <4> QED
        BY <3>3, <4>2, <4>3
    <3>4. CASE k = 0
      <4>1. g[0] = f[0] /\ f[0] = s
        BY <2>1, <3>1
      <4> QED
        BY <3>4, <4>1
    <3> QED
      BY <3>1, <3>2, <3>3, <3>4
  <2>3. n + 1 \in 0 .. Len(q)
    BY <1>2
  <2> HIDE DEF Upto, g
  <2> QED
    BY <2>2, <2>3
<1>3. \E f : Upto(f, Len(q))
  <2>1. S \in SUBSET (0 .. Len(q))
    OBVIOUS
  <2>2. Len(q) \in 0 .. Len(q)
    OBVIOUS
  <2> HIDE DEF S, Upto
  <2>3. Len(q) \in S
    BY <1>1, <1>2, <2>1, <2>2, UpTo
  <2> QED
    BY <2>3 DEF S
<1> DEFINE after == CHOOSE f : Upto(f, Len(q))
<1>4. Upto(after, Len(q))
  BY <1>3
<1>5. EvalPhis(s, q, K) = after[Len(q)]
  BY DEF EvalPhis
<1> QED
  BY <1>4, <1>5 DEF PhiTrace

\* The same for the instructions of a block.
InsTrace(f, s, q, K) ==
  f = [k \in 0 .. Len(q) |-> IF k = 0 THEN s ELSE IF k \in K THEN EvalIns(f[k - 1], q[k]) ELSE f[k - 1]]

LEMMA InsTraceExists ==
  ASSUME NEW s, NEW q, NEW K, Len(q) \in Nat
  PROVE  \E f : InsTrace(f, s, q, K) /\ EvalInss(s, q, K) = f[Len(q)]
<1> DEFINE Upto(f, n) ==
             f = [k \in 0 .. n |-> IF k = 0 THEN s ELSE IF k \in K THEN EvalIns(f[k - 1], q[k]) ELSE f[k - 1]]
           S == {n \in 0 .. Len(q) : \E f : Upto(f, n)}
<1>1. 0 \in S
  <2>1. Upto([k \in 0 .. 0 |-> s], 0)
    OBVIOUS
  <2>2. 0 \in 0 .. Len(q)
    OBVIOUS
  <2> HIDE DEF Upto
  <2> QED
    BY <2>1, <2>2
<1>2. ASSUME NEW n \in S, n < Len(q) PROVE n + 1 \in S
  <2>1. PICK f : Upto(f, n)
    OBVIOUS
  <2> DEFINE g == [k \in 0 .. n + 1 |-> IF k <= n THEN f[k] ELSE IF n + 1 \in K THEN EvalIns(f[n], q[n + 1]) ELSE f[n]]
  <2>2. Upto(g, n + 1)
    <3>1. n \in Nat /\ n \in 0 .. n
      OBVIOUS
    <3> SUFFICES ASSUME NEW k \in 0 .. n + 1
                 PROVE  g[k] = IF k = 0 THEN s ELSE IF k \in K THEN EvalIns(g[k - 1], q[k]) ELSE g[k - 1]
      OBVIOUS
    <3>2. CASE k = n + 1
      <4>1. g[k - 1] = f[n] /\ k # 0 /\ ~(k <= n)
        BY <3>1, <3>2
      <4>2. (n + 1) - 1 = n
        BY <3>1
      <4> QED
        BY <3>2, <4>1, <4>2
    <3>3. CASE k \in 0 .. n /\ k # 0
      <4>1. k - 1 \in 0 .. n /\ k - 1 <= n /\ k <= n /\ k - 1 \in 0 .. n + 1
        BY <3>1, <3>3
      <4>2. g[k] = f[k] /\ g[k - 1] = f[k - 1]
        BY <4>1
      <4>3. f[k] = IF k = 0 THEN s ELSE IF k \in K THEN EvalIns(f[k - 1], q[k]) ELSE f[k - 1]
        BY <2>1, <3>3
      <4> QED
        BY <3>3, <4>2, <4>3
    <3>4. CASE k = 0
      <4>1. g[0] = f[0] /\ f[0] = s
        BY <2>1, <3>1
      <4> QED
        BY <3>4, <4>1
    <3> QED
      BY <3>1, <3>2, <3>3, <3>4
  <2>3. n + 1 \in 0 .. Len(q)
    BY <1>2
  <2> HIDE DEF Upto, g
  <2> QED
    BY <2>2, <2>3
<1>3. \E f : Upto(f, Len(q))
  <2>1. S \in SUBSET (0 .. Len(q))
    OBVIOUS
  <2>2. Len(q) \in 0 .. Len(q)
    OBVIOUS
  <2> HIDE DEF S, Upto
  <2>3. Len(q) \in S
    BY <1>1, <1>2, <2>1, <2>2, UpTo
  <2> QED
    BY <2>3 DEF S
<1> DEFINE after == CHOOSE f : Upto(f, Len(q))
<1>4. Upto(after, Len(q))
  BY <1>3
<1>5. EvalInss(s, q, K) = after[Len(q)]
  BY DEF EvalInss
<1> QED
  BY <1>4, <1>5 DEF InsTrace

\* The same for the blocks in which a variable is read.
UseTrace(f, s, N, x) ==
  f = [k \in 0 .. N |-> IF k = 0 THEN s ELSE EvalUsesIn(f[k - 1], k - 1, x)]

LEMMA UseTraceExists ==
  ASSUME NEW s, NEW N, NEW x, N \in Nat
  PROVE  \E f : UseTrace(f, s, N, x) /\ EvalUsesBefore(s, N, x) = f[N]
<1> DEFINE Upto(f, n) ==
             f = [k \in 0 .. n |-> IF k = 0 THEN s ELSE EvalUsesIn(f[k - 1], k - 1, x)]
           S == {n \in 0 .. N : \E f : Upto(f, n)}
<1>1. 0 \in S
  <2>1. Upto([k \in 0 .. 0 |-> s], 0)
    OBVIOUS
  <2>2. 0 \in 0 .. N
    OBVIOUS
  <2> HIDE DEF Upto
  <2> QED
    BY <2>1, <2>2
<1>2. ASSUME NEW n \in S, n < N PROVE n + 1 \in S
  <2>1. PICK f : Upto(f, n)
    OBVIOUS
  <2> DEFINE g == [k \in 0 .. n + 1 |-> IF k <= n THEN f[k] ELSE EvalUsesIn(f[n], n, x)]
  <2>2. Upto(g, n + 1)
    <3>1. n \in Nat /\ n \in 0 .. n
      OBVIOUS
    <3> SUFFICES ASSUME NEW k \in 0 .. n + 1
                 PROVE  g[k] = IF k = 0 THEN s ELSE EvalUsesIn(g[k - 1], k - 1, x)
      OBVIOUS
    <3>2. CASE k = n + 1
      <4>1. g[k - 1] = f[n] /\ k # 0 /\ ~(k <= n)
        BY <3>1, <3>2
      <4>2. (n + 1) - 1 = n
        BY <3>1
      <4> QED
        BY <3>2, <4>1, <4>2
    <3>3. CASE k \in 0 .. n /\ k # 0
      <4>1. k - 1 \in 0 .. n /\ k - 1 <= n /\ k <= n /\ k - 1 \in 0 .. n + 1
        BY <3>1, <3>3
      <4>2. g[k] = f[k] /\ g[k - 1] = f[k - 1]
        BY <4>1
      <4>3. f[k] = IF k = 0 THEN s ELSE EvalUsesIn(f[k - 1], k - 1, x)
        BY <2>1, <3>3
      <4> QED
        BY <3>3, <4>2, <4>3
    <3>4. CASE k = 0
      <4>1. g[0] = f[0] /\ f[0] = s
        BY <2>1, <3>1
      <4> QED
        BY <3>4, <4>1
    <3> QED
      BY <3>1, <3>2, <3>3, <3>4
  <2>3. n + 1 \in 0 .. N
    BY <1>2
  <2> HIDE DEF Upto, g
  <2> QED
    BY <2>2, <2>3
<1>3. \E f : Upto(f, N)
  <2>1. S \in SUBSET (0 .. N)
    OBVIOUS
  <2>2. N \in 0 .. N
    OBVIOUS
  <2> HIDE DEF S, Upto
  <2>3. N \in S
    BY <1>1, <1>2, <2>1, <2>2, UpTo
  <2> QED
    BY <2>3 DEF S
<1> DEFINE after == CHOOSE f : Upto(f, N)
<1>4. Upto(after, N)
  BY <1>3
<1>5. EvalUsesBefore(s, N, x) = after[N]
  BY DEF EvalUsesBefore
<1> QED
  BY <1>4, <1>5 DEF UseTrace

\* The same for the meet of a sequence of cells.
MeetTrace(f, c) ==
  f = [k \in 0 .. Len(c) |-> IF k = 0 THEN Top ELSE Meet(f[k - 1], c[k])]

LEMMA MeetTraceExists ==
  ASSUME NEW c, Len(c) \in Nat
  PROVE  \E f : MeetTrace(f, c) /\ MeetAll(c) = f[Len(c)]
<1> DEFINE Upto(f, n) ==
             f = [k \in 0 .. n |-> IF k = 0 THEN Top ELSE Meet(f[k - 1], c[k])]
           S == {n \in 0 .. Len(c) : \E f : Upto(f, n)}
<1>1. 0 \in S
  <2>1. Upto([k \in 0 .. 0 |-> Top], 0)
    OBVIOUS
  <2>2. 0 \in 0 .. Len(c)
    OBVIOUS
  <2> HIDE DEF Upto
  <2> QED
    BY <2>1, <2>2
<1>2. ASSUME NEW n \in S, n < Len(c) PROVE n + 1 \in S
  <2>1. PICK f : Upto(f, n)
    OBVIOUS
  <2> DEFINE g == [k \in 0 .. n + 1 |-> IF k <= n THEN f[k] ELSE Meet(f[n], c[n + 1])]
  <2>2. Upto(g, n + 1)
    <3>1. n \in Nat /\ n \in 0 .. n
      OBVIOUS
    <3> SUFFICES ASSUME NEW k \in 0 .. n + 1
                 PROVE  g[k] = IF k = 0 THEN Top ELSE Meet(g[k - 1], c[k])
      OBVIOUS
    <3>2. CASE k = n + 1
      <4>1. g[k - 1] = f[n] /\ k # 0 /\ ~(k <= n)
        BY <3>1, <3>2
      <4>2. (n + 1) - 1 = n
        BY <3>1
      <4> QED
        BY <3>2, <4>1, <4>2
    <3>3. CASE k \in 0 .. n /\ k # 0
      <4>1. k - 1 \in 0 .. n /\ k - 1 <= n /\ k <= n /\ k - 1 \in 0 .. n + 1
        BY <3>1, <3>3
      <4>2. g[k] = f[k] /\ g[k - 1] = f[k - 1]
        BY <4>1
      <4>3. f[k] = IF k = 0 THEN Top ELSE Meet(f[k - 1], c[k])
        BY <2>1, <3>3
      <4> QED
        BY <3>3, <4>2, <4>3
    <3>4. CASE k = 0
      <4>1. g[0] = f[0] /\ f[0] = Top
        BY <2>1, <3>1
      <4> QED
        BY <3>4, <4>1
    <3> QED
      BY <3>1, <3>2, <3>3, <3>4
  <2>3. n + 1 \in 0 .. Len(c)
    BY <1>2
  <2> HIDE DEF Upto, g
  <2> QED
    BY <2>2, <2>3
<1>3. \E f : Upto(f, Len(c))
  <2>1. S \in SUBSET (0 .. Len(c))
    OBVIOUS
  <2>2. Len(c) \in 0 .. Len(c)
    OBVIOUS
  <2> HIDE DEF S, Upto
  <2>3. Len(c) \in S
    BY <1>1, <1>2, <2>1, <2>2, UpTo
  <2> QED
    BY <2>3 DEF S
<1> DEFINE after == CHOOSE f : Upto(f, Len(c))
<1>4. Upto(after, Len(c))
  BY <1>3
<1>5. MeetAll(c) = after[Len(c)]
  BY DEF MeetAll
<1> QED
  BY <1>4, <1>5 DEF MeetTrace

------------------------------------------------------------------------------
(* The lattice.                                                               *)

\* Below is the order of the lattice: top, what is known, bottom.
LEMMA BelowIs ==
  ASSUME NEW a, NEW b
  PROVE  Below(a, b) <=> (b = Top \/ a = b \/ a = Bottom)
<1>1. Top # Bottom
  BY DEF Top, Bottom
<1> QED
  BY <1>1 DEF Below, Meet

LEMMA BelowTransitive ==
  ASSUME NEW a, NEW b, NEW c, Below(a, b), Below(b, c)
  PROVE  Below(a, c)
  BY BelowIs DEF Top, Bottom

\* Meet is the greatest lower bound.
LEMMA MeetIs ==
  ASSUME NEW a, NEW b
  PROVE  /\ Below(Meet(a, b), a) /\ Below(Meet(a, b), b)
         /\ \A c : Below(c, a) /\ Below(c, b) => Below(c, Meet(a, b))
  BY BelowIs DEF Meet, Top, Bottom

\* So is MeetAll.
LEMMA MeetAllIs ==
  ASSUME NEW c, Len(c) \in Nat
  PROVE  /\ \A j \in 1 .. Len(c) : Below(MeetAll(c), c[j])
         /\ \A l : (\A j \in 1 .. Len(c) : Below(l, c[j])) => Below(l, MeetAll(c))
<1>1. PICK f : MeetTrace(f, c) /\ MeetAll(c) = f[Len(c)]
  BY MeetTraceExists
<1> DEFINE Lowest(n) ==
             /\ \A j \in 1 .. n : Below(f[n], c[j])
             /\ \A l : (\A j \in 1 .. n : Below(l, c[j])) => Below(l, f[n])
           S == {n \in 0 .. Len(c) : Lowest(n)}
<1>2. 0 \in S
  <2>1. f[0] = Top /\ 0 \in 0 .. Len(c)
    BY <1>1 DEF MeetTrace
  <2>2. \A l : Below(l, Top)
    BY BelowIs
  <2> QED
    BY <2>1, <2>2
<1>3. ASSUME NEW n \in S, n < Len(c) PROVE n + 1 \in S
  <2>1. /\ n + 1 \in 0 .. Len(c) /\ n + 1 # 0 /\ (n + 1) - 1 = n
        /\ \A j \in 1 .. n + 1 : j \in 1 .. n \/ j = n + 1
        /\ \A j \in 1 .. n : j \in 1 .. n + 1
        /\ n + 1 \in 1 .. n + 1
    BY <1>3
  <2>2. f[n + 1] = Meet(f[n], c[n + 1])
    BY <1>1, <2>1 DEF MeetTrace
  <2>3. /\ \A j \in 1 .. n : Below(f[n], c[j])
        /\ \A l : (\A j \in 1 .. n : Below(l, c[j])) => Below(l, f[n])
    OBVIOUS
  <2>4. \A j \in 1 .. n + 1 : Below(f[n + 1], c[j])
    <3>1. Below(f[n + 1], f[n]) /\ Below(f[n + 1], c[n + 1])
      BY <2>2, MeetIs
    <3> QED
      BY <2>1, <2>3, <3>1, BelowTransitive
  <2>5. ASSUME NEW l, \A j \in 1 .. n + 1 : Below(l, c[j])
        PROVE  Below(l, f[n + 1])
    BY <2>1, <2>2, <2>3, <2>5, MeetIs
  <2> QED
    BY <2>1, <2>4, <2>5
<1>4. Len(c) \in S
  <2>1. S \in SUBSET (0 .. Len(c))
    OBVIOUS
  <2>2. Len(c) \in 0 .. Len(c)
    OBVIOUS
  <2> HIDE DEF S
  <2> QED
    BY <1>2, <1>3, <2>1, <2>2, UpTo
<1> QED
  BY <1>1, <1>4

\* The meet of lower cells is lower.
LEMMA MeetAllMonotone ==
  ASSUME NEW c, NEW d, Len(c) \in Nat, Len(d) = Len(c),
         \A j \in 1 .. Len(c) : Below(d[j], c[j])
  PROVE  Below(MeetAll(d), MeetAll(c))
<1>1. \A j \in 1 .. Len(c) : Below(MeetAll(d), c[j])
  BY MeetAllIs, BelowTransitive
<1> QED
  BY <1>1, MeetAllIs

\* A phi whose predecessors may be more and whose operands are lower evaluates to
\* something lower.
LEMMA EvaluatePhiMonotone ==
  ASSUME NEW lat, NEW low, NEW exec, NEW more, exec \subseteq more, NEW phi,
         Len(phi.val) \in Nat,
         \A k \in 1 .. Len(phi.val) :
           Below(GetLattice(low, phi.val[k][1]), GetLattice(lat, phi.val[k][1]))
  PROVE  Below(EvaluatePhi(low, more, phi), EvaluatePhi(lat, exec, phi))
<1> DEFINE n == Len(phi.val)
           C(la, ex) == [k \in 1 .. n |->
                           IF phi.val[k][2] \in ex THEN GetLattice(la, phi.val[k][1]) ELSE Top]
<1>1. Len(C(lat, exec)) = n /\ Len(C(low, more)) = n
  BY LenProperties
<1>2. ASSUME NEW j \in 1 .. n PROVE Below(C(low, more)[j], C(lat, exec)[j])
  BY BelowIs
<1> QED
  BY <1>1, <1>2, MeetAllMonotone DEF EvaluatePhi

\* A phi evaluates to the same if nothing it looks at has changed.
LEMMA EvaluatePhiSame ==
  ASSUME NEW lat, NEW low, NEW exec, NEW more, NEW phi,
         \A k \in 1 .. Len(phi.val) :
           /\ phi.val[k][2] \in exec <=> phi.val[k][2] \in more
           /\ GetLattice(low, phi.val[k][1]) = GetLattice(lat, phi.val[k][1])
  PROVE  EvaluatePhi(low, more, phi) = EvaluatePhi(lat, exec, phi)
  BY DEF EvaluatePhi

\* An instruction evaluates to the same if its operands have not changed.
LEMMA EvaluateSame ==
  ASSUME NEW lat, NEW low, NEW i,
         \A k \in DOMAIN i.use : GetLattice(low, i.use[k]) = GetLattice(lat, i.use[k])
  PROVE  Evaluate(low, i) = Evaluate(lat, i)
  BY DEF Evaluate

\* Lower operands, lower result: with a bottom operand the result is bottom, and
\* without one the operands are the same constants.
LEMMA EvaluateMonotone ==
  ASSUME NEW lat, NEW low, NEW i, i.kind \in TrackedKinds,
         i.kind = "move" => 1 \in DOMAIN i.use,
         \A k \in DOMAIN i.use : Below(GetLattice(low, i.use[k]), GetLattice(lat, i.use[k]))
  PROVE  Below(Evaluate(low, i), Evaluate(lat, i))
<1> DEFINE C(la) == [k \in DOMAIN i.use |-> GetLattice(la, i.use[k])]
           c == C(lat)
           d == C(low)
<1>1. /\ DOMAIN c = DOMAIN i.use /\ DOMAIN d = DOMAIN i.use
      /\ \A k \in DOMAIN i.use : Below(d[k], c[k])
  OBVIOUS
<1>2. Evaluate(low, i) = EvaluateCells(i, d) /\ Evaluate(lat, i) = EvaluateCells(i, c)
  BY DEF Evaluate
<1> HIDE DEF c, d
<1>3. CASE i.kind = "move"
  <2>1. EvaluateCells(i, d) = d[1] /\ EvaluateCells(i, c) = c[1]
    BY <1>3 DEF EvaluateCells, OpaqueKinds, Folds, FoldedKinds
  <2> QED
    BY <1>1, <1>2, <1>3, <2>1
<1>4. CASE i.kind \in OpaqueKinds
  <2>1. EvaluateCells(i, d) = Bottom
    BY <1>4 DEF EvaluateCells, OpaqueKinds, Folds, FoldedKinds
  <2> QED
    BY <1>2, <2>1, BelowIs
<1>5. CASE i.kind \in FoldedKinds
  <2>1. Folds(i) /\ i.kind # "move" /\ i.kind \notin OpaqueKinds
    BY <1>5 DEF Folds, FoldedKinds, OpaqueKinds
  <2>2. CASE Bottom \in ToSet(d)
    <3>1. EvaluateCells(i, d) = Bottom
      BY <2>1, <2>2 DEF EvaluateCells
    <3> QED
      BY <1>2, <3>1, BelowIs
  <2>3. CASE Bottom \notin ToSet(d)
    <3>1. Bottom \notin ToSet(c)
      BY <1>1, <2>3, BelowIs DEF ToSet, Top, Bottom
    <3>2. CASE Top \in ToSet(c)
      <4>1. EvaluateCells(i, c) = Top
        BY <2>1, <3>1, <3>2 DEF EvaluateCells
      <4> QED
        BY <1>2, <4>1, BelowIs
    <3>3. CASE Top \notin ToSet(c)
      <4>1. \A k \in DOMAIN i.use : d[k] = c[k]
        BY <1>1, <2>3, <3>3, BelowIs DEF ToSet
      <4>2. d = c
        BY <4>1 DEF c, d
      <4> QED
        BY <1>2, <4>2, BelowIs
    <3> QED
      BY <3>2, <3>3
  <2> QED
    BY <2>2, <2>3
<1> QED
  BY <1>3, <1>4, <1>5 DEF TrackedKinds

------------------------------------------------------------------------------
(* Sequences and the shape of functions.                                      *)

LEMMA ToSetAppend ==
  ASSUME NEW S, NEW q \in Seq(S), NEW x \in S
  PROVE  ToSet(Append(q, x)) = ToSet(q) \cup {x}
<1>1. /\ Len(Append(q, x)) = Len(q) + 1
      /\ \A k \in 1 .. Len(q) : Append(q, x)[k] = q[k]
      /\ Append(q, x)[Len(q) + 1] = x
      /\ DOMAIN Append(q, x) = 1 .. Len(q) + 1
      /\ DOMAIN q = 1 .. Len(q) /\ Len(q) \in Nat
  BY AppendProperties
<1> QED
  BY <1>1 DEF ToSet

LEMMA ToSetHead ==
  ASSUME NEW S, NEW q \in Seq(S), q # << >>
  PROVE  /\ Head(q) \in S /\ Tail(q) \in Seq(S)
         /\ ToSet(q) = {Head(q)} \cup ToSet(Tail(q))
<1>1. /\ Len(q) \in Nat \ {0} /\ Head(q) = q[1] /\ q[1] \in S
      /\ Tail(q) \in Seq(S) /\ Len(Tail(q)) = Len(q) - 1
      /\ \A k \in 1 .. Len(q) - 1 : Tail(q)[k] = q[k + 1]
      /\ DOMAIN Tail(q) = 1 .. Len(q) - 1 /\ DOMAIN q = 1 .. Len(q)
  BY HeadTailProperties
<1>2. ASSUME NEW y \in ToSet(q) PROVE y \in {Head(q)} \cup ToSet(Tail(q))
  <2>1. PICK k \in 1 .. Len(q) : y = q[k]
    BY <1>1 DEF ToSet
  <2>2. CASE k = 1
    BY <1>1, <2>1, <2>2
  <2>3. CASE k # 1
    <3>1. k - 1 \in 1 .. Len(q) - 1 /\ (k - 1) + 1 = k
      BY <1>1, <2>3
    <3>2. Tail(q)[k - 1] = y
      BY <1>1, <2>1, <3>1
    <3> QED
      BY <1>1, <3>1, <3>2 DEF ToSet
  <2> QED
    BY <2>2, <2>3
<1>3. ASSUME NEW y \in ToSet(Tail(q)) PROVE y \in ToSet(q)
  <2>1. PICK k \in 1 .. Len(q) - 1 : y = Tail(q)[k]
    BY <1>1 DEF ToSet
  <2>2. k + 1 \in 1 .. Len(q) /\ y = q[k + 1]
    BY <1>1, <2>1
  <2> QED
    BY <1>1, <2>2 DEF ToSet
<1>4. Head(q) \in ToSet(q)
  BY <1>1 DEF ToSet
<1> QED
  BY <1>1, <1>2, <1>3, <1>4

\* The elements of a sequence, and the places where they are.
LEMMA ToSetPlaces ==
  ASSUME NEW S, NEW q \in Seq(S)
  PROVE  /\ DOMAIN q = 1 .. Len(q) /\ Len(q) \in Nat
         /\ \A k \in 1 .. Len(q) : q[k] \in ToSet(q) /\ q[k] \in S
         /\ \A y \in ToSet(q) : y \in S /\ \E k \in 1 .. Len(q) : y = q[k]
  BY DEF ToSet

\* What defines a variable is one instruction.
LEMMA OneDefinition ==
  ASSUME WellFormed, NEW i \in AllIns, NEW j \in AllIns, IsTracked(i), IsTracked(j),
         i.res = j.res
  PROVE  i = j
<1>1. PICK a \in Blocks : \E k \in LivePlaces(a) : i = blocks[a].ins[k]
  BY DEF AllIns, LiveIns
<1>2. PICK b \in Blocks : \E l \in LivePlaces(b) : j = blocks[b].ins[l]
  BY DEF AllIns, LiveIns
<1>3. PICK k \in DefPlaces(a) : i = blocks[a].ins[k]
  BY <1>1 DEF DefPlaces
<1>4. PICK l \in DefPlaces(b) : j = blocks[b].ins[l]
  BY <1>2 DEF DefPlaces
<1>5. a = b /\ k = l
  BY <1>1, <1>2, <1>3, <1>4 DEF WellFormed, DefinedOnce
<1> QED
  BY <1>3, <1>4, <1>5

\* A live instruction of a well-formed function.
LEMMA InsShape ==
  ASSUME WellFormed, NEW b \in Blocks, NEW i \in LiveIns(b)
  PROVE  /\ i \in AllIns /\ i \in Instruction
         /\ i.use \in Seq(Operand) /\ i.to \in Seq(Blocks)
<1>1. i \in Instruction
  BY DEF WellFormed, Shaped, LiveIns, LivePlaces
<1> QED
  BY <1>1 DEF AllIns, Instruction

LEMMA AllInsShape ==
  ASSUME WellFormed, NEW i \in AllIns
  PROVE  /\ i.kind \in TrackedKinds \cup {"br", "jmp", "store", "ret"}
         /\ i.use \in Seq(Operand) /\ i.to \in Seq(Blocks)
         /\ i.kind = "br" => 1 \in DOMAIN i.use /\ i.to[1] \in Blocks /\ i.to[2] \in Blocks
         /\ i.kind = "move" => 1 \in DOMAIN i.use
         /\ i.kind = "jmp" => i.to[1] \in Blocks
         /\ IsTracked(i) => i.res \in Names /\ IsVariable(i.res) /\ i.kind \in TrackedKinds
<1>1. PICK b \in Blocks : i \in LiveIns(b)
  BY DEF AllIns
<1>2. i \in Instruction /\ i.use \in Seq(Operand) /\ i.to \in Seq(Blocks)
  BY <1>1, InsShape
<1>3. i.kind \in TrackedKinds \cup {"br", "jmp", "store", "ret"}
  BY <1>2 DEF Instruction
<1>4. Len(i.use) >= Operands(i) /\ Len(i.to) >= Targets(i)
  BY DEF WellFormed, Shaped
<1>5. i.kind = "br" => 1 \in DOMAIN i.use /\ i.to[1] \in Blocks /\ i.to[2] \in Blocks
  <2>1. i.kind = "br" => Operands(i) = 1 /\ Targets(i) = 2
    BY DEF Operands, Targets
  <2> QED
    BY <1>2, <1>4, <2>1
<1>6. i.kind = "move" => 1 \in DOMAIN i.use
  <2>1. i.kind = "move" => Operands(i) = 1
    BY DEF Operands
  <2> QED
    BY <1>2, <1>4, <2>1
<1>7. i.kind = "jmp" => i.to[1] \in Blocks
  <2>1. i.kind = "jmp" => Targets(i) = 1
    BY DEF Targets
  <2> QED
    BY <1>2, <1>4, <2>1
<1>8. IsTracked(i) => i.res \in Names /\ IsVariable(i.res) /\ i.kind \in TrackedKinds
  BY DEF WellFormed, DefinedOnce, Names, IsTracked
<1> QED
  BY <1>2, <1>3, <1>5, <1>6, <1>7, <1>8

LEMMA AllPhisShape ==
  ASSUME WellFormed, NEW phi \in AllPhis
  PROVE  /\ phi.val \in Seq(Operand \X Blocks)
         /\ DOMAIN phi.val = 1 .. Len(phi.val) /\ Len(phi.val) \in Nat
         /\ phi.res \in Names /\ IsVariable(phi.res)
<1>1. PICK b \in Blocks : phi \in ToSet(blocks[b].phi)
  BY DEF AllPhis
<1> DEFINE Shape == [res : Operand, val : Seq(Operand \X Blocks)]
<1>2. blocks[b].phi \in Seq(Shape)
  BY DEF WellFormed, Shaped
<1>3. phi \in Shape
  <2> HIDE DEF Shape
  <2> QED
    BY <1>1, <1>2, ToSetPlaces
<1>4. phi.val \in Seq(Operand \X Blocks)
  BY <1>3
<1>5. phi.res \in Names /\ IsVariable(phi.res)
  BY DEF WellFormed, Names
<1> QED
  BY <1>4, <1>5

\* The phis of a block.
LEMMA PhisShape ==
  ASSUME WellFormed, NEW b \in Blocks
  PROVE  /\ Len(blocks[b].phi) \in Nat /\ DOMAIN blocks[b].phi = 1 .. Len(blocks[b].phi)
         /\ \A k \in DOMAIN blocks[b].phi : blocks[b].phi[k] \in ToSet(blocks[b].phi)
         /\ ToSet(blocks[b].phi) \subseteq AllPhis
<1> DEFINE Shape == [res : Operand, val : Seq(Operand \X Blocks)]
           q == blocks[b].phi
<1>1. q \in Seq(Shape)
  BY DEF WellFormed, Shaped
<1>2. ToSet(q) \subseteq AllPhis
  BY DEF AllPhis
<1>3. /\ DOMAIN q = 1 .. Len(q) /\ Len(q) \in Nat
      /\ \A k \in 1 .. Len(q) : q[k] \in ToSet(q)
  <2> HIDE DEF Shape, q
  <2> QED
    BY <1>1, ToSetPlaces
<1> QED
  BY <1>2, <1>3

------------------------------------------------------------------------------
(* What every step of the analysis keeps.                                     *)

IsState(s) == s = [lat |-> s.lat, exec |-> s.exec, flow |-> s.flow, ssa |-> s.ssa]
Good(s) == IsState(s) /\ StateOK(s) /\ Lowering(s)

\* t comes after s: the lattice is lower, blocks and work have been added, and what
\* was covered still is.
Onward(s, t) ==
  /\ Good(t)
  /\ s.exec \subseteq t.exec
  /\ ToSet(s.flow) \subseteq ToSet(t.flow)
  /\ ToSet(s.ssa) \subseteq ToSet(t.ssa)
  /\ t.exec \ s.exec \subseteq ToSet(t.flow)
  /\ \A x : Below(GetLattice(t.lat, x), GetLattice(s.lat, x))
  /\ \A i \in AllIns : InsCovered(s, i) => InsCovered(t, i)
  /\ \A b \in s.exec : \A phi \in ToSet(blocks[b].phi) :
       PhiCovered(s, b, phi) => PhiCovered(t, b, phi)

LEMMA OnwardReflexive ==
  ASSUME NEW s, Good(s)
  PROVE  Onward(s, s)
  BY BelowIs DEF Onward

LEMMA OnwardTransitive ==
  ASSUME NEW r, NEW s, NEW t, Onward(r, s), Onward(s, t)
  PROVE  Onward(r, t)
<1>1. \A x : Below(GetLattice(t.lat, x), GetLattice(r.lat, x))
  BY BelowTransitive DEF Onward
<1> QED
  BY <1>1 DEF Onward

\* Lower gives x the value its definition has.
LEMMA LowerOnward ==
  ASSUME WellFormed, NEW s, Good(s), NEW x \in Names, IsVariable(x), NEW cell,
         Below(cell, GetLattice(s.lat, x)),
         \A i \in AllIns : IsTracked(i) /\ i.res = x => cell = Evaluate(s.lat, i),
         \A phi \in AllPhis : phi.res = x => cell = EvaluatePhi(s.lat, s.exec, phi)
  PROVE  /\ Onward(s, Lower(s, x, cell))
         /\ Lower(s, x, cell).exec = s.exec
         /\ \A i \in AllIns : IsTracked(i) /\ i.res = x => InsCovered(Lower(s, x, cell), i)
         /\ \A b \in Blocks : \A phi \in ToSet(blocks[b].phi) :
              phi.res = x => PhiCovered(Lower(s, x, cell), b, phi)
<1>1. CASE cell = GetLattice(s.lat, x)
  <2>1. Lower(s, x, cell) = s
    BY <1>1 DEF Lower
  <2>2. ASSUME NEW i \in AllIns, IsTracked(i), i.res = x PROVE InsCovered(s, i)
    <3>1. i.kind # "br" /\ i.kind # "jmp"
      BY <2>2 DEF IsTracked, TrackedKinds, FoldedKinds, OpaqueKinds
    <3> QED
      BY <1>1, <2>2, <3>1 DEF InsCovered, InsSolved
  <2>3. ASSUME NEW b \in Blocks, NEW phi \in ToSet(blocks[b].phi), phi.res = x
        PROVE  PhiCovered(s, b, phi)
    BY <1>1, <2>3 DEF PhiCovered, PhiSolved, AllPhis
  <2> QED
    BY <2>1, <2>2, <2>3, OnwardReflexive
<1>2. CASE cell # GetLattice(s.lat, x)
  <2> DEFINE t == Lower(s, x, cell)
  <2>1. /\ t = [lat |-> [y \in DOMAIN s.lat \cup {x} |-> IF y = x THEN cell ELSE s.lat[y]],
                exec |-> s.exec, flow |-> s.flow, ssa |-> Append(s.ssa, x)]
    BY <1>2 DEF Lower, Good, IsState
  <2>2. /\ t.lat = [y \in DOMAIN s.lat \cup {x} |-> IF y = x THEN cell ELSE s.lat[y]]
        /\ t.exec = s.exec /\ t.flow = s.flow /\ t.ssa = Append(s.ssa, x)
        /\ IsState(t)
    BY <2>1 DEF IsState
  <2> HIDE DEF t
  <2>3. \A y : GetLattice(t.lat, y) = IF y = x THEN cell ELSE GetLattice(s.lat, y)
    BY <2>2 DEF GetLattice, IsVariable, IsConstant
  <2>4. \A y : Below(GetLattice(t.lat, y), GetLattice(s.lat, y))
    BY <2>3, BelowIs
  <2>5. ToSet(t.ssa) = ToSet(s.ssa) \cup {x}
    BY <2>2, ToSetAppend DEF Good, StateOK
  <2>6. StateOK(t)
    <3>1. DOMAIN t.lat \subseteq Names
      BY <2>2 DEF Good, StateOK
    <3>2. t.ssa \in Seq(Names)
      BY <2>2, AppendProperties DEF Good, StateOK
    <3> QED
      BY <2>2, <3>1, <3>2 DEF Good, StateOK
  <2>7. ASSUME NEW i \in AllIns, IsTracked(i)
        PROVE  Below(Evaluate(t.lat, i), GetLattice(t.lat, i.res))
    <3>1. Below(Evaluate(t.lat, i), Evaluate(s.lat, i))
      BY <2>4, <2>7, AllInsShape, EvaluateMonotone
    <3>2. CASE i.res = x
      BY <2>3, <2>7, <3>1, <3>2
    <3>3. CASE i.res # x
      <4>1. Below(Evaluate(s.lat, i), GetLattice(s.lat, i.res))
        BY <2>7 DEF Good, Lowering
      <4> QED
        BY <2>3, <3>1, <3>3, <4>1, BelowTransitive
    <3> QED
      BY <3>2, <3>3
  <2>8. ASSUME NEW phi \in AllPhis
        PROVE  Below(EvaluatePhi(t.lat, t.exec, phi), GetLattice(t.lat, phi.res))
    <3>1. Below(EvaluatePhi(t.lat, t.exec, phi), EvaluatePhi(s.lat, s.exec, phi))
      BY <2>2, <2>4, AllPhisShape, EvaluatePhiMonotone
    <3>2. CASE phi.res = x
      BY <2>3, <3>1, <3>2
    <3>3. CASE phi.res # x
      <4>1. Below(EvaluatePhi(s.lat, s.exec, phi), GetLattice(s.lat, phi.res))
        BY DEF Good, Lowering
      <4> QED
        BY <2>3, <3>1, <3>3, <4>1, BelowTransitive
    <3> QED
      BY <3>2, <3>3
  <2>9. Good(t)
    BY <2>2, <2>6, <2>7, <2>8 DEF Good, Lowering
  <2>10. ASSUME NEW i \in AllIns, InsCovered(s, i) \/ (IsTracked(i) /\ i.res = x)
         PROVE  InsCovered(t, i)
    <3>1. CASE \E y \in ToSet(i.use) : y \in ToSet(t.ssa)
      BY <3>1 DEF InsCovered
    <3>2. CASE \A y \in ToSet(i.use) : y \notin ToSet(t.ssa)
      <4>1. \A k \in DOMAIN i.use : GetLattice(t.lat, i.use[k]) = GetLattice(s.lat, i.use[k])
        BY <2>3, <2>5, <3>2 DEF ToSet
      <4>2. InsSolved(s.lat, s.exec, i) \/ (IsTracked(i) /\ i.res = x)
        BY <2>5, <2>10, <3>2 DEF InsCovered
      <4>3. Evaluate(t.lat, i) = Evaluate(s.lat, i)
        BY <4>1, EvaluateSame
      <4>4. IsTracked(i) => i.kind # "br" /\ i.kind # "jmp"
        BY DEF IsTracked, TrackedKinds, FoldedKinds, OpaqueKinds
      <4>5. IsTracked(i) => GetLattice(t.lat, i.res) = Evaluate(t.lat, i)
        BY <2>3, <4>2, <4>3 DEF InsSolved
      <4>6. i.kind = "jmp" => i.to[1] \in t.exec
        BY <2>2, <4>2, <4>4 DEF InsSolved
      <4>7. ASSUME i.kind = "br"
            PROVE  LET cond == GetLattice(t.lat, i.use[1])
                   IN IF IsConstant(cond) THEN i.to[IF cond[2] # 0 THEN 1 ELSE 2] \in t.exec
                      ELSE i.to[1] \in t.exec /\ i.to[2] \in t.exec
        <5>1. GetLattice(t.lat, i.use[1]) = GetLattice(s.lat, i.use[1])
          BY <4>1, <4>7, AllInsShape
        <5>2. InsSolved(s.lat, s.exec, i)
          BY <4>2, <4>4, <4>7
        <5> QED
          BY <2>2, <4>7, <5>1, <5>2 DEF InsSolved
      <4> QED
        BY <4>5, <4>6, <4>7 DEF InsCovered, InsSolved
    <3> QED
      BY <3>1, <3>2
  <2>11. ASSUME NEW b \in Blocks, NEW phi \in ToSet(blocks[b].phi),
                PhiCovered(s, b, phi) \/ phi.res = x
         PROVE  PhiCovered(t, b, phi)
    <3>1. CASE \E e \in ToSet(phi.val) :
                 e[1] \in ToSet(t.ssa) \/ (e[2] \in ToSet(t.flow) /\ JumpsTo(e[2], b))
      BY <3>1 DEF PhiCovered
    <3>2. CASE ~\E e \in ToSet(phi.val) :
                 e[1] \in ToSet(t.ssa) \/ (e[2] \in ToSet(t.flow) /\ JumpsTo(e[2], b))
      <4>1. phi \in AllPhis
        BY DEF AllPhis
      <4>2. PhiSolved(s.lat, s.exec, phi) \/ phi.res = x
        BY <2>2, <2>5, <2>11, <3>2 DEF PhiCovered
      <4>3. \A k \in 1 .. Len(phi.val) :
              GetLattice(t.lat, phi.val[k][1]) = GetLattice(s.lat, phi.val[k][1])
        <5>1. ASSUME NEW k \in 1 .. Len(phi.val) PROVE phi.val[k][1] # x
          <6>1. phi.val[k] \in ToSet(phi.val)
            BY <4>1, AllPhisShape DEF ToSet
          <6> QED
            BY <2>5, <3>2, <6>1
        <5> QED
          BY <2>3, <5>1
      <4>4. EvaluatePhi(t.lat, t.exec, phi) = EvaluatePhi(s.lat, s.exec, phi)
        <5>1. \A k \in 1 .. Len(phi.val) :
                /\ phi.val[k][2] \in s.exec <=> phi.val[k][2] \in t.exec
                /\ GetLattice(t.lat, phi.val[k][1]) = GetLattice(s.lat, phi.val[k][1])
          BY <2>2, <4>3
        <5> QED
          BY <5>1, EvaluatePhiSame
      <4> QED
        BY <2>3, <4>1, <4>2, <4>4 DEF PhiCovered, PhiSolved
    <3> QED
      BY <3>1, <3>2
  <2>12. s.exec \subseteq Blocks
    BY DEF Good, StateOK
  <2>13. Onward(s, t)
    BY <2>2, <2>4, <2>5, <2>9, <2>10, <2>11, <2>12 DEF Onward
  <2> QED
    BY <2>2, <2>10, <2>11, <2>13 DEF t
<1> QED
  BY <1>1, <1>2

\* A block found executable: its own phis and instructions are to come, and so are
\* the phis of the blocks it jumps to.
LEMMA EnterOnward ==
  ASSUME WellFormed, NEW s, Good(s), NEW u \in Blocks, u \notin s.exec,
         NEW c \in s.exec, LeadsTo(c, u)
  PROVE  Onward(s, Enter(s, u)) /\ u \in Enter(s, u).exec
<1> DEFINE t == Enter(s, u)
<1>1. t = [lat |-> s.lat, exec |-> s.exec \cup {u}, flow |-> Append(s.flow, u), ssa |-> s.ssa]
  <2> DEFINE more == s.exec \cup {u}
             queue == Append(s.flow, u)
  <2>1. s = [lat |-> s.lat, exec |-> s.exec, flow |-> s.flow, ssa |-> s.ssa]
    BY DEF Good, IsState
  <2>2. t = [s EXCEPT !.exec = more, !.flow = queue]
    BY DEF Enter
  <2> HIDE DEF t, more, queue
  <2>3. t = [lat |-> s.lat, exec |-> more, flow |-> queue, ssa |-> s.ssa]
    BY <2>1, <2>2
  <2> QED
    BY <2>3 DEF more, queue
<1>2. /\ t.lat = s.lat /\ t.exec = s.exec \cup {u} /\ t.flow = Append(s.flow, u) /\ t.ssa = s.ssa
      /\ IsState(t)
  BY <1>1 DEF IsState
<1> HIDE DEF t
<1>3. ToSet(t.flow) = ToSet(s.flow) \cup {u} /\ t.flow \in Seq(Blocks)
  BY <1>2, ToSetAppend, AppendProperties DEF Good, StateOK
<1>4. StateOK(t)
  BY <1>2, <1>3 DEF Good, StateOK
<1>5. Good(t)
  <2>1. ASSUME NEW phi \in AllPhis
        PROVE  Below(EvaluatePhi(t.lat, t.exec, phi), GetLattice(t.lat, phi.res))
    <3>1. Below(EvaluatePhi(t.lat, t.exec, phi), EvaluatePhi(s.lat, s.exec, phi))
      BY <1>2, AllPhisShape, EvaluatePhiMonotone, BelowIs
    <3>2. Below(EvaluatePhi(s.lat, s.exec, phi), GetLattice(s.lat, phi.res))
      BY DEF Good, Lowering
    <3> QED
      BY <1>2, <3>1, <3>2, BelowTransitive
  <2> QED
    BY <1>2, <1>4, <2>1 DEF Good, Lowering
<1>6. ASSUME NEW i \in AllIns, InsCovered(s, i) PROVE InsCovered(t, i)
  BY <1>2, <1>6 DEF InsCovered, InsSolved
<1>7. ASSUME NEW b \in s.exec, NEW phi \in ToSet(blocks[b].phi), PhiCovered(s, b, phi)
      PROVE  PhiCovered(t, b, phi)
  <2>1. b \in Blocks /\ phi \in AllPhis
    BY DEF Good, StateOK, AllPhis
  <2>2. CASE \E e \in ToSet(phi.val) : e[2] = u
    <3>1. PICK e \in ToSet(phi.val) : e[2] = u
      BY <2>2
    <3>2. JumpsTo(u, b) \/ (b # 0 /\ \A d \in Blocks : LeadsTo(d, b) => d = u)
      BY <2>1, <3>1 DEF WellFormed
    <3>3. b # 0 => \E d \in s.exec : LeadsTo(d, b) /\ d \in Blocks
      BY DEF Good, StateOK
    <3>4. JumpsTo(u, b)
      BY <3>2, <3>3
    <3> QED
      BY <1>3, <3>1, <3>4 DEF PhiCovered
  <2>3. CASE \A e \in ToSet(phi.val) : e[2] # u
    <3>1. CASE PhiSolved(s.lat, s.exec, phi)
      <4>1. \A k \in 1 .. Len(phi.val) : phi.val[k] \in ToSet(phi.val)
        BY <2>1, AllPhisShape DEF ToSet
      <4>2. EvaluatePhi(t.lat, t.exec, phi) = EvaluatePhi(s.lat, s.exec, phi)
        BY <1>2, <2>3, <4>1, EvaluatePhiSame
      <4> QED
        BY <1>2, <3>1, <4>2 DEF PhiCovered, PhiSolved
    <3>2. CASE ~PhiSolved(s.lat, s.exec, phi)
      BY <1>2, <1>3, <1>7, <3>2 DEF PhiCovered
    <3> QED
      BY <3>1, <3>2
  <2> QED
    BY <2>2, <2>3
<1>8. Onward(s, t)
  BY <1>2, <1>3, <1>5, <1>6, <1>7, BelowIs DEF Onward
<1> QED
  BY <1>2, <1>8 DEF t

------------------------------------------------------------------------------
(* The steps themselves.                                                      *)

LEMMA EvalPhiOnward ==
  ASSUME WellFormed, NEW s, Good(s), NEW b \in s.exec, NEW phi \in ToSet(blocks[b].phi)
  PROVE  Onward(s, EvalPhi(s, phi)) /\ PhiCovered(EvalPhi(s, phi), b, phi)
<1>1. b \in Blocks /\ phi \in AllPhis
  BY DEF Good, StateOK, AllPhis
<1>2. phi.res \in Names /\ IsVariable(phi.res)
  BY <1>1, AllPhisShape
<1> DEFINE cell == EvaluatePhi(s.lat, s.exec, phi)
<1>3. Below(cell, GetLattice(s.lat, phi.res))
  BY <1>1 DEF Good, Lowering
<1>4. \A i \in AllIns : IsTracked(i) /\ i.res = phi.res => cell = Evaluate(s.lat, i)
  BY <1>1 DEF WellFormed, DefinedOnce
<1>5. \A other \in AllPhis : other.res = phi.res => cell = EvaluatePhi(s.lat, s.exec, other)
  <2>1. \A other \in AllPhis : other.res = phi.res => phi = other
    BY <1>1 DEF WellFormed, DefinedOnce
  <2> QED
    BY <2>1
<1> HIDE DEF cell
<1>6. /\ Onward(s, Lower(s, phi.res, cell))
      /\ \A c \in Blocks : \A other \in ToSet(blocks[c].phi) :
           other.res = phi.res => PhiCovered(Lower(s, phi.res, cell), c, other)
  BY <1>2, <1>3, <1>4, <1>5, LowerOnward
<1> QED
  BY <1>1, <1>6 DEF EvalPhi, cell

\* The phis of an executable block.
LEMMA EvalPhisOnward ==
  ASSUME WellFormed, NEW s, Good(s), NEW b \in s.exec, NEW K
  PROVE  LET t == EvalPhis(s, blocks[b].phi, K)
         IN /\ Onward(s, t)
            /\ \A k \in K \cap DOMAIN blocks[b].phi : PhiCovered(t, b, blocks[b].phi[k])
<1> DEFINE q == blocks[b].phi
           N == Len(q)
<1>1. b \in Blocks
  BY DEF Good, StateOK
<1>2. N \in Nat /\ DOMAIN q = 1 .. N /\ \A k \in DOMAIN q : q[k] \in ToSet(q)
  BY <1>1, PhisShape
<1> HIDE DEF q
<1>3. PICK f : PhiTrace(f, s, q, K) /\ EvalPhis(s, q, K) = f[N]
  BY <1>2, PhiTraceExists
<1> DEFINE Done(n) ==
             /\ Onward(s, f[n])
             /\ \A k \in K \cap (1 .. n) : PhiCovered(f[n], b, q[k])
           S == {n \in 0 .. N : Done(n)}
<1>4. 0 \in S
  <2>1. f[0] = s /\ 0 \in 0 .. N
    BY <1>2, <1>3 DEF PhiTrace
  <2> QED
    BY <2>1, OnwardReflexive
<1>5. ASSUME NEW n \in S, n < N PROVE n + 1 \in S
  <2>1. /\ n + 1 \in 0 .. N /\ n + 1 # 0 /\ (n + 1) - 1 = n
        /\ n + 1 \in 1 .. N
        /\ \A k \in 1 .. n + 1 : k \in 1 .. n \/ k = n + 1
        /\ \A k \in 1 .. n : k \in 1 .. N
    BY <1>2, <1>5
  <2>2. f[n + 1] = IF n + 1 \in K THEN EvalPhi(f[n], q[n + 1]) ELSE f[n]
    BY <1>3, <2>1 DEF PhiTrace
  <2>3. Onward(s, f[n]) /\ Good(f[n]) /\ b \in f[n].exec
    BY DEF Onward
  <2>4. \A k \in K \cap (1 .. n) : PhiCovered(f[n], b, q[k])
    OBVIOUS
  <2>5. CASE n + 1 \in K
    <3>1. q[n + 1] \in ToSet(blocks[b].phi)
      BY <1>2, <2>1 DEF q
    <3>2. Onward(f[n], f[n + 1]) /\ PhiCovered(f[n + 1], b, q[n + 1])
      BY <2>2, <2>3, <2>5, <3>1, EvalPhiOnward
    <3>3. Onward(s, f[n + 1])
      BY <2>3, <3>2, OnwardTransitive
    <3>4. ASSUME NEW k \in K \cap (1 .. n) PROVE PhiCovered(f[n + 1], b, q[k])
      <4>1. q[k] \in ToSet(blocks[b].phi)
        BY <1>2, <2>1 DEF q
      <4> QED
        BY <2>3, <2>4, <3>2, <4>1 DEF Onward
    <3> QED
      BY <2>1, <3>2, <3>3, <3>4
  <2>6. CASE n + 1 \notin K
    BY <2>1, <2>2, <2>3, <2>4, <2>6
  <2> QED
    BY <2>5, <2>6
<1>6. N \in S
  <2>1. S \in SUBSET (0 .. N)
    OBVIOUS
  <2>2. N \in 0 .. N
    BY <1>2
  <2> HIDE DEF S, N
  <2> QED
    BY <1>2, <1>4, <1>5, <2>1, <2>2, UpTo
<1>7. Onward(s, f[N]) /\ \A k \in K \cap (1 .. N) : PhiCovered(f[N], b, q[k])
  BY <1>6
<1> QED
  BY <1>2, <1>3, <1>7 DEF q

\* An edge from an executable block: its target is executable then, and if it was
\* before, its phis are evaluated again.
LEMMA ReenterOnward ==
  ASSUME WellFormed, NEW s, Good(s), NEW c \in s.exec, NEW b \in Blocks, LeadsTo(c, b)
  PROVE  LET t == Reenter(s, b)
         IN /\ Onward(s, t) /\ b \in t.exec
            /\ b \in s.exec => \A phi \in ToSet(blocks[b].phi) : PhiCovered(t, b, phi)
<1>1. CASE b \in s.exec
  <2> DEFINE t == EvalPhis(s, blocks[b].phi, DOMAIN blocks[b].phi)
  <2>1. Reenter(s, b) = t
    BY <1>1 DEF Reenter
  <2>2. Onward(s, t) /\ \A k \in DOMAIN blocks[b].phi : PhiCovered(t, b, blocks[b].phi[k])
    BY <1>1, EvalPhisOnward
  <2> HIDE DEF t
  <2>3. \A phi \in ToSet(blocks[b].phi) : PhiCovered(t, b, phi)
    BY <2>2 DEF ToSet
  <2>4. b \in t.exec
    BY <1>1, <2>2 DEF Onward
  <2> QED
    BY <2>1, <2>2, <2>3, <2>4
<1>2. CASE b \notin s.exec
  BY <1>2, EnterOnward DEF Reenter
<1> QED
  BY <1>1, <1>2

\* An instruction of an executable block.
LEMMA EvalInsOnward ==
  ASSUME WellFormed, NEW s, Good(s), NEW b \in s.exec, NEW i \in LiveIns(b)
  PROVE  LET t == EvalIns(s, i)
         IN /\ Onward(s, t) /\ InsCovered(t, i)
            /\ i.kind = "jmp" /\ i.to[1] \in s.exec =>
                 \A phi \in ToSet(blocks[i.to[1]].phi) : PhiCovered(t, i.to[1], phi)
<1>1. b \in Blocks /\ i \in AllIns
  BY DEF Good, StateOK, AllIns
<1>2. ~IsTracked(i) \/ (i.kind # "br" /\ i.kind # "jmp")
  BY DEF IsTracked, TrackedKinds, FoldedKinds, OpaqueKinds
<1>3. CASE i.kind = "jmp"
  <2>1. EvalIns(s, i) = Reenter(s, i.to[1])
    BY <1>3 DEF EvalIns
  <2>2. i.to[1] \in Blocks /\ LeadsTo(b, i.to[1])
    BY <1>1, <1>3, AllInsShape DEF LeadsTo, JumpsTo
  <2> DEFINE t == Reenter(s, i.to[1])
  <2>3. /\ Onward(s, t) /\ i.to[1] \in t.exec
        /\ i.to[1] \in s.exec => \A phi \in ToSet(blocks[i.to[1]].phi) : PhiCovered(t, i.to[1], phi)
    BY <2>2, ReenterOnward
  <2>4. InsCovered(t, i)
    BY <1>2, <1>3, <2>3 DEF InsCovered, InsSolved
  <2> QED
    BY <2>1, <2>3, <2>4
<1>4. CASE i.kind = "br"
  <2> DEFINE cond == GetLattice(s.lat, i.use[1])
             taken == IF cond[2] # 0 THEN i.to[1] ELSE i.to[2]
  <2>1. EvalIns(s, i) = EvalBranch(s, i) /\ i.kind # "jmp"
    BY <1>4 DEF EvalIns
  <2>2. /\ i.to[1] \in Blocks /\ i.to[2] \in Blocks
        /\ LeadsTo(b, i.to[1]) /\ LeadsTo(b, i.to[2])
    BY <1>1, <1>4, AllInsShape DEF LeadsTo
  <2>3. CASE ~IsConstant(cond)
    <3> DEFINE r == Reenter(s, i.to[1])
               t == Reenter(r, i.to[2])
    <3>1. EvalIns(s, i) = t
      BY <2>1, <2>3 DEF EvalBranch
    <3>2. Onward(s, r) /\ i.to[1] \in r.exec
      BY <2>2, ReenterOnward
    <3> HIDE DEF r
    <3>3. Good(r) /\ b \in r.exec
      BY <3>2 DEF Onward
    <3>4. Onward(r, t) /\ i.to[2] \in t.exec
      BY <2>2, <3>3, ReenterOnward
    <3> HIDE DEF t
    <3>5. Onward(s, t) /\ i.to[1] \in t.exec
      BY <3>2, <3>4, OnwardTransitive DEF Onward
    <3>6. InsCovered(t, i)
      BY <1>2, <1>4, <3>4, <3>5 DEF InsCovered, InsSolved
    <3> QED
      BY <2>1, <3>1, <3>5, <3>6
  <2>4. CASE IsConstant(cond)
    <3> DEFINE t == IF taken \in s.exec THEN s ELSE Enter(s, taken)
    <3>1. EvalIns(s, i) = t
      BY <2>1, <2>4 DEF EvalBranch
    <3>2. taken \in Blocks /\ LeadsTo(b, taken)
      BY <2>2
    <3>3. taken = i.to[IF cond[2] # 0 THEN 1 ELSE 2]
      OBVIOUS
    <3> HIDE DEF taken
    <3>4. Onward(s, t) /\ taken \in t.exec
      BY <3>2, EnterOnward, OnwardReflexive
    <3>5. t.lat = s.lat
      BY DEF Enter, Good, IsState
    <3>6. InsSolved(t.lat, t.exec, i)
      BY <1>2, <1>4, <2>4, <3>3, <3>4, <3>5 DEF InsSolved
    <3> QED
      BY <2>1, <3>1, <3>4, <3>6 DEF InsCovered
  <2> QED
    BY <2>3, <2>4
<1>5. CASE i.kind \notin {"br", "jmp"} /\ ~IsTracked(i)
  <2>1. EvalIns(s, i) = s
    BY <1>5 DEF EvalIns
  <2>2. InsCovered(s, i)
    BY <1>5 DEF InsCovered, InsSolved
  <2> QED
    BY <1>5, <2>1, <2>2, OnwardReflexive
<1>6. CASE i.kind \notin {"br", "jmp"} /\ IsTracked(i)
  <2> DEFINE cell == Evaluate(s.lat, i)
             t == Lower(s, i.res, cell)
  <2>1. EvalIns(s, i) = t
    BY <1>6 DEF EvalIns
  <2>2. i.res \in Names /\ IsVariable(i.res)
    BY <1>1, <1>6, AllInsShape
  <2>3. Below(cell, GetLattice(s.lat, i.res))
    BY <1>1, <1>6 DEF Good, Lowering
  <2>4. \A j \in AllIns : IsTracked(j) /\ j.res = i.res => cell = Evaluate(s.lat, j)
    <3>1. \A j \in AllIns : IsTracked(j) /\ j.res = i.res => i = j
      BY <1>1, <1>6, OneDefinition
    <3> QED
      BY <3>1
  <2>5. \A phi \in AllPhis : phi.res = i.res => cell = EvaluatePhi(s.lat, s.exec, phi)
    BY <1>1, <1>6 DEF WellFormed, DefinedOnce
  <2> HIDE DEF cell
  <2>6. /\ Onward(s, t)
        /\ \A j \in AllIns : IsTracked(j) /\ j.res = i.res => InsCovered(t, j)
    BY <2>2, <2>3, <2>4, <2>5, LowerOnward
  <2> QED
    BY <1>1, <1>6, <2>1, <2>6
<1> QED
  BY <1>3, <1>4, <1>5, <1>6

\* Instructions of an executable block, and the phis behind its jumps.
LEMMA EvalInssOnward ==
  ASSUME WellFormed, NEW s, Good(s), NEW b \in s.exec, NEW K \in SUBSET LivePlaces(b)
  PROVE  LET t == EvalInss(s, blocks[b].ins, K)
         IN /\ Onward(s, t)
            /\ \A k \in K : InsCovered(t, blocks[b].ins[k])
            /\ \A k \in K : \A c \in s.exec :
                 blocks[b].ins[k].kind = "jmp" /\ blocks[b].ins[k].to[1] = c =>
                   \A phi \in ToSet(blocks[c].phi) : PhiCovered(t, c, phi)
<1> DEFINE q == blocks[b].ins
           N == Len(q)
<1>1. b \in Blocks
  BY DEF Good, StateOK
<1>2. N \in Nat /\ DOMAIN q = 1 .. N
  <2>1. q \in Seq(Instruction)
    BY <1>1 DEF WellFormed, Shaped
  <2> HIDE DEF q
  <2> QED
    BY <2>1
<1>3. \A k \in K : k \in 1 .. N /\ q[k] \in LiveIns(b) /\ q[k] \in AllIns
  BY <1>1, <1>2 DEF LivePlaces, LiveIns, AllIns
<1> HIDE DEF q
<1>4. PICK f : InsTrace(f, s, q, K) /\ EvalInss(s, q, K) = f[N]
  BY <1>2, InsTraceExists
<1> DEFINE Again(n, k) == \A c \in s.exec : q[k].kind = "jmp" /\ q[k].to[1] = c =>
                            \A phi \in ToSet(blocks[c].phi) : PhiCovered(f[n], c, phi)
           Done(n) ==
             /\ Onward(s, f[n])
             /\ \A k \in K : k <= n => InsCovered(f[n], q[k]) /\ Again(n, k)
           S == {n \in 0 .. N : Done(n)}
<1>5. 0 \in S
  <2>1. f[0] = s /\ 0 \in 0 .. N /\ \A k \in K : ~(k <= 0)
    BY <1>2, <1>3, <1>4 DEF InsTrace
  <2> QED
    BY <2>1, OnwardReflexive
<1>6. ASSUME NEW n \in S, n < N PROVE n + 1 \in S
  <2>1. /\ n + 1 \in 0 .. N /\ n + 1 # 0 /\ (n + 1) - 1 = n
        /\ \A k \in K : k <= n + 1 => k <= n \/ k = n + 1
    BY <1>2, <1>3, <1>6
  <2>2. f[n + 1] = IF n + 1 \in K THEN EvalIns(f[n], q[n + 1]) ELSE f[n]
    BY <1>4, <2>1 DEF InsTrace
  <2>3. Onward(s, f[n]) /\ Good(f[n]) /\ b \in f[n].exec /\ s.exec \subseteq f[n].exec
    BY DEF Onward
  <2>4. \A k \in K : k <= n => InsCovered(f[n], q[k]) /\ Again(n, k)
    OBVIOUS
  <2>5. CASE n + 1 \in K
    <3>1. /\ Onward(f[n], f[n + 1]) /\ InsCovered(f[n + 1], q[n + 1])
          /\ q[n + 1].kind = "jmp" /\ q[n + 1].to[1] \in f[n].exec =>
               \A phi \in ToSet(blocks[q[n + 1].to[1]].phi) :
                 PhiCovered(f[n + 1], q[n + 1].to[1], phi)
      BY <1>3, <2>2, <2>3, <2>5, EvalInsOnward
    <3>2. Onward(s, f[n + 1])
      BY <2>3, <3>1, OnwardTransitive
    <3>3. Again(n + 1, n + 1)
      BY <2>3, <3>1
    <3>4. ASSUME NEW k \in K, k <= n PROVE InsCovered(f[n + 1], q[k]) /\ Again(n + 1, k)
      <4>1. InsCovered(f[n], q[k]) /\ Again(n, k)
        BY <2>4, <3>4
      <4>2. InsCovered(f[n + 1], q[k])
        BY <1>3, <3>1, <4>1 DEF Onward
      <4>3. Again(n + 1, k)
        BY <2>3, <3>1, <4>1 DEF Onward
      <4> QED
        BY <4>2, <4>3
    <3> HIDE DEF Again
    <3> QED
      BY <2>1, <3>1, <3>2, <3>3, <3>4
  <2>6. CASE n + 1 \notin K
    <3>1. f[n + 1] = f[n] /\ \A k \in K : k <= n + 1 => k <= n
      BY <2>1, <2>2, <2>6
    <3> QED
      BY <2>1, <2>3, <2>4, <3>1
  <2> QED
    BY <2>5, <2>6
<1>7. N \in S
  <2>1. S \in SUBSET (0 .. N)
    OBVIOUS
  <2>2. N \in 0 .. N
    BY <1>2
  <2> HIDE DEF S, N
  <2> QED
    BY <1>2, <1>5, <1>6, <2>1, <2>2, UpTo
<1>8. /\ Onward(s, f[N])
      /\ \A k \in K : InsCovered(f[N], q[k]) /\ Again(N, k)
  <2>1. \A k \in K : k <= N
    BY <1>2, <1>3
  <2>2. Done(N)
    BY <1>7
  <2> HIDE DEF N, Again
  <2> QED
    BY <2>1, <2>2
<1> QED
  BY <1>4, <1>8 DEF q

\* The uses of a variable in one block.
LEMMA EvalUsesInOnward ==
  ASSUME WellFormed, NEW s, Good(s), NEW b \in Blocks, NEW x
  PROVE  LET t == EvalUsesIn(s, b, x)
         IN /\ Onward(s, t)
            /\ b \in s.exec =>
                 /\ \A i \in LiveIns(b) : x \in ToSet(i.use) => InsCovered(t, i)
                 /\ \A phi \in ToSet(blocks[b].phi) :
                      (\E e \in ToSet(phi.val) : e[1] = x) => PhiCovered(t, b, phi)
<1>1. CASE b \notin s.exec
  BY <1>1, OnwardReflexive DEF EvalUsesIn
<1>2. CASE b \in s.exec
  <2> DEFINE r == EvalInss(s, blocks[b].ins, ReadingIns(b, x))
             t == EvalPhis(r, blocks[b].phi, ReadingPhis(b, x))
  <2>1. EvalUsesIn(s, b, x) = t
    BY <1>2 DEF EvalUsesIn
  <2>2. ReadingIns(b, x) \in SUBSET LivePlaces(b)
    BY DEF ReadingIns
  <2>3. Onward(s, r) /\ \A k \in ReadingIns(b, x) : InsCovered(r, blocks[b].ins[k])
    BY <1>2, <2>2, EvalInssOnward
  <2> HIDE DEF r
  <2>4. Good(r) /\ b \in r.exec
    BY <1>2, <2>3 DEF Onward
  <2>5. /\ Onward(r, t)
        /\ \A k \in ReadingPhis(b, x) \cap DOMAIN blocks[b].phi :
             PhiCovered(t, b, blocks[b].phi[k])
    BY <2>4, EvalPhisOnward
  <2> HIDE DEF t
  <2>6. Onward(s, t)
    BY <2>3, <2>5, OnwardTransitive
  <2>7. ASSUME NEW i \in LiveIns(b), x \in ToSet(i.use) PROVE InsCovered(t, i)
    <3>1. PICK k \in ReadingIns(b, x) : i = blocks[b].ins[k]
      BY <2>7 DEF LiveIns, ReadingIns
    <3>2. i \in AllIns
      BY DEF AllIns
    <3> QED
      BY <2>3, <2>5, <3>1, <3>2 DEF Onward
  <2>8. ASSUME NEW phi \in ToSet(blocks[b].phi), \E e \in ToSet(phi.val) : e[1] = x
        PROVE  PhiCovered(t, b, phi)
    <3>1. PICK k \in DOMAIN blocks[b].phi : phi = blocks[b].phi[k]
      BY DEF ToSet
    <3>2. k \in ReadingPhis(b, x)
      BY <2>8, <3>1 DEF ReadingPhis
    <3> QED
      BY <2>5, <3>1, <3>2
  <2> QED
    BY <2>1, <2>6, <2>7, <2>8
<1> QED
  BY <1>1, <1>2

\* The uses of a variable in all blocks.
LEMMA EvalUsesOnward ==
  ASSUME WellFormed, NEW s, Good(s), NEW x
  PROVE  LET t == EvalUsesBefore(s, Cardinality(Blocks), x)
         IN /\ Onward(s, t)
            /\ \A b \in s.exec :
                 /\ \A i \in LiveIns(b) : x \in ToSet(i.use) => InsCovered(t, i)
                 /\ \A phi \in ToSet(blocks[b].phi) :
                      (\E e \in ToSet(phi.val) : e[1] = x) => PhiCovered(t, b, phi)
<1> DEFINE N == Cardinality(Blocks)
<1>1. N \in Nat /\ Blocks = 0 .. N - 1
  BY DEF WellFormed, Shaped
<1> HIDE DEF N
<1>2. PICK f : UseTrace(f, s, N, x) /\ EvalUsesBefore(s, N, x) = f[N]
  BY <1>1, UseTraceExists
<1> DEFINE HeldIns(n, b) == \A i \in LiveIns(b) : x \in ToSet(i.use) => InsCovered(f[n], i)
           HeldPhis(n, b) == \A phi \in ToSet(blocks[b].phi) :
                               (\E e \in ToSet(phi.val) : e[1] = x) => PhiCovered(f[n], b, phi)
           Done(n) == Onward(s, f[n]) /\ \A b \in s.exec : b < n => HeldIns(n, b) /\ HeldPhis(n, b)
           S == {n \in 0 .. N : Done(n)}
<1>3. \A b \in s.exec : b \in Blocks /\ b \in Nat /\ b < N /\ \A i \in LiveIns(b) : i \in AllIns
  BY <1>1 DEF Good, StateOK, AllIns
<1>4. 0 \in S
  <2>1. f[0] = s /\ 0 \in 0 .. N /\ \A b \in s.exec : ~(b < 0)
    BY <1>1, <1>2, <1>3 DEF UseTrace
  <2> QED
    BY <2>1, OnwardReflexive
<1>5. ASSUME NEW n \in S, n < N PROVE n + 1 \in S
  <2>1. /\ n + 1 \in 0 .. N /\ n + 1 # 0 /\ (n + 1) - 1 = n /\ n \in Blocks
        /\ \A b \in s.exec : b < n + 1 => b < n \/ b = n
    BY <1>1, <1>3, <1>5
  <2>2. f[n + 1] = EvalUsesIn(f[n], n, x)
    BY <1>2, <2>1 DEF UseTrace
  <2>3. Onward(s, f[n]) /\ Good(f[n]) /\ s.exec \subseteq f[n].exec
    BY DEF Onward
  <2>4. \A b \in s.exec : b < n => HeldIns(n, b) /\ HeldPhis(n, b)
    OBVIOUS
  <2>5. Onward(f[n], f[n + 1]) /\ (n \in s.exec => HeldIns(n + 1, n) /\ HeldPhis(n + 1, n))
    BY <2>1, <2>2, <2>3, EvalUsesInOnward
  <2>6. Onward(s, f[n + 1])
    BY <2>3, <2>5, OnwardTransitive
  <2>7. ASSUME NEW b \in s.exec, b < n PROVE HeldIns(n + 1, b) /\ HeldPhis(n + 1, b)
    <3>1. HeldIns(n, b) /\ HeldPhis(n, b)
      BY <2>4, <2>7
    <3>2. HeldIns(n + 1, b)
      BY <1>3, <2>5, <3>1 DEF Onward
    <3>3. HeldPhis(n + 1, b)
      BY <2>3, <2>5, <3>1 DEF Onward
    <3> QED
      BY <3>2, <3>3
  <2> HIDE DEF HeldIns, HeldPhis
  <2> QED
    BY <2>1, <2>5, <2>6, <2>7
<1>6. N \in S
  <2>1. S \in SUBSET (0 .. N)
    OBVIOUS
  <2>2. N \in 0 .. N
    BY <1>1
  <2> HIDE DEF S
  <2> QED
    BY <1>1, <1>4, <1>5, <2>1, <2>2, UpTo
<1>7. Onward(s, f[N]) /\ \A b \in s.exec : HeldIns(N, b) /\ HeldPhis(N, b)
  BY <1>3, <1>6
<1> QED
  BY <1>2, <1>7 DEF N

------------------------------------------------------------------------------
(* The steps of the loop.                                                     *)

\* EvalBlock takes the first block off the list: its phis and instructions are
\* evaluated, and so are the phis of the blocks it jumps to, which were waiting
\* for it.
LEMMA EvalBlockOnward ==
  ASSUME WellFormed, NEW a, Good(a), a.flow # << >>, \A b \in a.exec : BlockCovered(a, b)
  PROVE  LET u == Head(a.flow)
             s == [a EXCEPT !.flow = Tail(@)]
             t == EvalInss(EvalPhis(s, blocks[u].phi, DOMAIN blocks[u].phi),
                           blocks[u].ins, LivePlaces(u))
         IN /\ Good(t) /\ a.exec \subseteq t.exec
            /\ \A x : Below(GetLattice(t.lat, x), GetLattice(a.lat, x))
            /\ \A b \in t.exec : BlockCovered(t, b)
<1> DEFINE u == Head(a.flow)
           s == [a EXCEPT !.flow = Tail(@)]
           r == EvalPhis(s, blocks[u].phi, DOMAIN blocks[u].phi)
           t == EvalInss(r, blocks[u].ins, LivePlaces(u))
<1>1. /\ s.lat = a.lat /\ s.exec = a.exec /\ s.flow = Tail(a.flow) /\ s.ssa = a.ssa
      /\ IsState(s)
  <2>1. a = [lat |-> a.lat, exec |-> a.exec, flow |-> a.flow, ssa |-> a.ssa]
    BY DEF Good, IsState
  <2>2. s = [lat |-> a.lat, exec |-> a.exec, flow |-> Tail(a.flow), ssa |-> a.ssa]
    BY <2>1
  <2> HIDE DEF s
  <2> QED
    BY <2>2 DEF IsState
<1> HIDE DEF s, u
<1>2. /\ u \in Blocks /\ u \in a.exec /\ s.flow \in Seq(Blocks)
      /\ ToSet(a.flow) = {u} \cup ToSet(s.flow)
  <2>1. a.flow \in Seq(Blocks) /\ ToSet(a.flow) \subseteq a.exec
    BY DEF Good, StateOK
  <2> QED
    BY <1>1, <2>1, ToSetHead DEF u
<1>3. Good(s)
  BY <1>1, <1>2 DEF Good, StateOK, Lowering
<1>4. /\ Onward(s, r)
      /\ \A k \in DOMAIN blocks[u].phi : PhiCovered(r, u, blocks[u].phi[k])
  BY <1>1, <1>2, <1>3, EvalPhisOnward
<1> HIDE DEF r
<1>5. Good(r) /\ u \in r.exec /\ s.exec \subseteq r.exec
  BY <1>1, <1>2, <1>4 DEF Onward
<1>6. /\ Onward(r, t)
      /\ \A k \in LivePlaces(u) : InsCovered(t, blocks[u].ins[k])
      /\ \A k \in LivePlaces(u) : \A c \in r.exec :
           blocks[u].ins[k].kind = "jmp" /\ blocks[u].ins[k].to[1] = c =>
             \A phi \in ToSet(blocks[c].phi) : PhiCovered(t, c, phi)
  BY <1>5, EvalInssOnward
<1> HIDE DEF t
<1>7. Onward(s, t)
  BY <1>4, <1>6, OnwardTransitive
<1>8. ASSUME NEW b \in t.exec PROVE BlockCovered(t, b)
  <2>1. CASE b \notin s.exec \/ b \in ToSet(s.flow)
    BY <1>7, <2>1 DEF Onward, BlockCovered
  <2>2. CASE b = u
    <3>1. ASSUME NEW phi \in ToSet(blocks[u].phi) PROVE PhiCovered(t, u, phi)
      BY <1>4, <1>5, <1>6 DEF Onward, ToSet
    <3>2. \A i \in LiveIns(u) : InsCovered(t, i)
      BY <1>6 DEF LiveIns
    <3> QED
      BY <2>2, <3>1, <3>2 DEF BlockCovered
  <2>3. CASE b \in s.exec /\ b \notin ToSet(s.flow) /\ b # u
    <3>1. /\ \A phi \in ToSet(blocks[b].phi) : PhiCovered(a, b, phi)
          /\ \A i \in LiveIns(b) : InsCovered(a, i)
      BY <1>1, <1>2, <2>3 DEF BlockCovered
    <3>2. ASSUME NEW i \in LiveIns(b) PROVE InsCovered(t, i)
      <4>1. i \in AllIns
        BY <1>3, <2>3 DEF Good, StateOK, AllIns
      <4>2. InsCovered(s, i)
        BY <1>1, <3>1 DEF InsCovered
      <4> QED
        BY <1>7, <4>1, <4>2 DEF Onward
    <3>3. ASSUME NEW phi \in ToSet(blocks[b].phi) PROVE PhiCovered(t, b, phi)
      <4>1. CASE PhiCovered(s, b, phi)
        BY <1>7, <2>3, <4>1 DEF Onward
      <4>2. CASE ~PhiCovered(s, b, phi)
        <5>1. JumpsTo(u, b)
          BY <1>1, <1>2, <3>1, <4>2 DEF PhiCovered
        <5>2. PICK k \in LivePlaces(u) : blocks[u].ins[k].kind = "jmp" /\ blocks[u].ins[k].to[1] = b
          BY <5>1 DEF JumpsTo, LiveIns
        <5> QED
          BY <1>5, <1>6, <2>3, <5>2
      <4> QED
        BY <4>1, <4>2
    <3> QED
      BY <3>2, <3>3 DEF BlockCovered
  <2> QED
    BY <2>1, <2>2, <2>3
<1>9. /\ Good(t) /\ a.exec \subseteq t.exec
      /\ \A x : Below(GetLattice(t.lat, x), GetLattice(a.lat, x))
  BY <1>1, <1>7 DEF Onward
<1> QED
  BY <1>8, <1>9 DEF t, r, s, u

\* EvalUses takes the first variable off the list: everything that was waiting
\* for it is evaluated.
LEMMA EvalUsesCovered ==
  ASSUME WellFormed, NEW a, Good(a), a.ssa # << >>, \A b \in a.exec : BlockCovered(a, b)
  PROVE  LET t == EvalUsesBefore([a EXCEPT !.ssa = Tail(@)], Cardinality(Blocks), Head(a.ssa))
         IN /\ Good(t) /\ a.exec \subseteq t.exec
            /\ \A x : Below(GetLattice(t.lat, x), GetLattice(a.lat, x))
            /\ \A b \in t.exec : BlockCovered(t, b)
<1> DEFINE x == Head(a.ssa)
           s == [a EXCEPT !.ssa = Tail(@)]
           t == EvalUsesBefore(s, Cardinality(Blocks), x)
<1>1. /\ s.lat = a.lat /\ s.exec = a.exec /\ s.flow = a.flow /\ s.ssa = Tail(a.ssa)
      /\ IsState(s)
  <2>1. a = [lat |-> a.lat, exec |-> a.exec, flow |-> a.flow, ssa |-> a.ssa]
    BY DEF Good, IsState
  <2>2. s = [lat |-> a.lat, exec |-> a.exec, flow |-> a.flow, ssa |-> Tail(a.ssa)]
    BY <2>1
  <2> HIDE DEF s
  <2> QED
    BY <2>2 DEF IsState
<1> HIDE DEF s, x
<1>2. s.ssa \in Seq(Names) /\ ToSet(a.ssa) = {x} \cup ToSet(s.ssa)
  <2>1. a.ssa \in Seq(Names)
    BY DEF Good, StateOK
  <2> QED
    BY <1>1, <2>1, ToSetHead DEF x
<1>3. Good(s)
  BY <1>1, <1>2 DEF Good, StateOK, Lowering
<1>4. /\ Onward(s, t)
      /\ \A b \in s.exec :
           /\ \A i \in LiveIns(b) : x \in ToSet(i.use) => InsCovered(t, i)
           /\ \A phi \in ToSet(blocks[b].phi) :
                (\E e \in ToSet(phi.val) : e[1] = x) => PhiCovered(t, b, phi)
  BY <1>3, EvalUsesOnward
<1> HIDE DEF t
<1>5. ASSUME NEW b \in t.exec PROVE BlockCovered(t, b)
  <2>1. CASE b \notin s.exec \/ b \in ToSet(s.flow)
    BY <1>4, <2>1 DEF Onward, BlockCovered
  <2>2. CASE b \in s.exec /\ b \notin ToSet(s.flow)
    <3>1. /\ \A phi \in ToSet(blocks[b].phi) : PhiCovered(a, b, phi)
          /\ \A i \in LiveIns(b) : InsCovered(a, i)
      BY <1>1, <2>2 DEF BlockCovered
    <3>2. ASSUME NEW i \in LiveIns(b) PROVE InsCovered(t, i)
      <4>1. i \in AllIns
        BY <1>3, <2>2 DEF Good, StateOK, AllIns
      <4>2. InsCovered(s, i) \/ x \in ToSet(i.use)
        BY <1>1, <1>2, <3>1 DEF InsCovered
      <4> QED
        BY <1>4, <2>2, <4>1, <4>2 DEF Onward
    <3>3. ASSUME NEW phi \in ToSet(blocks[b].phi) PROVE PhiCovered(t, b, phi)
      <4>1. PhiCovered(s, b, phi) \/ \E e \in ToSet(phi.val) : e[1] = x
        BY <1>1, <1>2, <3>1 DEF PhiCovered
      <4> QED
        BY <1>4, <2>2, <4>1 DEF Onward
    <3> QED
      BY <3>2, <3>3 DEF BlockCovered
  <2> QED
    BY <2>1, <2>2
<1>6. /\ Good(t) /\ a.exec \subseteq t.exec
      /\ \A y : Below(GetLattice(t.lat, y), GetLattice(a.lat, y))
  BY <1>1, <1>4 DEF Onward
<1> QED
  BY <1>5, <1>6 DEF t, s, x

------------------------------------------------------------------------------
(* The theorems.                                                              *)

\* What a step that leaves the function alone keeps.
LEMMA FunctionKept ==
  ASSUME UNCHANGED function
  PROVE  /\ Blocks' = Blocks /\ \A b : LiveIns(b)' = LiveIns(b)
         /\ AllIns' = AllIns /\ AllPhis' = AllPhis /\ Names' = Names
         /\ \A c, b : JumpsTo(c, b)' = JumpsTo(c, b)
         /\ \A c, b : LeadsTo(c, b)' = LeadsTo(c, b)
         /\ Shaped => Shaped'
         /\ TerminatorsLast => TerminatorsLast'
         /\ DefinedOnce => DefinedOnce'
         /\ WellFormed => WellFormed'
<1>1. blocks' = blocks /\ params' = params
  BY DEF function
<1>2. /\ Blocks' = Blocks
      /\ \A b : LivePlaces(b)' = LivePlaces(b)
  BY <1>1 DEF LivePlaces, Blocks
<1>3. \A b : LiveIns(b)' = LiveIns(b)
  BY <1>1, <1>2 DEF LiveIns
<1>4. /\ AllIns' = AllIns /\ AllPhis' = AllPhis
      /\ \A c, b : JumpsTo(c, b)' = JumpsTo(c, b)
      /\ \A c, b : LeadsTo(c, b)' = LeadsTo(c, b)
  BY <1>1, <1>2, <1>3 DEF AllIns, AllPhis, JumpsTo, LeadsTo
<1>5. Names' = Names
  BY <1>1, <1>4 DEF Names
<1>6. /\ Shaped => Shaped'
      /\ TerminatorsLast => TerminatorsLast'
  BY <1>1, <1>2, <1>4 DEF Shaped, Instruction, TerminatorsLast
<1>7. DefinedOnce => DefinedOnce'
  <2>1. \A b : DefPlaces(b)' = DefPlaces(b)
    BY <1>1, <1>2 DEF DefPlaces
  <2> QED
    BY <1>1, <1>2, <1>4, <2>1 DEF DefinedOnce
<1>8. WellFormed => WellFormed'
  BY <1>1, <1>2, <1>4, <1>6, <1>7 DEF WellFormed
<1> QED
  BY <1>2, <1>3, <1>4, <1>5, <1>6, <1>7, <1>8

\* A step that leaves the function alone commits what it has computed.
LEMMA Committed ==
  ASSUME UNCHANGED function, WellFormed, NEW t, AnalysisInv(t), Commit(t)
  PROVE  WellFormed' /\ AnalysisInv(Analysis)'
<1>1. blocks' = blocks /\ params' = params
  BY DEF function
<1>2. /\ lattice' = t.lat /\ executable' = t.exec /\ flow_worklist' = t.flow
      /\ ssa_worklist' = t.ssa
  BY DEF Commit
<1>3. StateOK(Analysis)'
  BY <1>2, FunctionKept DEF AnalysisInv, StateOK, Analysis
<1>4. Lowering(Analysis)'
  BY <1>2, FunctionKept DEF AnalysisInv, Lowering, Analysis
<1>5. (\A b \in Analysis.exec : BlockCovered(Analysis, b))'
  BY <1>1, <1>2, FunctionKept
     DEF AnalysisInv, BlockCovered, PhiCovered, InsCovered, Analysis
<1>6. (0 \in Analysis.exec /\ \A p \in ToSet(params) : GetLattice(Analysis.lat, p) = Bottom)'
  BY <1>1, <1>2 DEF AnalysisInv, Analysis
<1> QED
  BY <1>3, <1>4, <1>5, <1>6, FunctionKept DEF AnalysisInv

LEMMA StartInv ==
  ASSUME FixpointInv, StartSCCP
  PROVE  FixpointInv'
<1> DEFINE t == [lat |-> [p \in ToSet(params) |-> Bottom], exec |-> {0}, flow |-> <<0>>,
                 ssa |-> <<>>]
<1>1. WellFormed /\ UNCHANGED function /\ Commit(t) /\ phase' = "flow"
  BY DEF FixpointInv, StartSCCP
<1>2. /\ DOMAIN t.lat = ToSet(params) /\ t.exec = {0} /\ t.flow = <<0>> /\ t.ssa = <<>>
      /\ \A x : IsVariable(x) /\ x \notin ToSet(params) => GetLattice(t.lat, x) = Top
      /\ \A x \in ToSet(params) : IsVariable(x) => GetLattice(t.lat, x) = Bottom
  BY DEF GetLattice, IsVariable, IsConstant
<1> HIDE DEF t
<1>3. 0 \in Blocks
  BY <1>1 DEF WellFormed, Shaped
<1>4. ToSet(t.flow) = {0}
  BY <1>2 DEF ToSet
<1>5. StateOK(t)
  <2>1. DOMAIN t.lat \subseteq Names
    BY <1>2 DEF Names
  <2>2. t.flow \in Seq(Blocks) /\ t.ssa \in Seq(Names)
    BY <1>2, <1>3
  <2> QED
    BY <1>2, <1>3, <1>4, <2>1, <2>2 DEF StateOK
<1>6. Lowering(t)
  BY <1>1, <1>2, BelowIs DEF Lowering, WellFormed, DefinedOnce
<1>7. AnalysisInv(t)
  <2>1. 0 \in t.exec /\ \A p \in ToSet(params) : GetLattice(t.lat, p) = Bottom
    BY <1>1, <1>2 DEF WellFormed
  <2> QED
    BY <1>2, <1>4, <1>5, <1>6, <2>1 DEF AnalysisInv, BlockCovered
<1>8. WellFormed' /\ AnalysisInv(Analysis)'
  BY <1>1, <1>7, Committed
<1> QED
  BY <1>1, <1>8 DEF FixpointInv, Solution

\* What the two kinds of steps of the loop have in common.
LEMMA LoopStep ==
  ASSUME FixpointInv, EvalBlock \/ EvalUses
  PROVE  FixpointInv' /\ Descends
<1>1. WellFormed /\ AnalysisInv(Analysis) /\ UNCHANGED <<function, phase>>
      /\ phase \in {"flow", "ssa"}
  BY DEF FixpointInv, EvalBlock, EvalUses
<1>2. /\ Analysis.lat = lattice /\ Analysis.exec = executable
      /\ Analysis.flow = flow_worklist /\ Analysis.ssa = ssa_worklist
      /\ IsState(Analysis)
  BY DEF Analysis, IsState
<1>3. Good(Analysis) /\ \A b \in Analysis.exec : BlockCovered(Analysis, b)
  BY <1>1, <1>2 DEF Good, AnalysisInv
<1>4. \E t : /\ Commit(t) /\ Good(t) /\ Analysis.exec \subseteq t.exec
             /\ \A x : Below(GetLattice(t.lat, x), GetLattice(Analysis.lat, x))
             /\ \A b \in t.exec : BlockCovered(t, b)
  <2>1. CASE EvalBlock
    <3>1. Analysis.flow # << >>
      BY <1>2, <2>1 DEF EvalBlock
    <3>2. Head(flow_worklist) = Head(Analysis.flow)
      BY <1>2
    <3> QED
      BY <1>1, <1>3, <2>1, <3>1, <3>2, EvalBlockOnward DEF EvalBlock
  <2>2. CASE EvalUses
    <3>1. Analysis.ssa # << >>
      BY <1>2, <2>2 DEF EvalUses
    <3>2. Head(ssa_worklist) = Head(Analysis.ssa)
      BY <1>2
    <3> QED
      BY <1>1, <1>3, <2>2, <3>1, <3>2, EvalUsesCovered DEF EvalUses
  <2> QED
    BY <2>1, <2>2
<1>5. PICK t : /\ Commit(t) /\ Good(t) /\ Analysis.exec \subseteq t.exec
               /\ \A x : Below(GetLattice(t.lat, x), GetLattice(Analysis.lat, x))
               /\ \A b \in t.exec : BlockCovered(t, b)
  BY <1>4
<1>6. AnalysisInv(t)
  <2>1. 0 \in t.exec /\ \A p \in ToSet(params) : GetLattice(t.lat, p) = Bottom
    BY <1>1, <1>5, BelowIs DEF AnalysisInv, Top, Bottom
  <2> QED
    BY <1>5, <2>1 DEF AnalysisInv, Good
<1>7. WellFormed' /\ AnalysisInv(Analysis)'
  BY <1>1, <1>5, <1>6, Committed
<1>8. FixpointInv'
  BY <1>1, <1>7 DEF FixpointInv, Solution
<1>9. ASSUME NEW x \in DOMAIN lattice
      PROVE  Meet(lattice[x], GetLattice(lattice', x)) = GetLattice(lattice', x)
  <2>1. x \in Names
    BY <1>2, <1>3 DEF Good, StateOK
  <2>2. IsVariable(x)
    BY <1>1, <2>1 DEF Names, WellFormed, DefinedOnce
  <2>3. GetLattice(lattice, x) = lattice[x]
    BY <2>2 DEF GetLattice, IsVariable, IsConstant
  <2>4. lattice' = t.lat
    BY <1>5 DEF Commit
  <2> QED
    BY <1>2, <1>5, <2>3, <2>4 DEF Below
<1>10. executable \subseteq executable'
  BY <1>2, <1>5 DEF Commit
<1> QED
  BY <1>8, <1>9, <1>10 DEF Descends

LEMMA SwitchInv ==
  ASSUME FixpointInv, SwitchWorklist
  PROVE  FixpointInv' /\ Descends
<1>1. WellFormed /\ AnalysisInv(Analysis) /\ phase \in {"flow", "ssa"}
      /\ UNCHANGED <<function, sccpVars>>
  BY DEF FixpointInv, SwitchWorklist
<1>2. /\ Analysis.lat = lattice /\ Analysis.exec = executable
      /\ Analysis.flow = flow_worklist /\ Analysis.ssa = ssa_worklist
  BY DEF Analysis
<1>3. UNCHANGED <<lattice, executable, flow_worklist, ssa_worklist, blocks, params>>
  BY <1>1 DEF sccpVars, function
<1>4. Commit(Analysis)
  BY <1>2, <1>3 DEF Commit
<1>5. WellFormed' /\ AnalysisInv(Analysis)'
  BY <1>1, <1>4, Committed
<1>6. /\ phase' \in {"flow", "ssa", "constants"}
      /\ phase' = "constants" => flow_worklist = <<>> /\ ssa_worklist = <<>>
  BY DEF SwitchWorklist
<1>7. ASSUME phase' = "constants" PROVE Solution'
  <2>1. ToSet(Analysis.flow) = {} /\ ToSet(Analysis.ssa) = {}
    BY <1>2, <1>6, <1>7 DEF ToSet
  <2>2. \A b \in executable :
          /\ \A phi \in ToSet(blocks[b].phi) : PhiSolved(lattice, executable, phi)
          /\ \A i \in LiveIns(b) : InsSolved(lattice, executable, i)
    BY <1>1, <1>2, <2>1 DEF AnalysisInv, BlockCovered, PhiCovered, InsCovered
  <2>3. \A b : LiveIns(b)' = LiveIns(b)
    BY <1>3 DEF LiveIns, LivePlaces
  <2> QED
    BY <1>3, <2>2, <2>3 DEF Solution
<1>8. Solution'
  BY <1>7 DEF Solution
<1>9. FixpointInv'
  BY <1>3, <1>5, <1>6, <1>8 DEF FixpointInv
<1>10. Descends
  <2>1. ASSUME NEW x \in DOMAIN lattice PROVE GetLattice(lattice', x) = lattice[x]
    <3>1. x \in Names
      BY <1>1, <1>2 DEF AnalysisInv, StateOK
    <3>2. IsVariable(x)
      BY <1>1, <3>1 DEF Names, WellFormed, DefinedOnce
    <3> QED
      BY <1>3, <3>2 DEF GetLattice, IsVariable, IsConstant
  <2> QED
    BY <1>3, <2>1 DEF Descends, Meet
<1> QED
  BY <1>9, <1>10

\* The rewriting comes after the fixed point and is not looked at here.
LEMMA RewriteInv ==
  ASSUME ReplaceConstants \/ FoldConstant \/ ConvertBranches \/ RemoveDead
  PROVE  FixpointInv' /\ phase \notin {"flow", "ssa"}
<1>1. phase' \in {"fold", "dead", "propagated"} /\ phase \notin {"flow", "ssa"}
  BY DEF ReplaceConstants, FoldConstant, ConvertBranches, RemoveDead
<1> QED
  BY <1>1 DEF FixpointInv, Solution

sccp == <<function, phase, sccpVars>>

LEMMA NextFixpoint ==
  FixpointInv /\ [SCCPStep]_sccp => FixpointInv'
<1> SUFFICES ASSUME FixpointInv, [SCCPStep]_sccp
             PROVE  FixpointInv'
  OBVIOUS
<1>1. CASE UNCHANGED sccp
  <2>1. UNCHANGED <<function, phase, lattice, executable, flow_worklist, ssa_worklist>>
    BY <1>1 DEF sccp, sccpVars
  <2>2. blocks' = blocks
    BY <2>1 DEF function
  <2>3. Commit(Analysis)
    BY <2>1 DEF Commit, Analysis
  <2>4. phase \in {"sccp", "flow", "ssa", "constants"} => WellFormed'
    BY <2>1, FunctionKept DEF FixpointInv
  <2>5. phase \in {"flow", "ssa", "constants"} => AnalysisInv(Analysis)'
    BY <2>1, <2>3, Committed DEF FixpointInv
  <2>6. Solution'
    BY <2>1, <2>2, FunctionKept DEF FixpointInv, Solution
  <2> QED
    BY <2>1, <2>4, <2>5, <2>6 DEF FixpointInv
<1> QED
  BY <1>1, StartInv, LoopStep, SwitchInv, RewriteInv DEF SCCPStep

\* On every function in SSA form without critical edges, what is not solved is
\* waiting in a worklist, and nothing would evaluate to more than its cell says
\* (SCCPer::RunOnFunction).
THEOREM Fixpoint == SCCPSpec => []FixpointInv
<1>1. phase = "sccp" /\ WellFormed => FixpointInv
  BY DEF FixpointInv, Solution
<1> QED
  BY <1>1, NextFixpoint, PTL DEF SCCPSpec, sccp

\* When both worklists are empty the lattice is a solution on the executable
\* blocks: no instruction and no phi would evaluate to anything else.
THEOREM Solved == SCCPSpec => []Solution
<1>1. FixpointInv => Solution
  BY DEF FixpointInv
<1> QED
  BY <1>1, Fixpoint, PTL

\* While the worklists are worked off no cell goes up, and no block that was
\* found executable is given up.
THEOREM Descending == SCCPSpec => LatticeDescends
<1>1. FixpointInv /\ [SCCPStep]_sccp => [(phase = "flow" \/ phase = "ssa") => Descends]_sccp
  <2> SUFFICES ASSUME FixpointInv, SCCPStep, phase = "flow" \/ phase = "ssa"
               PROVE  Descends
    OBVIOUS
  <2>1. CASE StartSCCP
    BY <2>1 DEF StartSCCP
  <2> QED
    BY <2>1, LoopStep, SwitchInv, RewriteInv DEF SCCPStep
<1> QED
  BY <1>1, Fixpoint, PTL DEF SCCPSpec, LatticeDescends, sccp
==============================================================================
