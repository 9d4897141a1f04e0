---------------------------- MODULE PhiTopoProofs ----------------------------
(* Proofs about PhiTopo, for every set of names: the moves emitted for the   *)
(* phi nodes of an edge are the parallel copy those nodes stand for.         *)
EXTENDS PhiTopo, FiniteSetTheorems, TLAPS

USE DEF solve, code

\* A map of a finite set that reaches every element of it is a permutation:
\* when each leftover name is still read, the leftover copies form cycles.
LEMMA OntoIsPermutation ==
  ASSUME NEW P, IsFiniteSet(P), NEW f, f = [v \in P |-> f[v]],
         \A n \in P : \E v \in P : f[v] = n
  PROVE  /\ \A v \in P : f[v] \in P
         /\ \A v, w \in P : f[v] = f[w] => v = w
<1> DEFINE T == {f[v] : v \in P}
<1>1. f \in Surjection(P, T)
  BY DEF Surjection
<1>2. IsFiniteSet(T) /\ Cardinality(T) <= Cardinality(P)
  BY <1>1, FS_Surjection
<1>3. P \in SUBSET T
  OBVIOUS
<1>4. Cardinality(P) <= Cardinality(T) /\ (Cardinality(T) = Cardinality(P) => T = P)
  BY <1>2, <1>3, FS_Subset
<1>5. Cardinality(P) \in Nat /\ Cardinality(T) \in Nat
  BY <1>2, FS_CardinalityType
<1>6. Cardinality(T) = Cardinality(P)
  BY <1>2, <1>4, <1>5
<1>7. T = P
  BY <1>4, <1>6
<1>8. f \in Injection(P, T)
  <2> HIDE DEF T
  <2> QED
    BY <1>1, <1>6, FS_SurjSameCardinalityImpliesInj
<1>9. \A v, w \in P : f[v] = f[w] => v = w
  <2> HIDE DEF T
  <2> QED
    BY <1>8 DEF Injection, IsInjective
<1> QED
  BY <1>7, <1>9

\* Every set of names is finite.
LEMMA NamesFinite ==
  ASSUME NEW S, S \subseteq Name
  PROVE  IsFiniteSet(S) /\ Cardinality(S) \in Nat /\ (Cardinality(S) = 0 <=> S = {})
BY NameAssumption, FS_Subset, FS_CardinalityType, FS_EmptySet

\* The initial state satisfies the invariant.
LEMMA InitIInv == Init => IInv
<1> SUFFICES ASSUME Init PROVE IInv
  OBVIOUS
<1>1. TypeOK
  BY DEF Init, TypeOK
<1>2. EnvInv /\ QueueInv /\ ScanInv /\ pc # "broken"
  BY DEF Init, EnvInv, QueueInv, ScanInv
<1> QED
  BY <1>1, <1>2 DEF IInv

\* Collecting the phi nodes and starting Solve.
LEMMA CollectIInv ==
  IInv /\ (StartSolve \/ \E from, to \in Name : AddEdge(from, to)) => IInv'
<1> SUFFICES ASSUME IInv, StartSolve \/ \E from, to \in Name : AddEdge(from, to)
             PROVE  IInv'
  OBVIOUS
<1>1. ASSUME NEW from \in Name, NEW to \in Name, AddEdge(from, to) PROVE IInv'
  <2> USE <1>1 DEF AddEdge
  <2>1. TypeOK'
    BY DEF IInv, TypeOK
  <2>2. EnvInv'
    BY DEF IInv, TypeOK, EnvInv, QueueInv
  <2>3. QueueInv' /\ ScanInv' /\ pc' # "broken"
    BY DEF IInv, QueueInv, ScanInv
  <2> QED
    BY <2>1, <2>2, <2>3 DEF IInv
<1>2. CASE StartSolve
  <2> USE <1>2 DEF StartSolve
  <2>1. \A n \in Name : Readers(n) \subseteq Name
    BY DEF Readers
  <2>2. TypeOK'
    <3>1. deg' \in [Name -> Nat]
      BY <2>1, NamesFinite
    <3>2. q' \in SUBSET Name
      BY DEF Ids
    <3> QED
      BY <3>1, <3>2 DEF IInv, TypeOK
  <2>3. \A n \in Name : PendingReaders(n)' = Readers(n)
    BY NameAssumption DEF IInv, TypeOK, QueueInv, PendingReaders, Pending, Readers
  <2>4. QueueInv'
    <3>1. \A n \in Name : deg'[n] = Cardinality(PendingReaders(n)')
      BY <2>3
    <3>2. /\ \A n \in q' \cup written' : PendingReaders(n)' = {}
          /\ q' \cap written' = {}
      BY <2>3 DEF IInv, QueueInv, Ids
    <3>3. \A n \in Pending' : PendingReaders(n)' = {} => n \in q'
      BY <2>3 DEF IInv, Pending, Ids
    <3> QED
      BY <3>1, <3>2, <3>3 DEF QueueInv
  <2>5. EnvInv' /\ ScanInv' /\ pc' # "broken"
    BY DEF IInv, EnvInv, ScanInv
  <2> QED
    BY <2>2, <2>4, <2>5 DEF IInv
<1> QED
  BY <1>1, <1>2

\* The queue: a popped name has no pending reader, so overwriting it is safe.
LEMMA PopIInv == ASSUME IInv, NEW n \in Name, Pop(n) PROVE IInv'
<1>1. /\ pc = "queue" /\ n \in q
      /\ UNCHANGED <<pc, g, todo, start, u>>
  BY DEF Pop
<1>2. CASE g[n] = NoName
  <2>1. q' = q \ {n} /\ UNCHANGED <<deg, code>>
    BY <1>2 DEF Pop
  <2>2. n \notin Pending /\ Pending' = Pending
    BY <1>1, <1>2, <2>1 DEF Pending
  <2>3. \A m \in Name : PendingReaders(m)' = PendingReaders(m)
    BY <1>1, <2>2 DEF PendingReaders
  <2>4. TypeOK'
    BY <1>1, <2>1 DEF IInv, TypeOK
  <2>5. QueueInv'
    <3>0. q \subseteq Name /\ Pending \subseteq Name /\ written \subseteq Name
      BY DEF IInv, TypeOK, Pending
    <3> QED
      BY <1>1, <2>1, <2>2, <2>3, <3>0 DEF IInv, QueueInv
  <2>6. EnvInv' /\ ScanInv' /\ pc' # "broken"
    BY <1>1, <2>1 DEF IInv, EnvInv, ScanInv
  <2> QED
    BY <2>4, <2>5, <2>6 DEF IInv
<1>3. CASE g[n] # NoName
  <2>0. PICK s \in Name : s = g[n]
    BY <1>3 DEF IInv, TypeOK
  <2>1. /\ env' = [env EXCEPT ![n] = env[s]]
        /\ written' = written \cup {n}
        /\ UNCHANGED temp
        /\ deg' = [deg EXCEPT ![s] = @ - 1]
        /\ q' = (q \ {n}) \cup (IF deg[s] = 1 THEN {s} ELSE {})
    BY <1>3, <2>0 DEF Pop, Move
  <2>2. s \in Name /\ n \in Pending /\ PendingReaders(n) = {} /\ n \notin written
    BY <1>1, <1>3 DEF IInv, TypeOK, QueueInv, Pending
  <2>3. s # n /\ s \notin written
    <3>1. n \in PendingReaders(s)
      BY <2>0, <2>2 DEF PendingReaders
    <3> QED
      BY <1>1, <2>2, <3>1 DEF IInv, QueueInv
  <2>4. Pending' = Pending \ {n} /\ Pending \subseteq Name
    BY <1>1, <2>1 DEF Pending
  <2>5. /\ PendingReaders(s)' = PendingReaders(s) \ {n}
        /\ n \in PendingReaders(s)
        /\ \A m \in Name \ {s} : PendingReaders(m)' = PendingReaders(m)
    BY <1>1, <2>0, <2>2, <2>4 DEF PendingReaders
  <2>6. \A m \in Name : PendingReaders(m) \subseteq Name
    BY <2>4 DEF PendingReaders
  <2>7. \A m \in Name : deg[m] = Cardinality(PendingReaders(m)) /\ deg[m] \in Nat
    BY <1>1, <2>6 DEF IInv, TypeOK, QueueInv
  <2>8. /\ Cardinality(PendingReaders(s)') = deg[s] - 1
        /\ deg[s] - 1 \in Nat
        /\ deg[s] = 1 <=> PendingReaders(s)' = {}
    <3>1. IsFiniteSet(PendingReaders(s))
      BY <2>2, <2>6, NamesFinite
    <3>2. Cardinality(PendingReaders(s)') = deg[s] - 1
      BY <2>2, <2>5, <2>7, <3>1, FS_RemoveElement
    <3>3. PendingReaders(s)' \subseteq Name
      BY <2>2, <2>5, <2>6
    <3>4. /\ Cardinality(PendingReaders(s)') \in Nat
          /\ Cardinality(PendingReaders(s)') = 0 <=> PendingReaders(s)' = {}
      BY <3>3, NamesFinite
    <3> QED
      BY <2>2, <2>7, <3>2, <3>4
  <2>9. TypeOK'
    <3>1. deg' \in [Name -> Nat]
      BY <2>1, <2>2, <2>8 DEF IInv, TypeOK
    <3>2. env' \in [Name -> Name] /\ written' \in SUBSET Name /\ q' \in SUBSET Name
      BY <2>1, <2>2 DEF IInv, TypeOK
    <3> QED
      BY <1>1, <2>1, <3>1, <3>2 DEF IInv, TypeOK
  <2>10. QueueInv'
    <3>1. \A m \in Name : deg'[m] = Cardinality(PendingReaders(m)')
      <4>1. deg'[s] = deg[s] - 1 /\ \A m \in Name \ {s} : deg'[m] = deg[m]
        BY <2>1, <2>2 DEF IInv, TypeOK
      <4>2. \A m \in Name \ {s} : deg'[m] = Cardinality(PendingReaders(m)')
        BY <2>5, <2>7, <4>1
      <4> QED
        BY <2>8, <4>1, <4>2
    <3>2. \A m \in q' \cup written' : PendingReaders(m)' = {}
      <4>1. \A m \in q \cup written : m \in Name /\ PendingReaders(m) = {}
        BY <1>1 DEF IInv, TypeOK, QueueInv
      <4>2. \A m \in q \cup written : PendingReaders(m)' = {}
        BY <2>2, <2>5, <4>1
      <4>3. PendingReaders(n)' = {}
        BY <2>2, <2>3, <2>5
      <4>4. deg[s] = 1 => PendingReaders(s)' = {}
        BY <2>8
      <4> QED
        BY <2>1, <4>2, <4>3, <4>4
    <3>3. q' \cap written' = {}
      BY <1>1, <2>1, <2>3 DEF IInv, QueueInv
    <3>4. \A m \in Pending' : PendingReaders(m)' = {} => m \in q'
      <4>1. SUFFICES ASSUME NEW m \in Pending', PendingReaders(m)' = {}
                     PROVE  m \in q'
        OBVIOUS
      <4>2. m \in Pending /\ m \in Name /\ m # n
        BY <2>4
      <4>3. CASE m = s
        BY <2>1, <2>8, <4>1, <4>3
      <4>4. CASE m # s
        <5>1. PendingReaders(m) = {}
          BY <2>5, <4>1, <4>2, <4>4
        <5>2. m \in q
          BY <1>1, <4>2, <5>1 DEF IInv, QueueInv
        <5> QED
          BY <2>1, <4>2, <5>2
      <4> QED
        BY <4>3, <4>4
    <3> QED
      BY <1>1, <3>1, <3>2, <3>3, <3>4 DEF QueueInv
  <2>11. EnvInv'
    <3>1. env[s] = s
      BY <2>2, <2>3 DEF IInv, EnvInv
    <3> QED
      BY <1>1, <1>3, <2>0, <2>1, <3>1 DEF IInv, TypeOK, EnvInv
  <2>12. ScanInv' /\ pc' # "broken"
    BY <1>1 DEF ScanInv
  <2> QED
    BY <2>9, <2>10, <2>11, <2>12 DEF IInv
<1> QED
  BY <1>2, <1>3

\* The queue runs dry: every pending name is still read, so the pending copies
\* permute the pending names.
LEMMA EndQueueIInv == IInv /\ EndQueue => IInv'
<1> SUFFICES ASSUME IInv, EndQueue PROVE IInv'
  OBVIOUS
<1>1. /\ pc = "queue" /\ q = {} /\ pc' = "scan" /\ todo' = Ids
      /\ UNCHANGED <<g, deg, q, start, u, code>>
  BY DEF EndQueue
<1>2. TypeOK'
  BY <1>1 DEF IInv, TypeOK, Ids
<1>3. Pending' = Pending /\ Pending \subseteq Name
  BY <1>1 DEF Pending
<1>4. \A n \in Pending : \E v \in Pending : g[v] = n
  BY <1>1 DEF IInv, QueueInv, PendingReaders
<1>5. Permutes(Pending, Pending)
  <2> DEFINE f == [v \in Pending |-> g[v]]
  <2>1. IsFiniteSet(Pending)
    BY <1>3, NamesFinite
  <2>2. \A n \in Pending : \E v \in Pending : f[v] = n
    BY <1>4
  <2>3. f = [v \in Pending |-> f[v]]
    OBVIOUS
  <2>4. \A v \in Pending : f[v] = g[v]
    OBVIOUS
  <2> HIDE DEF f
  <2>5. /\ \A v \in Pending : f[v] \in Pending
        /\ \A v, w \in Pending : f[v] = f[w] => v = w
    BY <2>1, <2>2, <2>3, OntoIsPermutation
  <2> QED
    BY <1>4, <2>4, <2>5 DEF Permutes
<1>6. \A n \in Name : deg[n] = IF n \in Pending THEN 1 ELSE 0
  <2> SUFFICES ASSUME NEW n \in Name
               PROVE  deg[n] = IF n \in Pending THEN 1 ELSE 0
    OBVIOUS
  <2>1. deg[n] = Cardinality(PendingReaders(n))
    BY <1>1 DEF IInv, QueueInv
  <2>2. CASE n \in Pending
    <3>1. PICK v \in Pending : g[v] = n
      BY <1>4, <2>2
    <3>2. PendingReaders(n) = {v}
      BY <1>5, <3>1 DEF Permutes, PendingReaders
    <3> QED
      BY <2>1, <2>2, <3>2, FS_Singleton
  <2>3. CASE n \notin Pending
    <3>1. PendingReaders(n) = {}
      BY <1>5, <2>3 DEF Permutes, PendingReaders
    <3> QED
      BY <2>1, <2>3, <3>1, FS_EmptySet
  <2> QED
    BY <2>2, <2>3
<1>7. ScanInv'
  <2>1. Permutes(Pending, Pending)'
    BY <1>1, <1>3, <1>5 DEF Permutes
  <2>2. Pending \subseteq Ids
    BY DEF Pending, Ids
  <2> QED
    BY <1>1, <1>3, <1>6, <2>1, <2>2 DEF ScanInv
<1>8. EnvInv' /\ QueueInv' /\ pc' # "broken"
  BY <1>1 DEF IInv, EnvInv, QueueInv
<1> QED
  BY <1>2, <1>7, <1>8 DEF IInv

\* The scan skips what is done, drops self copies and opens cycles.
LEMMA VisitIInv == ASSUME IInv, NEW n \in Name, Visit(n) PROVE IInv'
<1>1. /\ pc = "scan" /\ n \in todo /\ todo' = todo \ {n}
      /\ deg' = [deg EXCEPT ![n] = IF deg[n] > 0 THEN deg[n] - 1 ELSE deg[n]]
      /\ UNCHANGED <<g, q>>
  BY DEF Visit
<1>2. /\ Permutes(Pending, Pending)
      /\ \A m \in Name : deg[m] = IF m \in Pending THEN 1 ELSE 0
      /\ Pending \subseteq todo /\ Pending \subseteq Name
  BY <1>1 DEF IInv, ScanInv, Pending
<1>3. \A m \in Name : deg'[m] = IF m \in Pending \ {n} THEN 1 ELSE 0
  BY <1>1, <1>2 DEF IInv, TypeOK
<1>4. deg' \in [Name -> Nat] /\ todo' \in SUBSET Name
  <2>1. DOMAIN deg' = Name /\ deg' = [m \in Name |-> deg'[m]]
    BY <1>1 DEF IInv, TypeOK
  <2>2. \A m \in Name : deg'[m] \in Nat
    BY <1>3
  <2> QED
    BY <1>1, <2>1, <2>2 DEF IInv, TypeOK
<1>5. CASE deg[n] = 0
  <2>1. n \notin Pending
    BY <1>2, <1>5
  <2>2. UNCHANGED <<pc, start, u, env, temp, written>>
    BY <1>5 DEF Visit
  <2>3. TypeOK'
    BY <1>1, <1>4, <2>2 DEF IInv, TypeOK
  <2>4. Pending' = Pending
    BY <1>1, <2>2 DEF Pending
  <2>5. Permutes(Pending, Pending)'
    BY <1>1, <1>2, <2>4 DEF Permutes
  <2>6. ScanInv'
    BY <1>1, <1>2, <1>3, <2>1, <2>2, <2>4, <2>5 DEF ScanInv
  <2>7. EnvInv' /\ QueueInv' /\ pc' # "broken"
    BY <1>1, <2>2 DEF IInv, EnvInv, QueueInv
  <2> QED
    BY <2>3, <2>6, <2>7 DEF IInv
<1>6. CASE deg[n] # 0 /\ g[n] = n
  <2>1. n \in Pending
    BY <1>2, <1>6
  <2>2. written' = written \cup {n} /\ UNCHANGED <<pc, start, u, env, temp>>
    <3>1. deg[n] > 0
      BY <1>2, <1>6
    <3> QED
      BY <1>6, <3>1 DEF Visit
  <2>3. TypeOK'
    BY <1>1, <1>4, <2>2 DEF IInv, TypeOK
  <2>4. Pending' = Pending \ {n}
    BY <1>1, <2>2 DEF Pending
  <2>5. Permutes(Pending, Pending)'
    BY <1>1, <1>2, <1>6, <2>1, <2>4 DEF Permutes
  <2>6. ScanInv'
    BY <1>1, <1>2, <1>3, <2>2, <2>4, <2>5 DEF ScanInv
  <2>7. EnvInv'
    BY <1>1, <1>6, <2>1, <2>2 DEF IInv, EnvInv, Pending
  <2>8. QueueInv' /\ pc' # "broken"
    BY <1>1, <2>2 DEF QueueInv
  <2> QED
    BY <2>3, <2>6, <2>7, <2>8 DEF IInv
<1>7. CASE deg[n] # 0 /\ g[n] # n
  <2>1. n \in Pending /\ g[n] # NoName /\ g[n] \in Pending
    BY <1>2, <1>7 DEF Permutes, Pending
  <2>2. /\ pc' = "cycle" /\ start' = n /\ u' = g[n] /\ temp' = env[g[n]]
        /\ UNCHANGED <<env, written>>
    BY <1>7, <2>1 DEF Visit, SaveFirst
  <2>3. env[g[n]] = g[n] /\ g[n] \in Name
    BY <1>2, <2>1 DEF IInv, EnvInv, Pending
  <2>4. TypeOK'
    BY <1>1, <1>4, <2>2, <2>3 DEF IInv, TypeOK
  <2>5. Pending' = Pending
    BY <1>1, <2>2 DEF Pending
  <2>6. (Pending \ {g[n]}) \cup {g[n]} = Pending
    BY <2>1
  <2>7. Permutes(Pending, (Pending \ {u}) \cup {g[start]})'
    BY <1>1, <1>2, <2>2, <2>5, <2>6 DEF Permutes
  <2>8. ScanInv'
    BY <1>1, <1>2, <1>3, <1>7, <2>1, <2>2, <2>3, <2>5, <2>7 DEF ScanInv
  <2>9. EnvInv' /\ QueueInv' /\ pc' # "broken"
    BY <1>1, <2>2 DEF IInv, EnvInv, QueueInv
  <2> QED
    BY <2>4, <2>8, <2>9 DEF IInv
<1> QED
  BY <1>5, <1>6, <1>7

\* Around a cycle the source of the next move is never overwritten yet.
LEMMA FollowCycleIInv == IInv /\ FollowCycle => IInv'
<1> SUFFICES ASSUME IInv, FollowCycle PROVE IInv'
  OBVIOUS
<1>0. PICK n \in Name, s \in Name, x \in Name :
        n = u /\ s = start /\ x = g[u]
  BY DEF FollowCycle, IInv, TypeOK, ScanInv, Pending
<1>1. /\ pc = "cycle" /\ n # s
      /\ deg' = [deg EXCEPT ![n] = @ - 1]
      /\ UNCHANGED <<g, q, todo, start>>
  BY <1>0 DEF FollowCycle
<1>2. /\ n \in Pending /\ s \in Pending /\ Pending \subseteq Name
      /\ temp = g[s] /\ g[s] # s
      /\ Permutes(Pending, (Pending \ {n}) \cup {g[s]})
      /\ n # g[s] => g[s] \notin Pending
      /\ \A m \in Name : deg[m] = IF m \in Pending \ {s} THEN 1 ELSE 0
      /\ Pending \ {s} \subseteq todo
  BY <1>0, <1>1 DEF IInv, ScanInv, Pending
<1>3. g[n] = x /\ x # NoName /\ x # g[s] /\ x \in Pending \ {n}
  BY <1>0, <1>1, <1>2, NameAssumption DEF Permutes
<1>4. /\ env' = [env EXCEPT ![n] = env[x]]
      /\ written' = written \cup {n}
      /\ u' = x
      /\ UNCHANGED <<pc, temp>>
  BY <1>0, <1>3 DEF FollowCycle, Move
<1>5. env[x] = x
  BY <1>3 DEF IInv, EnvInv, Pending
<1>6. Pending' = Pending \ {n}
  BY <1>1, <1>4 DEF Pending
<1>7. \A m \in Name : deg'[m] = IF m \in Pending' \ {s} THEN 1 ELSE 0
  BY <1>1, <1>2, <1>6 DEF IInv, TypeOK
<1>8. TypeOK'
  <2>1. DOMAIN deg' = Name /\ deg' = [m \in Name |-> deg'[m]]
    BY <1>1 DEF IInv, TypeOK
  <2>2. deg' \in [Name -> Nat]
    BY <1>7, <2>1
  <2>3. env' \in [Name -> Name] /\ written' \in SUBSET Name
    BY <1>4, <1>5 DEF IInv, TypeOK
  <2> QED
    BY <1>1, <1>4, <2>2, <2>3 DEF IInv, TypeOK
<1>9. EnvInv'
  BY <1>1, <1>3, <1>4, <1>5 DEF IInv, TypeOK, EnvInv
<1>10. Permutes(Pending, (Pending \ {u}) \cup {g[start]})'
  <2> DEFINE Q == (Pending \ {n}) \cup {g[s]}
             QQ == ((Pending \ {n}) \ {x}) \cup {g[s]}
  <2>1. \A v \in Pending \ {n} : g[v] \in QQ
    BY <1>2, <1>3 DEF Permutes
  <2>2. \A m \in QQ : \E v \in Pending \ {n} : g[v] = m
    BY <1>2, <1>3 DEF Permutes
  <2>3. \A v, w \in Pending \ {n} : g[v] = g[w] => v = w
    BY <1>2 DEF Permutes
  <2>4. ((Pending \ {u}) \cup {g[start]})' = QQ
    BY <1>0, <1>1, <1>4, <1>6
  <2> HIDE DEF QQ
  <2> QED
    BY <1>1, <1>6, <2>1, <2>2, <2>3, <2>4 DEF Permutes
<1>11. ScanInv'
  BY <1>0, <1>1, <1>2, <1>3, <1>4, <1>6, <1>7, <1>10 DEF ScanInv
<1>12. QueueInv' /\ pc' # "broken"
  BY <1>1, <1>4 DEF QueueInv
<1> QED
  BY <1>8, <1>9, <1>11, <1>12 DEF IInv

\* Closing a cycle writes its first destination from the temporary.
LEMMA CloseCycleIInv == IInv /\ CloseCycle => IInv'
<1> SUFFICES ASSUME IInv, CloseCycle PROVE IInv'
  OBVIOUS
<1>0. PICK s \in Name : s = start
  BY DEF CloseCycle, IInv, TypeOK, ScanInv, Pending
<1>1. /\ pc = "cycle" /\ u = s /\ pc' = "scan"
      /\ env' = [env EXCEPT ![s] = temp]
      /\ written' = written \cup {s}
      /\ start' = None /\ u' = None
      /\ UNCHANGED <<g, deg, q, todo, temp>>
  BY <1>0 DEF CloseCycle
<1>2. /\ s \in Pending /\ Pending \subseteq Name
      /\ temp = g[s] /\ g[s] # s /\ g[s] \in Name
      /\ Permutes(Pending, (Pending \ {s}) \cup {g[s]})
      /\ g[s] \notin Pending
      /\ \A m \in Name : deg[m] = IF m \in Pending \ {s} THEN 1 ELSE 0
      /\ Pending \ {s} \subseteq todo
  BY <1>0, <1>1 DEF IInv, TypeOK, ScanInv, Pending
<1>3. Pending' = Pending \ {s}
  BY <1>1 DEF Pending
<1>4. TypeOK'
  BY <1>1, <1>2 DEF IInv, TypeOK
<1>5. EnvInv'
  BY <1>1, <1>2, NameAssumption DEF IInv, TypeOK, EnvInv, Pending
<1>6. Permutes(Pending, Pending)'
  BY <1>1, <1>2, <1>3 DEF Permutes
<1>7. ScanInv'
  BY <1>1, <1>2, <1>3, <1>6 DEF ScanInv
<1>8. QueueInv' /\ pc' # "broken"
  BY <1>1 DEF QueueInv
<1> QED
  BY <1>4, <1>5, <1>7, <1>8 DEF IInv

\* The remaining steps change nothing the invariant depends on.
LEMMA FinishIInv == IInv /\ (Finish \/ UNCHANGED vars) => IInv'
<1> SUFFICES ASSUME IInv, Finish \/ UNCHANGED vars PROVE IInv'
  OBVIOUS
<1>1. /\ UNCHANGED <<g, solve, code>>
      /\ \/ pc = "scan" /\ todo = {} /\ pc' = "done"
         \/ UNCHANGED pc
  BY DEF Finish, vars
<1>2. Pending' = Pending /\ \A n \in Name : PendingReaders(n)' = PendingReaders(n)
  BY <1>1 DEF Pending, PendingReaders
<1>3. TypeOK'
  BY <1>1 DEF IInv, TypeOK
<1>4. EnvInv'
  BY <1>1 DEF IInv, EnvInv
<1>5. QueueInv'
  BY <1>1, <1>2 DEF IInv, TypeOK, QueueInv, PendingReaders
<1>6. ScanInv'
  BY <1>1, <1>2 DEF IInv, ScanInv, Permutes
<1> QED
  BY <1>1, <1>3, <1>4, <1>5, <1>6 DEF IInv

\* Every step preserves the invariant.
LEMMA NextIInv == IInv /\ [Next]_vars => IInv'
BY CollectIInv, PopIInv, EndQueueIInv, VisitIInv, FollowCycleIInv,
   CloseCycleIInv, FinishIInv DEF Next, Solve, Terminated

\* The invariant implies what the runs check.
LEMMA IInvParallel == IInv => SequentialIsParallel /\ LeftoversAreCycles
<1> SUFFICES ASSUME IInv PROVE SequentialIsParallel /\ LeftoversAreCycles
  OBVIOUS
<1>1. SequentialIsParallel
  <2> SUFFICES ASSUME pc = "done", NEW n \in Name
               PROVE  env[n] = IF g[n] = NoName THEN n ELSE g[n]
    BY DEF SequentialIsParallel
  <2>1. n \notin Pending
    BY DEF IInv, ScanInv
  <2> QED
    BY <2>1 DEF IInv, EnvInv, Pending
<1>2. LeftoversAreCycles
  BY DEF IInv, TypeOK, ScanInv, LeftoversAreCycles, Pending
<1> QED
  BY <1>1, <1>2

\* The inductive invariant holds throughout Solve.
THEOREM Inductive == Spec => []IInv
<1> QED
  BY InitIInv, NextIInv, PTL DEF Spec

\* The reader counts of PhiTopo never wrap around, and its fields keep their
\* types.
THEOREM TypeCorrect == Spec => []TypeOK
<1>1. IInv => TypeOK
  BY DEF IInv
<1> QED
  BY Inductive, <1>1, PTL

\* The moves ReplacePhiWithMoves emits in Solve's order have, executed one by
\* one, the effect of the parallel copy.
THEOREM SequentialMoves == Spec => []SequentialIsParallel
<1> QED
  BY Inductive, IInvParallel, PTL

\* Solve never reports a broken cycle: what the queue leaves is a permutation.
THEOREM NoBrokenCycle == Spec => []LeftoversAreCycles
<1> QED
  BY Inductive, IInvParallel, PTL

\* Solve implements the specification of the parallel copy.
THEOREM Refinement == Spec => ImplementsParallelCopy
<1> DEFINE value == IF pc = "done" THEN env ELSE [n \in Name |-> n]
<1>1. Init => Copies!Init
  BY DEF Init, Copies!Init
<1>2. IInv /\ [Next]_vars => [Copies!Next]_<<g, value>>
  <2> SUFFICES ASSUME IInv, [Next]_vars PROVE [Copies!Next]_<<g, value>>
    OBVIOUS
  <2>1. ASSUME NEW from \in Name, NEW to \in Name, AddEdge(from, to)
        PROVE  Copies!AddPhi
    BY <2>1 DEF AddEdge, Copies!AddPhi
  <2>2. CASE Finish
    <3>1. pc = "scan" /\ pc' = "done" /\ todo = {} /\ UNCHANGED <<g, env>>
      BY <2>2 DEF Finish
    <3>2. env = [n \in Name |-> IF g[n] = NoName THEN n ELSE g[n]]
      <4>1. Pending = {}
        BY <3>1 DEF IInv, ScanInv
      <4>2. \A n \in Name : env[n] = IF g[n] = NoName THEN n ELSE g[n]
        BY <4>1 DEF IInv, EnvInv, Pending
      <4> QED
        BY <4>2 DEF IInv, TypeOK
    <3>3. Copies!Copied = env
      BY <3>1, <3>2 DEF Copies!Copied, IInv, TypeOK
    <3> QED
      BY <3>1, <3>3 DEF Copies!Next, Copies!Copy
  <2>3. CASE \/ StartSolve \/ EndQueue \/ FollowCycle \/ CloseCycle
             \/ \E n \in Name : Pop(n) \/ Visit(n)
    <3>1. pc # "done" /\ pc' # "done" /\ UNCHANGED g
      BY <2>3 DEF StartSolve, EndQueue, FollowCycle, CloseCycle, Pop, Visit
    <3> QED
      BY <3>1
  <2>4. CASE UNCHANGED vars
    BY <2>4 DEF vars
  <2> QED
    BY <2>1, <2>2, <2>3, <2>4 DEF Next, Solve, Terminated, Copies!Next
<1> QED
  BY <1>1, <1>2, Inductive, PTL DEF Spec, Copies!Spec, ImplementsParallelCopy
=============================================================================
