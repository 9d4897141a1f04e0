---------------------------- MODULE CallSaveProofs ----------------------------
(***************************************************************************)
(* The saving of registers around calls is correct for any number of       *)
(* argument registers.  Each emitting operation keeps a machine canonical; *)
(* an action composes such operations.                                     *)
(***************************************************************************)
EXTENDS CallSave, TLAPS

\* A machine in which every tracked location is where the tracker says.
Good(mm) ==
  /\ mm \in Machine
  /\ Canonical(mm)
  /\ mm.stale = {}
  /\ Const \in mm.reg

\* The used registers, ra and the constant registers are distinct locations.
LEMMA Locations ==
  ASSUME used \in 0 .. NumAReg
  PROVE  /\ UsedAReg \subseteq AReg /\ UsedAReg \subseteq Loc
         /\ Saved \subseteq Loc /\ UsedAReg \subseteq Saved /\ Ra \in Saved
         /\ Ra \notin UsedAReg /\ Const \notin Saved /\ NoResult \notin UsedAReg
         /\ Ra \in Loc /\ Const \in Loc
BY NumARegAssumption DEF UsedAReg, AReg, Loc, Saved, Ra, Const, NoResult

LEMMA SavedPrime ==
  ASSUME used' \in 0 .. NumAReg
  PROVE  Saved' \subseteq Loc /\ Const \in Loc
<1>1. \A u \in 0 .. NumAReg : 0 .. u - 1 \subseteq 0 .. NumAReg - 1
  BY NumARegAssumption
<1>2. UsedAReg' \subseteq AReg
  BY <1>1 DEF UsedAReg, AReg
<1> QED
  BY <1>2 DEF Saved, Loc

\* Reading restores what it reads and uses nothing stale.
LEMMA ReadGood ==
  ASSUME used \in 0 .. NumAReg,
         NEW mm, Good(mm), NEW S \in SUBSET UsedAReg
  PROVE  /\ Good(Read(mm, S))
         /\ Read(mm, S).valid = mm.valid \cup S
         /\ Saved \subseteq mm.valid => Read(mm, S).reg = mm.reg
<1> DEFINE e == EnsureARegValid(mm, S)
<1>0. S \subseteq Saved /\ S \subseteq Loc /\ Const \notin S
  BY Locations
<1>1. /\ e \in Machine
      /\ e.valid = mm.valid \cup S
      /\ e.reg = (mm.reg \ (S \ mm.valid)) \cup ((S \ mm.valid) \cap mm.slot)
      /\ e.slot = mm.slot /\ e.slot_valid = mm.slot_valid /\ e.stale = {}
  BY <1>0 DEF Good, EnsureARegValid, Machine
<1>2. Canonical(e) /\ S \subseteq e.reg /\ Const \in e.reg
  BY <1>0, <1>1 DEF Good, Canonical
<1>3. Note("register", ~(S \subseteq e.reg)) = {} /\ Note("constant", Const \notin e.reg) = {}
  BY <1>2 DEF Note
<1>4. Read(mm, S) = [e EXCEPT !.stale = {}]
  BY <1>1, <1>3 DEF Read
<1>5. Read(mm, S) = e
  BY <1>1, <1>4 DEF Machine
<1> QED
  BY <1>0, <1>1, <1>2, <1>5 DEF Good

LEMMA WriteGood ==
  ASSUME used \in 0 .. NumAReg,
         NEW mm, Good(mm), NEW r \in UsedAReg \cup {NoResult}
  PROVE  Good(Write(mm, r))
<1>1. CASE r = NoResult
  BY <1>1 DEF Write
<1>2. CASE r # NoResult
  <2> DEFINE w == Write(mm, r)
  <2>1. r \in Loc
    BY <1>2, Locations
  <2>2. /\ w \in Machine
        /\ w.valid = mm.valid \cup {r} /\ w.reg = mm.reg \cup {r}
        /\ w.slot = mm.slot \ {r}
        /\ w.slot_valid = mm.slot_valid /\ w.stale = mm.stale
    BY <1>2, <2>1 DEF Good, Write, Machine
  <2> QED
    BY <2>2 DEF Good, Canonical
<1> QED
  BY <1>1, <1>2

\* After SaveRegister nothing that is tracked relies on a hardware register.
LEMMA SaveGood ==
  ASSUME used \in 0 .. NumAReg, NEW mm, Good(mm)
  PROVE  /\ Good(SaveRegister(mm))
         /\ Saved \cap SaveRegister(mm).valid = {}
<1> DEFINE s == SaveRegister(mm)
           saving == Saved \cap mm.valid
<1>1. /\ s \in Machine
      /\ s.valid = mm.valid \ saving /\ s.reg = mm.reg
      /\ s.slot = (mm.slot \ saving) \cup (saving \cap mm.reg)
      /\ s.slot_valid = mm.slot_valid \cup saving /\ s.stale = mm.stale
  BY Locations DEF Good, SaveRegister, Machine
<1> QED
  BY <1>1 DEF Good, Canonical

\* So a call may change every register, as long as the constants are reloaded.
LEMMA MemcpyGood ==
  ASSUME used \in 0 .. NumAReg, NEW mm, Good(mm), Saved \cap mm.valid = {}
  PROVE  /\ Good(Memcpy(mm))
         /\ Saved \cap Memcpy(mm).valid = {}
         /\ Saved \subseteq Memcpy(mm).slot
<1> DEFINE c == Memcpy(mm)
<1>1. /\ c \in Machine
      /\ c.valid = mm.valid /\ c.reg = {Const}
      /\ c.slot = mm.slot
      /\ c.slot_valid = mm.slot_valid /\ c.stale = mm.stale
  BY Locations DEF Good, Memcpy, Callee, ReloadConstCache, Machine
<1> QED
  BY <1>1 DEF Good, Canonical

LEMMA FlushGood ==
  ASSUME used \in 0 .. NumAReg, NEW mm, Good(mm)
  PROVE  /\ Good(FlushSavedRegisters(mm))
         /\ Saved \subseteq FlushSavedRegisters(mm).valid
<1>1. CASE Saved \subseteq mm.valid
  BY <1>1 DEF FlushSavedRegisters
<1>2. CASE ~(Saved \subseteq mm.valid)
  <2> DEFINE f == FlushSavedRegisters(mm)
             restored == (Saved \ mm.valid) \cap mm.slot_valid
  <2>1. /\ f \in Machine
        /\ f.valid = mm.valid \cup restored
        /\ f.reg = ((mm.reg \cup {Const}) \ restored) \cup (restored \cap mm.slot)
        /\ f.slot = mm.slot
        /\ f.slot_valid = mm.slot_valid /\ f.stale = mm.stale
    BY <1>2, Locations DEF Good, FlushSavedRegisters, ReloadConstCache, Machine
  <2>2. restored = Saved \ mm.valid
    BY DEF Good, Canonical
  <2> QED
    BY <2>1, <2>2, Locations DEF Good, Canonical
<1> QED
  BY <1>1, <1>2

-----------------------------------------------------------------------------
(* Programs without large copies through an argument register and without a  *)
(* frame size among the cached constants.                                    *)

\* A step inside a block keeps IInv when it keeps the machine good.
LEMMA InsideBlock ==
  ASSUME IInv, at = "block",
         UNCHANGED <<at, has_calls, used, cached>>, Good(m')
  PROVE  IInv'
BY DEF IInv, TypeOK, Good, CanonicalValue, Canonical, NoStaleUse, ExitsRestored,
       Saved, UsedAReg

\* Leaving a block with everything valid keeps it.
LEMMA AtEdge ==
  ASSUME IInv, at' = "edge", UNCHANGED <<has_calls, used, cached>>,
         Good(m'), Saved \subseteq m'.valid
  PROVE  IInv'
<1>1. Saved' = Saved
  BY DEF Saved, UsedAReg
<1>2. Canonical(m)'
  BY <1>1 DEF Good, Canonical
<1>3. Saved \cup {Const} \subseteq m'.reg
  BY DEF Good, Canonical
<1> QED
  BY <1>1, <1>2, <1>3 DEF IInv, TypeOK, Good, CanonicalValue, NoStaleUse,
                          ExitsRestored

LEMMA InitIInv == Init => IInv
<1> SUFFICES ASSUME Init PROVE IInv
  OBVIOUS
<1>1. m \in Machine
  BY DEF Init, Machine
<1>2. used \in 0 .. NumAReg
  BY NumARegAssumption DEF Init
<1>3. Saved \subseteq Loc /\ Const \in Loc
  BY <1>2, Locations
<1>4. has_calls \in BOOLEAN /\ cached \in BOOLEAN /\ at \in {"edge", "block"}
  BY Zenon DEF Init
<1>5. m.valid = Loc /\ m.reg = Loc /\ m.stale = {}
  BY DEF Init
<1> QED
  BY <1>1, <1>2, <1>3, <1>4, <1>5
  DEF IInv, TypeOK, CanonicalValue, Canonical, NoStaleUse, ExitsRestored

LEMMA NextIInv ==
  ASSUME ~LargeCopyByAReg, ~CachedFrameSize, IInv, [Next]_vars
  PROVE  IInv'
<1>0. used \in 0 .. NumAReg /\ Good(m)
  BY DEF IInv, TypeOK, Good, CanonicalValue, NoStaleUse
<1>1. ASSUME NEW n \in 0 .. NumAReg, NEW calls \in BOOLEAN, NEW consts \in BOOLEAN,
             NEW hit \in BOOLEAN, StartFunction(n, calls, consts, hit)
      PROVE  IInv'
  <2>1. ~hit
    BY <1>1 DEF StartFunction
  <2>2. m' = [valid |-> Loc, slot_valid |-> {}, reg |-> Loc, slot |-> {},
              stale |-> {}]
    <3>1. Note("constant", hit) = {}
      BY <2>1, Zenon DEF Note
    <3>2. m.stale \cup Note("constant", hit) = {}
      BY <3>1 DEF IInv, NoStaleUse
    <3>3. m' = [valid |-> Loc, slot_valid |-> {}, reg |-> Loc, slot |-> {},
                stale |-> m.stale \cup Note("constant", hit)]
      BY <1>1, Zenon DEF StartFunction
    <3> QED
      BY <3>2, <3>3, Zenon
  <2>3. m' \in Machine
    BY <2>2 DEF Machine
  <2>4. used' \in 0 .. NumAReg /\ has_calls' \in BOOLEAN /\ cached' \in BOOLEAN /\ at' = "edge"
    BY <1>1 DEF StartFunction
  <2>5. Saved' \subseteq Loc /\ Const \in Loc
    BY <2>4, SavedPrime
  <2> QED
    BY <2>2, <2>3, <2>4, <2>5 DEF IInv, TypeOK, CanonicalValue, Canonical,
         NoStaleUse, ExitsRestored
<1>2. CASE StartBlock
  <2>1. PICK S \in SUBSET (AReg \cup {Ra}) : m' = [m EXCEPT !.slot = S]
    BY <1>2 DEF StartBlock
  <2>2. /\ m' \in Machine /\ m'.valid = m.valid /\ m'.reg = m.reg
        /\ m'.stale = m.stale
    BY <1>0, <2>1 DEF Good, Machine, Loc
  <2>3. Saved \subseteq m.valid /\ Saved \subseteq m.reg
    BY <1>2 DEF StartBlock, IInv, ExitsRestored
  <2> QED
    BY <1>2, <2>2, <2>3 DEF StartBlock, IInv, TypeOK, CanonicalValue, Canonical,
         NoStaleUse, ExitsRestored, Saved, UsedAReg
<1>3. ASSUME NEW S \in SUBSET UsedAReg, NEW r \in UsedAReg \cup {NoResult},
             Instruction(S, r)
      PROVE  IInv'
  <2>1. Good(m')
    BY <1>0, <1>3, ReadGood, WriteGood DEF Instruction
  <2> QED
    BY <1>3, <2>1, InsideBlock DEF Instruction
<1>4. CASE CopyLarge
  <2>1. Good(Read(m, {}))
    BY <1>0, ReadGood
  <2>2. Good(m')
    BY <1>0, <1>4, <2>1, SaveGood, MemcpyGood DEF CopyLarge
  <2> QED
    BY <1>4, <2>2, InsideBlock DEF CopyLarge
<1>5. ASSUME NEW args \in SUBSET UsedAReg, NEW copies \in BOOLEAN,
             NEW r \in UsedAReg \cup {NoResult}, Call(args, copies, r)
      PROVE  IInv'
  <2> DEFINE s == SaveRegister(Read(m, {}))
             c == IF copies THEN Memcpy(s) ELSE s
             a == [c EXCEPT !.stale = @ \cup Note("argument", ~(args \subseteq c.slot))]
  <2>1. Good(Read(m, {}))
    BY <1>0, ReadGood
  <2>2. Good(s) /\ Saved \cap s.valid = {}
    BY <1>0, <2>1, SaveGood
  <2>3. Good(c) /\ Saved \cap c.valid = {}
    BY <1>0, <2>2, MemcpyGood
  <2>4. args \subseteq c.slot
    BY <2>3, <1>0, Locations DEF Good, Canonical
  <2>5. a = c
    BY <2>3, <2>4 DEF Note, Good, Machine
  <2>6. m' = Write(Memcpy(c), r)
    BY <1>5, <2>5 DEF Call, Memcpy
  <2>7. Good(m')
    BY <1>0, <2>3, <2>6, MemcpyGood, WriteGood
  <2> QED
    BY <1>5, <2>7, InsideBlock DEF Call
<1>6. ASSUME NEW S \in SUBSET UsedAReg, Leave(S)
      PROVE  IInv'
  <2>1. Good(m') /\ Saved \subseteq m'.valid
    BY <1>0, <1>6, FlushGood, ReadGood DEF Leave
  <2> QED
    BY <1>6, <2>1, AtEdge DEF Leave
<1>7. ASSUME NEW S \in SUBSET UsedAReg, Return(S)
      PROVE  IInv'
  <2> DEFINE r == Read(FlushSavedRegisters(m), S)
  <2>1. Good(r) /\ Saved \subseteq r.valid
    BY <1>0, FlushGood, ReadGood
  <2>2. Ra \in r.reg
    BY <2>1, <1>0, Locations DEF Good, Canonical
  <2>3. m' = r
    BY <1>7, <2>1, <2>2 DEF Return, Note, Good, Machine
  <2> QED
    BY <1>7, <2>1, <2>3, AtEdge DEF Return
<1>8. CASE UNCHANGED vars
  BY <1>8 DEF vars, IInv, TypeOK, CanonicalValue, Canonical, NoStaleUse,
       ExitsRestored, Saved, UsedAReg
<1> QED
  BY <1>1, <1>2, <1>3, <1>4, <1>5, <1>6, <1>7, <1>8
  DEF Next, LoadLarge, StoreLarge

\* The tracker is right at every point of every function, for any number of
\* argument registers.
THEOREM Inductive ==
  ASSUME ~LargeCopyByAReg, ~CachedFrameSize
  PROVE  Spec => []IInv
BY InitIInv, NextIInv, PTL DEF Spec

\* The comment on a_reg_valid_ holds: a valid register, or else a slot that was
\* written, holds the variable.
THEOREM Tracker ==
  ASSUME ~LargeCopyByAReg, ~CachedFrameSize
  PROVE  Spec => []CanonicalValue
<1>1. IInv => CanonicalValue
  BY DEF IInv
<1> QED
  BY <1>1, Inductive, PTL

\* No instruction that is emitted reads a stale register, slot or constant.
THEOREM NothingStale ==
  ASSUME ~LargeCopyByAReg, ~CachedFrameSize
  PROVE  Spec => []NoStaleUse
<1>1. IInv => NoStaleUse
  BY DEF IInv
<1> QED
  BY <1>1, Inductive, PTL

\* Every block is left with all registers restored.
THEOREM BlocksRestore ==
  ASSUME ~LargeCopyByAReg, ~CachedFrameSize
  PROVE  Spec => []ExitsRestored
<1>1. IInv => ExitsRestored
  BY DEF IInv
<1> QED
  BY <1>1, Inductive, PTL

-----------------------------------------------------------------------------
(* Programs of every shape: the return address.                              *)

RaGood(mm) ==
  /\ mm \in Machine
  /\ "return" \notin mm.stale
  /\ Ra \in mm.valid => Ra \in mm.reg
  /\ Ra \notin mm.valid => Ra \in mm.slot /\ Ra \in mm.slot_valid

\* Operations on argument registers and constants leave ra alone.
LEMMA EnsureRa ==
  ASSUME used \in 0 .. NumAReg,
         NEW mm, RaGood(mm), NEW S \in SUBSET UsedAReg
  PROVE  /\ RaGood(EnsureARegValid(mm, S))
         /\ Ra \in EnsureARegValid(mm, S).valid <=> Ra \in mm.valid
<1>0. S \subseteq Loc /\ Ra \notin S
  BY Locations
<1>1. /\ EnsureARegValid(mm, S) \in Machine
      /\ EnsureARegValid(mm, S).valid = mm.valid \cup S
      /\ EnsureARegValid(mm, S).reg
           = (mm.reg \ (S \ mm.valid)) \cup ((S \ mm.valid) \cap mm.slot)
      /\ EnsureARegValid(mm, S).slot = mm.slot
      /\ EnsureARegValid(mm, S).slot_valid = mm.slot_valid
      /\ EnsureARegValid(mm, S).stale = mm.stale
  BY <1>0 DEF RaGood, EnsureARegValid, Machine
<1> QED
  BY <1>0, <1>1 DEF RaGood

LEMMA NoteRa ==
  ASSUME NEW mm, RaGood(mm), NEW K \in SUBSET (Kinds \ {"return"})
  PROVE  LET n == [mm EXCEPT !.stale = @ \cup K]
         IN  RaGood(n) /\ n.valid = mm.valid /\ n.reg = mm.reg
<1> DEFINE n == [mm EXCEPT !.stale = @ \cup K]
<1>1. /\ n \in Machine
      /\ n.valid = mm.valid /\ n.reg = mm.reg /\ n.slot = mm.slot
      /\ n.slot_valid = mm.slot_valid /\ n.stale = mm.stale \cup K
  BY DEF RaGood, Machine
<1> QED
  BY <1>1 DEF RaGood

LEMMA ReadRa ==
  ASSUME used \in 0 .. NumAReg,
         NEW mm, RaGood(mm), NEW S \in SUBSET UsedAReg
  PROVE  /\ RaGood(Read(mm, S))
         /\ Ra \in Read(mm, S).valid <=> Ra \in mm.valid
<1> DEFINE e == EnsureARegValid(mm, S)
           K == Note("register", ~(S \subseteq e.reg))
                  \cup Note("constant", Const \notin e.reg)
<1>1. RaGood(e) /\ (Ra \in e.valid <=> Ra \in mm.valid)
  BY EnsureRa
<1>2. K \in SUBSET (Kinds \ {"return"})
  BY DEF Note, Kinds
<1>3. Read(mm, S) = [e EXCEPT !.stale = @ \cup K]
  BY <1>1 DEF Read, RaGood, Machine
<1> HIDE DEF e, K
<1> QED
  BY <1>1, <1>2, <1>3, NoteRa

LEMMA WriteRa ==
  ASSUME used \in 0 .. NumAReg,
         NEW mm, RaGood(mm), NEW r \in UsedAReg \cup {NoResult}
  PROVE  RaGood(Write(mm, r))
<1>1. CASE r = NoResult
  BY <1>1 DEF Write
<1>2. CASE r # NoResult
  <2>1. r \in Loc /\ r # Ra
    BY <1>2, Locations
  <2>2. /\ Write(mm, r) \in Machine
        /\ Write(mm, r).valid = mm.valid \cup {r}
        /\ Write(mm, r).reg = mm.reg \cup {r}
        /\ Write(mm, r).slot = mm.slot \ {r}
        /\ Write(mm, r).slot_valid = mm.slot_valid
        /\ Write(mm, r).stale = mm.stale
    BY <1>2, <2>1 DEF RaGood, Write, Machine
  <2> QED
    BY <2>1, <2>2 DEF RaGood
<1> QED
  BY <1>1, <1>2

\* ra is stored while the register still has it, so a call may spoil it.
LEMMA SaveRa ==
  ASSUME used \in 0 .. NumAReg, NEW mm, RaGood(mm)
  PROVE  RaGood(SaveRegister(mm)) /\ Ra \notin SaveRegister(mm).valid
<1> DEFINE s == SaveRegister(mm)
           saving == Saved \cap mm.valid
<1>1. /\ s \in Machine
      /\ s.valid = mm.valid \ saving /\ s.reg = mm.reg
      /\ s.slot = (mm.slot \ saving) \cup (saving \cap mm.reg)
      /\ s.slot_valid = mm.slot_valid \cup saving /\ s.stale = mm.stale
  BY Locations DEF RaGood, SaveRegister, Machine
<1> QED
  BY <1>1, Locations DEF RaGood

LEMMA MemcpyRa ==
  ASSUME NEW mm, RaGood(mm), Ra \notin mm.valid
  PROVE  RaGood(Memcpy(mm)) /\ Ra \notin Memcpy(mm).valid
<1>1. /\ Memcpy(mm) \in Machine
      /\ Memcpy(mm).valid = mm.valid /\ Memcpy(mm).reg = {Const}
      /\ Memcpy(mm).slot = mm.slot
      /\ Memcpy(mm).slot_valid = mm.slot_valid
      /\ Memcpy(mm).stale = mm.stale
  BY DEF RaGood, Memcpy, Callee, ReloadConstCache, Machine, Loc
<1> QED
  BY <1>1 DEF RaGood

LEMMA FlushRa ==
  ASSUME used \in 0 .. NumAReg, NEW mm, RaGood(mm)
  PROVE  RaGood(FlushSavedRegisters(mm)) /\ Ra \in FlushSavedRegisters(mm).valid
<1>1. CASE Saved \subseteq mm.valid
  BY <1>1, Locations DEF FlushSavedRegisters
<1>2. CASE ~(Saved \subseteq mm.valid)
  <2> DEFINE f == FlushSavedRegisters(mm)
             restored == (Saved \ mm.valid) \cap mm.slot_valid
  <2>1. /\ f \in Machine
        /\ f.valid = mm.valid \cup restored
        /\ f.reg = ((mm.reg \cup {Const}) \ restored) \cup (restored \cap mm.slot)
        /\ f.slot = mm.slot
        /\ f.slot_valid = mm.slot_valid /\ f.stale = mm.stale
    BY <1>2, Locations DEF RaGood, FlushSavedRegisters, ReloadConstCache, Machine
  <2> QED
    BY <2>1, Locations DEF RaGood
<1> QED
  BY <1>1, <1>2

LEMMA NextRaInv ==
  ASSUME RaInv, [Next]_vars
  PROVE  RaInv'
<1>0. used \in 0 .. NumAReg /\ RaGood(m)
  BY DEF RaInv, TypeOK, ReturnsToCaller, RaGood
<1>1. ASSUME UNCHANGED <<has_calls, used, cached>>, RaGood(m'),
             at' = "block" \/ (at' = "edge" /\ Ra \in m'.valid)
      PROVE  RaInv'
  BY <1>1 DEF RaInv, TypeOK, ReturnsToCaller, RaGood
<1>2. ASSUME NEW n \in 0 .. NumAReg, NEW calls \in BOOLEAN, NEW consts \in BOOLEAN,
             NEW hit \in BOOLEAN, StartFunction(n, calls, consts, hit)
      PROVE  RaInv'
  <2> DEFINE K == m.stale \cup Note("constant", hit)
  <2>1. K \in SUBSET Kinds /\ "return" \notin K
    BY <1>0 DEF Note, Kinds, RaGood, Machine
  <2>2. m' = [valid |-> Loc, slot_valid |-> {}, reg |-> Loc, slot |-> {},
              stale |-> K]
    BY <1>2, Zenon DEF StartFunction
  <2>3. used' \in 0 .. NumAReg /\ has_calls' \in BOOLEAN /\ cached' \in BOOLEAN
        /\ at' = "edge"
    BY <1>2 DEF StartFunction, RaInv, TypeOK
  <2> HIDE DEF K
  <2>4. m' \in Machine /\ m'.valid = Loc /\ m'.reg = Loc /\ m'.stale = K
    BY <2>1, <2>2 DEF Machine
  <2>5. Ra \in Loc
    BY DEF Loc
  <2> QED
    BY <2>1, <2>3, <2>4, <2>5 DEF RaInv, TypeOK, ReturnsToCaller
<1>3. CASE StartBlock
  <2>1. PICK S \in SUBSET (AReg \cup {Ra}) : m' = [m EXCEPT !.slot = S]
    BY <1>3 DEF StartBlock
  <2>2. /\ m' \in Machine /\ m'.valid = m.valid /\ m'.reg = m.reg
        /\ m'.stale = m.stale
    BY <1>0, <2>1 DEF RaGood, Machine, Loc
  <2>3. RaGood(m')
    BY <1>0, <1>3, <2>2 DEF StartBlock, RaInv, RaGood
  <2> QED
    BY <1>1, <1>3, <2>3 DEF StartBlock
<1>4. ASSUME NEW S \in SUBSET UsedAReg, NEW r \in UsedAReg \cup {NoResult},
             Instruction(S, r)
      PROVE  RaInv'
  BY <1>0, <1>1, <1>4, ReadRa, WriteRa DEF Instruction
<1>5. ASSUME NEW S \in SUBSET UsedAReg
      PROVE  RaGood(SaveRegister(Read(m, S))) /\ Ra \notin SaveRegister(Read(m, S)).valid
  BY <1>0, ReadRa, SaveRa
<1>6. CASE CopyLarge
  BY <1>1, <1>5, <1>6, MemcpyRa DEF CopyLarge
<1>7. ASSUME NEW p \in UsedAReg
      PROVE  LET e == EnsureARegValid(SaveRegister(Read(m, {p})), {p})
             IN  RaGood(e) /\ Ra \notin e.valid
  BY <1>0, <1>5, EnsureRa
<1>8. ASSUME NEW p \in UsedAReg, LoadLarge(p)
      PROVE  RaInv'
  <2> DEFINE e == EnsureARegValid(SaveRegister(Read(m, {p})), {p})
             n == [e EXCEPT !.stale = @ \cup Note("copy", p = 0)]
  <2>1. RaGood(e) /\ Ra \notin e.valid
    BY <1>7
  <2>2. Note("copy", p = 0) \in SUBSET (Kinds \ {"return"})
    BY DEF Note, Kinds
  <2>3. m' = Memcpy(n) /\ at' = "block" /\ UNCHANGED <<has_calls, used, cached>>
    BY <1>8 DEF LoadLarge
  <2> HIDE DEF e
  <2>4. RaGood(n) /\ Ra \notin n.valid
    BY <2>1, <2>2, NoteRa
  <2> QED
    BY <1>1, <2>3, <2>4, MemcpyRa
<1>9. ASSUME NEW p \in UsedAReg, StoreLarge(p)
      PROVE  RaInv'
  BY <1>1, <1>7, <1>9, MemcpyRa DEF StoreLarge
<1>10. ASSUME NEW args \in SUBSET UsedAReg, NEW copies \in BOOLEAN,
              NEW r \in UsedAReg \cup {NoResult}, Call(args, copies, r)
       PROVE  RaInv'
  <2> DEFINE s == SaveRegister(Read(m, {}))
             c == IF copies THEN Memcpy(s) ELSE s
             K == Note("argument", ~(args \subseteq c.slot))
             a == [c EXCEPT !.stale = @ \cup K]
  <2>1. RaGood(s) /\ Ra \notin s.valid
    BY <1>5
  <2>2. RaGood(c) /\ Ra \notin c.valid
    BY <2>1, MemcpyRa
  <2>3. K \in SUBSET (Kinds \ {"return"})
    BY DEF Note, Kinds
  <2>4. m' = Write(Memcpy(a), r) /\ at' = "block"
        /\ UNCHANGED <<has_calls, used, cached>>
    BY <1>10 DEF Call, Memcpy
  <2> HIDE DEF c, K
  <2>5. RaGood(a) /\ Ra \notin a.valid
    BY <2>2, <2>3, NoteRa
  <2> QED
    BY <1>0, <1>1, <2>4, <2>5, MemcpyRa, WriteRa
<1>11. ASSUME NEW S \in SUBSET UsedAReg, Leave(S)
       PROVE  RaInv'
  BY <1>0, <1>1, <1>11, FlushRa, ReadRa DEF Leave
<1>12. ASSUME NEW S \in SUBSET UsedAReg, Return(S)
       PROVE  RaInv'
  <2> DEFINE r == Read(FlushSavedRegisters(m), S)
  <2>1. RaGood(r) /\ Ra \in r.valid
    BY <1>0, FlushRa, ReadRa
  <2>2. Ra \in r.reg
    BY <2>1 DEF RaGood
  <2>3. m' = r
    BY <1>12, <2>1, <2>2 DEF Return, Note, RaGood, Machine
  <2> QED
    BY <1>1, <1>12, <2>1, <2>3 DEF Return
<1>13. CASE UNCHANGED vars
  BY <1>13 DEF vars, RaInv, TypeOK, ReturnsToCaller
<1> QED
  BY <1>2, <1>3, <1>4, <1>6, <1>8, <1>9, <1>10, <1>11, <1>12, <1>13 DEF Next

\* Every ret jumps to the caller, whatever the program copies and caches.
THEOREM Returns == Spec => []ReturnsToCaller
<1>1. Init => RaInv
  <2>1. Init => IInv
    BY InitIInv
  <2> QED
    BY <2>1, Locations DEF IInv, RaInv, CanonicalValue, Canonical, NoStaleUse,
         ReturnsToCaller, ExitsRestored, TypeOK
<1>2. RaInv /\ [Next]_vars => RaInv'
  BY NextRaInv
<1>3. RaInv => ReturnsToCaller
  BY DEF RaInv
<1> QED
  BY <1>1, <1>2, <1>3, PTL DEF Spec

=============================================================================
