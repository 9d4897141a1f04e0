------------------------------- MODULE CallSave -------------------------------
(***************************************************************************)
(* Lazy saving of the caller-saved registers around calls in               *)
(* AssemblyGenerator.  The generator walks the blocks of a function in     *)
(* layout order and tracks, per argument register, whether the hardware    *)
(* register or its save slot holds the variable's value (a_reg_valid_,     *)
(* a_slot_valid_); ra is tracked the same way (ra_saved_ means: not        *)
(* valid), and t3/t4 hold the function's cached constants.                 *)
(*                                                                         *)
(* The model executes every instruction as it is emitted: `reg` and `slot` *)
(* say which hardware registers and save slots really hold the current     *)
(* value.  At a block boundary the tracker comes from the block emitted    *)
(* before, the slots from whichever predecessor ran.                       *)
(***************************************************************************)
EXTENDS Integers

CONSTANTS
  NumAReg,          \* argument registers (8 in the code)
  LargeCopyByAReg,  \* programs that copy over 128 bytes through a pointer
                    \* held in an argument register are considered
  CachedFrameSize   \* functions whose frame size is a constant cached by the
                    \* function emitted before are considered

ASSUME NumARegAssumption == NumAReg \in Nat \ {0}
ASSUME ShapeAssumption == LargeCopyByAReg \in BOOLEAN /\ CachedFrameSize \in BOOLEAN

Ra    == -1         \* the return address register
Const == -2         \* t3 and t4
AReg  == 0 .. NumAReg - 1
Loc   == AReg \cup {Ra, Const}

NoResult == -3

\* What a wrong instruction used.
Kinds == {"register", "argument", "constant", "copy", "return"}

VARIABLES
  at,          \* "edge" between blocks, "block" inside one
  has_calls,   \* has_calls_ of the function
  used,        \* current_a_reg_used_
  cached,      \* const_cache_ is not empty
  m            \* the tracker and the machine

vars == <<at, has_calls, used, cached, m>>

\* valid: a_reg_valid_ and, for Ra, not ra_saved_; slot_valid: a_slot_valid_ and
\* ra_slot_valid_.  stale collects the uses of a location that did not hold
\* what it stands for.
Machine == [valid : SUBSET Loc, slot_valid : SUBSET Loc,
            reg : SUBSET Loc, slot : SUBSET Loc, stale : SUBSET Kinds]

TypeOK ==
  /\ at \in {"edge", "block"}
  /\ has_calls \in BOOLEAN /\ cached \in BOOLEAN
  /\ used \in 0 .. NumAReg
  /\ m \in Machine

UsedAReg == 0 .. used - 1
Saved    == UsedAReg \cup {Ra}

-----------------------------------------------------------------------------
(* The emitting operations, each from a machine to a machine.              *)

Note(kind, wrong) == IF wrong THEN {kind} ELSE {}

\* Mutation: the register number is used where the index belongs.
EnsureARegValidByNumber(mm, S) ==
  [mm EXCEPT !.valid = @ \cup {10 + r : r \in S},
             !.reg = (@ \ (S \ mm.valid)) \cup ((S \ mm.valid) \cap mm.slot)]

\* EnsureARegValid for every register of S: an invalid one is loaded from its
\* slot (the fallback for a slot never written emits the same load).
EnsureARegValid(mm, S) ==
  [mm EXCEPT !.valid = @ \cup S,
             !.reg = (@ \ (S \ mm.valid)) \cup ((S \ mm.valid) \cap mm.slot)]

\* An instruction that reads the variables in S and perhaps a cached constant.
Read(mm, S) ==
  LET e == EnsureARegValid(mm, S)
  IN  [e EXCEPT !.stale = @ \cup Note("register", ~(S \subseteq e.reg))
                            \cup Note("constant", Const \notin e.reg)]

\* RegToVariable, DataMove and the register load: r gets a new value.
Write(mm, r) ==
  IF r = NoResult THEN mm
  ELSE [mm EXCEPT !.valid = @ \cup {r}, !.reg = @ \cup {r}, !.slot = @ \ {r}]

\* Mutation: a register that has a save slot is not saved again.
SaveRegisterOnce(mm) ==
  LET saving == (Saved \cap mm.valid) \ mm.slot_valid
  IN  [mm EXCEPT !.valid = @ \ (Saved \cap mm.valid),
                 !.slot_valid = @ \cup saving,
                 !.slot = (@ \ saving) \cup (saving \cap mm.reg)]

\* SaveRegister: the valid registers are stored, and become invalid.
SaveRegister(mm) ==
  LET saving == Saved \cap mm.valid
  IN  [mm EXCEPT !.valid = @ \ saving,
                 !.slot_valid = @ \cup saving,
                 !.slot = (@ \ saving) \cup (saving \cap mm.reg)]

\* A called function returns with every caller-saved register changed; the
\* frame of its caller is intact.
Callee(mm) == [mm EXCEPT !.reg = {}]

\* Mutation: nothing is reloaded.
ReloadNothing(mm) == mm

\* ReloadConstCache: li of t3 and t4.
ReloadConstCache(mm) == [mm EXCEPT !.reg = @ \cup {Const}]

\* Mutation: ra is restored only together with an argument register.
FlushUnlessARegsValid(mm) ==
  LET restored == (Saved \ mm.valid) \cap mm.slot_valid
      c == ReloadConstCache(mm)
  IN  IF UsedAReg \subseteq mm.valid THEN mm
      ELSE [c EXCEPT !.valid = @ \cup restored,
                     !.reg = (@ \ restored) \cup (restored \cap mm.slot)]

\* FlushSavedRegisters: everything a call spoilt is restored.
FlushSavedRegisters(mm) ==
  LET restored == (Saved \ mm.valid) \cap mm.slot_valid
      c == ReloadConstCache(mm)
  IN  IF Saved \subseteq mm.valid THEN mm
      ELSE [c EXCEPT !.valid = @ \cup restored,
                     !.reg = (@ \ restored) \cup (restored \cap mm.slot)]

\* call builtin_memcpy and the reload after it.
Memcpy(mm) == ReloadConstCache(Callee(mm))

-----------------------------------------------------------------------------
Init ==
  /\ at = "edge"
  /\ has_calls = FALSE
  /\ used = 0
  /\ cached = FALSE
  /\ m = [valid |-> Loc, slot_valid |-> {}, reg |-> Loc, slot |-> {},
          stale |-> {}]

\* The prologue.  The stack pointer is adjusted before const_cache_ is cleared:
\* hit says the frame size is one of the constants left in it.  Parameters are
\* in their registers, the other registers hold no variable yet.
StartFunction(n, calls, consts, hit) ==
  /\ at = "edge"
  /\ hit => cached /\ CachedFrameSize
  /\ used' = n
  /\ has_calls' = calls
  /\ cached' = consts
  /\ m' = [valid |-> Loc, slot_valid |-> {}, reg |-> Loc, slot |-> {},
           stale |-> m.stale \cup Note("constant", hit)]
  /\ UNCHANGED at

\* The block may be entered from any of its predecessors, so nothing is known
\* of the slots.
StartBlock ==
  /\ at = "edge"
  /\ at' = "block"
  /\ \E S \in SUBSET (AReg \cup {Ra}) : m' = [m EXCEPT !.slot = S]
  /\ UNCHANGED <<has_calls, used, cached>>

\* Arithmetic, negation, compare, select, address computation, allocation, move,
\* load, store and the copy of at most 128 bytes: operands are read, then the
\* result is written.
Instruction(S, result) ==
  /\ at = "block"
  /\ m' = Write(Read(m, S), result)
  /\ UNCHANGED <<at, has_calls, used, cached>>

\* A load, store or move of more than 128 bytes whose pointer is in memory, in a
\* callee-saved register or a stack address.
CopyLarge ==
  /\ at = "block" /\ has_calls
  /\ m' = Memcpy(SaveRegister(Read(m, {})))
  /\ UNCHANGED <<at, has_calls, used, cached>>

\* A large load through the pointer in p: a0 is set to the destination first,
\* then p is restored and moved to a1.
LoadLarge(p) ==
  /\ at = "block" /\ has_calls /\ LargeCopyByAReg
  /\ LET e == EnsureARegValid(SaveRegister(Read(m, {p})), {p})
     IN  m' = Memcpy([e EXCEPT !.stale = @ \cup Note("copy", p = 0)])
  /\ UNCHANGED <<at, has_calls, used, cached>>

\* A large store through the pointer in p: p is restored and moved to a0.
StoreLarge(p) ==
  /\ at = "block" /\ has_calls /\ LargeCopyByAReg
  /\ m' = Memcpy(EnsureARegValid(SaveRegister(Read(m, {p})), {p}))
  /\ UNCHANGED <<at, has_calls, used, cached>>

\* A call.  Large memory arguments are copied first; an argument that lives in
\* an argument register is loaded from its save slot, since setting the earlier
\* arguments may have overwritten the register; the result arrives in a0.
Call(args, copies, result) ==
  /\ at = "block" /\ has_calls
  /\ LET s == SaveRegister(Read(m, {}))
         c == IF copies THEN Memcpy(s) ELSE s
         a == [c EXCEPT !.stale = @ \cup Note("argument", ~(args \subseteq c.slot))]
     IN  m' = Write(ReloadConstCache(Callee(a)), result)
  /\ UNCHANGED <<at, has_calls, used, cached>>

\* A branch or a jump: the registers are flushed, then the condition or the
\* operands of the fused compare are read.
Leave(S) ==
  /\ at = "block"
  /\ at' = "edge"
  /\ m' = Read(FlushSavedRegisters(m), S)
  /\ UNCHANGED <<has_calls, used, cached>>

\* ret jumps to ra.  The next block in the layout has other predecessors.
Return(S) ==
  /\ at = "block"
  /\ at' = "edge"
  /\ LET r == Read(FlushSavedRegisters(m), S)
     IN  m' = [r EXCEPT !.stale = @ \cup Note("return", Ra \notin r.reg)]
  /\ UNCHANGED <<has_calls, used, cached>>

Next ==
  \/ \E n \in 0 .. NumAReg, calls, consts, hit \in BOOLEAN :
       StartFunction(n, calls, consts, hit)
  \/ StartBlock
  \/ \E S \in SUBSET UsedAReg, r \in UsedAReg \cup {NoResult} : Instruction(S, r)
  \/ CopyLarge
  \/ \E p \in UsedAReg : LoadLarge(p)
  \/ \E p \in UsedAReg : StoreLarge(p)
  \/ \E args \in SUBSET UsedAReg, copies \in BOOLEAN,
        r \in UsedAReg \cup {NoResult} : Call(args, copies, r)
  \/ \E S \in SUBSET UsedAReg : Leave(S)
  \/ \E S \in SUBSET UsedAReg : Return(S)

Spec == Init /\ [][Next]_vars

-----------------------------------------------------------------------------
(* Properties.                                                             *)

Canonical(mm) ==
  \A r \in Saved : /\ r \in mm.valid => r \in mm.reg
                   /\ r \notin mm.valid => r \in mm.slot /\ r \in mm.slot_valid

\* assembly_generator.h, a_reg_valid_: "true = hardware a-reg holds the
\* canonical value; false = hardware is call garbage, the save slot is the
\* source of truth".  The fallback of EnsureARegValid, a load from a slot never
\* written, is therefore never emitted.
CanonicalValue == Canonical(m)

\* No emitted instruction uses a register, save slot, cached constant or return
\* address that does not hold its current value, whatever calls, reads and
\* writes came before it in the block.
NoStaleUse == m.stale = {}

\* Every block hands over with all registers restored, so that the successors,
\* emitted with all registers assumed valid, may run after any of them
\* (FlushSavedRegisters at branch, jump and return).
ExitsRestored ==
  at = "edge" => Saved \subseteq m.valid /\ Saved \cup {Const} \subseteq m.reg

\* ret always has the caller's address, in programs of every shape: ra is saved
\* at most once per block and restored before the block is left.
ReturnsToCaller == "return" \notin m.stale

\* assembly_generator.h, const_cache_: "Map constant value -> register name for
\* pre-loaded constants": a cached register is read after it was loaded.
ConstantsPreloaded == "constant" \notin m.stale

\* The inductive invariant: the cached constants survive every call as well.
IInv ==
  /\ TypeOK
  /\ CanonicalValue
  /\ NoStaleUse
  /\ ExitsRestored
  /\ Const \in m.reg

\* What remains inductive for programs of every shape: ra.
RaInv ==
  /\ TypeOK
  /\ ReturnsToCaller
  /\ IF Ra \in m.valid THEN Ra \in m.reg
     ELSE Ra \in m.slot /\ Ra \in m.slot_valid
  /\ at = "edge" => Ra \in m.valid
=============================================================================
