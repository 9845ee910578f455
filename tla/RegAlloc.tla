------------------------------ MODULE RegAlloc ------------------------------
(***************************************************************************)
(* Which register each value of the runtime stack is in, as both backends  *)
(* track it (register_tracker.h, runtime_stack.h, AllocateRegister in      *)
(* x64/compiler.cc and arm64/compiler.cc).  used is the tracker's mask;    *)
(* own[i] is the register of the i-th stack value from the bottom, NoReg   *)
(* if the value is only in its stack slot.                                 *)
(***************************************************************************)
EXTENDS Integers, FiniteSetsExt, Sequences

CONSTANTS Regs,   \* ids of the caller-saved registers
          NoReg

ASSUME RegsAssumption == Regs \subseteq Nat /\ NoReg \notin Regs

Free(used) == Regs \ used

\* RegisterMask::begin seeks from the lowest id.
Begin(mask) == Min(mask)

\* Mistake: the mask is not consulted.
TakeFirst(used) == Begin(Regs)

TakeUnused(used) == Begin(Free(used))

\* The stack values that are in a register, and the one before i.
Owners(own) == {i \in DOMAIN own : own[i] # NoReg}
OwnersBelow(own, i) == {j \in Owners(own) : j < i}

(* With every register in use the loop of AllocateRegister swaps along the  *)
(* whole stack: each owner is stored to its slot and left with the register *)
(* of the owner below it, the lowest with none, and the highest one's       *)
(* register is what the caller gets.                                        *)
Rotated(own) ==
  [i \in DOMAIN own |->
     IF i \in Owners(own) /\ OwnersBelow(own, i) # {}
     THEN own[Max(OwnersBelow(own, i))]
     ELSE NoReg]

Allocated(used, own) ==
  IF Free(used) # {} THEN TakeUnused(used) ELSE own[Max(Owners(own))]

UsedAfter(used, own) ==
  IF Free(used) # {} THEN used \cup {TakeUnused(used)} ELSE used

OwnAfter(used, own) == IF Free(used) # {} THEN own ELSE Rotated(own)

\* The stack values AllocateRegister stores to their slots.
Spilled(used, own) == IF Free(used) # {} THEN {} ELSE Owners(own)

\* ABSL_ASSERT(reg.has_value())
CanAllocate(used, own) == Free(used) # {} \/ Owners(own) # {}

(* No register belongs to two stack values, and the tracker's mask is       *)
(* exactly the registers the stack values and the held temporaries own.     *)
OwnedBy(own) == {own[i] : i \in Owners(own)}

Exclusive(own) ==
  \A i, j \in Owners(own) : own[i] = own[j] => i = j

Tracked(used, own, held) ==
  /\ Exclusive(own)
  /\ OwnedBy(own) \cap held = {}
  /\ used = OwnedBy(own) \cup held
=============================================================================
