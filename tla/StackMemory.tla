---------------------------- MODULE StackMemory ----------------------------
(***************************************************************************)
(* The memory under the VM stacks (thread.cc:41-99): stacks are taken from *)
(* and given back to the allocator, with or without a guard page on each   *)
(* side, and mprotect may fail.  The heap is a row of pages; a stack is a  *)
(* run of them.  The function on a stack moves its stack pointer from page *)
(* to page; touching a read-only page kills the process.                   *)
(***************************************************************************)
EXTENDS Integers

CONSTANTS NPages,    \* bound: pages in the heap
          MaxSize,   \* bound: pages in one stack
          Threads,   \* VMThread objects
          None

ASSUME SizesAssumption == NPages \in Nat /\ MaxSize \in Nat

Pages == 1..NPages

VARIABLES prot,      \* the kernel's protection of each page
          stack,     \* each VMThread's _stack_memory, or None
          sp,        \* the page each VMThread's stack pointer is in
          trespass,  \* history: a guarded stack wrote outside itself
          aborted    \* the process was killed

vars == <<prot, stack, sp, trespass, aborted>>

Stacks == {s \in [first : Pages, size : 1..MaxSize, guarded : BOOLEAN] :
             IF s.guarded THEN {s.first - 1, s.first + s.size} \subseteq Pages
                          ELSE s.first + s.size - 1 \in Pages}

ASSUME NoneAssumption == None \notin Stacks \cup Int

\* The last page of a stack, the page before it and the page after it.
Top(s) == s.first + s.size - 1
LowGuard(s) == s.first - 1
HighGuard(s) == s.first + s.size

StackPages(s) == s.first .. Top(s)

\* What the allocator handed out for s.
Extent(s) == IF s.guarded THEN LowGuard(s) .. HighGuard(s) ELSE StackPages(s)

Allocated == UNION {Extent(stack[t]) : t \in {u \in Threads : stack[u] # None}}

TypeOK ==
  /\ prot \in [Pages -> {"rw", "ro"}]
  /\ stack \in [Threads -> Stacks \cup {None}]
  /\ sp \in [Threads -> Pages \cup {None}]
  /\ trespass \in BOOLEAN
  /\ aborted \in BOOLEAN

Init ==
  /\ prot = [p \in Pages |-> "rw"]
  /\ stack = [t \in Threads |-> None]
  /\ sp = [t \in Threads |-> None]
  /\ trespass = FALSE
  /\ aborted = FALSE

-----------------------------------------------------------------------------
MemoryProtect(pr, p) == [pr EXCEPT ![p] = "ro"]
MemoryUnprotect(pr, p) == [pr EXCEPT ![p] = "rw"]

\* Mistake: only the page above the stack is protected.
ProtectedAbove(pr, s) == MemoryProtect(pr, HighGuard(s))

Protected(pr, s) == MemoryProtect(MemoryProtect(pr, LowGuard(s)), HighGuard(s))

\* Mistakes: the page after the upper guard, or only the upper page.
DeletedBeyond(pr, s) ==
  IF s.guarded
  THEN MemoryUnprotect(MemoryUnprotect(pr, LowGuard(s)), HighGuard(s) + 1)
  ELSE pr

DeletedAbove(pr, s) ==
  IF s.guarded THEN MemoryUnprotect(pr, HighGuard(s) - 1) ELSE pr

(* The deleter unprotects one page below the stack and one page below its   *)
(* end (thread.cc:76-77).                                                   *)
Deleted(pr, s) ==
  IF s.guarded
  THEN MemoryUnprotect(MemoryUnprotect(pr, LowGuard(s)), HighGuard(s) - 1)
  ELSE pr

(* The allocator may hand out any free run of pages.                        *)
CanAllocate(t, s) ==
  /\ ~aborted
  /\ stack[t] = None
  /\ Extent(s) \cap Allocated = {}

CreateGuarded(t, s) ==
  /\ s.guarded
  /\ CanAllocate(t, s)
  /\ prot' = Protected(prot, s)
  /\ stack' = [stack EXCEPT ![t] = s]
  /\ sp' = [sp EXCEPT ![t] = Top(s)]
  /\ UNCHANGED <<trespass, aborted>>

(* The first or the second mprotect fails: Create throws, and unwinding     *)
(* runs the deleter on what was protected so far.                           *)
CreateThrows(t, s) ==
  /\ s.guarded
  /\ CanAllocate(t, s)
  /\ \E pr \in {prot, MemoryProtect(prot, LowGuard(s))} : prot' = Deleted(pr, s)
  /\ UNCHANGED <<stack, sp, trespass, aborted>>

(* Without guard pages Create clears the stack, which needs every page of   *)
(* it writable.                                                             *)
CreateUnguarded(t, s) ==
  /\ ~s.guarded
  /\ CanAllocate(t, s)
  /\ IF \A p \in StackPages(s) : prot[p] = "rw"
     THEN /\ stack' = [stack EXCEPT ![t] = s]
          /\ sp' = [sp EXCEPT ![t] = Top(s)]
          /\ UNCHANGED aborted
     ELSE aborted' = TRUE /\ UNCHANGED <<stack, sp>>
  /\ UNCHANGED <<prot, trespass>>

(* aligned_alloc's result is not checked: with guard pages the mprotect of  *)
(* page 0 fails and so does the deleter's, whose Assert traps; without, the *)
(* memset of a null pointer does.                                           *)
OutOfMemory(t) ==
  /\ ~aborted
  /\ stack[t] = None
  /\ aborted' = TRUE
  /\ UNCHANGED <<prot, stack, sp, trespass>>

Destroy(t) ==
  /\ ~aborted
  /\ stack[t] # None
  /\ prot' = Deleted(prot, stack[t])
  /\ stack' = [stack EXCEPT ![t] = None]
  /\ sp' = [sp EXCEPT ![t] = None]
  /\ UNCHANGED <<trespass, aborted>>

(* mprotect fails in the deleter: Assert.                                   *)
DestroyAborts(t) ==
  /\ ~aborted
  /\ stack[t] # None /\ stack[t].guarded
  /\ aborted' = TRUE
  /\ UNCHANGED <<prot, stack, sp, trespass>>

(* The function pushes or pops across a page boundary.  Functions on        *)
(* unguarded stacks are taken to stay inside.                               *)
Touch(t, p) ==
  /\ ~aborted
  /\ stack[t] # None
  /\ p \in {sp[t] - 1, sp[t] + 1}
  /\ stack[t].guarded \/ p \in StackPages(stack[t])
  /\ IF prot[p] = "ro"
     THEN aborted' = TRUE /\ UNCHANGED <<sp, trespass>>
     ELSE /\ sp' = [sp EXCEPT ![t] = p]
          /\ trespass' = (trespass \/ p \notin StackPages(stack[t]))
          /\ UNCHANGED aborted
  /\ UNCHANGED <<prot, stack>>

Next ==
  \E t \in Threads :
    \/ OutOfMemory(t) \/ Destroy(t) \/ DestroyAborts(t)
    \/ \E s \in Stacks :
         CreateGuarded(t, s) \/ CreateThrows(t, s) \/ CreateUnguarded(t, s)
    \/ \E p \in Pages : Touch(t, p)

Spec == Init /\ [][Next]_vars

-----------------------------------------------------------------------------
GuardsReadOnly ==
  \A t \in Threads : stack[t] # None /\ stack[t].guarded =>
    prot[LowGuard(stack[t])] = "ro" /\ prot[HighGuard(stack[t])] = "ro"

NoOverlap ==
  \A t, u \in Threads : stack[t] # None /\ stack[u] # None /\ t # u =>
    Extent(stack[t]) \cap Extent(stack[u]) = {}

(* Stacks never overlap and, whatever other stacks are created, failed to   *)
(* be created and destroyed around it, a guarded one keeps both its guard   *)
(* pages read-only for its whole life (thread.cc:86-89).                    *)
GuardsProtected == GuardsReadOnly /\ NoOverlap

(* A stack that over- or underflows page by page dies before it writes      *)
(* memory that is not its own (thread.h:19-22).                             *)
NoTrespass == ~trespass

(* A Create that throws leaves no page read-only that was writable: the     *)
(* unwinding deleter undoes the one mprotect that succeeded.                *)
FailedCreateRestores ==
  [][\A p \in Pages :
       stack' = stack /\ prot[p] = "rw" => prot'[p] = "rw"]_vars

(* Memory goes back to the allocator with its guard pages unprotected       *)
(* (thread.cc:52, "unable to unprotect stack guard page").                  *)
FreedIsWritable == \A p \in Pages \ Allocated : prot[p] = "rw"
=============================================================================
