------------------------- MODULE StackMemoryProofs -------------------------
(***************************************************************************)
(* Proofs about StackMemory for a heap and stacks of any size and any      *)
(* VMThreads.  Guard pages stay protected because every step writes the    *)
(* protection of one stack's own pages only, and stacks do not overlap;    *)
(* nothing is trespassed on because the stack pointer is inside its stack  *)
(* and can leave it only through a guard page.                             *)
(***************************************************************************)
EXTENDS StackMemory, TLAPS

(* A VMThread's stack pointer is in its own stack.                          *)
InsideStack ==
  \A t \in Threads : stack[t] # None => sp[t] \in StackPages(stack[t])

IInv == TypeOK /\ GuardsProtected /\ InsideStack /\ NoTrespass

(* Where the pages of a stack lie.                                          *)
LEMMA Layout ==
  ASSUME NEW s \in Stacks
  PROVE  /\ s.first \in Nat /\ s.size \in Nat /\ s.size >= 1
         /\ s # None
         /\ Top(s) \in StackPages(s)
         /\ StackPages(s) \subseteq Pages
         /\ StackPages(s) \subseteq Extent(s)
         /\ s.guarded => /\ LowGuard(s) \in Pages /\ HighGuard(s) \in Pages
                         /\ LowGuard(s) \in Extent(s)
                         /\ HighGuard(s) \in Extent(s)
                         /\ HighGuard(s) - 1 = Top(s)
                         /\ LowGuard(s) # HighGuard(s)
                         /\ LowGuard(s) # Top(s)
                         /\ \A p \in StackPages(s), q \in Pages :
                              q \in {p - 1, p + 1} /\ q \notin StackPages(s) =>
                                q \in {LowGuard(s), HighGuard(s)}
<1>1. /\ s.first \in Pages /\ s.size \in 1..MaxSize
      /\ s.guarded \in BOOLEAN
      /\ s.guarded => s.first - 1 \in Pages /\ s.first + s.size \in Pages
      /\ ~ s.guarded => s.first + s.size - 1 \in Pages
  BY DEF Stacks
<1>2. s # None
  BY NoneAssumption
<1>3. NPages \in Nat /\ MaxSize \in Nat
  BY SizesAssumption
<1>4. s.first \in Nat /\ s.size \in Nat /\ s.size >= 1 /\ s.first >= 1
  BY <1>1, <1>3 DEF Pages
<1>5. /\ Top(s) = s.first + s.size - 1
      /\ LowGuard(s) = s.first - 1
      /\ HighGuard(s) = s.first + s.size
      /\ StackPages(s) = s.first .. s.first + s.size - 1
  BY DEF Top, LowGuard, HighGuard, StackPages
<1>6. Top(s) \in StackPages(s)
  BY <1>4, <1>5
<1>7. StackPages(s) \subseteq Pages
  BY <1>1, <1>3, <1>4, <1>5 DEF Pages
<1>8. StackPages(s) \subseteq Extent(s)
  BY <1>4, <1>5 DEF Extent
<1>9. ASSUME s.guarded
      PROVE  /\ LowGuard(s) \in Pages /\ HighGuard(s) \in Pages
             /\ LowGuard(s) \in Extent(s) /\ HighGuard(s) \in Extent(s)
             /\ HighGuard(s) - 1 = Top(s)
             /\ LowGuard(s) # HighGuard(s) /\ LowGuard(s) # Top(s)
  BY <1>1, <1>4, <1>5, <1>9 DEF Extent
<1>10. ASSUME NEW p \in StackPages(s), NEW q \in Pages,
              q \in {p - 1, p + 1}, q \notin StackPages(s)
       PROVE  q \in {LowGuard(s), HighGuard(s)}
  BY <1>3, <1>4, <1>5, <1>10 DEF Pages
<1> QED
  BY <1>2, <1>4, <1>6, <1>7, <1>8, <1>9, <1>10

(* Protecting a stack makes both its guard pages read-only and touches no   *)
(* page but those.                                                          *)
LEMMA ProtectedGuards ==
  ASSUME NEW pr \in [Pages -> {"rw", "ro"}], NEW s \in Stacks, s.guarded
  PROVE  /\ Protected(pr, s) \in [Pages -> {"rw", "ro"}]
         /\ Protected(pr, s)[LowGuard(s)] = "ro"
         /\ Protected(pr, s)[HighGuard(s)] = "ro"
         /\ \A p \in Pages \ Extent(s) : Protected(pr, s)[p] = pr[p]
<1>1. /\ LowGuard(s) \in Pages /\ HighGuard(s) \in Pages
      /\ LowGuard(s) \in Extent(s) /\ HighGuard(s) \in Extent(s)
  BY Layout
<1> QED
  BY <1>1 DEF Protected, MemoryProtect

(* The deleter touches the pages of its own stack only, and protects none.  *)
LEMMA DeletedOwn ==
  ASSUME NEW pr \in [Pages -> {"rw", "ro"}], NEW s \in Stacks
  PROVE  /\ Deleted(pr, s) \in [Pages -> {"rw", "ro"}]
         /\ \A p \in Pages \ Extent(s) : Deleted(pr, s)[p] = pr[p]
         /\ \A p \in Pages : pr[p] = "rw" => Deleted(pr, s)[p] = "rw"
         /\ s.guarded => Deleted(pr, s)[LowGuard(s)] = "rw"
<1>1. CASE s.guarded
  <2>1. /\ LowGuard(s) \in Pages /\ LowGuard(s) \in Extent(s)
        /\ HighGuard(s) - 1 \in Pages /\ HighGuard(s) - 1 \in Extent(s)
    BY <1>1, Layout
  <2> QED
    BY <1>1, <2>1 DEF Deleted, MemoryUnprotect
<1>2. CASE ~ s.guarded
  BY <1>2 DEF Deleted
<1> QED
  BY <1>1, <1>2

(* A stack that is being allocated keeps clear of all others.               *)
LEMMA FreshExtent ==
  ASSUME TypeOK, NEW t \in Threads, NEW s \in Stacks, CanAllocate(t, s),
         NEW u \in Threads, stack[u] # None
  PROVE  Extent(s) \cap Extent(stack[u]) = {}
BY DEF CanAllocate, Allocated

(* Guard pages survive every step that gives one VMThread a stack, or takes *)
(* it away, and writes the protection of that stack's own pages only.       *)
LEMMA OthersKeepGuards ==
  ASSUME IInv, NEW t \in Threads, NEW X, NEW u \in Threads,
         stack[u] # None, stack[u].guarded,
         X \cap Extent(stack[u]) = {},
         \A p \in Pages \ X : prot'[p] = prot[p]
  PROVE  /\ prot'[LowGuard(stack[u])] = "ro"
         /\ prot'[HighGuard(stack[u])] = "ro"
<1>1. stack[u] \in Stacks
  BY DEF IInv, TypeOK
<1>2. /\ LowGuard(stack[u]) \in Pages \ X
      /\ HighGuard(stack[u]) \in Pages \ X
  BY <1>1, Layout
<1> QED
  BY <1>2 DEF IInv, GuardsProtected, GuardsReadOnly

(* A guarded stack is created.                                              *)
LEMMA CreateGuardedKeeps ==
  ASSUME IInv, NEW t \in Threads, NEW s \in Stacks, CreateGuarded(t, s)
  PROVE  IInv'
<1>1. /\ s.guarded /\ CanAllocate(t, s)
      /\ prot' = Protected(prot, s)
      /\ stack' = [stack EXCEPT ![t] = s]
      /\ sp' = [sp EXCEPT ![t] = Top(s)]
      /\ UNCHANGED <<trespass, aborted>>
  BY DEF CreateGuarded
<1>2. TypeOK
  BY DEF IInv
<1>3. /\ prot' \in [Pages -> {"rw", "ro"}]
      /\ prot'[LowGuard(s)] = "ro" /\ prot'[HighGuard(s)] = "ro"
      /\ \A p \in Pages \ Extent(s) : prot'[p] = prot[p]
  BY <1>1, <1>2, ProtectedGuards DEF TypeOK
<1>4. Top(s) \in StackPages(s) /\ Top(s) \in Pages
  BY Layout
<1>5. TypeOK'
  BY <1>1, <1>2, <1>3, <1>4 DEF TypeOK
<1>6. /\ stack'[t] = s /\ sp'[t] = Top(s)
      /\ \A u \in Threads \ {t} : stack'[u] = stack[u] /\ sp'[u] = sp[u]
  BY <1>1, <1>2 DEF TypeOK
<1>7. \A u \in Threads : stack[u] # None => Extent(s) \cap Extent(stack[u]) = {}
  BY <1>1, <1>2, FreshExtent
<1>8. GuardsReadOnly'
  <2> SUFFICES ASSUME NEW u \in Threads, stack'[u] # None, stack'[u].guarded
               PROVE  /\ prot'[LowGuard(stack'[u])] = "ro"
                      /\ prot'[HighGuard(stack'[u])] = "ro"
    BY DEF GuardsReadOnly
  <2>1. CASE u = t
    BY <1>3, <1>6, <2>1
  <2>2. CASE u # t
    BY <1>3, <1>6, <1>7, <2>2, OthersKeepGuards
  <2> QED
    BY <2>1, <2>2
<1>9. NoOverlap'
  BY <1>6, <1>7 DEF IInv, GuardsProtected, NoOverlap
<1>10. InsideStack'
  BY <1>4, <1>6 DEF IInv, InsideStack
<1> QED
  BY <1>1, <1>5, <1>8, <1>9, <1>10 DEF IInv, GuardsProtected, NoTrespass

(* A stack without guard pages is created, or its clearing kills the        *)
(* process.                                                                 *)
LEMMA CreateUnguardedKeeps ==
  ASSUME IInv, NEW t \in Threads, NEW s \in Stacks, CreateUnguarded(t, s)
  PROVE  IInv'
<1>1. /\ ~ s.guarded /\ CanAllocate(t, s) /\ UNCHANGED <<prot, trespass>>
  BY DEF CreateUnguarded
<1>2. TypeOK
  BY DEF IInv
<1>3. CASE UNCHANGED <<stack, sp>> /\ aborted' = TRUE
  BY <1>1, <1>3 DEF IInv, TypeOK, GuardsProtected, GuardsReadOnly, NoOverlap,
                    InsideStack, NoTrespass
<1>4. CASE /\ stack' = [stack EXCEPT ![t] = s]
           /\ sp' = [sp EXCEPT ![t] = Top(s)] /\ UNCHANGED aborted
  <2>1. Top(s) \in StackPages(s) /\ Top(s) \in Pages
    BY Layout
  <2>2. TypeOK'
    BY <1>1, <1>2, <1>4, <2>1 DEF TypeOK
  <2>3. /\ stack'[t] = s /\ sp'[t] = Top(s)
        /\ \A u \in Threads \ {t} : stack'[u] = stack[u] /\ sp'[u] = sp[u]
    BY <1>2, <1>4 DEF TypeOK
  <2>4. \A u \in Threads :
          stack[u] # None => Extent(s) \cap Extent(stack[u]) = {}
    BY <1>1, <1>2, FreshExtent
  <2>5. GuardsReadOnly'
    BY <1>1, <2>3 DEF IInv, GuardsProtected, GuardsReadOnly
  <2>6. NoOverlap'
    BY <2>3, <2>4 DEF IInv, GuardsProtected, NoOverlap
  <2>7. InsideStack'
    BY <2>1, <2>3 DEF IInv, InsideStack
  <2> QED
    BY <1>1, <2>2, <2>5, <2>6, <2>7 DEF IInv, GuardsProtected, NoTrespass
<1> QED
  BY <1>3, <1>4 DEF CreateUnguarded

(* A Create that throws ran the deleter on its own pages.                   *)
LEMMA CreateThrowsKeeps ==
  ASSUME IInv, NEW t \in Threads, NEW s \in Stacks, CreateThrows(t, s)
  PROVE  IInv'
<1>1. /\ s.guarded /\ CanAllocate(t, s)
      /\ UNCHANGED <<stack, sp, trespass, aborted>>
  BY DEF CreateThrows
<1>2. PICK pr \in {prot, MemoryProtect(prot, LowGuard(s))} :
        prot' = Deleted(pr, s)
  BY DEF CreateThrows
<1>3. TypeOK
  BY DEF IInv
<1>4. LowGuard(s) \in Pages /\ LowGuard(s) \in Extent(s)
  BY <1>1, Layout
<1>5. /\ pr \in [Pages -> {"rw", "ro"}]
      /\ \A p \in Pages \ Extent(s) : pr[p] = prot[p]
  BY <1>2, <1>3, <1>4 DEF TypeOK, MemoryProtect
<1>6. /\ prot' \in [Pages -> {"rw", "ro"}]
      /\ \A p \in Pages \ Extent(s) : prot'[p] = prot[p]
  BY <1>2, <1>5, DeletedOwn
<1>7. \A u \in Threads : stack[u] # None => Extent(s) \cap Extent(stack[u]) = {}
  BY <1>1, <1>3, FreshExtent
<1>8. GuardsReadOnly'
  <2> SUFFICES ASSUME NEW u \in Threads, stack[u] # None, stack[u].guarded
               PROVE  /\ prot'[LowGuard(stack[u])] = "ro"
                      /\ prot'[HighGuard(stack[u])] = "ro"
    BY <1>1 DEF GuardsReadOnly
  <2> QED
    BY <1>6, <1>7, OthersKeepGuards
<1> QED
  BY <1>1, <1>6, <1>8 DEF IInv, TypeOK, GuardsProtected, NoOverlap,
                          InsideStack, NoTrespass

(* A stack is freed.                                                        *)
LEMMA DestroyKeeps ==
  ASSUME IInv, NEW t \in Threads, Destroy(t)
  PROVE  IInv'
<1>1. /\ stack[t] # None
      /\ prot' = Deleted(prot, stack[t])
      /\ stack' = [stack EXCEPT ![t] = None]
      /\ sp' = [sp EXCEPT ![t] = None]
      /\ UNCHANGED <<trespass, aborted>>
  BY DEF Destroy
<1>2. TypeOK
  BY DEF IInv
<1>3. stack[t] \in Stacks
  BY <1>1, <1>2 DEF TypeOK
<1>4. /\ prot' \in [Pages -> {"rw", "ro"}]
      /\ \A p \in Pages \ Extent(stack[t]) : prot'[p] = prot[p]
  BY <1>1, <1>2, <1>3, DeletedOwn DEF TypeOK
<1>5. TypeOK'
  BY <1>1, <1>2, <1>4 DEF TypeOK
<1>6. /\ stack'[t] = None
      /\ \A u \in Threads \ {t} : stack'[u] = stack[u] /\ sp'[u] = sp[u]
  BY <1>1, <1>2 DEF TypeOK
<1>7. GuardsReadOnly'
  <2> SUFFICES ASSUME NEW u \in Threads \ {t}, stack[u] # None,
                      stack[u].guarded
               PROVE  /\ prot'[LowGuard(stack[u])] = "ro"
                      /\ prot'[HighGuard(stack[u])] = "ro"
    BY <1>6 DEF GuardsReadOnly
  <2>1. Extent(stack[t]) \cap Extent(stack[u]) = {}
    BY <1>1 DEF IInv, GuardsProtected, NoOverlap
  <2> QED
    BY <1>4, <2>1, OthersKeepGuards
<1>8. NoOverlap'
  BY <1>6 DEF IInv, GuardsProtected, NoOverlap
<1>9. InsideStack'
  BY <1>6 DEF IInv, InsideStack
<1> QED
  BY <1>1, <1>5, <1>7, <1>8, <1>9 DEF IInv, GuardsProtected, NoTrespass

(* A step of the stack pointer stays in the stack, or kills the process.    *)
LEMMA TouchKeeps ==
  ASSUME IInv, NEW t \in Threads, NEW p \in Pages, Touch(t, p)
  PROVE  IInv'
<1>1. /\ stack[t] # None /\ p \in {sp[t] - 1, sp[t] + 1}
      /\ stack[t].guarded \/ p \in StackPages(stack[t])
      /\ UNCHANGED <<prot, stack>>
  BY DEF Touch
<1>2. TypeOK
  BY DEF IInv
<1>3. CASE UNCHANGED <<sp, trespass>> /\ aborted' = TRUE
  BY <1>1, <1>3 DEF IInv, TypeOK, GuardsProtected, GuardsReadOnly, NoOverlap,
                    InsideStack, NoTrespass
<1>4. CASE /\ prot[p] # "ro"
           /\ sp' = [sp EXCEPT ![t] = p]
           /\ trespass' = (trespass \/ p \notin StackPages(stack[t]))
           /\ UNCHANGED aborted
  <2>1. stack[t] \in Stacks /\ sp[t] \in StackPages(stack[t])
    BY <1>1, <1>2 DEF IInv, TypeOK, InsideStack
  <2>2. p \in StackPages(stack[t])
    <3> SUFFICES ASSUME p \notin StackPages(stack[t]) PROVE FALSE
      OBVIOUS
    <3>1. stack[t].guarded
      BY <1>1
    <3>2. p \in {LowGuard(stack[t]), HighGuard(stack[t])}
      BY <1>1, <2>1, <3>1, Layout
    <3>3. prot[p] = "ro"
      BY <1>1, <3>1, <3>2 DEF IInv, GuardsProtected, GuardsReadOnly
    <3> QED
      BY <1>4, <3>3
  <2>3. NoTrespass'
    BY <1>4, <2>2 DEF IInv, NoTrespass
  <2>4. TypeOK'
    BY <1>1, <1>2, <1>4 DEF TypeOK
  <2>5. InsideStack'
    BY <1>1, <1>2, <1>4, <2>2 DEF IInv, TypeOK, InsideStack
  <2>6. GuardsProtected'
    BY <1>1 DEF IInv, GuardsProtected, GuardsReadOnly, NoOverlap
  <2> QED
    BY <2>3, <2>4, <2>5, <2>6 DEF IInv
<1> QED
  BY <1>3, <1>4 DEF Touch

(* Every step keeps the memory's invariant.                                 *)
LEMMA Inductive == IInv /\ [Next]_vars => IInv'
<1> SUFFICES ASSUME IInv, [Next]_vars PROVE IInv'
  OBVIOUS
<1> DEFINE Same == UNCHANGED <<prot, stack, sp, trespass>>
<1>1. ASSUME Same, aborted' \in BOOLEAN PROVE IInv'
  BY <1>1 DEF IInv, TypeOK, GuardsProtected, GuardsReadOnly, NoOverlap,
              InsideStack, NoTrespass
<1>2. CASE UNCHANGED vars
  BY <1>1, <1>2 DEF vars, IInv, TypeOK
<1>3. ASSUME NEW t \in Threads, OutOfMemory(t) \/ DestroyAborts(t) PROVE IInv'
  BY <1>1, <1>3 DEF OutOfMemory, DestroyAborts
<1>4. ASSUME NEW t \in Threads, Destroy(t) PROVE IInv'
  BY <1>4, DestroyKeeps
<1>5. ASSUME NEW t \in Threads, NEW s \in Stacks,
             CreateGuarded(t, s) \/ CreateThrows(t, s) \/ CreateUnguarded(t, s)
      PROVE  IInv'
  BY <1>5, CreateGuardedKeeps, CreateThrowsKeeps, CreateUnguardedKeeps
<1>6. ASSUME NEW t \in Threads, NEW p \in Pages, Touch(t, p) PROVE IInv'
  BY <1>6, TouchKeeps
<1> QED
  BY <1>2, <1>3, <1>4, <1>5, <1>6 DEF Next

(* The heap starts with every page writable and no stack.                   *)
LEMMA Initially == Init => IInv
<1> SUFFICES ASSUME Init PROVE IInv
  OBVIOUS
<1>1. TypeOK
  BY DEF Init, TypeOK
<1>2. \A t \in Threads : stack[t] = None
  BY DEF Init
<1> QED
  BY <1>1, <1>2 DEF Init, IInv, GuardsProtected, GuardsReadOnly, NoOverlap,
                    InsideStack, NoTrespass

(* The conjunction of the type invariant, the guards, the stack pointer's   *)
(* place and the absence of trespass holds in every reachable state.        *)
THEOREM Memory == Spec => []IInv
BY Initially, Inductive, PTL DEF Spec

(* Type correctness: the memory, the stacks and the stack pointers.         *)
THEOREM TypeCorrect == Spec => []TypeOK
BY Memory, PTL DEF IInv

(* Guard pages stay read-only and stacks apart (thread.cc:86-89).           *)
THEOREM GuardsProtectedHolds == Spec => []GuardsProtected
BY Memory, PTL DEF IInv

(* No guarded stack ever writes outside its own pages (thread.h:19-22).     *)
THEOREM NoTrespassHolds == Spec => []NoTrespass
BY Memory, PTL DEF IInv

(* A Create that throws leaves no page read-only that was writable          *)
(* (thread.cc:74-90).                                                       *)
THEOREM FailedCreateRestoresHolds == Spec => FailedCreateRestores
<1> DEFINE Restores ==
      \A p \in Pages : stack' = stack /\ prot[p] = "rw" => prot'[p] = "rw"
<1>1. ASSUME IInv, [Next]_vars PROVE Restores
  <2>1. TypeOK
    BY <1>1 DEF IInv
  <2>2. CASE UNCHANGED prot
    BY <2>2
  <2>3. ASSUME NEW t \in Threads, Destroy(t) PROVE Restores
    BY <2>1, <2>3 DEF Destroy, TypeOK
  <2>4. ASSUME NEW t \in Threads, NEW s \in Stacks, CreateGuarded(t, s)
        PROVE  Restores
    <3>1. stack'[t] # stack[t]
      BY <2>1, <2>4, Layout DEF CreateGuarded, CanAllocate, TypeOK
    <3> QED
      BY <3>1
  <2>5. ASSUME NEW t \in Threads, NEW s \in Stacks, CreateThrows(t, s)
        PROVE  Restores
    <3>1. PICK pr \in {prot, MemoryProtect(prot, LowGuard(s))} :
            prot' = Deleted(pr, s)
      BY <2>5 DEF CreateThrows
    <3>2. s.guarded /\ LowGuard(s) \in Pages
      BY <2>5, Layout DEF CreateThrows
    <3>3. /\ pr \in [Pages -> {"rw", "ro"}]
          /\ \A p \in Pages \ {LowGuard(s)} : pr[p] = prot[p]
      BY <2>1, <3>1, <3>2 DEF TypeOK, MemoryProtect
    <3> QED
      BY <3>1, <3>2, <3>3, DeletedOwn
  <2> QED
    BY <1>1, <2>2, <2>3, <2>4, <2>5
       DEF Next, vars, CreateUnguarded, OutOfMemory, DestroyAborts, Touch
<1>2. IInv /\ [Next]_vars => [Restores]_vars
  BY <1>1
<1> QED
  BY <1>2, Memory, PTL DEF Spec, FailedCreateRestores
=============================================================================
