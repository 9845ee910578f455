-------------------------- MODULE CompilationProofs --------------------------
(***************************************************************************)
(* What is proved of Compilation for every body, any registers and both    *)
(* backends.  The validator, the compiler and the meaning of the body are  *)
(* three machines that run over the same instructions, the validator first *)
(* and the other two together after it.  The invariant keeps the course h  *)
(* the validator took: h[k] is the validator after k instructions.  The    *)
(* meaning has as many operands as h[pc] counted (Follows), and so has the *)
(* compiler (Compiled), whose registers are tracked by the lemmas that     *)
(* come first, which are about RegAlloc alone.  The machine's words are the *)
(* last part: Valued relates them to the meaning's operands and locals.    *)
(***************************************************************************)
EXTENDS Compilation, SequenceTheorems, WellFoundedInduction, TLAPS

-----------------------------------------------------------------------------
(* RegAlloc, for any set of registers and any stack.                        *)

(* A set of register ids has a lowest one, the one the mask's scan finds.   *)
LEMMA MinExists ==
  ASSUME NEW S, S \subseteq Nat, S # {}
  PROVE  Min(S) \in S /\ \A x \in S : Min(S) =< x
<1> DEFINE Less == {p \in Nat \X Nat : p[1] < p[2]}
<1>1. IsWellFoundedOn(Less, Nat)
  BY NatLessThanWellFounded DEF OpToRel
<1>2. PICK x \in S : \A y \in S : ~ (<<y, x>> \in Less)
  <2> HIDE DEF Less
  <2> QED
    BY <1>1, WFMin
<1>3. ASSUME NEW y \in S PROVE x =< y
  <2>1. x \in Nat /\ y \in Nat
    OBVIOUS
  <2>2. ~ (<<y, x>> \in Nat \X Nat /\ y < x)
    BY <1>2
  <2> QED
    BY <2>1, <2>2
<1> QED
  BY <1>3 DEF Min

(* Stack positions below a bound have a highest one.                        *)
LEMMA MaxExists ==
  ASSUME NEW n \in Nat, NEW S, S \subseteq 1..n, S # {}
  PROVE  Max(S) \in S /\ \A x \in S : Max(S) >= x
<1> DEFINE Above == {k \in Nat : n - k \in S}
<1>1. Above # {}
  <2>1. PICK x \in S : TRUE
    OBVIOUS
  <2>2. n - x \in Nat /\ n - (n - x) = x
    BY <2>1
  <2> QED
    BY <2>2
<1>2. Min(Above) \in Above /\ \A k \in Above : Min(Above) =< k
  <2>1. Above \subseteq Nat
    OBVIOUS
  <2> HIDE DEF Above
  <2> QED
    BY <1>1, <2>1, MinExists
<1>3. PICK m \in Nat : n - m \in S /\ \A k \in Nat : n - k \in S => m =< k
  BY <1>2
<1>4. ASSUME NEW y \in S PROVE n - m >= y
  <2>1. y \in 1..n /\ n - y \in Nat /\ n - (n - y) = y
    OBVIOUS
  <2>2. m =< n - y
    BY <1>3, <2>1
  <2> QED
    BY <2>1, <2>2
<1> QED
  BY <1>3, <1>4 DEF Max

(* The owner below i, from which the spill loop takes i's new register.     *)
Before(own, i) == Max(OwnersBelow(own, i))

(* Owners are stack positions, and what the spill loop hands down comes     *)
(* from the nearest owner below.                                            *)
LEMMA BeforeIsNearest ==
  ASSUME NEW own \in Seq(Regs \cup {NoReg}), NEW i \in Owners(own),
         OwnersBelow(own, i) # {}
  PROVE  /\ Before(own, i) \in Owners(own)
         /\ Before(own, i) < i
         /\ \A k \in Owners(own) : k < i => k =< Before(own, i)
<1>1. Owners(own) \subseteq 1..Len(own) /\ Len(own) \in Nat
  BY DEF Owners
<1>2. OwnersBelow(own, i) \subseteq 1..Len(own)
  BY <1>1 DEF OwnersBelow
<1>3. /\ Before(own, i) \in OwnersBelow(own, i)
      /\ \A k \in OwnersBelow(own, i) : Before(own, i) >= k
  BY <1>1, <1>2, MaxExists DEF Before
<1>4. Before(own, i) \in Owners(own) /\ Before(own, i) < i
  BY <1>3 DEF OwnersBelow
<1>5. ASSUME NEW k \in Owners(own), k < i PROVE k =< Before(own, i)
  <2>1. k \in OwnersBelow(own, i)
    BY <1>5 DEF OwnersBelow
  <2> QED
    BY <1>1, <1>3, <1>4, <2>1
<1> QED
  BY <1>4, <1>5

(* Every owner but the topmost hands its register to the next one up.       *)
LEMMA NextExists ==
  ASSUME NEW own \in Seq(Regs \cup {NoReg}), NEW j \in Owners(own),
         NEW m \in Owners(own), j < m
  PROVE  \E i \in Owners(own) : OwnersBelow(own, i) # {} /\ Before(own, i) = j
<1> DEFINE Higher == {k \in Owners(own) : j < k}
<1>1. Owners(own) \subseteq 1..Len(own) /\ Len(own) \in Nat
  BY DEF Owners
<1>2. Higher \subseteq Nat /\ Higher # {}
  BY <1>1
<1>3. Min(Higher) \in Higher /\ \A k \in Higher : Min(Higher) =< k
  <2> HIDE DEF Higher
  <2> QED
    BY <1>2, MinExists
<1>4. PICK i \in Owners(own) : j < i /\ \A k \in Owners(own) : j < k => i =< k
  BY <1>3
<1>5. j \in OwnersBelow(own, i)
  BY <1>4 DEF OwnersBelow
<1>6. /\ Before(own, i) \in Owners(own)
      /\ Before(own, i) < i
      /\ j =< Before(own, i)
  BY <1>4, <1>5, BeforeIsNearest
<1>7. Before(own, i) = j
  BY <1>1, <1>4, <1>6
<1> QED
  BY <1>5, <1>7

(* After the spill loop a value has a register if and only if it had one    *)
(* and another owner was below it: that owner's.                            *)
LEMMA RotatedOwners ==
  ASSUME NEW own \in Seq(Regs \cup {NoReg})
  PROVE  /\ Owners(Rotated(own)) =
              {i \in Owners(own) : OwnersBelow(own, i) # {}}
         /\ \A i \in Owners(Rotated(own)) :
              Rotated(own)[i] = own[Before(own, i)]
<1>1. Owners(own) \subseteq DOMAIN own
  BY DEF Owners
<1>2. DOMAIN Rotated(own) = DOMAIN own
  BY DEF Rotated
<1>3. ASSUME NEW i \in Owners(own), OwnersBelow(own, i) # {}
      PROVE  /\ Rotated(own)[i] = own[Before(own, i)]
             /\ Rotated(own)[i] # NoReg
  <2>1. Rotated(own)[i] = own[Before(own, i)]
    BY <1>1, <1>3 DEF Rotated, Before
  <2>2. Before(own, i) \in Owners(own)
    BY <1>3, BeforeIsNearest
  <2> QED
    BY <2>1, <2>2 DEF Owners
<1>4. ASSUME NEW i \in DOMAIN own,
             ~ (i \in Owners(own) /\ OwnersBelow(own, i) # {})
      PROVE  Rotated(own)[i] = NoReg
  BY <1>4 DEF Rotated
<1>5. \A i : i \in Owners(Rotated(own)) <=>
               i \in Owners(own) /\ OwnersBelow(own, i) # {}
  <2>1. \A i : i \in Owners(Rotated(own)) <=>
                 i \in DOMAIN own /\ Rotated(own)[i] # NoReg
    BY <1>2 DEF Owners
  <2> QED
    BY <2>1, <1>1, <1>3, <1>4
<1> QED
  BY <1>3, <1>5

(* The spill loop keeps registers apart and drops exactly the topmost       *)
(* owner's, which it returns.                                               *)
LEMMA RotatedTracked ==
  ASSUME NEW own \in Seq(Regs \cup {NoReg}), Exclusive(own), Owners(own) # {}
  PROVE  /\ Exclusive(Rotated(own))
         /\ own[Max(Owners(own))] \in OwnedBy(own)
         /\ OwnedBy(Rotated(own)) = OwnedBy(own) \ {own[Max(Owners(own))]}
<1> DEFINE m == Max(Owners(own))
<1>1. Owners(own) \subseteq 1..Len(own) /\ Len(own) \in Nat
  BY DEF Owners
<1>2. m \in Owners(own) /\ \A k \in Owners(own) : m >= k
  BY <1>1, MaxExists
<1> HIDE DEF m
<1>3. Exclusive(Rotated(own))
  <2> SUFFICES ASSUME NEW i \in Owners(Rotated(own)),
                      NEW j \in Owners(Rotated(own)),
                      Rotated(own)[i] = Rotated(own)[j]
               PROVE  i = j
    BY DEF Exclusive
  <2>1. i \in Owners(own) /\ j \in Owners(own)
    BY RotatedOwners
  <2>2. /\ Before(own, i) \in Owners(own) /\ Before(own, i) < i
        /\ \A k \in Owners(own) : k < i => k =< Before(own, i)
    BY <2>1, RotatedOwners, BeforeIsNearest
  <2>3. /\ Before(own, j) \in Owners(own) /\ Before(own, j) < j
        /\ \A k \in Owners(own) : k < j => k =< Before(own, j)
    BY <2>1, RotatedOwners, BeforeIsNearest
  <2>4. own[Before(own, i)] = own[Before(own, j)]
    BY RotatedOwners
  <2>5. Before(own, i) = Before(own, j)
    BY <2>2, <2>3, <2>4 DEF Exclusive
  <2>6. ~ (i < j) /\ ~ (j < i)
    BY <1>1, <2>1, <2>2, <2>3, <2>5
  <2> QED
    BY <1>1, <2>1, <2>6
<1>4. own[m] \in OwnedBy(own)
  BY <1>2 DEF OwnedBy
<1>5. ASSUME NEW r \in OwnedBy(Rotated(own))
      PROVE  r \in OwnedBy(own) /\ r # own[m]
  <2>1. PICK i \in Owners(Rotated(own)) : r = Rotated(own)[i]
    BY DEF OwnedBy
  <2>2. i \in Owners(own) /\ r = own[Before(own, i)]
    BY <2>1, RotatedOwners
  <2>3. Before(own, i) \in Owners(own) /\ Before(own, i) < i
    BY <2>2, RotatedOwners, BeforeIsNearest
  <2>4. Before(own, i) # m
    BY <1>1, <1>2, <2>2, <2>3
  <2> QED
    BY <1>2, <2>2, <2>3, <2>4 DEF OwnedBy, Exclusive
<1>6. ASSUME NEW r \in OwnedBy(own), r # own[m]
      PROVE  r \in OwnedBy(Rotated(own))
  <2>1. PICK j \in Owners(own) : r = own[j]
    BY DEF OwnedBy
  <2>2. j < m
    BY <1>1, <1>2, <1>6, <2>1
  <2>3. PICK i \in Owners(own) : /\ OwnersBelow(own, i) # {}
                                 /\ Before(own, i) = j
    BY <1>2, <2>2, NextExists
  <2>4. i \in Owners(Rotated(own)) /\ Rotated(own)[i] = own[j]
    BY <2>3, RotatedOwners
  <2> QED
    BY <2>1, <2>4 DEF OwnedBy
<1>7. OwnedBy(Rotated(own)) = OwnedBy(own) \ {own[m]}
  BY <1>5, <1>6
<1> QED
  BY <1>3, <1>4, <1>7 DEF m

(* AllocateRegister returns a register that neither a stack value nor a     *)
(* held temporary owns afterwards, and the tracker's mask stays exactly the *)
(* registers that are owned, whether or not it had to spill                 *)
(* (x64/compiler.cc:116-133, arm64/compiler.cc:117-134).                    *)
THEOREM AllocationTracks ==
  ASSUME NEW used, NEW own \in Seq(Regs \cup {NoReg}), NEW held \in SUBSET Regs,
         Tracked(used, own, held), CanAllocate(used, own)
  PROVE  /\ Allocated(used, own) \in Regs
         /\ Allocated(used, own) \notin held
         /\ Tracked(UsedAfter(used, own), OwnAfter(used, own),
                    held \cup {Allocated(used, own)})
<1>1. CASE Free(used) # {}
  <2>1. Free(used) \subseteq Nat
    BY RegsAssumption DEF Free
  <2>2. TakeUnused(used) \in Free(used)
    BY <1>1, <2>1, MinExists DEF TakeUnused, Begin
  <2>3. TakeUnused(used) \in Regs /\ TakeUnused(used) \notin used
    BY <2>2 DEF Free
  <2>4. /\ Allocated(used, own) = TakeUnused(used)
        /\ UsedAfter(used, own) = used \cup {TakeUnused(used)}
        /\ OwnAfter(used, own) = own
    BY <1>1 DEF Allocated, UsedAfter, OwnAfter
  <2> QED
    BY <2>3, <2>4 DEF Tracked
<1>2. CASE Free(used) = {}
  <2>1. Owners(own) # {}
    BY <1>2 DEF CanAllocate
  <2>2. /\ Allocated(used, own) = own[Max(Owners(own))]
        /\ UsedAfter(used, own) = used
        /\ OwnAfter(used, own) = Rotated(own)
    BY <1>2 DEF Allocated, UsedAfter, OwnAfter
  <2>3. /\ Exclusive(own)
        /\ OwnedBy(own) \cap held = {}
        /\ used = OwnedBy(own) \cup held
    BY DEF Tracked
  <2>4. /\ Exclusive(Rotated(own))
        /\ Allocated(used, own) \in OwnedBy(own)
        /\ OwnedBy(Rotated(own)) = OwnedBy(own) \ {Allocated(used, own)}
    BY <2>1, <2>2, <2>3, RotatedTracked
  <2>5. OwnedBy(own) \subseteq Regs
    BY DEF OwnedBy, Owners
  <2> QED
    BY <2>2, <2>3, <2>4, <2>5 DEF Tracked
<1> QED
  BY <1>1, <1>2

-----------------------------------------------------------------------------
(* Compilation.                                                             *)

(* The fold over the results, for the two lists of results there are.       *)
LEMMA MaxOfOne == Max({1}) = 1
  BY DEF Max

(* A function without results has nothing popped at its end.                *)
LEMMA NoResults == ASSUME NEW v, Results = <<>> PROVE PopResults(v) = v
<1> DEFINE iter == CHOOSE it : it = [s \in SUBSET {} |->
                      IF s = {} THEN v
                      ELSE Pop(it[s \ {Max(s)}], Results[Max(s)])]
<1>1. DOMAIN Results = {}
  OBVIOUS
<1>2. iter = [s \in SUBSET {} |-> IF s = {} THEN v
                ELSE Pop(iter[s \ {Max(s)}], Results[Max(s)])]
  <2> DEFINE w == [s \in SUBSET {} |-> v]
  <2>1. w = [s \in SUBSET {} |-> IF s = {} THEN v
                ELSE Pop(w[s \ {Max(s)}], Results[Max(s)])]
    OBVIOUS
  <2> HIDE DEF w
  <2> QED BY <2>1
<1>3. PopResults(v) = iter[{}]
  BY <1>1 DEF PopResults, FoldLeft, MapThenFoldSet
<1> HIDE DEF iter
<1> QED
  BY <1>2, <1>3

(* A function with one result has one i32 popped at its end.                *)
LEMMA OneResult ==
  ASSUME NEW v, Results = <<"i32">> PROVE PopResults(v) = Pop(v, "i32")
<1> DEFINE iter == CHOOSE it : it = [s \in SUBSET {1} |->
                      IF s = {} THEN v
                      ELSE Pop(it[s \ {Max(s)}], Results[Max(s)])]
<1>1. DOMAIN Results = {1}
  OBVIOUS
<1>2. iter = [s \in SUBSET {1} |-> IF s = {} THEN v
                ELSE Pop(iter[s \ {Max(s)}], Results[Max(s)])]
  <2> DEFINE w == [s \in SUBSET {1} |-> IF s = {} THEN v ELSE Pop(v, "i32")]
  <2>1. ASSUME NEW s \in SUBSET {1}, s # {}
        PROVE  Pop(w[s \ {Max(s)}], Results[Max(s)]) = w[s]
    <3>1. s = {1}
      BY <2>1
    <3>2. Max(s) = 1 /\ Results[Max(s)] = "i32" /\ s \ {Max(s)} = {}
      BY <3>1, MaxOfOne
    <3>3. w[{}] = v /\ w[s] = Pop(v, "i32")
      BY <2>1
    <3> QED
      BY <3>2, <3>3
  <2>2. w = [s \in SUBSET {1} |-> IF s = {} THEN v
                ELSE Pop(w[s \ {Max(s)}], Results[Max(s)])]
    BY <2>1
  <2> HIDE DEF w
  <2> QED BY <2>2
<1>3. PopResults(v) = iter[{1}]
  BY <1>1 DEF PopResults, FoldLeft, MapThenFoldSet
<1> HIDE DEF iter
<1>4. iter[{}] = v
  BY <1>2
<1>5. {1} \ {Max({1})} = {} /\ Results[Max({1})] = "i32"
  BY MaxOfOne
<1> QED
  BY <1>2, <1>3, <1>4, <1>5


-----------------------------------------------------------------------------
(* The validator.  Every instruction of the model pushes i32 values only.   *)
Validators == [stack : Seq({"i32"}), unreachable : BOOLEAN, ok : BOOLEAN,
               memory : 0..SizeMod - 1, maxMemory : 0..SizeMod - 1,
               maxStack : Nat]

(* Sizes wrap as size_t does.                                               *)
LEMMA Wraps ==
  ASSUME NEW n \in Int PROVE n % SizeMod \in 0..SizeMod - 1
  BY SizeAssumption

(* All but the last element.                                                *)
LEMMA FrontOf ==
  ASSUME NEW S, NEW s \in Seq(S), s # <<>>
  PROVE  /\ Front(s) \in Seq(S) /\ Len(Front(s)) = Len(s) - 1
         /\ Len(s) - 1 \in Nat
         /\ \A i \in 1..Len(s) - 1 : Front(s)[i] = s[i]
<1>1. Len(s) \in Nat \ {0} /\ DOMAIN s = 1..Len(s)
  BY EmptySeq
<1>2. \A i \in 1..Len(s) - 1 : s[i] \in S
  BY <1>1
<1> QED
  BY <1>1, <1>2 DEF Front

(* Another last element in place of the last one.                           *)
LEMMA ReplaceLast ==
  ASSUME NEW S, NEW s \in Seq(S), s # <<>>, NEW x \in S
  PROVE  /\ Append(Front(s), x) \in Seq(S)
         /\ Len(Append(Front(s), x)) = Len(s)
         /\ Append(Front(s), Last(s)) = s
<1>1. /\ Front(s) \in Seq(S) /\ Len(Front(s)) = Len(s) - 1
      /\ Len(s) \in Nat \ {0} /\ \A i \in 1..Len(s) - 1 : Front(s)[i] = s[i]
      /\ Last(s) = s[Len(s)] /\ s[Len(s)] \in S
  <2>1. Len(s) \in Nat \ {0}
    BY EmptySeq
  <2> QED
    BY <2>1, FrontOf DEF Last
<1>2. \A y \in S : /\ Append(Front(s), y) \in Seq(S)
                   /\ Len(Append(Front(s), y)) = Len(s)
  BY <1>1
<1>3. \A i \in 1..Len(s) : Append(Front(s), Last(s))[i] = s[i]
  BY <1>1
<1> QED
  BY <1>1, <1>2, <1>3

(* Push counts one value more, its bytes and both peaks.                    *)
LEMMA PushAdds ==
  ASSUME NEW v \in Validators, NEW p, p = Push(v, "i32")
  PROVE  /\ p \in Validators
         /\ p.ok = v.ok /\ p.unreachable = v.unreachable
         /\ Len(p.stack) = Len(v.stack) + 1
         /\ p.memory = (v.memory + 4) % SizeMod
         /\ p.maxMemory = Bigger(v.maxMemory, p.memory)
         /\ p.maxStack = Bigger(v.maxStack, Len(p.stack))
<1>1. SizeBytes("i32") = 4
  BY DEF SizeBytes
<1>2. (v.memory + 4) % SizeMod \in 0..SizeMod - 1
  <2>1. v.memory + 4 \in Int
    BY DEF Validators
  <2> QED
    BY <2>1, Wraps
<1>3. Append(v.stack, "i32") \in Seq({"i32"})
      /\ Len(Append(v.stack, "i32")) = Len(v.stack) + 1
      /\ Len(v.stack) \in Nat
  BY DEF Validators
<1> DEFINE m == (v.memory + 4) % SizeMod
           s == Append(v.stack, "i32")
<1>4. p = [v EXCEPT !.stack = s, !.memory = m, !.maxMemory = Bigger(@, m),
                    !.maxStack = Bigger(@, Len(v.stack) + 1)]
  BY <1>1 DEF Push
<1>5. /\ Bigger(v.maxMemory, m) \in 0..SizeMod - 1
      /\ Bigger(v.maxStack, Len(v.stack) + 1) \in Nat
  BY <1>2, <1>3 DEF Bigger, Validators
<1> HIDE DEF m, s
<1>6. /\ p.stack = s /\ p.memory = m /\ p.maxMemory = Bigger(v.maxMemory, m)
      /\ p.maxStack = Bigger(v.maxStack, Len(v.stack) + 1)
      /\ p.ok = v.ok /\ p.unreachable = v.unreachable
      /\ p = [stack |-> p.stack, unreachable |-> p.unreachable, ok |-> p.ok,
              memory |-> p.memory, maxMemory |-> p.maxMemory,
              maxStack |-> p.maxStack]
  BY <1>4 DEF Validators
<1> QED
  BY <1>2, <1>3, <1>5, <1>6 DEF m, s, Validators

(* Pop takes the top value and its bytes, or throws.                        *)
LEMMA PopTakes ==
  ASSUME NEW v \in Validators, NEW p, p = Pop(v, "i32")
  PROVE  /\ p \in Validators
         /\ p.ok => v.ok /\ (v.stack # <<>> \/ v.unreachable)
         /\ p.unreachable = v.unreachable
         /\ v.stack # <<>> => /\ Len(p.stack) = Len(v.stack) - 1
                              /\ p.memory = (v.memory - 4) % SizeMod
         /\ v.stack = <<>> => p.stack = <<>>
         /\ p.maxMemory = v.maxMemory /\ p.maxStack = v.maxStack
<1>1. CASE ~CanPop(v)
  <2>1. p = [v EXCEPT !.ok = FALSE]
    BY <1>1 DEF Pop, Throw
  <2>2. v.stack = <<>>
    BY <1>1 DEF CanPop
  <2> QED
    BY <2>1, <2>2 DEF Validators
<1>2. CASE CanPop(v)
  <2> DEFINE m == (v.memory - SizeBytes(Popped(v))) % SizeMod
             o == (v.ok /\ Popped(v) \in {"any", "i32"})
  <2>1. p = [v EXCEPT !.stack = Rest(v), !.memory = m, !.ok = o]
    BY <1>2 DEF Pop
  <2>2. /\ Rest(v) \in Seq({"i32"})
        /\ v.stack = <<>> => Rest(v) = <<>>
        /\ v.stack # <<>> => Len(Rest(v)) = Len(v.stack) - 1
    <3>1. v.stack \in Seq({"i32"})
      BY DEF Validators
    <3> QED
      BY <3>1, FrontOf DEF Rest
  <2>3. /\ v.stack = <<>> => SizeBytes(Popped(v)) = 16
        /\ v.stack # <<>> => SizeBytes(Popped(v)) = 4
    BY DEF Popped, Last, SizeBytes, Validators
  <2>4. m \in 0..SizeMod - 1
    <3>1. v.memory - SizeBytes(Popped(v)) \in Int
      BY <2>3 DEF Validators
    <3> QED
      BY <3>1, Wraps
  <2>5. o \in BOOLEAN /\ (o => v.ok)
    BY DEF Validators
  <2>6. v.stack # <<>> => m = (v.memory - 4) % SizeMod
    BY <2>3
  <2> HIDE DEF m, o
  <2>7. /\ p.stack = Rest(v) /\ p.memory = m /\ p.ok = o
        /\ p.maxMemory = v.maxMemory /\ p.maxStack = v.maxStack
        /\ p.unreachable = v.unreachable
        /\ p = [stack |-> p.stack, unreachable |-> p.unreachable, ok |-> p.ok,
                memory |-> p.memory, maxMemory |-> p.maxMemory,
                maxStack |-> p.maxStack]
    BY <2>1 DEF Validators
  <2>8. p \in Validators
    BY <2>2, <2>4, <2>5, <2>7 DEF Validators
  <2> QED
    BY <1>2, <2>2, <2>5, <2>6, <2>7, <2>8 DEF CanPop
<1> QED
  BY <1>1, <1>2


(* The bytes are those of the elements, now and at the most.                *)
Balanced(v) ==
  /\ v.memory = 4 * Len(v.stack) /\ v.maxMemory = 4 * v.maxStack
  /\ Len(v.stack) =< v.maxStack

(* A size that fits does not wrap.                                          *)
LEMMA SmallStays ==
  ASSUME NEW n \in Nat, n < SizeMod PROVE n % SizeMod = n
  BY SizeAssumption

(* Pushing keeps bytes and elements in step, the peaks too.                 *)
LEMMA PushBalances ==
  ASSUME NEW v \in Validators, NEW p, p = Push(v, "i32"),
         Balanced(v), 4 * (v.maxStack + 1) < SizeMod
  PROVE  Balanced(p) /\ v.maxStack =< p.maxStack /\ p.maxStack =< v.maxStack + 1
<1>1. /\ Len(v.stack) \in Nat /\ v.maxStack \in Nat
      /\ v.memory = 4 * Len(v.stack) /\ v.maxMemory = 4 * v.maxStack
      /\ Len(v.stack) =< v.maxStack
  BY DEF Validators, Balanced
<1>2. (v.memory + 4) % SizeMod = v.memory + 4
  <2>1. v.memory + 4 \in Nat /\ v.memory + 4 < SizeMod
    BY <1>1, SizeAssumption
  <2> QED
    BY <2>1, SmallStays
<1>3. /\ p.memory = v.memory + 4 /\ Len(p.stack) = Len(v.stack) + 1
      /\ p.maxMemory = Bigger(v.maxMemory, p.memory)
      /\ p.maxStack = Bigger(v.maxStack, Len(p.stack))
  BY <1>2, PushAdds
<1>4. PICK n \in Nat, m \in Nat : n = Len(v.stack) /\ m = v.maxStack
  BY <1>1
<1>5. /\ v.memory = 4 * n /\ v.maxMemory = 4 * m /\ n =< m
  BY <1>1, <1>4
<1>6. p.memory = 4 * n + 4 /\ Len(p.stack) = n + 1
  BY <1>3, <1>4, <1>5
<1>7. /\ p.maxMemory = Bigger(4 * m, 4 * n + 4)
      /\ p.maxStack = Bigger(m, n + 1)
  BY <1>3, <1>4, <1>5, <1>6
<1>8. CASE n = m
  <2>1. p.maxMemory = 4 * m + 4 /\ p.maxStack = m + 1
    BY <1>7, <1>8 DEF Bigger
  <2>2. p.memory = 4 * m + 4 /\ Len(p.stack) = m + 1
    BY <1>6, <1>8
  <2>3. m + 1 \in Nat /\ 4 * m + 4 = 4 * (m + 1) /\ m =< m + 1
        /\ m + 1 =< m + 1
    OBVIOUS
  <2>4. Balanced(p)
    BY <2>1, <2>2, <2>3 DEF Balanced
  <2> QED
    BY <1>4, <2>1, <2>3, <2>4
<1>9. CASE n # m
  <2>1. n + 1 =< m
    BY <1>5, <1>9
  <2>2. p.maxMemory = 4 * m /\ p.maxStack = m
    BY <1>7, <2>1 DEF Bigger
  <2>3. 4 * n + 4 = 4 * (n + 1) /\ m =< m + 1 /\ m =< m
    OBVIOUS
  <2>4. Balanced(p)
    BY <1>6, <2>1, <2>2, <2>3 DEF Balanced
  <2> QED
    BY <1>4, <2>2, <2>3, <2>4
<1> QED
  BY <1>8, <1>9

(* Popping keeps them in step and leaves the peaks alone.                   *)
LEMMA PopBalances ==
  ASSUME NEW v \in Validators, NEW p, p = Pop(v, "i32"), Balanced(v),
         v.stack # <<>>
  PROVE  Balanced(p) /\ p.maxStack = v.maxStack
<1>1. /\ Len(v.stack) \in Nat /\ Len(v.stack) # 0 /\ v.maxStack \in Nat
      /\ v.memory = 4 * Len(v.stack) /\ v.maxMemory = 4 * v.maxStack
      /\ Len(v.stack) =< v.maxStack /\ v.memory < SizeMod
  <2>1. v.stack \in Seq({"i32"}) /\ v.maxStack \in Nat
        /\ v.memory < SizeMod
    BY SizeAssumption DEF Validators
  <2>2. Len(v.stack) \in Nat /\ Len(v.stack) # 0
    BY <2>1, EmptySeq
  <2> QED
    BY <2>1, <2>2 DEF Balanced
<1>2. (v.memory - 4) % SizeMod = v.memory - 4
  <2>1. v.memory - 4 \in Nat /\ v.memory - 4 < SizeMod
    BY <1>1, SizeAssumption
  <2> QED
    BY <2>1, SmallStays
<1>3. /\ p.memory = v.memory - 4 /\ Len(p.stack) = Len(v.stack) - 1
      /\ p.maxMemory = v.maxMemory /\ p.maxStack = v.maxStack
  BY <1>2, PopTakes
<1> QED
  BY <1>1, <1>3 DEF Balanced

(* An index of a local that is accepted changes nothing.                    *)
LEMMA LocalChecked ==
  ASSUME NEW v \in Validators, NEW i
  PROVE  /\ AssertLocal(v, i) \in Validators
         /\ AssertLocal(v, i).ok => AssertLocal(v, i) = v
  BY DEF AssertLocal, Throw, Validators

(* A stack that is accepted as empty is empty.                              *)
LEMMA EmptyChecked ==
  ASSUME NEW v \in Validators
  PROVE  /\ AssertEmpty(v) \in Validators
         /\ AssertEmpty(v).ok => AssertEmpty(v) = v /\ v.stack = <<>>
         /\ AssertEmpty(v).maxMemory = v.maxMemory
         /\ AssertEmpty(v).maxStack = v.maxStack
  BY DEF AssertEmpty, Throw, Validators

(* Popping the results: what Finalize and ValidateReturn share.             *)
LEMMA ResultsPopped ==
  ASSUME NEW v \in Validators, NEW p, p = AssertEmpty(PopResults(v))
  PROVE  /\ p \in Validators
         /\ p.maxMemory = v.maxMemory /\ p.maxStack = v.maxStack
         /\ p.ok => /\ v.ok
                    /\ p.stack = <<>>
                    /\ ~v.unreachable => Len(v.stack) = Len(Results)
<1>1. PICK q \in Validators :
        /\ q = PopResults(v)
        /\ q.maxMemory = v.maxMemory /\ q.maxStack = v.maxStack
        /\ q.ok => v.ok
        /\ q.ok /\ q.stack = <<>> /\ ~v.unreachable =>
             Len(v.stack) = Len(Results)
  <2>1. CASE Results = <<>>
    BY <2>1, NoResults
  <2>2. CASE Results = <<"i32">>
    <3>1. PopResults(v) = Pop(v, "i32")
      BY <2>2, OneResult
    <3>2. Len(Results) = 1
      BY <2>2
    <3>3. PICK q : q = Pop(v, "i32")
      OBVIOUS
    <3>4. q.ok /\ q.stack = <<>> /\ ~v.unreachable => Len(v.stack) = 1
      <4>1. v.stack \in Seq({"i32"})
        BY DEF Validators
      <4>2. Len(v.stack) \in Nat
        BY <4>1
      <4>3. /\ q.ok => v.stack # <<>> \/ v.unreachable
            /\ v.stack # <<>> => Len(q.stack) = Len(v.stack) - 1
        BY <3>3, PopTakes
      <4>4. q.stack = <<>> => Len(q.stack) = 0
        OBVIOUS
      <4> QED
        BY <4>2, <4>3, <4>4
    <3> QED
      BY <3>1, <3>2, <3>3, <3>4, PopTakes
  <2> QED
    BY <2>1, <2>2, ArchAssumption
<1>2. /\ AssertEmpty(q) \in Validators
      /\ AssertEmpty(q).ok => AssertEmpty(q) = q /\ q.stack = <<>>
      /\ AssertEmpty(q).maxMemory = q.maxMemory
      /\ AssertEmpty(q).maxStack = q.maxStack
  BY EmptyChecked
<1>3. p = AssertEmpty(q)
  BY <1>1
<1> QED
  BY <1>1, <1>2, <1>3


\* How many values an instruction leaves for the ones it needs.
Leaves == [const |-> 1, add |-> 1, get |-> 1, set |-> 0, label |-> 0,
           return |-> 0]

(* What one instruction the validator accepts does to it, as long as the    *)
(* code is reachable: its operands were there (validator.h:63-64).          *)
Accepts(v, ins, w) ==
  /\ v.ok /\ Needs[ins.op] =< Len(v.stack)
  /\ v.maxStack =< w.maxStack
  /\ ins.op = "return" => w.unreachable /\ Len(v.stack) = Len(Results)
  /\ ins.op # "return" =>
       /\ ~w.unreachable
       /\ Len(w.stack) = Len(v.stack) - Needs[ins.op] + Leaves[ins.op]
       /\ Leaves[ins.op] = 1 => Len(w.stack) =< w.maxStack
  /\ Balanced(v) /\ 4 * (v.maxStack + 1) < SizeMod =>
       /\ w.maxMemory = 4 * w.maxStack /\ w.maxStack =< v.maxStack + 1
       /\ ins.op # "return" => Balanced(w)

(* One lemma per instruction: what the validator accepted and what it       *)
(* counts now.                                                              *)
LEMMA PushAccepts ==
  ASSUME NEW v \in Validators, NEW w, w = Push(v, "i32"), ~v.unreachable, v.ok
  PROVE  /\ w \in Validators /\ ~w.unreachable
         /\ Len(w.stack) = Len(v.stack) + 1 /\ Len(w.stack) =< w.maxStack
         /\ v.maxStack =< w.maxStack
<1>1. /\ w \in Validators /\ w.unreachable = v.unreachable
      /\ Len(w.stack) = Len(v.stack) + 1
      /\ w.maxStack = Bigger(v.maxStack, Len(w.stack))
  BY PushAdds
<1>2. Len(v.stack) \in Nat /\ v.maxStack \in Nat
  BY DEF Validators
<1> QED
  BY <1>1, <1>2 DEF Bigger

(* i32.add pops two and pushes one.                                         *)
LEMMA AddAccepts ==
  ASSUME NEW v \in Validators, ~v.unreachable, NEW w, w.ok,
         w = Push(Pop(Pop(v, "i32"), "i32"), "i32"), NEW ins, ins.op = "add"
  PROVE  w \in Validators /\ Accepts(v, ins, w)
<1>1. PICK p \in Validators : p = Pop(v, "i32")
  BY PopTakes
<1>2. PICK q \in Validators : q = Pop(p, "i32")
  BY PopTakes
<1>3. w = Push(q, "i32")
  BY <1>1, <1>2
<1>4. q.ok /\ ~q.unreachable /\ q.maxStack = v.maxStack
      /\ v.ok /\ v.stack # <<>> /\ p.stack # <<>>
      /\ Len(p.stack) = Len(v.stack) - 1 /\ Len(q.stack) = Len(p.stack) - 1
  <2>1. q.ok = w.ok /\ q.unreachable = w.unreachable
    BY <1>3, PushAdds
  <2>2. /\ q.ok => p.ok /\ (p.stack # <<>> \/ p.unreachable)
        /\ q.unreachable = p.unreachable /\ q.maxStack = p.maxStack
        /\ p.stack # <<>> => Len(q.stack) = Len(p.stack) - 1
    BY <1>2, PopTakes
  <2>3. /\ p.ok => v.ok /\ (v.stack # <<>> \/ v.unreachable)
        /\ p.unreachable = v.unreachable /\ p.maxStack = v.maxStack
        /\ v.stack # <<>> => Len(p.stack) = Len(v.stack) - 1
    BY <1>1, PopTakes
  <2> QED
    BY <2>1, <2>2, <2>3
<1>5. /\ w \in Validators /\ ~w.unreachable
      /\ Len(w.stack) = Len(q.stack) + 1 /\ Len(w.stack) =< w.maxStack
      /\ v.maxStack =< w.maxStack
  BY <1>3, <1>4, PushAccepts
<1>6. Balanced(v) /\ 4 * (v.maxStack + 1) < SizeMod =>
        Balanced(w) /\ w.maxStack =< v.maxStack + 1
  <2> HAVE Balanced(v) /\ 4 * (v.maxStack + 1) < SizeMod
  <2>1. Balanced(p)
    BY <1>1, <1>4, PopBalances
  <2>2. Balanced(q)
    BY <1>2, <1>4, <2>1, PopBalances
  <2> QED
    BY <1>3, <1>4, <2>2, PushBalances
<1>7. Len(v.stack) \in Nat /\ Len(p.stack) \in Nat /\ Len(q.stack) \in Nat
  BY DEF Validators
<1>8. Needs[ins.op] = 2 /\ Leaves[ins.op] = 1
  BY DEF Needs, Leaves
<1> QED
  BY <1>4, <1>5, <1>6, <1>7, <1>8 DEF Accepts, Balanced


(* i32.const and local.get push one.                                        *)
LEMMA ConstAccepts ==
  ASSUME NEW v \in Validators, ~v.unreachable, NEW w, w.ok,
         w = Push(v, "i32"), NEW ins, ins.op \in {"const", "get"}
  PROVE  w \in Validators /\ Accepts(v, ins, w)
<1>1. v.ok
  BY PushAdds
<1>2. /\ w \in Validators /\ ~w.unreachable
      /\ Len(w.stack) = Len(v.stack) + 1 /\ Len(w.stack) =< w.maxStack
      /\ v.maxStack =< w.maxStack
  BY <1>1, PushAccepts
<1>3. Balanced(v) /\ 4 * (v.maxStack + 1) < SizeMod =>
        Balanced(w) /\ w.maxStack =< v.maxStack + 1
  BY PushBalances
<1>4. Len(v.stack) \in Nat
  BY DEF Validators
<1>5. Needs[ins.op] = 0 /\ Leaves[ins.op] = 1 /\ ins.op # "return"
  BY DEF Needs, Leaves
<1> QED
  BY <1>1, <1>2, <1>3, <1>4, <1>5 DEF Accepts, Balanced

(* local.set pops one.                                                      *)
LEMMA SetAccepts ==
  ASSUME NEW v \in Validators, ~v.unreachable, NEW w, w.ok,
         NEW ins, ins.op = "set",
         w = AssertLocal(Pop(v, "i32"), ins.arg)
  PROVE  w \in Validators /\ Accepts(v, ins, w)
<1>1. PICK p \in Validators : p = Pop(v, "i32")
  BY PopTakes
<1>2. w = p
  BY <1>1, LocalChecked
<1>3. /\ v.ok /\ v.stack # <<>> /\ ~w.unreachable
      /\ Len(w.stack) = Len(v.stack) - 1 /\ w.maxStack = v.maxStack
  BY <1>1, <1>2, PopTakes
<1>4. Balanced(v) => Balanced(w)
  BY <1>1, <1>2, <1>3, PopBalances
<1>5. /\ Len(v.stack) \in Nat /\ Len(w.stack) \in Nat
      /\ v.maxStack \in Nat
  BY <1>1, <1>2 DEF Validators
<1>6. Needs[ins.op] = 1 /\ Leaves[ins.op] = 0
  BY DEF Needs, Leaves
<1> QED
  BY <1>1, <1>2, <1>3, <1>4, <1>5, <1>6 DEF Accepts, Balanced

(* A label changes nothing.                                                 *)
LEMMA LabelAccepts ==
  ASSUME NEW v \in Validators, ~v.unreachable, v.ok, NEW ins, ins.op = "label"
  PROVE  Accepts(v, ins, v)
<1>1. Len(v.stack) \in Nat /\ v.maxStack \in Nat
  BY DEF Validators
<1>2. Needs[ins.op] = 0 /\ Leaves[ins.op] = 0
  BY DEF Needs, Leaves
<1> QED
  BY <1>1, <1>2 DEF Accepts, Balanced

(* return finds exactly the results, and nothing after it is reachable.     *)
LEMMA ReturnAccepts ==
  ASSUME NEW v \in Validators, ~v.unreachable, NEW w, w.ok,
         w = ValidateReturn(v), NEW ins, ins.op = "return"
  PROVE  w \in Validators /\ Accepts(v, ins, w)
<1>1. PICK p \in Validators : p = AssertEmpty(PopResults(v))
  BY ResultsPopped
<1>2. w = [p EXCEPT !.unreachable = TRUE]
  BY <1>1 DEF ValidateReturn
<1>3. w \in Validators /\ w.unreachable /\ p.ok
      /\ w.maxMemory = p.maxMemory /\ w.maxStack = p.maxStack
  BY <1>2 DEF Validators
<1>4. /\ p.maxMemory = v.maxMemory /\ p.maxStack = v.maxStack
      /\ v.ok /\ Len(v.stack) = Len(Results)
  BY <1>1, <1>3, ResultsPopped
<1>5. Len(v.stack) \in Nat /\ v.maxStack \in Nat
  BY DEF Validators
<1>6. Needs[ins.op] = Len(Results)
  BY DEF Needs
<1> QED
  BY <1>3, <1>4, <1>5, <1>6 DEF Accepts, Balanced

(* An instruction the validator accepts in reachable code finds its         *)
(* operands, and leaves the numbers the compiler uses exact.                *)
LEMMA ValidateAccepts ==
  ASSUME NEW v \in Validators, ~v.unreachable, NEW ins \in Instructions,
         NEW w, w = Validate(v, ins), w.ok
  PROVE  w \in Validators /\ Accepts(v, ins, w)
<1>1. ins.op \in {"const", "add", "get", "set", "return", "label"}
  BY ArchAssumption DEF Instructions
<1>2. CASE ins.op = "const"
  <2>1. w = Push(v, "i32")
    BY <1>2 DEF Validate
  <2> QED
    BY <1>2, <2>1, ConstAccepts
<1>3. CASE ins.op = "get"
  <2>1. PICK a \in Validators : a = AssertLocal(v, ins.arg) /\ (a.ok => a = v)
    BY LocalChecked
  <2>2. w = Push(a, "i32")
    BY <1>3, <2>1 DEF Validate
  <2>3. a.ok
    BY <2>2, PushAdds
  <2> QED
    BY <1>3, <2>1, <2>2, <2>3, ConstAccepts
<1>4. CASE ins.op = "add"
  <2>1. w = Push(Pop(Pop(v, "i32"), "i32"), "i32")
    BY <1>4 DEF Validate
  <2> QED
    BY <1>4, <2>1, AddAccepts
<1>5. CASE ins.op = "set"
  <2>1. w = AssertLocal(Pop(v, "i32"), ins.arg)
    BY <1>5 DEF Validate
  <2> QED
    BY <1>5, <2>1, SetAccepts
<1>6. CASE ins.op = "return"
  <2>1. w = ValidateReturn(v)
    BY <1>6 DEF Validate
  <2> QED
    BY <1>6, <2>1, ReturnAccepts
<1>7. CASE ins.op = "label"
  <2>1. w = v
    BY <1>7 DEF Validate
  <2> QED
    BY <1>7, <2>1, LabelAccepts
<1> QED
  BY <1>1, <1>2, <1>3, <1>4, <1>5, <1>6, <1>7


(* Whatever it is given, accepted or not, the validator stays one.          *)
LEMMA ValidateTyped ==
  ASSUME NEW v \in Validators, NEW ins \in Instructions
  PROVE  Validate(v, ins) \in Validators
<1>1. ins.op \in {"const", "add", "get", "set", "return", "label"}
  BY ArchAssumption DEF Instructions
<1>2. CASE ins.op = "const"
  BY <1>2, PushAdds DEF Validate
<1>3. CASE ins.op = "get"
  BY <1>3, PushAdds, LocalChecked DEF Validate
<1>4. CASE ins.op = "add"
  BY <1>4, PushAdds, PopTakes DEF Validate
<1>5. CASE ins.op = "set"
  BY <1>5, LocalChecked, PopTakes DEF Validate
<1>6. CASE ins.op = "return"
  <2>1. PICK p \in Validators : p = AssertEmpty(PopResults(v))
    BY ResultsPopped
  <2>2. [p EXCEPT !.unreachable = TRUE] \in Validators
    BY DEF Validators
  <2> QED
    BY <1>6, <2>1, <2>2 DEF Validate, ValidateReturn
<1>7. CASE ins.op = "label"
  BY <1>7 DEF Validate
<1> QED
  BY <1>1, <1>2, <1>3, <1>4, <1>5, <1>6, <1>7

-----------------------------------------------------------------------------
(* The compiler's half of gen.  The machine's half, which nothing here      *)
(* depends on, is what it is.                                               *)
Compilers(g) ==
  [arch : {g.arch}, used : SUBSET Regs, own : Seq(Regs \cup {NoReg}),
   got : Regs \cup {NoReg}, spills : SUBSET Nat, fault : BOOLEAN,
   regs : {g.regs}, carry : {g.carry}, left : BOOLEAN, mem : {g.mem}]

IsCompiler(g) == g \in Compilers(g)

\* Nothing but the machine changed.
SameCompiler(g, k) ==
  /\ IsCompiler(k)
  /\ k.used = g.used /\ k.own = g.own /\ k.got = g.got
  /\ k.spills = g.spills /\ k.fault = g.fault

(* Writing a register is no business of the compiler's own state.           *)
LEMMA WriteKeeps ==
  ASSUME NEW g, IsCompiler(g), NEW r, NEW w
  PROVE  SameCompiler(g, Write(g, r, w))
  BY DEF SameCompiler, IsCompiler, Compilers, Write

(* Neither is storing to the frame.                                         *)
LEMMA StoreKeeps ==
  ASSUME NEW g, IsCompiler(g), NEW o, NEW w
  PROVE  SameCompiler(g, Store(g, o, w))
  BY DEF SameCompiler, IsCompiler, Compilers, Store

(* Owners are stack positions that have a register.                         *)
LEMMA OwnersAre ==
  ASSUME NEW own \in Seq(Regs \cup {NoReg})
  PROVE  /\ Len(own) \in Nat /\ Owners(own) \subseteq 1..Len(own)
         /\ \A i \in Owners(own) : own[i] \in Regs
         /\ OwnedBy(own) \subseteq Regs
<1>1. Len(own) \in Nat /\ DOMAIN own = 1..Len(own)
      /\ \A i \in 1..Len(own) : own[i] \in Regs \cup {NoReg}
  OBVIOUS
<1> QED
  BY <1>1 DEF Owners, OwnedBy

(* Pushing a value without a register.                                      *)
LEMMA PushTracked ==
  ASSUME NEW own \in Seq(Regs \cup {NoReg}), NEW used, NEW held,
         Tracked(used, own, held)
  PROVE  Tracked(used, Append(own, NoReg), held)
<1> DEFINE new == Append(own, NoReg)
<1>1. /\ new \in Seq(Regs \cup {NoReg}) /\ Len(new) = Len(own) + 1
      /\ Len(own) \in Nat /\ new[Len(own) + 1] = NoReg
      /\ \A i \in 1..Len(own) : new[i] = own[i]
  OBVIOUS
<1> HIDE DEF new
<1>2. DOMAIN own = 1..Len(own) /\ DOMAIN new = 1..(Len(own) + 1)
  BY <1>1
<1>3. Owners(new) = Owners(own)
  BY <1>1, <1>2 DEF Owners
<1>4. \A i \in Owners(own) : new[i] = own[i]
  BY <1>1, OwnersAre
<1>5. OwnedBy(new) = OwnedBy(own)
  BY <1>3, <1>4 DEF OwnedBy
<1>6. Exclusive(new)
  BY <1>3, <1>4 DEF Exclusive, Tracked
<1> QED
  BY <1>5, <1>6 DEF Tracked, new

(* Popping leaves the register of the value, if it had one, to the caller.  *)
LEMMA PopTracked ==
  ASSUME NEW own \in Seq(Regs \cup {NoReg}), own # <<>>, NEW used,
         NEW held, Tracked(used, own, held)
  PROVE  /\ Last(own) = NoReg => Tracked(used, Front(own), held)
         /\ Last(own) # NoReg =>
              /\ Last(own) \in Regs \ held
              /\ Tracked(used, Front(own), held \cup {Last(own)})
<1> DEFINE new == Front(own)
           n == Len(own)
<1>1. /\ new \in Seq(Regs \cup {NoReg}) /\ Len(new) = n - 1 /\ n - 1 \in Nat
      /\ \A i \in 1..n - 1 : new[i] = own[i]
  BY FrontOf
<1>2. DOMAIN own = 1..n /\ DOMAIN new = 1..n - 1 /\ n \in Nat /\ n >= 1
  BY <1>1
<1>3. Last(own) = own[n]
  BY DEF Last
<1> HIDE DEF new, n
<1>4. Owners(new) = Owners(own) \ {n}
  BY <1>1, <1>2 DEF Owners
<1>5. \A i \in Owners(new) : new[i] = own[i]
  BY <1>1, <1>2 DEF Owners
<1>6. Exclusive(new)
  BY <1>4, <1>5 DEF Exclusive, Tracked
<1>7. CASE own[n] = NoReg
  <2>1. Owners(new) = Owners(own)
    BY <1>4, <1>7 DEF Owners
  <2>2. OwnedBy(new) = OwnedBy(own)
    BY <1>5, <2>1 DEF OwnedBy
  <2> QED
    BY <1>3, <1>6, <1>7, <2>2 DEF Tracked, new
<1>8. CASE own[n] # NoReg
  <2>1. n \in Owners(own)
    BY <1>2, <1>8 DEF Owners
  <2>2. own[n] \in OwnedBy(own) /\ own[n] \in Regs
    BY <2>1, OwnersAre DEF OwnedBy
  <2>3. \A i \in Owners(new) : new[i] # own[n]
    BY <1>4, <1>5, <2>1 DEF Exclusive, Tracked
  <2>4. OwnedBy(new) = OwnedBy(own) \ {own[n]}
    <3>1. ASSUME NEW r \in OwnedBy(new) PROVE r \in OwnedBy(own) \ {own[n]}
      BY <1>4, <1>5, <2>3 DEF OwnedBy
    <3>2. ASSUME NEW r \in OwnedBy(own), r # own[n] PROVE r \in OwnedBy(new)
      <4>1. PICK i \in Owners(own) : r = own[i]
        BY DEF OwnedBy
      <4>2. i \in Owners(new) /\ new[i] = r
        BY <1>4, <1>5, <3>2, <4>1
      <4> QED
        BY <4>2 DEF OwnedBy
    <3> QED
      BY <3>1, <3>2
  <2> QED
    BY <1>3, <1>6, <1>8, <2>2, <2>4 DEF Tracked, new
<1> QED
  BY <1>7, <1>8

(* Giving the top value a held register.                                    *)
LEMMA SetTracked ==
  ASSUME NEW own \in Seq(Regs \cup {NoReg}), own # <<>>, NEW used,
         NEW held, NEW r \in Regs \ held, Last(own) = NoReg,
         Tracked(used, own, held \cup {r})
  PROVE  Tracked(used, Append(Front(own), r), held)
<1> DEFINE n == Len(own)
           new == Append(Front(own), r)
<1>1. /\ Front(own) \in Seq(Regs \cup {NoReg}) /\ Len(Front(own)) = n - 1
      /\ n - 1 \in Nat /\ \A i \in 1..n - 1 : Front(own)[i] = own[i]
  BY FrontOf
<1>2. /\ new \in Seq(Regs \cup {NoReg}) /\ Len(new) = n /\ new[n] = r
      /\ \A i \in 1..n - 1 : new[i] = own[i]
  BY <1>1
<1>3. DOMAIN own = 1..n /\ DOMAIN new = 1..n /\ n \in Nat /\ n >= 1
  BY <1>1, <1>2
<1>4. own[n] = NoReg
  BY DEF Last
<1> HIDE DEF new, n
<1>5. Owners(new) = Owners(own) \cup {n} /\ n \notin Owners(own)
  BY <1>2, <1>3, <1>4, RegsAssumption DEF Owners
<1>6. \A i \in Owners(own) : new[i] = own[i]
  BY <1>2, <1>3, <1>5 DEF Owners
<1>7. OwnedBy(new) = OwnedBy(own) \cup {r}
  BY <1>2, <1>5, <1>6 DEF OwnedBy
<1>8. r \notin OwnedBy(own)
  BY DEF Tracked
<1>9. \A i \in Owners(own) : new[i] # r
  BY <1>6, <1>8 DEF OwnedBy
<1>10. Exclusive(new)
  BY <1>2, <1>5, <1>6, <1>9 DEF Exclusive, Tracked
<1> QED
  BY <1>7, <1>8, <1>10 DEF Tracked, new


(* The spill loop moves registers between values and adds none.             *)
LEMMA OwnAfterTyped ==
  ASSUME NEW own \in Seq(Regs \cup {NoReg}), NEW used
  PROVE  /\ OwnAfter(used, own) \in Seq(Regs \cup {NoReg})
         /\ Len(OwnAfter(used, own)) = Len(own)
         /\ own # <<>> /\ Last(own) = NoReg => Last(OwnAfter(used, own)) = NoReg
<1> DEFINE n == Len(own)
<1>1. n \in Nat /\ DOMAIN own = 1..n
  OBVIOUS
<1>2. \A i \in 1..n : Rotated(own)[i] \in Regs \cup {NoReg}
  <2> SUFFICES ASSUME NEW i \in 1..n
               PROVE  Rotated(own)[i] \in Regs \cup {NoReg}
    OBVIOUS
  <2>1. CASE i \in Owners(own) /\ OwnersBelow(own, i) # {}
    <3>1. Before(own, i) \in Owners(own)
      BY <2>1, BeforeIsNearest
    <3>2. Rotated(own)[i] = own[Before(own, i)]
      BY <1>1, <2>1 DEF Rotated, Before
    <3> QED
      BY <3>1, <3>2, OwnersAre
  <2>2. CASE ~(i \in Owners(own) /\ OwnersBelow(own, i) # {})
    BY <1>1, <2>2 DEF Rotated
  <2> QED
    BY <2>1, <2>2
<1>3. DOMAIN Rotated(own) = 1..n
  BY <1>1 DEF Rotated
<1>4. Rotated(own) \in Seq(Regs \cup {NoReg}) /\ Len(Rotated(own)) = n
  <2>1. Rotated(own) \in [1..n -> Regs \cup {NoReg}]
    BY <1>2, <1>3 DEF Rotated
  <2> QED
    BY <1>1, <2>1
<1>5. ASSUME own # <<>>, Last(own) = NoReg PROVE Last(Rotated(own)) = NoReg
  <2>1. n \in 1..n /\ own[n] = NoReg
    BY <1>1, <1>5 DEF Last
  <2>2. n \notin Owners(own)
    BY <2>1 DEF Owners
  <2>3. Rotated(own)[n] = NoReg
    BY <1>1, <2>1, <2>2 DEF Rotated
  <2> QED
    BY <1>4, <2>3 DEF Last
<1> QED
  BY <1>4, <1>5 DEF OwnAfter

(* AllocateRegister: what its caller gets is its own, and only values that  *)
(* were in a register are stored to their slots.                            *)
LEMMA AllocateKeeps ==
  ASSUME NEW g, IsCompiler(g), NEW held \in SUBSET Regs,
         Tracked(g.used, g.own, held),
         NEW a, a = AllocateRegister(g), ~a.fault
  PROVE  /\ IsCompiler(a) /\ ~g.fault
         /\ a.got \in Regs \ held
         /\ Tracked(a.used, a.own, held \cup {a.got})
         /\ Len(a.own) = Len(g.own)
         /\ g.own # <<>> /\ Last(g.own) = NoReg => Last(a.own) = NoReg
         /\ \A i \in a.spills : i \in g.spills \/ i \in Owners(g.own)
<1>1. CanAllocate(g.used, g.own)
  BY DEF AllocateRegister, Fault, IsCompiler, Compilers
<1> DEFINE got == Allocated(g.used, g.own)
           used == UsedAfter(g.used, g.own)
           own == OwnAfter(g.used, g.own)
           spills == g.spills \cup {Slot(i) : i \in Spilled(g.used, g.own)}
<1>2. g.own \in Seq(Regs \cup {NoReg}) /\ g.used \in SUBSET Regs
      /\ g.spills \in SUBSET Nat
  BY DEF IsCompiler, Compilers
<1>3. got \in Regs \ held /\ Tracked(used, own, held \cup {got})
  BY <1>1, <1>2, AllocationTracks
<1>4. /\ own \in Seq(Regs \cup {NoReg}) /\ Len(own) = Len(g.own)
      /\ g.own # <<>> /\ Last(g.own) = NoReg => Last(own) = NoReg
  BY <1>2, OwnAfterTyped
<1>5. used \in SUBSET Regs
  <2>1. used = OwnedBy(own) \cup (held \cup {got})
    BY <1>3 DEF Tracked
  <2>2. OwnedBy(own) \subseteq Regs
    BY <1>4, OwnersAre
  <2> QED
    BY <1>3, <2>1, <2>2
<1>6. /\ spills \in SUBSET Nat
      /\ \A i \in spills : i \in g.spills \/ i \in Owners(g.own)
  <2>1. Owners(g.own) \subseteq Nat
    BY <1>2, OwnersAre
  <2> QED
    BY <1>2, <2>1 DEF Spilled, Slot
<1>7. a = [g EXCEPT !.got = got, !.used = used, !.own = own,
                    !.mem = SpillStores(g), !.spills = spills]
  BY <1>1 DEF AllocateRegister
<1> HIDE DEF got, used, own, spills
<1>8. /\ a.got = got /\ a.used = used /\ a.own = own /\ a.spills = spills
      /\ a.fault = g.fault /\ a.left = g.left
      /\ a = [arch |-> a.arch, used |-> a.used, own |-> a.own, got |-> a.got,
              spills |-> a.spills, fault |-> a.fault, regs |-> a.regs,
              carry |-> a.carry, left |-> a.left, mem |-> a.mem]
  BY <1>7 DEF IsCompiler, Compilers
<1>9. g.fault \in BOOLEAN /\ g.left \in BOOLEAN
  BY DEF IsCompiler, Compilers
<1>10. IsCompiler(a)
  BY <1>3, <1>4, <1>5, <1>6, <1>8, <1>9 DEF IsCompiler, Compilers
<1> QED
  BY <1>3, <1>4, <1>6, <1>8, <1>10

(* It fails only if there is no register at all to take.                    *)
LEMMA AllocateSucceeds ==
  ASSUME NEW g, IsCompiler(g), ~g.fault, NEW held \in SUBSET Regs, held # Regs,
         Tracked(g.used, g.own, held)
  PROVE  ~AllocateRegister(g).fault
<1>1. CanAllocate(g.used, g.own)
  <2>1. CASE Free(g.used) # {}
    BY <2>1 DEF CanAllocate
  <2>2. CASE Free(g.used) = {}
    <3>1. PICK r \in Regs : r \notin held
      OBVIOUS
    <3>2. r \in OwnedBy(g.own)
      BY <2>2, <3>1 DEF Free, Tracked
    <3> QED
      BY <3>2 DEF CanAllocate, OwnedBy
  <2> QED
    BY <2>1, <2>2
<1> QED
  BY <1>1 DEF AllocateRegister, IsCompiler, Compilers


-----------------------------------------------------------------------------
(* A compiler that went wrong stays so until the instruction is over.       *)
Faulty(g) ==
  g \in [arch : {g.arch}, used : {g.used}, own : {g.own}, got : {g.got},
         spills : {g.spills}, fault : {TRUE}, regs : {g.regs},
         carry : {g.carry}, left : {g.left}, mem : {g.mem}]

(* Throwing makes a compiler faulty.                                        *)
LEMMA FaultIsFaulty ==
  ASSUME NEW g, IsCompiler(g) PROVE Faulty(Fault(g)) /\ (g.fault => Faulty(g))
<1>1. Faulty(Fault(g))
  BY DEF Fault, IsCompiler, Compilers, Faulty
<1>2. g.fault => Faulty(g)
  BY DEF IsCompiler, Compilers, Faulty
<1> QED
  BY <1>1, <1>2

(* No helper forgets a fault.                                               *)
LEMMA FaultStays ==
  ASSUME NEW g, Faulty(g), NEW r, NEW w
  PROVE  /\ Faulty(SetTop(g)) /\ Faulty(AllocateRegister(g))
         /\ Faulty(Write(g, r, w))
<1>1. Faulty(SetTop(g))
  BY DEF SetTop, Fault, Faulty
<1>2. Faulty(AllocateRegister(g))
  <2>1. CASE ~CanAllocate(g.used, g.own)
    BY <2>1 DEF AllocateRegister, Fault, Faulty
  <2>2. CASE CanAllocate(g.used, g.own)
    <3>1. PICK got, used, own, mem, spills :
            AllocateRegister(g) =
              [g EXCEPT !.got = got, !.used = used, !.own = own, !.mem = mem,
                        !.spills = spills]
      BY <2>2 DEF AllocateRegister
    <3> QED
      BY <3>1 DEF Faulty
  <2> QED
    BY <2>1, <2>2
<1>3. Faulty(Write(g, r, w))
  BY DEF Write, Faulty
<1> QED
  BY <1>1, <1>2, <1>3

(* Neither does bringing a value into a register.                           *)
LEMMA EnsureFaulty ==
  ASSUME NEW g, Faulty(g), NEW r, NEW o
  PROVE  Faulty(EnsureInRegister(g, r, o))
<1>1. CASE r # NoReg
  BY <1>1 DEF EnsureInRegister, Faulty
<1>2. CASE r = NoReg
  <2>1. PICK a : a = AllocateRegister(g)
    OBVIOUS
  <2>2. EnsureInRegister(g, r, o) = Write(a, a.got, a.mem[o])
    BY <1>2, <2>1 DEF EnsureInRegister
  <2> QED
    BY <2>1, <2>2, FaultStays
<1> QED
  BY <1>1, <1>2

(* The compiler between two steps of an instruction: n values on the stack, *)
(* the registers in held belong to the instruction, and nothing was spilled *)
(* to the topmost of the slots the validator counted.                       *)
SpillsBelow(g) == \A i \in g.spills : 1 =< i /\ i < val.maxStack

Holds(g, held, n) ==
  /\ IsCompiler(g) /\ ~g.fault /\ held \in SUBSET Regs
  /\ Tracked(g.used, g.own, held)
  /\ Len(g.own) = n /\ n =< val.maxStack
  /\ SpillsBelow(g)

(* What holds of a compiler holds when only the machine changed.            *)
LEMMA SameHolds ==
  ASSUME NEW g, NEW held, NEW n, Holds(g, held, n), NEW k, SameCompiler(g, k)
  PROVE  Holds(k, held, n)
  BY DEF Holds, SameCompiler, SpillsBelow

(* In particular when a register was written.                               *)
LEMMA WriteHolds ==
  ASSUME NEW g, NEW held, NEW n, Holds(g, held, n), NEW r, NEW w
  PROVE  Holds(Write(g, r, w), held, n)
<1>1. SameCompiler(g, Write(g, r, w))
  BY WriteKeeps DEF Holds
<1> QED
  BY <1>1, SameHolds

(* A value is pushed, or the stack has outgrown what was validated.         *)
LEMMA PushHolds ==
  ASSUME NEW g, NEW n, Holds(g, {}, n), NEW p, p = PushValue(g),
         val.maxStack \in Nat
  PROVE  /\ n < val.maxStack => /\ Holds(p, {}, n + 1)
                                /\ p.own # <<>> /\ Last(p.own) = NoReg
         /\ ~(n < val.maxStack) => Faulty(p)
<1>1. IsCompiler(g) /\ Len(g.own) = n /\ g.own \in Seq(Regs \cup {NoReg})
  BY DEF Holds, IsCompiler, Compilers
<1>2. CASE ~(n < val.maxStack)
  BY <1>1, <1>2, FaultIsFaulty DEF PushValue
<1>3. CASE n < val.maxStack
  <2> DEFINE own == Append(g.own, NoReg)
  <2>1. p = [g EXCEPT !.own = own]
    BY <1>1, <1>3 DEF PushValue
  <2>2. /\ own \in Seq(Regs \cup {NoReg}) /\ Len(own) = n + 1
        /\ own # <<>> /\ Last(own) = NoReg /\ n \in Nat
    <3>1. /\ own \in Seq(Regs \cup {NoReg}) /\ Len(own) = n + 1 /\ n \in Nat
          /\ own[n + 1] = NoReg
      BY <1>1
    <3>2. own # <<>>
      BY <3>1
    <3> QED
      BY <3>1, <3>2 DEF Last
  <2>3. Tracked(g.used, own, {})
    BY <1>1, PushTracked DEF Holds
  <2> HIDE DEF own
  <2>4. IsCompiler(p) /\ p.own = own /\ p.used = g.used
        /\ p.spills = g.spills /\ p.fault = g.fault
    BY <1>1, <2>1, <2>2 DEF IsCompiler, Compilers
  <2> QED
    BY <1>3, <2>2, <2>3, <2>4 DEF Holds, SpillsBelow
<1> QED
  BY <1>2, <1>3


(* Taking a register for a value that has none.                             *)
LEMMA AllocateHolds ==
  ASSUME NEW g, NEW held, NEW n, Holds(g, held, n),
         NEW a, a = AllocateRegister(g),
         \A i \in Owners(g.own) : i < val.maxStack
  PROVE  /\ \/ Faulty(a)
            \/ /\ Holds(a, held \cup {a.got}, n) /\ a.got \in Regs \ held
               /\ g.own # <<>> /\ Last(g.own) = NoReg => Last(a.own) = NoReg
         /\ held # Regs => ~a.fault
<1>1. IsCompiler(g) /\ ~g.fault /\ held \in SUBSET Regs
      /\ Tracked(g.used, g.own, held) /\ g.own \in Seq(Regs \cup {NoReg})
  BY DEF Holds, IsCompiler, Compilers
<1>2. held # Regs => ~a.fault
  BY <1>1, AllocateSucceeds
<1>3. CASE ~a.fault
  <2>1. /\ IsCompiler(a) /\ a.got \in Regs \ held
        /\ Tracked(a.used, a.own, held \cup {a.got})
        /\ Len(a.own) = Len(g.own)
        /\ g.own # <<>> /\ Last(g.own) = NoReg => Last(a.own) = NoReg
        /\ \A i \in a.spills : i \in g.spills \/ i \in Owners(g.own)
    BY <1>1, <1>3, AllocateKeeps
  <2>2. SpillsBelow(a)
    <3>1. \A i \in Owners(g.own) : 1 =< i /\ i < val.maxStack
      BY <1>1, OwnersAre
    <3> QED
      BY <2>1, <3>1 DEF SpillsBelow, Holds
  <2> QED
    BY <1>1, <1>2, <1>3, <2>1, <2>2 DEF Holds
<1>4. CASE a.fault
  <2>1. ~CanAllocate(g.used, g.own)
    BY <1>1, <1>4 DEF AllocateRegister, IsCompiler, Compilers
  <2>2. a = Fault(g)
    BY <2>1 DEF AllocateRegister
  <2> QED
    BY <1>1, <1>2, <2>2, FaultIsFaulty
<1> QED
  BY <1>3, <1>4

(* An operand is popped and put in a register, which is its own now.        *)
LEMMA PopHolds ==
  ASSUME NEW g, NEW n, Holds(g, {}, n), val.maxStack \in Nat, NEW o,
         NEW x, x = EnsureInRegister(PopValue(g), TopReg(g), o)
  PROVE  /\ \/ Faulty(x)
            \/ /\ n >= 1 /\ x.got \in Regs
               /\ Holds(x, {x.got}, n - 1)
         /\ n >= 1 /\ Regs # {} => ~Faulty(x)
<1>1. IsCompiler(g) /\ ~g.fault /\ Len(g.own) = n /\ n =< val.maxStack
      /\ g.own \in Seq(Regs \cup {NoReg}) /\ Tracked(g.used, g.own, {})
      /\ SpillsBelow(g) /\ n \in Nat
  BY DEF Holds, IsCompiler, Compilers
<1>2. CASE g.own = <<>>
  <2>1. Faulty(PopValue(g)) /\ n = 0
    BY <1>1, <1>2, FaultIsFaulty DEF PopValue
  <2> QED
    BY <2>1, EnsureFaulty
<1>3. CASE g.own # <<>>
  <2> DEFINE own == Front(g.own)
             r == Last(g.own)
  <2>1. own \in Seq(Regs \cup {NoReg}) /\ Len(own) = n - 1 /\ n >= 1
        /\ TopReg(g) = r
    BY <1>1, <1>3, FrontOf DEF TopReg
  <2>2. /\ r = NoReg => Tracked(g.used, own, {})
        /\ r # NoReg => r \in Regs /\ Tracked(g.used, own, {r})
    <3>1. r # NoReg => r \in Regs \ {} /\ Tracked(g.used, own, {} \cup {r})
      BY <1>1, <1>3, PopTracked
    <3> QED
      BY <1>1, <1>3, <3>1, PopTracked
  <2>3. PICK p : p = PopValue(g)
    OBVIOUS
  <2>4. p = [g EXCEPT !.own = own]
    BY <1>3, <2>3 DEF PopValue
  <2> HIDE DEF own, r
  <2>5. IsCompiler(p) /\ p.own = own /\ p.used = g.used /\ ~p.fault
        /\ p.spills = g.spills
    BY <1>1, <2>1, <2>4 DEF IsCompiler, Compilers
  <2>6. CASE r # NoReg
    <3>1. x = [p EXCEPT !.got = r]
      BY <2>1, <2>3, <2>6 DEF EnsureInRegister
    <3>2. IsCompiler(x) /\ x.own = own /\ x.used = g.used /\ ~x.fault
          /\ x.spills = g.spills /\ x.got = r
      BY <2>2, <2>5, <2>6, <3>1 DEF IsCompiler, Compilers
    <3>3. Holds(x, {x.got}, n - 1)
      <4>1. Tracked(x.used, x.own, {x.got}) /\ {x.got} \in SUBSET Regs
        BY <2>2, <2>6, <3>2
      <4>2. SpillsBelow(x)
        BY <1>1, <3>2 DEF SpillsBelow
      <4>3. Len(x.own) = n - 1 /\ n - 1 =< val.maxStack
        BY <1>1, <2>1, <3>2
      <4> QED
        BY <3>2, <4>1, <4>2, <4>3 DEF Holds
    <3>4. ~Faulty(x)
      BY <3>2 DEF Faulty
    <3> QED
      BY <2>1, <2>2, <2>6, <3>2, <3>3, <3>4
  <2>7. CASE r = NoReg
    <3>1. Holds(p, {}, n - 1)
      BY <1>1, <2>1, <2>2, <2>5, <2>7 DEF Holds, SpillsBelow
    <3>2. PICK a : a = AllocateRegister(p)
      OBVIOUS
    <3>3. x = Write(a, a.got, a.mem[o])
      BY <2>1, <2>3, <2>7, <3>2 DEF EnsureInRegister
    <3>4. \A i \in Owners(p.own) : i < val.maxStack
      BY <1>1, <2>1, <2>5, OwnersAre
    <3>5. /\ \/ Faulty(a)
             \/ Holds(a, {} \cup {a.got}, n - 1) /\ a.got \in Regs \ {}
          /\ {} # Regs => ~a.fault
      BY <3>1, <3>2, <3>4, AllocateHolds
    <3>6. Faulty(a) => Faulty(x) /\ a.fault
      <4>1. Faulty(a) => a.fault
        BY DEF Faulty
      <4>2. Faulty(a) => Faulty(x)
        BY <3>3, FaultStays
      <4> QED
        BY <4>1, <4>2
    <3>7. ASSUME Holds(a, {a.got}, n - 1), a.got \in Regs
          PROVE  Holds(x, {x.got}, n - 1) /\ x.got \in Regs /\ ~Faulty(x)
      <4>1. SameCompiler(a, x)
        BY <3>3, <3>7, WriteKeeps DEF Holds
      <4>2. x.got = a.got /\ x.fault = a.fault
        BY <4>1 DEF SameCompiler
      <4>3. Holds(x, {a.got}, n - 1)
        BY <3>7, <4>1, SameHolds
      <4>4. ~Faulty(x)
        BY <3>7, <4>2 DEF Holds, Faulty
      <4> QED
        BY <3>7, <4>2, <4>3, <4>4
    <3> QED
      BY <2>1, <3>5, <3>6, <3>7
  <2> QED
    BY <2>6, <2>7
<1> QED
  BY <1>2, <1>3


(* The top value is given the register that was taken for it.               *)
LEMMA SetHolds ==
  ASSUME NEW a, NEW held \in SUBSET Regs, NEW n, Holds(a, held \cup {a.got}, n),
         a.own # <<>>, Last(a.own) = NoReg, a.got \in Regs \ held,
         NEW s, s = SetTop(a)
  PROVE  Holds(s, held, n) /\ s.got = a.got
<1>1. IsCompiler(a) /\ ~a.fault /\ Len(a.own) = n /\ n =< val.maxStack
      /\ a.own \in Seq(Regs \cup {NoReg}) /\ SpillsBelow(a)
      /\ Tracked(a.used, a.own, held \cup {a.got})
  BY DEF Holds, IsCompiler, Compilers
<1> DEFINE own == Append(Front(a.own), a.got)
<1>2. own \in Seq(Regs \cup {NoReg}) /\ Len(own) = n
  <2>1. a.got \in Regs \cup {NoReg}
    OBVIOUS
  <2> QED
    BY <1>1, <2>1, ReplaceLast
<1>3. Tracked(a.used, own, held)
  BY <1>1, SetTracked
<1>4. s = [a EXCEPT !.own = own]
  BY DEF SetTop
<1> HIDE DEF own
<1>5. IsCompiler(s) /\ s.own = own /\ s.used = a.used /\ ~s.fault
      /\ s.spills = a.spills /\ s.got = a.got
  BY <1>1, <1>2, <1>4 DEF IsCompiler, Compilers
<1> QED
  BY <1>1, <1>2, <1>3, <1>5 DEF Holds, SpillsBelow

(* A register is taken for a value that was just pushed.                    *)
LEMMA PushAllocates ==
  ASSUME NEW g, NEW held, NEW n, Holds(g, held, n), g.own # <<>>,
         Last(g.own) = NoReg, val.maxStack \in Nat,
         NEW a, a = AllocateRegister(g)
  PROVE  /\ \/ Faulty(a)
            \/ /\ Holds(a, held \cup {a.got}, n) /\ a.got \in Regs \ held
               /\ a.own # <<>> /\ Last(a.own) = NoReg
         /\ held # Regs => ~Faulty(a)
<1>1. /\ g.own \in Seq(Regs \cup {NoReg}) /\ Len(g.own) = n
      /\ n =< val.maxStack /\ n \in Nat
  BY DEF Holds, IsCompiler, Compilers
<1>2. \A i \in Owners(g.own) : i < val.maxStack
  <2>1. n \notin Owners(g.own)
    BY <1>1 DEF Owners, Last
  <2>2. \A i \in Owners(g.own) : i \in Nat /\ i =< n
    BY <1>1, OwnersAre
  <2> QED
    BY <1>1, <2>1, <2>2
<1>3. /\ \/ Faulty(a)
         \/ /\ Holds(a, held \cup {a.got}, n) /\ a.got \in Regs \ held
            /\ Last(a.own) = NoReg
      /\ held # Regs => ~a.fault
  BY <1>2, AllocateHolds
<1>4. Holds(a, held \cup {a.got}, n) => a.own # <<>>
  <2> HAVE Holds(a, held \cup {a.got}, n)
  <2>1. Len(a.own) = n /\ n # 0
    <3>1. n # 0
      BY <1>1, EmptySeq
    <3> QED
      BY <3>1 DEF Holds
  <2> QED
    BY <2>1
<1>5. Faulty(a) => a.fault
  BY DEF Faulty
<1> QED
  BY <1>3, <1>4, <1>5

(* The top value is brought into a register and keeps it.                   *)
LEMMA TopHolds ==
  ASSUME NEW g, NEW held, NEW n, Holds(g, held, n), val.maxStack \in Nat, NEW o,
         NEW x, x = SetTop(EnsureInRegister(g, TopReg(g), o))
  PROVE  /\ \/ Faulty(x)
            \/ n >= 1 /\ Holds(x, held, n) /\ x.got \in Regs \ held
         /\ n >= 1 /\ held # Regs => ~Faulty(x)
<1>1. IsCompiler(g) /\ ~g.fault /\ Len(g.own) = n /\ n =< val.maxStack
      /\ g.own \in Seq(Regs \cup {NoReg}) /\ Tracked(g.used, g.own, held)
      /\ SpillsBelow(g) /\ n \in Nat /\ held \in SUBSET Regs
  BY DEF Holds, IsCompiler, Compilers
<1>2. PICK e : e = EnsureInRegister(g, TopReg(g), o)
  OBVIOUS
<1>3. x = SetTop(e)
  BY <1>2
<1>4. CASE TopReg(g) # NoReg
  <2>1. e = [g EXCEPT !.got = TopReg(g)]
    BY <1>2, <1>4 DEF EnsureInRegister
  <2>2. g.own # <<>> /\ TopReg(g) = Last(g.own) /\ Last(g.own) # NoReg
    BY <1>4 DEF TopReg
  <2>3. Last(g.own) \in Regs \ held
    BY <1>1, <2>2, PopTracked
  <2>4. Append(Front(g.own), Last(g.own)) = g.own /\ n >= 1
    BY <1>1, <2>2, <2>3, EmptySeq, ReplaceLast
  <2> DEFINE r == Last(g.own)
  <2>5. IsCompiler(e) /\ e.own = g.own /\ e.used = g.used /\ ~e.fault
        /\ e.spills = g.spills /\ e.got = r
    BY <1>1, <2>1, <2>2, <2>3 DEF IsCompiler, Compilers
  <2>6. x = [e EXCEPT !.own = Append(Front(e.own), e.got)]
    BY <1>3, <2>2, <2>5 DEF SetTop
  <2>7. x = [e EXCEPT !.own = g.own]
    BY <2>4, <2>5, <2>6
  <2> HIDE DEF r
  <2>8. IsCompiler(x) /\ x.own = g.own /\ x.used = g.used /\ ~x.fault
        /\ x.spills = g.spills /\ x.got = r
    BY <1>1, <2>5, <2>7 DEF IsCompiler, Compilers
  <2>9. Holds(x, held, n)
    BY <1>1, <2>8 DEF Holds, SpillsBelow
  <2>10. ~Faulty(x)
    BY <2>8 DEF Faulty
  <2> QED
    BY <2>3, <2>4, <2>8, <2>9, <2>10 DEF r
<1>5. CASE g.own = <<>>
  <2>1. n = 0 /\ TopReg(g) = NoReg
    BY <1>1, <1>5 DEF TopReg
  <2>2. PICK a : a = AllocateRegister(g)
    OBVIOUS
  <2>3. e = Write(a, a.got, a.mem[o])
    BY <1>2, <2>1, <2>2 DEF EnsureInRegister
  <2>4. \A i \in Owners(g.own) : i < val.maxStack
    BY <1>5 DEF Owners
  <2>5. Faulty(a) \/ Holds(a, held \cup {a.got}, n)
    BY <2>2, <2>4, AllocateHolds
  <2>6. Faulty(e) \/ Holds(e, held \cup {a.got}, n)
    BY <2>3, <2>5, FaultStays, WriteHolds
  <2>7. Holds(e, held \cup {a.got}, n) => e.own = <<>> /\ IsCompiler(e)
    <3> HAVE Holds(e, held \cup {a.got}, n)
    <3>1. e.own \in Seq(Regs \cup {NoReg}) /\ Len(e.own) = 0 /\ IsCompiler(e)
      BY <2>1 DEF Holds, IsCompiler, Compilers
    <3> QED
      BY <3>1
  <2>8. Faulty(x)
    BY <1>3, <2>6, <2>7, FaultStays, FaultIsFaulty DEF SetTop
  <2> QED
    BY <2>1, <2>8
<1>6. CASE TopReg(g) = NoReg /\ g.own # <<>>
  <2>1. Last(g.own) = NoReg
    BY <1>6 DEF TopReg
  <2>2. PICK a : a = AllocateRegister(g)
    OBVIOUS
  <2>3. e = Write(a, a.got, a.mem[o])
    BY <1>2, <1>6, <2>2 DEF EnsureInRegister
  <2>4. /\ \/ Faulty(a)
           \/ /\ Holds(a, held \cup {a.got}, n) /\ a.got \in Regs \ held
              /\ a.own # <<>> /\ Last(a.own) = NoReg
        /\ held # Regs => ~Faulty(a)
    BY <1>6, <2>1, <2>2, PushAllocates
  <2>5. CASE Faulty(a)
    <3>1. Faulty(x)
      BY <1>3, <2>3, <2>5, FaultStays
    <3> QED
      BY <2>4, <2>5, <3>1
  <2>6. CASE ~Faulty(a)
    <3>1. SameCompiler(a, e)
      BY <2>3, <2>4, <2>6, WriteKeeps DEF Holds
    <3>2. e.got = a.got /\ e.own = a.own
      BY <3>1 DEF SameCompiler
    <3>3. Holds(e, held \cup {e.got}, n)
      BY <2>4, <2>6, <3>1, <3>2, SameHolds
    <3>4. Holds(x, held, n) /\ x.got = e.got
      BY <1>1, <1>3, <2>4, <2>6, <3>2, <3>3, SetHolds
    <3>5. ~Faulty(x)
      BY <3>4 DEF Holds, Faulty
    <3>6. n >= 1
      BY <1>1, <1>6, EmptySeq
    <3> QED
      BY <2>4, <2>6, <3>2, <3>4, <3>5, <3>6
  <2> QED
    BY <2>5, <2>6
<1> QED
  BY <1>4, <1>5, <1>6


-----------------------------------------------------------------------------
(* One lemma per instruction: what it needs and leaves on the stack, and    *)
(* that with two registers it cannot go wrong if its operands are there.    *)
TwoRegs == \E r, s \in Regs : r # s

Compiles(g, n, k, m) ==
  /\ Faulty(k) \/ Holds(k, {}, m)
  /\ TwoRegs /\ m =< val.maxStack => ~Faulty(k)

(* i32.const takes a register for a new value.                              *)
LEMMA ConstHolds ==
  ASSUME NEW g, NEW n, Holds(g, {}, n), val.maxStack \in Nat, NEW c,
         NEW k, k = ConstI32(g, c)
  PROVE  Compiles(g, n, k, n + 1)
<1>1. PICK p : p = PushValue(g)
  OBVIOUS
<1>2. PICK a : a = SetTop(EnsureInRegister(p, TopReg(p), Slot(Len(p.own))))
  OBVIOUS
<1>3. k = Write(a, a.got, c)
  BY <1>1, <1>2 DEF ConstI32
<1>4. n \in Nat
  BY DEF Holds, IsCompiler, Compilers
<1>5. CASE ~(n < val.maxStack)
  <2>1. Faulty(p)
    BY <1>1, <1>5, PushHolds
  <2>2. Faulty(k)
    BY <1>2, <1>3, <2>1, EnsureFaulty, FaultStays
  <2> QED
    BY <1>4, <1>5, <2>2 DEF Compiles
<1>6. CASE n < val.maxStack
  <2>1. Holds(p, {}, n + 1)
    BY <1>1, <1>6, PushHolds
  <2>2. /\ Faulty(a) \/ Holds(a, {}, n + 1)
        /\ n + 1 >= 1 /\ {} # Regs => ~Faulty(a)
    BY <1>2, <2>1, TopHolds
  <2>3. Holds(a, {}, n + 1) => Holds(k, {}, n + 1)
    BY <1>3, WriteHolds
  <2>4. Faulty(a) => Faulty(k)
    BY <1>3, FaultStays
  <2>5. Holds(k, {}, n + 1) => ~Faulty(k)
    BY DEF Holds, Faulty
  <2>6. TwoRegs => {} # Regs
    BY DEF TwoRegs
  <2> QED
    BY <1>4, <2>2, <2>3, <2>4, <2>5, <2>6 DEF Compiles
<1> QED
  BY <1>5, <1>6

(* local.get does too, and loads it from the frame.                         *)
LEMMA GetHolds ==
  ASSUME NEW g, NEW n, Holds(g, {}, n), val.maxStack \in Nat, NEW i,
         NEW k, k = GetLocalI32(g, i)
  PROVE  Compiles(g, n, k, n + 1)
<1>1. PICK p : p = PushValue(g)
  OBVIOUS
<1>2. PICK e : e = AllocateRegister(p)
  OBVIOUS
<1>3. PICK a : a = SetTop(e)
  OBVIOUS
<1>4. k = Write(a, a.got, a.mem[Word(LocalStackOffset(i))])
  BY <1>1, <1>2, <1>3 DEF GetLocalI32
<1>5. n \in Nat
  BY DEF Holds, IsCompiler, Compilers
<1>6. CASE ~(n < val.maxStack)
  <2>1. Faulty(p)
    BY <1>1, <1>6, PushHolds
  <2>2. Faulty(k)
    BY <1>2, <1>3, <1>4, <2>1, FaultStays
  <2> QED
    BY <1>5, <1>6, <2>2 DEF Compiles
<1>7. CASE n < val.maxStack
  <2>1. Holds(p, {}, n + 1) /\ p.own # <<>> /\ Last(p.own) = NoReg
    BY <1>1, <1>7, PushHolds
  <2>2. /\ \/ Faulty(e)
           \/ /\ Holds(e, {} \cup {e.got}, n + 1) /\ e.got \in Regs \ {}
              /\ e.own # <<>> /\ Last(e.own) = NoReg
        /\ {} # Regs => ~Faulty(e)
    BY <1>2, <2>1, PushAllocates
  <2>3. Faulty(e) => Faulty(k)
    BY <1>3, <1>4, FaultStays
  <2>4. ~Faulty(e) => Holds(k, {}, n + 1)
    <3> HAVE ~Faulty(e)
    <3>1. Holds(a, {}, n + 1)
      BY <1>3, <2>2, SetHolds
    <3> QED
      BY <1>4, <3>1, WriteHolds
  <2>5. Holds(k, {}, n + 1) => ~Faulty(k)
    BY DEF Holds, Faulty
  <2>6. TwoRegs => {} # Regs
    BY DEF TwoRegs
  <2> QED
    BY <1>5, <2>2, <2>3, <2>4, <2>5, <2>6 DEF Compiles
<1> QED
  BY <1>6, <1>7

(* A register given back is free for the next instruction.                  *)
LEMMA MarkHolds ==
  ASSUME NEW g, NEW n, NEW r, Holds(g, {r}, n)
  PROVE  Holds(MarkRegisterUnused(g, r), {}, n)
<1>1. IsCompiler(g) /\ ~g.fault /\ Tracked(g.used, g.own, {r})
      /\ Len(g.own) = n /\ n =< val.maxStack /\ SpillsBelow(g)
  BY DEF Holds
<1>2. Tracked(g.used \ {r}, g.own, {})
  BY <1>1 DEF Tracked
<1>3. PICK k : k = MarkRegisterUnused(g, r)
  OBVIOUS
<1>4. k = [g EXCEPT !.used = @ \ {r}]
  BY <1>3 DEF MarkRegisterUnused
<1>5. IsCompiler(k) /\ k.used = g.used \ {r} /\ k.own = g.own /\ ~k.fault
      /\ k.spills = g.spills
  BY <1>1, <1>4 DEF IsCompiler, Compilers
<1>6. Holds(k, {}, n)
  BY <1>1, <1>2, <1>5 DEF Holds, SpillsBelow
<1> QED
  BY <1>3, <1>6

(* The addition itself changes registers and the carry only.                *)
LEMMA AddKeeps ==
  ASSUME NEW g, IsCompiler(g), NEW r1, NEW r2
  PROVE  SameCompiler(g, AddCode(g, r1, r2))
<1> DEFINE c == IF g.arch = "x64" THEN g.carry ELSE 0
<1>1. PICK w : w = Write(g, r1, Sum(g.regs[r1], g.regs[r2], c))
  OBVIOUS
<1>2. SameCompiler(g, w)
  BY <1>1, WriteKeeps
<1>3. PICK y : y = CarryOf(g.regs[r1], g.regs[r2], c)
  OBVIOUS
<1>4. AddCode(g, r1, r2) \in {w, [w EXCEPT !.carry = y]}
  BY <1>1, <1>3 DEF AddCode
<1>5. SameCompiler(g, [w EXCEPT !.carry = y])
  BY <1>2 DEF SameCompiler, IsCompiler, Compilers
<1> QED
  BY <1>2, <1>4, <1>5

(* i32.add pops one operand, works in the other's register, frees its       *)
(* own.                                                                     *)
LEMMA AddHolds ==
  ASSUME NEW g, NEW n, Holds(g, {}, n), val.maxStack \in Nat,
         NEW k, k = AddI32(g)
  PROVE  /\ Faulty(k) \/ Holds(k, {}, n - 1)
         /\ TwoRegs /\ n >= 2 => ~Faulty(k)
<1>1. PICK x2 : x2 = EnsureInRegister(PopValue(g), TopReg(g), Slot(Len(g.own)))
  OBVIOUS
<1>2. PICK x1 : x1 = SetTop(EnsureInRegister(x2, TopReg(x2), Slot(Len(x2.own))))
  OBVIOUS
<1>3. k = IF x2.fault \/ x1.fault THEN Fault(g)
          ELSE MarkRegisterUnused(AddCode(x1, x1.got, x2.got), x2.got)
  BY <1>1, <1>2 DEF AddI32
<1>4. n \in Nat /\ IsCompiler(g)
  BY DEF Holds, IsCompiler, Compilers
<1>5. /\ \/ Faulty(x2)
         \/ n >= 1 /\ x2.got \in Regs /\ Holds(x2, {x2.got}, n - 1)
      /\ n >= 1 /\ Regs # {} => ~Faulty(x2)
  BY <1>1, PopHolds
<1>6. CASE Faulty(x2)
  <2>1. x2.fault
    BY <1>6 DEF Faulty
  <2>2. Faulty(k)
    BY <1>3, <1>4, <2>1, FaultIsFaulty
  <2>3. ~(n >= 1 /\ Regs # {})
    BY <1>5, <1>6
  <2> QED
    BY <1>4, <2>2, <2>3 DEF TwoRegs
<1>7. CASE ~Faulty(x2)
  <2>1. n >= 1 /\ x2.got \in Regs /\ Holds(x2, {x2.got}, n - 1) /\ ~x2.fault
    BY <1>5, <1>7 DEF Holds
  <2>2. /\ Faulty(x1) \/ Holds(x1, {x2.got}, n - 1)
        /\ n - 1 >= 1 /\ {x2.got} # Regs => ~Faulty(x1)
    BY <1>2, <2>1, TopHolds
  <2>3. TwoRegs => {x2.got} # Regs
    BY DEF TwoRegs
  <2>4. CASE Faulty(x1)
    <3>1. x1.fault
      BY <2>4 DEF Faulty
    <3>2. Faulty(k)
      BY <1>3, <1>4, <3>1, FaultIsFaulty
    <3> QED
      BY <1>4, <2>2, <2>3, <2>4, <3>2
  <2>5. CASE ~Faulty(x1)
    <3>1. Holds(x1, {x2.got}, n - 1) /\ ~x1.fault /\ IsCompiler(x1)
      BY <2>2, <2>5 DEF Holds
    <3>2. k = MarkRegisterUnused(AddCode(x1, x1.got, x2.got), x2.got)
      BY <1>3, <2>1, <3>1
    <3>3. Holds(AddCode(x1, x1.got, x2.got), {x2.got}, n - 1)
      BY <3>1, AddKeeps, SameHolds
    <3>4. Holds(k, {}, n - 1)
      BY <3>2, <3>3, MarkHolds
    <3> QED
      BY <3>4 DEF Holds, Faulty
  <2> QED
    BY <2>4, <2>5
<1> QED
  BY <1>6, <1>7


(* Storing a local changes the frame or a register only.                    *)
LEMMA StoreLocalKeeps ==
  ASSUME NEW g, IsCompiler(g), NEW r, NEW o
  PROVE  SameCompiler(g, StoreLocal(g, r, o))
<1>1. SameCompiler(g, StoreLocalX64(g, r, o))
  <2>1. PICK s : s = Store(g, o, g.regs[r])
    OBVIOUS
  <2>2. SameCompiler(g, s)
    BY <2>1, StoreKeeps
  <2>3. SameCompiler(s, Store(s, o + 1, 0))
    BY <2>2, StoreKeeps DEF SameCompiler
  <2> QED
    BY <2>1, <2>2, <2>3 DEF StoreLocalX64, SameCompiler
<1>2. SameCompiler(g, StoreLocalArm64(g, r, o))
  BY WriteKeeps DEF StoreLocalArm64
<1> QED
  BY <1>1, <1>2 DEF StoreLocal

(* local.set pops its operand, stores it and frees its register.            *)
LEMMA SetLocalHolds ==
  ASSUME NEW g, NEW n, Holds(g, {}, n), val.maxStack \in Nat, NEW i,
         NEW k, k = SetLocalI32(g, i)
  PROVE  /\ Faulty(k) \/ Holds(k, {}, n - 1)
         /\ TwoRegs /\ n >= 1 => ~Faulty(k)
<1>1. PICK v : v = EnsureInRegister(PopValue(g), TopReg(g), Slot(Len(g.own)))
  OBVIOUS
<1>2. PICK o : o = Word(LocalStackOffset(i))
  OBVIOUS
<1>3. k = IF v.fault THEN v
          ELSE MarkRegisterUnused(StoreLocal(v, v.got, o), v.got)
  BY <1>1, <1>2 DEF SetLocalI32
<1>4. /\ \/ Faulty(v)
         \/ n >= 1 /\ v.got \in Regs /\ Holds(v, {v.got}, n - 1)
      /\ n >= 1 /\ Regs # {} => ~Faulty(v)
  BY <1>1, PopHolds
<1>5. CASE Faulty(v)
  <2>1. v.fault
    BY <1>5 DEF Faulty
  <2> QED
    BY <1>3, <1>4, <1>5, <2>1 DEF TwoRegs
<1>6. CASE ~Faulty(v)
  <2>1. Holds(v, {v.got}, n - 1) /\ ~v.fault /\ IsCompiler(v)
    BY <1>4, <1>6 DEF Holds
  <2>2. Holds(StoreLocal(v, v.got, o), {v.got}, n - 1)
    BY <2>1, StoreLocalKeeps, SameHolds
  <2>3. Holds(k, {}, n - 1)
    BY <1>3, <2>1, <2>2, MarkHolds
  <2> QED
    BY <2>3 DEF Holds, Faulty
<1> QED
  BY <1>5, <1>6

(* return notes that the code leaves here.                                  *)
LEMMA ReturnHolds ==
  ASSUME NEW g, NEW n, Holds(g, {}, n)
  PROVE  Holds(Return(g), {}, n)
  BY DEF Return, Holds, IsCompiler, Compilers, SpillsBelow

(* What the compiler's stack is after an instruction; return leaves it.     *)
After(ins, n) == IF ins.op = "return" THEN n
                 ELSE n - Needs[ins.op] + Leaves[ins.op]

(* Every instruction.                                                       *)
LEMMA CompileHolds ==
  ASSUME NEW g, NEW n, Holds(g, {}, n), val.maxStack \in Nat,
         NEW ins \in Instructions, NEW k, k = Compile(g, ins)
  PROVE  /\ Faulty(k) \/ Holds(k, {}, After(ins, n))
         /\ TwoRegs /\ Needs[ins.op] =< n /\ After(ins, n) =< val.maxStack =>
              ~Faulty(k)
<1>1. ins.op \in {"const", "add", "get", "set", "return", "label"}
  BY ArchAssumption DEF Instructions
<1>2. n \in Nat
  BY DEF Holds, IsCompiler, Compilers
<1>3. Holds(g, {}, n) => ~Faulty(g)
  BY DEF Holds, Faulty
<1>4. CASE ins.op = "const"
  <2>1. k = ConstI32(g, ins.arg)
    BY <1>4 DEF Compile
  <2>2. After(ins, n) = n + 1
    BY <1>2, <1>4 DEF After, Needs, Leaves
  <2> QED
    BY <2>1, <2>2, ConstHolds DEF Compiles
<1>5. CASE ins.op = "add"
  <2>1. k = AddI32(g)
    BY <1>5 DEF Compile
  <2>2. After(ins, n) = n - 1 /\ Needs[ins.op] = 2
    BY <1>2, <1>5 DEF After, Needs, Leaves
  <2> QED
    BY <1>2, <2>1, <2>2, AddHolds
<1>6. CASE ins.op = "get"
  <2>1. k = GetLocalI32(g, ins.arg)
    BY <1>6 DEF Compile
  <2>2. After(ins, n) = n + 1
    BY <1>2, <1>6 DEF After, Needs, Leaves
  <2> QED
    BY <2>1, <2>2, GetHolds DEF Compiles
<1>7. CASE ins.op = "set"
  <2>1. k = SetLocalI32(g, ins.arg)
    BY <1>7 DEF Compile
  <2>2. After(ins, n) = n - 1 /\ Needs[ins.op] = 1
    BY <1>2, <1>7 DEF After, Needs, Leaves
  <2> QED
    BY <1>2, <2>1, <2>2, SetLocalHolds
<1>8. CASE ins.op = "return"
  <2>1. k = Return(g) /\ After(ins, n) = n
    BY <1>8 DEF Compile, After
  <2>2. Holds(k, {}, n)
    BY <2>1, ReturnHolds
  <2> QED
    BY <2>1, <2>2 DEF Holds, Faulty
<1>9. CASE ins.op = "label"
  <2>1. k = g /\ After(ins, n) = n
    BY <1>2, <1>9 DEF Compile, After, Needs, Leaves
  <2> QED
    BY <1>3, <2>1
<1> QED
  BY <1>1, <1>4, <1>5, <1>6, <1>7, <1>8, <1>9

(* The epilogue puts the result in a register, if there is one.             *)
LEMMA EpilogueHolds ==
  ASSUME NEW g, NEW n, Holds(g, {}, n), val.maxStack \in Nat,
         NEW k, k = Epilogue(g)
  PROVE  /\ Faulty(k) \/ (IsCompiler(k) /\ ~k.fault /\ SpillsBelow(k))
         /\ TwoRegs /\ n >= Len(Results) => ~Faulty(k)
<1>1. PICK e : e = [g EXCEPT !.left = FALSE]
  OBVIOUS
<1>2. Holds(e, {}, n)
  BY <1>1 DEF Holds, IsCompiler, Compilers, SpillsBelow
<1>3. CASE Results = <<>>
  <2>1. k = e
    BY <1>1, <1>3 DEF Epilogue
  <2> QED
    BY <1>2, <2>1 DEF Holds, Faulty
<1>4. CASE Results = <<"i32">>
  <2>1. k = EnsureInRegister(PopValue(e), TopReg(e), Slot(Len(e.own)))
    BY <1>1, <1>4 DEF Epilogue
  <2>2. /\ Faulty(k) \/ Holds(k, {k.got}, n - 1)
        /\ n >= 1 /\ Regs # {} => ~Faulty(k)
    BY <1>2, <2>1, PopHolds
  <2>3. Len(Results) = 1
    BY <1>4
  <2> QED
    BY <2>2, <2>3 DEF Holds, TwoRegs
<1> QED
  BY <1>3, <1>4, ArchAssumption


-----------------------------------------------------------------------------
(* The body's meaning, of which only the number of operands matters.        *)
IsMeaning(m) ==
  /\ m \in [operands : {m.operands}, done : BOOLEAN, stuck : BOOLEAN,
            locals : {m.locals}]
  /\ \E S : m.operands \in Seq(S)

(* The first elements of a sequence.                                        *)
LEMMA FirstElements ==
  ASSUME NEW S, NEW s \in Seq(S), NEW n \in Nat, n =< Len(s)
  PROVE  SubSeq(s, 1, n) \in Seq(S) /\ Len(SubSeq(s, 1, n)) = n
<1>1. \A i \in 1..Len(s) : s[i] \in S
  OBVIOUS
<1>2. \A i \in 1..n : s[i] \in S
  BY <1>1
<1> QED
  BY <1>2

(* Any value can be appended; the elements' set grows by it.                *)
LEMMA AppendsAny ==
  ASSUME NEW S, NEW s \in Seq(S), NEW x
  PROVE  /\ Append(s, x) \in Seq(S \cup {x})
         /\ Len(Append(s, x)) = Len(s) + 1
<1>1. PICK n \in Nat : n = Len(s)
  OBVIOUS
<1>2. s \in [1..n -> S \cup {x}]
  BY <1>1
<1>3. s \in Seq(S \cup {x})
  BY <1>1, <1>2
<1> QED
  BY <1>3

(* An instruction whose operands are there is executed and leaves as        *)
(* many.                                                                    *)
LEMMA EffectOf ==
  ASSUME NEW m, IsMeaning(m), NEW ins \in Instructions,
         Needs[ins.op] =< Len(m.operands), NEW k, k = Effect(m, ins)
  PROVE  /\ IsMeaning(k) /\ k.stuck = m.stuck
         /\ ins.op = "return" => k.done /\ k.operands = m.operands
         /\ ins.op # "return" =>
              /\ k.done = m.done
              /\ Len(k.operands) =
                   Len(m.operands) - Needs[ins.op] + Leaves[ins.op]
<1>1. ins.op \in {"const", "add", "get", "set", "return", "label"}
  BY ArchAssumption DEF Instructions
<1>2. PICK S : m.operands \in Seq(S)
  BY DEF IsMeaning
<1>3. PICK s : s = m.operands
  OBVIOUS
<1>4. PICK n \in Nat : n = Len(s) /\ s \in Seq(S) /\ n = Len(m.operands)
  BY <1>2, <1>3
<1>5. \A x : /\ Append(s, x) \in Seq(S \cup {x}) /\ Len(Append(s, x)) = n + 1
  BY <1>4, AppendsAny
<1>6. CASE ins.op \in {"const", "get"}
  <2>1. PICK x : k = [m EXCEPT !.operands = Append(s, x)]
    <3>1. CASE ins.op = "const"
      BY <1>3, <3>1 DEF Effect
    <3>2. CASE ins.op = "get"
      BY <1>3, <3>2 DEF Effect
    <3> QED
      BY <1>6, <3>1, <3>2
  <2>2. /\ k.operands = Append(s, x) /\ k.stuck = m.stuck /\ k.done = m.done
        /\ k \in [operands : {k.operands}, done : BOOLEAN, stuck : BOOLEAN,
                  locals : {k.locals}]
    BY <2>1 DEF IsMeaning
  <2>3. IsMeaning(k)
    <3>1. k.operands \in Seq(S \cup {x})
      BY <1>5, <2>2
    <3> QED
      BY <2>2, <3>1 DEF IsMeaning
  <2>4. Needs[ins.op] = 0 /\ Leaves[ins.op] = 1 /\ ins.op # "return"
    BY <1>6 DEF Needs, Leaves
  <2> QED
    BY <1>4, <1>5, <2>2, <2>3, <2>4
<1>7. CASE ins.op = "add"
  <2>1. Needs[ins.op] = 2 /\ Leaves[ins.op] = 1
    BY <1>7 DEF Needs, Leaves
  <2>2. PICK t : t = SubSeq(s, 1, n - 2)
    OBVIOUS
  <2>3. t \in Seq(S) /\ Len(t) = n - 2
    <3>1. 2 =< n
      BY <1>4, <2>1
    <3>2. n - 2 \in Nat /\ n - 2 =< Len(s)
      BY <1>4, <3>1
    <3> QED
      BY <1>4, <2>2, <3>2, FirstElements
  <2>4. PICK x : k = [m EXCEPT !.operands = Append(t, x)]
    BY <1>3, <1>4, <1>7, <2>2 DEF Effect
  <2>5. Append(t, x) \in Seq(S \cup {x}) /\ Len(Append(t, x)) = n - 1
    BY <1>4, <2>3, AppendsAny
  <2>6. /\ k.operands = Append(t, x) /\ k.stuck = m.stuck /\ k.done = m.done
        /\ k \in [operands : {k.operands}, done : BOOLEAN, stuck : BOOLEAN,
                  locals : {k.locals}]
    BY <2>4 DEF IsMeaning
  <2>7. IsMeaning(k)
    <3>1. k.operands \in Seq(S \cup {x})
      BY <2>5, <2>6
    <3> QED
      BY <2>6, <3>1 DEF IsMeaning
  <2> QED
    BY <1>4, <1>7, <2>1, <2>5, <2>6, <2>7
<1>8. CASE ins.op = "set"
  <2>1. Needs[ins.op] = 1 /\ Leaves[ins.op] = 0
    BY <1>8 DEF Needs, Leaves
  <2>2. Front(s) \in Seq(S) /\ Len(Front(s)) = n - 1
    <3>1. s # <<>>
      <4>1. n # 0
        BY <1>4, <2>1
      <4> QED
        BY <1>4, <4>1
    <3> QED
      BY <1>4, <3>1, FrontOf
  <2>3. PICK l : l = [m.locals EXCEPT ![ins.arg] = s[n]]
    OBVIOUS
  <2>4. k = [m EXCEPT !.operands = Front(s), !.locals = l]
    BY <1>3, <1>4, <1>8, <2>3 DEF Effect
  <2>5. /\ k.operands = Front(s) /\ k.stuck = m.stuck /\ k.done = m.done
        /\ k \in [operands : {k.operands}, done : BOOLEAN, stuck : BOOLEAN,
                  locals : {k.locals}]
    BY <2>4 DEF IsMeaning
  <2>6. IsMeaning(k)
    BY <2>2, <2>5 DEF IsMeaning
  <2> QED
    BY <1>4, <1>8, <2>1, <2>2, <2>5, <2>6
<1>9. CASE ins.op = "return"
  <2>1. k = [m EXCEPT !.done = TRUE]
    BY <1>9 DEF Effect
  <2>2. /\ k.operands = m.operands /\ k.stuck = m.stuck /\ k.done
        /\ k \in [operands : {k.operands}, done : BOOLEAN, stuck : BOOLEAN,
                  locals : {k.locals}]
    BY <2>1 DEF IsMeaning
  <2> QED
    BY <1>2, <1>9, <2>2 DEF IsMeaning
<1>10. CASE ins.op = "label"
  <2>1. k = m
    BY <1>10 DEF Effect
  <2>2. Needs[ins.op] = 0 /\ Leaves[ins.op] = 0
    BY <1>10 DEF Needs, Leaves
  <2> QED
    BY <1>4, <1>10, <2>1, <2>2
<1> QED
  BY <1>1, <1>6, <1>7, <1>8, <1>9, <1>10

-----------------------------------------------------------------------------
(* The validator's course through the body: h[k] is the validator after k   *)
(* instructions.  Where nothing follows a return and the sizes are small    *)
(* enough not to wrap, its numbers are exact.                               *)
Narrow == ~DeadCode /\ 4 * MaxBody < SizeMod

Parsed(h, b) ==
  /\ h \in [0..Len(b) -> Validators] /\ h[0] = NewValidator
  /\ \A k \in 1..Len(b) : h[k] = Validate(h[k - 1], b[k])
  /\ \A k \in 0..Len(b) : h[k].ok
  /\ ~DeadCode => \A k \in 0..Len(b) :
       /\ h[k].unreachable => k = Len(b)
       /\ h[k].maxStack =< h[Len(b)].maxStack
  /\ Narrow => \A k \in 0..Len(b) :
       /\ h[k].maxStack =< k /\ h[k].maxMemory = 4 * h[k].maxStack
       /\ h[k].unreachable \/ Balanced(h[k])

(* Before the first instruction.                                            *)
LEMMA NewParsed == Parsed([k \in 0..0 |-> NewValidator], <<>>)
<1> DEFINE h == [k \in 0..0 |-> NewValidator]
<1>1. /\ Len(<<>>) = 0 /\ h \in [0..0 -> {NewValidator}]
      /\ \A k \in 0..0 : h[k] = NewValidator
  OBVIOUS
<1>2. NewValidator \in Validators
  BY SizeAssumption DEF NewValidator, Validators
<1>3. /\ NewValidator.ok /\ ~NewValidator.unreachable
      /\ NewValidator.maxStack = 0 /\ NewValidator.maxMemory = 0
      /\ Balanced(NewValidator)
  BY DEF NewValidator, Balanced
<1> HIDE DEF h
<1> QED
  BY <1>1, <1>2, <1>3 DEF Parsed, h


(* An instruction that is emitted leaves everything known of the ones       *)
(* before it.                                                               *)
LEMMA ParsedGrows ==
  ASSUME NEW b \in Seq(Instructions), NEW h, Parsed(h, b), Len(b) < MaxBody,
         NEW ins \in Instructions, NEW w, w = Validate(h[Len(b)], ins), w.ok,
         h[Len(b)].unreachable => DeadCode
  PROVE  \E f : Parsed(f, Append(b, ins)) /\ f[Len(b) + 1] = w
<1>1. PICK n \in Nat : n = Len(b)
  OBVIOUS
<1>2. PICK c : c = Append(b, ins)
  OBVIOUS
<1>3. /\ Len(c) = n + 1 /\ c[n + 1] = ins /\ \A k \in 1..n : c[k] = b[k]
  BY <1>1, <1>2
<1>4. PICK f : f = [k \in 0..n + 1 |-> IF k = n + 1 THEN w ELSE h[k]]
  OBVIOUS
<1>5. /\ h \in [0..n -> Validators] /\ h[0] = NewValidator
      /\ \A k \in 1..n : h[k] = Validate(h[k - 1], b[k])
      /\ \A k \in 0..n : h[k].ok
  BY <1>1 DEF Parsed
<1>6. f[n + 1] = w /\ \A k \in 0..n : f[k] = h[k] /\ k # n + 1
  BY <1>1, <1>4
<1>7. w \in Validators
  BY <1>1, <1>5, ValidateTyped
<1>8. f \in [0..n + 1 -> Validators] /\ f[0] = NewValidator
  BY <1>1, <1>4, <1>5, <1>6, <1>7
<1>9. ASSUME NEW k \in 1..n + 1 PROVE f[k] = Validate(f[k - 1], c[k])
  <2>1. CASE k = n + 1
    BY <1>1, <1>3, <1>6, <2>1
  <2>2. CASE k # n + 1
    <3>1. k \in 1..n /\ k \in 0..n /\ k - 1 \in 0..n
      BY <1>1, <2>2
    <3> QED
      BY <1>3, <1>5, <1>6, <3>1
  <2> QED
    BY <2>1, <2>2
<1>10. ASSUME NEW k \in 0..n + 1 PROVE k = n + 1 \/ k \in 0..n
  BY <1>1
<1>11. \A k \in 0..n + 1 : f[k].ok
  BY <1>5, <1>6, <1>10
<1>12. ~h[n].unreachable => Accepts(h[n], ins, w)
  <2>1. h[n] \in Validators
    BY <1>1, <1>5
  <2> QED
    BY <1>1, <2>1, ValidateAccepts
<1>13. ASSUME ~DeadCode, NEW k \in 0..n + 1
       PROVE  /\ f[k].unreachable => k = n + 1
              /\ f[k].maxStack =< f[n + 1].maxStack
  <2>1. ~h[n].unreachable /\ h[n].maxStack =< w.maxStack
    BY <1>1, <1>12, <1>13 DEF Accepts
  <2>2. w.maxStack \in Nat /\ h[n].maxStack \in Nat
    <3>1. n \in 0..n /\ h[n] \in Validators
      BY <1>1, <1>5
    <3> QED
      BY <1>7, <3>1 DEF Validators
  <2>3. CASE k = n + 1
    BY <1>6, <2>2, <2>3
  <2>4. CASE k \in 0..n
    <3>1. h[k].unreachable => k = n
      BY <1>1, <1>13, <2>4 DEF Parsed
    <3>2. h[k].maxStack =< h[n].maxStack /\ h[k].maxStack \in Nat
      BY <1>1, <1>5, <1>13, <2>4 DEF Parsed, Validators
    <3> QED
      BY <1>6, <2>1, <2>2, <2>4, <3>1, <3>2
  <2> QED
    BY <1>10, <2>3, <2>4
<1>14. ASSUME Narrow, NEW k \in 0..n + 1
       PROVE  /\ f[k].maxStack =< k /\ f[k].maxMemory = 4 * f[k].maxStack
              /\ f[k].unreachable \/ Balanced(f[k])
  <2>1. CASE k = n + 1
    <3>1. ~h[n].unreachable /\ Accepts(h[n], ins, w)
      BY <1>1, <1>12, <1>14 DEF Narrow
    <3>2. Balanced(h[n]) /\ h[n].maxStack =< n /\ h[n].maxStack \in Nat
      BY <1>1, <1>5, <1>14, <3>1 DEF Parsed, Validators
    <3>3. 4 * (h[n].maxStack + 1) < SizeMod
      BY <1>1, <1>14, <3>2, SizeAssumption, BodyAssumption DEF Narrow
    <3>4. /\ w.maxMemory = 4 * w.maxStack /\ w.maxStack =< h[n].maxStack + 1
          /\ ins.op = "return" => w.unreachable
          /\ ins.op # "return" => Balanced(w)
      BY <3>1, <3>2, <3>3 DEF Accepts
    <3>5. w.maxStack \in Nat
      BY <1>7 DEF Validators
    <3> QED
      BY <1>1, <1>6, <2>1, <3>2, <3>4, <3>5
  <2>2. CASE k \in 0..n
    <3>1. /\ h[k].maxStack =< k /\ h[k].maxMemory = 4 * h[k].maxStack
          /\ h[k].unreachable \/ Balanced(h[k])
      BY <1>1, <1>14, <2>2 DEF Parsed
    <3> QED
      BY <1>6, <2>2, <3>1
  <2> QED
    BY <1>10, <2>1, <2>2
<1>15. Parsed(f, c)
  BY <1>3, <1>8, <1>9, <1>11, <1>13, <1>14 DEF Parsed
<1> QED
  BY <1>1, <1>2, <1>6, <1>15

(* The meaning beside the validator: while no return was executed there are *)
(* as many operands as the validator counted.                               *)
Follows(h, p, m) ==
  /\ IsMeaning(m) /\ ~m.stuck
  /\ m.done => Len(m.operands) = Len(Results)
  /\ ~m.done => ~h[p].unreachable /\ Len(m.operands) = Len(h[p].stack)

(* The next instruction keeps meaning and validator together.               *)
LEMMA FollowsOn ==
  ASSUME NEW b \in Seq(Instructions), NEW h, Parsed(h, b),
         NEW p \in 0..Len(b), p # Len(b), NEW m, Follows(h, p, m),
         NEW k, k = Step(m, b[p + 1])
  PROVE  Follows(h, p + 1, k)
<1>1. PICK n \in Nat : n = Len(b)
  OBVIOUS
<1>2. p + 1 \in 1..n /\ p \in 0..n /\ (p + 1) - 1 = p /\ p + 1 \in 0..n
  BY <1>1
<1>3. PICK ins \in Instructions : ins = b[p + 1]
  BY <1>1, <1>2
<1>4. /\ h[p] \in Validators /\ h[p + 1].ok
      /\ h[p + 1] = Validate(h[p], ins)
  BY <1>1, <1>2, <1>3 DEF Parsed
<1>5. CASE m.done
  <2>1. k = m
    BY <1>5 DEF Step
  <2> QED
    BY <1>5, <2>1 DEF Follows
<1>6. CASE ~m.done
  <2>1. ~h[p].unreachable /\ Len(m.operands) = Len(h[p].stack) /\ ~m.stuck
        /\ IsMeaning(m)
    BY <1>6 DEF Follows
  <2>2. Accepts(h[p], ins, h[p + 1])
    BY <1>4, <2>1, ValidateAccepts
  <2>3. Needs[ins.op] =< Len(m.operands)
    BY <2>1, <2>2 DEF Accepts
  <2>4. ~(Len(m.operands) < Needs[ins.op])
    <3>1. Needs[ins.op] \in Nat
      <4>1. ins.op \in {"const", "add", "get", "set", "return", "label"}
        BY ArchAssumption DEF Instructions
      <4>2. Len(Results) \in Nat
        BY ArchAssumption
      <4> QED
        BY <4>1, <4>2 DEF Needs
    <3>2. Len(m.operands) \in Nat
      BY <2>1 DEF IsMeaning
    <3> QED
      BY <2>3, <3>1, <3>2
  <2>5. k = Effect(m, ins)
    BY <1>3, <1>6, <2>1, <2>4 DEF Step
  <2>6. /\ IsMeaning(k) /\ k.stuck = m.stuck
        /\ ins.op = "return" => k.done /\ k.operands = m.operands
        /\ ins.op # "return" =>
             /\ k.done = m.done
             /\ Len(k.operands) =
                  Len(m.operands) - Needs[ins.op] + Leaves[ins.op]
    BY <2>1, <2>3, <2>5, EffectOf
  <2>7. CASE ins.op = "return"
    BY <2>1, <2>2, <2>6, <2>7 DEF Accepts, Follows
  <2>8. CASE ins.op # "return"
    BY <1>6, <2>1, <2>2, <2>6, <2>8 DEF Accepts, Follows
  <2> QED
    BY <2>7, <2>8
<1> QED
  BY <1>5, <1>6


-----------------------------------------------------------------------------
(* The compiler beside the validator.  That it never goes wrong takes what  *)
(* Exact says; that its registers are tracked does not.                     *)
Exact == Narrow /\ TwoRegs

Compiled(h, p, g) ==
  /\ Holds(g, {}, Len(g.own))
  /\ Exact => Len(g.own) = IF h[p].unreachable THEN Len(Results)
                           ELSE Len(h[p].stack)

(* The next instruction keeps compiler and validator together.              *)
LEMMA CompiledOn ==
  ASSUME NEW b \in Seq(Instructions), NEW h, Parsed(h, b),
         val.maxStack = h[Len(b)].maxStack, val.maxStack \in Nat,
         NEW p \in 0..Len(b), p # Len(b), NEW g, Compiled(h, p, g),
         NEW k, k = Compile(g, b[p + 1])
  PROVE  /\ Faulty(k) \/ Compiled(h, p + 1, k)
         /\ Exact => ~Faulty(k)
<1>1. PICK n \in Nat : n = Len(b)
  OBVIOUS
<1>2. p + 1 \in 1..n /\ p \in 0..n /\ (p + 1) - 1 = p /\ p + 1 \in 0..n
  BY <1>1
<1>3. PICK ins \in Instructions : ins = b[p + 1]
  BY <1>1, <1>2
<1>4. /\ h[p] \in Validators /\ h[p + 1].ok
      /\ h[p + 1] = Validate(h[p], ins)
  BY <1>1, <1>2, <1>3 DEF Parsed
<1>5. PICK l : l = Len(g.own)
  OBVIOUS
<1>6. Holds(g, {}, l) /\ l \in Nat
  BY <1>5 DEF Compiled, Holds, IsCompiler, Compilers
<1>7. /\ Faulty(k) \/ Holds(k, {}, After(ins, l))
      /\ TwoRegs /\ Needs[ins.op] =< l /\ After(ins, l) =< val.maxStack =>
           ~Faulty(k)
  BY <1>3, <1>6, CompileHolds
<1>8. Holds(k, {}, After(ins, l)) =>
        Holds(k, {}, Len(k.own)) /\ Len(k.own) = After(ins, l)
  BY DEF Holds
<1>9. CASE ~Exact
  BY <1>7, <1>8, <1>9 DEF Compiled
<1>10. CASE Exact
  <2>1. ~h[p].unreachable /\ l = Len(h[p].stack)
        /\ h[p + 1].maxStack =< val.maxStack
    <3>1. ~DeadCode /\ p # n
      BY <1>1, <1>10 DEF Exact, Narrow
    <3>2. ~h[p].unreachable /\ h[p + 1].maxStack =< h[n].maxStack
      BY <1>1, <1>2, <3>1 DEF Parsed
    <3> QED
      BY <1>1, <1>5, <1>10, <3>2 DEF Compiled
  <2>2. Accepts(h[p], ins, h[p + 1])
    BY <1>4, <2>1, ValidateAccepts
  <2>3. Needs[ins.op] =< l
    BY <2>1, <2>2 DEF Accepts
  <2>4. h[p + 1] \in Validators
    BY <1>1, <1>2 DEF Parsed
  <2>5. CASE ins.op = "return"
    <3>1. After(ins, l) = l /\ l =< val.maxStack
      BY <1>6, <2>5 DEF After, Holds
    <3>2. h[p + 1].unreachable /\ l = Len(Results)
      BY <2>1, <2>2, <2>5 DEF Accepts
    <3> QED
      BY <1>7, <1>8, <1>10, <2>3, <3>1, <3>2 DEF Exact, Compiled
  <2>6. CASE ins.op # "return"
    <3>1. After(ins, l) = Len(h[p + 1].stack) /\ ~h[p + 1].unreachable
          /\ After(ins, l) = l - Needs[ins.op] + Leaves[ins.op]
      BY <2>1, <2>2, <2>6 DEF Accepts, After
    <3>2. After(ins, l) =< val.maxStack
      <4>1. ins.op \in {"const", "add", "get", "set", "label"}
        BY <2>6, ArchAssumption DEF Instructions
      <4>2. CASE Leaves[ins.op] = 1
        <5>1. Len(h[p + 1].stack) =< h[p + 1].maxStack
          BY <2>2, <2>6, <4>2 DEF Accepts
        <5>2. Len(h[p + 1].stack) \in Nat /\ h[p + 1].maxStack \in Nat
          BY <2>4 DEF Validators
        <5> QED
          BY <2>1, <3>1, <5>1, <5>2
      <4>3. CASE Leaves[ins.op] = 0 /\ Needs[ins.op] \in Nat
        <5>1. l =< val.maxStack
          BY <1>6 DEF Holds
        <5> QED
          BY <1>6, <3>1, <4>3, <5>1
      <4> QED
        BY <4>1, <4>2, <4>3 DEF Needs, Leaves
    <3> QED
      BY <1>7, <1>8, <1>10, <2>3, <3>1, <3>2 DEF Exact, Compiled
  <2> QED
    BY <2>5, <2>6
<1> QED
  BY <1>9, <1>10


-----------------------------------------------------------------------------
(* The inductive invariant: validator, compiler and meaning are at the same *)
(* place of the same body.                                                  *)
Typed ==
  /\ phase \in {"parse", "compile", "done", "rejected", "fault"}
  /\ body \in Seq(Instructions) /\ Len(body) =< MaxBody
  /\ val \in Validators
  /\ pc \in 0..Len(body)
  /\ phase # "fault" => IsCompiler(gen)

Parsing ==
  /\ phase \in {"parse", "rejected"} =>
       /\ pc = 0 /\ ~gen.fault
       /\ gen.used = {} /\ gen.own = <<>> /\ gen.spills = {}
  /\ phase = "parse" => \E h : Parsed(h, body) /\ val = h[Len(body)]

Compiling == phase = "compile" =>
  \E h : /\ Parsed(h, body) /\ val = Finalize(h[Len(body)]) /\ val.ok
         /\ Follows(h, pc, ref) /\ Compiled(h, pc, gen)

Leaving ==
  /\ ~ref.stuck
  /\ phase = "done" => Len(ref.operands) = Len(Results) /\ SpillsBelow(gen)
  /\ Exact => phase # "fault"
  /\ Narrow /\ phase \in {"compile", "done"} =>
       val.maxMemory = 4 * val.maxStack

IInv == Typed /\ Parsing /\ Compiling /\ Leaving

(* Nothing has been parsed.                                                 *)
LEMMA InitIInv == Init => IInv
<1> SUFFICES ASSUME Init PROVE IInv
  OBVIOUS
<1>1. body = <<>> /\ Len(body) = 0 /\ val = NewValidator /\ phase = "parse"
      /\ pc = 0 /\ body \in Seq(Instructions)
  BY DEF Init
<1>2. PICK h : h = [k \in 0..0 |-> NewValidator]
  OBVIOUS
<1>3. Parsed(h, body) /\ h[Len(body)] = val
  BY <1>1, <1>2, NewParsed
<1>4. val \in Validators
  BY <1>1, <1>3 DEF Parsed
<1>5. PICK arch \in Archs : gen = NewCompiler(arch)
  BY DEF Init
<1>6. /\ IsCompiler(gen) /\ ~gen.fault /\ gen.used = {} /\ gen.own = <<>>
      /\ gen.spills = {}
  BY <1>5 DEF NewCompiler, IsCompiler, Compilers
<1>7. ~ref.stuck
  BY DEF Init, NewRef
<1> QED
  BY <1>1, <1>3, <1>4, <1>6, <1>7, BodyAssumption
  DEF IInv, Typed, Parsing, Compiling, Leaving

(* The parser hands an instruction to the validator.                        *)
LEMMA EmitKeeps ==
  ASSUME IInv, NEW ins \in Instructions, Emit(ins) PROVE IInv'
<1>1. PICK h : Parsed(h, body) /\ val = h[Len(body)]
  BY DEF IInv, Parsing, Emit
<1>2. val' = Validate(val, ins) /\ val' \in Validators
  BY ValidateTyped DEF Emit, IInv, Typed
<1>3. body \in Seq(Instructions) /\ Len(body) \in Nat /\ Len(body) < MaxBody
  BY DEF IInv, Typed, Emit
<1>4. UNCHANGED <<pc, gen, ref, out>> /\ pc = 0 /\ phase = "parse"
  BY DEF IInv, Parsing, Emit
<1>5. CASE val'.ok
  <2>1. body' = Append(body, ins) /\ phase' = "parse"
        /\ (val.unreachable => DeadCode)
    BY <1>5 DEF Emit
  <2>2. /\ body' \in Seq(Instructions) /\ Len(body') = Len(body) + 1
        /\ Len(body') =< MaxBody
    BY <1>3, <2>1, BodyAssumption
  <2>3. PICK w : w = val'
    OBVIOUS
  <2>4. PICK f : Parsed(f, Append(body, ins)) /\ f[Len(body) + 1] = w
    BY <1>1, <1>2, <1>3, <1>5, <2>1, <2>3, ParsedGrows
  <2>5. Parsed(f, body') /\ val' = f[Len(body')]
    BY <2>1, <2>2, <2>3, <2>4
  <2>6. (\E q : Parsed(q, body) /\ val = q[Len(body)])'
    BY <2>5
  <2> QED
    BY <1>2, <1>3, <1>4, <2>1, <2>2, <2>6
    DEF IInv, Typed, Parsing, Compiling, Leaving
<1>6. CASE ~val'.ok
  <2>1. body' = body /\ phase' = "rejected"
    BY <1>6 DEF Emit
  <2> QED
    BY <1>2, <1>3, <1>4, <2>1 DEF IInv, Typed, Parsing, Compiling, Leaving
<1> QED
  BY <1>5, <1>6


(* The body ends: the validator has the last word, the prologue is          *)
(* emitted.                                                                 *)
LEMMA EndKeeps ==
  ASSUME IInv, NEW args, End(args) PROVE IInv'
<1>1. PICK h : Parsed(h, body) /\ val = h[Len(body)]
  BY DEF IInv, Parsing, End
<1>2. PICK w : w = AssertEmpty(PopResults(val)) /\ val' = w
  BY DEF End, Finalize
<1>3. /\ w \in Validators
      /\ w.maxMemory = val.maxMemory /\ w.maxStack = val.maxStack
  BY <1>2, ResultsPopped DEF IInv, Typed
<1>4. UNCHANGED <<body, pc, out>> /\ pc = 0 /\ phase = "parse"
  BY DEF IInv, Parsing, End
<1>5. IsCompiler(gen) /\ ~gen.fault /\ gen.used = {} /\ gen.own = <<>>
      /\ gen.spills = {} /\ ~ref.stuck
  BY <1>4 DEF IInv, Typed, Parsing, Leaving
<1>6. CASE ~val'.ok
  <2>1. phase' = "rejected" /\ UNCHANGED <<gen, ref>>
    BY <1>6 DEF End
  <2> QED
    BY <1>2, <1>3, <1>4, <1>5, <2>1
    DEF IInv, Typed, Parsing, Compiling, Leaving
<1>7. CASE val'.ok
  <2>1. phase' = "compile" /\ gen' = Prologue(gen, args) /\ ref' = NewRef(args)
    BY <1>7 DEF End
  <2>2. PICK mem : gen' = [gen EXCEPT !.mem = mem]
    BY <2>1 DEF Prologue
  <2>3. IsCompiler(gen') /\ ~gen'.fault /\ gen'.used = {} /\ gen'.own = <<>>
        /\ gen'.spills = {}
    BY <1>5, <2>2 DEF IsCompiler, Compilers
  <2>4. Tracked({}, <<>>, {})
    BY DEF Tracked, Exclusive, OwnedBy, Owners
  <2>5. w.maxStack \in Nat
    BY <1>3 DEF Validators
  <2>6. Holds(gen, {}, 0)'
    BY <1>2, <2>3, <2>4, <2>5 DEF Holds, SpillsBelow, IsCompiler, Compilers
  <2>7. h[0] = NewValidator /\ Len(NewValidator.stack) = 0
        /\ ~NewValidator.unreachable
    BY <1>1 DEF Parsed, NewValidator
  <2>8. Compiled(h, 0, gen)'
    <3>1. Len(gen'.own) = 0
      BY <2>3
    <3> QED
      BY <2>6, <2>7, <3>1 DEF Compiled
  <2>9. Follows(h, 0, ref')
    <3>1. PICK m : m = ref'
      OBVIOUS
    <3>2. PICK l : m = [operands |-> <<>>, done |-> FALSE, stuck |-> FALSE,
                        locals |-> l]
      BY <2>1, <3>1 DEF NewRef
    <3>3. IsMeaning(m) /\ ~m.stuck /\ ~m.done /\ Len(m.operands) = 0
      <4>1. m.operands \in Seq({})
        BY <3>2
      <4>2. m \in [operands : {m.operands}, done : BOOLEAN, stuck : BOOLEAN,
                   locals : {m.locals}]
        BY <3>2
      <4> QED
        BY <3>2, <4>1, <4>2 DEF IsMeaning
    <3>4. Follows(h, 0, m)
      BY <2>7, <3>3 DEF Follows
    <3> QED
      BY <3>1, <3>4
  <2>10. ~ref'.stuck
    BY <2>9 DEF Follows
  <2>11. val' = Finalize(h[Len(body)])
    BY <1>1 DEF End
  <2>12. Compiling'
    <3>1. Parsed(h, body') /\ val' = Finalize(h[Len(body')]) /\ val'.ok
          /\ Follows(h, pc', ref') /\ Compiled(h, pc, gen)'
      BY <1>1, <1>4, <1>7, <2>8, <2>9, <2>11
    <3> QED
      BY <3>1 DEF Compiling
  <2>13. Narrow => val'.maxMemory = 4 * val'.maxStack
    <3>1. Len(body) \in 0..Len(body)
      BY DEF IInv, Typed
    <3> QED
      BY <1>1, <1>2, <1>3, <3>1 DEF Parsed
  <2>14. Typed'
    BY <1>2, <1>3, <1>4, <2>1, <2>3 DEF IInv, Typed
  <2> QED
    BY <2>1, <2>10, <2>12, <2>13, <2>14 DEF IInv, Parsing, Leaving
<1> QED
  BY <1>6, <1>7

(* The compiler visits an instruction.                                      *)
LEMMA VisitKeeps == ASSUME IInv, Visit PROVE IInv'
<1>1. phase = "compile" /\ pc < Len(body) /\ pc' = pc + 1
      /\ body' = body /\ val' = val
  BY DEF Visit
<1>2. PICK h : /\ Parsed(h, body) /\ val = Finalize(h[Len(body)]) /\ val.ok
               /\ Follows(h, pc, ref) /\ Compiled(h, pc, gen)
  BY <1>1 DEF IInv, Compiling
<1>3. body \in Seq(Instructions) /\ pc \in 0..Len(body) /\ pc # Len(body)
      /\ val \in Validators /\ Len(body) \in Nat
  BY <1>1 DEF IInv, Typed
<1>4. PICK m : m = ref' /\ m = Step(ref, body[pc + 1])
  BY DEF Visit
<1>5. Follows(h, pc + 1, m)
  BY <1>2, <1>3, <1>4, FollowsOn
<1>6. PICK g : g = gen' /\ g = Compile(gen, body[pc + 1])
  BY DEF Visit
<1>7. val.maxStack = h[Len(body)].maxStack /\ val.maxStack \in Nat
  <2>1. h[Len(body)] \in Validators
    BY <1>2, <1>3 DEF Parsed
  <2>2. PICK w : w = AssertEmpty(PopResults(h[Len(body)]))
    OBVIOUS
  <2>3. w.maxStack = h[Len(body)].maxStack
    BY <2>1, <2>2, ResultsPopped
  <2> QED
    BY <1>2, <1>3, <2>2, <2>3 DEF Finalize, Validators
<1>8. /\ Faulty(g) \/ Compiled(h, pc + 1, g)
      /\ Exact => ~Faulty(g)
  BY <1>2, <1>3, <1>6, <1>7, CompiledOn
<1>9. ~m.stuck
  BY <1>5 DEF Follows
<1>10. Narrow => val'.maxMemory = 4 * val'.maxStack
  BY <1>1 DEF IInv, Leaving
<1>11. CASE g.fault
  <2>1. phase' = "fault"
    BY <1>6, <1>11 DEF Visit
  <2>2. ~Exact
    BY <1>8, <1>11 DEF Compiled, Holds
  <2>3. Typed'
    BY <1>1, <1>3, <2>1 DEF IInv, Typed
  <2> QED
    BY <1>4, <1>9, <2>1, <2>2, <2>3 DEF IInv, Parsing, Compiling, Leaving
<1>12. CASE ~g.fault
  <2>1. phase' = "compile"
    BY <1>6, <1>12 DEF Visit
  <2>2. Compiled(h, pc + 1, g)
    BY <1>8, <1>12 DEF Faulty
  <2>3. Compiled(h, pc, gen)'
    BY <1>1, <1>6, <2>2 DEF Compiled, Holds, SpillsBelow
  <2>4. Compiling'
    <3>1. Parsed(h, body') /\ val' = Finalize(h[Len(body')]) /\ val'.ok
          /\ Follows(h, pc', ref') /\ Compiled(h, pc, gen)'
      BY <1>1, <1>2, <1>4, <1>5, <2>3
    <3> QED
      BY <3>1 DEF Compiling
  <2>5. IsCompiler(gen')
    BY <1>6, <2>2 DEF Compiled, Holds
  <2>6. Typed'
    BY <1>1, <1>3, <2>1, <2>5 DEF IInv, Typed
  <2> QED
    BY <1>4, <1>9, <1>10, <2>1, <2>4, <2>6 DEF IInv, Parsing, Leaving
<1> QED
  BY <1>11, <1>12

(* The epilogue, after the last instruction.                                *)
LEMMA LeaveKeeps == ASSUME IInv, Leave PROVE IInv'
<1>1. phase = "compile" /\ pc = Len(body) /\ UNCHANGED <<body, val, pc, ref>>
  BY DEF Leave
<1>2. PICK h : /\ Parsed(h, body) /\ val = Finalize(h[Len(body)]) /\ val.ok
               /\ Follows(h, pc, ref) /\ Compiled(h, pc, gen)
  BY <1>1 DEF IInv, Compiling
<1>3. val \in Validators /\ val.maxStack \in Nat
  BY DEF IInv, Typed, Validators
<1>4. PICK v \in Validators : v = h[Len(body)]
  <2>1. Len(body) \in 0..Len(body)
    BY DEF IInv, Typed
  <2> QED
    BY <1>2, <2>1 DEF Parsed
<1>5. ~v.unreachable => Len(v.stack) = Len(Results)
  <2>1. PICK w : w = AssertEmpty(PopResults(v))
    OBVIOUS
  <2>2. w.ok
    BY <1>2, <1>4, <2>1 DEF Finalize
  <2> QED
    BY <2>1, <2>2, ResultsPopped
<1>6. Len(ref.operands) = Len(Results)
  BY <1>1, <1>2, <1>4, <1>5 DEF Follows
<1>7. PICK g : g = gen' /\ g = Epilogue(gen)
  BY DEF Leave
<1>8. PICK n : n = Len(gen.own) /\ Holds(gen, {}, n)
  BY <1>2 DEF Compiled
<1>9. Exact => n = Len(Results)
  BY <1>1, <1>2, <1>4, <1>5, <1>8 DEF Compiled
<1>10. Len(Results) \in Nat
  BY ArchAssumption
<1>11. /\ Faulty(g) \/ (IsCompiler(g) /\ ~g.fault /\ SpillsBelow(g))
       /\ Exact => ~Faulty(g)
  <2>1. /\ Faulty(g) \/ (IsCompiler(g) /\ ~g.fault /\ SpillsBelow(g))
        /\ TwoRegs /\ n >= Len(Results) => ~Faulty(g)
    BY <1>3, <1>7, <1>8, EpilogueHolds
  <2> QED
    BY <1>9, <1>10, <2>1 DEF Exact
<1>12. CASE g.fault
  <2>1. phase' = "fault" /\ ~Exact
    BY <1>7, <1>11, <1>12 DEF Leave
  <2> QED
    BY <1>1, <2>1 DEF IInv, Typed, Parsing, Compiling, Leaving
<1>13. CASE ~g.fault
  <2>1. phase' = "done"
    BY <1>7, <1>13 DEF Leave
  <2>2. IsCompiler(g) /\ SpillsBelow(g)
    BY <1>11, <1>13 DEF Faulty
  <2>3. SpillsBelow(gen)'
    BY <1>1, <1>7, <2>2 DEF SpillsBelow
  <2>4. IsCompiler(gen')
    BY <1>7, <2>2
  <2>5. Typed'
    BY <1>1, <2>1, <2>4 DEF IInv, Typed
  <2> QED
    BY <1>1, <1>6, <2>1, <2>3, <2>5 DEF IInv, Parsing, Compiling, Leaving
<1> QED
  BY <1>12, <1>13


(* Every step of the two passes keeps the invariant, for every body, any    *)
(* registers and both backends, also where code follows a return.           *)
THEOREM CompilationInvariant == Spec => []IInv
<1>1. IInv /\ [Next]_vars => IInv'
  <2> SUFFICES ASSUME IInv, [Next]_vars PROVE IInv'
    OBVIOUS
  <2>1. ASSUME NEW ins \in Instructions, Emit(ins) PROVE IInv'
    BY <2>1, EmitKeeps
  <2>2. ASSUME NEW args, End(args) PROVE IInv'
    BY <2>2, EndKeeps
  <2>3. CASE Visit
    BY <2>3, VisitKeeps
  <2>4. CASE Leave
    BY <2>4, LeaveKeeps
  <2>5. CASE UNCHANGED vars
    BY <2>5 DEF vars, IInv, Typed, Parsing, Compiling, Leaving, Compiled, Holds,
                SpillsBelow
  <2> QED
    BY <2>1, <2>2, <2>3, <2>4, <2>5 DEF Next
<1> QED
  BY <1>1, InitIInv, PTL DEF Spec

(* Between instructions the tracker's mask is exactly the registers of the  *)
(* stack values, each owned once, through every allocation and spill of     *)
(* every body (register_tracker.h, x64/compiler.cc:116-133).                *)
THEOREM RegistersTrackedHolds == Spec => []RegistersTracked
<1>1. IInv => RegistersTracked
  BY DEF IInv, Compiling, Compiled, Holds, RegistersTracked
<1> QED
  BY <1>1, CompilationInvariant, PTL

(* A body the validator accepts never lacks an operand when it is executed, *)
(* and ends with its results, whatever follows a return in it               *)
(* (validator.h:63-64).                                                     *)
THEOREM ValidatedNeverStuckHolds == Spec => []ValidatedNeverStuck
<1>1. IInv => ValidatedNeverStuck
  BY DEF IInv, Leaving, ValidatedNeverStuck
<1> QED
  BY <1>1, CompilationInvariant, PTL

(* The bytes the frame reserves for operands are those of the most values   *)
(* ever on the stack, in bodies without code after a return whose size does *)
(* not wrap (validator.h:65-66).                                            *)
THEOREM MemoryIsPeakHolds == ASSUME Narrow PROVE Spec => []MemoryIsPeak
<1>1. IInv => MemoryIsPeak
  BY DEF IInv, Leaving, MemoryIsPeak
<1> QED
  BY <1>1, CompilationInvariant, PTL

(* The invariant leaves no room for a fault.                                *)
LEMMA NoFaultState == ASSUME Exact, IInv PROVE NoFault
<1>1. phase # "fault"
  BY DEF IInv, Leaving
<1>2. val.stack \in Seq(ValTypes)
  <2>1. PICK s \in Seq({"i32"}) : s = val.stack
    BY DEF IInv, Typed, Validators
  <2>2. s \in [1..Len(s) -> ValTypes] /\ Len(s) \in Nat
    BY DEF ValTypes
  <2> QED
    BY <2>1, <2>2
<1>3. val.memory \in 0..SizeMod - 1 /\ val.maxMemory \in 0..SizeMod - 1
  BY DEF IInv, Typed, Validators
<1>4. gen.used \subseteq Regs /\ gen.own \in Seq(Regs \cup {NoReg})
  BY <1>1 DEF IInv, Typed, IsCompiler, Compilers
<1> QED
  BY <1>1, <1>2, <1>3, <1>4 DEF IInv, Typed, PassesOK, NoFault

(* The compiler never outgrows or underflows the stack the validator        *)
(* measured, and with two registers there is always one to allocate         *)
(* (x64/compiler.cc:131), for every such body.                              *)
THEOREM NoFaultHolds == ASSUME Exact PROVE Spec => []NoFault
<1>1. IInv => NoFault
  BY NoFaultState
<1> QED
  BY <1>1, CompilationInvariant, PTL

(* Nothing is spilled outside the operands' part of the frame, although     *)
(* slots are numbered one value too high: the topmost one is never used     *)
(* (runtime_stack.h:46-48).                                                 *)
THEOREM SpillsInFrameHolds == ASSUME Exact PROVE Spec => []SpillsInFrame
<1>1. IInv => SpillsInFrame
  <2> SUFFICES ASSUME IInv, NEW o \in gen.spills
               PROVE  0 <= 4 * o /\ 4 * o + 4 <= val.maxMemory
    BY DEF SpillsInFrame
  <2>1. phase \in {"compile", "done"}
    BY DEF IInv, Typed, Parsing, Leaving
  <2>2. val.maxMemory = 4 * val.maxStack /\ val.maxStack \in Nat
    BY <2>1 DEF IInv, Typed, Leaving, Validators, Exact
  <2>3. SpillsBelow(gen) /\ o \in Nat
    <3>1. phase = "compile" => SpillsBelow(gen)
      BY DEF IInv, Compiling, Compiled, Holds
    <3>2. phase = "done" => SpillsBelow(gen)
      BY DEF IInv, Leaving
    <3>3. gen.spills \in SUBSET Nat
      BY <2>1 DEF IInv, Typed, IsCompiler, Compilers
    <3> QED
      BY <2>1, <3>1, <3>2, <3>3
  <2> QED
    BY <2>2, <2>3 DEF SpillsBelow
<1> QED
  BY <1>1, CompilationInvariant, PTL

-----------------------------------------------------------------------------
(* The frame.  What the locals take is the sum of their sizes, one local    *)
(* after the other.                                                         *)
Summed(f, n) ==
  /\ f \in [0..n -> Nat] /\ f[0] = 0
  /\ \A k \in 1..n : f[k] = f[k - 1] + SizeBytes(LocalTypes[k])

\* A local of every type takes some bytes (validator.cc:30).
LEMMA SizesKnown ==
  ASSUME NEW k \in 1..Len(LocalTypes) PROVE SizeBytes(LocalTypes[k]) \in {4, 8}
<1>1. LocalTypes[k] \in ValTypes
  BY LocalsAssumption
<1> QED
  BY <1>1 DEF ValTypes, SizeBytes

(* The sums are there up to any local: there is no first one without.       *)
LEMMA SumsExist ==
  ASSUME NEW n \in 0..Len(LocalTypes) PROVE \E f : Summed(f, n)
<1>1. PICK L \in Nat : L = Len(LocalTypes)
  BY LocalsAssumption
<1> DEFINE S == {k \in 0..L : ~ \E f : Summed(f, k)}
<1>2. CASE S = {}
  BY <1>1, <1>2
<1>3. CASE S # {}
  <2>1. S \subseteq Nat
    OBVIOUS
  <2>2. PICK m : m \in S /\ \A x \in S : m =< x
    BY <1>3, <2>1, MinExists
  <2>3. m # 0
    <3>1. PICK z : z = [k \in 0..0 |-> 0]
      OBVIOUS
    <3>2. Summed(z, 0)
      BY <3>1 DEF Summed
    <3> QED
      BY <2>2, <3>2
  <2>4. m \in 1..L /\ m - 1 \in 0..L /\ ~(m =< m - 1)
    BY <2>2, <2>3
  <2>5. m - 1 \notin S
    BY <2>2, <2>4
  <2>6. PICK f : Summed(f, m - 1)
    BY <2>4, <2>5
  <2>7. PICK g : g = [k \in 0..m |-> IF k = m
                       THEN f[m - 1] + SizeBytes(LocalTypes[m]) ELSE f[k]]
    OBVIOUS
  <2>8. SizeBytes(LocalTypes[m]) \in Nat
    BY <1>1, <2>4, SizesKnown
  <2>9. f[m - 1] \in Nat /\ \A k \in 0..m - 1 : f[k] \in Nat
    BY <2>4, <2>6 DEF Summed
  <2>10. g \in [0..m -> Nat]
    <3>1. ASSUME NEW k \in 0..m PROVE g[k] \in Nat
      BY <2>4, <2>7, <2>8, <2>9
    <3> QED
      BY <2>7, <3>1
  <2>11. g[0] = 0
    BY <2>3, <2>4, <2>6, <2>7 DEF Summed
  <2>12. ASSUME NEW k \in 1..m
         PROVE  g[k] = g[k - 1] + SizeBytes(LocalTypes[k])
    BY <2>4, <2>6, <2>7 DEF Summed
  <2>13. Summed(g, m)
    BY <2>10, <2>11, <2>12 DEF Summed
  <2> QED
    BY <2>2, <2>13
<1> QED
  BY <1>2, <1>3

(* LocalBytes is that sum.                                                  *)
LEMMA BytesSummed == Summed(LocalBytes, Len(LocalTypes))
<1>1. PICK L \in Nat : L = Len(LocalTypes)
  BY LocalsAssumption
<1> DEFINE Grown(g, n) == IF n = 0 THEN 0
                          ELSE g[n - 1] + SizeBytes(LocalTypes[n])
<1>2. PICK f : Summed(f, L)
  BY <1>1, SumsExist
<1>3. f = [n \in 0..L |-> Grown(f, n)]
  <2>1. ASSUME NEW n \in 0..L PROVE f[n] = Grown(f, n)
    BY <1>2, <2>1 DEF Summed
  <2> QED
    BY <1>2, <2>1 DEF Summed
<1>4. LocalBytes = CHOOSE g : g = [n \in 0..L |-> Grown(g, n)]
  BY <1>1 DEF LocalBytes
<1>5. LocalBytes = [n \in 0..L |-> Grown(LocalBytes, n)]
  <2> HIDE DEF Grown
  <2> QED
    BY <1>3, <1>4
<1>6. ASSUME NEW n \in 0..L PROVE LocalBytes[n] = f[n]
  <2> DEFINE S == {k \in 0..L : LocalBytes[k] # f[k]}
  <2>1. CASE S = {}
    BY <2>1
  <2>2. CASE S # {}
    <3>1. PICK m : m \in S /\ \A x \in S : m =< x
      <4>1. S \subseteq Nat
        OBVIOUS
      <4> QED
        BY <2>2, <4>1, MinExists
    <3>2. CASE m = 0
      BY <1>2, <1>5, <3>1, <3>2 DEF Summed
    <3>3. CASE m # 0
      <4>1. m - 1 \in 0..L /\ m - 1 \notin S /\ m \in 1..L
        BY <3>1, <3>3
      <4>2. LocalBytes[m - 1] = f[m - 1]
        BY <4>1
      <4>3. LocalBytes[m] = LocalBytes[m - 1] + SizeBytes(LocalTypes[m])
        BY <1>5, <3>3, <4>1
      <4> QED
        BY <1>2, <3>1, <4>1, <4>2, <4>3 DEF Summed
    <3> QED
      BY <3>2, <3>3
  <2> QED
    BY <2>1, <2>2
<1>7. LocalBytes = f
  BY <1>2, <1>5, <1>6 DEF Summed
<1> QED
  BY <1>1, <1>2, <1>7

(* A local lies above the ones before it, with at least a word to itself.   *)
LEMMA LocalsApart ==
  ASSUME NEW j \in 0..Len(LocalTypes), NEW i \in 0..j - 1
  PROVE  LocalBytes[i] + 4 =< LocalBytes[j]
<1>1. PICK L \in Nat : L = Len(LocalTypes)
  BY LocalsAssumption
<1>2. /\ LocalBytes \in [0..L -> Nat]
      /\ \A k \in 1..L : LocalBytes[k] = LocalBytes[k - 1]
                                         + SizeBytes(LocalTypes[k])
  BY <1>1, BytesSummed DEF Summed
<1> DEFINE S == {k \in i + 1..L : ~(LocalBytes[i] + 4 =< LocalBytes[k])}
<1>3. i \in Nat /\ j \in i + 1..L /\ i \in 0..L
  BY <1>1
<1>4. CASE S = {}
  BY <1>3, <1>4
<1>5. CASE S # {}
  <2>1. S \subseteq Nat
    BY <1>3
  <2>2. PICK m : m \in S /\ \A x \in S : m =< x
    BY <1>5, <2>1, MinExists
  <2>3. m \in 1..L /\ m - 1 \in 0..L /\ m \in i + 1..L
    BY <1>3, <2>2
  <2>4. SizeBytes(LocalTypes[m]) \in {4, 8}
    BY <1>1, <2>3, SizesKnown
  <2>5. LocalBytes[m] = LocalBytes[m - 1] + SizeBytes(LocalTypes[m])
    BY <1>2, <2>3
  <2>6. /\ LocalBytes[m - 1] \in Nat /\ LocalBytes[m] \in Nat
        /\ LocalBytes[i] \in Nat
    BY <1>2, <1>3, <2>3
  <2>7. CASE m - 1 = i
    BY <2>2, <2>4, <2>5, <2>6, <2>7
  <2>8. CASE m - 1 # i
    <3>1. m - 1 \in i + 1..L /\ ~(m =< m - 1)
      BY <1>3, <2>3, <2>8
    <3>2. LocalBytes[i] + 4 =< LocalBytes[m - 1]
      BY <2>2, <3>1
    <3> QED
      BY <2>2, <2>4, <2>5, <2>6, <3>2
  <2> QED
    BY <2>7, <2>8
<1> QED
  BY <1>4, <1>5

(* The locals' bytes are counted without wrapping, as those of a frame that *)
(* can be laid out at all are.                                              *)
FrameFits == LocalBytes[Len(LocalTypes)] < SizeMod

\* The word a local is in, in a frame of z bytes.
WordOf(i, z) == Word(LocalBytes[i - 1] - z)

\* Rounding up by less than the alignment.
LEMMA RoundedUp ==
  ASSUME NEW n \in Nat PROVE AlignUp(n, 16) \in Nat /\ n =< AlignUp(n, 16)
                             /\ AlignUp(n, 16) =< n + 15
  BY DEF AlignUp

(* What dividing bytes into words means, below zero too.                    *)
LEMMA WordsOf ==
  ASSUME NEW d \in Int PROVE /\ Word(d) \in Int
                             /\ 4 * Word(d) =< d /\ d < 4 * Word(d) + 4
  BY DEF Word

(* The frame is no smaller than the locals, and its size does not wrap.     *)
Sized(z) == /\ z \in Nat /\ LocalBytes[Len(LocalTypes)] =< z
            /\ z < 2 * SizeMod + 15

(* With any alignment below the modulus the frame is such a number.         *)
LEMMA FrameSized ==
  ASSUME FrameFits, NEW m \in 0..SizeMod - 1
  PROVE  Sized(AlignUp(LocalBytes[Len(LocalTypes)] + m, 16))
<1>1. PICK t \in Nat : t = LocalBytes[Len(LocalTypes)] /\ t < SizeMod
  <2>1. Len(LocalTypes) \in 0..Len(LocalTypes)
    BY LocalsAssumption
  <2> QED
    BY <2>1, BytesSummed DEF Summed, FrameFits
<1>2. PICK n \in Nat : n = t + m /\ n < 2 * SizeMod /\ t =< n
  BY <1>1, SizeAssumption
<1>3. /\ AlignUp(n, 16) \in Nat /\ n =< AlignUp(n, 16)
      /\ AlignUp(n, 16) =< n + 15
  BY <1>2, RoundedUp
<1>4. PICK z \in Nat : z = AlignUp(n, 16) /\ n =< z /\ z =< n + 15
  BY <1>3
<1>5. t =< z /\ z < 2 * SizeMod + 15
  BY <1>1, <1>2, <1>4, SizeAssumption
<1> QED
  BY <1>1, <1>2, <1>4, <1>5 DEF Sized

(* Every local has a word of the frame to itself.                           *)
LEMMA LocalsFramed ==
  ASSUME NEW z, Sized(z)
  PROVE  /\ \A i \in 1..Len(LocalTypes) : WordOf(i, z) \in Offsets
         /\ \A i, j \in 1..Len(LocalTypes) :
              WordOf(i, z) = WordOf(j, z) => i = j
<1>1. PICK L \in Nat : L = Len(LocalTypes)
  BY LocalsAssumption
<1>2. LocalBytes \in [0..L -> Nat]
  BY <1>1, BytesSummed DEF Summed
<1>3. PICK y \in Nat : y = SizeMod /\ y >= 16
  BY SizeAssumption
<1>4. /\ z \in Nat /\ LocalBytes[L] \in Nat /\ LocalBytes[L] =< z
      /\ z < 2 * y + 15
  BY <1>1, <1>2, <1>3 DEF Sized
<1>5. ASSUME NEW i \in 1..L
      PROVE  /\ i - 1 \in 0..L - 1 /\ i - 1 \in 0..L
             /\ LocalBytes[i - 1] \in Nat
             /\ \E w \in Int, x \in Int :
                  /\ w = WordOf(i, z) /\ x = LocalBytes[i - 1] - z
                  /\ 4 * w =< x /\ x < 4 * w + 4
  <2>1. i - 1 \in 0..L - 1 /\ i - 1 \in 0..L
    OBVIOUS
  <2>2. PICK x \in Int : x = LocalBytes[i - 1] - z
    BY <1>2, <1>4, <2>1
  <2>3. Word(x) \in Int /\ 4 * Word(x) =< x /\ x < 4 * Word(x) + 4
    BY WordsOf
  <2> QED
    BY <1>2, <2>1, <2>2, <2>3 DEF WordOf
<1>6. ASSUME NEW i \in 1..L PROVE WordOf(i, z) \in Offsets
  <2>1. PICK w \in Int, x \in Int :
          /\ w = WordOf(i, z) /\ x = LocalBytes[i - 1] - z
          /\ 4 * w =< x /\ x < 4 * w + 4
    BY <1>5
  <2>2. L \in 0..Len(LocalTypes) /\ i - 1 \in 0..L - 1
    BY <1>1, <1>5
  <2>3. LocalBytes[i - 1] + 4 =< LocalBytes[L]
    BY <2>2, LocalsApart
  <2>4. x =< 0 /\ 0 - (2 * y + 15) =< x
    BY <1>4, <1>5, <2>1, <2>3
  <2>5. 0 - y =< w /\ w =< y
    BY <1>3, <2>1, <2>4
  <2> QED
    BY <1>3, <2>1, <2>5 DEF Offsets, Span
<1>7. ASSUME NEW i \in 1..L, NEW j \in 1..L, i < j
      PROVE  WordOf(i, z) # WordOf(j, z)
  <2>1. PICK v \in Int, x \in Int :
          /\ v = WordOf(i, z) /\ x = LocalBytes[i - 1] - z
          /\ 4 * v =< x /\ x < 4 * v + 4
    BY <1>5
  <2>2. PICK w \in Int, u \in Int :
          /\ w = WordOf(j, z) /\ u = LocalBytes[j - 1] - z
          /\ 4 * w =< u /\ u < 4 * w + 4
    BY <1>5
  <2>3. i - 1 \in 0..(j - 1) - 1 /\ j - 1 \in 0..Len(LocalTypes)
    BY <1>1, <1>5, <1>7
  <2>4. LocalBytes[i - 1] + 4 =< LocalBytes[j - 1]
    BY <2>3, LocalsApart
  <2>5. x + 4 =< u
    BY <1>4, <1>5, <2>1, <2>2, <2>4
  <2> QED
    BY <2>1, <2>2, <2>5
<1>8. ASSUME NEW i \in 1..L, NEW j \in 1..L, WordOf(i, z) = WordOf(j, z)
      PROVE  i = j
  <2>1. ~(i < j) /\ ~(j < i)
    BY <1>7, <1>8
  <2> QED
    BY <2>1
<1> QED
  BY <1>1, <1>6, <1>8

-----------------------------------------------------------------------------
(* The machine beside the meaning, as long as the code does what it is      *)
(* written for: nothing was spilled, no local was set or read uninitialised *)
(* and adc finds the carry flag clear.  What Undisputed leaves out are the  *)
(* disagreements of the README.                                             *)
CarryClear ==
  phase = "compile" /\ pc < Len(body) /\ body[pc + 1].op = "add" =>
    gen.carry = 0

Undisputed ==
  /\ gen.spills = {} /\ CarryClear
  /\ \A i \in 1..Len(body) : /\ body[i].op # "set"
                             /\ body[i].op = "get" => body[i].arg =< NParams

Values == 0..Modulus - 1

\* The machine's half of gen has words everywhere.
HasWords(g) == /\ IsCompiler(g) /\ g.regs \in [Regs -> Words]
               /\ g.mem \in [Offsets -> Words]

\* The i-th stack value's register holds the i-th operand.
Operands(g, s) ==
  /\ s \in Seq(Values) /\ Len(g.own) = Len(s)
  /\ \A i \in 1..Len(s) : g.own[i] \in Regs /\ g.regs[g.own[i]] = s[i]

\* The parameters are in the frame of z bytes.
Parameters(g, locals, z) ==
  \A i \in 1..NParams : locals[i] \in Values /\ g.mem[WordOf(i, z)] = locals[i]

Agree(g, m, z) ==
  /\ g.left = m.done /\ Operands(g, m.operands) /\ Parameters(g, m.locals, z)

\* What an instruction leaves as it is while no value is spilled.
Plain(g, a) == /\ HasWords(a) /\ a.arch = g.arch /\ a.carry = g.carry
               /\ a.left = g.left /\ a.mem = g.mem
               /\ ~a.fault /\ a.spills = {}

(* Allocating without spilling takes a free register and changes no value.  *)
LEMMA AllocatesPlain ==
  ASSUME NEW g, HasWords(g), ~g.fault, g.spills = {},
         NEW a, a = AllocateRegister(g), ~a.fault, a.spills = {}
  PROVE  /\ Plain(g, a) /\ a.own = g.own /\ a.regs = g.regs
         /\ a.got \in Regs \ g.used
<1>1. CanAllocate(g.used, g.own)
  BY FaultIsFaulty DEF AllocateRegister, HasWords, Faulty
<1>2. PICK spilled : spilled = Spilled(g.used, g.own)
  OBVIOUS
<1>3. PICK got, used, own, mem :
        /\ got = Allocated(g.used, g.own) /\ used = UsedAfter(g.used, g.own)
        /\ own = OwnAfter(g.used, g.own) /\ mem = SpillStores(g)
  OBVIOUS
<1>4. a = [g EXCEPT !.got = got, !.used = used, !.own = own, !.mem = mem,
                    !.spills = @ \cup {Slot(i) : i \in spilled}]
  BY <1>1, <1>2, <1>3 DEF AllocateRegister
<1>5. a.spills = g.spills \cup {Slot(i) : i \in spilled}
  BY <1>4 DEF HasWords, IsCompiler, Compilers
<1>6. spilled = {}
  BY <1>5
<1>7. Free(g.used) # {}
  BY <1>1, <1>2, <1>6 DEF Spilled, CanAllocate
<1>8. own = g.own /\ got = TakeUnused(g.used) /\ used = g.used \cup {got}
  BY <1>3, <1>7 DEF OwnAfter, Allocated, UsedAfter
<1>9. got \in Regs \ g.used
  <2>1. Free(g.used) \subseteq Nat
    BY RegsAssumption DEF Free
  <2> QED
    BY <1>7, <1>8, <2>1, MinExists DEF TakeUnused, Begin, Free
<1>10. mem = g.mem
  <2>1. ASSUME ~g.left PROVE mem = [o \in Offsets |-> g.mem[o]]
    <3>1. \A o : {i \in spilled : Slot(i) = o} = {}
      BY <1>6
    <3> QED
      BY <1>2, <1>3, <2>1, <3>1 DEF SpillStores
  <2>2. g.left => mem = g.mem
    BY <1>3 DEF SpillStores
  <2>3. g.mem = [o \in Offsets |-> g.mem[o]]
    BY DEF HasWords
  <2> QED
    BY <2>1, <2>2, <2>3
<1>11. used \in SUBSET Regs
  BY <1>8, <1>9 DEF HasWords, IsCompiler, Compilers
<1>12. a.spills = {} /\ {Slot(i) : i \in spilled} = {}
  BY <1>6
<1>13. /\ IsCompiler(a) /\ a.own = own /\ a.got = got /\ a.mem = mem
       /\ a.regs = g.regs /\ a.left = g.left /\ a.carry = g.carry
       /\ a.arch = g.arch
  BY <1>4, <1>5, <1>8, <1>9, <1>11, <1>12 DEF HasWords, IsCompiler, Compilers
<1> QED
  BY <1>8, <1>9, <1>10, <1>13 DEF Plain, HasWords

(* What is emitted before a return takes effect.                            *)
LEMMA WritesPlain ==
  ASSUME NEW g, HasWords(g), ~g.fault, ~g.left, g.spills = {},
         NEW r \in Regs, NEW w \in Words, NEW k, k = Write(g, r, w)
  PROVE  /\ Plain(g, k) /\ k.own = g.own /\ k.got = g.got /\ k.used = g.used
         /\ k.regs = [g.regs EXCEPT ![r] = w]
<1>1. k = [g EXCEPT !.regs[r] = w]
  BY DEF Write
<1>2. [g.regs EXCEPT ![r] = w] \in [Regs -> Words]
  BY DEF HasWords
<1>3. IsCompiler(g)
  BY DEF HasWords
<1>4. k.regs = [g.regs EXCEPT ![r] = w]
  BY <1>1, <1>3 DEF IsCompiler, Compilers
<1>5. /\ IsCompiler(k) /\ k.arch = g.arch /\ k.carry = g.carry
      /\ k.left = g.left /\ k.mem = g.mem /\ k.fault = g.fault
      /\ k.spills = g.spills /\ k.own = g.own /\ k.got = g.got
      /\ k.used = g.used
  BY <1>1, <1>3 DEF IsCompiler, Compilers
<1> QED
  BY <1>2, <1>4, <1>5 DEF Plain, HasWords

(* A pushed value that is given a register.                                 *)
LEMMA PushesPlain ==
  ASSUME NEW g, NEW n, HasWords(g), Holds(g, {}, n), g.spills = {},
         val.maxStack \in Nat, NEW p, p = PushValue(g),
         NEW a, a = AllocateRegister(p), ~Faulty(a), a.spills = {}
  PROVE  /\ Plain(g, a) /\ a.own = Append(g.own, NoReg) /\ a.regs = g.regs
         /\ a.got \in Regs \ g.used /\ TopReg(p) = NoReg
<1>1. n < val.maxStack
  BY PushHolds, FaultStays
<1>2. /\ Holds(p, {}, n + 1) /\ p.own # <<>> /\ Last(p.own) = NoReg
  BY <1>1, PushHolds
<1>3. Holds(a, {} \cup {a.got}, n + 1)
  BY <1>2, PushAllocates
<1>4. p = [g EXCEPT !.own = Append(@, NoReg)]
  BY <1>1 DEF PushValue, Holds
<1>5. IsCompiler(g) /\ ~g.fault /\ ~a.fault /\ ~p.fault
  BY <1>2, <1>3 DEF Holds
<1>6. /\ p.own = Append(g.own, NoReg) /\ p.regs = g.regs /\ p.mem = g.mem
      /\ p.spills = {} /\ p.used = g.used /\ p.left = g.left
      /\ p.arch = g.arch /\ p.carry = g.carry
  BY <1>4, <1>5 DEF IsCompiler, Compilers
<1>7. HasWords(p)
  BY <1>2, <1>6 DEF HasWords, Holds
<1>8. /\ Plain(p, a) /\ a.own = p.own /\ a.regs = p.regs
      /\ a.got \in Regs \ p.used
  BY <1>5, <1>6, <1>7, AllocatesPlain
<1> QED
  BY <1>2, <1>6, <1>8 DEF Plain, TopReg

(* Taking away what was appended.                                           *)
LEMMA FrontAppended ==
  ASSUME NEW S, NEW s \in Seq(S), NEW x \in S
  PROVE  Front(Append(s, x)) = s /\ Append(s, x) # <<>>
<1>1. PICK b \in Seq(S) : b = Append(s, x)
  <2>1. Append(s, x) \in Seq(S)
    OBVIOUS
  <2> QED
    BY <2>1
<1>2. PICK n \in Nat : n = Len(s)
  OBVIOUS
<1>3. Len(b) = n + 1 /\ \A i \in 1..n : b[i] = s[i]
  BY <1>1, <1>2
<1>4. b # <<>>
  BY <1>3, EmptySeq
<1>5. Front(b) \in Seq(S) /\ Len(Front(b)) = Len(b) - 1
      /\ \A i \in 1..Len(b) - 1 : Front(b)[i] = b[i]
  BY <1>4, FrontOf
<1>6. Len(b) - 1 = n
  BY <1>3
<1>7. Len(Front(b)) = Len(s) /\ \A i \in 1..Len(s) : Front(b)[i] = s[i]
  BY <1>2, <1>3, <1>5, <1>6
<1> QED
  BY <1>1, <1>4, <1>5, <1>7, SeqEqual

(* A word that is a value.                                                  *)
LEMMA ValuesAreWords == Values \subseteq Words /\ Junk \notin Values
  BY ValueAssumption DEF Values, Words, Junk

(* The register becomes the top value's.                                    *)
LEMMA SetsPlain ==
  ASSUME NEW a, HasWords(a), ~a.fault, a.spills = {},
         NEW s \in Seq(Regs \cup {NoReg}), NEW x \in Regs \cup {NoReg},
         a.own = Append(s, x), a.got \in Regs, NEW t, t = SetTop(a)
  PROVE  /\ Plain(a, t) /\ t.own = Append(s, a.got) /\ t.got = a.got
         /\ t.regs = a.regs /\ t.used = a.used
<1>1. Front(Append(s, x)) = s /\ Append(s, x) # <<>>
  BY FrontAppended
<1>2. t = [a EXCEPT !.own = Append(s, a.got)]
  BY <1>1 DEF SetTop, HasWords, IsCompiler, Compilers
<1>3. IsCompiler(a)
  BY DEF HasWords
<1>4. Append(s, a.got) \in Seq(Regs \cup {NoReg})
  OBVIOUS
<1>5. /\ IsCompiler(t) /\ t.arch = a.arch /\ t.carry = a.carry
      /\ t.left = a.left /\ t.mem = a.mem /\ t.fault = a.fault
      /\ t.spills = a.spills /\ t.own = Append(s, a.got) /\ t.got = a.got
      /\ t.used = a.used /\ t.regs = a.regs
  BY <1>2, <1>3, <1>4 DEF IsCompiler, Compilers
<1> QED
  BY <1>5 DEF Plain, HasWords

(* One more element.                                                        *)
LEMMA OneAppended ==
  ASSUME NEW S, NEW s \in Seq(S), NEW x \in S
  PROVE  /\ Append(s, x) \in Seq(S) /\ Len(Append(s, x)) = Len(s) + 1
         /\ Append(s, x)[Len(s) + 1] = x
         /\ \A i \in 1..Len(s) : Append(s, x)[i] = s[i]
  OBVIOUS

(* A new operand in a register nobody had.                                  *)
LEMMA OperandPushed ==
  ASSUME NEW g, HasWords(g), NEW s, Operands(g, s), Tracked(g.used, g.own, {}),
         NEW r \in Regs \ g.used, NEW w \in Values,
         NEW k, k.own = Append(g.own, r), k.regs = [g.regs EXCEPT ![r] = w]
  PROVE  Operands(k, Append(s, w))
<1>1. PICK n \in Nat : n = Len(s) /\ n = Len(g.own)
  BY DEF Operands
<1>2. g.own \in Seq(Regs \cup {NoReg}) /\ s \in Seq(Values)
  BY DEF HasWords, IsCompiler, Compilers, Operands
<1>3. /\ Append(s, w) \in Seq(Values) /\ Len(Append(s, w)) = n + 1
      /\ Append(s, w)[n + 1] = w
      /\ \A i \in 1..n : Append(s, w)[i] = s[i]
  <2>1. w \in Values
    OBVIOUS
  <2> HIDE DEF Values
  <2>2. /\ Append(s, w) \in Seq(Values) /\ Len(Append(s, w)) = Len(s) + 1
        /\ Append(s, w)[Len(s) + 1] = w
        /\ \A i \in 1..Len(s) : Append(s, w)[i] = s[i]
    BY <1>2, <2>1, OneAppended
  <2> QED
    BY <1>1, <2>2
<1>4. /\ Len(Append(g.own, r)) = n + 1 /\ Append(g.own, r)[n + 1] = r
      /\ \A i \in 1..n : Append(g.own, r)[i] = g.own[i]
  BY <1>1, <1>2
<1>5. ASSUME NEW i \in 1..n
      PROVE  g.own[i] \in Regs /\ g.own[i] # r /\ g.regs[g.own[i]] = s[i]
  <2>1. g.own[i] \in Regs /\ g.regs[g.own[i]] = s[i]
    BY <1>1 DEF Operands
  <2>2. i \in Owners(g.own)
    BY <1>1, <1>2, <2>1, RegsAssumption DEF Owners
  <2>3. g.own[i] \in g.used
    BY <2>2 DEF Tracked, OwnedBy
  <2> QED
    BY <2>1, <2>3
<1>6. k.regs[r] = w /\ \A q \in Regs : q # r => k.regs[q] = g.regs[q]
  BY DEF HasWords
<1>7. ASSUME NEW i \in 1..n + 1
      PROVE  k.own[i] \in Regs /\ k.regs[k.own[i]] = Append(s, w)[i]
  <2>1. CASE i = n + 1
    BY <1>3, <1>4, <1>6, <2>1
  <2>2. CASE i # n + 1
    BY <1>3, <1>4, <1>5, <1>6, <2>2
  <2> QED
    BY <2>1, <2>2
<1> QED
  BY <1>3, <1>4, <1>7 DEF Operands

(* What the proofs about the instructions start from: the machine agrees    *)
(* with the meaning, and no return was executed.                            *)
Runs(g, m, z) ==
  /\ HasWords(g) /\ Holds(g, {}, Len(g.own)) /\ g.spills = {} /\ ~g.left
  /\ Agree(g, m, z) /\ Sized(z) /\ val.maxStack \in Nat

\* The machine did an instruction and has k, where the operands are s.
Gets(g, k, s) ==
  /\ HasWords(k) /\ k.arch = g.arch /\ k.left = g.left /\ k.mem = g.mem
  /\ Operands(k, s)

(* i32.const leaves its constant on top.                                    *)
LEMMA ConstRuns ==
  ASSUME NEW g, NEW m, NEW z, Runs(g, m, z), NEW c \in Values,
         NEW k, k = ConstI32(g, c), ~Faulty(k), k.spills = {}
  PROVE  Gets(g, k, Append(m.operands, c)) /\ k.carry = g.carry
<1>1. PICK n : n = Len(g.own) /\ Holds(g, {}, n)
  BY DEF Runs
<1>2. PICK p : p = PushValue(g)
  OBVIOUS
<1>3. PICK a : a = AllocateRegister(p)
  OBVIOUS
<1>4. PICK e : e = EnsureInRegister(p, TopReg(p), Slot(Len(p.own)))
  OBVIOUS
<1>5. PICK t : t = SetTop(e)
  OBVIOUS
<1>6. k = Write(t, t.got, c)
  BY <1>2, <1>4, <1>5 DEF ConstI32
<1>7. ~Faulty(t) /\ ~Faulty(e) /\ ~Faulty(p)
  BY <1>4, <1>5, <1>6, FaultStays, EnsureFaulty
<1>8. n < val.maxStack /\ val.maxStack \in Nat /\ HasWords(g) /\ g.spills = {}
  BY <1>1, <1>2, <1>7, PushHolds DEF Runs
<1>9. TopReg(p) = NoReg /\ Holds(p, {}, n + 1)
      /\ p.own # <<>> /\ Last(p.own) = NoReg
  BY <1>1, <1>2, <1>8, PushHolds DEF TopReg
<1>10. PICK o : e = Write(a, a.got, a.mem[o]) /\ o = Slot(Len(p.own))
  BY <1>3, <1>4, <1>9 DEF EnsureInRegister
<1>11. ~Faulty(a)
  BY <1>7, <1>10, FaultStays
<1>12. Holds(a, {} \cup {a.got}, n + 1)
  BY <1>3, <1>8, <1>9, <1>11, PushAllocates
<1>13. SameCompiler(a, e)
  BY <1>10, <1>12, WriteKeeps DEF Holds
<1>14. e.own # <<>> /\ ~e.fault
  <2>1. Len(a.own) = n + 1 /\ n \in Nat /\ ~a.fault
    BY <1>1, <1>12 DEF Holds, IsCompiler, Compilers
  <2> QED
    BY <1>13, <2>1, EmptySeq DEF SameCompiler
<1>15. IsCompiler(t) /\ t.spills = e.spills
  <2>1. t = [e EXCEPT !.own = Append(Front(@), e.got)]
    BY <1>5, <1>14 DEF SetTop
  <2>2. IsCompiler(e) /\ e.own \in Seq(Regs \cup {NoReg})
        /\ e.got \in Regs \cup {NoReg}
    BY <1>13 DEF SameCompiler, IsCompiler, Compilers
  <2>3. Append(Front(e.own), e.got) \in Seq(Regs \cup {NoReg})
    BY <1>14, <2>2, ReplaceLast
  <2> QED
    BY <2>1, <2>2, <2>3 DEF IsCompiler, Compilers
<1>16. a.spills = {}
  BY <1>6, <1>13, <1>15, WriteKeeps DEF SameCompiler
<1>17. /\ Plain(g, a) /\ a.own = Append(g.own, NoReg) /\ a.regs = g.regs
       /\ a.got \in Regs \ g.used
  BY <1>1, <1>2, <1>3, <1>8, <1>11, <1>16, PushesPlain
<1>18. PICK r \in Regs \ g.used : r = a.got
  BY <1>17
<1>19. PICK u : u = [g.regs EXCEPT ![r] = a.mem[o]]
  OBVIOUS
<1>20. e.regs = u /\ e.left = g.left /\ e.mem = g.mem /\ e.got = r
       /\ e.arch = g.arch /\ e.carry = g.carry /\ e.own = a.own
  <2>1. e = [a EXCEPT !.regs[r] = a.mem[o]]
    BY <1>10, <1>17, <1>18 DEF Write, Plain, Runs
  <2> QED
    BY <1>17, <1>18, <1>19, <2>1 DEF Plain, HasWords, IsCompiler, Compilers
<1>21. t.own = Append(g.own, r) /\ t.regs = u /\ t.left = g.left /\ t.got = r
       /\ t.mem = g.mem /\ t.arch = g.arch /\ t.carry = g.carry /\ ~t.fault
  <2>1. t = [e EXCEPT !.own = Append(Front(@), e.got)]
    BY <1>5, <1>14 DEF SetTop
  <2>2. Front(e.own) = g.own
    BY <1>8, <1>17, <1>20, FrontAppended DEF HasWords, IsCompiler, Compilers
  <2>3. IsCompiler(e)
    BY <1>13 DEF SameCompiler
  <2> QED
    BY <1>14, <1>20, <2>1, <2>2, <2>3 DEF IsCompiler, Compilers
<1>22. k = [t EXCEPT !.regs[r] = c]
  BY <1>6, <1>21 DEF Write, Runs
<1>23. k.regs = [g.regs EXCEPT ![r] = c]
  <2>1. k.regs = [u EXCEPT ![r] = c]
    BY <1>15, <1>21, <1>22 DEF IsCompiler, Compilers
  <2>2. g.regs \in [Regs -> Words]
    BY <1>8 DEF HasWords
  <2> QED
    BY <1>18, <1>19, <2>1, <2>2
<1>24. /\ IsCompiler(k) /\ k.arch = g.arch /\ k.left = g.left /\ k.mem = g.mem
       /\ k.own = Append(g.own, r) /\ k.carry = g.carry
  BY <1>15, <1>21, <1>22 DEF IsCompiler, Compilers
<1>25. HasWords(k)
  BY <1>8, <1>23, <1>24, ValuesAreWords DEF HasWords
<1>26. Operands(k, Append(m.operands, c))
  BY <1>1, <1>8, <1>23, <1>24, OperandPushed DEF Runs, Agree, Holds
<1> QED
  BY <1>24, <1>25, <1>26 DEF Gets


(* local.get puts the parameter's word on top.                              *)
LEMMA GetRuns ==
  ASSUME NEW g, NEW m, NEW z, Runs(g, m, z), NEW i \in 1..NParams,
         z = StackSizeBytes,
         NEW k, k = GetLocalI32(g, i), ~Faulty(k), k.spills = {}
  PROVE  Gets(g, k, Append(m.operands, m.locals[i])) /\ k.carry = g.carry
<1>1. PICK n : n = Len(g.own) /\ Holds(g, {}, n)
  BY DEF Runs
<1>2. PICK p : p = PushValue(g)
  OBVIOUS
<1>3. PICK a : a = AllocateRegister(p)
  OBVIOUS
<1>4. PICK t : t = SetTop(a)
  OBVIOUS
<1>5. PICK w : w = t.mem[WordOf(i, z)]
  OBVIOUS
<1>6. k = Write(t, t.got, w)
  BY <1>2, <1>3, <1>4, <1>5 DEF GetLocalI32, WordOf, LocalStackOffset
<1>7. ~Faulty(t) /\ ~Faulty(a) /\ ~Faulty(p)
  BY <1>3, <1>4, <1>6, FaultStays
<1>8. n < val.maxStack /\ val.maxStack \in Nat /\ HasWords(g) /\ g.spills = {}
  BY <1>1, <1>2, <1>7, PushHolds DEF Runs
<1>9. Holds(p, {}, n + 1) /\ p.own # <<>> /\ Last(p.own) = NoReg
  BY <1>1, <1>2, <1>8, PushHolds
<1>10. Holds(a, {} \cup {a.got}, n + 1)
  BY <1>3, <1>7, <1>8, <1>9, PushAllocates
<1>11. a.own # <<>>
  <2>1. Len(a.own) = n + 1 /\ n \in Nat
    BY <1>1, <1>10 DEF Holds, IsCompiler, Compilers
  <2> QED
    BY <2>1, EmptySeq
<1>12. IsCompiler(t) /\ t.spills = a.spills
  <2>1. t = [a EXCEPT !.own = Append(Front(@), a.got)]
    BY <1>4, <1>11 DEF SetTop
  <2>2. /\ IsCompiler(a) /\ a.own \in Seq(Regs \cup {NoReg})
        /\ a.got \in Regs \cup {NoReg}
    BY <1>10 DEF Holds, IsCompiler, Compilers
  <2>3. Append(Front(a.own), a.got) \in Seq(Regs \cup {NoReg})
    BY <1>11, <2>2, ReplaceLast
  <2> QED
    BY <2>1, <2>2, <2>3 DEF IsCompiler, Compilers
<1>13. a.spills = {}
  BY <1>6, <1>12, WriteKeeps DEF SameCompiler
<1>14. /\ Plain(g, a) /\ a.own = Append(g.own, NoReg) /\ a.regs = g.regs
       /\ a.got \in Regs \ g.used
  BY <1>1, <1>2, <1>3, <1>7, <1>8, <1>13, PushesPlain
<1>15. /\ Plain(a, t) /\ t.own = Append(g.own, a.got) /\ t.got = a.got
       /\ t.regs = a.regs
  <2>1. g.own \in Seq(Regs \cup {NoReg})
    BY <1>8 DEF HasWords, IsCompiler, Compilers
  <2>2. HasWords(a) /\ ~a.fault
    BY <1>14 DEF Plain
  <2>3. NoReg \in Regs \cup {NoReg} /\ a.got \in Regs
    BY <1>14
  <2> QED
    BY <1>4, <1>13, <1>14, <2>1, <2>2, <2>3, SetsPlain
<1>16. w = m.locals[i] /\ w \in Values
  BY <1>5, <1>14, <1>15 DEF Plain, Runs, Agree, Parameters
<1>17. /\ Plain(t, k) /\ k.own = t.own
       /\ k.regs = [t.regs EXCEPT ![t.got] = w]
  BY <1>6, <1>14, <1>15, <1>16, ValuesAreWords, WritesPlain DEF Plain, Runs
<1>18. Operands(k, Append(m.operands, w))
  <2>1. /\ HasWords(g) /\ Operands(g, m.operands)
        /\ Tracked(g.used, g.own, {})
    BY <1>1 DEF Runs, Agree, Holds
  <2>2. PICK q \in Regs \ g.used : q = a.got
    BY <1>14
  <2>3. k.own = Append(g.own, q) /\ k.regs = [g.regs EXCEPT ![q] = w]
    BY <1>14, <1>15, <1>17, <2>2
  <2> QED
    BY <1>16, <2>1, <2>3, OperandPushed
<1> QED
  BY <1>14, <1>15, <1>16, <1>17, <1>18 DEF Gets, Plain

(* A compiler that did not go wrong has its top value in a register, as all *)
(* values are while nothing is spilled: no instruction is emitted for it.   *)
LEMMA TopRuns ==
  ASSUME NEW g, HasWords(g), g.own # <<>>, TopReg(g) \in Regs, NEW o,
         NEW e, e = EnsureInRegister(g, TopReg(g), o)
  PROVE  /\ HasWords(e) /\ e.got = Last(g.own)
         /\ e.own = g.own /\ e.used = g.used /\ e.regs = g.regs
         /\ e.mem = g.mem /\ e.left = g.left /\ e.fault = g.fault
         /\ e.arch = g.arch /\ e.carry = g.carry /\ e.spills = g.spills
<1>1. TopReg(g) = Last(g.own)
  BY DEF TopReg
<1>2. e = [g EXCEPT !.got = Last(g.own)]
  BY <1>1, RegsAssumption DEF EnsureInRegister
<1> QED
  BY <1>1, <1>2 DEF HasWords, IsCompiler, Compilers

\* A value in a register owns it.
LEMMA OwnerIs ==
  ASSUME NEW own \in Seq(Regs \cup {NoReg}), NEW n \in Nat, n = Len(own),
         NEW i \in 1..n, own[i] \in Regs
  PROVE  i \in Owners(own)
<1>1. i \in DOMAIN own
  OBVIOUS
<1>2. own[i] # NoReg
  BY RegsAssumption
<1> QED
  BY <1>1, <1>2 DEF Owners

(* Giving a register back changes nothing but who owns it.                  *)
LEMMA MarkKeeps ==
  ASSUME NEW a, HasWords(a), NEW r, NEW k, k = MarkRegisterUnused(a, r)
  PROVE  /\ HasWords(k) /\ k.own = a.own /\ k.regs = a.regs /\ k.mem = a.mem
         /\ k.left = a.left /\ k.arch = a.arch /\ k.carry = a.carry
<1>1. IsCompiler(a)
  BY DEF HasWords
<1>2. /\ IsCompiler(k) /\ k.own = a.own /\ k.regs = a.regs /\ k.mem = a.mem
      /\ k.left = a.left /\ k.arch = a.arch /\ k.carry = a.carry
  BY <1>1 DEF MarkRegisterUnused, IsCompiler, Compilers
<1> QED
  BY <1>2 DEF HasWords

\* A sum that wraps is a value.
LEMMA SumIsValue ==
  ASSUME NEW x \in Values, NEW y \in Values
  PROVE  (x + y) % Modulus \in Values
<1>1. PICK M \in Nat \ {0} : M = Modulus
  BY ValueAssumption
<1>2. PICK v \in Int : v = x + y
  BY <1>1 DEF Values
<1>3. v % M \in 0..M - 1
  BY <1>1
<1> QED
  BY <1>1, <1>2, <1>3 DEF Values

(* i32.add leaves the sum of the two topmost values, in the lower one's     *)
(* register; x64's takes no carry because Undisputed has none.              *)
LEMMA AddRuns ==
  ASSUME NEW g, NEW m, NEW z, Runs(g, m, z),
         NEW n \in Nat, n = Len(m.operands), n >= 2,
         g.arch = "x64" => g.carry = 0, g.arch \in {"x64", "arm64"},
         NEW k, k = AddI32(g)
  PROVE  /\ Gets(g, k, Append(SubSeq(m.operands, 1, n - 2),
                   (m.operands[n - 1] + m.operands[n]) % Modulus))
         /\ g.arch = "arm64" => k.carry = g.carry
<1> DEFINE s == m.operands
<1>1. /\ HasWords(g) /\ ~g.fault /\ ~g.left
      /\ Tracked(g.used, g.own, {}) /\ Operands(g, s)
  BY DEF Runs, Holds, Agree
<1>2. g.own \in Seq(Regs \cup {NoReg}) /\ s \in Seq(Values) /\ Len(g.own) = n
  BY <1>1 DEF HasWords, IsCompiler, Compilers, Operands
<1>3. PICK r1, r2 \in Regs : /\ r1 = g.own[n - 1] /\ r2 = g.own[n]
                             /\ g.regs[r1] = s[n - 1] /\ g.regs[r2] = s[n]
  <2>1. n - 1 \in 1..n /\ n \in 1..n
    OBVIOUS
  <2> QED
    BY <1>1, <2>1 DEF Operands
<1>4. PICK own1 \in Seq(Regs \cup {NoReg}) :
        /\ own1 = Front(g.own) /\ Len(own1) = n - 1
        /\ \A i \in 1..n - 1 : own1[i] = g.own[i]
  <2>1. g.own # <<>>
    BY <1>2, EmptySeq
  <2> QED
    BY <1>2, <2>1, FrontOf
<1>5. PICK own2 \in Seq(Regs \cup {NoReg}) :
        /\ own2 = Front(own1) /\ Len(own2) = n - 2
        /\ \A i \in 1..n - 2 : own2[i] = g.own[i]
  <2>1. own1 # <<>>
    BY <1>4, EmptySeq
  <2>2. /\ Front(own1) \in Seq(Regs \cup {NoReg})
        /\ Len(Front(own1)) = Len(own1) - 1
        /\ \A i \in 1..Len(own1) - 1 : Front(own1)[i] = own1[i]
    BY <2>1, FrontOf
  <2>3. Len(own1) - 1 = n - 2
    BY <1>4
  <2> QED
    BY <1>4, <2>2, <2>3
<1>6. own1 # <<>> /\ Last(own1) = r1 /\ g.own # <<>> /\ Last(g.own) = r2
  <2>1. own1 # <<>> /\ g.own # <<>>
    BY <1>2, <1>4, EmptySeq
  <2> QED
    BY <1>2, <1>3, <1>4, <2>1 DEF Last
<1>7. PICK p : p = PopValue(g)
  OBVIOUS
<1>8. p = [g EXCEPT !.own = own1]
  BY <1>4, <1>6, <1>7 DEF PopValue
<1>9. /\ HasWords(p) /\ p.own = own1 /\ p.used = g.used /\ p.regs = g.regs
      /\ p.mem = g.mem /\ p.left = g.left /\ p.fault = g.fault
      /\ p.arch = g.arch /\ p.carry = g.carry
  BY <1>1, <1>8 DEF HasWords, IsCompiler, Compilers
<1>10. PICK x2 : x2 = EnsureInRegister(p, TopReg(g), Slot(Len(g.own)))
  OBVIOUS
<1>11. TopReg(g) = r2
  BY <1>6 DEF TopReg
<1>12. x2 = [p EXCEPT !.got = r2]
  BY <1>10, <1>11, RegsAssumption DEF EnsureInRegister
<1>13. /\ HasWords(x2) /\ x2.own = own1 /\ x2.used = g.used
       /\ x2.regs = g.regs /\ x2.mem = g.mem /\ ~x2.left /\ ~x2.fault
       /\ x2.arch = g.arch /\ x2.carry = g.carry /\ x2.got = r2
  BY <1>1, <1>9, <1>12 DEF HasWords, IsCompiler, Compilers
<1>14. TopReg(x2) = r1
  BY <1>6, <1>13 DEF TopReg
<1>15. PICK e : e = EnsureInRegister(x2, TopReg(x2), Slot(Len(x2.own)))
  OBVIOUS
<1>16. /\ HasWords(e) /\ e.got = r1 /\ e.own = own1
       /\ e.regs = g.regs /\ e.mem = g.mem /\ ~e.left /\ ~e.fault
       /\ e.arch = g.arch /\ e.carry = g.carry
  BY <1>6, <1>13, <1>14, <1>15, TopRuns
<1>17. PICK x1 : x1 = SetTop(e)
  OBVIOUS
<1>18. x1 = [e EXCEPT !.own = Append(own2, r1)]
  BY <1>5, <1>6, <1>16, <1>17 DEF SetTop
<1>19. Append(own2, r1) \in Seq(Regs \cup {NoReg})
  OBVIOUS
<1>20. /\ HasWords(x1) /\ x1.got = r1 /\ x1.own = Append(own2, r1)
       /\ x1.regs = g.regs /\ x1.mem = g.mem /\ ~x1.left /\ ~x1.fault
       /\ x1.arch = g.arch /\ x1.carry = g.carry
  BY <1>16, <1>18, <1>19 DEF HasWords, IsCompiler, Compilers
<1>21. PICK w : w = (s[n - 1] + s[n]) % Modulus
  OBVIOUS
<1>22. w \in Values /\ s[n - 1] \in Values /\ s[n] \in Values
  <2>1. n - 1 \in 1..n /\ n \in 1..n
    OBVIOUS
  <2>2. s[n - 1] \in Values /\ s[n] \in Values
    BY <1>2, <2>1
  <2>3. w \in Values
    BY <1>21, <2>2, SumIsValue
  <2> QED
    BY <2>2, <2>3
<1>23. PICK a : a = AddCode(x1, r1, r2)
  OBVIOUS
<1>24. Sum(x1.regs[r1], x1.regs[r2], 0) = w
  <2>1. Junk \notin {s[n - 1], s[n]}
    BY <1>22, ValuesAreWords
  <2>2. s[n - 1] + s[n] + 0 = s[n - 1] + s[n]
    BY <1>22 DEF Values
  <2> QED
    BY <1>3, <1>20, <1>21, <2>1, <2>2 DEF Sum
<1>25. PICK u : u = [x1 EXCEPT !.regs[r1] = w]
  OBVIOUS
<1>26. a = u \/ (g.arch # "arm64" /\ \E c : a = [u EXCEPT !.carry = c])
  <2>1. (IF x1.arch = "x64" THEN x1.carry ELSE 0) = 0
    BY <1>20
  <2>2. Write(x1, r1, Sum(x1.regs[r1], x1.regs[r2], 0)) = u
    BY <1>20, <1>24, <1>25 DEF Write
  <2> QED
    BY <1>20, <1>23, <2>1, <2>2 DEF AddCode
<1>27. /\ HasWords(u) /\ u.own = Append(own2, r1)
       /\ u.regs = [g.regs EXCEPT ![r1] = w] /\ u.mem = g.mem /\ u.left = g.left
       /\ u.arch = g.arch /\ u.carry = g.carry
  <2>1. IsCompiler(x1) /\ g.regs \in [Regs -> Words]
    BY <1>1, <1>20 DEF HasWords
  <2>2. u.regs = [g.regs EXCEPT ![r1] = w]
    BY <1>20, <1>25, <2>1 DEF IsCompiler, Compilers
  <2>3. [g.regs EXCEPT ![r1] = w] \in [Regs -> Words]
    BY <1>22, <2>1, ValuesAreWords
  <2>4. /\ IsCompiler(u) /\ u.own = x1.own /\ u.mem = x1.mem
        /\ u.left = x1.left /\ u.arch = x1.arch /\ u.carry = x1.carry
    BY <1>25, <2>1 DEF IsCompiler, Compilers
  <2>5. u.regs \in [Regs -> Words]
    BY <2>2, <2>3
  <2>6. g.mem \in [Offsets -> Words]
    BY <1>1 DEF HasWords
  <2>7. HasWords(u)
    BY <1>20, <2>4, <2>5, <2>6 DEF HasWords
  <2>8. x1.left = g.left
    BY <1>1, <1>20 DEF HasWords, IsCompiler, Compilers
  <2> QED
    BY <1>20, <2>2, <2>4, <2>7, <2>8
<1>28. /\ HasWords(a) /\ a.own = u.own /\ a.regs = u.regs /\ a.mem = u.mem
       /\ a.left = u.left /\ a.arch = u.arch
       /\ g.arch = "arm64" => a.carry = u.carry
  BY <1>26, <1>27 DEF HasWords, IsCompiler, Compilers
<1>29. k = MarkRegisterUnused(a, r2)
  BY <1>7, <1>10, <1>13, <1>15, <1>17, <1>20, <1>23 DEF AddI32
<1>30. /\ HasWords(k) /\ k.own = Append(own2, r1)
       /\ k.regs = [g.regs EXCEPT ![r1] = w] /\ k.mem = g.mem
       /\ k.left = g.left /\ k.arch = g.arch
       /\ g.arch = "arm64" => k.carry = g.carry
  BY <1>27, <1>28, <1>29, MarkKeeps
<1>31. PICK s2 \in Seq(Values) : /\ s2 = SubSeq(s, 1, n - 2)
                                 /\ Len(s2) = n - 2
                                 /\ \A i \in 1..n - 2 : s2[i] = s[i]
  <2>1. n - 2 \in Nat /\ n - 2 =< Len(s)
    OBVIOUS
  <2>2. SubSeq(s, 1, n - 2) \in Seq(Values) /\ Len(SubSeq(s, 1, n - 2)) = n - 2
    BY <1>2, <2>1, FirstElements
  <2>3. \A i \in 1..n - 2 : SubSeq(s, 1, n - 2)[i] = s[i]
    BY <1>2, <2>1
  <2> QED
    BY <2>2, <2>3
<1>32. Operands(k, Append(s2, w))
  <2>1. /\ Append(s2, w) \in Seq(Values) /\ Len(Append(s2, w)) = Len(s2) + 1
        /\ Append(s2, w)[Len(s2) + 1] = w
        /\ \A i \in 1..Len(s2) : Append(s2, w)[i] = s2[i]
    BY <1>22, OneAppended
  <2>2. /\ Len(Append(own2, r1)) = Len(own2) + 1
        /\ Append(own2, r1)[Len(own2) + 1] = r1
        /\ \A i \in 1..Len(own2) : Append(own2, r1)[i] = own2[i]
    BY OneAppended
  <2>3. ASSUME NEW i \in 1..n - 2
        PROVE  g.own[i] \in Regs /\ g.own[i] # r1 /\ g.regs[g.own[i]] = s[i]
    <3>1. i \in 1..n /\ n - 1 \in 1..n /\ i # n - 1
      OBVIOUS
    <3>2. g.own[i] \in Regs /\ g.regs[g.own[i]] = s[i]
      BY <1>1, <3>1 DEF Operands
    <3>3. i \in Owners(g.own) /\ n - 1 \in Owners(g.own)
      BY <1>2, <1>3, <3>1, <3>2, OwnerIs
    <3>4. \A j, l \in Owners(g.own) : g.own[j] = g.own[l] => j = l
      BY <1>1 DEF Tracked, Exclusive
    <3>5. g.own[i] # g.own[n - 1]
      BY <3>1, <3>3, <3>4
    <3> QED
      BY <1>3, <3>2, <3>5
  <2>4. k.regs[r1] = w /\ \A q \in Regs : q # r1 => k.regs[q] = g.regs[q]
    <3>1. g.regs \in [Regs -> Words]
      BY <1>1 DEF HasWords
    <3> QED
      BY <1>30, <3>1
  <2>5. ASSUME NEW i \in 1..n - 1
        PROVE  /\ k.own[i] \in Regs
               /\ k.regs[k.own[i]] = Append(s2, w)[i]
    <3>1. CASE i = n - 1
      <4>1. k.own[i] = r1 /\ Append(s2, w)[i] = w
        BY <1>5, <1>30, <1>31, <2>1, <2>2, <3>1
      <4> QED
        BY <2>4, <4>1
    <3>2. CASE i # n - 1
      <4>1. i \in 1..n - 2
        BY <3>2
      <4>2. k.own[i] = g.own[i] /\ Append(s2, w)[i] = s[i]
        <5>1. i \in 1..Len(own2) /\ i \in 1..Len(s2)
          BY <1>5, <1>31, <4>1
        <5>2. k.own[i] = own2[i] /\ Append(s2, w)[i] = s2[i]
          BY <1>30, <2>1, <2>2, <5>1
        <5> QED
          BY <1>5, <1>31, <4>1, <5>2
      <4> QED
        BY <2>3, <2>4, <4>1, <4>2
    <3> QED
      BY <3>1, <3>2
  <2>6. Len(Append(s2, w)) = n - 1 /\ Len(k.own) = n - 1
    BY <1>5, <1>30, <1>31, <2>1, <2>2
  <2> QED
    BY <2>1, <2>5, <2>6 DEF Operands
<1> QED
  BY <1>21, <1>30, <1>31, <1>32 DEF Gets

-----------------------------------------------------------------------------
(* The invariant.  Before compilation no code was emitted; during it the    *)
(* machine agrees with the meaning; afterwards it returned the result.      *)
Valued ==
  /\ gen.regs \in [Regs -> Words] /\ gen.mem \in [Offsets -> Words]
  /\ out \in Words
  /\ phase = "parse" => \E arch \in Archs : gen = NewCompiler(arch)
  /\ phase = "compile" =>
       /\ gen.arch \in {"x64", "arm64"} /\ (gen.arch = "arm64" => gen.carry = 0)
       /\ gen.left => pc = Len(body)
       /\ Agree(gen, ref, StackSizeBytes)
  /\ phase = "done" /\ Results # <<>> => out = Last(ref.operands)

(* Nothing was written yet.                                                 *)
LEMMA NewHasWords ==
  ASSUME NEW arch, NEW g, g = NewCompiler(arch)
  PROVE  /\ HasWords(g) /\ ~g.left /\ g.own = <<>> /\ g.carry = 0
         /\ g.arch = arch /\ g.spills = {} /\ ~g.fault
<1>1. Junk \in Words
  BY ValueAssumption DEF Junk, Words
<1> QED
  BY <1>1 DEF NewCompiler, HasWords, IsCompiler, Compilers

(* Nothing has been compiled yet: every word is junk, and in range.         *)
LEMMA InitValued == Init => Valued
<1>1. Junk \in Words
  BY ValueAssumption DEF Junk, Words
<1>2. ASSUME Init PROVE Valued
  <2>1. phase = "parse" /\ out = Junk
    BY <1>2 DEF Init
  <2>2. PICK arch \in Archs : gen = NewCompiler(arch)
    BY <1>2 DEF Init
  <2>3. HasWords(gen)
    BY <2>2, NewHasWords
  <2> QED
    BY <1>1, <2>1, <2>2, <2>3 DEF Valued, HasWords
<1> QED
  BY <1>2

(* The parser emits nothing.                                                *)
LEMMA EmitValued ==
  ASSUME Valued, NEW ins \in Instructions, Emit(ins) PROVE Valued'
<1>1. phase = "parse" /\ phase' \in {"parse", "rejected"}
      /\ UNCHANGED <<gen, out>>
  BY DEF Emit
<1> QED
  BY <1>1 DEF Valued

(* The prologue stores the parameters where get will find them.             *)
LEMMA EndValued ==
  ASSUME IInv, Valued, FrameFits, NEW args \in [1..NParams -> Args], End(args)
  PROVE  Valued'
<1>1. phase = "parse" /\ val' = Finalize(val) /\ UNCHANGED <<body, pc, out>>
  BY DEF End
<1>2. val \in Validators /\ pc = 0
  BY <1>1 DEF IInv, Typed, Parsing
<1>3. val'.maxMemory = val.maxMemory
  BY <1>1, <1>2, ResultsPopped DEF Finalize
<1>4. PICK z : z = StackSizeBytes
  OBVIOUS
<1>5. StackSizeBytes' = z
  BY <1>3, <1>4 DEF StackSizeBytes
<1>6. Sized(z)
  <2>1. val.maxMemory \in 0..SizeMod - 1
    BY <1>2 DEF Validators
  <2> QED
    BY <1>4, <2>1, FrameSized DEF StackSizeBytes
<1>7. CASE ~val'.ok
  BY <1>1, <1>7 DEF End, Valued
<1>8. CASE val'.ok
  <2>1. /\ phase' = "compile" /\ gen' = Prologue(gen, args)
        /\ ref' = NewRef(args)
    BY <1>8 DEF End
  <2>2. PICK arch \in Archs : gen = NewCompiler(arch)
    BY <1>1 DEF Valued
  <2>3. /\ HasWords(gen) /\ ~gen.left /\ gen.own = <<>> /\ gen.carry = 0
        /\ gen.arch = arch
    BY <2>2, NewHasWords
  <2> DEFINE param(o) == {i \in 1..NParams : o = WordOf(i, z)}
             mem == [o \in Offsets |-> IF param(o) = {} THEN gen.mem[o]
                                       ELSE args[CHOOSE i \in param(o) : TRUE]]
  <2>4. gen' = [gen EXCEPT !.mem = mem]
    BY <1>4, <2>1 DEF Prologue, WordOf, LocalStackOffset
  <2>5. NParams \in 0..Len(LocalTypes) /\ Len(LocalTypes) \in Nat
    BY ArchAssumption, LocalsAssumption
  <2>6. ASSUME NEW i \in 1..NParams
        PROVE  WordOf(i, z) \in Offsets /\ param(WordOf(i, z)) = {i}
    <3>1. i \in 1..Len(LocalTypes) /\ 1..NParams \subseteq 1..Len(LocalTypes)
      BY <2>5
    <3> QED
      BY <1>6, <3>1, LocalsFramed
  <2>7. ASSUME NEW i \in 1..NParams PROVE args[i] \in Values
    BY ValueAssumption DEF Values
  <2>8. mem \in [Offsets -> Words]
    <3>1. ASSUME NEW o \in Offsets PROVE mem[o] \in Words
      <4>1. CASE param(o) = {}
        BY <2>3, <4>1 DEF HasWords
      <4>2. CASE param(o) # {}
        <5>1. (CHOOSE i \in param(o) : TRUE) \in 1..NParams
          BY <4>2
        <5> QED
          BY <2>7, <4>2, <5>1, ValuesAreWords
      <4> QED
        BY <4>1, <4>2
    <3> QED
      BY <3>1
  <2>9. ASSUME NEW i \in 1..NParams PROVE mem[WordOf(i, z)] = args[i]
    <3>1. (CHOOSE j \in param(WordOf(i, z)) : TRUE) = i
      <4>1. param(WordOf(i, z)) = {i}
        BY <2>6
      <4> HIDE DEF param
      <4> QED
        BY <4>1
    <3> QED
      BY <2>6, <3>1
  <2> HIDE DEF mem
  <2>10. /\ gen'.mem = mem /\ gen'.regs = gen.regs /\ gen'.left = FALSE
         /\ gen'.own = <<>> /\ gen'.carry = 0 /\ gen'.arch = arch
    BY <2>3, <2>4 DEF HasWords, IsCompiler, Compilers
  <2>11. ref'.done = FALSE /\ ref'.operands = <<>>
    BY <2>1 DEF NewRef
  <2>12. ASSUME NEW i \in 1..NParams
         PROVE  ref'.locals[i] = args[i]
    <3>1. i \in DOMAIN LocalTypes /\ i =< NParams
      BY <2>5, LocalsAssumption
    <3> QED
      BY <2>1, <3>1 DEF NewRef
  <2>13. Operands(gen', ref'.operands)
    <3>1. <<>> \in Seq(Values) /\ Len(<<>>) = 0
      OBVIOUS
    <3> QED
      BY <2>10, <2>11, <3>1 DEF Operands
  <2>14. Parameters(gen', ref'.locals, z)
    BY <2>7, <2>9, <2>10, <2>12 DEF Parameters
  <2>15. Agree(gen', ref', z)
    BY <2>10, <2>11, <2>13, <2>14 DEF Agree
  <2>16. Agree(gen, ref, StackSizeBytes)'
    BY <1>5, <2>15 DEF Agree
  <2>17. gen'.regs \in [Regs -> Words] /\ gen'.mem \in [Offsets -> Words]
    BY <2>3, <2>8, <2>10 DEF HasWords
  <2>18. arch \in {"x64", "arm64"}
    BY ArchAssumption
  <2> QED
    BY <1>1, <2>1, <2>10, <2>16, <2>17, <2>18 DEF Valued
<1> QED
  BY <1>7, <1>8

(* While code is emitted no return was executed before: a return is the     *)
(* body's last instruction.                                                 *)
LEMMA ReturnIsLast ==
  ASSUME ~DeadCode, NEW b \in Seq(Instructions), NEW h, Parsed(h, b),
         NEW k \in 1..Len(b), b[k].op = "return"
  PROVE  k = Len(b)
<1>1. PICK n \in Nat : n = Len(b)
  OBVIOUS
<1>2. k - 1 \in 0..n /\ k \in 0..n
  BY <1>1
<1>3. h[k - 1] \in Validators /\ h[k] = Validate(h[k - 1], b[k])
  BY <1>1, <1>2 DEF Parsed
<1>4. h[k].unreachable
  <2>1. PICK p \in Validators : p = AssertEmpty(PopResults(h[k - 1]))
    BY <1>3, ResultsPopped
  <2>2. h[k] = [p EXCEPT !.unreachable = TRUE]
    BY <1>3, <2>1 DEF Validate, ValidateReturn
  <2> QED
    BY <2>1, <2>2 DEF Validators
<1> QED
  BY <1>1, <1>2, <1>4 DEF Parsed

(* The meaning of an instruction is that of its operands, in a body that is *)
(* not over and never lacks an operand.                                     *)
LEMMA MeaningSteps ==
  ASSUME NEW m, IsMeaning(m), ~m.done, ~m.stuck, NEW ins \in Instructions,
         NEW k, k = Step(m, ins), ~k.stuck, ins.op # "set"
  PROVE  /\ Needs[ins.op] =< Len(m.operands)
         /\ k.done = (ins.op = "return") /\ k.locals = m.locals
         /\ ins.op = "const" => k.operands = Append(m.operands, ins.arg)
         /\ ins.op = "get" => k.operands = Append(m.operands, m.locals[ins.arg])
         /\ ins.op \in {"return", "label"} => k.operands = m.operands
         /\ ins.op = "add" =>
              LET n == Len(m.operands) IN
              k.operands = Append(SubSeq(m.operands, 1, n - 2),
                             (m.operands[n - 1] + m.operands[n]) % Modulus)
<1>1. ins.op \in {"const", "add", "get", "return", "label"}
  BY ArchAssumption DEF Instructions
<1>2. Needs[ins.op] \in Nat /\ Len(m.operands) \in Nat
  BY <1>1, ArchAssumption DEF Needs, IsMeaning
<1>3. Needs[ins.op] =< Len(m.operands)
  <2>1. CASE Len(m.operands) < Needs[ins.op]
    <3>1. k = [m EXCEPT !.stuck = TRUE]
      BY <2>1 DEF Step
    <3> QED
      BY <3>1 DEF IsMeaning
  <2> QED
    BY <1>2, <2>1
<1>4. k = Effect(m, ins)
  BY <1>2, <1>3 DEF Step
<1>5. PICK o : o = Append(SubSeq(m.operands, 1, Len(m.operands) - 2),
                 (m.operands[Len(m.operands) - 1]
                  + m.operands[Len(m.operands)]) % Modulus)
  OBVIOUS
<1>6. CASE ins.op = "const"
  <2>1. k = [m EXCEPT !.operands = Append(m.operands, ins.arg)]
    BY <1>4, <1>6 DEF Effect
  <2> QED
    BY <1>3, <1>6, <2>1 DEF IsMeaning
<1>7. CASE ins.op = "get"
  <2>1. k = [m EXCEPT !.operands = Append(m.operands, m.locals[ins.arg])]
    BY <1>4, <1>7 DEF Effect
  <2> QED
    BY <1>3, <1>7, <2>1 DEF IsMeaning
<1>8. CASE ins.op = "add"
  <2>1. k = [m EXCEPT !.operands = o]
    BY <1>4, <1>5, <1>8 DEF Effect
  <2> QED
    BY <1>3, <1>5, <1>8, <2>1 DEF IsMeaning
<1>9. CASE ins.op = "return"
  <2>1. k = [m EXCEPT !.done = TRUE]
    BY <1>4, <1>9 DEF Effect
  <2> QED
    BY <1>3, <1>9, <2>1 DEF IsMeaning
<1>10. CASE ins.op = "label"
  <2>1. k = m
    BY <1>4, <1>10 DEF Effect
  <2> QED
    BY <1>3, <1>10, <2>1 DEF IsMeaning
<1> QED
  BY <1>1, <1>6, <1>7, <1>8, <1>9, <1>10

(* An instruction keeps machine and meaning together.                       *)
LEMMA InstructionRuns ==
  ASSUME NEW g, NEW m, NEW z, Runs(g, m, z), z = StackSizeBytes,
         IsMeaning(m), ~m.stuck, g.arch \in {"x64", "arm64"},
         NEW ins \in Instructions, ins.op # "set",
         ins.op = "get" => ins.arg =< NParams,
         g.arch = "x64" /\ ins.op = "add" => g.carry = 0,
         g.arch = "arm64" => g.carry = 0,
         NEW k, k = Compile(g, ins), ~Faulty(k), k.spills = {},
         NEW l, l = Step(m, ins), ~l.stuck
  PROVE  /\ HasWords(k) /\ Agree(k, l, z) /\ k.arch = g.arch
         /\ k.left = (ins.op = "return")
         /\ g.arch = "arm64" => k.carry = 0
<1>1. ins.op \in {"const", "add", "get", "return", "label"}
  BY ArchAssumption DEF Instructions
<1>2. /\ HasWords(g) /\ g.left = FALSE /\ m.done = FALSE
      /\ Operands(g, m.operands) /\ Parameters(g, m.locals, z)
  <2>1. g.left = m.done /\ ~g.left /\ HasWords(g)
    BY DEF Runs, Agree
  <2>2. g.left \in BOOLEAN
    BY <2>1 DEF HasWords, IsCompiler, Compilers
  <2> QED
    BY <2>1, <2>2 DEF Runs, Agree
<1>3. /\ Needs[ins.op] =< Len(m.operands)
      /\ l.done = (ins.op = "return") /\ l.locals = m.locals
  BY <1>2, MeaningSteps
<1>4. SUFFICES /\ HasWords(k) /\ k.arch = g.arch /\ k.mem = g.mem
               /\ Operands(k, l.operands) /\ k.left = (ins.op = "return")
               /\ g.arch = "arm64" => k.carry = 0
  BY <1>2, <1>3 DEF Agree, Parameters
<1>5. CASE ins.op = "const"
  <2>1. ins.arg \in Values
    BY <1>5, ValueAssumption DEF Instructions, Values
  <2>2. l.operands = Append(m.operands, ins.arg)
    BY <1>2, <1>5, MeaningSteps
  <2>3. k = ConstI32(g, ins.arg)
    BY <1>5 DEF Compile
  <2>4. Gets(g, k, Append(m.operands, ins.arg)) /\ k.carry = g.carry
    BY <2>1, <2>3, ConstRuns
  <2> QED
    BY <1>2, <1>5, <2>2, <2>4 DEF Gets
<1>6. CASE ins.op = "get"
  <2>1. ins.arg \in 1..NParams
    BY <1>6, ArchAssumption, LocalsAssumption DEF Instructions
  <2>2. l.operands = Append(m.operands, m.locals[ins.arg])
    BY <1>2, <1>6, MeaningSteps
  <2>3. k = GetLocalI32(g, ins.arg)
    BY <1>6 DEF Compile
  <2>4. /\ Gets(g, k, Append(m.operands, m.locals[ins.arg]))
        /\ k.carry = g.carry
    BY <2>1, <2>3, GetRuns
  <2> QED
    BY <1>2, <1>6, <2>2, <2>4 DEF Gets
<1>7. CASE ins.op = "add"
  <2>1. PICK n \in Nat : n = Len(m.operands) /\ n >= 2
    BY <1>2, <1>3, <1>7 DEF Needs, Operands
  <2>2. l.operands = Append(SubSeq(m.operands, 1, n - 2),
                            (m.operands[n - 1] + m.operands[n]) % Modulus)
    BY <1>2, <1>7, <2>1, MeaningSteps
  <2>3. k = AddI32(g)
    BY <1>7 DEF Compile
  <2>4. /\ Gets(g, k, l.operands)
        /\ g.arch = "arm64" => k.carry = g.carry
    BY <1>7, <2>1, <2>2, <2>3, AddRuns
  <2> QED
    BY <1>2, <1>7, <2>4 DEF Gets
<1>8. CASE ins.op = "return"
  <2>1. l.operands = m.operands
    BY <1>2, <1>8, MeaningSteps
  <2>2. k = [g EXCEPT !.left = TRUE]
    BY <1>8 DEF Compile, Return
  <2>3. /\ HasWords(k) /\ k.arch = g.arch /\ k.mem = g.mem /\ k.left = TRUE
        /\ k.own = g.own /\ k.regs = g.regs /\ k.carry = g.carry
    BY <1>2, <2>2 DEF HasWords, IsCompiler, Compilers
  <2> QED
    BY <1>2, <1>8, <2>1, <2>3 DEF Operands
<1>9. CASE ins.op = "label"
  <2>1. l.operands = m.operands
    BY <1>2, <1>9, MeaningSteps
  <2>2. k = g
    BY <1>9 DEF Compile
  <2> QED
    BY <1>2, <1>9, <2>1, <2>2
<1> QED
  BY <1>1, <1>5, <1>6, <1>7, <1>8, <1>9

(* The compiler visits an instruction, and the machine executes it.         *)
LEMMA VisitValued ==
  ASSUME Exact, FrameFits, IInv, IInv', Valued, Undisputed, Undisputed', Visit
  PROVE  Valued'
<1>1. /\ phase = "compile" /\ pc < Len(body) /\ pc' = pc + 1
      /\ body' = body /\ val' = val /\ out' = out
      /\ gen' = Compile(gen, body[pc + 1]) /\ ref' = Step(ref, body[pc + 1])
      /\ phase' = IF gen'.fault THEN "fault" ELSE "compile"
  BY DEF Visit
<1>2. PICK h : /\ Parsed(h, body) /\ Follows(h, pc, ref) /\ Compiled(h, pc, gen)
  BY <1>1 DEF IInv, Compiling
<1>3. /\ body \in Seq(Instructions) /\ pc \in 0..Len(body) /\ val \in Validators
      /\ IsCompiler(gen) /\ Len(body) \in Nat
  BY <1>1 DEF IInv, Typed
<1>4. PICK p \in 1..Len(body) : p = pc + 1
  BY <1>1, <1>3
<1>5. PICK ins \in Instructions : ins = body[p]
  BY <1>3
<1>6. PICK z : z = StackSizeBytes
  OBVIOUS
<1>7. Sized(z) /\ StackSizeBytes' = z
  <2>1. val.maxMemory \in 0..SizeMod - 1
    BY <1>3 DEF Validators
  <2> QED
    BY <1>1, <1>6, <2>1, FrameSized DEF StackSizeBytes
<1>8. /\ HasWords(gen) /\ ~gen.left /\ Agree(gen, ref, z)
      /\ gen.arch \in {"x64", "arm64"} /\ (gen.arch = "arm64" => gen.carry = 0)
  BY <1>1, <1>3, <1>6 DEF Valued, HasWords
<1>9. Runs(gen, ref, z)
  BY <1>2, <1>3, <1>7, <1>8 DEF Runs, Compiled, Undisputed, Validators
<1>10. phase' # "fault" /\ ~ref'.stuck
  BY DEF IInv, Leaving
<1>11. phase' = "compile" /\ ~Faulty(gen')
  BY <1>1, <1>10 DEF Faulty
<1>12. gen'.spills = {}
  BY DEF Undisputed
<1>13. ins.op # "set" /\ (ins.op = "get" => ins.arg =< NParams)
  BY <1>5 DEF Undisputed
<1>14. ins.op = "add" => gen.carry = 0
  BY <1>1, <1>4, <1>5 DEF Undisputed, CarryClear
<1>15. IsMeaning(ref) /\ ~ref.stuck
  BY <1>2 DEF Follows
<1>16. PICK k, l : /\ k = gen' /\ l = ref' /\ k = Compile(gen, ins)
                   /\ l = Step(ref, ins)
  BY <1>1, <1>4, <1>5
<1>17. /\ HasWords(k) /\ Agree(k, l, z) /\ k.arch = gen.arch
       /\ k.left = (ins.op = "return")
       /\ gen.arch = "arm64" => k.carry = 0
  BY <1>6, <1>8, <1>9, <1>10, <1>11, <1>12, <1>13, <1>14, <1>15, <1>16,
     InstructionRuns
<1>18. k.left => p = Len(body)
  BY <1>2, <1>3, <1>5, <1>17, ReturnIsLast DEF Exact, Narrow
<1>19. Agree(gen, ref, StackSizeBytes)'
  BY <1>7, <1>16, <1>17 DEF Agree
<1>20. out \in Words
  BY DEF Valued
<1> QED
  BY <1>1, <1>4, <1>8, <1>11, <1>16, <1>17, <1>18, <1>19, <1>20
  DEF Valued, HasWords

(* The epilogue returns the top value, which is the body's result.          *)
LEMMA LeaveValued ==
  ASSUME Exact, IInv, IInv', Valued, Leave
  PROVE  Valued'
<1>1. /\ phase = "compile" /\ gen' = Epilogue(gen) /\ ref' = ref
      /\ phase' \in {"fault", "done"}
      /\ phase' = "done" =>
           out' = IF Results = <<>> THEN Junk ELSE gen'.regs[gen'.got]
  BY DEF Leave
<1>2. phase' = "done"
  BY <1>1 DEF IInv, Leaving
<1>3. IsCompiler(gen) /\ Len(ref.operands) = Len(Results)
  BY <1>1, <1>2 DEF IInv, Typed, Leaving
<1>4. /\ HasWords(gen) /\ Operands(gen, ref.operands)
  BY <1>1, <1>3 DEF Valued, HasWords, Agree
<1>5. PICK e : e = [gen EXCEPT !.left = FALSE]
  OBVIOUS
<1>6. /\ HasWords(e) /\ e.own = gen.own /\ e.regs = gen.regs
  BY <1>4, <1>5 DEF HasWords, IsCompiler, Compilers
<1>7. CASE Results = <<>>
  <2>1. gen' = e /\ out' = Junk
    BY <1>1, <1>2, <1>5, <1>7 DEF Epilogue
  <2>2. Junk \in Words
    BY ValueAssumption DEF Junk, Words
  <2> QED
    BY <1>2, <1>6, <1>7, <2>1, <2>2 DEF Valued, HasWords
<1>8. CASE Results # <<>>
  <2>1. Len(Results) = 1
    BY <1>8, ArchAssumption
  <2>2. Len(gen.own) = 1 /\ gen.own \in Seq(Regs \cup {NoReg})
        /\ ref.operands \in Seq(Values) /\ Len(ref.operands) = 1
    BY <1>3, <1>4, <2>1 DEF Operands, HasWords, IsCompiler, Compilers
  <2>3. gen.own # <<>>
    BY <2>2, EmptySeq
  <2>4. PICK r \in Regs : r = gen.own[1] /\ gen.regs[r] = ref.operands[1]
    <3>1. 1 \in 1..Len(ref.operands)
      BY <2>2
    <3> QED
      BY <1>4, <3>1 DEF Operands
  <2>5. Last(gen.own) = r /\ Last(ref.operands) = ref.operands[1]
    BY <2>2, <2>4 DEF Last
  <2>6. PICK p : p = [e EXCEPT !.own = Front(gen.own)]
    OBVIOUS
  <2>7. PopValue(e) = p /\ TopReg(e) = r
    BY <1>6, <2>3, <2>5, <2>6 DEF PopValue, TopReg
  <2>8. Front(gen.own) \in Seq(Regs \cup {NoReg})
    BY <2>2, <2>3, FrontOf
  <2>9. HasWords(p) /\ p.regs = gen.regs
    BY <1>6, <2>6, <2>8 DEF HasWords, IsCompiler, Compilers
  <2>10. gen' = [p EXCEPT !.got = r]
    BY <1>1, <1>5, <1>8, <2>4, <2>7, RegsAssumption
    DEF Epilogue, EnsureInRegister
  <2>11. HasWords(gen') /\ gen'.regs = gen.regs /\ gen'.got = r
    BY <2>4, <2>9, <2>10 DEF HasWords, IsCompiler, Compilers
  <2>12. out' = Last(ref.operands)
    BY <1>1, <1>2, <1>8, <2>4, <2>5, <2>11
  <2>13. out' \in Words
    BY <1>4, <1>8, <1>1, <1>2, <2>4, <2>11 DEF HasWords
  <2> QED
    BY <1>1, <1>2, <2>11, <2>12, <2>13 DEF Valued, HasWords
<1> QED
  BY <1>7, <1>8

(* Every step of an undisputed compilation.                                 *)
LEMMA ValuedKept ==
  ASSUME Exact, FrameFits, IInv, IInv', Valued, Undisputed, Undisputed',
         [Next]_vars
  PROVE  Valued'
<1>1. ASSUME NEW ins \in Instructions, Emit(ins) PROVE Valued'
  BY <1>1, EmitValued
<1>2. ASSUME NEW args \in [1..NParams -> Args], End(args) PROVE Valued'
  BY <1>2, EndValued
<1>3. CASE Visit
  BY <1>3, VisitValued
<1>4. CASE Leave
  BY <1>4, LeaveValued
<1>5. CASE UNCHANGED vars
  BY <1>5 DEF vars, Valued, Agree, StackSizeBytes
<1> QED
  BY <1>1, <1>2, <1>3, <1>4, <1>5 DEF Next

(* A compiled function returns what its body means unless a value was       *)
(* spilled, a local was set or is no parameter, or adc found the carry flag *)
(* set: whatever the constants, registers and locals, these disagreements   *)
(* of the README are the only ways to a wrong result (x64/compiler.cc and   *)
(* arm64/compiler.cc from Prologue to Epilogue).                            *)
THEOREM ResultCorrectHolds ==
  ASSUME Exact, FrameFits
  PROVE  Spec /\ []Undisputed => []ResultCorrect
<1>1. IInv /\ Valued => ResultCorrect
  <2> SUFFICES ASSUME IInv, Valued PROVE ResultCorrect
    OBVIOUS
  <2>1. NoFault
    BY NoFaultState
  <2> QED
    BY <2>1 DEF NoFault, Valued, TypeOK, ResultCorrect
<1>2. /\ IInv /\ IInv' /\ Valued /\ Undisputed /\ Undisputed' /\ [Next]_vars
      => Valued'
  BY ValuedKept
<1>3. Init => Valued
  BY InitValued
<1> QED
  BY <1>1, <1>2, <1>3, CompilationInvariant, PTL DEF Spec
=============================================================================
