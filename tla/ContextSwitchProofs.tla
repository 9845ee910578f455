------------------------ MODULE ContextSwitchProofs ------------------------
(***************************************************************************)
(* Proofs about ContextSwitch for any VMThreads, stacks and calls, on both *)
(* platforms.  The invariant says of each instruction of WasmccSwitch      *)
(* which words are stored and which are loaded before it: what is stored   *)
(* is the source's (Value), what is loaded comes from the target's area,   *)
(* and what is not loaded yet is still the source's.  Of a suspended       *)
(* context it says that its area and its return address are intact.  The   *)
(* two platforms differ in Saves, in where its parts are stored and loaded *)
(* (StoreAt, LoadAt), and in what surrounds the stores and loads.          *)
(***************************************************************************)
EXTENDS ContextSwitch, SequenceTheorems, WellFoundedInduction, TLAPS

\* The order of the numbers.
Below == {ns \in Nat \X Nat : ns[1] < ns[2]}

(* A set of numbers has a least one.                                        *)
LEMMA Least ==
  ASSUME NEW ns \in SUBSET Nat, ns # {} PROVE \E m \in ns : \A k \in ns : m =< k
<1>1. IsWellFoundedOn(Below, Nat)
  BY NatLessThanWellFounded DEF OpToRel, Below
<1>2. PICK m \in ns : \A k \in ns : <<k, m>> \notin Below
  BY <1>1, WFMin
<1>3. ASSUME NEW k \in ns PROVE m =< k
  <2>1. k \in Nat /\ m \in Nat /\ <<k, m>> \in Nat \X Nat
    OBVIOUS
  <2>2. ~(k < m)
    BY <1>2, <2>1 DEF Below
  <2> QED
    BY <2>1, <2>2
<1> QED
  BY <1>3


-----------------------------------------------------------------------------
(* What is saved, in the order it is stored; on x64 with the address at      *)
(* which the source goes on.                                                 *)
SavesX64 ==
  <<{<<"rax", 0>>}, {<<"rsp", 8>>}, {<<"rbp", 16>>}, {<<"rbx", 24>>},
    {<<"r12", 32>>}, {<<"r13", 40>>}, {<<"r14", 48>>}, {<<"r15", 56>>}>>
Saves == IF arch = "x64" THEN SavesX64 ELSE LayoutArm64
Words == UNION {Saves[j] : j \in DOMAIN Saves}

(* The instructions that store and load Saves[j].  On x64 the jump stands   *)
(* for a load of the first word.                                            *)
StoreAt(j) == IF arch = "x64" THEN j + 1 ELSE j + 2
LoadAt(j) == IF arch = "x64" THEN 18 - j ELSE j + 13
Stored(k) == {w \in Words : \E j \in DOMAIN Saves :
                              w \in Saves[j] /\ StoreAt(j) < k}
Loaded(k) == {w \in Words : \E j \in DOMAIN Saves :
                              w \in Saves[j] /\ LoadAt(j) < k}

\* The instruction from which on a register has the value that is stored.
Ready(r) == IF r \in {"rax", "x10"} THEN 2 ELSE IF r = "x11" THEN 3 ELSE 1

\* What the call of a context left in its registers, and the return address.
Address(c) == kept[c][Sp][3]
Pushed(c) == <<"stack", c, Address(c) - 8>>
Return(c) == <<"return", c, calls[c]>>
Value(c, r) ==
  IF r = "rax" THEN <<"text", 18>>
  ELSE IF r = "rsp" THEN Pushed(c)
  ELSE IF r = "x10" THEN kept[c][Sp]
  ELSE IF r \in {"x11", "x30"} THEN Return(c)
  ELSE kept[c][r]

Held(c, a) == \A w \in Words : area[a][w[2]] = Value(c, w[1])
Fresh(v) ==
  LET a == area[<<v, "my">>] IN
  IF arch = "x64"
  THEN /\ a[0] = <<"WasmccWrapMain">> /\ a[8] = <<"stack", v, EntrySp>>
       /\ a[32] = <<"VMThreadStart">> /\ a[40] = <<"thread", v>>
  ELSE /\ a[0] = <<"thread", v>> /\ a[8] = <<"VMThreadStart">> /\ a[16] = Dummy
       /\ a[96] = <<"stack", v, EntrySp>> /\ a[104] = <<"WasmccWrapMain">>

Source == IF target = Host THEN From[1] ELSE Host
Running == IF pc[1] = "switch" THEN Source ELSE target
Home(c) == IF c # Host THEN <<c, "my">>
           ELSE <<IF target = Host THEN From[1] ELSE target, "main">>
Suspendable == saved \cup {Host}

KeptOK(c) == /\ kept[c] # Null /\ Address(c) \in Int
             /\ kept[c][Sp] = <<"stack", c, Address(c)>>
Matches(c) == \A r \in CalleeSaved \cup {Sp} : regs[r] = kept[c][r]

ShapeInv ==
  /\ arch \in {"x64", "arm64"} /\ arch \in Archs
  /\ DOMAIN regs = Registers
  /\ DOMAIN area = VMs \X {"my", "main"}
  /\ \A a \in VMs \X {"my", "main"} : DOMAIN area[a] = Offsets
  /\ DOMAIN kept = Contexts
  /\ calls \in [Contexts -> 0..MaxCalls]
  /\ saved \subseteq VMs /\ target \in Contexts

ControlInv ==
  \/ pc = <<"code", target>>
  \/ \E k \in DOMAIN Switch : pc = <<"switch", k>>
  \/ \E k \in DOMAIN WrapMain : pc = <<"wrap", k>> /\ target \in VMs \ saved

SuspendedInv == \A c \in Suspendable \ {Running} : KeptOK(c) /\ Held(c, Home(c))

MemoryInv == arch = "x64" =>
  /\ \A c \in Suspendable : kept[c] # Null => Word(Pushed(c)) = Return(c)
  /\ target \in VMs \ saved => Word(<<"stack", target, EntrySp>>) = Dummy

\* The arguments of the switch, and a new context that is switched to.
PassingInv ==
  /\ Source \in Suspendable /\ KeptOK(Source)
  /\ target = Host => From[1] \in VMs
  /\ regs[Arg1] = <<"area", Home(Source)>>
  /\ regs[Arg2] = <<"area", Home(target)>>
  /\ target \notin Suspendable => Fresh(target)

\* What is stored is the source's, what is loaded the target's.
WordsInv(k) ==
  /\ \A w \in Stored(k) : area[Home(Source)][w[2]] = Value(Source, w[1])
  /\ \A w \in Words \ Loaded(k) :
       Ready(w[1]) =< k => regs[w[1]] = Value(Source, w[1])
  /\ \A w \in Loaded(k) : regs[w[1]] = area[Home(target)][w[2]]
  /\ arch = "x64" /\ k = 18 => target \in Suspendable
  /\ arch = "arm64" /\ k = 1 => regs["sp"] = kept[Source]["sp"]
  /\ arch = "arm64" /\ k = 26 => regs["sp"] = regs["x10"]

SwitchInv == pc[1] = "switch" => PassingInv /\ WordsInv(pc[2])

WrapInv == pc[1] = "wrap" =>
  /\ regs[Sp] = <<"stack", target, EntrySp>>
  /\ arch = "x64" =>
       /\ regs["r12"] = <<"VMThreadStart">>
       /\ regs[IF pc[2] = 1 THEN "r13" ELSE "rdi"] = <<"thread", target>>
  /\ arch = "arm64" =>
       /\ regs["x20"] = <<"VMThreadStart">>
       /\ regs[IF pc[2] = 1 THEN "x19" ELSE "x0"] = <<"thread", target>>
       /\ regs[IF pc[2] \in {1, 2} THEN "x21" ELSE "x30"] = Dummy

CodeInv == pc[1] = "code" =>
  /\ target \in saved \/ (target = Host /\ kept[Host] # Null)
       => KeptOK(target) /\ Matches(target)
  /\ target \in VMs \ saved =>
       /\ regs[Arg1] = <<"thread", target>>
       /\ regs[Sp] = <<"stack", target, EntrySp>>
       /\ arch = "arm64" => regs["x30"] = Dummy

Inv == /\ ShapeInv /\ ControlInv /\ SuspendedInv /\ MemoryInv
       /\ SwitchInv /\ WrapInv /\ CodeInv

-----------------------------------------------------------------------------
(* What each instruction of thread_x64.cc does: the loads take the words in *)
(* the opposite order.                                                      *)
LEMMA CodeX64 ==
  /\ DOMAIN SwitchX64 = 1..18
  /\ SwitchX64[1] = Lea("rax", 61)
  /\ SwitchX64[2] = Store(SavesX64[1], 3)
  /\ \A k \in 3..9 : SwitchX64[k] = Store(SavesX64[k - 1], 4)
  /\ \A k \in 10..16 : SwitchX64[k] = Load(SavesX64[18 - k])
  /\ SwitchX64[17] = JumpAt(0)
  /\ SwitchX64[18] = Ret
<1>1. ASSUME NEW i \in 1..7 PROVE LayoutX64[i] = SavesX64[i + 1]
  <2>1. CASE i = 1
    <3>1. LayoutX64[1] = SavesX64[2]
      BY DEF LayoutX64, SavesX64
    <3>2. i + 1 = 2
      BY <2>1
    <3> QED
      BY <2>1, <3>1, <3>2
  <2>2. CASE i = 2
    <3>1. LayoutX64[2] = SavesX64[3]
      BY DEF LayoutX64, SavesX64
    <3>2. i + 1 = 3
      BY <2>2
    <3> QED
      BY <2>2, <3>1, <3>2
  <2>3. CASE i = 3
    <3>1. LayoutX64[3] = SavesX64[4]
      BY DEF LayoutX64, SavesX64
    <3>2. i + 1 = 4
      BY <2>3
    <3> QED
      BY <2>3, <3>1, <3>2
  <2>4. CASE i = 4
    <3>1. LayoutX64[4] = SavesX64[5]
      BY DEF LayoutX64, SavesX64
    <3>2. i + 1 = 5
      BY <2>4
    <3> QED
      BY <2>4, <3>1, <3>2
  <2>5. CASE i = 5
    <3>1. LayoutX64[5] = SavesX64[6]
      BY DEF LayoutX64, SavesX64
    <3>2. i + 1 = 6
      BY <2>5
    <3> QED
      BY <2>5, <3>1, <3>2
  <2>6. CASE i = 6
    <3>1. LayoutX64[6] = SavesX64[7]
      BY DEF LayoutX64, SavesX64
    <3>2. i + 1 = 7
      BY <2>6
    <3> QED
      BY <2>6, <3>1, <3>2
  <2>7. CASE i = 7
    <3>1. LayoutX64[7] = SavesX64[8]
      BY DEF LayoutX64, SavesX64
    <3>2. i + 1 = 8
      BY <2>7
    <3> QED
      BY <2>7, <3>1, <3>2
  <2> QED
    BY <2>1, <2>2, <2>3, <2>4, <2>5, <2>6, <2>7
<1>2. ASSUME NEW i \in 1..7 PROVE RestoredX64[i] = SavesX64[9 - i]
  <2>1. Len(LayoutX64) = 7
    BY DEF LayoutX64
  <2>2. RestoredX64[i] = LayoutX64[7 - i + 1]
    BY <2>1 DEF RestoredX64, Reverse
  <2>3. 7 - i + 1 \in 1..7 /\ (7 - i + 1) + 1 = 9 - i
    OBVIOUS
  <2> QED
    BY <1>1, <2>2, <2>3
<1>3. DOMAIN SwitchX64 = 1..18
  BY DEF SwitchX64
<1>4. SwitchX64[1] = Lea("rax", 61)
  BY DEF SwitchX64, Reach
<1>5. SwitchX64[2] = Store(SavesX64[1], 3)
  BY DEF SwitchX64, SavesX64
<1>6. ASSUME NEW k \in 3..9 PROVE SwitchX64[k] = Store(SavesX64[k - 1], 4)
  <2>1. k - 2 \in 1..7 /\ (k - 2) + 1 = k - 1
    OBVIOUS
  <2>2. k \in 1..18 /\ k # 1 /\ k # 2
    OBVIOUS
  <2>3. SwitchX64[k] = Store(LayoutX64[k - 2], 4)
    BY <2>2 DEF SwitchX64
  <2> QED
    BY <1>1, <2>1, <2>3
<1>7. ASSUME NEW k \in 10..16 PROVE SwitchX64[k] = Load(SavesX64[18 - k])
  <2>1. k - 9 \in 1..7 /\ 9 - (k - 9) = 18 - k
    OBVIOUS
  <2>2. k \in 1..18 /\ k # 1 /\ k # 2 /\ k \notin 3..9
    OBVIOUS
  <2>3. SwitchX64[k] = Load(RestoredX64[k - 9])
    BY <2>2 DEF SwitchX64
  <2> QED
    BY <1>2, <2>1, <2>3
<1>8. /\ SwitchX64[17] = JumpAt(0)
      /\ SwitchX64[18] = Ret
  BY DEF SwitchX64
<1> QED
  BY <1>3, <1>4, <1>5, <1>6, <1>7, <1>8

(* What each instruction of thread_arm64.cc does.                           *)
LEMMA CodeArm64 ==
  /\ DOMAIN SwitchArm64 = 1..26
  /\ SwitchArm64[1] = Move("x10", "sp") /\ SwitchArm64[2] = Move("x11", "x30")
  /\ \A k \in 3..13 : SwitchArm64[k] = Store(LayoutArm64[k - 2], 4)
  /\ \A k \in 14..24 : SwitchArm64[k] = Load(LayoutArm64[k - 13])
  /\ SwitchArm64[25] = Move("sp", "x10") /\ SwitchArm64[26] = JumpTo("x11")
<1>1. DOMAIN SwitchArm64 = 1..26
  BY DEF SwitchArm64
<1>2. SwitchArm64[1] = Move("x10", "sp") /\ SwitchArm64[2] = Move("x11", "x30")
  BY DEF SwitchArm64
<1>3. \A k \in 3..13 : SwitchArm64[k] = Store(LayoutArm64[k - 2], 4)
  BY DEF SwitchArm64
<1>4. \A k \in 14..24 : SwitchArm64[k] = Load(LayoutArm64[k - 13])
  BY DEF SwitchArm64, RestoredArm64
<1>5. SwitchArm64[25] = Move("sp", "x10") /\ SwitchArm64[26] = JumpTo("x11")
  BY DEF SwitchArm64
<1> QED
  BY <1>1, <1>2, <1>3, <1>4, <1>5

\* The byte an instruction of thread_x64.cc begins at.
StartX64(n) == IF n = 1 THEN 0 ELSE IF n = 2 THEN 7
               ELSE IF n = 18 THEN 68 ELSE 4 * n - 2

(* The lengths of the instructions before it add up to that.                *)
LEMMA BytesX64 ==
  ASSUME arch = "x64", NEW i \in 1..18 PROVE ByteOf(i) = StartX64(i)
<1> DEFINE Turn(b, n) == IF n = 1 THEN 0 ELSE b[n - 1] + Switch[n - 1].bytes
           byte == CHOOSE b : b = [n \in 1..i |-> Turn(b, n)]
           start == [n \in 1..i |-> StartX64(n)]
<1>1. ByteOf(i) = byte[i]
  BY DEF ByteOf
<1>2. ASSUME NEW n \in 1..18, n # 1
      PROVE  StartX64(n - 1) + Switch[n - 1].bytes = StartX64(n)
  <2>1. Switch = SwitchX64
    BY DEF Switch
  <2>2. CASE n = 2
    <3>1. Switch[n - 1].bytes = 7
      BY <2>1, <2>2, CodeX64 DEF Lea
    <3> QED
      BY <2>2, <3>1 DEF StartX64
  <2>3. CASE n = 3
    <3>1. Switch[n - 1].bytes = 3
      BY <2>1, <2>3, CodeX64 DEF Store
    <3> QED
      BY <2>3, <3>1 DEF StartX64
  <2>4. CASE n \in 4..10
    <3>1. n - 1 \in 3..9
      BY <2>4
    <3>2. Switch[n - 1].bytes = 4
      BY <2>1, <3>1, CodeX64 DEF Store
    <3> QED
      BY <2>4, <3>2 DEF StartX64
  <2>5. CASE n \in 11..17
    <3>1. n - 1 \in 10..16
      BY <2>5
    <3>2. Switch[n - 1].bytes = 4
      BY <2>1, <3>1, CodeX64 DEF Load
    <3> QED
      BY <2>5, <3>2 DEF StartX64
  <2>6. CASE n = 18
    <3>1. n - 1 = 17
      BY <2>6
    <3>2. SwitchX64[17] = JumpAt(0)
      BY CodeX64
    <3>3. SwitchX64[17].bytes = 2
      BY <3>2 DEF JumpAt
    <3> QED
      BY <2>1, <2>6, <3>1, <3>3 DEF StartX64
  <2> QED
    BY <1>2, <2>2, <2>3, <2>4, <2>5, <2>6
<1>3. start = [n \in 1..i |-> Turn(start, n)]
  <2>1. ASSUME NEW n \in 1..i PROVE StartX64(n) = Turn(start, n)
    <3>1. CASE n = 1
      BY <3>1 DEF StartX64
    <3>2. CASE n # 1
      <4>1. n - 1 \in 1..i /\ n \in 1..18
        BY <3>2
      <4>2. start[n - 1] = StartX64(n - 1)
        BY <4>1
      <4> QED
        BY <1>2, <3>2, <4>1, <4>2
    <3> QED
      BY <3>1, <3>2
  <2> QED
    BY <2>1
<1>4. byte = [n \in 1..i |-> Turn(byte, n)]
  BY <1>3
<1>5. ASSUME NEW n \in 1..i PROVE byte[n] = Turn(byte, n)
  BY <1>4
<1> HIDE DEF byte
<1> DEFINE wrong == {n \in 1..i : byte[n] # StartX64(n)}
<1>6. wrong = {}
  <2> SUFFICES ASSUME wrong # {} PROVE FALSE
    OBVIOUS
  <2>1. PICK m \in wrong : \A k \in wrong : m =< k
    <3>1. wrong \in SUBSET Nat
      OBVIOUS
    <3> QED
      BY <3>1, Least
  <2>2. m # 1
    BY <1>5, <2>1 DEF StartX64
  <2>3. m - 1 \in 1..i /\ m - 1 \notin wrong /\ m \in 1..18
    BY <2>1, <2>2
  <2>4. byte[m - 1] = StartX64(m - 1)
    BY <2>3
  <2>5. byte[m] = byte[m - 1] + Switch[m - 1].bytes
    BY <1>5, <2>1, <2>2
  <2>6. byte[m] = StartX64(m)
    BY <1>2, <2>2, <2>3, <2>4, <2>5
  <2> QED
    BY <2>1, <2>6
<1> QED
  BY <1>1, <1>6

(* The displacement of leaq reaches the ret.                                *)
LEMMA LeaReachesRet ==
  ASSUME arch = "x64" PROVE TextAt(ByteOf(2) + 61) = <<"text", 18>>
<1>1. DOMAIN Switch = 1..18
  BY CodeX64 DEF Switch
<1>2. ByteOf(2) + 61 = 68
  BY BytesX64 DEF StartX64
<1>3. ASSUME NEW i \in 1..18 PROVE ByteOf(i) = 68 <=> i = 18
  BY BytesX64 DEF StartX64
<1>4. (CHOOSE i \in 1..18 : ByteOf(i) = 68) = 18
  BY <1>3
<1> QED
  BY <1>1, <1>2, <1>3, <1>4 DEF TextAt

-----------------------------------------------------------------------------
WordsX64 ==
  {<<"rax", 0>>, <<"rsp", 8>>, <<"rbp", 16>>, <<"rbx", 24>>, <<"r12", 32>>,
   <<"r13", 40>>, <<"r14", 48>>, <<"r15", 56>>}
WordsArm64 ==
  {<<"x19", 0>>, <<"x20", 8>>, <<"x21", 16>>, <<"x22", 24>>, <<"x23", 32>>,
   <<"x24", 40>>, <<"x25", 48>>, <<"x26", 56>>, <<"x27", 64>>, <<"x28", 72>>,
   <<"x29", 80>>, <<"x30", 88>>, <<"x10", 96>>, <<"x11", 104>>, <<"d8", 112>>,
   <<"d9", 120>>, <<"d10", 128>>, <<"d11", 136>>, <<"d12", 144>>,
   <<"d13", 152>>, <<"d14", 160>>, <<"d15", 168>>}

(* The words of a ThreadStack are these.                                    *)
LEMMA SavedX64 ==
  ASSUME arch = "x64"
  PROVE  Saves = SavesX64 /\ DOMAIN Saves = 1..8 /\ Words = WordsX64
<1>1. Saves = SavesX64
  BY DEF Saves
<1>2. DOMAIN SavesX64 = 1..8
  BY DEF SavesX64
<1>3. ASSUME NEW j \in 1..8 PROVE SavesX64[j] \subseteq WordsX64
  BY DEF SavesX64, WordsX64
<1>4. ASSUME NEW w \in WordsX64 PROVE \E j \in 1..8 : w \in SavesX64[j]
  BY DEF SavesX64, WordsX64
<1>5. Words = WordsX64
  BY <1>1, <1>2, <1>3, <1>4 DEF Words
<1> QED
  BY <1>1, <1>2, <1>5

(* The same for arm64.                                                      *)
LEMMA SavedArm64 ==
  ASSUME arch = "arm64"
  PROVE  Saves = LayoutArm64 /\ DOMAIN Saves = 1..11 /\ Words = WordsArm64
<1>1. Saves = LayoutArm64
  BY DEF Saves
<1>2. DOMAIN LayoutArm64 = 1..11
  BY DEF LayoutArm64
<1>3. ASSUME NEW j \in 1..11 PROVE LayoutArm64[j] \subseteq WordsArm64
  BY DEF LayoutArm64, WordsArm64, Pair
<1>4. ASSUME NEW w \in WordsArm64 PROVE \E j \in 1..11 : w \in LayoutArm64[j]
  BY DEF LayoutArm64, WordsArm64, Pair
<1>5. Words = WordsArm64
  BY <1>1, <1>2, <1>3, <1>4 DEF Words
<1> QED
  BY <1>1, <1>2, <1>5

(* No two words have a register or a place in common.                       *)
LEMMA WordsApart ==
  ASSUME ShapeInv, NEW w \in Words, NEW u \in Words,
         w[1] = u[1] \/ w[2] = u[2]
  PROVE  w = u
<1>1. CASE arch = "x64"
  <2>1. w \in WordsX64 /\ u \in WordsX64
    BY <1>1, SavedX64
  <2> QED
    BY <2>1 DEF WordsX64
<1>2. CASE arch = "arm64"
  <2>1. w \in WordsArm64 /\ u \in WordsArm64
    BY <1>2, SavedArm64
  <2> QED
    BY <2>1, SMTT(60) DEF WordsArm64
<1> QED
  BY <1>1, <1>2 DEF ShapeInv

(* Neither the arguments of the switch nor the processor's own stack        *)
(* pointer of arm64 is a word.                                              *)
LEMMA WordsFit ==
  ASSUME ShapeInv, NEW w \in Words
  PROVE  /\ w[1] \in Registers /\ w[2] \in Offsets
         /\ w[1] # Arg1 /\ w[1] # Arg2 /\ w[1] # "sp"
<1>1. CASE arch = "x64"
  <2>1. w \in WordsX64
    BY <1>1, SavedX64
  <2>2. /\ w[1] \in {"rax", "rsp", "rbp", "rbx", "r12", "r13", "r14", "r15"}
        /\ \E i \in 0..7 : w[2] = 8 * i
    BY <2>1 DEF WordsX64
  <2> QED
    BY <1>1, <2>2
    DEF Registers, CalleeSaved, CalleeSavedX64, Scratch, Sp, Arg1, Arg2, Offsets
<1>2. CASE arch = "arm64"
  <2>1. w \in WordsArm64
    BY <1>2, SavedArm64
  <2>2. w[1] \in CalleeSavedArm64 \cup {"x10", "x11", "x30"}
    BY <2>1 DEF WordsArm64, CalleeSavedArm64
  <2>3. \E i \in 0..21 : w[2] = 8 * i
    BY <2>1 DEF WordsArm64
  <2>4. w[1] # "x0" /\ w[1] # "x1" /\ w[1] # "sp"
    BY <2>2 DEF CalleeSavedArm64
  <2>5. w[1] \in Registers
    BY <1>2, <2>2 DEF Registers, CalleeSaved, Scratch
  <2>6. w[2] \in Offsets
    BY <1>2, <2>3 DEF Offsets
  <2> QED
    BY <1>2, <2>4, <2>5, <2>6 DEF Arg1, Arg2
<1> QED
  BY <1>1, <1>2 DEF ShapeInv

(* Every callee-saved register has a word, and so has the stack pointer.    *)
LEMMA WordsCover ==
  ASSUME ShapeInv
  PROVE  /\ \A r \in CalleeSaved : \E w \in Words : w[1] = r
         /\ arch = "x64" => <<"rax", 0>> \in Words /\ <<"rsp", 8>> \in Words
                         /\ <<"r12", 32>> \in Words /\ <<"r13", 40>> \in Words
         /\ arch = "arm64" => <<"x19", 0>> \in Words /\ <<"x20", 8>> \in Words
                         /\ <<"x21", 16>> \in Words
                         /\ <<"x10", 96>> \in Words /\ <<"x11", 104>> \in Words
<1>1. CASE arch = "x64"
  <2>1. Words = WordsX64 /\ CalleeSaved = CalleeSavedX64
    BY <1>1, SavedX64 DEF CalleeSaved
  <2>2. ASSUME NEW r \in CalleeSavedX64 PROVE \E w \in WordsX64 : w[1] = r
    BY DEF CalleeSavedX64, WordsX64
  <2>3. <<"rax", 0>> \in WordsX64 /\ <<"rsp", 8>> \in WordsX64
        /\ <<"r12", 32>> \in WordsX64 /\ <<"r13", 40>> \in WordsX64
    BY DEF WordsX64
  <2> QED
    BY <1>1, <2>1, <2>2, <2>3
<1>2. CASE arch = "arm64"
  <2>1. Words = WordsArm64 /\ CalleeSaved = CalleeSavedArm64
    BY <1>2, SavedArm64 DEF CalleeSaved
  <2>2. ASSUME NEW r \in CalleeSavedArm64 PROVE \E w \in WordsArm64 : w[1] = r
    BY DEF CalleeSavedArm64, WordsArm64
  <2>3. <<"x19", 0>> \in WordsArm64 /\ <<"x20", 8>> \in WordsArm64
        /\ <<"x21", 16>> \in WordsArm64
        /\ <<"x10", 96>> \in WordsArm64 /\ <<"x11", 104>> \in WordsArm64
    BY DEF WordsArm64
  <2> QED
    BY <1>2, <2>1, <2>2, <2>3
<1> QED
  BY <1>1, <1>2 DEF ShapeInv

(* Every instruction of WasmccSwitch stores, loads, or belongs to what is   *)
(* before or after.                                                         *)
Prologue == IF arch = "x64" THEN {1} ELSE {1, 2}
Epilogue == IF arch = "x64" THEN {17, 18} ELSE {25, 26}
Stores(k, j) ==
  k = StoreAt(j) /\ Switch[k].op = "store" /\ Switch[k].words = Saves[j]
Loads(k, j) ==
  k = LoadAt(j) /\ Switch[k].op = "load" /\ Switch[k].words = Saves[j]

(* That the whole of WasmccSwitch is one of these.                          *)
LEMMA Instructions ==
  ASSUME ShapeInv, NEW k \in DOMAIN Switch
  PROVE  \/ k \in Prologue \cup Epilogue
         \/ \E j \in DOMAIN Saves : Stores(k, j) \/ Loads(k, j)
<1>1. CASE arch = "x64"
  <2>1. Switch = SwitchX64 /\ k \in 1..18
    BY <1>1, CodeX64 DEF Switch
  <2>2. CASE k = 2
    <3>1. Switch[k] = Store(SavesX64[1], 3)
      BY <2>1, <2>2, CodeX64
    <3> QED
      BY <1>1, <2>2, <3>1, SavedX64 DEF Stores, StoreAt, Store
  <2>3. CASE k \in 3..9
    <3>1. Switch[k] = Store(SavesX64[k - 1], 4)
      BY <2>1, <2>3, CodeX64
    <3>2. k - 1 \in 1..8 /\ (k - 1) + 1 = k
      BY <2>3
    <3>3. Stores(k, k - 1)
      BY <1>1, <3>1, <3>2, SavedX64 DEF Stores, StoreAt, Store
    <3> QED
      BY <1>1, <3>2, <3>3, SavedX64
  <2>4. CASE k \in 10..16
    <3>1. Switch[k] = Load(SavesX64[18 - k])
      BY <2>1, <2>4, CodeX64
    <3>2. 18 - k \in 1..8 /\ 18 - (18 - k) = k
      BY <2>4
    <3>3. Loads(k, 18 - k)
      BY <1>1, <3>1, <3>2, SavedX64 DEF Loads, LoadAt, Load
    <3> QED
      BY <1>1, <3>2, <3>3, SavedX64
  <2>5. k \in {1, 17, 18} \/ k = 2 \/ k \in 3..9 \/ k \in 10..16
    BY <2>1
  <2> QED
    BY <1>1, <2>2, <2>3, <2>4, <2>5 DEF Prologue, Epilogue
<1>2. CASE arch = "arm64"
  <2>1. Switch = SwitchArm64 /\ k \in 1..26
    BY <1>2, CodeArm64 DEF Switch
  <2>3. CASE k \in 3..13
    <3>1. Switch[k] = Store(LayoutArm64[k - 2], 4)
      BY <2>1, <2>3, CodeArm64
    <3>2. k - 2 \in 1..11 /\ (k - 2) + 2 = k
      BY <2>3
    <3>3. Stores(k, k - 2)
      BY <1>2, <3>1, <3>2, SavedArm64 DEF Stores, StoreAt, Store
    <3> QED
      BY <1>2, <3>2, <3>3, SavedArm64
  <2>4. CASE k \in 14..24
    <3>1. Switch[k] = Load(LayoutArm64[k - 13])
      BY <2>1, <2>4, CodeArm64
    <3>2. k - 13 \in 1..11 /\ (k - 13) + 13 = k
      BY <2>4
    <3>3. Loads(k, k - 13)
      BY <1>2, <3>1, <3>2, SavedArm64 DEF Loads, LoadAt, Load
    <3> QED
      BY <1>2, <3>2, <3>3, SavedArm64
  <2>5. k \in {1, 2, 25, 26} \/ k \in 3..13 \/ k \in 14..24
    BY <2>1
  <2> QED
    BY <1>2, <2>3, <2>4, <2>5 DEF Prologue, Epilogue
<1> QED
  BY <1>1, <1>2 DEF ShapeInv

(* While words are stored none is loaded, and each is in its register.      *)
LEMMA StoreStage ==
  ASSUME ShapeInv, NEW k \in DOMAIN Switch, NEW j \in DOMAIN Saves, Stores(k, j)
  PROVE  /\ k \in Int /\ k + 1 \in DOMAIN Switch
         /\ k > 1 /\ k + 1 < 17
         /\ Loaded(k) = {} /\ Loaded(k + 1) = {}
         /\ Stored(k + 1) \subseteq Stored(k) \cup Saves[j]
         /\ Saves[j] \subseteq Words
         /\ \A w \in Saves[j] : Ready(w[1]) =< k
<1>1. Saves[j] \subseteq Words
  BY DEF Words
<1>2. CASE arch = "x64"
  <2>1. DOMAIN Saves = 1..8 /\ DOMAIN Switch = 1..18 /\ k = j + 1
    BY <1>2, SavedX64, CodeX64 DEF Switch, Stores, StoreAt
  <2>2. Loaded(k) = {} /\ Loaded(k + 1) = {}
    BY <1>2, <2>1 DEF Loaded, LoadAt
  <2>3. Stored(k + 1) \subseteq Stored(k) \cup Saves[j]
    BY <1>2, <2>1 DEF Stored, StoreAt
  <2>4. ASSUME NEW w \in Saves[j] PROVE w[1] # "x11"
    <3>1. w \in WordsX64
      BY <1>1, <1>2, SavedX64
    <3> QED
      BY <3>1 DEF WordsX64
  <2> QED
    BY <1>1, <2>1, <2>2, <2>3, <2>4 DEF Ready
<1>3. CASE arch = "arm64"
  <2>1. DOMAIN Saves = 1..11 /\ DOMAIN Switch = 1..26 /\ k = j + 2
    BY <1>3, SavedArm64, CodeArm64 DEF Switch, Stores, StoreAt
  <2>2. Loaded(k) = {} /\ Loaded(k + 1) = {}
    BY <1>3, <2>1 DEF Loaded, LoadAt
  <2>3. Stored(k + 1) \subseteq Stored(k) \cup Saves[j]
    BY <1>3, <2>1 DEF Stored, StoreAt
  <2> QED
    BY <1>1, <2>1, <2>2, <2>3 DEF Ready
<1> QED
  BY <1>2, <1>3 DEF ShapeInv

(* While words are loaded all are stored.                                   *)
LEMMA LoadStage ==
  ASSUME ShapeInv, NEW k \in DOMAIN Switch, NEW j \in DOMAIN Saves, Loads(k, j),
         k \notin Epilogue
  PROVE  /\ k \in Int /\ k + 1 \in DOMAIN Switch
         /\ k > 3 /\ k # 25 /\ (arch = "x64" => k # 17)
         /\ Loaded(k + 1) = Loaded(k) \cup Saves[j]
         /\ Stored(k + 1) = Words /\ Stored(k) = Words
         /\ Saves[j] \subseteq Words
         /\ \A w \in Words : Ready(w[1]) =< k
<1>1. Saves[j] \subseteq Words
  BY DEF Words
<1>2. \A w \in Words : \E i \in DOMAIN Saves : w \in Saves[i]
  BY DEF Words
<1>3. CASE arch = "x64"
  <2>1. DOMAIN Saves = 1..8 /\ DOMAIN Switch = 1..18 /\ k = 18 - j
    BY <1>3, SavedX64, CodeX64 DEF Switch, Loads, LoadAt
  <2>2. k # 17
    BY <1>3 DEF Epilogue
  <2>3. Stored(k) = Words /\ Stored(k + 1) = Words
    BY <1>2, <1>3, <2>1, <2>2 DEF Stored, StoreAt
  <2>4. ASSUME NEW w PROVE w \in Loaded(k + 1) <=> w \in Loaded(k) \cup Saves[j]
    BY <1>1, <1>3, <2>1 DEF Loaded, LoadAt
  <2> QED
    BY <1>1, <1>3, <2>1, <2>2, <2>3, <2>4 DEF Ready
<1>4. CASE arch = "arm64"
  <2>1. DOMAIN Saves = 1..11 /\ DOMAIN Switch = 1..26 /\ k = j + 13
    BY <1>4, SavedArm64, CodeArm64 DEF Switch, Loads, LoadAt
  <2>2. Stored(k) = Words /\ Stored(k + 1) = Words
    BY <1>2, <1>4, <2>1 DEF Stored, StoreAt
  <2>3. ASSUME NEW w PROVE w \in Loaded(k + 1) <=> w \in Loaded(k) \cup Saves[j]
    BY <1>1, <1>4, <2>1 DEF Loaded, LoadAt
  <2> QED
    BY <1>1, <1>4, <2>1, <2>2, <2>3 DEF Ready
<1> QED
  BY <1>3, <1>4 DEF ShapeInv

-----------------------------------------------------------------------------
Code == (IF pc[1] = "switch" THEN Switch ELSE WrapMain)[pc[2]]
Kept == UNCHANGED <<arch, memory, saved, calls, kept, target>>

(* A store changes the words it names, in the area of the first argument.   *)
LEMMA ExecutesStore ==
  ASSUME ShapeInv, Execute, Code.op = "store", From \in VMs \X {"my", "main"},
         NEW j \in DOMAIN Saves, Code.words = Saves[j]
  PROVE  /\ Step /\ Kept /\ regs' = regs
         /\ DOMAIN area' = DOMAIN area
         /\ \A a \in VMs \X {"my", "main"} : DOMAIN area'[a] = Offsets
         /\ \A a \in (VMs \X {"my", "main"}) \ {From} : area'[a] = area[a]
         /\ \A w \in Saves[j] : area'[From][w[2]] = regs[w[1]]
         /\ \A w \in Words \ Saves[j] : area'[From][w[2]] = area[From][w[2]]
<1> DEFINE Hit(o) == \E w \in Saves[j] : w[2] = o
           Chosen(o) == CHOOSE w \in Saves[j] : w[2] = o
<1>1. /\ Step /\ Kept /\ regs' = regs
      /\ area' = [area EXCEPT ![From] = [o \in Offsets |->
                   IF Hit(o) THEN regs[Chosen(o)[1]] ELSE @[o]]]
  <2>1. /\ Step /\ Kept /\ regs' = regs
        /\ area' = [area EXCEPT ![From] = [o \in Offsets |->
             IF \E w \in Code.words : w[2] = o
             THEN regs[(CHOOSE w \in Code.words : w[2] = o)[1]] ELSE @[o]]]
    BY DEF Execute, Code, Kept
  <2> QED
    BY <2>1
<1>2. Saves[j] \subseteq Words
  BY DEF Words
<1>3. DOMAIN area = VMs \X {"my", "main"}
      /\ \A a \in VMs \X {"my", "main"} : DOMAIN area[a] = Offsets
  BY DEF ShapeInv
<1>4. area'[From] = [o \in Offsets |->
                   IF Hit(o) THEN regs[Chosen(o)[1]] ELSE area[From][o]]
  BY <1>1, <1>3
<1>5. ASSUME NEW w \in Saves[j] PROVE area'[From][w[2]] = regs[w[1]]
  <2>1. w \in Words /\ w[2] \in Offsets
    BY <1>2, WordsFit
  <2>2. Hit(w[2])
    OBVIOUS
  <2>3. Chosen(w[2]) \in Saves[j] /\ Chosen(w[2])[2] = w[2]
    BY <2>2
  <2>4. Chosen(w[2]) = w
    BY <1>2, <2>1, <2>3, WordsApart
  <2> QED
    BY <1>4, <2>1, <2>2, <2>4
<1>6. ASSUME NEW w \in Words \ Saves[j]
      PROVE  area'[From][w[2]] = area[From][w[2]]
  <2>1. w[2] \in Offsets
    BY WordsFit
  <2>2. ~Hit(w[2])
    BY <1>2, WordsApart
  <2> QED
    BY <1>4, <2>1, <2>2
<1>7. \A a \in (VMs \X {"my", "main"}) \ {From} : area'[a] = area[a]
  BY <1>1, <1>3
<1>8. DOMAIN area' = DOMAIN area /\ DOMAIN area'[From] = Offsets
  BY <1>1, <1>4
<1>9. \A a \in VMs \X {"my", "main"} : DOMAIN area'[a] = Offsets
  BY <1>3, <1>7, <1>8
<1> QED
  BY <1>1, <1>5, <1>6, <1>7, <1>8, <1>9

(* A load changes the registers it names, to what the second argument's     *)
(* area holds.                                                              *)
LEMMA ExecutesLoad ==
  ASSUME ShapeInv, Execute, Code.op = "load",
         NEW j \in DOMAIN Saves, Code.words = Saves[j]
  PROVE  /\ Step /\ Kept /\ area' = area /\ DOMAIN regs' = Registers
         /\ \A w \in Saves[j] : regs'[w[1]] = area[To][w[2]]
         /\ \A r \in Registers :
              (\A w \in Saves[j] : w[1] # r) => regs'[r] = regs[r]
         /\ \A w \in Words \ Saves[j] : regs'[w[1]] = regs[w[1]]
<1> DEFINE Hit(r) == \E w \in Saves[j] : w[1] = r
           Chosen(r) == CHOOSE w \in Saves[j] : w[1] = r
<1>1. /\ Step /\ Kept /\ area' = area
      /\ regs' = [r \in Registers |->
                   IF Hit(r) THEN area[To][Chosen(r)[2]] ELSE regs[r]]
  <2>1. /\ Step /\ Kept /\ area' = area
        /\ regs' = [r \in Registers |->
             IF \E w \in Code.words : w[1] = r
             THEN area[To][(CHOOSE w \in Code.words : w[1] = r)[2]]
             ELSE regs[r]]
    BY DEF Execute, Code, Kept
  <2> QED
    BY <2>1
<1>2. Saves[j] \subseteq Words
  BY DEF Words
<1>3. ASSUME NEW w \in Saves[j] PROVE regs'[w[1]] = area[To][w[2]]
  <2>1. w \in Words /\ w[1] \in Registers
    BY <1>2, WordsFit
  <2>2. Hit(w[1])
    OBVIOUS
  <2>3. Chosen(w[1]) \in Saves[j] /\ Chosen(w[1])[1] = w[1]
    BY <2>2
  <2>4. Chosen(w[1]) = w
    BY <1>2, <2>1, <2>3, WordsApart
  <2> QED
    BY <1>1, <2>1, <2>2, <2>4
<1>4. ASSUME NEW r \in Registers, \A w \in Saves[j] : w[1] # r
      PROVE  regs'[r] = regs[r]
  BY <1>1, <1>4
<1>5. ASSUME NEW w \in Words \ Saves[j] PROVE regs'[w[1]] = regs[w[1]]
  <2>1. \A u \in Saves[j] : u[1] # w[1]
    BY <1>2, WordsApart
  <2>2. w[1] \in Registers
    BY WordsFit
  <2> QED
    BY <1>4, <2>1, <2>2
<1> QED
  BY <1>1, <1>3, <1>4, <1>5

(* The instructions before the stores: the address of the ret, or copies of *)
(* the stack pointer and the return address.                                *)
LEMMA ExecutesPrologue ==
  ASSUME ShapeInv, Execute, NEW k \in Prologue, pc = <<"switch", k>>
  PROVE  /\ pc' = <<"switch", k + 1>> /\ Kept /\ area' = area
         /\ regs' = IF arch = "x64"
                    THEN [regs EXCEPT !["rax"] = <<"text", 18>>]
                    ELSE IF k = 1 THEN [regs EXCEPT !["x10"] = regs["sp"]]
                         ELSE [regs EXCEPT !["x11"] = regs["x30"]]
<1>1. pc[1] = "switch" /\ pc[2] = k
  OBVIOUS
<1>2. CASE arch = "x64"
  <2>1. k = 1
    BY <1>2 DEF Prologue
  <2>2. Code = Lea("rax", 61)
    BY <1>1, <1>2, <2>1, CodeX64 DEF Code, Switch
  <2>3. Step /\ Kept /\ area' = area
        /\ regs' = [regs EXCEPT !["rax"] = TextAt(ByteOf(1 + 1) + 61)]
    BY <1>1, <2>1, <2>2 DEF Execute, Code, Lea, Kept
  <2>4. TextAt(ByteOf(1 + 1) + 61) = <<"text", 18>>
    BY <1>2, LeaReachesRet
  <2> QED
    BY <1>1, <1>2, <2>3, <2>4 DEF Step
<1>3. CASE arch = "arm64"
  <2>1. k \in {1, 2}
    BY <1>3 DEF Prologue
  <2>2. Code = IF k = 1 THEN Move("x10", "sp") ELSE Move("x11", "x30")
    BY <1>1, <1>3, <2>1, CodeArm64 DEF Code, Switch
  <2>3. Step /\ Kept /\ area' = area
        /\ regs' = IF k = 1 THEN [regs EXCEPT !["x10"] = regs["sp"]]
                   ELSE [regs EXCEPT !["x11"] = regs["x30"]]
    BY <2>2 DEF Execute, Code, Move, Kept
  <2> QED
    BY <1>1, <1>3, <2>3 DEF Step
<1> QED
  BY <1>2, <1>3 DEF ShapeInv

(* The instructions after the loads.                                        *)
LEMMA ExecutesEpilogue ==
  ASSUME ShapeInv, Execute, NEW k \in Epilogue, pc = <<"switch", k>>
  PROVE  /\ Kept /\ area' = area
         /\ k = 17 => Goto(area[To][0]) /\ regs' = regs
         /\ k = 18 => Goto(Word(regs[Sp])) /\
                      regs' = [regs EXCEPT ![Sp] = <<@[1], @[2], @[3] + 8>>]
         /\ k = 25 => pc' = <<"switch", 26>> /\
                      regs' = [regs EXCEPT !["sp"] = regs["x10"]]
         /\ k = 26 => Goto(regs["x11"]) /\ regs' = regs
<1>1. pc[1] = "switch" /\ pc[2] = k
  OBVIOUS
<1>2. CASE arch = "x64"
  <2>1. k \in {17, 18}
    BY <1>2 DEF Epilogue
  <2>2. CASE k = 17
    <3>1. Code = JumpAt(0)
      BY <1>1, <1>2, <2>2, CodeX64 DEF Code, Switch
    <3> QED
      BY <2>2, <3>1 DEF Execute, Code, JumpAt, Kept
  <2>3. CASE k = 18
    <3>1. Code = Ret
      BY <1>1, <1>2, <2>3, CodeX64 DEF Code, Switch
    <3> QED
      BY <2>3, <3>1 DEF Execute, Code, Ret, Kept
  <2> QED
    BY <2>1, <2>2, <2>3
<1>3. CASE arch = "arm64"
  <2>1. k \in {25, 26}
    BY <1>3 DEF Epilogue
  <2>2. CASE k = 25
    <3>1. Code = Move("sp", "x10")
      BY <1>1, <1>3, <2>2, CodeArm64 DEF Code, Switch
    <3>2. /\ Step /\ Kept /\ area' = area
          /\ regs' = [regs EXCEPT !["sp"] = regs["x10"]]
      BY <3>1 DEF Execute, Code, Move, Kept
    <3> QED
      BY <1>1, <2>2, <3>2 DEF Step
  <2>3. CASE k = 26
    <3>1. Code = JumpTo("x11")
      BY <1>1, <1>3, <2>3, CodeArm64 DEF Code, Switch
    <3> QED
      BY <2>3, <3>1 DEF Execute, Code, JumpTo, Kept
  <2> QED
    BY <2>1, <2>2, <2>3
<1> QED
  BY <1>2, <1>3 DEF ShapeInv

(* WasmccWrapMain moves the arguments and jumps to VMThreadStart.           *)
LEMMA ExecutesWrap ==
  ASSUME ShapeInv, Execute, NEW k \in DOMAIN WrapMain, pc = <<"wrap", k>>
  PROVE  /\ Kept /\ area' = area
         /\ arch = "x64" =>
              \/ k = 1 /\ pc' = <<"wrap", 2>>
                 /\ regs' = [regs EXCEPT !["rdi"] = regs["r13"]]
              \/ k = 2 /\ Goto(regs["r12"]) /\ regs' = regs
         /\ arch = "arm64" =>
              \/ k = 1 /\ pc' = <<"wrap", 2>>
                 /\ regs' = [regs EXCEPT !["x0"] = regs["x19"]]
              \/ k = 2 /\ pc' = <<"wrap", 3>>
                 /\ regs' = [regs EXCEPT !["x30"] = regs["x21"]]
              \/ k = 3 /\ Goto(regs["x20"]) /\ regs' = regs
<1>1. pc[1] = "wrap" /\ pc[2] = k /\ Code = WrapMain[k]
  BY DEF Code
<1>2. CASE arch = "x64"
  <2>1. k \in {1, 2}
    BY <1>2 DEF WrapMain
  <2>2. CASE k = 1
    <3>1. Code = Move("rdi", "r13")
      BY <1>1, <1>2, <2>2 DEF WrapMain
    <3>2. /\ Step /\ Kept /\ area' = area
          /\ regs' = [regs EXCEPT !["rdi"] = regs["r13"]]
      BY <3>1 DEF Execute, Code, Move, Kept
    <3> QED
      BY <1>1, <1>2, <2>2, <3>2 DEF Step
  <2>3. CASE k = 2
    <3>1. Code = JumpTo("r12")
      BY <1>1, <1>2, <2>3 DEF WrapMain
    <3> QED
      BY <1>2, <2>3, <3>1 DEF Execute, Code, JumpTo, Kept
  <2> QED
    BY <2>1, <2>2, <2>3
<1>3. CASE arch = "arm64"
  <2>1. k \in {1, 2, 3}
    BY <1>3 DEF WrapMain
  <2>2. CASE k = 1
    <3>1. Code = Move("x0", "x19")
      BY <1>1, <1>3, <2>2 DEF WrapMain
    <3>2. /\ Step /\ Kept /\ area' = area
          /\ regs' = [regs EXCEPT !["x0"] = regs["x19"]]
      BY <3>1 DEF Execute, Code, Move, Kept
    <3> QED
      BY <1>1, <1>3, <2>2, <3>2 DEF Step
  <2>3. CASE k = 2
    <3>1. Code = Move("x30", "x21")
      BY <1>1, <1>3, <2>3 DEF WrapMain
    <3>2. /\ Step /\ Kept /\ area' = area
          /\ regs' = [regs EXCEPT !["x30"] = regs["x21"]]
      BY <3>1 DEF Execute, Code, Move, Kept
    <3> QED
      BY <1>1, <1>3, <2>3, <3>2 DEF Step
  <2>4. CASE k = 3
    <3>1. Code = JumpTo("x20")
      BY <1>1, <1>3, <2>4 DEF WrapMain
    <3> QED
      BY <1>3, <2>4, <3>1 DEF Execute, Code, JumpTo, Kept
  <2> QED
    BY <2>1, <2>2, <2>3, <2>4
<1> QED
  BY <1>2, <1>3 DEF ShapeInv

-----------------------------------------------------------------------------
(* What a step that only runs an instruction leaves as it was.              *)
LEMMA KeptSame ==
  ASSUME Kept
  PROVE  /\ Registers' = Registers /\ CalleeSaved' = CalleeSaved
         /\ Sp' = Sp /\ Arg1' = Arg1 /\ Arg2' = Arg2 /\ Offsets' = Offsets
         /\ Switch' = Switch /\ WrapMain' = WrapMain /\ EntrySp' = EntrySp
         /\ Words' = Words /\ Suspendable' = Suspendable
         /\ \A c : KeptOK(c)' = KeptOK(c)
         /\ \A c, r : Value(c, r)' = Value(c, r)
         /\ MemoryInv' = MemoryInv
<1>1. arch' = arch /\ kept' = kept /\ calls' = calls /\ saved' = saved
      /\ memory' = memory /\ target' = target
  BY DEF Kept
<1>2. CalleeSaved' = CalleeSaved /\ Sp' = Sp /\ Arg1' = Arg1 /\ Arg2' = Arg2
      /\ Offsets' = Offsets /\ Scratch' = Scratch /\ Switch' = Switch
      /\ WrapMain' = WrapMain /\ EntrySp' = EntrySp /\ Saves' = Saves
  BY <1>1 DEF CalleeSaved, Sp, Arg1, Arg2, Offsets, Scratch, Switch, WrapMain,
              EntrySp, Saves
<1>3. Registers' = Registers /\ Words' = Words /\ Suspendable' = Suspendable
  BY <1>1, <1>2 DEF Registers, Words, Suspendable
<1>4. \A c : KeptOK(c)' = KeptOK(c)
  BY <1>1, <1>2 DEF KeptOK, Address
<1>5. \A c, r : Value(c, r)' = Value(c, r)
  BY <1>1, <1>2 DEF Value, Pushed, Return, Address
<1>6. MemoryInv' = MemoryInv
  BY <1>1, <1>2, <1>3 DEF MemoryInv, Pushed, Return, Address, Word
<1> QED
  BY <1>2, <1>3, <1>4, <1>5, <1>6

(* The same for what is stored and loaded at an instruction.                *)
LEMMA StagesSame ==
  ASSUME Kept, NEW k
  PROVE  Stored(k)' = Stored(k) /\ Loaded(k)' = Loaded(k)
<1>1. arch' = arch
  BY DEF Kept
<1>2. Saves' = Saves /\ Words' = Words
  BY <1>1, KeptSame DEF Saves
<1>3. \A j : StoreAt(j)' = StoreAt(j) /\ LoadAt(j)' = LoadAt(j)
  BY <1>1 DEF StoreAt, LoadAt
<1> QED
  BY <1>2, <1>3 DEF Stored, Loaded

(* The areas of a switch are the two contexts' own, and no other suspended  *)
(* context lies in them.                                                    *)
LEMMA InSwitch ==
  ASSUME Inv, pc[1] = "switch"
  PROVE  /\ From = Home(Source) /\ To = Home(target)
         /\ Home(Source) \in VMs \X {"my", "main"}
         /\ Home(target) \in VMs \X {"my", "main"}
         /\ \A c \in Contexts : Home(c) \in VMs \X {"my", "main"}
         /\ Source # target /\ Source \in Suspendable
         /\ \A c \in Contexts \ {Source} : Home(c) # Home(Source)
         /\ target \in Suspendable =>
              KeptOK(target) /\ Held(target, Home(target))
<1>1. PassingInv /\ Running = Source
  BY DEF Inv, SwitchInv, Running
<1>2. From = Home(Source) /\ To = Home(target)
  BY <1>1 DEF PassingInv, From, To
<1>3. Source \in Suspendable /\ saved \subseteq VMs /\ target \in Contexts
  BY <1>1 DEF PassingInv, Inv, ShapeInv
<1>4. CASE target = Host
  <2>1. Source = From[1] /\ Source \in VMs
    BY <1>1, <1>4 DEF PassingInv, Source
  <2>2. Home(Source) = <<Source, "my">> /\ Home(target) = <<Source, "main">>
    BY <1>4, <2>1, HostAssumption DEF Home
  <2>3. \A c \in Contexts \ {Source} : Home(c) # Home(Source)
    BY <1>4, <2>1, <2>2 DEF Home
  <2>4. Source # target
    BY <1>4, <2>1, HostAssumption
  <2>5. \A c \in Contexts : Home(c) \in VMs \X {"my", "main"}
    BY <1>1, <1>4 DEF Home, Contexts, PassingInv
  <2> QED
    BY <1>1, <1>2, <1>3, <2>1, <2>2, <2>3, <2>4, <2>5 DEF Inv, SuspendedInv
<1>5. CASE target # Host
  <2>1. Source = Host /\ target \in VMs
    BY <1>3, <1>5 DEF Source, Contexts
  <2>2. Home(Source) = <<target, "main">> /\ Home(target) = <<target, "my">>
    BY <1>5, <2>1 DEF Home
  <2>3. \A c \in Contexts \ {Source} : Home(c) # Home(Source)
    BY <1>5, <2>1, <2>2 DEF Home
  <2>4. \A c \in Contexts : Home(c) \in VMs \X {"my", "main"}
    BY <1>5, <2>1 DEF Home, Contexts
  <2> QED
    BY <1>1, <1>2, <1>3, <1>5, <2>1, <2>2, <2>3, <2>4 DEF Inv, SuspendedInv
<1> QED
  BY <1>4, <1>5

(* A step from one instruction of WasmccSwitch to the next keeps the        *)
(* invariant if it writes no area but the first and the words go on as they *)
(* should.                                                                  *)
LEMMA Onward ==
  ASSUME Inv, Kept, NEW k \in DOMAIN Switch, k + 1 \in DOMAIN Switch,
         pc = <<"switch", k>>, pc' = <<"switch", k + 1>>,
         DOMAIN regs' = Registers,
         regs'[Arg1] = regs[Arg1], regs'[Arg2] = regs[Arg2],
         DOMAIN area' = DOMAIN area,
         \A a \in VMs \X {"my", "main"} : DOMAIN area'[a] = Offsets,
         \A a \in (VMs \X {"my", "main"}) \ {From} : area'[a] = area[a],
         \A w \in Stored(k + 1) :
           area'[Home(Source)][w[2]] = Value(Source, w[1]),
         \A w \in Words \ Loaded(k + 1) :
           Ready(w[1]) =< k + 1 => regs'[w[1]] = Value(Source, w[1]),
         \A w \in Loaded(k + 1) : regs'[w[1]] = area[Home(target)][w[2]],
         arch = "x64" /\ k + 1 = 18 => target \in Suspendable,
         ~(arch = "arm64" /\ k + 1 = 1),
         arch = "arm64" /\ k + 1 = 26 => regs'["sp"] = regs'["x10"]
  PROVE  Inv'
<1>1. pc[1] = "switch" /\ pc'[1] = "switch" /\ pc'[2] = k + 1
  OBVIOUS
<1>2. arch' = arch /\ saved' = saved /\ target' = target /\ calls' = calls
      /\ kept' = kept
  BY DEF Kept
<1>3. From' = From /\ To' = To
  BY KeptSame DEF From, To
<1>4. Source' = Source /\ \A c : Home(c)' = Home(c)
  BY <1>2, <1>3 DEF Source, Home
<1>5. Running' = Source /\ Running = Source
  BY <1>1, <1>4 DEF Running
<1>6. ShapeInv'
  BY <1>2, KeptSame DEF Inv, ShapeInv
<1>7. ControlInv'
  BY KeptSame DEF ControlInv
<1>8. ASSUME NEW c \in Contexts \ {Source} PROVE area'[Home(c)] = area[Home(c)]
  BY <1>1, InSwitch
<1>9. SuspendedInv'
  <2> SUFFICES ASSUME NEW c \in Suspendable \ {Source}
               PROVE  KeptOK(c) /\ \A w \in Words :
                        area'[Home(c)][w[2]] = Value(c, w[1])
    BY <1>4, <1>5, KeptSame DEF SuspendedInv, Held
  <2>1. KeptOK(c) /\ Held(c, Home(c))
    BY <1>5 DEF Inv, SuspendedInv
  <2>2. c \in Contexts
    BY DEF Suspendable, Contexts, Inv, ShapeInv
  <2> QED
    BY <1>8, <2>1, <2>2 DEF Held
<1>10. MemoryInv'
  BY KeptSame DEF Inv
<1>11. area'[Home(target)] = area[Home(target)]
  BY <1>1, <1>8, InSwitch DEF Inv, ShapeInv
<1>12. PassingInv'
  <2>1. PassingInv
    BY <1>1 DEF Inv, SwitchInv
  <2>2. target \notin Suspendable => Home(target) = <<target, "my">>
    BY DEF Home, Suspendable
  <2>3. target \notin Suspendable => Fresh(target)'
    BY <1>2, <1>11, <2>1, <2>2, KeptSame DEF Fresh, PassingInv
  <2> QED
    BY <1>2, <1>3, <1>4, <2>1, <2>3, KeptSame DEF PassingInv
<1>13. WordsInv(k + 1)'
  BY <1>2, <1>4, <1>11, KeptSame, StagesSame DEF WordsInv
<1> QED
  BY <1>1, <1>6, <1>7, <1>9, <1>10, <1>12, <1>13
  DEF Inv, SwitchInv, WrapInv, CodeInv

(* Before the first store nothing is stored or loaded.                      *)
LEMMA PrologueStage ==
  ASSUME ShapeInv, NEW k \in Prologue
  PROVE  /\ k \in Int /\ k \in DOMAIN Switch /\ k + 1 \in DOMAIN Switch
         /\ k + 1 < 18
         /\ Loaded(k) = {} /\ Loaded(k + 1) = {} /\ Stored(k + 1) = {}
<1>1. CASE arch = "x64"
  <2>1. DOMAIN Saves = 1..8 /\ DOMAIN Switch = 1..18 /\ k = 1
    BY <1>1, SavedX64, CodeX64 DEF Switch, Prologue
  <2>2. Loaded(k) = {} /\ Loaded(k + 1) = {} /\ Stored(k + 1) = {}
    BY <1>1, <2>1 DEF Loaded, LoadAt, Stored, StoreAt
  <2> QED
    BY <2>1, <2>2
<1>2. CASE arch = "arm64"
  <2>1. DOMAIN Saves = 1..11 /\ DOMAIN Switch = 1..26 /\ k \in {1, 2}
    BY <1>2, SavedArm64, CodeArm64 DEF Switch, Prologue
  <2>2. Loaded(k) = {} /\ Loaded(k + 1) = {} /\ Stored(k + 1) = {}
    BY <1>2, <2>1 DEF Loaded, LoadAt, Stored, StoreAt
  <2> QED
    BY <2>1, <2>2
<1> QED
  BY <1>1, <1>2 DEF ShapeInv

(* The instructions before the stores keep the invariant.                   *)
LEMMA PrologueStep ==
  ASSUME Inv, Execute, NEW k \in Prologue, pc = <<"switch", k>>
  PROVE  Inv'
<1>1. ShapeInv /\ PassingInv /\ WordsInv(k)
  BY DEF Inv, SwitchInv
<1>2. /\ pc' = <<"switch", k + 1>> /\ Kept /\ area' = area
      /\ regs' = IF arch = "x64" THEN [regs EXCEPT !["rax"] = <<"text", 18>>]
                 ELSE IF k = 1 THEN [regs EXCEPT !["x10"] = regs["sp"]]
                      ELSE [regs EXCEPT !["x11"] = regs["x30"]]
  BY <1>1, ExecutesPrologue
<1>3. /\ k \in Int /\ k \in DOMAIN Switch /\ k + 1 \in DOMAIN Switch
      /\ k + 1 < 18
      /\ Loaded(k) = {} /\ Loaded(k + 1) = {} /\ Stored(k + 1) = {}
  BY <1>1, PrologueStage
<1>4. DOMAIN regs = Registers
  BY <1>1 DEF ShapeInv
<1>5. ASSUME NEW w \in Words, Ready(w[1]) =< k
      PROVE  regs[w[1]] = Value(Source, w[1])
  BY <1>1, <1>3, <1>5 DEF WordsInv
<1>6. /\ DOMAIN regs' = Registers
      /\ regs'[Arg1] = regs[Arg1] /\ regs'[Arg2] = regs[Arg2]
      /\ \A w \in Words :
           Ready(w[1]) =< k + 1 => regs'[w[1]] = Value(Source, w[1])
  <2>1. CASE arch = "x64"
    <3>1. k = 1 /\ Arg1 = "rdi" /\ Arg2 = "rsi" /\ "rax" \in Registers
      BY <2>1 DEF Prologue, Arg1, Arg2, Registers, Scratch
    <3>2. /\ DOMAIN regs' = Registers /\ regs'["rax"] = <<"text", 18>>
          /\ \A r \in Registers : r # "rax" => regs'[r] = regs[r]
      BY <1>2, <1>4, <2>1, <3>1
    <3>3. regs'[Arg1] = regs[Arg1] /\ regs'[Arg2] = regs[Arg2]
      BY <3>1, <3>2 DEF Registers
    <3>4. ASSUME NEW w \in Words, Ready(w[1]) =< k + 1
          PROVE  regs'[w[1]] = Value(Source, w[1])
      <4>1. CASE w[1] = "rax"
        BY <3>2, <4>1 DEF Value
      <4>2. CASE w[1] # "rax"
        <5>1. w[1] \in WordsX64 \/ w \in WordsX64
          BY <2>1, SavedX64
        <5>2. w[1] # "x10" /\ w[1] # "x11" /\ w[1] \in Registers
          BY <1>1, <2>1, SavedX64, WordsFit DEF WordsX64
        <5>3. Ready(w[1]) =< k
          BY <3>1, <4>2, <5>2 DEF Ready
        <5> QED
          BY <1>5, <3>2, <4>2, <5>2, <5>3
      <4> QED
        BY <4>1, <4>2
    <3> QED
      BY <3>2, <3>3, <3>4
  <2>2. CASE arch = "arm64" /\ k = 1
    <3>1. Arg1 = "x0" /\ Arg2 = "x1" /\ "x10" \in Registers /\ Sp = "sp"
      BY <2>2 DEF Arg1, Arg2, Registers, Scratch, Sp
    <3>2. /\ DOMAIN regs' = Registers /\ regs'["x10"] = regs["sp"]
          /\ \A r \in Registers : r # "x10" => regs'[r] = regs[r]
      BY <1>2, <1>4, <2>2, <3>1
    <3>3. regs'[Arg1] = regs[Arg1] /\ regs'[Arg2] = regs[Arg2]
      BY <3>1, <3>2 DEF Registers
    <3>4. regs["sp"] = kept[Source]["sp"]
      BY <1>1, <2>2 DEF WordsInv
    <3>5. ASSUME NEW w \in Words, Ready(w[1]) =< k + 1
          PROVE  regs'[w[1]] = Value(Source, w[1])
      <4>1. CASE w[1] = "x10"
        BY <3>1, <3>2, <3>4, <4>1 DEF Value
      <4>2. CASE w[1] # "x10"
        <5>1. w \in WordsArm64 /\ w[1] \in Registers
          BY <1>1, <2>2, SavedArm64, WordsFit
        <5>2. w[1] # "rax"
          BY <5>1 DEF WordsArm64
        <5>3. w[1] # "x11"
          BY <2>2, <3>5 DEF Ready
        <5>4. Ready(w[1]) =< k
          BY <2>2, <4>2, <5>2, <5>3 DEF Ready
        <5> QED
          BY <1>5, <3>2, <4>2, <5>1, <5>4
      <4> QED
        BY <4>1, <4>2
    <3> QED
      BY <3>2, <3>3, <3>5
  <2>3. CASE arch = "arm64" /\ k = 2
    <3>1. /\ Arg1 = "x0" /\ Arg2 = "x1"
          /\ "x11" \in Registers /\ "x30" \in Registers
      BY <2>3 DEF Arg1, Arg2, Registers, Scratch
    <3>2. /\ DOMAIN regs' = Registers /\ regs'["x11"] = regs["x30"]
          /\ \A r \in Registers : r # "x11" => regs'[r] = regs[r]
      BY <1>2, <1>4, <2>3, <3>1
    <3>3. regs'[Arg1] = regs[Arg1] /\ regs'[Arg2] = regs[Arg2]
      BY <3>1, <3>2 DEF Registers
    <3>4. regs["x30"] = Return(Source)
      <4>1. <<"x30", 88>> \in Words
        BY <2>3, SavedArm64 DEF WordsArm64
      <4>2. Ready("x30") =< k
        BY <2>3 DEF Ready
      <4>3. regs["x30"] = Value(Source, "x30")
        BY <1>5, <4>1, <4>2
      <4> QED
        BY <4>3 DEF Value
    <3>5. ASSUME NEW w \in Words PROVE regs'[w[1]] = Value(Source, w[1])
      <4>1. CASE w[1] = "x11"
        BY <3>2, <3>4, <4>1 DEF Value
      <4>2. CASE w[1] # "x11"
        <5>1. w[1] \in Registers
          BY <1>1, WordsFit
        <5>2. Ready(w[1]) =< k
          BY <2>3, <4>2 DEF Ready
        <5> QED
          BY <1>5, <3>2, <4>2, <5>1, <5>2
      <4> QED
        BY <4>1, <4>2
    <3> QED
      BY <3>2, <3>3, <3>5
  <2>4. arch = "x64" \/ (arch = "arm64" /\ (k = 1 \/ k = 2))
    BY <1>1 DEF ShapeInv, Prologue
  <2> QED
    BY <2>1, <2>2, <2>3, <2>4
<1>7. k + 1 # 18 /\ k + 1 # 26 /\ k + 1 # 1
  <2>1. k \in 1..2
    BY DEF Prologue
  <2> QED
    BY <2>1
<1>8. /\ DOMAIN area' = DOMAIN area
      /\ \A a \in VMs \X {"my", "main"} : DOMAIN area'[a] = Offsets
      /\ \A a \in (VMs \X {"my", "main"}) \ {From} : area'[a] = area[a]
  BY <1>1, <1>2 DEF ShapeInv
<1> QED
  BY <1>2, <1>3, <1>6, <1>7, <1>8, Onward

(* Storing words keeps the invariant.                                       *)
LEMMA StoreStep ==
  ASSUME Inv, Execute, NEW k \in DOMAIN Switch, pc = <<"switch", k>>,
         NEW j \in DOMAIN Saves, Stores(k, j)
  PROVE  Inv'
<1>1. ShapeInv /\ PassingInv /\ WordsInv(k) /\ pc[1] = "switch" /\ pc[2] = k
  BY DEF Inv, SwitchInv
<1>2. /\ From = Home(Source) /\ Home(Source) \in VMs \X {"my", "main"}
  BY <1>1, InSwitch
<1>3. Code.op = "store" /\ Code.words = Saves[j]
  BY <1>1 DEF Code, Stores
<1>4. /\ Step /\ Kept /\ regs' = regs /\ DOMAIN area' = DOMAIN area
      /\ \A a \in VMs \X {"my", "main"} : DOMAIN area'[a] = Offsets
      /\ \A a \in (VMs \X {"my", "main"}) \ {From} : area'[a] = area[a]
      /\ \A w \in Saves[j] : area'[From][w[2]] = regs[w[1]]
      /\ \A w \in Words \ Saves[j] : area'[From][w[2]] = area[From][w[2]]
  BY <1>1, <1>2, <1>3, ExecutesStore
<1>5. /\ k \in Int /\ k + 1 \in DOMAIN Switch /\ k > 1 /\ k + 1 < 17
      /\ Loaded(k) = {} /\ Loaded(k + 1) = {}
      /\ Stored(k + 1) \subseteq Stored(k) \cup Saves[j]
      /\ Saves[j] \subseteq Words
      /\ \A w \in Saves[j] : Ready(w[1]) =< k
  BY <1>1, StoreStage
<1>6. pc' = <<"switch", k + 1>>
  BY <1>1, <1>4 DEF Step
<1>7. ASSUME NEW w \in Stored(k + 1)
      PROVE  area'[Home(Source)][w[2]] = Value(Source, w[1])
  <2>1. CASE w \in Saves[j]
    BY <1>1, <1>2, <1>4, <1>5, <2>1 DEF WordsInv
  <2>2. CASE w \notin Saves[j]
    <3>1. w \in Stored(k) /\ w \in Words
      BY <1>5, <2>2 DEF Stored
    <3> QED
      BY <1>1, <1>2, <1>4, <2>2, <3>1 DEF WordsInv
  <2> QED
    BY <2>1, <2>2
<1>8. ASSUME NEW w \in Words, Ready(w[1]) =< k + 1
      PROVE  regs'[w[1]] = Value(Source, w[1])
  <2>1. Ready(w[1]) =< k \/ (k = 2 /\ w[1] = "x11")
    BY <1>5, <1>8 DEF Ready
  <2>2. ~(k = 2 /\ w[1] = "x11")
    <3>1. CASE arch = "x64"
      <4>1. w \in WordsX64
        BY <3>1, SavedX64
      <4> QED
        BY <4>1 DEF WordsX64
    <3>2. CASE arch = "arm64"
      <4>1. k = j + 2 /\ j \in 1..11
        BY <3>2, SavedArm64 DEF Stores, StoreAt
      <4> QED
        BY <4>1
    <3> QED
      BY <1>1, <3>1, <3>2 DEF ShapeInv
  <2> QED
    BY <1>1, <1>4, <1>5, <2>1, <2>2 DEF WordsInv
<1>9. k + 1 # 18 /\ k + 1 # 26 /\ k + 1 # 1
  BY <1>5
<1>10. DOMAIN regs' = Registers
  BY <1>1, <1>4 DEF ShapeInv
<1> QED
  BY <1>4, <1>5, <1>6, <1>7, <1>8, <1>9, <1>10, Onward

(* Loading words keeps the invariant.                                       *)
LEMMA LoadStep ==
  ASSUME Inv, Execute, NEW k \in DOMAIN Switch, pc = <<"switch", k>>,
         NEW j \in DOMAIN Saves, Loads(k, j), k \notin Epilogue
  PROVE  Inv'
<1>1. ShapeInv /\ PassingInv /\ WordsInv(k) /\ pc[1] = "switch" /\ pc[2] = k
  BY DEF Inv, SwitchInv
<1>2. From = Home(Source) /\ To = Home(target)
  BY <1>1, InSwitch
<1>3. Code.op = "load" /\ Code.words = Saves[j]
  BY <1>1 DEF Code, Loads
<1>4. /\ Step /\ Kept /\ area' = area /\ DOMAIN regs' = Registers
      /\ \A w \in Saves[j] : regs'[w[1]] = area[To][w[2]]
      /\ \A r \in Registers :
           (\A w \in Saves[j] : w[1] # r) => regs'[r] = regs[r]
      /\ \A w \in Words \ Saves[j] : regs'[w[1]] = regs[w[1]]
  BY <1>1, <1>3, ExecutesLoad
<1>5. /\ k \in Int /\ k + 1 \in DOMAIN Switch
      /\ k > 3 /\ k # 25 /\ (arch = "x64" => k # 17)
      /\ Loaded(k + 1) = Loaded(k) \cup Saves[j]
      /\ Stored(k + 1) = Words /\ Stored(k) = Words
      /\ Saves[j] \subseteq Words
      /\ \A w \in Words : Ready(w[1]) =< k
  BY <1>1, LoadStage
<1>6. pc' = <<"switch", k + 1>>
  BY <1>1, <1>4 DEF Step
<1>7. regs'[Arg1] = regs[Arg1] /\ regs'[Arg2] = regs[Arg2]
  <2>1. \A w \in Saves[j] : w[1] # Arg1 /\ w[1] # Arg2
    BY <1>1, <1>5, WordsFit
  <2>2. Arg1 \in Registers /\ Arg2 \in Registers
    BY DEF Registers
  <2> QED
    BY <1>4, <2>1, <2>2
<1>8. \A w \in Stored(k + 1) :
        area'[Home(Source)][w[2]] = Value(Source, w[1])
  BY <1>1, <1>4, <1>5 DEF WordsInv
<1>9. ASSUME NEW w \in Words \ Loaded(k + 1)
      PROVE  regs'[w[1]] = Value(Source, w[1])
  <2>1. w \notin Saves[j] /\ w \notin Loaded(k)
    BY <1>5, <1>9
  <2> QED
    BY <1>1, <1>4, <1>5, <2>1 DEF WordsInv
<1>10. ASSUME NEW w \in Loaded(k + 1)
       PROVE  regs'[w[1]] = area[Home(target)][w[2]]
  <2>1. CASE w \in Saves[j]
    BY <1>2, <1>4, <2>1
  <2>2. CASE w \notin Saves[j]
    <3>1. w \in Loaded(k) /\ w \in Words
      BY <1>5, <2>2 DEF Loaded
    <3> QED
      BY <1>1, <1>4, <2>2, <3>1 DEF WordsInv
  <2> QED
    BY <2>1, <2>2
<1>11. arch = "x64" => k + 1 # 18
  BY <1>5
<1>12. k + 1 # 1 /\ k + 1 # 26
  BY <1>5
<1>13. /\ DOMAIN area' = DOMAIN area
       /\ \A a \in VMs \X {"my", "main"} : DOMAIN area'[a] = Offsets
       /\ \A a \in (VMs \X {"my", "main"}) \ {From} : area'[a] = area[a]
  BY <1>1, <1>4 DEF ShapeInv
<1> QED
  BY <1>4, <1>5, <1>6, <1>7, <1>8, <1>9, <1>10, <1>11, <1>12, <1>13, Onward

(* At the end all words are stored and loaded.                              *)
LEMMA EpilogueStage ==
  ASSUME ShapeInv, NEW k \in Epilogue
  PROVE  /\ k \in DOMAIN Switch /\ Stored(k) = Words
         /\ k # 17 => Loaded(k) = Words
         /\ k = 17 => /\ arch = "x64" /\ 18 \in DOMAIN Switch
                      /\ Stored(18) = Words /\ Loaded(18) = Words
                      /\ \A w \in Words : w \in Loaded(17) \/ w = <<"rax", 0>>
         /\ k = 18 => arch = "x64"
         /\ k = 25 => /\ arch = "arm64" /\ 26 \in DOMAIN Switch
                      /\ Stored(26) = Words /\ Loaded(26) = Words
         /\ k = 26 => arch = "arm64"
         /\ k \in {17, 18, 25, 26}
<1>1. \A w \in Words : \E i \in DOMAIN Saves : w \in Saves[i]
  BY DEF Words
<1>2. CASE arch = "x64"
  <2>1. DOMAIN Saves = 1..8 /\ DOMAIN Switch = 1..18 /\ k \in {17, 18}
    BY <1>2, SavedX64, CodeX64 DEF Switch, Epilogue
  <2>2. Stored(17) = Words /\ Stored(18) = Words
    BY <1>1, <1>2, <2>1 DEF Stored, StoreAt
  <2>3. Loaded(18) = Words
    BY <1>1, <1>2, <2>1 DEF Loaded, LoadAt
  <2>4. ASSUME NEW w \in Words PROVE w \in Loaded(17) \/ w = <<"rax", 0>>
    <3>1. PICK i \in 1..8 : w \in Saves[i]
      BY <1>1, <2>1
    <3>2. CASE i = 1
      <4>1. Saves[1] = {<<"rax", 0>>}
        BY <1>2, SavedX64 DEF SavesX64
      <4> QED
        BY <3>1, <3>2, <4>1
    <3>3. CASE i # 1
      <4>1. LoadAt(i) < 17
        BY <1>2, <3>3 DEF LoadAt
      <4> QED
        BY <2>1, <3>1, <4>1 DEF Loaded
    <3> QED
      BY <3>2, <3>3
  <2> QED
    BY <1>2, <2>1, <2>2, <2>3, <2>4
<1>3. CASE arch = "arm64"
  <2>1. DOMAIN Saves = 1..11 /\ DOMAIN Switch = 1..26 /\ k \in {25, 26}
    BY <1>3, SavedArm64, CodeArm64 DEF Switch, Epilogue
  <2>2. Stored(25) = Words /\ Stored(26) = Words
    BY <1>1, <1>3, <2>1 DEF Stored, StoreAt
  <2>3. Loaded(25) = Words /\ Loaded(26) = Words
    BY <1>1, <1>3, <2>1 DEF Loaded, LoadAt
  <2> QED
    BY <1>3, <2>1, <2>2, <2>3
<1> QED
  BY <1>2, <1>3 DEF ShapeInv

(* When all words are loaded the target's registers are in their places, or *)
(* those its first context was written with.                                *)
LEMMA TargetLoaded ==
  ASSUME Inv, NEW k, pc = <<"switch", k>>, Loaded(k) = Words
  PROVE  /\ \A w \in Words : regs[w[1]] = area[Home(target)][w[2]]
         /\ target \in Suspendable =>
              /\ KeptOK(target)
              /\ \A w \in Words : regs[w[1]] = Value(target, w[1])
              /\ \A r \in CalleeSaved : regs[r] = kept[target][r]
         /\ target \notin Suspendable =>
              target \in VMs \ saved /\ Home(target) = <<target, "my">>
              /\ Fresh(target)
<1>1. PassingInv /\ WordsInv(k) /\ ShapeInv /\ pc[1] = "switch"
  BY DEF Inv, SwitchInv
<1>2. \A w \in Words : regs[w[1]] = area[Home(target)][w[2]]
  BY <1>1 DEF WordsInv
<1>3. ASSUME target \in Suspendable
      PROVE  /\ KeptOK(target)
             /\ \A w \in Words : regs[w[1]] = Value(target, w[1])
             /\ \A r \in CalleeSaved : regs[r] = kept[target][r]
  <2>1. KeptOK(target) /\ Held(target, Home(target))
    BY <1>1, <1>3, InSwitch
  <2>2. \A w \in Words : regs[w[1]] = Value(target, w[1])
    BY <1>2, <2>1 DEF Held
  <2>3. ASSUME NEW r \in CalleeSaved PROVE regs[r] = kept[target][r]
    <3>1. PICK w \in Words : w[1] = r
      BY <1>1, WordsCover
    <3>2. r \notin {"rax", "rsp", "x10", "x11", "x30"}
      BY DEF CalleeSaved, CalleeSavedX64, CalleeSavedArm64
    <3> QED
      BY <2>2, <3>1, <3>2 DEF Value
  <2> QED
    BY <2>1, <2>2, <2>3
<1>4. ASSUME target \notin Suspendable
      PROVE  /\ target \in VMs \ saved /\ Home(target) = <<target, "my">>
             /\ Fresh(target)
  BY <1>1, <1>4 DEF PassingInv, ShapeInv, Suspendable, Contexts, Home
<1> QED
  BY <1>2, <1>3, <1>4

(* Leaving WasmccSwitch keeps what is not about the registers: the source   *)
(* is suspended now.                                                        *)
LEMMA Arrives ==
  ASSUME Inv, Kept, area' = area, DOMAIN regs' = Registers,
         NEW k, pc = <<"switch", k>>, Stored(k) = Words,
         \/ pc' = <<"code", target>>
         \/ pc' = <<"wrap", 1>> /\ target \in VMs \ saved
  PROVE  ShapeInv' /\ ControlInv' /\ SuspendedInv' /\ MemoryInv' /\ SwitchInv'
<1>1. pc[1] = "switch" /\ pc'[1] # "switch" /\ PassingInv /\ WordsInv(k)
  BY DEF Inv, SwitchInv
<1>2. arch' = arch /\ saved' = saved /\ target' = target /\ calls' = calls
      /\ kept' = kept
  BY DEF Kept
<1>3. Running' = target /\ Running = Source
  BY <1>1, <1>2 DEF Running
<1>4. ShapeInv'
  BY <1>2, KeptSame DEF Inv, ShapeInv
<1>5. ControlInv'
  <2>1. 1 \in DOMAIN WrapMain
    BY DEF WrapMain
  <2> QED
    BY <1>2, <2>1, KeptSame DEF ControlInv
<1>6. SuspendedInv'
  <2> SUFFICES ASSUME NEW c \in Suspendable \ {target}
               PROVE  KeptOK(c) /\ \A w \in Words :
                        area[Home(c)'][w[2]] = Value(c, w[1])
    BY <1>3, KeptSame DEF SuspendedInv, Held
  <2>1. Home(c)' = Home(c)
    BY <1>2 DEF Home
  <2>2. CASE c = Source
    BY <1>1, <2>1, <2>2 DEF PassingInv, WordsInv
  <2>3. CASE c # Source
    BY <1>3, <2>1, <2>3 DEF Inv, SuspendedInv, Held
  <2> QED
    BY <2>2, <2>3
<1>7. MemoryInv'
  BY KeptSame DEF Inv
<1> QED
  BY <1>1, <1>4, <1>5, <1>6, <1>7 DEF SwitchInv

(* The jump of thread_x64.cc leads to the ret or to WasmccWrapMain.         *)
LEMMA JumpStep ==
  ASSUME Inv, Execute, pc = <<"switch", 17>>, arch = "x64"
  PROVE  Inv'
<1>1. PassingInv /\ WordsInv(17) /\ ShapeInv /\ pc[1] = "switch"
  BY DEF Inv, SwitchInv
<1>2. /\ 17 \in Epilogue /\ 17 \in DOMAIN Switch /\ Stored(17) = Words
      /\ 17 + 1 \in DOMAIN Switch
      /\ Stored(17 + 1) = Words /\ Loaded(17 + 1) = Words
      /\ \A w \in Words : w \in Loaded(17) \/ w = <<"rax", 0>>
  <2>1. 17 \in Epilogue /\ 17 + 1 = 18
    BY DEF Epilogue
  <2> QED
    BY <1>1, <2>1, EpilogueStage
<1>3. Kept /\ area' = area /\ Goto(area[To][0]) /\ regs' = regs
  BY <1>1, <1>2, ExecutesEpilogue
<1>4. To = Home(target) /\ DOMAIN regs' = Registers
  BY <1>1, <1>3, InSwitch DEF ShapeInv
<1>5. <<"rax", 0>> \in Words
  BY <1>1, WordsCover
<1>6. CASE target \in Suspendable
  <2>1. area[To][0] = <<"text", 18>>
    BY <1>1, <1>4, <1>5, <1>6, InSwitch DEF Held, Value
  <2>2. pc' = <<"switch", 17 + 1>>
    <3>1. pc' = <<"switch", 18>>
      BY <1>3, <2>1 DEF Goto
    <3> QED
      BY <3>1
  <2>3. regs["rax"] = <<"text", 18>>
    <3>1. CASE <<"rax", 0>> \in Loaded(17)
      BY <1>1, <1>4, <2>1, <3>1 DEF WordsInv
    <3>2. CASE <<"rax", 0>> \notin Loaded(17)
      <4>1. Ready("rax") =< 17
        BY DEF Ready
      <4> QED
        BY <1>1, <1>5, <3>2, <4>1 DEF WordsInv, Value
    <3> QED
      BY <3>1, <3>2
  <2>4. \A w \in Loaded(17 + 1) : regs'[w[1]] = area[Home(target)][w[2]]
    BY <1>1, <1>2, <1>3, <1>4, <2>1, <2>3 DEF WordsInv
  <2>5. \A w \in Stored(17 + 1) :
          area'[Home(Source)][w[2]] = Value(Source, w[1])
    BY <1>1, <1>2, <1>3 DEF WordsInv
  <2>6. \A w \in Words \ Loaded(17 + 1) :
          Ready(w[1]) =< 17 + 1 => regs'[w[1]] = Value(Source, w[1])
    BY <1>2
  <2>7. /\ DOMAIN area' = DOMAIN area
        /\ \A a \in VMs \X {"my", "main"} : DOMAIN area'[a] = Offsets
        /\ \A a \in (VMs \X {"my", "main"}) \ {From} : area'[a] = area[a]
    BY <1>1, <1>3 DEF ShapeInv
  <2>8. regs'[Arg1] = regs[Arg1] /\ regs'[Arg2] = regs[Arg2]
    BY <1>3
  <2> QED
    BY <1>2, <1>3, <1>4, <1>6, <2>2, <2>4, <2>5, <2>6, <2>7, <2>8, Onward
<1>7. CASE target \notin Suspendable
  <2>1. Fresh(target) /\ Home(target) = <<target, "my">>
        /\ target \in VMs \ saved
    BY <1>1, <1>7
    DEF PassingInv, Home, Suspendable, Contexts, ShapeInv
  <2>2. /\ area[To][0] = <<"WasmccWrapMain">>
        /\ area[To][8] = <<"stack", target, EntrySp>>
        /\ area[To][32] = <<"VMThreadStart">>
        /\ area[To][40] = <<"thread", target>>
    BY <1>4, <2>1 DEF Fresh
  <2>3. pc' = <<"wrap", 1>>
    BY <1>3, <2>2 DEF Goto
  <2>4. ShapeInv' /\ ControlInv' /\ SuspendedInv' /\ MemoryInv' /\ SwitchInv'
    BY <1>2, <1>3, <1>4, <2>1, <2>3, Arrives
  <2>5. regs["rsp"] = area[To][8] /\ regs["r12"] = area[To][32]
        /\ regs["r13"] = area[To][40]
    <3>1. /\ <<"rsp", 8>> \in Words /\ <<"r12", 32>> \in Words
          /\ <<"r13", 40>> \in Words
      BY <1>1, WordsCover
    <3>2. /\ <<"rsp", 8>> \in Loaded(17) /\ <<"r12", 32>> \in Loaded(17)
          /\ <<"r13", 40>> \in Loaded(17)
      BY <1>2, <3>1
    <3> QED
      BY <1>1, <1>4, <3>2 DEF WordsInv
  <2>6. WrapInv'
    <3>1. Sp' = "rsp" /\ EntrySp' = EntrySp /\ arch' = "x64"
          /\ target' = target
      BY <1>3, KeptSame DEF Sp, Kept
    <3>2. pc'[1] = "wrap" /\ pc'[2] = 1
      BY <2>3
    <3> QED
      BY <1>3, <2>2, <2>5, <3>1, <3>2 DEF WrapInv
  <2>7. CodeInv'
    BY <2>3 DEF CodeInv
  <2> QED
    BY <2>4, <2>6, <2>7 DEF Inv
<1> QED
  BY <1>6, <1>7

(* The ret of thread_x64.cc returns to the target's call.                   *)
LEMMA RetStep ==
  ASSUME Inv, Execute, pc = <<"switch", 18>>, arch = "x64"
  PROVE  Inv'
<1>1. PassingInv /\ WordsInv(18) /\ ShapeInv /\ pc[1] = "switch" /\ Sp = "rsp"
  BY DEF Inv, SwitchInv, Sp
<1>2. 18 \in Epilogue /\ Stored(18) = Words /\ Loaded(18) = Words
  <2>1. 18 \in Epilogue
    BY DEF Epilogue
  <2> QED
    BY <1>1, <2>1, EpilogueStage
<1>3. /\ Kept /\ area' = area /\ Goto(Word(regs["rsp"]))
      /\ regs' = [regs EXCEPT !["rsp"] = <<@[1], @[2], @[3] + 8>>]
  BY <1>1, <1>2, ExecutesEpilogue
<1>4. target \in Suspendable
  BY <1>1 DEF WordsInv
<1>5. /\ KeptOK(target)
      /\ \A w \in Words : regs[w[1]] = Value(target, w[1])
      /\ \A r \in CalleeSaved : regs[r] = kept[target][r]
  BY <1>2, <1>4, TargetLoaded
<1>6. regs["rsp"] = Pushed(target)
  <2>1. <<"rsp", 8>> \in Words
    BY <1>1, WordsCover
  <2>2. regs["rsp"] = Value(target, "rsp")
    BY <1>5, <2>1
  <2> QED
    BY <2>2 DEF Value
<1>7. Word(Pushed(target)) = <<"return", target, calls[target]>>
  BY <1>4, <1>5 DEF Inv, MemoryInv, KeptOK, Return
<1>8. pc' = <<"code", target>>
  BY <1>3, <1>6, <1>7 DEF Goto
<1>9. DOMAIN regs' = Registers /\ "rsp" \in Registers
      /\ regs'["rsp"] = kept[target]["rsp"]
      /\ \A r \in Registers : r # "rsp" => regs'[r] = regs[r]
  <2>1. "rsp" \in Registers /\ DOMAIN regs = Registers
    BY <1>1 DEF Registers, ShapeInv
  <2>2. regs'["rsp"] = <<"stack", target, (Address(target) - 8) + 8>>
    BY <1>3, <1>6, <2>1 DEF Pushed
  <2>3. Address(target) \in Int
        /\ kept[target]["rsp"] = <<"stack", target, Address(target)>>
    BY <1>1, <1>5 DEF KeptOK
  <2>4. (Address(target) - 8) + 8 = Address(target)
    BY <2>3
  <2> QED
    BY <1>3, <2>1, <2>2, <2>3, <2>4
<1>10. ShapeInv' /\ ControlInv' /\ SuspendedInv' /\ MemoryInv' /\ SwitchInv'
  BY <1>2, <1>3, <1>8, <1>9, Arrives
<1>11. CodeInv'
  <2>1. \A r \in CalleeSaved : regs'[r] = kept[target][r]
    <3>1. \A r \in CalleeSaved : r \in Registers /\ r # "rsp"
      BY DEF Registers, CalleeSaved, CalleeSavedX64, CalleeSavedArm64
    <3> QED
      BY <1>5, <1>9, <3>1
  <2>2. target \notin VMs \ saved
    BY <1>4, HostAssumption DEF Suspendable
  <2>3. target' = target /\ saved' = saved /\ kept' = kept
    BY <1>3 DEF Kept
  <2>4. Matches(target)'
    BY <1>1, <1>3, <1>9, <2>1, <2>3, KeptSame DEF Matches
  <2> QED
    BY <1>3, <1>5, <2>2, <2>3, <2>4, KeptSame DEF CodeInv
<1>12. WrapInv'
  BY <1>8 DEF WrapInv
<1> QED
  BY <1>10, <1>11, <1>12 DEF Inv

(* The move of the stack pointer in thread_arm64.cc.                        *)
LEMMA MoveStep ==
  ASSUME Inv, Execute, pc = <<"switch", 25>>, arch = "arm64"
  PROVE  Inv'
<1>1. PassingInv /\ WordsInv(25) /\ ShapeInv /\ pc[1] = "switch"
  BY DEF Inv, SwitchInv
<1>2. /\ 25 \in Epilogue /\ 25 \in DOMAIN Switch /\ 25 + 1 \in DOMAIN Switch
      /\ Stored(25) = Words /\ Loaded(25) = Words
      /\ Stored(25 + 1) = Words /\ Loaded(25 + 1) = Words
  <2>1. 25 \in Epilogue /\ 25 + 1 = 26
    BY <1>1 DEF Epilogue
  <2> QED
    BY <1>1, <2>1, EpilogueStage
<1>3. /\ Kept /\ area' = area /\ pc' = <<"switch", 25 + 1>>
      /\ regs' = [regs EXCEPT !["sp"] = regs["x10"]]
  <2>1. /\ Kept /\ area' = area /\ pc' = <<"switch", 26>>
        /\ regs' = [regs EXCEPT !["sp"] = regs["x10"]]
    BY <1>1, <1>2, ExecutesEpilogue
  <2> QED
    BY <2>1
<1>4. /\ DOMAIN regs' = Registers /\ regs'["sp"] = regs["x10"]
      /\ \A r \in Registers : r # "sp" => regs'[r] = regs[r]
      /\ Arg1 = "x0" /\ Arg2 = "x1" /\ Arg1 \in Registers /\ Arg2 \in Registers
      /\ "x10" \in Registers
  <2>1. "sp" \in Registers /\ "x10" \in Registers
    BY <1>1 DEF Registers, Sp, Scratch
  <2>2. Arg1 = "x0" /\ Arg2 = "x1" /\ Arg1 \in Registers /\ Arg2 \in Registers
    BY <1>1 DEF Registers, Arg1, Arg2
  <2> QED
    BY <1>1, <1>3, <2>1, <2>2 DEF ShapeInv
<1>5. regs'[Arg1] = regs[Arg1] /\ regs'[Arg2] = regs[Arg2]
      /\ regs'["sp"] = regs'["x10"]
  BY <1>4
<1>6. \A w \in Words : regs'[w[1]] = regs[w[1]]
  BY <1>1, <1>4, WordsFit
<1>7. \A w \in Loaded(25 + 1) : regs'[w[1]] = area[Home(target)][w[2]]
  BY <1>1, <1>2, <1>6 DEF WordsInv
<1>8. \A w \in Stored(25 + 1) :
        area'[Home(Source)][w[2]] = Value(Source, w[1])
  BY <1>1, <1>2, <1>3 DEF WordsInv
<1>9. \A w \in Words \ Loaded(25 + 1) :
        Ready(w[1]) =< 25 + 1 => regs'[w[1]] = Value(Source, w[1])
  BY <1>2
<1>10. /\ DOMAIN area' = DOMAIN area
       /\ \A a \in VMs \X {"my", "main"} : DOMAIN area'[a] = Offsets
       /\ \A a \in (VMs \X {"my", "main"}) \ {From} : area'[a] = area[a]
  BY <1>1, <1>3 DEF ShapeInv
<1>11. arch # "x64" /\ 25 + 1 # 1
  BY <1>1
<1> QED
  BY <1>2, <1>3, <1>4, <1>5, <1>7, <1>8, <1>9, <1>10, <1>11, Onward

(* The last jump of thread_arm64.cc leads to the target's call, or to       *)
(* WasmccWrapMain.                                                          *)
LEMMA BranchStep ==
  ASSUME Inv, Execute, pc = <<"switch", 26>>, arch = "arm64"
  PROVE  Inv'
<1>1. PassingInv /\ WordsInv(26) /\ ShapeInv /\ pc[1] = "switch" /\ Sp = "sp"
  BY DEF Inv, SwitchInv, Sp
<1>2. 26 \in Epilogue /\ Stored(26) = Words /\ Loaded(26) = Words
  <2>1. 26 \in Epilogue
    BY <1>1 DEF Epilogue
  <2> QED
    BY <1>1, <2>1, EpilogueStage
<1>3. Kept /\ area' = area /\ Goto(regs["x11"]) /\ regs' = regs
  BY <1>1, <1>2, ExecutesEpilogue
<1>4. DOMAIN regs' = Registers
  BY <1>1, <1>3 DEF ShapeInv
<1>5. \A w \in Words : regs[w[1]] = area[Home(target)][w[2]]
  BY <1>2, TargetLoaded
<1>6. /\ <<"x10", 96>> \in Words /\ <<"x11", 104>> \in Words
      /\ <<"x19", 0>> \in Words /\ <<"x20", 8>> \in Words
      /\ <<"x21", 16>> \in Words
  BY <1>1, WordsCover
<1>7. regs["sp"] = regs["x10"]
  BY <1>1 DEF WordsInv
<1>8. target' = target /\ saved' = saved /\ kept' = kept /\ arch' = arch
  BY <1>3 DEF Kept
<1>9. CASE target \in Suspendable
  <2>1. /\ KeptOK(target)
        /\ \A w \in Words : regs[w[1]] = Value(target, w[1])
        /\ \A r \in CalleeSaved : regs[r] = kept[target][r]
    BY <1>2, <1>9, TargetLoaded
  <2>2. regs["x11"] = <<"return", target, calls[target]>>
    <3>1. regs["x11"] = Value(target, "x11")
      BY <1>6, <2>1
    <3> QED
      BY <3>1 DEF Value, Return
  <2>3. regs["sp"] = kept[target]["sp"]
    <3>1. regs["x10"] = Value(target, "x10")
      BY <1>6, <2>1
    <3> QED
      BY <1>1, <1>7, <3>1 DEF Value
  <2>4. pc' = <<"code", target>>
    BY <1>3, <2>2 DEF Goto
  <2>5. ShapeInv' /\ ControlInv' /\ SuspendedInv' /\ MemoryInv' /\ SwitchInv'
    BY <1>2, <1>3, <1>4, <2>4, Arrives
  <2>6. Matches(target)'
    BY <1>1, <1>3, <1>8, <2>1, <2>3, KeptSame DEF Matches
  <2>7. target \notin VMs \ saved
    BY <1>9, HostAssumption DEF Suspendable
  <2>8. CodeInv'
    BY <1>3, <1>8, <2>1, <2>6, <2>7, KeptSame DEF CodeInv
  <2>9. WrapInv'
    BY <2>4 DEF WrapInv
  <2> QED
    BY <2>5, <2>8, <2>9 DEF Inv
<1>10. CASE target \notin Suspendable
  <2>1. Fresh(target) /\ Home(target) = <<target, "my">>
        /\ target \in VMs \ saved
    BY <1>2, <1>10, TargetLoaded
  <2>2. /\ area[Home(target)][0] = <<"thread", target>>
        /\ area[Home(target)][8] = <<"VMThreadStart">>
        /\ area[Home(target)][16] = Dummy
        /\ area[Home(target)][96] = <<"stack", target, EntrySp>>
        /\ area[Home(target)][104] = <<"WasmccWrapMain">>
    BY <1>1, <2>1 DEF Fresh
  <2>3. /\ regs["x19"] = <<"thread", target>>
        /\ regs["x20"] = <<"VMThreadStart">> /\ regs["x21"] = Dummy
        /\ regs["x10"] = <<"stack", target, EntrySp>>
        /\ regs["x11"] = <<"WasmccWrapMain">>
    BY <1>5, <1>6, <2>2
  <2>4. pc' = <<"wrap", 1>>
    BY <1>3, <2>3 DEF Goto
  <2>5. ShapeInv' /\ ControlInv' /\ SuspendedInv' /\ MemoryInv' /\ SwitchInv'
    BY <1>2, <1>3, <1>4, <2>1, <2>4, Arrives
  <2>6. WrapInv'
    <3>1. Sp' = "sp" /\ EntrySp' = EntrySp /\ arch' = "arm64"
      BY <1>1, <1>3, <1>8, KeptSame
    <3>2. pc'[1] = "wrap" /\ pc'[2] = 1
      BY <2>4
    <3> QED
      BY <1>3, <1>7, <1>8, <2>3, <3>1, <3>2 DEF WrapInv, Dummy
  <2>7. CodeInv'
    BY <2>4 DEF CodeInv
  <2> QED
    BY <2>5, <2>6, <2>7 DEF Inv
<1> QED
  BY <1>9, <1>10

(* Every instruction of WasmccSwitch keeps the invariant.                   *)
LEMMA SwitchStep ==
  ASSUME Inv, Execute, pc[1] = "switch" PROVE Inv'
<1>1. PICK k \in DOMAIN Switch : pc = <<"switch", k>>
  BY DEF Inv, ControlInv
<1>2. ShapeInv
  BY DEF Inv
<1>3. CASE k \in Prologue
  BY <1>1, <1>3, PrologueStep
<1>4. CASE k \in Epilogue
  <2>1. k \in {17, 18, 25, 26} /\ (k \in {17, 18} => arch = "x64")
        /\ (k \in {25, 26} => arch = "arm64")
    BY <1>2, <1>4, EpilogueStage
  <2> QED
    BY <1>1, <2>1, JumpStep, RetStep, MoveStep, BranchStep
<1>5. CASE k \notin Prologue \cup Epilogue
  <2>1. PICK j \in DOMAIN Saves : Stores(k, j) \/ Loads(k, j)
    BY <1>2, <1>5, Instructions
  <2>2. CASE Stores(k, j)
    BY <1>1, <2>2, StoreStep
  <2>3. CASE Loads(k, j)
    BY <1>1, <1>5, <2>3, LoadStep
  <2> QED
    BY <2>1, <2>2, <2>3
<1> QED
  BY <1>3, <1>4, <1>5

(* WasmccWrapMain leads to VMThreadStart of the target.                     *)
LEMMA WrapStep ==
  ASSUME Inv, Execute, pc[1] = "wrap" PROVE Inv'
<1>1. PICK k \in DOMAIN WrapMain : pc = <<"wrap", k>> /\ target \in VMs \ saved
  BY DEF Inv, ControlInv
<1>2. ShapeInv /\ WrapInv /\ pc[2] = k
  BY <1>1 DEF Inv
<1>3. Kept /\ area' = area
  BY <1>1, <1>2, ExecutesWrap
<1>4. target' = target /\ saved' = saved /\ kept' = kept /\ arch' = arch
      /\ calls' = calls
  BY <1>3 DEF Kept
<1>5. target # Host /\ Running = target
  BY <1>1, HostAssumption DEF Running
<1>6. ASSUME DOMAIN regs' = Registers,
             \/ pc' = <<"code", target>>
             \/ \E i \in DOMAIN WrapMain : pc' = <<"wrap", i>>
      PROVE  /\ ShapeInv' /\ ControlInv' /\ SuspendedInv' /\ MemoryInv'
             /\ SwitchInv'
  <2>1. ShapeInv'
    BY <1>2, <1>3, <1>4, <1>6, KeptSame DEF ShapeInv
  <2>2. ControlInv'
    BY <1>1, <1>4, <1>6, KeptSame, <1>3 DEF ControlInv
  <2>3. Running' = target /\ \A c : Home(c)' = Home(c)
    BY <1>4, <1>5, <1>6 DEF Running, Home
  <2>4. SuspendedInv'
    BY <1>3, <1>5, <2>3, KeptSame DEF SuspendedInv, Held, Inv
  <2>5. MemoryInv'
    BY <1>3, KeptSame DEF Inv
  <2>6. SwitchInv'
    BY <1>6 DEF SwitchInv
  <2> QED
    BY <2>1, <2>2, <2>4, <2>5, <2>6
<1>7. target \notin saved /\ target \in VMs
  BY <1>1
<1>8. CASE arch = "x64"
  <2>1. /\ regs["rsp"] = <<"stack", target, EntrySp>>
        /\ regs["r12"] = <<"VMThreadStart">>
        /\ regs[IF k = 1 THEN "r13" ELSE "rdi"] = <<"thread", target>>
    BY <1>1, <1>2, <1>8 DEF WrapInv, Sp
  <2>2. /\ DOMAIN regs = Registers /\ "rdi" \in Registers /\ "r12" \in Registers
        /\ "rsp" \in Registers /\ Arg1 = "rdi" /\ Sp = "rsp"
        /\ DOMAIN WrapMain = 1..2
    BY <1>2, <1>8
    DEF ShapeInv, Registers, Arg1, Sp, CalleeSaved, CalleeSavedX64, WrapMain
  <2>3. CASE k = 1 /\ pc' = <<"wrap", 2>>
             /\ regs' = [regs EXCEPT !["rdi"] = regs["r13"]]
    <3>1. /\ DOMAIN regs' = Registers /\ regs'["rdi"] = <<"thread", target>>
          /\ regs'["r12"] = regs["r12"] /\ regs'["rsp"] = regs["rsp"]
      BY <2>1, <2>2, <2>3
    <3>2. 2 \in DOMAIN WrapMain /\ pc'[1] = "wrap" /\ pc'[2] = 2
      BY <2>2, <2>3
    <3>3. WrapInv'
      BY <1>3, <1>4, <1>8, <2>1, <2>2, <3>1, <3>2, KeptSame DEF WrapInv
    <3> QED
      BY <1>6, <2>3, <3>1, <3>2, <3>3 DEF Inv, CodeInv
  <2>4. CASE k = 2 /\ Goto(regs["r12"]) /\ regs' = regs
    <3>1. pc' = <<"code", target>>
      BY <2>1, <2>2, <2>4 DEF Goto
    <3>2. CodeInv'
      BY <1>3, <1>4, <1>5, <1>7, <1>8, <2>1, <2>2, <2>4, <3>1, KeptSame
      DEF CodeInv
    <3> QED
      BY <1>6, <2>2, <2>4, <3>1, <3>2 DEF Inv, WrapInv
  <2> QED
    BY <1>1, <1>2, <1>8, <2>3, <2>4, ExecutesWrap
<1>9. CASE arch = "arm64"
  <2>1. /\ regs["sp"] = <<"stack", target, EntrySp>>
        /\ regs["x20"] = <<"VMThreadStart">>
        /\ regs[IF k = 1 THEN "x19" ELSE "x0"] = <<"thread", target>>
        /\ regs[IF k \in {1, 2} THEN "x21" ELSE "x30"] = Dummy
    BY <1>1, <1>2, <1>9 DEF WrapInv, Sp
  <2>2. /\ DOMAIN regs = Registers /\ "x0" \in Registers /\ "x20" \in Registers
        /\ "sp" \in Registers /\ "x21" \in Registers /\ "x30" \in Registers
        /\ Arg1 = "x0" /\ Sp = "sp" /\ DOMAIN WrapMain = 1..3
    BY <1>2, <1>9
    DEF ShapeInv, Registers, Arg1, Sp, CalleeSaved, CalleeSavedArm64, Scratch,
        WrapMain
  <2>3. CASE k = 1 /\ pc' = <<"wrap", 2>>
             /\ regs' = [regs EXCEPT !["x0"] = regs["x19"]]
    <3>1. /\ DOMAIN regs' = Registers /\ regs'["x0"] = <<"thread", target>>
          /\ regs'["x20"] = regs["x20"] /\ regs'["sp"] = regs["sp"]
          /\ regs'["x21"] = Dummy
      BY <2>1, <2>2, <2>3
    <3>2. 2 \in DOMAIN WrapMain /\ pc'[1] = "wrap" /\ pc'[2] = 2
      BY <2>2, <2>3
    <3>3. WrapInv'
      BY <1>3, <1>4, <1>9, <2>1, <2>2, <3>1, <3>2, KeptSame DEF WrapInv, Dummy
    <3> QED
      BY <1>6, <2>3, <3>1, <3>2, <3>3 DEF Inv, CodeInv
  <2>4. CASE k = 2 /\ pc' = <<"wrap", 3>>
             /\ regs' = [regs EXCEPT !["x30"] = regs["x21"]]
    <3>1. /\ DOMAIN regs' = Registers /\ regs'["x0"] = <<"thread", target>>
          /\ regs'["x20"] = regs["x20"] /\ regs'["sp"] = regs["sp"]
          /\ regs'["x30"] = Dummy
      BY <2>1, <2>2, <2>4
    <3>2. 3 \in DOMAIN WrapMain /\ pc'[1] = "wrap" /\ pc'[2] = 3
      BY <2>2, <2>4
    <3>3. WrapInv'
      BY <1>3, <1>4, <1>9, <2>1, <2>2, <3>1, <3>2, KeptSame DEF WrapInv, Dummy
    <3> QED
      BY <1>6, <2>4, <3>1, <3>2, <3>3 DEF Inv, CodeInv
  <2>5. CASE k = 3 /\ Goto(regs["x20"]) /\ regs' = regs
    <3>1. pc' = <<"code", target>>
      BY <2>1, <2>2, <2>5 DEF Goto
    <3>2. regs["x30"] = Dummy
      BY <2>1, <2>5
    <3>3. CodeInv'
      BY <1>3, <1>4, <1>5, <1>7, <1>9, <2>1, <2>2, <2>5, <3>1, <3>2, KeptSame
      DEF CodeInv, Dummy
    <3> QED
      BY <1>6, <2>2, <2>5, <3>1, <3>3 DEF Inv, WrapInv
  <2> QED
    BY <1>1, <1>2, <1>9, <2>3, <2>4, <2>5, ExecutesWrap
<1> QED
  BY <1>2, <1>8, <1>9 DEF ShapeInv

-----------------------------------------------------------------------------
\* A word of memory after a step.
After(sp) == IF sp \in DOMAIN memory' THEN memory'[sp] ELSE Null

(* What a word of memory is after another was written.                      *)
LEMMA WordWritten ==
  ASSUME NEW words, NEW sp, NEW value, NEW at, memory' = With(words, sp, value)
  PROVE  /\ at = sp => After(at) = value
         /\ at # sp => After(at) = IF at \in DOMAIN words THEN words[at]
                                   ELSE Null
<1>1. DOMAIN memory' = DOMAIN words \cup {sp}
  BY DEF With
<1>2. \A p \in DOMAIN words \cup {sp} :
        memory'[p] = IF p = sp THEN value ELSE words[p]
  BY DEF With
<1> QED
  BY <1>1, <1>2 DEF After

(* The stack pointer of a call is an address, kept with the registers.      *)
LEMMA CallFacts ==
  ASSUME ShapeInv, NEW c \in Contexts, NEW from, NEW to, NEW words,
         CallSwitch(c, from, to, words)
  PROVE  \E a \in Int : \E left :
           /\ calls' = [calls EXCEPT ![c] = calls[c] + 1]
           /\ calls[c] + 1 =< MaxCalls
           /\ pc' = <<"switch", 1>>
           /\ kept' = [kept EXCEPT ![c] = left]
           /\ left # Null /\ left[Sp] = <<"stack", c, a>>
           /\ DOMAIN regs' = Registers
           /\ regs'[Arg1] = <<"area", from>> /\ regs'[Arg2] = <<"area", to>>
           /\ regs'[Sp] = <<"stack", c, IF arch = "x64" THEN a - 8 ELSE a>>
           /\ arch = "arm64" => regs'["x30"] = <<"return", c, calls[c] + 1>>
           /\ \A r \in CalleeSaved : regs'[r] = left[r]
           /\ memory' = IF arch = "x64"
                        THEN With(words, <<"stack", c, a - 8>>,
                                  <<"return", c, calls[c] + 1>>)
                        ELSE words
<1> DEFINE n == calls[c] + 1
           top(f) == (IF c = Host THEN HostTop ELSE EntrySp - 8) - f
           al(f) == top(f) - (top(f) % 16)
           live(f) == [r \in Registers |->
                   CASE r = Sp   -> IF arch = "x64"
                                    THEN <<"stack", c, al(f) - 8>>
                                    ELSE <<"stack", c, al(f)>>
                     [] r = Arg1 -> <<"area", from>>
                     [] r = Arg2 -> <<"area", to>>
                     [] r = "x30" -> <<"return", c, n>>
                     [] OTHER    -> <<"live", c, n, r>>]
           saves(f) == [r \in CalleeSaved \cup {Sp} |->
                         IF r = Sp THEN <<"stack", c, al(f)>> ELSE live(f)[r]]
<1>1. PICK f \in Frames :
        /\ n =< MaxCalls /\ calls' = [calls EXCEPT ![c] = n]
        /\ regs' = live(f) /\ kept' = [kept EXCEPT ![c] = saves(f)]
        /\ memory' = IF arch = "x64"
                     THEN With(words, <<"stack", c, al(f) - 8>>,
                               <<"return", c, n>>)
                     ELSE words
        /\ pc' = <<"switch", 1>>
  BY DEF CallSwitch
<1>2. al(f) \in Int
  <2>1. HostTop \in Int /\ EntrySp \in Int /\ f \in Int
    BY StackAssumption DEF HostTop, EntrySp
  <2>2. top(f) \in Int
    BY <2>1
  <2> QED
    BY <2>2
<1>3. /\ Sp \in Registers /\ Arg1 \in Registers /\ Arg2 \in Registers
      /\ Sp # Arg1 /\ Sp # Arg2 /\ Arg1 # Arg2
      /\ \A r \in CalleeSaved : r \in Registers /\ r # Sp
      /\ Sp # "x30" /\ Arg1 # "x30" /\ Arg2 # "x30"
      /\ arch = "arm64" => "x30" \in Registers
  BY DEF Registers, Sp, Arg1, Arg2, CalleeSaved, CalleeSavedX64,
         CalleeSavedArm64, Scratch, ShapeInv
<1>4. saves(f) # Null
  <2>1. PICK r \in CalleeSaved : r # Sp
    <3>1. "rbx" \in CalleeSaved \/ "x19" \in CalleeSaved
      BY DEF CalleeSaved, CalleeSavedX64, CalleeSavedArm64
    <3> QED
      BY <1>3, <3>1
  <2>2. r \in DOMAIN saves(f) /\ Sp \in DOMAIN saves(f)
    OBVIOUS
  <2>3. \A s, t \in DOMAIN Null : s = t
    BY DEF Null
  <2> QED
    BY <2>1, <2>2, <2>3
<1>5. saves(f)[Sp] = <<"stack", c, al(f)>>
  OBVIOUS
<1>6. \A r \in CalleeSaved : regs'[r] = saves(f)[r]
  BY <1>1, <1>3
<1>7. DOMAIN regs' = Registers
  BY <1>1
<1>8. regs'[Sp] = <<"stack", c, IF arch = "x64" THEN al(f) - 8 ELSE al(f)>>
  <2>1. live(f)[Sp] = IF arch = "x64" THEN <<"stack", c, al(f) - 8>>
                      ELSE <<"stack", c, al(f)>>
    <3> HIDE DEF al
    <3> QED
      BY <1>3
  <2> QED
    BY <1>1, <2>1
<1>9. regs'[Arg1] = <<"area", from>> /\ regs'[Arg2] = <<"area", to>>
  <2>1. live(f)[Arg1] = <<"area", from>>
    BY <1>3
  <2>2. live(f)[Arg2] = <<"area", to>>
    BY <1>3
  <2> QED
    BY <1>1, <2>1, <2>2
<1>10. arch = "arm64" => regs'["x30"] = <<"return", c, n>>
  <2> SUFFICES ASSUME arch = "arm64" PROVE live(f)["x30"] = <<"return", c, n>>
    BY <1>1
  <2> QED
    BY <1>3
<1>11. PICK a \in Int : a = al(f)
  BY <1>2
<1>12. PICK left : left = saves(f)
  OBVIOUS
<1>13. /\ calls' = [calls EXCEPT ![c] = n] /\ n =< MaxCalls
       /\ pc' = <<"switch", 1>> /\ kept' = [kept EXCEPT ![c] = left]
       /\ memory' = IF arch = "x64"
                    THEN With(words, <<"stack", c, a - 8>>, <<"return", c, n>>)
                    ELSE words
  BY <1>1, <1>11, <1>12
<1>14. /\ left # Null /\ left[Sp] = <<"stack", c, a>>
       /\ regs'[Sp] = <<"stack", c, IF arch = "x64" THEN a - 8 ELSE a>>
       /\ \A r \in CalleeSaved : regs'[r] = left[r]
  BY <1>4, <1>5, <1>6, <1>8, <1>11, <1>12
<1> HIDE DEF n, top, al, live, saves
<1> QED
  BY <1>7, <1>9, <1>10, <1>13, <1>14 DEF n

(* At the first instruction of WasmccSwitch the words that are ready hold   *)
(* what the caller left in its registers.                                   *)
LEMMA CallStarts ==
  ASSUME ShapeInv, arch' = arch,
         NEW c \in Contexts, NEW from, NEW to, NEW words,
         CallSwitch(c, from, to, words)
  PROVE  /\ pc' = <<"switch", 1>> /\ 1 \in DOMAIN Switch'
         /\ DOMAIN regs' = Registers' /\ DOMAIN kept' = Contexts
         /\ calls' \in [Contexts -> 0..MaxCalls]
         /\ regs'[Arg1'] = <<"area", from>> /\ regs'[Arg2'] = <<"area", to>>
         /\ KeptOK(c)'
         /\ Stored(1)' = {} /\ Loaded(1)' = {}
         /\ \A w \in Words' :
              Ready(w[1]) =< 1 => regs'[w[1]] = Value(c, w[1])'
         /\ arch = "arm64" => regs'["sp"] = kept'[c]["sp"]
         /\ arch = "x64" => memory' = With(words, Pushed(c)', Return(c)')
         /\ arch = "arm64" => memory' = words
         /\ \A d \in Contexts \ {c} :
              /\ kept'[d] = kept[d] /\ calls'[d] = calls[d]
              /\ KeptOK(d)' = KeptOK(d)
              /\ \A r : Value(d, r)' = Value(d, r)
              /\ Pushed(d)' = Pushed(d) /\ Return(d)' = Return(d)
<1>0. PICK a \in Int : \E left :
          /\ calls' = [calls EXCEPT ![c] = calls[c] + 1]
          /\ calls[c] + 1 =< MaxCalls
          /\ pc' = <<"switch", 1>>
          /\ kept' = [kept EXCEPT ![c] = left]
          /\ left # Null /\ left[Sp] = <<"stack", c, a>>
          /\ DOMAIN regs' = Registers
          /\ regs'[Arg1] = <<"area", from>> /\ regs'[Arg2] = <<"area", to>>
          /\ regs'[Sp] = <<"stack", c, IF arch = "x64" THEN a - 8 ELSE a>>
          /\ arch = "arm64" => regs'["x30"] = <<"return", c, calls[c] + 1>>
          /\ \A r \in CalleeSaved : regs'[r] = left[r]
          /\ memory' = IF arch = "x64"
                       THEN With(words, <<"stack", c, a - 8>>,
                                 <<"return", c, calls[c] + 1>>)
                       ELSE words
  BY CallFacts
<1>1. PICK left :
        /\ calls' = [calls EXCEPT ![c] = calls[c] + 1]
        /\ calls[c] + 1 =< MaxCalls
        /\ pc' = <<"switch", 1>>
        /\ kept' = [kept EXCEPT ![c] = left]
        /\ left # Null /\ left[Sp] = <<"stack", c, a>>
        /\ DOMAIN regs' = Registers
        /\ regs'[Arg1] = <<"area", from>> /\ regs'[Arg2] = <<"area", to>>
        /\ regs'[Sp] = <<"stack", c, IF arch = "x64" THEN a - 8 ELSE a>>
        /\ arch = "arm64" => regs'["x30"] = <<"return", c, calls[c] + 1>>
        /\ \A r \in CalleeSaved : regs'[r] = left[r]
        /\ memory' = IF arch = "x64"
                     THEN With(words, <<"stack", c, a - 8>>,
                               <<"return", c, calls[c] + 1>>)
                     ELSE words
  BY <1>0
<1>2. /\ Registers' = Registers /\ CalleeSaved' = CalleeSaved /\ Sp' = Sp
      /\ Arg1' = Arg1 /\ Arg2' = Arg2 /\ Switch' = Switch /\ Saves' = Saves
  BY DEF Registers, CalleeSaved, Sp, Arg1, Arg2, Scratch, Switch, Saves
<1>3. Words' = Words
  BY <1>2 DEF Words
<1>4. /\ kept'[c] = left /\ calls'[c] = calls[c] + 1
      /\ DOMAIN kept' = Contexts /\ calls' \in [Contexts -> 0..MaxCalls]
      /\ \A d \in Contexts \ {c} : kept'[d] = kept[d] /\ calls'[d] = calls[d]
  <2>1. DOMAIN kept = Contexts /\ calls \in [Contexts -> 0..MaxCalls]
    BY DEF ShapeInv
  <2>2. calls[c] + 1 \in 0..MaxCalls
    BY <1>1, <2>1, CallBoundAssumption
  <2> QED
    BY <1>1, <2>1, <2>2
<1>5. Address(c)' = a /\ KeptOK(c)' /\ Pushed(c)' = <<"stack", c, a - 8>>
      /\ Return(c)' = <<"return", c, calls[c] + 1>>
  BY <1>1, <1>2, <1>4 DEF Address, KeptOK, Pushed, Return
<1>6. ASSUME NEW d \in Contexts \ {c}
      PROVE  /\ KeptOK(d)' = KeptOK(d) /\ Pushed(d)' = Pushed(d)
             /\ Return(d)' = Return(d) /\ \A r : Value(d, r)' = Value(d, r)
  <2>1. Address(d)' = Address(d)
    BY <1>2, <1>4 DEF Address
  <2>2. /\ Pushed(d)' = Pushed(d) /\ Return(d)' = Return(d)
        /\ KeptOK(d)' = KeptOK(d)
    BY <1>2, <1>4, <2>1 DEF Pushed, Return, KeptOK
  <2> QED
    BY <1>2, <1>4, <2>2 DEF Value
<1>7. 1 \in DOMAIN Switch /\ Stored(1)' = {} /\ Loaded(1)' = {}
  <2>1. DOMAIN Saves \subseteq 1..11 /\ (arch = "x64" => DOMAIN Saves = 1..8)
    BY SavedX64, SavedArm64 DEF ShapeInv
  <2>2. ASSUME NEW j \in DOMAIN Saves
        PROVE  ~(StoreAt(j)' < 1) /\ ~(LoadAt(j)' < 1)
    BY <2>1 DEF StoreAt, LoadAt
  <2>3. Stored(1)' = {} /\ Loaded(1)' = {}
    BY <1>2, <2>2 DEF Stored, Loaded
  <2>4. 1 \in DOMAIN Switch
    BY CodeX64, CodeArm64 DEF Switch
  <2> QED
    BY <2>3, <2>4
<1>8. ASSUME NEW w \in Words, Ready(w[1]) =< 1
      PROVE  regs'[w[1]] = Value(c, w[1])'
  <2>1. w[1] \notin {"rax", "x10", "x11"}
    BY <1>8 DEF Ready
  <2>2. CASE arch = "x64"
    <3>1. w[1] \in CalleeSaved \cup {"rsp"} /\ Sp = "rsp" /\ w[1] # "x30"
      BY <2>1, <2>2, SavedX64 DEF WordsX64, CalleeSaved, CalleeSavedX64, Sp
    <3>2. CASE w[1] = "rsp"
      BY <1>1, <1>5, <2>2, <3>1, <3>2 DEF Value
    <3>3. CASE w[1] # "rsp"
      BY <1>1, <1>4, <2>1, <3>1, <3>3 DEF Value
    <3> QED
      BY <3>2, <3>3
  <2>3. CASE arch = "arm64"
    <3>1. w \in WordsArm64
      BY <2>3, SavedArm64
    <3>2. w[1] \in CalleeSavedArm64 \cup {"x30"} /\ w[1] # "rsp"
      BY <2>1, <3>1 DEF WordsArm64, CalleeSavedArm64
    <3>3. w[1] \in CalleeSaved \cup {"x30"}
      BY <2>3, <3>2 DEF CalleeSaved
    <3>4. CASE w[1] = "x30"
      BY <1>1, <1>5, <2>3, <3>4 DEF Value
    <3>5. CASE w[1] # "x30"
      BY <1>1, <1>4, <2>1, <3>2, <3>3, <3>5 DEF Value
    <3> QED
      BY <3>4, <3>5
  <2> QED
    BY <2>2, <2>3 DEF ShapeInv
<1>9. arch = "arm64" => regs'["sp"] = kept'[c]["sp"]
  BY <1>1, <1>4 DEF Sp
<1>10. /\ arch = "x64" => memory' = With(words, Pushed(c)', Return(c)')
       /\ arch = "arm64" => memory' = words
  BY <1>1, <1>5
<1> QED
  BY <1>1, <1>2, <1>3, <1>4, <1>5, <1>6, <1>7, <1>8, <1>9, <1>10

(* Initially nothing is suspended and nobody called.                        *)
LEMMA InitInv == ASSUME Init PROVE Inv
<1>1. /\ arch \in Archs /\ DOMAIN regs = Registers
      /\ area = [a \in VMs \X {"my", "main"} |-> [o \in Offsets |-> Null]]
      /\ pc = <<"code", Host>> /\ saved = {} /\ target = Host
      /\ calls = [c \in Contexts |-> 0] /\ kept = [c \in Contexts |-> Null]
  BY DEF Init
<1>2. Host \in Contexts /\ Host \notin VMs
  BY HostAssumption DEF Contexts
<1>3. ShapeInv
  BY <1>1, <1>2, ArchAssumption, CallBoundAssumption DEF ShapeInv
<1>4. ControlInv
  BY <1>1 DEF ControlInv
<1>5. pc[1] = "code" /\ Running = Host /\ Suspendable = {Host}
  BY <1>1 DEF Running, Suspendable
<1>6. SuspendedInv
  BY <1>5 DEF SuspendedInv
<1>7. kept[Host] = Null
  BY <1>1, <1>2
<1>8. MemoryInv
  BY <1>1, <1>2, <1>5, <1>7 DEF MemoryInv
<1>9. CodeInv
  BY <1>1, <1>2, <1>7 DEF CodeInv
<1>10. SwitchInv /\ WrapInv
  BY <1>5 DEF SwitchInv, WrapInv
<1> QED
  BY <1>3, <1>4, <1>6, <1>8, <1>9, <1>10 DEF Inv

(* A first context is what WasmccWrapMain expects.                          *)
LEMMA WrittenFresh ==
  ASSUME ShapeInv, NEW v \in VMs, arch' = arch,
         area' = [area EXCEPT ![<<v, "my">>] = Initialized(v)]
  PROVE  Fresh(v)' /\ DOMAIN Initialized(v) = Offsets
<1> DEFINE a == area[<<v, "my">>]
<1>1. DOMAIN a = Offsets /\ area'[<<v, "my">>] = Initialized(v)
      /\ EntrySp' = EntrySp
  BY DEF ShapeInv, EntrySp
<1>2. CASE arch = "x64"
  <2>1. /\ 0 \in Offsets /\ 8 \in Offsets /\ 32 \in Offsets /\ 40 \in Offsets
    <3>1. 0 = 8 * 0 /\ 8 = 8 * 1 /\ 32 = 8 * 4 /\ 40 = 8 * 5
      OBVIOUS
    <3>2. Offsets = {8 * i : i \in 0..7}
      BY <1>2 DEF Offsets
    <3> QED
      BY <3>1, <3>2
  <2>2. Initialized(v) =
          [a EXCEPT ![0] = <<"WasmccWrapMain">>, ![8] = <<"stack", v, EntrySp>>,
                    ![32] = <<"VMThreadStart">>, ![40] = <<"thread", v>>]
    BY <1>2 DEF Initialized, InitializedX64, MemberX64
  <2> HIDE DEF a
  <2>3. /\ DOMAIN Initialized(v) = Offsets
        /\ Initialized(v)[0] = <<"WasmccWrapMain">>
        /\ Initialized(v)[8] = <<"stack", v, EntrySp>>
        /\ Initialized(v)[32] = <<"VMThreadStart">>
        /\ Initialized(v)[40] = <<"thread", v>>
    BY <1>1, <2>1, <2>2
  <2> QED
    BY <1>1, <1>2, <2>3 DEF Fresh
<1>3. CASE arch = "arm64"
  <2>1. /\ 0 \in Offsets /\ 8 \in Offsets /\ 16 \in Offsets
        /\ 96 \in Offsets /\ 104 \in Offsets
    <3>1. 0 = 8 * 0 /\ 8 = 8 * 1 /\ 16 = 8 * 2 /\ 96 = 8 * 12 /\ 104 = 8 * 13
      OBVIOUS
    <3>2. Offsets = {8 * i : i \in 0..21}
      BY <1>3 DEF Offsets
    <3> QED
      BY <3>1, <3>2
  <2>2. Initialized(v) =
          [a EXCEPT ![0] = <<"thread", v>>, ![8] = <<"VMThreadStart">>,
                    ![16] = Dummy, ![96] = <<"stack", v, EntrySp>>,
                    ![104] = <<"WasmccWrapMain">>]
    BY <1>3 DEF Initialized, InitializedArm64, MemberArm64
  <2> HIDE DEF a
  <2>3. /\ DOMAIN Initialized(v) = Offsets
        /\ Initialized(v)[0] = <<"thread", v>>
        /\ Initialized(v)[8] = <<"VMThreadStart">>
        /\ Initialized(v)[16] = Dummy
        /\ Initialized(v)[96] = <<"stack", v, EntrySp>>
        /\ Initialized(v)[104] = <<"WasmccWrapMain">>
    BY <1>1, <2>1, <2>2
  <2> QED
    BY <1>1, <1>3, <2>3 DEF Fresh
<1> QED
  BY <1>2, <1>3 DEF ShapeInv

(* A call of WasmccSwitch by the host for a VMThread.                       *)
LEMMA ResumeStep == ASSUME Inv, NEW v \in VMs, Resume(v) PROVE Inv'
<1>1. PICK fresh \in BOOLEAN :
        /\ fresh \/ v \in saved
        /\ area' = IF fresh THEN [area EXCEPT ![<<v, "my">>] = Initialized(v)]
                   ELSE area
        /\ CallSwitch(Host, <<v, "main">>, <<v, "my">>,
                      IF fresh /\ arch = "x64"
                      THEN With(memory, <<"stack", v, EntrySp>>, Dummy)
                      ELSE memory)
        /\ saved' = IF fresh THEN saved \ {v} ELSE saved
  BY DEF Resume
<1> DEFINE words == IF fresh /\ arch = "x64"
                    THEN With(memory, <<"stack", v, EntrySp>>, Dummy)
                    ELSE memory
<1>2. ShapeInv /\ pc = <<"code", Host>> /\ target' = v /\ arch' = arch
      /\ v # Host /\ Host \in Contexts /\ v \in Contexts
      /\ CallSwitch(Host, <<v, "main">>, <<v, "my">>, words)
  BY <1>1, HostAssumption DEF Resume, Inv, Contexts
<1>3. target = Host /\ Running = Host
  BY <1>2 DEF Inv, ControlInv, Running
<1> HIDE DEF words
<1>4. /\ pc' = <<"switch", 1>> /\ 1 \in DOMAIN Switch'
      /\ DOMAIN regs' = Registers' /\ DOMAIN kept' = Contexts
      /\ calls' \in [Contexts -> 0..MaxCalls]
      /\ regs'[Arg1'] = <<"area", <<v, "main">>>>
      /\ regs'[Arg2'] = <<"area", <<v, "my">>>>
      /\ KeptOK(Host)'
      /\ Stored(1)' = {} /\ Loaded(1)' = {}
      /\ \A w \in Words' :
           Ready(w[1]) =< 1 => regs'[w[1]] = Value(Host, w[1])'
      /\ arch = "arm64" => regs'["sp"] = kept'[Host]["sp"]
      /\ arch = "x64" => memory' = With(words, Pushed(Host)', Return(Host)')
      /\ arch = "arm64" => memory' = words
      /\ \A d \in Contexts \ {Host} :
           /\ kept'[d] = kept[d] /\ calls'[d] = calls[d]
           /\ KeptOK(d)' = KeptOK(d)
           /\ \A r : Value(d, r)' = Value(d, r)
           /\ Pushed(d)' = Pushed(d) /\ Return(d)' = Return(d)
  BY <1>2, CallStarts
<1>5. pc'[1] = "switch" /\ pc'[2] = 1
  BY <1>4
<1>6. Source' = Host /\ Home(Host)' = <<v, "main">> /\ Home(v)' = <<v, "my">>
      /\ Running' = Host
      /\ \A c \in Contexts \ {Host} : Home(c)' = <<c, "my">>
  BY <1>2, <1>5 DEF Source, Home, Running
<1>7. Words' = Words /\ Offsets' = Offsets /\ EntrySp' = EntrySp
  <2>1. Saves' = Saves
    BY <1>2 DEF Saves
  <2> QED
    BY <1>2, <2>1 DEF Words, Offsets, EntrySp
<1>8. saved' \subseteq saved /\ (v \notin saved' => fresh)
      /\ (fresh => v \notin saved') /\ saved \subseteq VMs
  BY <1>1, <1>2 DEF ShapeInv
<1>9. /\ DOMAIN area' = VMs \X {"my", "main"}
      /\ \A a \in VMs \X {"my", "main"} : DOMAIN area'[a] = Offsets
      /\ \A a \in VMs \X {"my", "main"} : a # <<v, "my">> => area'[a] = area[a]
      /\ ~fresh => area' = area
      /\ fresh => Fresh(v)'
  <2>1. /\ DOMAIN area = VMs \X {"my", "main"}
        /\ \A a \in VMs \X {"my", "main"} : DOMAIN area[a] = Offsets
        /\ <<v, "my">> \in VMs \X {"my", "main"}
    BY <1>2 DEF ShapeInv
  <2>2. CASE fresh
    <3>1. area' = [area EXCEPT ![<<v, "my">>] = Initialized(v)]
      BY <1>1, <2>2
    <3>2. Fresh(v)' /\ DOMAIN Initialized(v) = Offsets
      BY <1>2, <3>1, WrittenFresh
    <3> QED
      BY <2>1, <2>2, <3>1, <3>2
  <2>3. CASE ~fresh
    BY <1>1, <2>1, <2>3
  <2> QED
    BY <2>2, <2>3
<1>10. ShapeInv'
  BY <1>2, <1>4, <1>7, <1>8, <1>9 DEF ShapeInv
<1>11. ControlInv'
  BY <1>4 DEF ControlInv
<1>12. SuspendedInv'
  <2> SUFFICES ASSUME NEW c \in saved', c # Host
               PROVE  KeptOK(c)' /\ \A w \in Words :
                        area'[<<c, "my">>][w[2]] = Value(c, w[1])'
    BY <1>6, <1>7, <1>8, <1>2 DEF SuspendedInv, Suspendable, Held, Contexts
  <2>1. c \in Contexts \ {Host} /\ c \in saved /\ c \in VMs
    BY <1>8 DEF Contexts
  <2>2. KeptOK(c) /\ Held(c, <<c, "my">>)
    BY <1>3, <2>1 DEF Inv, SuspendedInv, Suspendable, Home
  <2>3. area'[<<c, "my">>] = area[<<c, "my">>]
    BY <1>8, <1>9, <2>1
  <2> QED
    BY <1>4, <2>1, <2>2, <2>3 DEF Held
<1>13. MemoryInv'
  <2> SUFFICES ASSUME arch = "x64"
               PROVE  /\ \A c \in saved' \cup {Host} :
                           kept'[c] # Null => After(Pushed(c)') = Return(c)'
                      /\ v \notin saved' =>
                           After(<<"stack", v, EntrySp>>) = Dummy
    BY <1>2, <1>7 DEF MemoryInv, Suspendable, Word, After
  <2>1. memory' = With(words, Pushed(Host)', Return(Host)')
    BY <1>4
  <2>2. \A c : Pushed(c)' = <<"stack", c, Address(c)' - 8>>
    BY DEF Pushed
  <2>3. After(Pushed(Host)') = Return(Host)'
    BY <2>1, WordWritten
  <2>4. ASSUME NEW c \in saved', kept'[c] # Null
        PROVE  After(Pushed(c)') = Return(c)'
    <3>1. c \in Contexts \ {Host} /\ c \in saved /\ c \in Suspendable
      BY <1>8, HostAssumption DEF Contexts, Suspendable
    <3>2. Pushed(c)' # Pushed(Host)'
      BY <2>2, <3>1
    <3>3. Pushed(c)' = Pushed(c) /\ Return(c)' = Return(c) /\ kept'[c] = kept[c]
      BY <1>4, <3>1
    <3>4. Word(Pushed(c)) = Return(c)
      BY <2>4, <3>1, <3>3 DEF Inv, MemoryInv
    <3>5. After(Pushed(c)') = IF Pushed(c)' \in DOMAIN words
                              THEN words[Pushed(c)'] ELSE Null
      BY <2>1, <3>2, WordWritten
    <3>6. CASE fresh
      <4>1. words = With(memory, <<"stack", v, EntrySp>>, Dummy)
        BY <3>6 DEF words
      <4>2. Pushed(c) # <<"stack", v, EntrySp>>
        BY <1>8, <3>6 DEF Pushed
      <4> QED
        BY <3>3, <3>4, <3>5, <4>1, <4>2 DEF With, Word
    <3>7. CASE ~fresh
      <4>1. words = memory
        BY <3>7 DEF words
      <4> QED
        BY <3>3, <3>4, <3>5, <4>1 DEF Word
    <3> QED
      BY <3>6, <3>7
  <2>5. ASSUME v \notin saved' PROVE After(<<"stack", v, EntrySp>>) = Dummy
    <3>1. words = With(memory, <<"stack", v, EntrySp>>, Dummy)
      BY <1>8, <2>5 DEF words
    <3>2. <<"stack", v, EntrySp>> # Pushed(Host)'
      BY <1>2, <2>2
    <3>3. After(<<"stack", v, EntrySp>>) =
            IF <<"stack", v, EntrySp>> \in DOMAIN words
            THEN words[<<"stack", v, EntrySp>>] ELSE Null
      BY <1>7, <2>1, <3>2, WordWritten
    <3> QED
      BY <3>1, <3>3 DEF With
  <2> QED
    BY <2>3, <2>4, <2>5
<1>14. PassingInv'
  BY <1>2, <1>4, <1>6, <1>8, <1>9 DEF PassingInv, Suspendable
<1>15. WordsInv(1)'
  BY <1>2, <1>4, <1>6 DEF WordsInv
<1> QED
  BY <1>5, <1>10, <1>11, <1>12, <1>13, <1>14, <1>15
  DEF Inv, SwitchInv, WrapInv, CodeInv

(* A call of WasmccSwitch by a VMThread, for the host.                      *)
LEMMA LeaveStep == ASSUME Inv, NEW v \in VMs, Leave(v) PROVE Inv'
<1>1. /\ pc = <<"code", v>> /\ saved' = saved \cup {v} /\ target' = Host
      /\ arch' = arch /\ area' = area
      /\ CallSwitch(v, <<v, "my">>, <<v, "main">>, memory)
  BY DEF Leave
<1>2. ShapeInv /\ v # Host /\ Host \in Contexts /\ v \in Contexts
      /\ saved \subseteq VMs
  BY HostAssumption DEF Inv, Contexts, ShapeInv
<1>3. target = v /\ Running = v
  BY <1>1 DEF Inv, ControlInv, Running
<1>4. /\ pc' = <<"switch", 1>> /\ 1 \in DOMAIN Switch'
      /\ DOMAIN regs' = Registers' /\ DOMAIN kept' = Contexts
      /\ calls' \in [Contexts -> 0..MaxCalls]
      /\ regs'[Arg1'] = <<"area", <<v, "my">>>>
      /\ regs'[Arg2'] = <<"area", <<v, "main">>>>
      /\ KeptOK(v)'
      /\ Stored(1)' = {} /\ Loaded(1)' = {}
      /\ \A w \in Words' :
           Ready(w[1]) =< 1 => regs'[w[1]] = Value(v, w[1])'
      /\ arch = "arm64" => regs'["sp"] = kept'[v]["sp"]
      /\ arch = "x64" => memory' = With(memory, Pushed(v)', Return(v)')
      /\ arch = "arm64" => memory' = memory
      /\ \A d \in Contexts \ {v} :
           /\ kept'[d] = kept[d] /\ calls'[d] = calls[d]
           /\ KeptOK(d)' = KeptOK(d)
           /\ \A r : Value(d, r)' = Value(d, r)
           /\ Pushed(d)' = Pushed(d) /\ Return(d)' = Return(d)
  BY <1>1, <1>2, CallStarts
<1>5. pc'[1] = "switch" /\ pc'[2] = 1
  BY <1>4
<1>6. From' = <<v, "my">> /\ Source' = v /\ Running' = v
      /\ Home(Host)' = <<v, "main">>
      /\ \A c \in Contexts \ {Host} : Home(c)' = <<c, "my">>
  <2>1. From' = <<v, "my">>
    BY <1>4 DEF From
  <2>2. From'[1] = v
    BY <2>1
  <2> QED
    BY <1>1, <1>5, <2>1, <2>2 DEF Source, Home, Running
<1>7. Words' = Words /\ Offsets' = Offsets /\ EntrySp' = EntrySp
  <2>1. Saves' = Saves
    BY <1>1 DEF Saves
  <2> QED
    BY <1>1, <2>1 DEF Words, Offsets, EntrySp
<1>8. ShapeInv'
  BY <1>1, <1>2, <1>4, <1>7 DEF ShapeInv
<1>9. ControlInv'
  BY <1>4 DEF ControlInv
<1>10. SuspendedInv'
  <2> SUFFICES ASSUME NEW c \in Suspendable \ {v}
               PROVE  KeptOK(c)' /\ \A w \in Words :
                        area[Home(c)'][w[2]] = Value(c, w[1])'
    BY <1>1, <1>6, <1>7 DEF SuspendedInv, Suspendable, Held
  <2>1. c \in Contexts \ {v}
    BY <1>2 DEF Suspendable, Contexts
  <2>2. KeptOK(c) /\ Held(c, Home(c))
    BY <1>3 DEF Inv, SuspendedInv
  <2>3. Home(c)' = Home(c)
    BY <1>2, <1>3, <1>6, <2>1 DEF Home
  <2> QED
    BY <1>4, <2>1, <2>2, <2>3 DEF Held
<1>11. MemoryInv'
  <2> SUFFICES ASSUME arch = "x64"
               PROVE  \A c \in Suspendable \cup {v} :
                        kept'[c] # Null => After(Pushed(c)') = Return(c)'
    BY <1>1, HostAssumption DEF MemoryInv, Suspendable, Word, After
  <2>1. memory' = With(memory, Pushed(v)', Return(v)')
    BY <1>4
  <2>2. \A c : Pushed(c)' = <<"stack", c, Address(c)' - 8>>
    BY DEF Pushed
  <2>3. After(Pushed(v)') = Return(v)'
    BY <2>1, WordWritten
  <2>4. ASSUME NEW c \in Suspendable, c # v, kept'[c] # Null
        PROVE  After(Pushed(c)') = Return(c)'
    <3>1. c \in Contexts \ {v}
      BY <1>2, <2>4 DEF Contexts, Suspendable
    <3>2. Pushed(c)' # Pushed(v)'
      BY <2>2, <2>4
    <3>3. Pushed(c)' = Pushed(c) /\ Return(c)' = Return(c) /\ kept'[c] = kept[c]
      BY <1>4, <3>1
    <3>4. Word(Pushed(c)) = Return(c)
      BY <2>4, <3>3 DEF Inv, MemoryInv
    <3>5. After(Pushed(c)') = IF Pushed(c)' \in DOMAIN memory
                              THEN memory[Pushed(c)'] ELSE Null
      BY <2>1, <3>2, WordWritten
    <3> QED
      BY <3>3, <3>4, <3>5 DEF Word
  <2> QED
    BY <2>3, <2>4
<1>12. PassingInv'
  <2>1. From'[1] = v
    BY <1>6
  <2> QED
    BY <1>1, <1>2, <1>4, <1>6, <2>1 DEF PassingInv, Suspendable
<1>13. WordsInv(1)'
  BY <1>1, <1>4, <1>6 DEF WordsInv
<1> QED
  BY <1>5, <1>8, <1>9, <1>10, <1>11, <1>12, <1>13
  DEF Inv, SwitchInv, WrapInv, CodeInv

(* It is about the variables only.                                          *)
LEMMA InvSame ==
  ASSUME Inv, Kept, regs' = regs, area' = area, pc' = pc PROVE Inv'
<1>1. /\ arch' = arch /\ saved' = saved /\ target' = target
      /\ calls' = calls /\ kept' = kept
  BY DEF Kept
<1>2. From' = From /\ Source' = Source /\ Running' = Running
      /\ \A c : Home(c)' = Home(c)
  BY <1>1, KeptSame DEF From, Source, Running, Home
<1>3. \A c : Matches(c)' = Matches(c)
  BY <1>1, KeptSame DEF Matches
<1>4. \A c : Fresh(c)' = Fresh(c)
  BY <1>1, KeptSame DEF Fresh
<1>5. \A c, a : Held(c, a)' = Held(c, a)
  BY KeptSame DEF Held
<1>6. ShapeInv'
  BY <1>1, KeptSame DEF Inv, ShapeInv
<1>7. ControlInv'
  BY <1>1, KeptSame DEF Inv, ControlInv
<1>8. SuspendedInv' /\ MemoryInv'
  BY <1>2, <1>5, KeptSame DEF Inv, SuspendedInv
<1>9. SwitchInv'
  <2> SUFFICES ASSUME pc[1] = "switch" PROVE PassingInv' /\ WordsInv(pc[2])'
    BY DEF SwitchInv
  <2>1. PassingInv'
    BY <1>1, <1>2, <1>4, KeptSame DEF Inv, SwitchInv, PassingInv
  <2>2. PICK k : k = pc[2]
    OBVIOUS
  <2>3. WordsInv(k)
    BY <2>2 DEF Inv, SwitchInv
  <2>4. WordsInv(k)'
    BY <1>1, <1>2, <2>3, KeptSame, StagesSame DEF WordsInv
  <2>5. pc'[2] = k
    BY <2>2
  <2> QED
    BY <2>1, <2>4, <2>5
<1>10. WrapInv' /\ CodeInv'
  BY <1>1, <1>3, KeptSame DEF Inv, WrapInv, CodeInv
<1> QED
  BY <1>6, <1>7, <1>8, <1>9, <1>10 DEF Inv

(* The invariant holds.                                                     *)
THEOREM SwitchCorrect == Spec => []Inv
<1>1. Init => Inv
  BY InitInv
<1>2. Inv /\ [Next]_vars => Inv'
  <2> SUFFICES ASSUME Inv, [Next]_vars PROVE Inv'
    OBVIOUS
  <2>1. CASE \E v \in VMs : Resume(v) \/ Leave(v)
    BY <2>1, ResumeStep, LeaveStep
  <2>2. CASE Execute
    <3>1. pc[1] \in {"switch", "wrap"}
      BY <2>2 DEF Execute
    <3> QED
      BY <2>2, <3>1, SwitchStep, WrapStep
  <2>3. CASE UNCHANGED vars
    <3>1. Kept /\ regs' = regs /\ area' = area /\ pc' = pc
      BY <2>3 DEF vars, Kept
    <3> QED
      BY <3>1, InvSame
  <2> QED
    BY <2>1, <2>2, <2>3 DEF Next
<1> QED
  BY <1>1, <1>2, PTL DEF Spec

(* CalleeSavedSurvive holds for any number of VMThreads, any stacks and any *)
(* number of switches: to its caller WasmccSwitch is a call like any other. *)
THEOREM SwitchKeepsCalleeSaved == Spec => []CalleeSavedSurvive
<1>1. Inv => CalleeSavedSurvive
  <2> SUFFICES ASSUME Inv, Entered
               PROVE  \A r \in CalleeSaved \cup {Sp} : regs[r] = kept[pc[2]][r]
    BY DEF CalleeSavedSurvive
  <2>1. pc[1] = "code" /\ kept[pc[2]] # Null /\ pc[2] \in saved \cup {Host}
    BY DEF Entered, InCode
  <2>2. pc[2] = target
    BY <2>1 DEF Inv, ControlInv
  <2>3. Matches(target)
    BY <2>1, <2>2 DEF Inv, CodeInv
  <2> QED
    BY <2>2, <2>3 DEF Matches
<1> QED
  BY <1>1, SwitchCorrect, PTL

(* ArrivesAtTarget: control arrives in the context a switch was to, and a   *)
(* new one begins at VMThreadStart with its thread as the argument, on its  *)
(* own aligned stack.                                                       *)
THEOREM SwitchArrives == Spec => []ArrivesAtTarget
<1>1. Inv => ArrivesAtTarget
  <2> SUFFICES ASSUME Inv PROVE ArrivesAtTarget
    OBVIOUS
  <2>1. ShapeInv /\ ControlInv /\ MemoryInv /\ CodeInv
    BY DEF Inv
  <2>2. TypeOK
    BY <2>1 DEF ShapeInv, ControlInv, TypeOK
  <2>3. InCode => pc[2] = target
    BY <2>1 DEF ControlInv, InCode
  <2>4. EntersAligned
    <3> SUFFICES ASSUME InCode, pc[2] \in VMs \ saved
                 PROVE  LET sp == regs[Sp][3] IN
                        /\ regs[Arg1] = <<"thread", pc[2]>>
                        /\ regs[Sp][2] = pc[2] /\ sp \in Base..Base + Size
                        /\ IF arch = "x64"
                           THEN sp % 16 = 8 /\ sp + 8 =< Base + Size
                                /\ Word(regs[Sp]) = Dummy
                           ELSE sp % 16 = 0 /\ regs["x30"] = Dummy
      BY DEF EntersAligned
    <3>1. pc[2] = target /\ target \in VMs \ saved /\ pc[1] = "code"
      BY <2>3 DEF InCode
    <3>2. /\ regs[Arg1] = <<"thread", target>>
          /\ regs[Sp] = <<"stack", target, EntrySp>>
          /\ arch = "arm64" => regs["x30"] = Dummy
          /\ arch = "x64" => Word(<<"stack", target, EntrySp>>) = Dummy
      BY <2>1, <3>1 DEF CodeInv, MemoryInv
    <3>3. PICK base \in Nat, size \in Nat : base = Base /\ size = Size
      BY StackAssumption
    <3>4. base % 16 = 0 /\ size % 16 = 0 /\ size >= 144
      BY <3>3, StackAssumption
    <3>5. CASE arch = "x64"
      <4>1. EntrySp = base + size - 128 - 8
        BY <3>3, <3>5 DEF EntrySp
      <4>2. (base + size - 128 - 8) % 16 = 8
        BY <3>4
      <4>3. EntrySp % 16 = 8 /\ EntrySp \in Base..Base + Size
            /\ EntrySp + 8 =< Base + Size
        BY <3>3, <3>4, <4>1, <4>2
      <4> QED
        BY <3>1, <3>2, <3>5, <4>3
    <3>6. CASE arch = "arm64"
      <4>1. EntrySp = base + size
        BY <3>3, <3>6 DEF EntrySp
      <4>2. (base + size) % 16 = 0
        BY <3>4
      <4>3. EntrySp % 16 = 0 /\ EntrySp \in Base..Base + Size
        BY <3>3, <3>4, <4>1, <4>2
      <4> QED
        BY <3>1, <3>2, <3>6, <4>3
    <3> QED
      BY <2>1, <3>5, <3>6 DEF ShapeInv
  <2> QED
    BY <2>2, <2>3, <2>4 DEF ArrivesAtTarget
<1> QED
  BY <1>1, SwitchCorrect, PTL
====
