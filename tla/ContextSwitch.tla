--------------------------- MODULE ContextSwitch ---------------------------
(***************************************************************************)
(* runtime/thread/thread_x64.cc and thread_arm64.cc: WasmccSwitch and      *)
(* WasmccWrapMain instruction by instruction, the ThreadStack structures    *)
(* they save registers in, and InitializeVMThreadStackState, which writes   *)
(* the first context of a stack.  VMThread.tla takes a switch for one step  *)
(* that saves and restores a context; this module shows what that rests on. *)
(*                                                                         *)
(* A machine value says where it comes from: <<"live", c, n, r>> is what    *)
(* register r held when context c called WasmccSwitch for the n-th time.    *)
(* The processor's part (what an instruction does) is external.             *)
(***************************************************************************)
EXTENDS Integers, SequencesExt

CONSTANTS
  Archs,       \* subset of {"x64", "arm64"}
  VMs,         \* the VMThreads
  Base, Size,  \* a VM stack's lowest address and its bytes
  Frames,      \* bytes of stack code may use before it calls a switch
  MaxCalls     \* bound: calls of WasmccSwitch by each context

ASSUME StackAssumption ==
  /\ Base \in Nat /\ Base % 16 = 0 /\ Size \in Nat /\ Size % 16 = 0
  /\ Size >= 144  \* VMThread allocates pages; a first context takes 136
  /\ \A f \in Frames : f \in Nat /\ f % 16 = 0
ASSUME ArchAssumption == Archs \subseteq {"x64", "arm64"}
ASSUME CallBoundAssumption == MaxCalls \in Nat

VARIABLES
  arch,   \* which of the two files was built
  regs,   \* the registers
  memory, \* the words of the stacks that hold return addresses
  area,   \* the ThreadStacks: each VM's _my_thread_state and _main_...
  pc,     \* the instruction, or the context whose code runs
  saved,  \* the VMs that have a context to go on with
  calls,  \* history: calls of WasmccSwitch by each context
  kept,   \* history: a context's registers at its latest call
  target  \* history: the context the latest switch is to

vars == <<arch, regs, memory, area, pc, saved, calls, kept, target>>

Host == "host"
Contexts == VMs \cup {Host}
ASSUME HostAssumption == Host \notin VMs

-----------------------------------------------------------------------------
(* kGpCalleeSavedRegisters and kVecCalleeSavedRegisters: what a call must   *)
(* leave as it is.  Of the vector registers the lower half, d8 to d15.      *)
CalleeSavedX64 == {"rbx", "rbp", "r12", "r13", "r14", "r15"}
CalleeSavedArm64 ==
  {"x19", "x20", "x21", "x22", "x23", "x24", "x25", "x26", "x27", "x28", "x29",
   "d8", "d9", "d10", "d11", "d12", "d13", "d14", "d15"}
CalleeSaved == IF arch = "x64" THEN CalleeSavedX64 ELSE CalleeSavedArm64
Sp == IF arch = "x64" THEN "rsp" ELSE "sp"
Arg1 == IF arch = "x64" THEN "rdi" ELSE "x0"
Arg2 == IF arch = "x64" THEN "rsi" ELSE "x1"
Scratch == IF arch = "x64" THEN {"rax"} ELSE {"x10", "x11", "x30"}
Registers == CalleeSaved \cup Scratch \cup {Sp, Arg1, Arg2}

\* ThreadStack: offsets of the members the code names.
MemberX64 == [rip |-> 0, rsp |-> 8, rbp |-> 16, rbx |-> 24,
              r12 |-> 32, r13 |-> 40, r14 |-> 48, r15 |-> 56]
MemberArm64 == [x0 |-> 0, x1 |-> 8, x2 |-> 16, sp |-> 96, lr |-> 104]
Offsets == {8 * i : i \in IF arch = "x64" THEN 0..7 ELSE 0..21}

-----------------------------------------------------------------------------
(* The layout of a ThreadStack as WasmccSwitch writes it, in its order: per  *)
(* instruction the words it stores.  arm64 stores registers in pairs.       *)
Pair(r, s, at) == {<<r, at>>, <<s, at + 8>>}
LayoutX64 ==
  <<{<<"rsp", 8>>}, {<<"rbp", 16>>}, {<<"rbx", 24>>}, {<<"r12", 32>>},
    {<<"r13", 40>>}, {<<"r14", 48>>}, {<<"r15", 56>>}>>
LayoutArm64 ==
  <<Pair("x19", "x20", 0), Pair("x21", "x22", 16), Pair("d8", "d9", 112),
    Pair("x23", "x24", 32), Pair("d10", "d11", 128), Pair("x25", "x26", 48),
    Pair("d12", "d13", 144), Pair("x27", "x28", 64), Pair("d14", "d15", 160),
    Pair("x29", "x30", 80), Pair("x10", "x11", 96)>>

(* What is loaded back.  Mistake: two pairs of arm64 come from one          *)
(* another's place.                                                         *)
RestoredX64 == Reverse(LayoutX64)
RestoredArm64Swapped ==
  [LayoutArm64 EXCEPT ![5] = Pair("d10", "d11", 144),
                      ![7] = Pair("d12", "d13", 128)]
RestoredArm64 == LayoutArm64

\* An instruction and its length in bytes.
Store(words, n) == [op |-> "store", words |-> words, bytes |-> n]
Load(words) == [op |-> "load", words |-> words, bytes |-> 4]
Move(r, from) == [op |-> "move", reg |-> r, from |-> from, bytes |-> 4]
Lea(r, disp) == [op |-> "lea", reg |-> r, disp |-> disp, bytes |-> 7]
JumpTo(r) == [op |-> "jump", reg |-> r, bytes |-> 4]
JumpAt(at) == [op |-> "jumpAt", at |-> at, bytes |-> 2]
Ret == [op |-> "ret", bytes |-> 1]

(* The displacement of leaq, in bytes from the instruction after it: it has *)
(* to reach the ret at the end.  Mistake: counted without the last jump.    *)
ReachShort == 60
Reach == 61

\* WasmccSwitch of thread_x64.cc.
SwitchX64 == [i \in 1..18 |->
  CASE i = 1        -> Lea("rax", Reach)
    [] i = 2        -> Store({<<"rax", 0>>}, 3)
    [] i \in 3..9   -> Store(LayoutX64[i - 2], 4)
    [] i \in 10..16 -> Load(RestoredX64[i - 9])
    [] i = 17       -> JumpAt(0)
    [] i = 18       -> Ret]

\* WasmccSwitch of thread_arm64.cc.
SwitchArm64 == [i \in 1..26 |->
  CASE i = 1        -> Move("x10", "sp")
    [] i = 2        -> Move("x11", "x30")
    [] i \in 3..13  -> Store(LayoutArm64[i - 2], 4)
    [] i \in 14..24 -> Load(RestoredArm64[i - 13])
    [] i = 25       -> Move("sp", "x10")
    [] i = 26       -> JumpTo("x11")]

(* WasmccWrapMain: the first context's registers become the arguments of    *)
(* VMThreadStart.                                                           *)
WrapMain == IF arch = "x64" THEN <<Move("rdi", "r13"), JumpTo("r12")>>
            ELSE <<Move("x0", "x19"), Move("x30", "x21"), JumpTo("x20")>>
Switch == IF arch = "x64" THEN SwitchX64 ELSE SwitchArm64

\* The byte an instruction of WasmccSwitch begins at, and the one there.
ByteOf(i) ==
  LET byte[n \in 1..i] == IF n = 1 THEN 0 ELSE byte[n - 1] + Switch[n - 1].bytes
  IN  byte[i]
TextAt(byte) ==
  IF \E i \in DOMAIN Switch : ByteOf(i) = byte
  THEN <<"text", CHOOSE i \in DOMAIN Switch : ByteOf(i) = byte>>
  ELSE <<"nowhere">>

-----------------------------------------------------------------------------
Null == <<"null">>
Dummy == <<"kDummyReturnAddress">>
HostTop == Base + 4 * Size  \* where the host's stack is in use

\* CreateUninitializedStackState: new ThreadStack() is all zero.
Init ==
  /\ arch \in Archs
  /\ regs = [r \in Registers |-> Null]
  /\ memory = [a \in {} |-> Null]
  /\ area = [a \in VMs \X {"my", "main"} |-> [o \in Offsets |-> Null]]
  /\ pc = <<"code", Host>>
  /\ saved = {}
  /\ calls = [c \in Contexts |-> 0]
  /\ kept = [c \in Contexts |-> Null]
  /\ target = Host

(* A stack pointer <<"stack", c, a>> is address a of the stack c runs on.   *)
Word(sp) == IF sp \in DOMAIN memory THEN memory[sp] ELSE Null
With(words, sp, value) == [p \in DOMAIN words \cup {sp} |->
                             IF p = sp THEN value ELSE words[p]]

(* InitializeVMThreadStackState: where the first context's stack begins.    *)
(* On x64 128 bytes are given away and the dummy return address is on top.  *)
EntrySp == IF arch = "x64" THEN Base + Size - 128 - 8 ELSE Base + Size

InitializedX64(v) ==
  [area[<<v, "my">>] EXCEPT ![MemberX64.rip] = <<"WasmccWrapMain">>,
                            ![MemberX64.rsp] = <<"stack", v, EntrySp>>,
                            ![MemberX64.r12] = <<"VMThreadStart">>,
                            ![MemberX64.r13] = <<"thread", v>>]
InitializedArm64(v) ==
  [area[<<v, "my">>] EXCEPT ![MemberArm64.x0] = <<"thread", v>>,
                            ![MemberArm64.x1] = <<"VMThreadStart">>,
                            ![MemberArm64.x2] = Dummy,
                            ![MemberArm64.sp] = <<"stack", v, EntrySp>>,
                            ![MemberArm64.lr] = <<"WasmccWrapMain">>]
Initialized(v) == IF arch = "x64" THEN InitializedX64(v)
                  ELSE InitializedArm64(v)

(* Code of c calls WasmccSwitch(from, to) after it used every register.  On *)
(* x64 the call pushes the return address, on arm64 x30 holds it.           *)
CallSwitch(c, from, to, words) ==
  \E f \in Frames :
    LET n == calls[c] + 1
        top == (IF c = Host THEN HostTop ELSE EntrySp - 8) - f
        aligned == <<"stack", c, top - (top % 16)>>
        pushed == <<"stack", c, top - (top % 16) - 8>>
        live == [r \in Registers |->
                   CASE r = Sp   -> IF arch = "x64" THEN pushed ELSE aligned
                     [] r = Arg1 -> <<"area", from>>
                     [] r = Arg2 -> <<"area", to>>
                     [] r = "x30" -> <<"return", c, n>>
                     [] OTHER    -> <<"live", c, n, r>>]
    IN  /\ n <= MaxCalls
        /\ calls' = [calls EXCEPT ![c] = n]
        /\ regs' = live
        /\ kept' = [kept EXCEPT ![c] = [r \in CalleeSaved \cup {Sp} |->
                                         IF r = Sp THEN aligned ELSE live[r]]]
        /\ memory' = IF arch = "x64"
                     THEN With(words, pushed, <<"return", c, n>>) ELSE words
        /\ pc' = <<"switch", 1>>

(* VMThread::Resume, which writes a first context unless v is suspended.    *)
Resume(v) ==
  /\ pc = <<"code", Host>>
  /\ \E fresh \in BOOLEAN :
       /\ fresh \/ v \in saved
       /\ area' = IF fresh THEN [area EXCEPT ![<<v, "my">>] = Initialized(v)]
                  ELSE area
       /\ CallSwitch(Host, <<v, "main">>, <<v, "my">>,
                     IF fresh /\ arch = "x64"
                     THEN With(memory, <<"stack", v, EntrySp>>, Dummy)
                     ELSE memory)
       /\ saved' = IF fresh THEN saved \ {v} ELSE saved
  /\ target' = v
  /\ UNCHANGED arch

(* VMThread::Yield, and the end of VMThreadStart.                           *)
Leave(v) ==
  /\ pc = <<"code", v>>
  /\ CallSwitch(v, <<v, "my">>, <<v, "main">>, memory)
  /\ saved' = saved \cup {v}
  /\ target' = Host
  /\ UNCHANGED <<arch, area>>

-----------------------------------------------------------------------------
\* Where a jump to an address leads, and what it finds in the registers.
Goto(a) ==
  pc' = CASE a[1] = "text"           -> <<"switch", a[2]>>
          [] a[1] = "return"         -> <<"code", a[2]>>
          [] a[1] = "WasmccWrapMain" -> <<"wrap", 1>>
          [] a[1] = "VMThreadStart" /\ regs[Arg1][1] = "thread"
                                     -> <<"code", regs[Arg1][2]>>
          [] OTHER                   -> <<"lost", a>>

Step == pc' = <<pc[1], pc[2] + 1>>

\* The areas the arguments name.  Mistake: %rdi where %rsi was meant.
From == regs[Arg1][2]
ToSelf == regs[Arg1][2]
To == regs[Arg2][2]

\* One instruction of WasmccSwitch or WasmccWrapMain.
Execute ==
  /\ pc[1] \in {"switch", "wrap"}
  /\ LET i == (IF pc[1] = "switch" THEN Switch ELSE WrapMain)[pc[2]] IN
     \/ /\ i.op = "store"
        /\ area' = [area EXCEPT ![From] = [o \in Offsets |->
             IF \E w \in i.words : w[2] = o
             THEN regs[(CHOOSE w \in i.words : w[2] = o)[1]] ELSE @[o]]]
        /\ Step /\ UNCHANGED regs
     \/ /\ i.op = "load"
        /\ regs' = [r \in Registers |->
             IF \E w \in i.words : w[1] = r
             THEN area[To][(CHOOSE w \in i.words : w[1] = r)[2]] ELSE regs[r]]
        /\ Step /\ UNCHANGED area
     \/ /\ i.op = "move"
        /\ regs' = [regs EXCEPT ![i.reg] = regs[i.from]]
        /\ Step /\ UNCHANGED area
     \/ /\ i.op = "lea"
        /\ regs' = [regs EXCEPT ![i.reg] = TextAt(ByteOf(pc[2] + 1) + i.disp)]
        /\ Step /\ UNCHANGED area
     \/ /\ i.op = "jump"
        /\ Goto(regs[i.reg]) /\ UNCHANGED <<regs, area>>
     \/ /\ i.op = "jumpAt"
        /\ Goto(area[To][i.at]) /\ UNCHANGED <<regs, area>>
     \/ /\ i.op = "ret"
        /\ Goto(Word(regs[Sp]))
        /\ regs' = [regs EXCEPT ![Sp] = <<@[1], @[2], @[3] + 8>>]
        /\ UNCHANGED area
  /\ UNCHANGED <<arch, memory, saved, calls, kept, target>>

Next == \/ \E v \in VMs : Resume(v) \/ Leave(v)
        \/ Execute

Spec == Init /\ [][Next]_vars /\ WF_vars(Execute)

-----------------------------------------------------------------------------
InCode == pc[1] = "code"
Entered == InCode /\ kept[pc[2]] # Null /\ pc[2] \in saved \cup {Host}

(* Type invariant: registers and save areas hold values of this machine,    *)
(* and the program counter never leaves the code there is.                  *)
TypeOK ==
  /\ arch \in Archs
  /\ DOMAIN regs = Registers
  /\ \A a \in DOMAIN area : DOMAIN area[a] = Offsets
  /\ \/ pc[1] = "code" /\ pc[2] \in Contexts
     \/ pc[1] = "switch" /\ pc[2] \in DOMAIN Switch
     \/ pc[1] = "wrap" /\ pc[2] \in DOMAIN WrapMain
  /\ saved \subseteq VMs
  /\ calls \in [Contexts -> 0..MaxCalls]

(* To the code that called it WasmccSwitch is a call like any other: when   *)
(* it returns, the stack pointer and every callee-saved register of the     *)
(* platform's calling convention are as they were.                          *)
CalleeSavedSurvive == Entered =>
  \A r \in CalleeSaved \cup {Sp} : regs[r] = kept[pc[2]][r]

\* VMThreadStart begins with its own thread as argument, on its own stack,
\* aligned as at the begin of any function, with the dummy as return address.
EntersAligned == InCode /\ pc[2] \in VMs \ saved =>
  LET sp == regs[Sp][3] IN
  /\ regs[Arg1] = <<"thread", pc[2]>>
  /\ regs[Sp][2] = pc[2] /\ sp \in Base..Base + Size
  /\ IF arch = "x64" THEN sp % 16 = 8 /\ sp + 8 <= Base + Size
                          /\ Word(regs[Sp]) = Dummy
     ELSE sp % 16 = 0 /\ regs["x30"] = Dummy

(* WasmccSwitch, InitializeVMThreadStackState and WasmccWrapMain: control   *)
(* arrives in the context the switch was to, or at the begin of its         *)
(* VMThreadStart, and never at what is not code (TypeOK).                   *)
ArrivesAtTarget ==
  /\ TypeOK
  /\ InCode => pc[2] = target
  /\ EntersAligned

(* A switch that was begun arrives.                                         *)
EverySwitchArrives == ~InCode ~> InCode
=============================================================================
