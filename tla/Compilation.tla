---------------------------- MODULE Compilation ----------------------------
(***************************************************************************)
(* One function from its body to its result: ParseExpression feeds every   *)
(* instruction to the validator, the backend (x64/compiler.cc or           *)
(* arm64/compiler.cc) compiles the accepted body instruction by            *)
(* instruction, and the emitted code runs.  Compiled code has no branches  *)
(* but the jump of `return` to the exit, so the machine is stepped along   *)
(* with the compiler: an instruction's code is executed as it is emitted,  *)
(* unless a return was executed before.  Beside it runs the WebAssembly    *)
(* meaning of the body.                                                    *)
(*                                                                         *)
(* A gen record holds the compiler's state (arch, used, own, got) and the  *)
(* machine's (regs, mem, carry, left).  Memory is in 4-byte words relative *)
(* to the stack pointer the prologue leaves; a 32-bit value fills one.     *)
(***************************************************************************)
EXTENDS FunctionValidator, RegAlloc

CONSTANTS Archs,     \* the backends: "x64", "arm64"
          NParams,   \* how many of the locals are parameters
          Modulus,   \* bound: an i32 counts modulo this, a power of two
          Consts,    \* bound: constants in bodies
          Args,      \* bound: values of arguments
          Ops,       \* which instructions bodies are made of
          MaxBody,   \* bound: instructions in a body
          DeadCode   \* whether instructions may follow a return

ASSUME ArchAssumption == /\ Archs \subseteq {"x64", "arm64"}
                         /\ Results \in {<<>>, <<"i32">>}
                         /\ NParams \in 0..Len(LocalTypes)
                         /\ Ops \subseteq {"const", "add", "get", "set",
                                          "return", "label"}
ASSUME ValueAssumption == /\ Modulus \in Nat \ {0}
                          /\ Consts \cup Args \subseteq 0..Modulus - 1
ASSUME BodyAssumption == MaxBody \in Nat /\ DeadCode \in BOOLEAN

VARIABLES phase,   \* "parse", "compile", "done", "rejected" or "fault"
          body,    \* the instructions emitted so far
          val,     \* the FunctionValidator
          pc,      \* instructions compiled
          gen,     \* compiler and machine
          ref,     \* the body's meaning
          out      \* what the compiled function returned

vars == <<phase, body, val, pc, gen, ref, out>>

Junk == Modulus     \* a register or word nothing was written to
Words == 0..Modulus \* the values, and Junk
Span == SizeMod
Offsets == -Span..Span

-----------------------------------------------------------------------------
(* FunctionFrame: the size subtracted from the stack pointer and where the  *)
(* locals are, both in bytes.                                               *)
\* What the first n locals take.
LocalBytes[n \in 0..Len(LocalTypes)] ==
  IF n = 0 THEN 0 ELSE LocalBytes[n - 1] + SizeBytes(LocalTypes[n])

AlignUp(n, a) == ((n + a - 1) \div a) * a

StackSizeBytes == AlignUp(LocalBytes[Len(LocalTypes)] + val.maxMemory, 16)

LocalStackOffset(i) == LocalBytes[i - 1] - StackSizeBytes

Word(bytes) == bytes \div 4

-----------------------------------------------------------------------------
(* RuntimeStack: the offset counts the pushed value itself, so the slot of  *)
(* the i-th value starts i values above the stack pointer.                  *)
\* Mistake: one more value too high.
SlotAbove(i) == i + 1

Slot(i) == i

Fault(g) == [g EXCEPT !.fault = TRUE]

\* Writing past max_stack_elements, or popping an empty stack.
PushValue(g) == IF Len(g.own) < val.maxStack
                THEN [g EXCEPT !.own = Append(@, NoReg)] ELSE Fault(g)

PopValue(g) == IF g.own = <<>> THEN Fault(g) ELSE [g EXCEPT !.own = Front(@)]

\* The register of the top value; popping leaves it to the caller.
TopReg(g) == IF g.own = <<>> THEN NoReg ELSE Last(g.own)

SetTop(g) == IF g.own = <<>> THEN Fault(g)
             ELSE [g EXCEPT !.own = Append(Front(@), g.got)]

(* Emitted code takes effect only if it is reached.                         *)
Write(g, r, w) == IF g.left \/ g.fault THEN g ELSE [g EXCEPT !.regs[r] = w]

Store(g, o, w) == IF g.left \/ g.fault THEN g ELSE [g EXCEPT !.mem[o] = w]

SpillStores(g) ==
  LET owner(o) == {i \in Spilled(g.used, g.own) : Slot(i) = o} IN
  IF g.left THEN g.mem
  ELSE [o \in Offsets |-> IF owner(o) = {} THEN g.mem[o]
                          ELSE g.regs[g.own[CHOOSE i \in owner(o) : TRUE]]]

AllocateRegister(g) ==
  IF ~CanAllocate(g.used, g.own) THEN Fault(g)
  ELSE [g EXCEPT !.got = Allocated(g.used, g.own),
                 !.used = UsedAfter(g.used, g.own),
                 !.own = OwnAfter(g.used, g.own),
                 !.mem = SpillStores(g),
                 !.spills = @ \cup {Slot(i) : i \in Spilled(g.used, g.own)}]

(* A value in register r, or loaded from its slot o.                        *)
EnsureInRegister(g, r, o) ==
  IF r # NoReg THEN [g EXCEPT !.got = r]
  ELSE LET a == AllocateRegister(g) IN Write(a, a.got, a.mem[o])

\* Mistake: the register of a consumed operand stays marked.
MarkNothing(g, r) == g

MarkRegisterUnused(g, r) == [g EXCEPT !.used = @ \ {r}]

-----------------------------------------------------------------------------
Sum(x, y, c) == IF Junk \in {x, y} THEN Junk ELSE (x + y + c) % Modulus
CarryOf(x, y, c) == IF Junk \notin {x, y} /\ x + y + c >= Modulus THEN 1 ELSE 0

ConstI32(g, k) ==
  LET p == PushValue(g)
      a == SetTop(EnsureInRegister(p, TopReg(p), Slot(Len(p.own))))
  IN  Write(a, a.got, k)

(* x64 adds with adc, which takes the carry flag in; arm64 with add.        *)
AddCode(g, r1, r2) ==
  LET c == IF g.arch = "x64" THEN g.carry ELSE 0
      w == Write(g, r1, Sum(g.regs[r1], g.regs[r2], c))
  IN  IF g.left \/ g.arch = "arm64" THEN w
      ELSE [w EXCEPT !.carry = CarryOf(g.regs[r1], g.regs[r2], c)]

AddI32(g) ==
  LET x2 == EnsureInRegister(PopValue(g), TopReg(g), Slot(Len(g.own)))
      x1 == SetTop(EnsureInRegister(x2, TopReg(x2), Slot(Len(x2.own))))
  IN  IF x2.fault \/ x1.fault THEN Fault(g)
      ELSE MarkRegisterUnused(AddCode(x1, x1.got, x2.got), x2.got)

GetLocalI32(g, i) ==
  LET a == SetTop(AllocateRegister(PushValue(g)))
  IN  Write(a, a.got, a.mem[Word(LocalStackOffset(i))])

(* x64 stores the whole 64-bit register, whose upper half is zero; arm64    *)
(* emits a load.                                                            *)
StoreLocalX64(g, r, o) == Store(Store(g, o, g.regs[r]), o + 1, 0)
StoreLocalArm64(g, r, o) == Write(g, r, g.mem[o])
StoreLocal(g, r, o) == IF g.arch = "x64" THEN StoreLocalX64(g, r, o)
                                         ELSE StoreLocalArm64(g, r, o)

SetLocalI32(g, i) ==
  LET v == EnsureInRegister(PopValue(g), TopReg(g), Slot(Len(g.own)))
      o == Word(LocalStackOffset(i))
  IN  IF v.fault THEN v
      ELSE MarkRegisterUnused(StoreLocal(v, v.got, o), v.got)

\* The jump to the exit label; the runtime stack is left as it is.
Return(g) == [g EXCEPT !.left = TRUE]

Compile(g, ins) ==
  CASE ins.op = "const"  -> ConstI32(g, ins.arg)
    [] ins.op = "add"    -> AddI32(g)
    [] ins.op = "get"    -> GetLocalI32(g, ins.arg)
    [] ins.op = "set"    -> SetLocalI32(g, ins.arg)
    [] ins.op = "return" -> Return(g)
    [] ins.op = "label"  -> g

NewCompiler(arch) ==
  [arch |-> arch, used |-> {}, own |-> <<>>, got |-> NoReg, spills |-> {},
   fault |-> FALSE, regs |-> [r \in Regs |-> Junk], carry |-> 0,
   left |-> FALSE, mem |-> [o \in Offsets |-> Junk]]

(* The prologue stores the parameters; other locals are not initialised.    *)
Prologue(g, args) ==
  LET param(o) == {i \in 1..NParams : o = Word(LocalStackOffset(i))} IN
  [g EXCEPT !.mem = [o \in Offsets |->
     IF param(o) = {} THEN @[o] ELSE args[CHOOSE i \in param(o) : TRUE]]]

(* From the exit label on the code is reached either way.                   *)
Epilogue(g) ==
  LET e == [g EXCEPT !.left = FALSE] IN
  IF Results = <<>> THEN e
  ELSE EnsureInRegister(PopValue(e), TopReg(e), Slot(Len(e.own)))

-----------------------------------------------------------------------------
(* What the body means: operands, locals and, once it returned, a result.   *)
NewRef(args) ==
  [operands |-> <<>>, done |-> FALSE, stuck |-> FALSE,
   locals |-> [i \in DOMAIN LocalTypes |-> IF i <= NParams THEN args[i] ELSE 0]]

Needs == [const |-> 0, add |-> 2, get |-> 0, set |-> 1, label |-> 0,
          return |-> Len(Results)]

Effect(m, ins) ==
  LET s == m.operands
      n == Len(s)
  IN
  CASE ins.op = "const"  -> [m EXCEPT !.operands = Append(s, ins.arg)]
    [] ins.op = "add"    -> [m EXCEPT !.operands =
                               Append(SubSeq(s, 1, n - 2),
                                      (s[n - 1] + s[n]) % Modulus)]
    [] ins.op = "get"    -> [m EXCEPT !.operands = Append(s, m.locals[ins.arg])]
    [] ins.op = "set"    -> [m EXCEPT !.operands = Front(s),
                                      !.locals[ins.arg] = s[n]]
    [] ins.op = "return" -> [m EXCEPT !.done = TRUE]
    [] ins.op = "label"  -> m

Step(m, ins) == IF m.done \/ m.stuck THEN m
                ELSE IF Len(m.operands) < Needs[ins.op]
                     THEN [m EXCEPT !.stuck = TRUE] ELSE Effect(m, ins)

-----------------------------------------------------------------------------
Instructions ==
  {ins \in [op : Ops, arg : Consts \cup DOMAIN LocalTypes \cup {0}] :
     CASE ins.op = "const"          -> ins.arg \in Consts
       [] ins.op \in {"get", "set"} -> ins.arg \in DOMAIN LocalTypes
       [] OTHER                     -> ins.arg = 0}

\* What validator and compiler keep, and what the machine does.
PassesOK ==
  /\ phase \in {"parse", "compile", "done", "rejected", "fault"}
  /\ body \in Seq(Instructions)
  /\ val.stack \in Seq(ValTypes)
  /\ val.memory \in 0..SizeMod - 1 /\ val.maxMemory \in 0..SizeMod - 1
  /\ pc \in 0..Len(body)
  /\ gen.used \subseteq Regs
  /\ gen.own \in Seq(Regs \cup {NoReg})

TypeOK ==
  /\ PassesOK
  /\ gen.regs \in [Regs -> Words]
  /\ gen.mem \in [Offsets -> Words]
  /\ out \in Words

Init ==
  /\ phase = "parse"
  /\ body = <<>>
  /\ val = NewValidator
  /\ pc = 0
  /\ gen \in {NewCompiler(arch) : arch \in Archs}
  /\ ref = NewRef([i \in 1..NParams |-> 0])
  /\ out = Junk

(* OpEmitter::Emit: the validator visits the instruction first.             *)
Emit(ins) ==
  /\ phase = "parse"
  /\ Len(body) < MaxBody
  /\ val.unreachable => DeadCode
  /\ val' = Validate(val, ins)
  /\ IF val'.ok THEN body' = Append(body, ins) /\ UNCHANGED phase
                ELSE phase' = "rejected" /\ UNCHANGED body
  /\ UNCHANGED <<pc, gen, ref, out>>

(* The end opcode; an accepted function is handed to the compiler.          *)
End(args) ==
  /\ phase = "parse"
  /\ val' = Finalize(val)
  /\ IF val'.ok
     THEN /\ phase' = "compile"
          /\ gen' = Prologue(gen, args)
          /\ ref' = NewRef(args)
     ELSE phase' = "rejected" /\ UNCHANGED <<gen, ref>>
  /\ UNCHANGED <<body, pc, out>>

Visit ==
  /\ phase = "compile"
  /\ pc < Len(body)
  /\ gen' = Compile(gen, body[pc + 1])
  /\ ref' = Step(ref, body[pc + 1])
  /\ pc' = pc + 1
  /\ phase' = IF gen'.fault THEN "fault" ELSE "compile"
  /\ UNCHANGED <<body, val, out>>

Leave ==
  /\ phase = "compile"
  /\ pc = Len(body)
  /\ gen' = Epilogue(gen)
  /\ IF gen'.fault
     THEN phase' = "fault" /\ UNCHANGED out
     ELSE phase' = "done"
          /\ out' = IF Results = <<>> THEN Junk ELSE gen'.regs[gen'.got]
  /\ UNCHANGED <<body, val, pc, ref>>

Next ==
  \/ \E ins \in Instructions : Emit(ins)
  \/ \E args \in [1..NParams -> Args] : End(args)
  \/ Visit
  \/ Leave

Spec == Init /\ [][Next]_vars

-----------------------------------------------------------------------------
(* An accepted body never pops an empty operand stack when it is executed,  *)
(* and ends with its results and nothing else (validator.h "there will      *)
(* never be a case (at runtime) where the stack could be popped when it's   *)
(* empty").                                                                 *)
ValidatedNeverStuck ==
  /\ ~ref.stuck
  /\ phase = "done" => Len(ref.operands) = Len(Results)

(* The bytes the validator reports are those of the stack at its fullest:   *)
(* every value these instructions push is 4 bytes (validator.h:65-66).      *)
MemoryIsPeak ==
  phase \in {"compile", "done"} => val.maxMemory = 4 * val.maxStack

(* The compiler's runtime stack stays within max_stack_elements, is never   *)
(* popped when empty, and there is always a register to allocate            *)
(* (x64/compiler.cc:131); the state of both passes stays typed.             *)
NoFault == PassesOK /\ phase # "fault"

(* Between instructions every register in the tracker's mask belongs to     *)
(* exactly one stack value, also while values are spilled and reloaded.     *)
RegistersTracked == phase = "compile" => Tracked(gen.used, gen.own, {})

(* Spills stay inside the part of the frame reserved for operands, although *)
(* slots are numbered from one value too high (runtime_stack.h:46-48): the  *)
(* topmost slot, which may lie on the return address, is never stored to.   *)
SpillsInFrame ==
  \A o \in gen.spills : 0 <= 4 * o /\ 4 * o + 4 <= val.maxMemory

(* The compiled function returns what the body means, and the machine holds *)
(* words all along.                                                         *)
ResultCorrect ==
  /\ TypeOK
  /\ phase = "done" /\ Results # <<>> => out = Last(ref.operands)
=============================================================================
