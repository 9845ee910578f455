# A formal model of wasmcc

wasmcc compiles WebAssembly modules to native x64 or arm64 code and runs the
code on stacks of its own, so that a function can be suspended in the host. This
directory holds TLA+ models of it, configurations that check them with TLC, and
proofs checked with TLAPS. Paths below are relative to `src/`.

## The system

```
 bytes -> Stream -> ModuleBuilder --ParsedModule--> CompilerImpl --CompiledModule--> VM
   leb128   |          |  per function                 |  per function               |  per Invoke
            |          v                               v                             v
   Future (co_await)  FunctionValidator         x64 / arm64 Compiler          VMThread (own stack)
                      (types, stack maxima)     (registers, frame, code)      Computation (handle)
```

| Part | State | Operations | What makes it correct |
|---|---|---|---|
| VMThread (`runtime/thread`) | `_state`, two saved contexts, the function; the thread-local `current_vm_thread`; the stack's memory | Create, Resume, Stop, Yield, function end, destroy | the thread-local, `_state` and the stack in use agree; a switch out returns to the latest caller; no progress is lost or replayed; nobody runs on a freed stack |
| The switch (`thread_x64.cc`, `thread_arm64.cc`) | a ThreadStack per context, registers | WasmccSwitch, WasmccWrapMain, InitializeVMThreadStackState | to its caller it is a call like any other |
| Stack memory (`thread.cc:43-99`) | protection of each page, the allocation | aligned_alloc, mprotect twice, the deleter | guards stay guarded; failure leaves nothing protected; memory goes back usable |
| VM and Computation (`runtime/vm.*`, `function_handle.*`) | `_current_fn`, the closure on the VM stack, each Computation's pointer and result | Invoke, Execute, Cancel, IsDone, GetResult, drop | one computation at a time, run at most once, its result where its owner reads it; the VM is never lost |
| FunctionValidator (`parser/validator.*`) | the operand stack of types, byte count, two maxima, `_unreachable` | one per instruction, Finalize | an accepted body never underflows; the maxima bound what the compiler and the frame use |
| Backends (`compiler/x64`, `compiler/arm64`, `compiler/common`) | register mask, runtime stack with each value's register and slot, frame layout | Prologue, one per instruction, Epilogue | a register belongs to one value; spills stay in the frame; the code computes what the body means |
| ModuleBuilder (`parser/parser.cc`) | section order, the declared types, functions, imports, exports, start | one per section and item, Build | what it accepts is in order, within limits and valid; what it throws has a reason of its kind; everything ends up at its function |
| CompilerImpl, module lookup (`compiler/compiler.cc`, `runtime/vm.cc:23-36`) | a JitRuntime and one CodeHolder; the modules and handles that point into it | CreateNative, Compile, Release, LookupFunctionHandle | handles lead to live code of the type they are called with; memory has one owner |
| Futures (`base/coro.h`) | coroutine frames, the chain of awaiting ones, a result or exception | create, co_await, get, handle conversion, end of a body, drop | coroutines behave like nested calls; every frame is freed once |
| leb128, streams (`leb128`, `base/stream.*`) | a position in the input | Encode, Decode, Read, Peek, Skip, Remainder | decoding agrees with the format and inverts encoding; nothing is read past the end |

The host and a VMThread interact by switching stacks inside one OS thread: each
Resume is answered by exactly one Yield or end of the function. The parser is a
chain of coroutines over a stream and calls the validator instruction by
instruction; the compiler trusts the maxima the validator reports, without any check
of its own. A VM owns one VMThread whose function takes a closure from
`_current_fn`; the closure calls the compiled function through a plain pointer and writes
its result into a Computation the embedder owns, through another. None of the
classes locks anything: the discipline of the callers replaces locks.

What is hard here: two stacks with separate lifetimes, handles that outlive what
they are handles of, a Stop that leaves frames behind, operating system calls that
fail half way, offsets counted by hand in assembly, executable memory that is released
and reused under plain pointers, control that jumps from coroutine to coroutine, and a
compiler that allocates registers in one pass from numbers computed by another
component. `PROJECT.json` lists these hazards line by line, each with the properties that
would catch it. One that no run covers has no property but a note that says why: the contract or the
bounds of the run exclude it, and most of these are among the disagreements below.

## The modules

**VMThread** models `runtime/thread`. The processor of each OS thread is a
context: whose stack it is on, which call or activation that stack is in, and how
many yields it got through (`cpu`). `WasmccSwitch(from, to)` saves one context
and loads another: `TrampolineInToVM` and `TrampolineOutOfVM` are it with the
assignments around it, and a saved context is moved past the call that saved it
(`NextContext`), because that is where the saved instruction pointer points.
Every method is an action, `Finish` is the tail of `VMThreadStart`, and `FuncThrows` is
an exception that leaves the function: there is no frame below to catch it.
`starts`, `reached` and `calls` are history. Calls that throw
(Resume inside a VMThread, Stop of a running one, Yield outside) change nothing and
are guards. `MayUse` is an assumption about callers, not code: nobody touches a
VMThread another OS thread is executing. The class has no synchronisation,
so without it every step is a data race. A VMThread may move between OS threads
while it is suspended.

**ContextSwitch** opens the one step `WasmccSwitch` of VMThread: both assembly
versions as sequences of instructions, the ThreadStack with its byte offsets, the first
context that `InitializeVMThreadStackState` writes, and `WasmccWrapMain`. `Execute`
runs one instruction. A machine value is a term that says which register of which
context it was, so that a register restored from a wrong place is another value. On x64
the resume address is computed from the lengths of the instructions, as `leaq 61(%rip)` is.

**StackMemory** models the memory those stacks live in, page by page: the
allocator may hand out any free run of pages, `CreateThrows` is a failure of the
first or of the second mprotect with the deleter run by unwinding,
`DestroyAborts` and `OutOfMemory` are the failures that end the process. `Touch`
moves a stack pointer one page, the way a function that over- or underflows
does. Functions on unguarded stacks are taken to stay inside.

**VM** composes `VMImpl`, `FunctionHandle` and `Computation` with VMThread, which
it instances with a VM standing for its thread: every step that resumes, yields,
ends or stops is the VMThread action and the VM's own assignments in one. Invoke is
two steps, up to the switch and (with `RunInternal`) back, so that the state in
between, `_dyn` still null and the closure in `_current_fn`, exists. `Next` is an
embedder that keeps the contract of `function_handle.h:22-24`: a computation is given
up only when it ran or was cancelled, and cancelled only while it is not over.
Execute through a handle that is over is allowed and does happen: it resumes whatever
the VM is suspended in. `SpecCancelling` drops the contract on Cancel.
Compiled functions have no way to yield or to call the host, so an activation yields
once, in RunInternal.

**Computations** is the abstract specification of it: a computation is live from its
acceptance until it finishes or is given up, for good, and a VM has at most one live
computation. `VM!KeepsPromise` is the refinement, with
`status` and `on` read off `_current_fn`, the frame on the VM stack, `_state` and the
stored result.

**FunctionValidator** and **RegAlloc** hold the pure parts: the validator as a
record and one operator per method, byte counts modulo `SizeMod` as `size_t`
wraps; and the loop of AllocateRegister, which is the same in both backends, as the
rotation it amounts to. **Compilation** puts them together for one function: the
parser emits instructions to the validator, the backend visits the accepted body and
the emitted code is executed along with it. That is exact because compiled code has no
branch except the jump of `return` to the exit label: an instruction's code runs in
emission order or, after an executed return (`left`), not at all. Locals and slots are
words of memory relative to the stack pointer, at the offsets the code computes,
so a local's slot below the stack pointer or a store that is too wide is in the model.
`ref` is what WebAssembly says the body means.

**ModuleParser** is ModuleBuilder. What the bytes say is a parameter of every action: a
section id and count (`Section`), then one item at a time, each checked and kept as the
code does; an exception leaves the parser for good. A body is represented by the locals
it declares, the ones it reads and what it leaves, enough to tell which function it was
validated against and with which locals (what the validator does inside a body is
Compilation's subject). The set of seen export names holds views of temporaries
(`parser.cc:486`): whether a later name is found in it is a free choice. `read` records the
bytes, and the section `What WebAssembly says` of the module judges them as a whole and
independently of the builder's state. It keeps apart what is wrong (`Misordered`, `Oversized`,
`Miscounted`, `UnknownType`, `UnknownIndex`, `InvalidCode`), what is right but not supported
(`Unsupported`) and what is wrong but nothing in the parser looks at (`Overlooked`):

* functions without a code section, which get empty bodies (`parser.cc:280`);
* a global's expression without its end (`parser.cc:423`);
* equal export names, when the comparison misses them (`parser.cc:486`);
* a start function that takes or returns something: only its index is checked
  (`parser.cc:645`);
* a second memory, one of the two imported: the section counts its own (`parser.cc:384`).

AcceptedIsSound says that an accepted module has none of the first two kinds, and
AcceptsOnlyWellFormed, which the code violates, that it has none of the third. What the
model's bytes do not express it cannot judge; that is listed under `What is not modelled`.
RejectsOnlyFlawed matches each exception with the reasons of its kind. It excepts two things: a
ParseException at an export after the first, whose name may be a new one taken for an old
(RefusesOnlyRepeated, which the code violates), and bytes that do not decode
(`Undecodable`), a choice of the environment. BuildsDeclared is about the module that is returned;
the start function is parsed but not part of it (`ast.h:86`).

**Jit** is CompilerImpl with what leads into its memory: Compile and Release run
function by function, may throw, and use an external JitRuntime that copies the whole
CodeHolder to any free address; VMs copy modules, lookups compare signatures, and a call
runs what the memory at the pointer begins with at that moment.

**Coroutine** is `base/coro.h`. Bodies are arbitrary: they create futures, pass them into
others, drop them, await them and end with a value or an exception; the embedder also
gets them or takes their handle. Symmetric transfer is one step from a frame to what it
awaits or to its parent. A future is awaited or got once, as everywhere in the repository.
**NestedCalls** is the abstract specification, functions that call one another, and
`BehavesLikeCalls` the refinement: the call stack is read off the parent chain.

**Leb128** runs Encode and Decode a byte per step on a stream that other calls use too,
at a width that is, like 7 and 32, no multiple of the group; the casts of positions to
`int32_t` have a width of their own. Its operators have names that are not ModuleParser's,
so that one module can hold the proofs of both: the parser reads every number with it.

The MC modules give names to the sets the configurations use. **VMThreadProofs**,
**ContextSwitchProofs**, **StackMemoryProofs**, **VMProofs**, **CompilationProofs**,
**ModuleParserProofs**, **JitProofs** and **CoroutineProofs** hold the proofs.

Definitions marked as a mistake, placed before the one they vary, are deliberate errors of the
kind this code could have (a dropped guard, a reset left out, an off-by-one). They show
that the property named for each in `PROJECT.json` fails when the code is wrong in that
way.

## What is checked

| Run | Question | Bounds |
|---|---|---|
| `vmthread` | Do the switch's pieces of state agree in every interleaving? RunningIsExecuting, ReturnsToCaller, NoLostProgress, NoDeadStack | 2 OS threads, 2 VMThreads, 2 activations each, 2 yields per activation; symmetric |
| `context` | Is the assembly a call for its caller? ArrivesAtTarget, CalleeSavedSurvive, EverySwitchArrives | both architectures, 2 VM stacks, 3 switches by each context, frames of 0 or 64 bytes, stacks of 288 |
| `stack_memory` | Are stacks always guarded, whatever else is created, fails and is freed? GuardsProtected, NoTrespass, FailedCreateRestores | 7 pages, 2 VMThreads, stacks of 1 or 2 pages |
| `vm` | Does an embedder that keeps the contract get one run and one result per Invoke, and does every computation end? NoAssertFires, RunsOnce, NoStrayWrite, NeverStranded, DoneMeansAnswered, EveryInvokeEnds, KeepsPromise | 2 OS threads, 2 VMs, 3 computations |
| `alloc` | Do validator and compiler agree on every accepted body, with spills? ValidatedNeverStuck, MemoryIsPeak, NoFault, RegistersTracked, SpillsInFrame | bodies of up to 7 instructions, all of them, 2 registers, both backends |
| `result` | Does the code compute what the body means? ResultCorrect | bodies of up to 6 instructions: constants, additions, local reads, returns; 2 parameters; 4 registers; sums below 16 |
| `parser` | Is what is accepted in order, within limits and valid, has every exception a reason of its kind, and is everything built in its place? AcceptedIsSound, RejectsOnlyFlawed, BuildsDeclared, WithinLimits, NothingDangles | 9 sections and items together, in any order, one of them custom; limits of 1 or 2 items; indices 0 and 1; 2 names, 3 signatures, 5 bodies |
| `jit` | Do handles lead to live code of the right type, and has memory one owner? CallsLiveCode, LookupIsTyped, MemoryIsOwned | 3 compilations of modules of 1 or 2 functions, 1 failure, 3 addresses, 2 VMs |
| `coroutine` | Do coroutines behave like nested calls and free every frame once? ControlIsChained, FuturesOwnFrames, SeesOutcome, BehavesLikeCalls, EverythingEnds | 4 coroutines, 2 of them `Future<void>` |
| `leb128` | Are Encode and Decode inverse, right and finite, and streams read in order? DecodesReference, EncodesCanonically, BytesInOrder, EveryLoopEnds | all streams of up to 4 bytes and all numbers of 5 bits in groups of 2; `int32_t` of 4 bits |

Two more runs show what the code does against what the repository says:

| Run | What the code does | What the repository says |
|---|---|---|
| `own_code` | every function is appended to one CodeHolder and `add` copies all of it: the pointer returned for a later function is the start of the first one's code (`compiler.cc:36`) | `compiler.h:30` "Compile all parsed functions into machine code for a target architecture." |
| `parser_names` | export names are compared with freed memory (`parser.cc:486`, `named_type.h:27`), so that a second export of a name may pass | `parser.cc:488` "duplicate exported name: %s" |

### Further disagreements

These were found the same way. Each takes a changed configuration, given here so that it can
be repeated; the passing runs are bounded so as to leave them out, and say so.

| What the code does | What the repository says | To see it |
|---|---|---|
| the deleter unprotects the stack's last page (`thread.cc:77`), not the guard above it (`thread.cc:88`): freed memory stays read-only, and its next owner dies on the first write | `thread.cc:52` "unable to unprotect stack guard page" | add INVARIANT FreedIsWritable to `MCStackMemory.cfg` |
| IsDone of a finished computation turns false when the VM takes another | `function_handle.h:93` "If this computation has finished executing." | add INVARIANT FinishedStaysDone to `MCVM.cfg` |
| Cancel through an old handle stops the current computation, which then is done without a result | `function_handle.h:90`, `:96` | in `MCVM.cfg` SPECIFICATION SpecCancelling, INVARIANT DoneMeansAnswered alone |
| x64 adds with `adc`, so an overflow adds one to the next sum | `x64/compiler.cc:85` "x1r += x2r" | in `MCCompilation_result.cfg` Archs {"x64"}, Modulus 4, Consts {1, 3}, Ops StackOps, MaxBody 5 |
| x64 stores 8 bytes into a 4-byte local and clears its neighbour | `core/instruction.h:35` | in `MCCompilation_result.cfg` Archs {"x64"}, Args {1, 2}, Ops LocalOps |
| the spill loop runs through all owners and hands each the register of the one below, which holds another value | `runtime_stack.h:17` "The register that this value is located in." | in `MCCompilation_result.cfg` Archs {"arm64"}, Regs TwoRegs, Ops StackOps |
| code after a return is validated on an empty stack of any type but compiled on the old one: the fixed array of stack values is overrun or popped when empty (NoFault), and popping the unreachable stack subtracts bytes nobody added, so that the count wraps (MemoryIsPeak, `validator.cc:139`) | `validator.h:63-64` | in `MCCompilation_alloc.cfg` DeadCode TRUE |
| modules are returned that have one of the five flaws of `Overlooked`, listed under ModuleParser; the shortest trace is a global whose expression has no end (`parser.cc:423`) | `parser.cc:163` "It also validates modules are well formed, although not all of that is done directly." | add INVARIANT AcceptsOnlyWellFormed to `MCModuleParser.cfg` |
| as export names are compared with freed memory, a second export with a name of its own may be refused | `parser.cc:488` "duplicate exported name: %s" | add INVARIANT RefusesOnlyRepeated to `MCModuleParser.cfg` |
| positions are cast to `int32_t` before they are added to an iterator (`stream.cc:27`): a stream over 2 GB is read from before its start | `base/stream.h:46` takes a `size_t` | in `MCLeb128.cfg` IntBits 3: BytesInOrder |

What the models take from the code and no property speaks about:

* A well-formed module with a global is always rejected: the end opcode of its initialiser is
  left in the stream (`parser.cc:423`; `EndOpcode`). RejectsOnlyFlawed counts it as not
  supported.
* An index counts declared functions only, even when functions are imported (`parser.cc:449`):
  a module that exports or starts an imported function is rejected as not supported, and with
  imports an index that passes means another function here than in WebAssembly.
  ExportsResolve, a part of BuildsDeclared, is stated for modules that import none.
* On arm64 SetLocalI32 emits a load instead of a store (`arm64/compiler.cc:103`), and locals lie
  below the stack pointer (`function_frame.h:72`), where a signal handler may write.
* An embedder that takes the comment at `vm.cc:42-43` by its word and throws a fresh computation
  away is left with a VM that refuses every later Invoke.
* A Compile that throws leaks what it compiled before (`compiler.cc:45`), and if it was the first
  one, every later pointer leads to the half assembled function. CallsLiveCode and
  MemoryIsOwned name these cases.
* Bits of the last LEB128 byte beyond the width are dropped without an error (`leb128.h:73`);
  DecodesReference says so by reducing what the format says to the width.

### Why the bounds suffice

Two OS threads and two VMThreads give every pairwise disagreement between a
thread-local and a `_state`, a migration, and a stop with a second activation. A second
yield distinguishes the latest yield from an earlier one. Three computations on a VM give a
finished handle, a current one and one that is refused. In seven pages two guarded
stacks fit next to each other and can be laid over pages another stack has freed. Two
registers are outgrown by three stack values; seven instructions hold a spill of two values, a
reload of both and a second spill. The widths (`Modulus`, `SizeMod`) are small so that
wrapping happens; `SizeMod` is above every frame that the bodies need.

Three switches by each context are a first entry, a suspension and a return of both VM stacks in
turn, so that every save area is written over by another context's; 288 bytes are the smallest
stack that holds what x64 gives away, a frame and an interrupted call. Nine sections and items
hold type, function, export and code sections with an item each and one repeated or misplaced
section; two items in a section tell positions apart, and a limit of one lets sections exceed
it. Three addresses are filled by a module of two functions and one of one, and reused after a
Release, while another module and handles are alive; the third compilation comes after a release.
Four coroutines make a chain of three with a future beside it, of either kind. Numbers of 5 bits
in groups of 2 need three bytes of which the last reaches past the width, like 32 in groups of
7; a fourth byte is one too many.

The bounds are guards of the models: `MaxStarts`, `MaxYields`, `MaxInvokes`, `NPages`,
`MaxSize`, `MaxCustoms`, `MaxIndex`, `MaxBody`, `Consts`, `Args`, `Modulus`, `SizeMod`, `MaxCalls`, `MaxCompiles`,
`MaxFailures`, `MaxBytes`, and the sets of frames, addresses and names. Every run may stop at a
bound or after the process died, so deadlock is not checked.

### Fairness

`VM!FairSpec` assumes that code on a VM stack runs on (the OS schedules its thread, and a
function without loops ends) and that the embedder keeps calling Execute on a computation
while that has an effect, as `function_handle.h:69-71` asks. Nothing is assumed of
Invoke, Cancel, drops or destruction. EveryInvokeEnds then says that no computation is left
behind and every host gets its stack back, whichever handle Execute is called through.

`ContextSwitch` and `Leb128` assume that a processor in the middle of the switch or of
a loop goes on. `Coroutine` assumes that get's loop goes on and that a body does
something while it runs; it can create finitely many futures, so it ends. EverythingEnds
says that control then always comes back to the embedder. In none of them does
anything force the embedder to call.

## What is proved

TLAPS checks these for every value of the constants, from the assumptions named in the
modules: hosts, VMThreads, frames and what stands for nothing are different things; there
are finitely many coroutine frames, as in any memory; bounds
and limits are natural numbers; the platforms are the two there are, and a VM's stack is
aligned and has room for the 136 bytes a first context takes; `SizeMod` is a multiple of 16, as 2^64 is, where a
`size_t` wraps; register ids are natural numbers; the instructions are the six there are,
a function's results are none or one i32, its parameters are among its locals, which have
value types, and constants and arguments are numbers below `Modulus`, 2^32 for an i32; what a
body declares are value types, which is what ParseLocals reads; what Jit is given is what
the parser builds; groups and numbers have at least one bit.

* `VMThreadProofs`: TypeCorrect, RunningIsExecutingHolds, ReturnsToCallerHolds,
  NoLostProgressHolds, NoDeadStackHolds. The four invariants are inductive only together
  (`IInv`, theorem Switching): that a switch out lands in the right caller needs that the
  stack in use is the one `current_vm_thread` names, that no second host overwrites a
  saved context needs that hosts and running VMThreads correspond one to one, and that a
  destroyed stack is not in use needs both. There is one lemma per operation;
  `LeavesToCaller` is what Yield and Finish share.
* `ContextSwitchProofs`: SwitchKeepsCalleeSaved (CalleeSavedSurvive) and SwitchArrives
  (ArrivesAtTarget), for both architectures, any number of VM threads, frames of any
  aligned size and any number of switches. The invariant (theorem SwitchCorrect) says at
  which instruction what is where: before the loads every word stored so far holds what
  its register held at the call, after them every register loaded so far holds what the
  context switched to left in its area. Between switches a suspended context's area and
  the return address on its stack are intact, which is why contexts need areas and stacks
  of their own. What the instructions of one file do is read off once (`CodeX64`,
  `CodeArm64`, `WordsApart`: no two registers share a word); `LeaReachesRet` adds up the
  lengths of the instructions to show that the 61 of leaq is the ret. Then there is one
  lemma per kind of instruction, one for the call (`CallStarts`) and one for where a jump
  ends (`Arrives`).
* `StackMemoryProofs`: TypeCorrect, GuardsProtectedHolds, NoTrespassHolds and the action
  property FailedCreateRestoresHolds. `IInv` adds to GuardsProtected that the stack
  pointer is inside its stack: only then does leaving it mean touching a guard page. The
  argument is that each step writes the protection of one stack's own pages
  (`ProtectedGuards`, `DeletedOwn`) and that stacks do not overlap (`FreshExtent`). It
  holds although the deleter misses a guard: what it unprotects instead is its own.
* `VMProofs`: UsesThreads, NoAssertFiresHolds, RunsOnceHolds, NoStrayWriteHolds,
  NeverStrandedHolds, DoneMeansAnsweredHolds and the refinement KeepsPromiseHolds. First,
  every step of VM is a step of VMThread or changes none of its variables (UsesThreads),
  so VMThread's own theorems hold inside. `IInv` adds what holds only together: `Holding`
  (which Computation the closure in `_current_fn` and the one in the frame on the VM stack
  serve, by the VM's state and by how far its activation got), `Invoking` (the host
  between the two halves of Invoke is the one whose closure the VM has, and no two VMs
  have one closure) and `Knowing` (a handle that is not over leads to the VM whose frame
  has its computation, and what is over stays over). The refinement follows step by step:
  a computation becomes live in the first half of Invoke and is so until it finishes or
  Cancel stops it, whichever method resumed the thread.
* `CompilationProofs`: RegistersTrackedHolds, ValidatedNeverStuckHolds, MemoryIsPeakHolds,
  NoFaultHolds, SpillsInFrameHolds and ResultCorrectHolds, for bodies of any length, any registers, both
  backends. The invariant (theorem CompilationInvariant) says that there is a course `h`
  of the validator through the body, `h[k]` being the validator after k instructions, with
  which the meaning (`Follows`: as many operands as `h[pc]` counts) and the compiler
  (`Compiled`: as many values, registers tracked, no spill to the topmost slot) stay in
  step. `Accepts` is what an accepted instruction guarantees and `CompileHolds` what it
  needs; the two meet in `CompiledOn`. RegistersTracked and ValidatedNeverStuck hold for
  all constants, also where code follows a return. The other three have a hypothesis,
  because without it the code does otherwise. `Narrow` (no code after a return, and sizes
  that do not wrap as `size_t`) is what MemoryIsPeak needs; `Exact` adds that there are
  two registers, the number i32.add holds at once. That code after a return breaks NoFault
  and MemoryIsPeak is the disagreement above. Under them is AllocationTracks: for any
  register set and any stack AllocateRegister returns a register nobody owns afterwards and
  the mask stays exact, also through the spill loop. `RotatedTracked` shows that the
  rotation keeps registers distinct and drops only the topmost owner's; that the values
  moved along with them is what the spill configuration above refutes.
  ResultCorrectHolds closes the list of disagreements from the other side: apart from them
  the machine computes what the body means. Its hypotheses are `Exact`, `FrameFits` (the
  bytes of the locals do not wrap) and, of the behaviour, that it is `Undisputed`: nothing
  was spilled, no local is set and only parameters are read, and x64's `adc` finds the
  carry flag clear. Every behaviour of the `result` run is. The invariant is `Valued`:
  while code is compiled and run `Agree` says that the register of the i-th stack value
  holds the i-th operand of the meaning, and that each parameter is in its word of the
  frame. `LocalsFramed` and `LocalsApart` give each local a word to itself,
  `AllocatesPlain` says that allocating without a spill moves nothing, and
  `InstructionRuns` takes the agreement through an instruction.
* `ModuleParserProofs`: TypeCorrect, WithinLimitsHolds, NothingDanglesHolds,
  AcceptedIsSoundHolds, RejectsOnlyFlawedHolds and BuildsDeclaredHolds, for modules of any
  size and any limits. WithinLimits is not inductive: a section checks only its own size.
  `SectionsOnce` adds that a section that is still to come has left nothing yet and that
  the announced items of the current one fit beside what it has left; `Steps` says for
  every step which vector may grow and by how much. NothingDangles is inductive with the
  types alone: indices are compared when they are read, vectors only grow (`StillKnown`,
  `TypesStillKnown`), and the code section, which writes into the middle of `_functions`,
  leaves their types (`CodeRead`). The last three compare the builder with the bytes.
  `Faithful` is the invariant: while nothing was thrown the builder is in step with what
  was read (`Ordered`: which sections came, in which order and size; `Tracked`: the
  vectors are the items read; `Checked`: what was checked of an item still holds of it;
  `Coded`: each body is at its position and valid for its type), and what was thrown has
  its reason. From there AcceptedIsSound is a comparison of two judgements, the builder's item
  by item and the one about all of the bytes. What these three do not claim (the five
  flaws of `Overlooked`, the refusal of a later export, bytes that do not decode, where an
  export leads when functions are imported) is what the properties leave out by name.
  The last part is about the numbers the parser reads with `Leb128`: DecodesReferenceHolds,
  EncodesCanonicallyHolds and BytesInOrderHolds, for groups and types of any width and
  streams of any length. The invariant is `Coding`. While Decode runs its result is the sum
  of the groups since it began (`Total`), modulo the width. While Encode runs the number is
  the sum of the groups written plus what is left of it, shifted to their end. That Encode
  stops at the right byte comes from `SignIsHalf` (the sign bit says whether the sum is in
  the upper half of what the groups can hold), `LastMeans` (at the last byte the bytes mean
  the number), `NotLastMeans` (before, they mean another one) and `LastInTime` (`Groups`
  bytes are enough, so the model's bound `MaxOutput` never cuts an output off). Powers and
  sums are recursive functions; that they exist and take the step they are defined by is
  shown by least counterexamples (`DoublesExist`, `AddsExist`), without the library's
  induction. BytesInOrder has a hypothesis, `Short`: positions fit the `int32_t` that
  ReadBytes casts them to. Without it the code does otherwise, as the table above says.
* `JitProofs`: CallsLiveCodeHolds, LookupIsTypedHolds, MemoryIsOwnedHolds, for any number
  of modules, functions, addresses, failures and VMs. `Holding` is whose memory is whose:
  compiled modules and the one under way have addresses of their own and all of them are
  taken, and without failures nothing else is. `Making` says that what was compiled is
  what was parsed, function for function, `Pointing` that VMs and handles lead to modules
  that are not released, and `Copied` that every copy begins where the holder does, which
  is what a call through any pointer gets to run.
* `CoroutineProofs`: ControlIsChainedHolds, FuturesOwnFramesHolds, SeesOutcomeHolds and
  the refinement BehavesLikeCallsHolds, for any set of frames. The invariant needs one thing the properties do not say: following
  co_awaits from any body leads to the one in control. That is said without counting: no
  set of bodies that wait for one another (`Waiting`) leaves out the one in control, so
  that a body nobody awaits is the only one left when it ends (`Outermost`). What a
  destroyed frame takes with it is the least closed set of owners (`WithIsLeast`), so it
  never reaches a frame in the chain (`Survivors`). For the refinement a call stack is a
  sequence of frames each of which is in the co_await of the next one and the last of
  which is the innermost (`Stacked`). `ChainReads` shows that the recursive function in
  `Above` computes just that sequence: a least counterexample (`Least`) stands for the
  induction. Each operation then calls, returns or stutters on it (`StackGrows`,
  `StackShrinks`, `StackStays`, and one lemma per operation).

Type correctness of VMThread, StackMemory and ModuleParser is shown by proof and is no
property of a run. In the other modules TypeOK is the first conjunct of an invariant that
the run checks; Compilation's is in two parts, the state of the passes in NoFault and the
machine's words in ResultCorrect.

Only model-checked: liveness (EveryInvokeEnds, EverythingEnds, EverySwitchArrives and
EveryLoopEnds), which is out of this prover's reach, and the two violated properties.
Every invariant, action property and refinement that a passing run checks is a theorem.

## What is not modelled

* The assembler's encodings and errors other than "it throws": frames and offsets beyond the
  immediate ranges of arm64 (`arm64/compiler.cc:43`).
* A frame larger than a page, which moves the stack pointer past the guard page without touching
  it (`x64/compiler.cc:42`): Touch moves page by page.
* Locals that are not parameters, which compiled code reads before it writes
  (`x64/compiler.cc:45`), and parameters that are not passed in general purpose registers
  (`x64/compiler.cc:48`).
* `if`, `else` and `end`, which the parser turns into labels and branches nobody implements
  (`parser.cc:521`): they are the no-op "label" of Compilation.
* An Invoke from inside a VMThread, which sets `_current_fn` and then throws (`vm.cc:40`):
  compiled code cannot call the host. What a closure owns leaks when Stop abandons its
  frame (`function_handle.cc:16`).
* Of the bytes: the size a section declares, which the parser ignores (`parser.cc:615`), the
  contents of names, whose encoding is not checked (`parser.cc:75`), limits and whether a
  minimum exceeds a maximum, the type of a global's initialiser, which the parser does not
  compare with the global's, and the sign of `i32.const`, which is decoded as unsigned
  (`parser.cc:545`). A module that is wrong only in one of these is not told apart.
* Future's move assignment, which nothing calls (`coro.h:95`); sanitizer calls; logging and
  printing; the wrapper types of Value; tests, the build and vendored patches.

## Plan

Models: locals that are not parameters, stack frames of several pages, the meaning of `if` once
a backend has one.
