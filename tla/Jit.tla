--------------------------------- MODULE Jit ---------------------------------
(***************************************************************************)
(* compiler/compiler.cc, compiler/module.h and the lookup of runtime/vm.cc: *)
(* how parsed modules become machine code in memory, how VMs and function   *)
(* handles come to point into it, and how it is released.                   *)
(*                                                                         *)
(* A CompilerImpl owns one asmjit CodeHolder, into which every function is  *)
(* assembled, and one JitRuntime, which copies the holder into executable   *)
(* memory.  JitRuntime is external: add allocates memory that is free,      *)
(* copies all of the holder there and returns where it begins; release      *)
(* frees it, and its memory is given out again.                             *)
(*                                                                         *)
(* The embedder keeps the contract of compiler.h and vm.h: a module is      *)
(* released once and after the VMs made of it, a VM outlives its handles.   *)
(***************************************************************************)
EXTENDS Integers, Sequences, FiniteSets

CONSTANTS
  Archs,        \* the architectures of hosts, see Backend
  Modules,      \* ParsedModules: [functions, exported], see ParsedModule
  Names,        \* names a lookup asks for
  Natives,      \* C++ signatures a lookup asks for: [args, result]
  Addresses,    \* executable memory, one piece of code in each
  VMs,
  MaxCompiles,  \* bound: modules that are compiled
  MaxFailures   \* bound: functions the assembler fails in

\* What ParseModule returns: functions with distinct code, and exported
\* names with an index into them.
ValTypes == {"i32", "i64", "f32", "f64"}
Signatures == [params : Seq(ValTypes), results : Seq(ValTypes)]
ParsedModule(m) ==
  /\ m.functions \in Seq({m.functions[f] : f \in DOMAIN m.functions})
  /\ \A f \in DOMAIN m.functions :
       /\ m.functions[f].signature \in Signatures
       /\ m.functions[f].code \notin {"freed", "partial"}  \* see RunsAt
  /\ \A name \in DOMAIN m.exported :
       name \in Names /\ m.exported[name] \in 0..Len(m.functions) - 1

\* The C++ types FunctionHandle has signatures of.
NativeTypes == {"int32_t", "uint32_t", "int64_t", "uint64_t", "float", "double"}

ASSUME ModulesAssumption == \A m \in Modules : ParsedModule(m)
ASSUME NativesAssumption ==
  \A native \in Natives : /\ native.args \in Seq(NativeTypes)
                          /\ native.result \in NativeTypes
ASSUME JitBoundAssumption == MaxCompiles \in Nat /\ MaxFailures \in Nat

VARIABLES
  backend,   \* the function compiler CreateNative chose, or "aborted"
  holder,    \* _code_holder: the code assembled so far, in order
  memory,    \* _runtime: what each allocated address holds
  job,       \* the Compile or Release that is running
  modules,   \* the CompiledModules the embedder still has to release
  vms,       \* vm -> its _compiled, a set that is empty without VM
  handles,   \* the FunctionHandles: [vm, name, native, function]
  compiles,  \* bound: modules compiled so far
  failures,  \* bound: functions that failed so far
  called     \* history: the latest call, [asked, ran]

vars == <<backend, holder, memory, job, modules, vms, handles, compiles,
          failures, called>>

Free == <<>>
Idle == [does |-> "nothing"]
Allocated == {a \in Addresses : memory[a] # Free}

Init ==
  /\ backend = "none"
  /\ holder = <<>>
  /\ memory = [a \in Addresses |-> Free]
  /\ job = Idle
  /\ modules = {}
  /\ vms = [v \in VMs |-> {}]
  /\ handles = {}
  /\ compiles = 0 /\ failures = 0
  /\ called = {}

-----------------------------------------------------------------------------
(* Compiler::CreateNative: the architectures code can be generated for; on  *)
(* any other the process aborts.                                            *)
Backend(arch) == CASE arch = "x64"     -> "x64::Compiler"
                   [] arch = "aarch64" -> "arm64::Compiler"
                   [] OTHER            -> "aborted"

CreateNative(arch) ==
  /\ backend = "none"
  /\ backend' = Backend(arch)
  /\ UNCHANGED <<holder, memory, job, modules, vms, handles, compiles,
                 failures, called>>

Ready == backend \notin {"none", "aborted"} /\ job = Idle

-----------------------------------------------------------------------------
(* Compile(ParsedModule): one function after the other.                     *)
Compile(m) ==
  /\ Ready
  /\ compiles < MaxCompiles
  /\ compiles' = compiles + 1
  /\ job' = [does |-> "compile", parsed |-> m, done |-> <<>>]
  /\ UNCHANGED <<backend, holder, memory, modules, vms, handles, failures,
                 called>>

Compiling == job.does = "compile" /\ Len(job.done) < Len(job.parsed.functions)
Func == job.parsed.functions[Len(job.done) + 1]

(* The Prologue, body and Epilogue of the function are appended to what the *)
(* holder already has.                                                      *)
Assembled(whole) == Append(holder, [code |-> Func.code, whole |-> whole])

(* CompiledFunction: a pointer and metadata.  code is history: the function *)
(* it was made of.                                                          *)
Compiled(a) ==
  [ptr |-> a, code |-> Func.code, signature |-> Func.signature]

(* JitRuntime::add succeeds where memory is free.                           *)
CanAdd(a) == memory[a] = Free

CompileFunction(a) ==
  /\ Compiling
  /\ CanAdd(a)
  /\ holder' = Assembled(TRUE)
  /\ memory' = [memory EXCEPT ![a] = Assembled(TRUE)]
  /\ job' = [job EXCEPT !.done = Append(@, Compiled(a))]
  /\ UNCHANGED <<backend, modules, vms, handles, compiles, failures, called>>

(* The assembler fails in the middle of a function, or the runtime has no   *)
(* memory left: the exception leaves Compile.  What was assembled stays in  *)
(* the holder, and the functions already compiled are in nobody's hands.    *)
CompileThrows ==
  /\ Compiling
  /\ failures < MaxFailures
  /\ \/ holder' = Assembled(FALSE)
     \/ Allocated = Addresses /\ holder' = Assembled(TRUE)
  /\ failures' = failures + 1
  /\ job' = Idle
  /\ UNCHANGED <<backend, memory, modules, vms, handles, compiles, called>>

\* The compiled module: identity is history, the copies of it are equal.
Result == [id |-> compiles, functions |-> job.done,
           exported |-> job.parsed.exported]

CompileReturns ==
  /\ job.does = "compile" /\ ~Compiling
  /\ modules' = modules \cup {Result}
  /\ job' = Idle
  /\ UNCHANGED <<backend, holder, memory, vms, handles, compiles, failures,
                 called>>

-----------------------------------------------------------------------------
(* Release(CompiledModule), which the embedder calls once for a module and  *)
(* when no VM has a copy of it any more.                                    *)
MayRelease(c) == \A v \in VMs : c \notin vms[v]

Release(c) ==
  /\ Ready
  /\ c \in modules /\ MayRelease(c)
  /\ modules' = modules \ {c}
  /\ job' = [does |-> "release", left |-> c.functions]
  /\ UNCHANGED <<backend, holder, memory, vms, handles, compiles, failures,
                 called>>

\* Mistake: the last function is never reached.
MoreButLast == Len(job.left) > 1

More == Len(job.left) > 0

\* Mistake: the runtime is reset with the first function.
ReleasedAll == [a \in Addresses |-> Free]

Released == [memory EXCEPT ![Head(job.left).ptr] = Free]

ReleaseFunction ==
  /\ job.does = "release" /\ More
  /\ memory' = Released
  /\ job' = [job EXCEPT !.left = Tail(@)]
  /\ UNCHANGED <<backend, holder, modules, vms, handles, compiles, failures,
                 called>>

ReleaseReturns ==
  /\ job.does = "release" /\ ~More
  /\ job' = Idle
  /\ UNCHANGED <<backend, holder, memory, modules, vms, handles, compiles,
                 failures, called>>

-----------------------------------------------------------------------------
(* VM::Create: the VM keeps a copy of the module.                           *)
CreateVM(v, c) ==
  /\ Ready
  /\ vms[v] = {} /\ c \in modules
  /\ vms' = [vms EXCEPT ![v] = {c}]
  /\ UNCHANGED <<backend, holder, memory, job, modules, handles, compiles,
                 failures, called>>

\* SignatureFromNative: a C++ signature as one of WebAssembly's.
NativeToWasm(type) == CASE type \in {"int32_t", "uint32_t"} -> "i32"
                        [] type \in {"int64_t", "uint64_t"} -> "i64"
                        [] type = "float"                   -> "f32"
                        [] type = "double"                  -> "f64"
SignatureFromNative(native) ==
  [params |-> [i \in DOMAIN native.args |-> NativeToWasm(native.args[i])],
   results |-> <<NativeToWasm(native.result)>>]

\* Mistake: the signature is not compared.
FoundAny(c, name, sig) ==
  IF name \in DOMAIN c.exported
  THEN {c.functions[c.exported[name] + 1]} ELSE {}

(* LookupFunctionHandleDynamic: the exported function of that name, if it   *)
(* has the signature that is asked for.                                     *)
Found(c, name, sig) ==
  IF name \in DOMAIN c.exported
  THEN {f \in {c.functions[c.exported[name] + 1]} : f.signature = sig}
  ELSE {}

(* A native signature has a result: Computation has no use for void.        *)
Lookup(v, name, native) ==
  /\ Ready
  /\ \E c \in vms[v] : \E f \in Found(c, name, SignatureFromNative(native)) :
       handles' = handles \cup
         {[vm |-> v, name |-> name, native |-> native, function |-> f]}
  /\ UNCHANGED <<backend, holder, memory, job, modules, vms, compiles,
                 failures, called>>

(* FunctionHandle::Invoke, executed to its end (VM.tla): the processor runs *)
(* what the memory at the pointer begins with.                              *)
RunsAt(a) == IF memory[a] = Free THEN "freed"
             ELSE IF memory[a][1].whole THEN memory[a][1].code ELSE "partial"

Call(h) ==
  /\ Ready
  /\ h \in handles
  /\ called' = {[asked |-> h.function.code, ran |-> RunsAt(h.function.ptr)]}
  /\ UNCHANGED <<backend, holder, memory, job, modules, vms, handles,
                 compiles, failures>>

(* ~VM: the embedder drops the handles first.                               *)
DestroyVM(v) ==
  /\ Ready
  /\ vms[v] # {}
  /\ vms' = [vms EXCEPT ![v] = {}]
  /\ handles' = {h \in handles : h.vm # v}
  /\ UNCHANGED <<backend, holder, memory, job, modules, compiles, failures,
                 called>>

Next ==
  \/ \E arch \in Archs : CreateNative(arch)
  \/ \E m \in Modules : Compile(m)
  \/ \E a \in Addresses : CompileFunction(a)
  \/ CompileThrows
  \/ CompileReturns
  \/ \E c \in modules : Release(c)
  \/ ReleaseFunction
  \/ ReleaseReturns
  \/ \E v \in VMs, c \in modules : CreateVM(v, c)
  \/ \E v \in VMs, name \in Names, native \in Natives :
       Lookup(v, name, native)
  \/ \E h \in handles : Call(h)
  \/ \E v \in VMs : DestroyVM(v)

Spec == Init /\ [][Next]_vars

-----------------------------------------------------------------------------
CompiledFunctions ==
  [ptr : Addresses, signature : Signatures,
   code : UNION {{m.functions[f].code : f \in DOMAIN m.functions} :
                   m \in Modules}]
Pending == CASE job.does = "compile" -> job.done
             [] job.does = "release" -> job.left
             [] OTHER -> <<>>
FunctionsOf(c) == {c.functions[f] : f \in DOMAIN c.functions}

(* Type invariant: compiled functions point to executable memory, VMs and   *)
(* handles to the functions of compiled modules.                            *)
TypeOK ==
  /\ backend \in {"none", "x64::Compiler", "arm64::Compiler", "aborted"}
  /\ \A a \in Addresses : memory[a] = Free \/ Len(memory[a]) <= Len(holder)
  /\ job.does \in {"nothing", "compile", "release"}
  /\ Pending \in Seq(CompiledFunctions)
  /\ \A c \in modules : FunctionsOf(c) \subseteq CompiledFunctions
  /\ \A v \in VMs : vms[v] \subseteq modules /\ Cardinality(vms[v]) <= 1
  /\ \A h \in handles : \E c \in vms[h.vm] : h.function \in FunctionsOf(c)
  /\ compiles \in 0..MaxCompiles /\ failures \in 0..MaxFailures

(* Release and the reuse of addresses: a handle whose VM is alive never     *)
(* calls memory that was freed, nor code that was left half assembled,      *)
(* unless the very first function failed to assemble.                       *)
CallsLiveCode ==
  /\ \A h \in handles : memory[h.function.ptr] # Free
  /\ \A c \in called : /\ c.ran # "freed"
                       /\ c.ran = "partial" => ~holder[1].whole

\* Two compiled functions that are alive never share memory.
Exclusive ==
  \A c, d \in modules : \A f \in DOMAIN c.functions, g \in DOMAIN d.functions :
    c.functions[f].ptr = d.functions[g].ptr => c = d /\ f = g

\* What a type is in a register of the platform: its class and its bits.
Passed(type) == CASE type \in {"int32_t", "uint32_t", "i32"} -> <<"int", 32>>
                  [] type \in {"int64_t", "uint64_t", "i64"} -> <<"int", 64>>
                  [] type \in {"float", "f32"}               -> <<"vec", 32>>
                  [] type \in {"double", "f64"}              -> <<"vec", 64>>
SamePassing(native, sig) ==
  /\ DOMAIN native.args = DOMAIN sig.params
  /\ \A i \in DOMAIN sig.params : Passed(native.args[i]) = Passed(sig.params[i])
  /\ \A i \in DOMAIN sig.results : Passed(native.result) = Passed(sig.results[i])

(* LookupFunctionHandle: a handle leads to the function its module exports  *)
(* under its name, and C++ passes arguments and takes the result the way    *)
(* the type that function was parsed with says.                             *)
LookupIsTyped == \A h \in handles : \E m \in Modules :
  /\ h.name \in DOMAIN m.exported
  /\ LET f == m.functions[m.exported[h.name] + 1] IN
     f.code = h.function.code /\ SamePassing(h.native, f.signature)

\* All executable memory belongs to a module the embedder has or to the
\* Compile or Release that is running: nothing leaks or is freed early.
Owned ==
  Allocated = {f.ptr : f \in UNION {FunctionsOf(c) : c \in modules}}
              \cup {Pending[i].ptr : i \in DOMAIN Pending}

(* JitRuntime::add and Release: state is typed; two compiled functions      *)
(* never share memory, so that releasing one module leaves the others' code *)
(* alone; and as long as no Compile failed nothing leaks or is freed early. *)
MemoryIsOwned == TypeOK /\ Exclusive /\ (failures = 0 => Owned)

(* Compiler::Compile, "Compile all parsed functions into machine code": a   *)
(* call runs the function the handle was looked up for.                     *)
RunsOwnCode == \A c \in called : c.ran = c.asked
=============================================================================
