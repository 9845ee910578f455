------------------------------ MODULE JitProofs ------------------------------
(***************************************************************************)
(* Proofs about Jit for any modules, any memory and any number of VMs:     *)
(* whose each piece of executable memory is, and that no pointer the       *)
(* embedder can call through dangles.                                      *)
(***************************************************************************)
EXTENDS Jit, FiniteSetTheorems, TLAPS

Codes == UNION {{m.functions[f].code : f \in DOMAIN m.functions} : m \in Modules}
Pieces == [code : Codes, whole : BOOLEAN]
CompileJobs == [does : {"compile"}, parsed : Modules, done : Seq(CompiledFunctions)]
ReleaseJobs == [does : {"release"}, left : Seq(CompiledFunctions)]
CompiledModules == [id : Nat, functions : Seq(CompiledFunctions),
                    exported : {m.exported : m \in Modules}]

Typed ==
  /\ backend \in {"none", "x64::Compiler", "arm64::Compiler", "aborted"}
  /\ holder \in Seq(Pieces)
  /\ memory \in [Addresses -> Seq(Pieces)]
  /\ job \in {Idle} \cup CompileJobs \cup ReleaseJobs
  /\ modules \subseteq CompiledModules
  /\ vms \in [VMs -> SUBSET CompiledModules]
  /\ compiles \in 0..MaxCompiles /\ failures \in 0..MaxFailures

(* Every copy in memory begins where the holder does, with the code that    *)
(* was assembled first, and what was called was there.                      *)
Copied ==
  /\ \A a \in Addresses : memory[a] # Free =>
       /\ holder # <<>> /\ Len(memory[a]) <= Len(holder)
       /\ memory[a][1] = holder[1]
  /\ \A c \in called : /\ c.ran # "freed"
                       /\ c.ran = "partial" => holder # <<>> /\ ~holder[1].whole

(* Whose memory is whose: every compiled function has its own address.      *)
Ptrs(fs) == {fs[i].ptr : i \in DOMAIN fs}
Distinct(fs) == \A i, j \in DOMAIN fs : fs[i].ptr = fs[j].ptr => i = j
AllPtrs == UNION {Ptrs(c.functions) : c \in modules}
Holding ==
  /\ Distinct(Pending) /\ Ptrs(Pending) \subseteq Allocated
  /\ \A c \in modules : /\ Distinct(c.functions)
                        /\ Ptrs(c.functions) \subseteq Allocated
                        /\ Ptrs(c.functions) \cap Ptrs(Pending) = {}
  /\ \A c, d \in modules : c # d => Ptrs(c.functions) \cap Ptrs(d.functions) = {}
  /\ failures = 0 => Allocated \subseteq AllPtrs \cup Ptrs(Pending)

(* What was compiled is what was parsed, function for function.             *)
MadeOf(fs, m) == \A i \in DOMAIN fs : /\ fs[i].code = m.functions[i].code
                                      /\ fs[i].signature = m.functions[i].signature
Making ==
  /\ job.does = "compile" =>
       Len(job.done) <= Len(job.parsed.functions) /\ MadeOf(job.done, job.parsed)
  /\ \A c \in modules : \E m \in Modules :
       /\ c.exported = m.exported /\ Len(c.functions) = Len(m.functions)
       /\ MadeOf(c.functions, m)

(* VMs and handles only lead to modules that are not released.              *)
Pointing ==
  /\ \A v \in VMs : /\ vms[v] \subseteq modules
                    /\ vms[v] = {} \/ \E c \in modules : vms[v] = {c}
  /\ \A h \in handles : /\ h.vm \in VMs
                        /\ \E c \in vms[h.vm] : h.function \in FunctionsOf(c)

IInv == Typed /\ Copied /\ Holding /\ Making /\ Pointing /\ LookupIsTyped

-----------------------------------------------------------------------------
(* Addresses of sequences of compiled functions.                            *)
LEMMA PtrsEmpty == Ptrs(<<>>) = {} /\ Distinct(<<>>)
BY DEF Ptrs, Distinct

(* A compiled function is added at an address of its own.                  *)
LEMMA PtrsAppend ==
  ASSUME NEW fs \in Seq(CompiledFunctions), NEW f \in CompiledFunctions
  PROVE  /\ Ptrs(Append(fs, f)) = Ptrs(fs) \cup {f.ptr}
         /\ Distinct(fs) /\ f.ptr \notin Ptrs(fs) => Distinct(Append(fs, f))
<1>1. /\ DOMAIN Append(fs, f) = 1..Len(fs) + 1 /\ DOMAIN fs = 1..Len(fs)
      /\ Len(fs) \in Nat /\ Append(fs, f)[Len(fs) + 1] = f
      /\ \A i \in DOMAIN fs : Append(fs, f)[i] = fs[i]
  OBVIOUS
<1>2. \A i \in DOMAIN Append(fs, f) : i \in DOMAIN fs \/ i = Len(fs) + 1
  BY <1>1
<1>3. Ptrs(Append(fs, f)) = Ptrs(fs) \cup {f.ptr}
  BY <1>1, <1>2 DEF Ptrs
<1>4. ASSUME Distinct(fs), f.ptr \notin Ptrs(fs) PROVE Distinct(Append(fs, f))
  <2>1. \A i \in DOMAIN fs : fs[i].ptr # f.ptr
    BY <1>4 DEF Ptrs
  <2> QED
    BY <1>1, <1>2, <1>4, <2>1 DEF Distinct
<1> QED
  BY <1>3, <1>4

(* Releasing the first function takes its address out, and only that.      *)
LEMMA PtrsTail ==
  ASSUME NEW fs \in Seq(CompiledFunctions), fs # <<>>, Distinct(fs)
  PROVE  /\ Tail(fs) \in Seq(CompiledFunctions) /\ Distinct(Tail(fs))
         /\ Head(fs).ptr \in Ptrs(fs) /\ Head(fs).ptr \in Addresses
         /\ Ptrs(Tail(fs)) = Ptrs(fs) \ {Head(fs).ptr}
<1>1. /\ DOMAIN fs = 1..Len(fs) /\ Len(fs) \in Nat /\ Len(fs) > 0
      /\ Head(fs) = fs[1] /\ fs[1] \in CompiledFunctions
      /\ DOMAIN Tail(fs) = 1..Len(fs) - 1
      /\ \A i \in 1..Len(fs) - 1 : Tail(fs)[i] = fs[i + 1]
      /\ Tail(fs) \in Seq(CompiledFunctions)
  OBVIOUS
<1>2. Distinct(Tail(fs))
  BY <1>1 DEF Distinct
<1>3. Ptrs(Tail(fs)) \subseteq Ptrs(fs) \ {Head(fs).ptr}
  <2> SUFFICES ASSUME NEW i \in 1..Len(fs) - 1
               PROVE  fs[i + 1].ptr \in Ptrs(fs) /\ fs[i + 1].ptr # fs[1].ptr
    BY <1>1 DEF Ptrs
  <2> QED
    BY <1>1 DEF Ptrs, Distinct
<1>4. Ptrs(fs) \ {Head(fs).ptr} \subseteq Ptrs(Tail(fs))
  <2> SUFFICES ASSUME NEW i \in 1..Len(fs), fs[i].ptr # fs[1].ptr
               PROVE  fs[i].ptr \in Ptrs(Tail(fs))
    BY <1>1 DEF Ptrs
  <2>1. i - 1 \in 1..Len(fs) - 1 /\ Tail(fs)[i - 1] = fs[i]
    BY <1>1
  <2> QED
    BY <1>1, <2>1 DEF Ptrs
<1>5. Head(fs).ptr \in Ptrs(fs) /\ Head(fs).ptr \in Addresses
  BY <1>1 DEF Ptrs, CompiledFunctions
<1> QED
  BY <1>1, <1>2, <1>3, <1>4, <1>5

PendingSays ==
  /\ job.does = "compile" => Pending = job.done
  /\ job.does = "release" => Pending = job.left
  /\ job.does = "nothing" => Pending = <<>>

(* Whose functions are in the hands of the call that is running.           *)
LEMMA PendingIs == PendingSays
<1>1. ASSUME job.does = "compile" PROVE Pending = job.done
  BY <1>1, Zenon DEF Pending
<1>2. ASSUME job.does = "release" PROVE Pending = job.left
  BY <1>2, Zenon DEF Pending
<1>3. ASSUME job.does = "nothing" PROVE Pending = <<>>
  BY <1>3, Zenon DEF Pending
<1> QED
  BY <1>1, <1>2, <1>3 DEF PendingSays

(* The three things job can be.                                             *)
JobSays ==
  /\ job = Idle => job.does = "nothing"
  /\ job.does = "compile" =>
       /\ job.parsed \in Modules /\ job.done \in Seq(CompiledFunctions)
       /\ job = [does |-> "compile", parsed |-> job.parsed, done |-> job.done]
  /\ job.does = "release" =>
       /\ job.left \in Seq(CompiledFunctions)
       /\ job = [does |-> "release", left |-> job.left]

(* The type invariant leaves three shapes for job.                         *)
LEMMA JobIs == Typed => JobSays
BY DEF Typed, JobSays, Idle, CompileJobs, ReleaseJobs

(* The function that is compiled next, and what it becomes.                 *)
LEMMA FuncIs ==
  ASSUME Typed, Compiling
  PROVE  /\ Len(job.done) + 1 \in DOMAIN job.parsed.functions
         /\ Func = job.parsed.functions[Len(job.done) + 1]
         /\ Func.code \in Codes
         /\ \A a \in Addresses : Compiled(a) \in CompiledFunctions
         /\ \A w \in BOOLEAN : Assembled(w) \in Seq(Pieces)
<1>1. job.parsed \in Modules /\ job.done \in Seq(CompiledFunctions)
  BY JobIs DEF Compiling, JobSays
<1>2. ParsedModule(job.parsed)
  BY <1>1, ModulesAssumption
<1>3. Len(job.done) + 1 \in DOMAIN job.parsed.functions
  <2>1. PICK S : job.parsed.functions \in Seq(S)
    BY <1>2 DEF ParsedModule
  <2> QED
    BY <1>1, <2>1 DEF Compiling
<1>4. Func.code \in Codes
  BY <1>1, <1>3 DEF Func, Codes
<1>5. \A a \in Addresses : Compiled(a) \in CompiledFunctions
  BY <1>2, <1>3, <1>4 DEF Compiled, CompiledFunctions, Codes, Func, ParsedModule
<1>6. \A w \in BOOLEAN : Assembled(w) \in Seq(Pieces)
  BY <1>4 DEF Assembled, Pieces, Typed
<1> QED
  BY <1>3, <1>4, <1>5, <1>6 DEF Func

-----------------------------------------------------------------------------
(* Steps that neither compile nor release anything.                         *)
Elsewhere ==
  \/ \E arch \in Archs : CreateNative(arch)
  \/ \E v \in VMs, c \in modules : CreateVM(v, c)
  \/ \E v \in VMs, name \in Names, native \in Natives :
       Lookup(v, name, native)
  \/ \E h \in handles : Call(h)
  \/ \E v \in VMs : DestroyVM(v)
  \/ UNCHANGED vars

(* They leave the holder, the memory and the modules alone.                *)
LEMMA ElsewhereIs ==
  Elsewhere => UNCHANGED <<holder, memory, job, modules, compiles, failures>>
BY DEF Elsewhere, CreateNative, CreateVM, Lookup, Call, DestroyVM, vars

(* CompileFunction only changes what is done.                              *)
LEMMA NextDone ==
  ASSUME NEW j \in CompileJobs, NEW fs
  PROVE  [j EXCEPT !.done = fs]
           = [does |-> "compile", parsed |-> j.parsed, done |-> fs]
BY DEF CompileJobs

(* Every variable keeps its type.                                          *)
LEMMA TypedKept == ASSUME IInv, [Next]_vars PROVE Typed'
<1> USE DEF Typed, IInv
<1>1. CASE Elsewhere
  <2>1. backend' \in {"none", "x64::Compiler", "arm64::Compiler", "aborted"}
    <3>1. ASSUME NEW arch \in Archs, CreateNative(arch)
          PROVE  backend' \in {"x64::Compiler", "arm64::Compiler", "aborted"}
      <4>1. backend' = Backend(arch)
        BY <3>1 DEF CreateNative
      <4>2. \/ arch = "x64" /\ Backend(arch) = "x64::Compiler"
            \/ arch = "aarch64" /\ Backend(arch) = "arm64::Compiler"
            \/ arch # "x64" /\ arch # "aarch64" /\ Backend(arch) = "aborted"
        BY Zenon DEF Backend
      <4> QED
        BY <4>1, <4>2
    <3> QED
      BY <1>1, <3>1
      DEF Elsewhere, CreateVM, Lookup, Call, DestroyVM, vars
  <2>2. vms' \in [VMs -> SUBSET CompiledModules]
    BY <1>1 DEF Elsewhere, CreateNative, CreateVM, Lookup, Call, DestroyVM, vars
  <2> QED
    BY <1>1, <2>1, <2>2, ElsewhereIs
<1>2. ASSUME NEW m \in Modules, Compile(m) PROVE Typed'
  <2>1. job' \in CompileJobs
    BY <1>2 DEF Compile, CompileJobs
  <2> QED
    BY <1>2, <2>1, JitBoundAssumption DEF Compile
<1>3. ASSUME NEW a \in Addresses, CompileFunction(a) PROVE Typed'
  <2>1. Compiled(a) \in CompiledFunctions /\ Assembled(TRUE) \in Seq(Pieces)
    BY <1>3, FuncIs DEF CompileFunction
  <2>2. /\ job.parsed \in Modules /\ job.done \in Seq(CompiledFunctions)
        /\ job \in CompileJobs
    BY <1>3, JobIs DEF JobSays, CompileFunction, Compiling, CompileJobs
  <2>3. job' = [does |-> "compile", parsed |-> job.parsed,
                done |-> Append(job.done, Compiled(a))]
    BY <1>3, <2>2, NextDone DEF CompileFunction
  <2>4. job' \in CompileJobs
    BY <2>1, <2>2, <2>3 DEF CompileJobs
  <2> QED
    BY <1>3, <2>1, <2>4 DEF CompileFunction
<1>4. CASE CompileThrows
  <2>1. holder' \in Seq(Pieces)
    BY <1>4, FuncIs DEF CompileThrows
  <2>2. job' = Idle /\ failures' \in 0..MaxFailures
    BY <1>4, JitBoundAssumption DEF CompileThrows
  <2> QED
    BY <1>4, <2>1, <2>2 DEF CompileThrows
<1>5. CASE CompileReturns
  <2>1. /\ job.parsed \in Modules /\ job.done \in Seq(CompiledFunctions)
    BY <1>5, JobIs DEF JobSays, CompileReturns
  <2>2. Result \in CompiledModules
    BY <2>1, JitBoundAssumption DEF Result, CompiledModules
  <2> QED
    BY <1>5, <2>2 DEF CompileReturns
<1>6. ASSUME NEW c \in modules, Release(c) PROVE Typed'
  <2>1. job' \in ReleaseJobs
    BY <1>6 DEF Release, ReleaseJobs, CompiledModules
  <2> QED
    BY <1>6, <2>1 DEF Release
<1>7. CASE ReleaseFunction
  <2>1. /\ job.left \in Seq(CompiledFunctions) /\ job.left # <<>>
        /\ job = [does |-> "release", left |-> job.left]
    BY <1>7, JobIs DEF JobSays, ReleaseFunction, More
  <2>2. job' = [does |-> "release", left |-> Tail(job.left)]
    BY <1>7, <2>1 DEF ReleaseFunction
  <2>3. job' \in ReleaseJobs
    BY <2>1, <2>2 DEF ReleaseJobs
  <2>4. memory' \in [Addresses -> Seq(Pieces)]
    <3>1. Free \in Seq(Pieces)
      BY DEF Free
    <3> QED
      BY <1>7, <3>1 DEF ReleaseFunction, Released
  <2> QED
    BY <1>7, <2>3, <2>4 DEF ReleaseFunction
<1>8. CASE ReleaseReturns
  BY <1>8 DEF ReleaseReturns
<1> QED
  BY <1>1, <1>2, <1>3, <1>4, <1>5, <1>6, <1>7, <1>8 DEF Next, Elsewhere

(* Code is only appended, and the whole holder is what is copied.           *)
LEMMA CopiedKept == ASSUME IInv, [Next]_vars PROVE Copied'
<1>1. holder \in Seq(Pieces) /\ memory \in [Addresses -> Seq(Pieces)]
  BY DEF IInv, Typed
<1>2. ASSUME NEW piece \in Pieces, holder' = Append(holder, piece),
             called' = called,
             \A a \in Addresses : memory'[a] = memory[a] \/ memory'[a] = holder'
      PROVE  Copied'
  <2>1. /\ holder' # <<>> /\ Len(holder') = Len(holder) + 1 /\ Len(holder) \in Nat
        /\ holder # <<>> => holder'[1] = holder[1]
    BY <1>1, <1>2
  <2>2. \A a \in Addresses : Len(memory[a]) \in Nat
    BY <1>1
  <2> QED
    BY <1>2, <2>1, <2>2 DEF IInv, Copied
<1>3. CASE Compiling /\ holder' \in {Assembled(TRUE), Assembled(FALSE)}
           /\ called' = called
           /\ \A a \in Addresses : memory'[a] = memory[a] \/ memory'[a] = holder'
  <2>1. PICK w \in BOOLEAN : holder' = Assembled(w)
    BY <1>3
  <2>2. [code |-> Func.code, whole |-> w] \in Pieces
    BY <1>3, FuncIs DEF IInv, Pieces
  <2>3. holder' = Append(holder, [code |-> Func.code, whole |-> w])
    BY <2>1 DEF Assembled
  <2> QED
    BY <1>2, <1>3, <2>2, <2>3
<1>4. ASSUME NEW a \in Addresses, CompileFunction(a) PROVE Copied'
  BY <1>1, <1>3, <1>4 DEF CompileFunction
<1>5. CASE CompileThrows
  BY <1>3, <1>5 DEF CompileThrows
<1>6. ASSUME called' = called, holder' = holder,
             \A a \in Addresses : memory'[a] = memory[a] \/ memory'[a] = Free
      PROVE  Copied'
  BY <1>6 DEF IInv, Copied
<1>7. CASE ReleaseFunction
  BY <1>1, <1>6, <1>7 DEF ReleaseFunction, Released
<1>8. ASSUME NEW h \in handles, Call(h) PROVE Copied'
  <2>1. PICK c \in modules : h.function \in FunctionsOf(c)
    BY DEF IInv, Pointing
  <2>2. h.function.ptr \in Ptrs(c.functions)
    BY <2>1 DEF FunctionsOf, Ptrs
  <2>3. h.function.ptr \in Addresses /\ memory[h.function.ptr] # Free
    BY <2>2 DEF IInv, Holding, Allocated
  <2>4. /\ holder # <<>> /\ memory[h.function.ptr][1] = holder[1]
        /\ holder[1] \in Pieces
    BY <1>1, <2>3 DEF IInv, Copied
  <2>5. RunsAt(h.function.ptr)
          = IF holder[1].whole THEN holder[1].code ELSE "partial"
    BY <2>3, <2>4 DEF RunsAt
  <2>6. holder[1].code \notin {"freed", "partial"}
    <3>1. holder[1].code \in Codes
      BY <2>4 DEF Pieces
    <3>2. PICK m \in Modules :
            holder[1].code \in {m.functions[f].code : f \in DOMAIN m.functions}
      BY <3>1 DEF Codes
    <3>3. ParsedModule(m)
      BY ModulesAssumption
    <3> QED
      BY <3>2, <3>3 DEF ParsedModule
  <2>7. \A d \in called' : d.ran = RunsAt(h.function.ptr)
    BY <1>8 DEF Call
  <2>8. holder' = holder /\ memory' = memory
    BY <1>8 DEF Call
  <2> QED
    BY <2>4, <2>5, <2>6, <2>7, <2>8 DEF IInv, Copied
<1>9. CASE holder' = holder /\ memory' = memory /\ called' = called
  BY <1>6, <1>9
<1> QED
  BY <1>4, <1>5, <1>7, <1>8, <1>9
  DEF Next, vars, CreateNative, Compile, CompileReturns, Release, ReleaseReturns,
      CreateVM, Lookup, DestroyVM

(* Memory changes hands whole: add takes what is free, Compile's result and *)
(* Release's argument take their functions along.                           *)
LEMMA HoldingKept == ASSUME IInv, [Next]_vars PROVE Holding'
<1>1. PendingSays /\ PendingSays'
  BY PendingIs, PTL
<1>2. JobSays
  BY JobIs DEF IInv
<1>3. /\ memory \in [Addresses -> Seq(Pieces)]
      /\ failures \in Nat
  BY DEF IInv, Typed
<1>4. ASSUME NEW a \in Addresses, CompileFunction(a) PROVE Holding'
  <2> DEFINE f == Compiled(a)
  <2>1. f \in CompiledFunctions /\ f.ptr = a /\ Assembled(TRUE) \in Seq(Pieces)
    BY <1>4, FuncIs DEF CompileFunction, Compiled, IInv
  <2>2. /\ job.done \in Seq(CompiledFunctions) /\ Pending = job.done
        /\ job \in CompileJobs
    BY <1>1, <1>2, <1>4
    DEF CompileFunction, Compiling, PendingSays, JobSays, CompileJobs
  <2>3. job' = [does |-> "compile", parsed |-> job.parsed,
                done |-> Append(job.done, f)]
    BY <1>4, <2>2, NextDone DEF CompileFunction
  <2>4. Pending' = Append(Pending, f)
    BY <1>1, <2>2, <2>3 DEF PendingSays
  <2> HIDE DEF f
  <2>5. a \notin Allocated /\ a \notin Ptrs(Pending)
    BY <1>4 DEF CompileFunction, CanAdd, Allocated, IInv, Holding
  <2>6. Distinct(Pending') /\ Ptrs(Pending') = Ptrs(Pending) \cup {a}
    BY <2>1, <2>2, <2>4, <2>5, PtrsAppend DEF IInv, Holding
  <2>7. Allocated' = Allocated \cup {a}
    <3>1. memory' = [memory EXCEPT ![a] = Assembled(TRUE)]
      BY <1>4 DEF CompileFunction
    <3>2. Assembled(TRUE) # Free
      BY DEF Assembled, Free, IInv, Typed
    <3> QED
      BY <1>3, <3>1, <3>2 DEF Allocated
  <2>8. modules' = modules /\ failures' = failures /\ AllPtrs' = AllPtrs
    BY <1>4 DEF CompileFunction, AllPtrs
  <2> QED
    BY <2>5, <2>6, <2>7, <2>8 DEF IInv, Holding
<1>5. CASE CompileThrows
  <2>1. Pending' = <<>> /\ failures' # 0 /\ memory' = memory /\ modules' = modules
    BY <1>1, <1>3, <1>5 DEF CompileThrows, PendingSays, Idle
  <2>2. Ptrs(Pending') = {} /\ Distinct(Pending') /\ Allocated' = Allocated
    BY <2>1, PtrsEmpty DEF Allocated
  <2> QED
    BY <2>1, <2>2 DEF IInv, Holding
<1>6. CASE CompileReturns
  <2>1. /\ Pending' = <<>> /\ memory' = memory /\ failures' = failures
        /\ Pending = job.done /\ modules' = modules \cup {Result}
        /\ Result.functions = Pending
    BY <1>1, <1>6 DEF CompileReturns, PendingSays, Idle, Result
  <2>2. Ptrs(Pending') = {} /\ Distinct(Pending') /\ Allocated' = Allocated
    BY <2>1, PtrsEmpty DEF Allocated
  <2>3. AllPtrs' = AllPtrs \cup Ptrs(Pending)
    BY <2>1 DEF AllPtrs
  <2> QED
    BY <2>1, <2>2, <2>3 DEF IInv, Holding
<1>7. ASSUME NEW c \in modules, Release(c) PROVE Holding'
  <2>1. /\ Pending = <<>> /\ Pending' = c.functions /\ memory' = memory
        /\ failures' = failures /\ modules' = modules \ {c}
    BY <1>1, <1>2, <1>7 DEF Release, Ready, PendingSays, JobSays
  <2>2. Ptrs(Pending) = {} /\ Allocated' = Allocated
    BY <2>1, PtrsEmpty DEF Allocated
  <2>3. AllPtrs \subseteq AllPtrs' \cup Ptrs(c.functions)
    BY <2>1 DEF AllPtrs
  <2> QED
    BY <2>1, <2>2, <2>3 DEF IInv, Holding
<1>8. CASE ReleaseFunction
  <2>1. /\ job.left \in Seq(CompiledFunctions) /\ Pending = job.left
        /\ job = [does |-> "release", left |-> job.left] /\ job.left # <<>>
    BY <1>1, <1>2, <1>8 DEF ReleaseFunction, More, PendingSays, JobSays
  <2>2. job' = [does |-> "release", left |-> Tail(job.left)]
    BY <1>8, <2>1 DEF ReleaseFunction
  <2>3. Pending' = Tail(Pending)
    BY <1>1, <2>1, <2>2 DEF PendingSays
  <2> DEFINE a == Head(Pending).ptr
  <2>4. /\ a \in Addresses /\ a \in Ptrs(Pending) /\ Distinct(Pending')
        /\ Ptrs(Pending') = Ptrs(Pending) \ {a}
    BY <2>1, <2>3, PtrsTail DEF IInv, Holding
  <2>5. memory' = [memory EXCEPT ![a] = Free]
    BY <1>8, <2>1 DEF ReleaseFunction, Released
  <2> HIDE DEF a
  <2>6. Allocated' = Allocated \ {a}
    BY <1>3, <2>4, <2>5 DEF Allocated
  <2>7. modules' = modules /\ failures' = failures /\ AllPtrs' = AllPtrs
    BY <1>8 DEF ReleaseFunction, AllPtrs
  <2> QED
    BY <2>4, <2>6, <2>7 DEF IInv, Holding
<1>9. ASSUME Pending' = Pending, memory' = memory, modules' = modules,
             failures' = failures
      PROVE  Holding'
  <2>1. Allocated' = Allocated /\ AllPtrs' = AllPtrs
    BY <1>9 DEF Allocated, AllPtrs
  <2> QED
    BY <1>9, <2>1 DEF IInv, Holding
<1>10. ASSUME NEW m \in Modules, Compile(m) PROVE Holding'
  <2>1. Pending = <<>> /\ Pending' = <<>>
    BY <1>1, <1>2, <1>10 DEF Compile, Ready, PendingSays, JobSays
  <2> QED
    BY <1>9, <1>10, <2>1 DEF Compile
<1>11. CASE ReleaseReturns
  <2>1. Pending = <<>> /\ Pending' = <<>>
    BY <1>1, <1>2, <1>11 DEF ReleaseReturns, More, PendingSays, JobSays, Idle
  <2> QED
    BY <1>9, <1>11, <2>1 DEF ReleaseReturns
<1>12. CASE Elsewhere
  BY <1>9, <1>12, ElsewhereIs DEF Pending
<1> QED
  BY <1>4, <1>5, <1>6, <1>7, <1>8, <1>10, <1>11, <1>12 DEF Next, Elsewhere

(* Compile goes through the parsed functions in order, and the module it    *)
(* returns has all of them.                                                 *)
LEMMA MakingKept == ASSUME IInv, [Next]_vars PROVE Making'
<1>1. JobSays
  BY JobIs DEF IInv
<1>2. ASSUME NEW m \in Modules, Compile(m) PROVE Making'
  <2>1. job'.done = <<>> /\ job'.parsed = m /\ modules' = modules
    BY <1>2 DEF Compile
  <2>2. Len(job'.done) <= Len(job'.parsed.functions) /\ MadeOf(job'.done, job'.parsed)
    <3>1. PICK S : m.functions \in Seq(S)
      BY ModulesAssumption DEF ParsedModule
    <3> QED
      BY <2>1, <3>1 DEF MadeOf
  <2> QED
    BY <2>1, <2>2 DEF IInv, Making
<1>3. ASSUME NEW a \in Addresses, CompileFunction(a) PROVE Making'
  <2>1. /\ job.done \in Seq(CompiledFunctions) /\ job \in CompileJobs
        /\ job.does = "compile" /\ Len(job.done) < Len(job.parsed.functions)
    BY <1>1, <1>3 DEF CompileFunction, Compiling, JobSays, CompileJobs
  <2>2. job' = [does |-> "compile", parsed |-> job.parsed,
                done |-> Append(job.done, Compiled(a))]
    BY <1>3, <2>1, NextDone DEF CompileFunction
  <2>3. /\ Compiled(a) \in CompiledFunctions
        /\ Compiled(a).code = job.parsed.functions[Len(job.done) + 1].code
        /\ Compiled(a).signature
             = job.parsed.functions[Len(job.done) + 1].signature
    BY <1>3, FuncIs DEF CompileFunction, Compiled, IInv
  <2>4. MadeOf(job.done, job.parsed)
    BY <2>1 DEF IInv, Making
  <2>5. MadeOf(Append(job.done, Compiled(a)), job.parsed)
    BY <2>1, <2>3, <2>4 DEF MadeOf
  <2>6. Len(job'.done) <= Len(job.parsed.functions)
    <3>1. PICK S : job.parsed.functions \in Seq(S)
      BY <2>1, ModulesAssumption DEF CompileJobs, ParsedModule
    <3> QED
      BY <2>1, <2>2, <2>3, <3>1
  <2> QED
    BY <1>3, <2>2, <2>5, <2>6 DEF CompileFunction, IInv, Making
<1>4. CASE CompileReturns
  <2>1. /\ job.does = "compile" /\ job.parsed \in Modules
        /\ job.done \in Seq(CompiledFunctions) /\ ~Compiling
    BY <1>1, <1>4 DEF CompileReturns, JobSays
  <2>2. Len(job.done) = Len(job.parsed.functions) /\ MadeOf(job.done, job.parsed)
    <3>1. PICK S : job.parsed.functions \in Seq(S)
      BY <2>1, ModulesAssumption DEF ParsedModule
    <3> QED
      BY <2>1, <3>1 DEF Compiling, IInv, Making
  <2>3. job' = Idle /\ modules' = modules \cup {Result}
    BY <1>4 DEF CompileReturns
  <2> QED
    BY <2>1, <2>2, <2>3 DEF IInv, Making, Result, Idle
<1>5. ASSUME job'.does # "compile", modules' \subseteq modules PROVE Making'
  BY <1>5 DEF IInv, Making
<1>6. CASE CompileThrows
  BY <1>5, <1>6 DEF CompileThrows, Idle
<1>7. ASSUME NEW c \in modules, Release(c) PROVE Making'
  BY <1>5, <1>7 DEF Release
<1>8. CASE ReleaseFunction
  <2>1. job = [does |-> "release", left |-> job.left]
    BY <1>1, <1>8 DEF ReleaseFunction, JobSays
  <2>2. job' = [does |-> "release", left |-> Tail(job.left)]
    BY <1>8, <2>1 DEF ReleaseFunction
  <2> QED
    BY <1>5, <1>8, <2>2 DEF ReleaseFunction
<1>9. CASE ReleaseReturns
  BY <1>5, <1>9 DEF ReleaseReturns, Idle
<1>10. CASE Elsewhere
  BY <1>10, ElsewhereIs DEF IInv, Making
<1> QED
  BY <1>2, <1>3, <1>4, <1>6, <1>7, <1>8, <1>9, <1>10 DEF Next, Elsewhere

(* A module a VM has is not released, and a VM's handles go with it.        *)
LEMMA PointingKept == ASSUME IInv, [Next]_vars PROVE Pointing'
<1>1. vms \in [VMs -> SUBSET CompiledModules]
  BY DEF IInv, Typed
<1>2. ASSUME vms' = vms, handles' = handles,
             \A v \in VMs : \A c \in vms[v] : c \in modules'
      PROVE  Pointing'
  BY <1>2 DEF IInv, Pointing
<1>3. CASE CompileReturns
  BY <1>2, <1>3 DEF CompileReturns, IInv, Pointing
<1>4. ASSUME NEW c \in modules, Release(c) PROVE Pointing'
  BY <1>2, <1>4 DEF Release, MayRelease, IInv, Pointing
<1>5. ASSUME NEW v \in VMs, NEW c \in modules, CreateVM(v, c) PROVE Pointing'
  <2>1. /\ vms[v] = {} /\ vms' = [vms EXCEPT ![v] = {c}]
        /\ modules' = modules /\ handles' = handles
    BY <1>5 DEF CreateVM
  <2>2. \A h \in handles : h.vm # v
    BY <2>1 DEF IInv, Pointing
  <2> QED
    BY <1>1, <2>1, <2>2 DEF IInv, Pointing
<1>6. ASSUME NEW v \in VMs, NEW name \in Names, NEW native \in Natives,
             Lookup(v, name, native)
      PROVE  Pointing'
  <2>1. PICK c \in vms[v] : \E f \in Found(c, name, SignatureFromNative(native)) :
          handles' = handles \cup
            {[vm |-> v, name |-> name, native |-> native, function |-> f]}
    BY <1>6 DEF Lookup
  <2>2. PICK f \in Found(c, name, SignatureFromNative(native)) :
          handles' = handles \cup
            {[vm |-> v, name |-> name, native |-> native, function |-> f]}
    BY <2>1
  <2>3. name \in DOMAIN c.exported /\ f = c.functions[c.exported[name] + 1]
    BY <2>2 DEF Found
  <2>4. f \in FunctionsOf(c)
    <3>1. c \in modules /\ c \in CompiledModules
      BY <2>1 DEF IInv, Pointing, Typed
    <3>2. PICK m \in Modules : /\ c.exported = m.exported
                               /\ Len(c.functions) = Len(m.functions)
      BY <3>1 DEF IInv, Making
    <3>3. c.exported[name] \in 0..Len(c.functions) - 1
      BY <2>3, <3>2, ModulesAssumption DEF ParsedModule
    <3>4. c.functions \in Seq(CompiledFunctions)
      BY <3>1 DEF CompiledModules
    <3>5. c.exported[name] + 1 \in DOMAIN c.functions
      BY <3>3, <3>4
    <3> QED
      BY <2>3, <3>5 DEF FunctionsOf
  <2>5. vms' = vms /\ modules' = modules
    BY <1>6 DEF Lookup
  <2> QED
    BY <2>2, <2>4, <2>5 DEF IInv, Pointing
<1>7. ASSUME NEW v \in VMs, DestroyVM(v) PROVE Pointing'
  <2>1. /\ vms' = [vms EXCEPT ![v] = {}] /\ modules' = modules
        /\ handles' = {h \in handles : h.vm # v}
    BY <1>7 DEF DestroyVM
  <2> QED
    BY <1>1, <2>1 DEF IInv, Pointing
<1>8. CASE vms' = vms /\ handles' = handles /\ modules' = modules
  BY <1>2, <1>8 DEF IInv, Pointing
<1> QED
  BY <1>3, <1>4, <1>5, <1>6, <1>7, <1>8
  DEF Next, vars, CreateNative, Compile, CompileFunction, CompileThrows,
      ReleaseFunction, ReleaseReturns, Call

(* A C++ type is passed as the type NativeToWasm takes it for.              *)
LEMMA TypesPassed ==
  \A type \in NativeTypes : Passed(type) = Passed(NativeToWasm(type))
<1>1. /\ NativeToWasm("int32_t") = "i32" /\ NativeToWasm("uint32_t") = "i32"
      /\ NativeToWasm("int64_t") = "i64" /\ NativeToWasm("uint64_t") = "i64"
      /\ NativeToWasm("float") = "f32" /\ NativeToWasm("double") = "f64"
  BY Zenon DEF NativeToWasm
<1>2. /\ Passed("int32_t") = <<"int", 32>> /\ Passed("uint32_t") = <<"int", 32>>
      /\ Passed("i32") = <<"int", 32>>
  BY Zenon DEF Passed
<1>3. /\ Passed("int64_t") = <<"int", 64>> /\ Passed("uint64_t") = <<"int", 64>>
      /\ Passed("i64") = <<"int", 64>>
  BY Zenon DEF Passed
<1>4. /\ Passed("float") = <<"vec", 32>> /\ Passed("f32") = <<"vec", 32>>
      /\ Passed("double") = <<"vec", 64>> /\ Passed("f64") = <<"vec", 64>>
  BY Zenon DEF Passed
<1> QED
  BY <1>1, <1>2, <1>3, <1>4 DEF NativeTypes

(* A signature asked for is passed as the one compared with.               *)
LEMMA Passing ==
  \A native \in Natives : SamePassing(native, SignatureFromNative(native))
<1> SUFFICES ASSUME NEW native \in Natives
             PROVE  SamePassing(native, SignatureFromNative(native))
  OBVIOUS
<1> DEFINE sig == SignatureFromNative(native)
<1>1. native.args \in Seq(NativeTypes) /\ native.result \in NativeTypes
  BY NativesAssumption
<1>2. /\ sig.params = [i \in DOMAIN native.args |-> NativeToWasm(native.args[i])]
      /\ sig.results = <<NativeToWasm(native.result)>>
  BY DEF SignatureFromNative
<1> HIDE DEF sig
<1>3. \A i \in DOMAIN sig.params : Passed(native.args[i]) = Passed(sig.params[i])
  BY <1>1, <1>2, TypesPassed
<1>4. \A i \in DOMAIN sig.results : Passed(native.result) = Passed(sig.results[i])
  BY <1>1, <1>2, TypesPassed
<1> QED
  BY <1>2, <1>3, <1>4 DEF SamePassing, sig

(* A lookup finds what was parsed under that name.                         *)
LEMMA LookupKept == ASSUME IInv, [Next]_vars PROVE LookupIsTyped'
<1>1. ASSUME NEW v \in VMs, NEW name \in Names, NEW native \in Natives,
             Lookup(v, name, native)
      PROVE  LookupIsTyped'
  <2>1. PICK c \in vms[v] : \E f \in Found(c, name, SignatureFromNative(native)) :
          handles' = handles \cup
            {[vm |-> v, name |-> name, native |-> native, function |-> f]}
    BY <1>1 DEF Lookup
  <2>2. PICK f \in Found(c, name, SignatureFromNative(native)) :
          handles' = handles \cup
            {[vm |-> v, name |-> name, native |-> native, function |-> f]}
    BY <2>1
  <2>3. /\ name \in DOMAIN c.exported /\ f = c.functions[c.exported[name] + 1]
        /\ f.signature = SignatureFromNative(native)
    BY <2>2 DEF Found
  <2>4. c \in modules /\ c \in CompiledModules
    BY <2>1 DEF IInv, Pointing, Typed
  <2>5. PICK m \in Modules : /\ c.exported = m.exported
                             /\ Len(c.functions) = Len(m.functions)
                             /\ MadeOf(c.functions, m)
    BY <2>4 DEF IInv, Making
  <2>6. c.exported[name] + 1 \in DOMAIN c.functions
    <3>1. c.exported[name] \in 0..Len(c.functions) - 1
      BY <2>3, <2>5, ModulesAssumption DEF ParsedModule
    <3> QED
      BY <2>4, <3>1 DEF CompiledModules
  <2>7. /\ m.functions[m.exported[name] + 1].code = f.code
        /\ m.functions[m.exported[name] + 1].signature = f.signature
    BY <2>3, <2>5, <2>6 DEF MadeOf
  <2>8. SamePassing(native, m.functions[m.exported[name] + 1].signature)
    BY <2>3, <2>7, Passing
  <2> QED
    BY <2>2, <2>3, <2>5, <2>7, <2>8 DEF IInv, LookupIsTyped
<1>2. CASE handles' \subseteq handles
  BY <1>2 DEF IInv, LookupIsTyped
<1> QED
  BY <1>1, <1>2
  DEF Next, vars, CreateNative, Compile, CompileFunction, CompileThrows,
      CompileReturns, Release, ReleaseFunction, ReleaseReturns, CreateVM, Call,
      DestroyVM

-----------------------------------------------------------------------------
(* Nothing is allocated before the first Compile.                          *)
LEMMA InitHolds == Init => IInv
<1> SUFFICES ASSUME Init PROVE IInv
  OBVIOUS
<1>1. Typed
  BY JitBoundAssumption DEF Init, Typed, Free
<1>2. Copied
  BY DEF Init, Copied
<1>3. Holding
  <2>1. Pending = <<>>
    BY PendingIs DEF Init, Idle, PendingSays
  <2> QED
    BY <2>1, PtrsEmpty DEF Init, Holding, Allocated, AllPtrs
<1>4. Making
  BY DEF Init, Making, Idle
<1>5. Pointing
  BY DEF Init, Pointing
<1>6. LookupIsTyped
  BY DEF Init, LookupIsTyped
<1> QED
  BY <1>1, <1>2, <1>3, <1>4, <1>5, <1>6 DEF IInv

(* The inductive invariant of the compiler and its modules: whose each      *)
(* address is, what is at it, and who points to it.                         *)
THEOREM JitInvariant == Spec => []IInv
<1>1. IInv /\ [Next]_vars => IInv'
  BY TypedKept, CopiedKept, HoldingKept, MakingKept, PointingKept, LookupKept
  DEF IInv
<1> QED
  BY InitHolds, <1>1, PTL DEF Spec

(* No handle whose VM is alive points to freed memory, and no call runs     *)
(* freed or half assembled code unless the first function failed.           *)
THEOREM CallsLiveCodeHolds == Spec => []CallsLiveCode
<1>1. IInv => CallsLiveCode
  <2> SUFFICES ASSUME IInv PROVE CallsLiveCode
    OBVIOUS
  <2>1. ASSUME NEW h \in handles PROVE memory[h.function.ptr] # Free
    <3>1. PICK c \in modules : h.function \in FunctionsOf(c)
      BY DEF IInv, Pointing
    <3>2. h.function.ptr \in Ptrs(c.functions)
      BY <3>1 DEF FunctionsOf, Ptrs
    <3> QED
      BY <3>2 DEF IInv, Holding, Allocated
  <2> QED
    BY <2>1 DEF IInv, Copied, CallsLiveCode
<1> QED
  BY <1>1, JitInvariant, PTL

(* A handle leads to the function exported under its name, with a signature *)
(* that passes what C++ passes.                                             *)
THEOREM LookupIsTypedHolds == Spec => []LookupIsTyped
BY JitInvariant, PTL DEF IInv

(* Compiled functions never share memory, and unless a Compile failed all   *)
(* that is allocated belongs to a module or to the call that is running.    *)
THEOREM MemoryIsOwnedHolds == Spec => []MemoryIsOwned
<1>1. IInv => TypeOK
  <2> SUFFICES ASSUME IInv PROVE TypeOK
    OBVIOUS
  <2>1. /\ Pending \in Seq(CompiledFunctions)
        /\ job.does \in {"nothing", "compile", "release"}
    <3>1. PendingSays /\ JobSays
      BY PendingIs, JobIs DEF IInv
    <3>2. job.does \in {"nothing", "compile", "release"}
      BY DEF IInv, Typed, Idle, CompileJobs, ReleaseJobs
    <3>3. <<>> \in Seq(CompiledFunctions)
      OBVIOUS
    <3> QED
      BY <3>1, <3>2, <3>3 DEF PendingSays, JobSays
  <2>2. \A c \in modules : FunctionsOf(c) \subseteq CompiledFunctions
    BY DEF IInv, Typed, CompiledModules, FunctionsOf
  <2>3. \A v \in VMs : vms[v] \subseteq modules /\ Cardinality(vms[v]) <= 1
    <3> SUFFICES ASSUME NEW v \in VMs
                 PROVE  vms[v] \subseteq modules /\ Cardinality(vms[v]) <= 1
      OBVIOUS
    <3>1. vms[v] = {} \/ \E c \in modules : vms[v] = {c}
      BY DEF IInv, Pointing
    <3>2. Cardinality({}) = 0
      BY FS_EmptySet
    <3>3. \A c \in modules : Cardinality({c}) = 1
      BY FS_Singleton
    <3>4. Cardinality(vms[v]) \in {0, 1}
      BY <3>1, <3>2, <3>3
    <3> QED
      BY <3>1, <3>4
  <2>4. \A h \in handles : \E c \in vms[h.vm] : h.function \in FunctionsOf(c)
    BY DEF IInv, Pointing
  <2> QED
    BY <2>1, <2>2, <2>3, <2>4 DEF IInv, Typed, Copied, TypeOK
<1>2. IInv => Exclusive
  <2> SUFFICES ASSUME IInv, NEW c \in modules, NEW d \in modules,
                      NEW f \in DOMAIN c.functions, NEW g \in DOMAIN d.functions,
                      c.functions[f].ptr = d.functions[g].ptr
               PROVE  c = d /\ f = g
    BY DEF Exclusive
  <2>1. /\ c.functions[f].ptr \in Ptrs(c.functions)
        /\ c.functions[f].ptr \in Ptrs(d.functions)
    BY DEF Ptrs
  <2>2. c = d
    BY <2>1 DEF IInv, Holding
  <2> QED
    BY <2>2 DEF IInv, Holding, Distinct
<1>3. IInv => (failures = 0 => Owned)
  <2> SUFFICES ASSUME IInv, failures = 0 PROVE Owned
    OBVIOUS
  <2>1. Allocated = AllPtrs \cup Ptrs(Pending)
    BY DEF IInv, Holding, AllPtrs
  <2>2. {f.ptr : f \in UNION {FunctionsOf(c) : c \in modules}} = AllPtrs
    BY DEF AllPtrs, Ptrs, FunctionsOf
  <2> QED
    BY <2>1, <2>2 DEF Owned, Ptrs
<1> QED
  BY <1>1, <1>2, <1>3, JitInvariant, PTL DEF MemoryIsOwned
=============================================================================
