------------------------------- MODULE VMProofs -------------------------------
(***************************************************************************)
(* Proofs about VM for any number of hosts, VMs and computations.  The     *)
(* VMThread half of every step is a step of VMThread, so that what was     *)
(* proved about it holds here (Threads); on top of it IInv says where the  *)
(* computation of a VM is, and what a Computation knows of it.             *)
(***************************************************************************)
EXTENDS VM, TLAPS

TP == INSTANCE VMThreadProofs WITH Threads <- VMs, MaxStarts <- MaxInvokes,
                                   MaxYields <- 1

(* VMThreadProofs instances the same VMThread as VM.                        *)
LEMMA SameThreads == T!Spec => []TP!IInv
<1>1. T!Init => TP!Init
  BY DEF T!Init, TP!Init, T!HostContext, TP!HostContext, T!NullContext,
         TP!NullContext
<1>2. T!Next => TP!Next
  BY DEF T!Next, TP!Next, T!Create, TP!Create, T!Resume, TP!Resume, T!Yield,
         TP!Yield, T!Finish, TP!Finish, T!Stop, TP!Stop, T!Destroy, TP!Destroy,
         T!FuncThrows, TP!FuncThrows, T!MayUse, TP!MayUse, T!MayResume,
         TP!MayResume, T!MayDestroy, TP!MayDestroy, T!MayStop, TP!MayStop,
         T!NeedsEntry, TP!NeedsEntry, T!ResumePoint, TP!ResumePoint,
         T!InitializeVMThreadStackState, TP!InitializeVMThreadStackState,
         T!ThreadContext, TP!ThreadContext, T!TrampolineInToVM,
         TP!TrampolineInToVM, T!TrampolineOutOfVM, TP!TrampolineOutOfVM,
         T!NextContext, TP!NextContext
<1>3. [T!Next]_T!vars => [TP!Next]_TP!vars
  BY <1>2 DEF T!vars, TP!vars
<1>4. T!Spec => TP!Spec
  BY <1>1, <1>3, PTL DEF T!Spec, TP!Spec
<1>5. TP!Spec => []TP!IInv
  BY TP!Switching, VMNamesAssumption, InvokesAssumption
<1> QED
  BY <1>4, <1>5, PTL

DynTyped == dyn \in [Comps -> VMs \cup {None}]

(* A handle's _dyn is null or the VM that RunInternal yielded from.         *)
LEMMA DynIsTyped == Spec => []DynTyped
<1>1. Init => DynTyped
  BY DEF Init, DynTyped
<1>2. DynTyped /\ [Next]_vars => DynTyped'
  <2> SUFFICES ASSUME DynTyped, [Next]_vars PROVE DynTyped'
    OBVIOUS
  <2>1. ASSUME NEW h \in Hosts, RunInternal(h) PROVE DynTyped'
    BY <2>1 DEF RunInternal, DynTyped
  <2>2. ASSUME dyn' = dyn PROVE DynTyped'
    BY <2>2 DEF DynTyped
  <2> QED
    BY <2>1, <2>2
    DEF Next, OnVM, FreeCalls, CallFn, CreateVM, DestroyVM, Invoke,
        InvokeThrows, Execute, Cancel, Drop, vars, compVars
<1> QED
  BY <1>1, <1>2, PTL DEF Spec

(* Whatever a VM does to its VMThread is what a VMThread can do: Invoke,    *)
(* Execute, Cancel and RunInternal use the class as VMThread.tla says.      *)
THEOREM UsesThreads == Spec => T!Spec
<1>1. Init => T!Init
  BY DEF Init
<1>2. DynTyped /\ [Next]_vars => [T!Next]_T!vars
  <2> SUFFICES ASSUME DynTyped, [Next]_vars PROVE [T!Next]_T!vars
    OBVIOUS
  <2>1. ASSUME NEW h \in Hosts, NEW v \in VMs,
               T!Create(h, v) \/ T!Destroy(h, v) \/ T!Resume(h, v)
               \/ T!Stop(h, v) \/ T!FuncThrows(h) \/ T!Yield(h) \/ T!Finish(h)
        PROVE  T!Next
    BY <2>1 DEF T!Next
  <2>2. ASSUME NEW h \in Hosts, RunInternal(h) PROVE T!Next
    BY <2>1, <2>2 DEF RunInternal
  <2>3. ASSUME NEW h \in Hosts, CallFn(h) PROVE T!Next
    BY <2>1, <2>3 DEF CallFn
  <2>4. ASSUME NEW h \in Hosts, FreeCalls(h) PROVE [T!Next]_T!vars
    <3>1. ASSUME NEW v \in VMs, CreateVM(h, v) \/ DestroyVM(h, v) PROVE T!Next
      BY <2>1, <3>1 DEF CreateVM, DestroyVM
    <3>2. ASSUME NEW v \in VMs, NEW c \in Comps, Invoke(h, v, c) PROVE T!Next
      BY <2>1, <3>2 DEF Invoke
    <3>3. ASSUME NEW v \in VMs, NEW c \in Comps, InvokeThrows(h, v, c)
          PROVE  UNCHANGED T!vars
      BY <3>3 DEF InvokeThrows, threadVars, T!vars
    <3>4. ASSUME NEW c \in Comps, Execute(h, c) PROVE T!Next
      <4>1. dyn[c] \in VMs
        BY <3>4 DEF Execute, DynTyped
      <4> QED
        BY <2>1, <3>4, <4>1 DEF Execute
    <3> QED
      BY <2>4, <3>1, <3>2, <3>3, <3>4 DEF FreeCalls
  <2>5. ASSUME NEW h \in Hosts, NEW c \in Comps, Cancel(h, c) PROVE T!Next
    <3>1. dyn[c] \in VMs
      BY <2>5 DEF Cancel, DynTyped
    <3> QED
      BY <2>1, <2>5, <3>1 DEF Cancel
  <2>6. ASSUME NEW h \in Hosts, NEW c \in Comps, Drop(h, c)
        PROVE  UNCHANGED T!vars
    BY <2>6 DEF Drop, threadVars, T!vars
  <2>7. CASE UNCHANGED vars
    BY <2>7 DEF vars, threadVars, T!vars
  <2> QED
    BY <2>2, <2>3, <2>4, <2>5, <2>6, <2>7 DEF Next, OnVM
<1> QED
  BY <1>1, <1>2, DynIsTyped, PTL DEF Spec, T!Spec

(* What VMThreadProofs says of a VM's thread.                               *)
LEMMA Threads == Spec => []TP!IInv
  BY UsesThreads, SameThreads, PTL

-----------------------------------------------------------------------------
\* A computation nothing has happened to, and one that waits to be executed.
New(c) == /\ dyn[c] = None /\ result[c] = "default"
          /\ runs[c] = 0 /\ c \notin cancelled
Pending(c, v) == /\ memory[c] = "held" /\ dyn[c] = v /\ result[c] = "default"
                 /\ runs[c] = 0 /\ c \notin cancelled

(* Where a VM keeps the computation it has: on the way in its closure is in *)
(* _current_fn and its handle does not exist yet; after RunInternal's Yield *)
(* it is in the frame on the VM stack.                                      *)
OnTheWayIn(v) == /\ current_fn[v] \in Comps /\ fn[v] = None
                 /\ memory[current_fn[v]] = "held" /\ New(current_fn[v])
InTheFrame(v) == /\ current_fn[v] = None
                 /\ fn[v] \in Comps /\ Pending(fn[v], v)
Holding ==
  \A v \in VMs :
    /\ state[v] = "stopped" => current_fn[v] = None
    /\ state[v] = "suspended" => reached[v] # 0 /\ InTheFrame(v)
    /\ state[v] = "running" =>
         IF reached[v] = 0 THEN OnTheWayIn(v) ELSE InTheFrame(v)

(* The host that is in RunInternal is the one whose Invoke has the          *)
(* Computation, and no two VMs have one closure.                            *)
Invoking ==
  /\ \A h \in Hosts : current[h] # None /\ reached[current[h]] = 0 =>
       invoking[h] = current_fn[current[h]]
  /\ \A u, v \in VMs : current_fn[u] # None /\ current_fn[u] = current_fn[v] =>
       u = v

(* What is over never becomes pending again, and a handle that is not over  *)
(* leads to the VM whose frame has its computation.                         *)
Knowing ==
  \A c \in Comps :
    /\ memory[c] = "unborn" => New(c)
    /\ runs[c] > 0 => runs[c] = 1 /\ result[c] = "answer"
    /\ c \in cancelled => runs[c] = 0 /\ c \in asked
    /\ memory[c] = "held" /\ dyn[c] # None /\ ~Over(c) =>
         fn[dyn[c]] = c /\ state[dyn[c]] # "stopped"

IInv == /\ CompTypeOK /\ Holding /\ Invoking /\ Knowing
        /\ NoAssertFires /\ NoStrayWrite

(* The embedder's code runs on its own stack, outside every VM.             *)
LEMMA Outside ==
  ASSUME TP!IInv, NEW h \in Hosts, NEW v \in VMs, HostCalls(h, v)
  PROVE  /\ current[h] = None /\ state[v] # "running" /\ object[v] = "live"
         /\ \A g \in Hosts : current[g] # v
<1>1. cpu[h].stack = h /\ object[v] = "live"
      /\ \A g \in Hosts \ {h} : cpu[g].stack # v
  BY DEF HostCalls, T!MayUse
<1>2. \A g \in Hosts :
        cpu[g].stack = IF current[g] = None THEN g ELSE current[g]
  BY DEF TP!IInv, TP!RunningIsExecuting, TP!OnCurrentStack
<1>3. current[h] \in VMs \cup {None}
  BY DEF TP!IInv, TP!TypeOK
<1>4. current[h] = None
  BY <1>1, <1>2, <1>3, VMNamesAssumption
<1>5. \A g \in Hosts : current[g] # v
  BY <1>1, <1>2, <1>4, VMNamesAssumption
<1> QED
  BY <1>1, <1>4, <1>5 DEF TP!IInv, TP!RunningIsExecuting, TP!RunningSomewhere

(* A host on a VM stack is in the latest activation of that VM.             *)
LEMMA Inside ==
  ASSUME TP!IInv, NEW h \in Hosts, cpu[h].stack \in VMs
  PROVE  /\ current[h] = cpu[h].stack /\ current[h] # None
         /\ state[cpu[h].stack] = "running"
         /\ cpu[h].step = reached[cpu[h].stack]
         /\ \A g \in Hosts \ {h} : current[g] # cpu[h].stack
<1>1. current[h] = cpu[h].stack /\ current[h] # None
  BY VMNamesAssumption DEF TP!IInv, TP!RunningIsExecuting, TP!OnCurrentStack
<1>2. state[cpu[h].stack] = "running"
  BY <1>1 DEF TP!IInv, TP!RunningIsExecuting, TP!RunningSomewhere
<1>3. cpu[h].step = reached[cpu[h].stack]
  <2>1. cpu[h] = TP!ThreadContext(current[h], starts[current[h]],
                                  reached[current[h]])
    BY <1>1 DEF TP!IInv, TP!NoLostProgress
  <2> QED
    BY <1>1, <2>1 DEF TP!ThreadContext
<1>4. \A g \in Hosts \ {h} : current[g] # cpu[h].stack
  BY <1>1 DEF TP!IInv, TP!RunningIsExecuting, TP!OneHostEach
<1> QED
  BY <1>1, <1>2, <1>3, <1>4

(* The types of the VMThread variables the proofs below read.              *)
LEMMA ThreadTypes ==
  TP!IInv => /\ object \in [VMs -> {"unborn", "live", "destroyed"}]
             /\ state \in [VMs -> {"stopped", "suspended", "running"}]
             /\ current \in [Hosts -> VMs \cup {None}]
             /\ reached \in [VMs -> Nat]
BY DEF TP!IInv, TP!TypeOK

(* Invoke up to the switch: the closure is in _current_fn, and the host in  *)
(* a fresh activation.                                                      *)
LEMMA InvokeKeeps ==
  ASSUME IInv, TP!IInv, NEW h \in Hosts, NEW v \in VMs, NEW c \in Comps,
         Invoke(h, v, c)
  PROVE  IInv'
<1> USE ThreadTypes
<1>1. /\ memory[c] = "unborn" /\ New(c)
      /\ current_fn[v] = None /\ state[v] = "stopped"
      /\ current[h] = None /\ \A g \in Hosts : current[g] # v
  BY Outside DEF Invoke, Busy, IInv, Knowing
<1>2. /\ state' = [state EXCEPT ![v] = "running"]
      /\ current' = [current EXCEPT ![h] = v]
      /\ reached' = [reached EXCEPT ![v] = 0]
      /\ aborted' = aborted
  BY <1>1 DEF Invoke, T!Resume, T!TrampolineInToVM, T!NeedsEntry
<1>3. /\ current_fn' = [current_fn EXCEPT ![v] = c]
      /\ invoking' = [invoking EXCEPT ![h] = c]
      /\ memory' = [memory EXCEPT ![c] = "held"]
      /\ fn' = [fn EXCEPT ![v] = None]
      /\ UNCHANGED <<dyn, result, runs, asked, cancelled, stray>>
  BY DEF Invoke, histVars
<1>4. CompTypeOK'
  BY <1>3 DEF IInv, CompTypeOK
<1>5. \A u \in VMs : current_fn[u] # c /\ (state[u] # "stopped" => fn[u] # c)
  <2> SUFFICES ASSUME NEW u \in VMs
               PROVE  current_fn[u] # c /\ (state[u] # "stopped" => fn[u] # c)
    OBVIOUS
  <2>1. state[u] \in {"stopped", "suspended", "running"} /\ None # c
    BY VMNamesAssumption
  <2>2. current_fn[u] # c
    BY <1>1, <2>1 DEF IInv, Holding, OnTheWayIn, InTheFrame
  <2>3. InTheFrame(u) => fn[u] # c
    BY <1>1 DEF InTheFrame, Pending
  <2>4. OnTheWayIn(u) => fn[u] # c
    BY <2>1 DEF OnTheWayIn
  <2> QED
    BY <2>1, <2>2, <2>3, <2>4 DEF IInv, Holding
<1>6. Holding'
  <2>1. OnTheWayIn(v)' /\ state'[v] = "running" /\ reached'[v] = 0
    BY <1>1, <1>2, <1>3 DEF OnTheWayIn, New, IInv, CompTypeOK
  <2>2. ASSUME NEW u \in VMs \ {v}
        PROVE  /\ state'[u] = state[u] /\ reached'[u] = reached[u]
               /\ current_fn'[u] = current_fn[u]
               /\ OnTheWayIn(u) => OnTheWayIn(u)'
               /\ InTheFrame(u) => InTheFrame(u)'
    BY <1>2, <1>3 DEF OnTheWayIn, InTheFrame, New, Pending, IInv, CompTypeOK
  <2> QED
    BY <2>1, <2>2 DEF IInv, Holding
<1>7. Invoking'
  <2>1. \A g \in Hosts : current'[g] # None /\ reached'[current'[g]] = 0 =>
          invoking'[g] = current_fn'[current'[g]]
    BY <1>1, <1>2, <1>3 DEF IInv, Invoking, CompTypeOK
  <2>2. \A u, w \in VMs : current_fn'[u] # None
                          /\ current_fn'[u] = current_fn'[w] => u = w
    BY <1>3, <1>5 DEF IInv, Invoking, CompTypeOK
  <2> QED
    BY <2>1, <2>2 DEF Invoking
<1>8. Knowing'
  <2>1. ASSUME NEW d \in Comps, dyn[d] # None, memory[d] = "held", ~Over(d)
        PROVE  fn'[dyn[d]] = d /\ state'[dyn[d]] # "stopped"
    BY <1>1, <1>2, <1>3, <2>1 DEF IInv, Knowing, CompTypeOK
  <2>2. \A d \in Comps : d # c => memory'[d] = memory[d]
    BY <1>3 DEF IInv, CompTypeOK
  <2>3. dyn'[c] = None /\ memory'[c] = "held"
    BY <1>1, <1>3 DEF New, IInv, CompTypeOK
  <2>4. \A d \in Comps : New(d)' <=> New(d)
    BY <1>3 DEF New
  <2> QED
    BY <1>3, <2>1, <2>2, <2>3, <2>4 DEF IInv, Knowing, Over
<1> QED
  BY <1>2, <1>3, <1>4, <1>6, <1>7, <1>8 DEF IInv, NoAssertFires, NoStrayWrite

(* A refused Invoke frees a Computation nothing has happened to.            *)
LEMMA InvokeThrowsKeeps ==
  ASSUME IInv, TP!IInv, NEW h \in Hosts, NEW v \in VMs, NEW c \in Comps,
         InvokeThrows(h, v, c)
  PROVE  IInv'
<1>1. memory[c] = "unborn" /\ memory' = [memory EXCEPT ![c] = "freed"]
  BY DEF InvokeThrows
<1>2. /\ UNCHANGED <<state, current, reached, aborted, current_fn, fn>>
      /\ UNCHANGED <<invoking, dyn, result, runs, asked, cancelled, stray>>
  BY DEF InvokeThrows, threadVars, histVars
<1>3. CompTypeOK'
  BY <1>1, <1>2 DEF IInv, CompTypeOK
<1>4. Holding'
  <2>1. ASSUME NEW u \in VMs
        PROVE  /\ OnTheWayIn(u) => OnTheWayIn(u)'
               /\ InTheFrame(u) => InTheFrame(u)'
    BY <1>1, <1>2 DEF OnTheWayIn, InTheFrame, New, Pending, IInv, CompTypeOK
  <2> QED
    BY <1>2, <2>1 DEF IInv, Holding
<1>5. Invoking'
  BY <1>2 DEF IInv, Invoking
<1>6. Knowing'
  <2>1. \A d \in Comps : New(d)' <=> New(d)
    BY <1>2 DEF New
  <2>2. \A d \in Comps : memory'[d] = IF d = c THEN "freed" ELSE memory[d]
    BY <1>1 DEF IInv, CompTypeOK
  <2> QED
    BY <1>2, <2>1, <2>2 DEF IInv, Knowing, Over
<1> QED
  BY <1>2, <1>3, <1>4, <1>5, <1>6 DEF IInv, NoAssertFires, NoStrayWrite

(* RunInternal finds a closure, takes it into its frame and yields; the     *)
(* host's Invoke stores the handle.                                         *)
LEMMA RunInternalKeeps ==
  ASSUME IInv, TP!IInv, NEW h \in Hosts, RunInternal(h)
  PROVE  IInv'
<1> USE ThreadTypes
<1> DEFINE v == cpu[h].stack
           c == current_fn[v]
<1>1. /\ v \in VMs /\ current[h] = v /\ v # None /\ state[v] = "running"
      /\ reached[v] = 0 /\ \A g \in Hosts \ {h} : current[g] # v
  BY Inside DEF RunInternal
<1>2. OnTheWayIn(v) /\ c \in Comps /\ c # None /\ invoking[h] = c
  BY <1>1, VMNamesAssumption DEF IInv, Holding, OnTheWayIn, Invoking
<1>3. /\ current_fn' = [current_fn EXCEPT ![v] = None]
      /\ fn' = [fn EXCEPT ![v] = c]
      /\ dyn' = [dyn EXCEPT ![c] = v]
      /\ T!Yield(h)
      /\ UNCHANGED <<memory, result, runs, asked, cancelled, stray>>
      /\ invoking' = [invoking EXCEPT ![h] = None]
  BY <1>1, <1>2 DEF RunInternal, TakeFn, histVars
<1>4. /\ state' = [state EXCEPT ![v] = "suspended"]
      /\ current' = [current EXCEPT ![h] = None]
      /\ reached' = [reached EXCEPT ![v] = 1]
      /\ aborted' = aborted
  <2>1. /\ state' = [state EXCEPT ![current[h]] = "suspended"]
        /\ current' = [current EXCEPT ![h] = None]
        /\ reached' = [reached EXCEPT ![current[h]] = reached[current[h]] + 1]
        /\ aborted' = aborted
    BY <1>3 DEF T!Yield, T!TrampolineOutOfVM
  <2>2. current[h] = v /\ reached[current[h]] + 1 = 1
    BY <1>1
  <2> QED
    BY <2>1, <2>2
<1> HIDE DEF v, c
<1>5. CompTypeOK'
  BY <1>1, <1>2, <1>3 DEF IInv, CompTypeOK
<1>6. \A u \in VMs \ {v} : fn[u] = c => ~InTheFrame(u)
  BY <1>1, <1>2, VMNamesAssumption DEF OnTheWayIn, New, InTheFrame, Pending, c
<1>7. \A u \in VMs \ {v} : current_fn[u] # c
  BY <1>1, <1>2 DEF IInv, Invoking, c
<1>8. Holding'
  <2>1. ASSUME NEW u \in VMs, u = v
        PROVE  InTheFrame(u)' /\ state'[u] = "suspended" /\ reached'[u] # 0
    BY <1>1, <1>2, <1>3, <1>4, <2>1
    DEF OnTheWayIn, New, InTheFrame, Pending, IInv, CompTypeOK, c
  <2>2. ASSUME NEW u \in VMs \ {v}
        PROVE  /\ state'[u] = state[u] /\ reached'[u] = reached[u]
               /\ current_fn'[u] = current_fn[u] /\ fn'[u] = fn[u]
               /\ OnTheWayIn(u) => OnTheWayIn(u)'
               /\ InTheFrame(u) => InTheFrame(u)'
    BY <1>1, <1>2, <1>3, <1>4, <1>6, <1>7
    DEF OnTheWayIn, InTheFrame, New, Pending, IInv, CompTypeOK
  <2> QED
    BY <2>1, <2>2 DEF IInv, Holding
<1>9. Invoking'
  BY <1>1, <1>3, <1>4 DEF IInv, Invoking, CompTypeOK
<1>10. Knowing'
  <2>1. /\ dyn'[c] = v /\ memory'[c] = "held" /\ fn'[v] = c
        /\ state'[v] = "suspended" /\ runs[c] = 0 /\ c \notin cancelled
    BY <1>1, <1>2, <1>3, <1>4 DEF OnTheWayIn, New, IInv, CompTypeOK, c
  <2>2. ASSUME NEW d \in Comps \ {c}
        PROVE  dyn'[d] = dyn[d] /\ (New(d)' <=> New(d))
    BY <1>3 DEF New, IInv, CompTypeOK
  <2>3. ASSUME NEW d \in Comps \ {c}, dyn[d] # None, memory[d] = "held",
               ~Over(d)
        PROVE  fn'[dyn[d]] = d /\ state'[dyn[d]] # "stopped"
    <3>1. dyn[d] \in VMs /\ fn[dyn[d]] = d /\ state[dyn[d]] # "stopped"
      BY <2>3 DEF IInv, Knowing, CompTypeOK
    <3>2. dyn[d] # v
      BY <1>2, <3>1, VMNamesAssumption DEF OnTheWayIn
    <3> QED
      BY <1>1, <1>3, <1>4, <3>1, <3>2 DEF IInv, CompTypeOK
  <2> QED
    BY <1>3, <2>1, <2>2, <2>3 DEF IInv, Knowing, Over
<1> QED
  BY <1>3, <1>4, <1>5, <1>8, <1>9, <1>10 DEF IInv, NoAssertFires, NoStrayWrite

(* The function runs to its end: once, and into a Computation that is held. *)
LEMMA CallFnKeeps ==
  ASSUME IInv, TP!IInv, NEW h \in Hosts, CallFn(h)
  PROVE  IInv'
<1> USE ThreadTypes
<1> DEFINE v == cpu[h].stack
           c == fn[v]
<1>1. /\ v \in VMs /\ current[h] = v /\ v # None /\ state[v] = "running"
      /\ reached[v] # 0 /\ \A g \in Hosts \ {h} : current[g] # v
  BY Inside DEF CallFn
<1>2. InTheFrame(v) /\ c \in Comps /\ c # None
  BY <1>1, VMNamesAssumption DEF IInv, Holding, InTheFrame
<1>3. memory[c] = "held" /\ dyn[c] = v /\ runs[c] = 0 /\ c \notin cancelled
  BY <1>2 DEF InTheFrame, Pending
<1>4. /\ result' = [result EXCEPT ![c] = "answer"]
      /\ runs' = [runs EXCEPT ![c] = 1]
      /\ fn' = [fn EXCEPT ![v] = None]
      /\ T!Finish(h)
      /\ UNCHANGED <<current_fn, invoking, memory, dyn, asked, cancelled, stray>>
  BY <1>3 DEF CallFn
<1>5. /\ state' = [state EXCEPT ![v] = "stopped"]
      /\ current' = [current EXCEPT ![h] = None]
      /\ UNCHANGED <<reached, aborted>>
  BY <1>1, <1>4 DEF T!Finish, T!TrampolineOutOfVM
<1> HIDE DEF v, c
<1>6. CompTypeOK'
  BY <1>1, <1>2, <1>4 DEF IInv, CompTypeOK
<1>7. Holding'
  <2>1. state'[v] = "stopped" /\ current_fn'[v] = None
    BY <1>1, <1>2, <1>4, <1>5 DEF InTheFrame
  <2>2. ASSUME NEW u \in VMs \ {v}
        PROVE  /\ state'[u] = state[u] /\ reached'[u] = reached[u]
               /\ current_fn'[u] = current_fn[u] /\ fn'[u] = fn[u]
               /\ OnTheWayIn(u) => OnTheWayIn(u)'
               /\ InTheFrame(u) => InTheFrame(u)'
    BY <1>1, <1>2, <1>3, <1>4, <1>5, VMNamesAssumption
    DEF OnTheWayIn, InTheFrame, New, Pending, IInv, CompTypeOK
  <2> QED
    BY <2>1, <2>2 DEF IInv, Holding
<1>8. Invoking'
  BY <1>1, <1>4, <1>5 DEF IInv, Invoking
<1>9. Knowing'
  <2>1. /\ runs'[c] = 1 /\ result'[c] = "answer" /\ memory'[c] = "held"
        /\ c \notin cancelled'
    BY <1>2, <1>3, <1>4 DEF IInv, CompTypeOK
  <2>2. ASSUME NEW d \in Comps \ {c}
        PROVE  runs'[d] = runs[d] /\ result'[d] = result[d] /\ (New(d)' <=> New(d))
    BY <1>4 DEF New, IInv, CompTypeOK
  <2>3. ASSUME NEW d \in Comps \ {c}, dyn[d] # None, memory[d] = "held",
               ~Over(d)
        PROVE  fn'[dyn[d]] = d /\ state'[dyn[d]] # "stopped"
    <3>1. dyn[d] \in VMs /\ fn[dyn[d]] = d /\ state[dyn[d]] # "stopped"
      BY <2>3 DEF IInv, Knowing, CompTypeOK
    <3>2. dyn[d] # v
      BY <3>1 DEF c
    <3> QED
      BY <1>1, <1>4, <1>5, <3>1, <3>2 DEF IInv, CompTypeOK
  <2> QED
    BY <1>4, <2>1, <2>2, <2>3 DEF IInv, Knowing, Over
<1> QED
  BY <1>4, <1>5, <1>6, <1>7, <1>8, <1>9 DEF IInv, NoAssertFires, NoStrayWrite

(* Execute lets the activation in the frame continue.                       *)
LEMMA ExecuteKeeps ==
  ASSUME IInv, TP!IInv, NEW h \in Hosts, NEW c \in Comps, Execute(h, c)
  PROVE  IInv'
<1> USE ThreadTypes
<1>1. PICK v \in VMs : v = dyn[c] /\ HostCalls(h, v) /\ T!Resume(h, v)
                       /\ state[v] = "suspended"
  BY DEF Execute, Executes, IInv, CompTypeOK
<1>2. /\ current[h] = None /\ \A g \in Hosts : current[g] # v
      /\ reached[v] # 0 /\ InTheFrame(v)
  BY <1>1, Outside DEF IInv, Holding
<1>3. /\ state' = [state EXCEPT ![v] = "running"]
      /\ current' = [current EXCEPT ![h] = v]
      /\ reached' = reached
      /\ aborted' = aborted
  <2>1. /\ state' = [state EXCEPT ![v] = "running"]
        /\ current' = [current EXCEPT ![h] = v]
        /\ reached' = [reached EXCEPT ![v] = reached[v]]
        /\ aborted' = aborted
    BY <1>1 DEF T!Resume, T!TrampolineInToVM, T!NeedsEntry
  <2> QED
    BY <2>1
<1>4. /\ UNCHANGED <<current_fn, fn, invoking, memory, dyn, result>>
      /\ UNCHANGED <<runs, asked, cancelled, stray>>
  BY DEF Execute, compVars, histVars
<1>5. CompTypeOK'
  BY <1>4 DEF IInv, CompTypeOK
<1>6. Holding'
  <2>1. \A u \in VMs : /\ OnTheWayIn(u)' <=> OnTheWayIn(u)
                       /\ InTheFrame(u)' <=> InTheFrame(u)
    BY <1>4 DEF OnTheWayIn, InTheFrame, New, Pending
  <2> QED
    BY <1>2, <1>3, <1>4, <2>1 DEF IInv, Holding
<1>7. Invoking'
  BY <1>2, <1>3, <1>4 DEF IInv, Invoking
<1>8. Knowing'
  <2>1. \A d \in Comps : (New(d)' <=> New(d)) /\ (Over(d)' <=> Over(d))
    BY <1>4 DEF New, Over
  <2>2. \A u \in VMs : state[u] # "stopped" => state'[u] # "stopped"
    BY <1>3
  <2> QED
    BY <1>4, <2>1, <2>2 DEF IInv, Knowing, CompTypeOK
<1> QED
  BY <1>3, <1>4, <1>5, <1>6, <1>7, <1>8 DEF IInv, NoAssertFires, NoStrayWrite

(* Cancelling what is not over stops the activation that has it.            *)
LEMMA CancelKeeps ==
  ASSUME IInv, TP!IInv, NEW h \in Hosts, NEW c \in Comps, ~Over(c),
         Cancel(h, c)
  PROVE  IInv'
<1> USE ThreadTypes
<1>1. PICK v \in VMs : v = dyn[c] /\ HostCalls(h, v) /\ T!Stop(h, v)
                       /\ state[v] = "suspended" /\ memory[c] = "held"
  BY DEF Cancel, IInv, CompTypeOK
<1>2. /\ \A g \in Hosts : current[g] # v
      /\ reached[v] # 0 /\ InTheFrame(v) /\ fn[v] = c /\ runs[c] = 0
  <2>1. fn[v] = c /\ v # None
    BY <1>1, VMNamesAssumption DEF IInv, Knowing
  <2> QED
    BY <1>1, <2>1, Outside DEF IInv, Holding, InTheFrame, Pending
<1>3. /\ state' = [state EXCEPT ![v] = "stopped"]
      /\ UNCHANGED <<current, reached, aborted>>
  BY <1>1 DEF T!Stop
<1>4. /\ UNCHANGED <<current_fn, fn, invoking, memory, dyn, result>>
      /\ UNCHANGED <<runs, stray>>
      /\ asked' = asked \cup {c} /\ cancelled' = cancelled \cup {c}
  BY <1>1, <1>2 DEF Cancel, compVars
<1>5. CompTypeOK'
  BY <1>4 DEF IInv, CompTypeOK
<1>6. \A d \in Comps \ {c} : (New(d)' <=> New(d)) /\ (Over(d)' <=> Over(d))
  BY <1>4 DEF New, Over
<1>7. Holding'
  <2>1. state'[v] = "stopped" /\ current_fn'[v] = None
    BY <1>2, <1>3, <1>4 DEF InTheFrame
  <2>2. ASSUME NEW u \in VMs \ {v}
        PROVE  /\ state'[u] = state[u]
               /\ OnTheWayIn(u) => OnTheWayIn(u)'
               /\ InTheFrame(u) => InTheFrame(u)'
    <3>1. OnTheWayIn(u) => current_fn[u] # c
      BY <1>1, VMNamesAssumption DEF OnTheWayIn, New
    <3>2. InTheFrame(u) => fn[u] # c
      BY <1>1 DEF InTheFrame, Pending
    <3> QED
      BY <1>3, <1>4, <3>1, <3>2 DEF OnTheWayIn, InTheFrame, New, Pending
  <2> QED
    BY <1>3, <1>4, <2>1, <2>2 DEF IInv, Holding
<1>8. Invoking'
  BY <1>3, <1>4 DEF IInv, Invoking
<1>9. Knowing'
  <2>1. Over(c)'
    BY <1>4 DEF Over
  <2>2. ASSUME NEW d \in Comps \ {c}, memory[d] = "held", dyn[d] # None,
               ~Over(d)
        PROVE  fn[dyn[d]] = d /\ state'[dyn[d]] # "stopped"
    <3>1. dyn[d] \in VMs /\ fn[dyn[d]] = d /\ state[dyn[d]] # "stopped"
      BY <2>2 DEF IInv, Knowing, CompTypeOK
    <3> QED
      BY <1>2, <1>3, <3>1
  <2> QED
    BY <1>1, <1>2, <1>4, <1>6, <2>1, <2>2 DEF IInv, Knowing
<1> QED
  BY <1>3, <1>4, <1>5, <1>7, <1>8, <1>9 DEF IInv, NoAssertFires, NoStrayWrite

(* The embedder gives up only what is over, and no VM has that any more.    *)
LEMMA DropKeeps ==
  ASSUME IInv, NEW h \in Hosts, NEW c \in Comps, Over(c), Drop(h, c)
  PROVE  IInv'
<1>1. memory' = [memory EXCEPT ![c] = "freed"]
  BY DEF Drop
<1>2. /\ UNCHANGED <<state, current, reached, aborted, current_fn, fn>>
      /\ UNCHANGED <<invoking, dyn, result, runs, asked, cancelled, stray>>
  BY DEF Drop, threadVars, histVars
<1>3. CompTypeOK'
  BY <1>1, <1>2 DEF IInv, CompTypeOK
<1>4. ~New(c) /\ \A v \in VMs : ~Pending(c, v)
  BY DEF IInv, CompTypeOK, Over, New, Pending
<1>5. Holding'
  <2>1. ASSUME NEW u \in VMs
        PROVE  /\ OnTheWayIn(u) => OnTheWayIn(u)'
               /\ InTheFrame(u) => InTheFrame(u)'
    BY <1>1, <1>2, <1>4
    DEF OnTheWayIn, InTheFrame, New, Pending, IInv, CompTypeOK
  <2> QED
    BY <1>2, <2>1 DEF IInv, Holding
<1>6. Invoking'
  BY <1>2 DEF IInv, Invoking
<1>7. Knowing'
  <2>1. \A d \in Comps : (New(d)' <=> New(d)) /\ (Over(d)' <=> Over(d))
    BY <1>2 DEF New, Over
  <2>2. \A d \in Comps : memory'[d] = IF d = c THEN "freed" ELSE memory[d]
    BY <1>1 DEF IInv, CompTypeOK
  <2> QED
    BY <1>2, <2>1, <2>2 DEF IInv, Knowing
<1> QED
  BY <1>2, <1>3, <1>5, <1>6, <1>7 DEF IInv, NoAssertFires, NoStrayWrite

(* A VM that no host is in may be destroyed: the assertion holds.           *)
LEMMA DestroyVMKeeps ==
  ASSUME IInv, TP!IInv, NEW h \in Hosts, NEW v \in VMs, DestroyVM(h, v)
  PROVE  UNCHANGED <<state, current, reached, aborted>>
<1>1. HostCalls(h, v)
  BY DEF DestroyVM, HostCalls, T!Destroy
<1>2. T!MayDestroy(h, v)
  BY <1>1, Outside DEF T!MayDestroy
<1> QED
  BY <1>2 DEF DestroyVM, T!Destroy

(* Steps that touch no computation and switch no stack.                     *)
LEMMA StutterKeeps ==
  ASSUME IInv,
         UNCHANGED <<state, current, reached, aborted, current_fn, fn,
                     invoking, memory, dyn, result, runs, asked, cancelled,
                     stray>>
  PROVE  IInv'
<1>1. CompTypeOK'
  BY DEF IInv, CompTypeOK
<1>2. Holding'
  BY DEF IInv, Holding, OnTheWayIn, InTheFrame, New, Pending
<1>3. Invoking'
  BY DEF IInv, Invoking
<1>4. Knowing'
  BY DEF IInv, Knowing, New, Over
<1> QED
  BY <1>1, <1>2, <1>3, <1>4 DEF IInv, NoAssertFires, NoStrayWrite

-----------------------------------------------------------------------------
(* No VM has a computation at first.                                       *)
LEMMA InitHolds == Init => IInv
<1> SUFFICES ASSUME Init PROVE IInv
  OBVIOUS
<1>1. CompTypeOK
  BY DEF Init, CompTypeOK
<1>2. Holding
  BY DEF Init, T!Init, Holding
<1>3. Invoking
  BY DEF Init, T!Init, Invoking
<1>4. Knowing
  BY DEF Init, Knowing, New
<1> QED
  BY <1>1, <1>2, <1>3, <1>4 DEF Init, T!Init, IInv, NoAssertFires, NoStrayWrite

(* Every step of the embedder and of RunInternal keeps IInv.               *)
LEMMA StepKeeps == IInv /\ TP!IInv /\ [Next]_vars => IInv'
<1> SUFFICES ASSUME IInv, TP!IInv, [Next]_vars PROVE IInv'
  OBVIOUS
<1>1. ASSUME NEW h \in Hosts, NEW v \in VMs, CreateVM(h, v) \/ DestroyVM(h, v)
      PROVE  IInv'
  <2>1. UNCHANGED <<state, current, reached, aborted>>
    BY <1>1, DestroyVMKeeps DEF CreateVM, T!Create
  <2>2. UNCHANGED <<current_fn, fn, invoking, memory, dyn, result, runs, asked,
                    cancelled, stray>>
    BY <1>1 DEF CreateVM, DestroyVM, compVars, histVars
  <2> QED
    BY <2>1, <2>2, StutterKeeps
<1>2. CASE UNCHANGED vars
  BY <1>2, StutterKeeps DEF vars, threadVars, compVars, histVars
<1> QED
  BY <1>1, <1>2, InvokeKeeps, InvokeThrowsKeeps, RunInternalKeeps, CallFnKeeps,
     ExecuteKeeps, CancelKeeps, DropKeeps
  DEF Next, OnVM, FreeCalls

(* The inductive invariant of a VM: where the computation it has is kept,   *)
(* and that a handle and the VM it leads to agree on what is still to run.  *)
THEOREM VMInvariant == Spec => []IInv
BY InitHolds, StepKeeps, Threads, PTL DEF Spec

(* A VMThread that no host is on is not running.                            *)
LEMMA LeftAlone ==
  ASSUME TP!IInv, NEW v \in VMs, \A h \in Hosts : cpu[h].stack # v
  PROVE  state[v] \in {"stopped", "suspended"}
<1>1. \A h \in Hosts : current[h] # v
  BY VMNamesAssumption DEF TP!IInv, TP!RunningIsExecuting, TP!OnCurrentStack
<1>2. state[v] # "running"
  BY <1>1 DEF TP!IInv, TP!RunningIsExecuting, TP!RunningSomewhere
<1> QED
  BY <1>2, ThreadTypes

(* vm.cc:53 and thread.cc:110: no assertion of the VM or of its thread      *)
(* fires.                                                                   *)
THEOREM NoAssertFiresHolds == Spec => []NoAssertFires
BY VMInvariant, PTL DEF IInv

(* A closure runs at most once, and not after its activation was cancelled. *)
THEOREM RunsOnceHolds == Spec => []RunsOnce
<1>1. IInv => RunsOnce
  <2> SUFFICES ASSUME IInv, NEW c \in Comps
               PROVE  runs[c] <= 1 /\ (c \in cancelled => runs[c] = 0)
    BY DEF RunsOnce
  <2>1. runs[c] \in Nat
    BY DEF IInv, CompTypeOK
  <2> QED
    BY <2>1 DEF IInv, Knowing
<1> QED
  BY <1>1, VMInvariant, PTL

(* The pointer captured by the closure (vm.h:80-84) is valid when the       *)
(* result is written through it.                                            *)
THEOREM NoStrayWriteHolds == Spec => []NoStrayWrite
BY VMInvariant, PTL DEF IInv

(* Every variable is typed, and a VM that no host is in can take up work:   *)
(* nothing is in _current_fn, and what it suspended still has its handle.   *)
THEOREM NeverStrandedHolds == Spec => []NeverStranded
<1>1. IInv /\ TP!IInv => NeverStranded
  <2> SUFFICES ASSUME IInv, TP!IInv PROVE NeverStranded
    OBVIOUS
  <2>1. TypeOK
    BY DEF TypeOK, IInv, TP!IInv, TP!TypeOK, T!TypeOK, TP!Contexts, T!Contexts
  <2>2. ASSUME NEW v \in VMs, \A h \in Hosts : cpu[h].stack # v
        PROVE  /\ current_fn[v] = None
               /\ state[v] = "suspended" =>
                    memory[fn[v]] = "held" /\ dyn[fn[v]] = v
    <3>1. state[v] \in {"stopped", "suspended"}
      BY <2>2, LeftAlone
    <3> QED
      BY <3>1 DEF IInv, Holding, InTheFrame, Pending
  <2> QED
    BY <2>1, <2>2 DEF NeverStranded
<1> QED
  BY <1>1, VMInvariant, Threads, PTL

(* IsDone is true of a computation nobody cancelled only when its result    *)
(* is there (function_handle.h:90, 96-97).                                  *)
THEOREM DoneMeansAnsweredHolds == Spec => []DoneMeansAnswered
<1>1. IInv => DoneMeansAnswered
  <2> SUFFICES ASSUME IInv, NEW c \in Comps, CanAsk(c), IsDone(c), c \notin asked
               PROVE  result[c] = "answer"
    BY DEF DoneMeansAnswered
  <2>1. Over(c)
    BY DEF IInv, Knowing, CanAsk, IsDone
  <2>2. c \notin cancelled
    BY DEF IInv, Knowing
  <2> QED
    BY <2>1, <2>2 DEF IInv, Knowing, Over
<1> QED
  BY <1>1, VMInvariant, PTL

-----------------------------------------------------------------------------
(* The refinement of Computations.  Where the closure of a computation is.  *)
Closure ==
  \A c \in Comps, v \in VMs :
    /\ current_fn[v] = c =>
         /\ state[v] = "running" /\ OnTheWayIn(v) /\ On(c) = v
         /\ \A u \in VMs : fn[u] = c => state[u] = "stopped"
    /\ fn[v] = c /\ state[v] # "stopped" => InTheFrame(v) /\ On(c) = v

(* The abstract state of a computation, read off the VM.                    *)
ReadsAs ==
  \A c \in Comps :
    /\ memory[c] = "unborn" => Status(c) = "idle" /\ ~Live(c)
    /\ Live(c) => Status(c) = "live"
    /\ memory[c] # "unborn" /\ ~Live(c) =>
         Status(c) = IF result[c] = "answer" THEN "finished" ELSE "void"

StateTyped == state \in [VMs -> {"stopped", "suspended", "running"}]

(* A closure is in one place only.                                         *)
LEMMA ClosureHolds == IInv /\ StateTyped => Closure
<1> SUFFICES ASSUME IInv, StateTyped, NEW c \in Comps, NEW v \in VMs
             PROVE  /\ current_fn[v] = c =>
                       /\ state[v] = "running" /\ OnTheWayIn(v) /\ On(c) = v
                       /\ \A u \in VMs : fn[u] = c => state[u] = "stopped"
                    /\ fn[v] = c /\ state[v] # "stopped" =>
                         InTheFrame(v) /\ On(c) = v
  BY DEF Closure
<1>1. c # None
  BY VMNamesAssumption
<1>2. \A u \in VMs : state[u] \in {"stopped", "suspended", "running"}
  BY DEF StateTyped
<1>3. \A u \in VMs : current_fn[u] = c => state[u] = "running" /\ OnTheWayIn(u)
  BY <1>1, <1>2 DEF IInv, Holding, InTheFrame
<1>4. \A u \in VMs : fn[u] = c /\ state[u] # "stopped" => InTheFrame(u)
  BY <1>1, <1>2 DEF IInv, Holding, OnTheWayIn
<1>5. ASSUME NEW u \in VMs, NEW w \in VMs, current_fn[u] = c, fn[w] = c,
             state[w] # "stopped"
      PROVE  FALSE
  <2>1. dyn[c] = None
    BY <1>3, <1>5 DEF OnTheWayIn, New
  <2>2. dyn[c] = w
    BY <1>4, <1>5 DEF InTheFrame, Pending
  <2> QED
    BY <2>1, <2>2, VMNamesAssumption
<1>6. current_fn[v] = c => On(c) = v
  <2> SUFFICES ASSUME current_fn[v] = c PROVE On(c) = v
    OBVIOUS
  <2>1. \A u \in VMs : current_fn[u] = c => u = v
    BY <1>1 DEF IInv, Invoking
  <2>2. (CHOOSE u \in VMs : current_fn[u] = c) = v
    BY <2>1
  <2> QED
    BY <2>2 DEF On
<1>7. fn[v] = c /\ state[v] # "stopped" => On(c) = v
  BY <1>4, <1>5 DEF On, InTheFrame, Pending
<1> QED
  BY <1>3, <1>4, <1>5, <1>6, <1>7

(* The conditions of Status exclude each other.                            *)
LEMMA ReadsAsHolds == IInv /\ StateTyped => ReadsAs
<1> SUFFICES ASSUME IInv, StateTyped, NEW c \in Comps
             PROVE  /\ memory[c] = "unborn" => Status(c) = "idle" /\ ~Live(c)
                    /\ Live(c) => Status(c) = "live"
                    /\ memory[c] # "unborn" /\ ~Live(c) =>
                         Status(c) = IF result[c] = "answer" THEN "finished"
                                                             ELSE "void"
  BY DEF ReadsAs
<1>1. Closure
  BY ClosureHolds
<1>2. Live(c) => memory[c] = "held" /\ result[c] = "default"
  BY <1>1 DEF Live, Closure, OnTheWayIn, InTheFrame, New, Pending
<1>3. ASSUME memory[c] = "unborn" PROVE Status(c) = "idle" /\ ~Live(c)
  <2>1. ~Live(c) /\ result[c] # "answer"
    BY <1>2, <1>3 DEF IInv, Knowing, New
  <2> QED
    BY <1>3, <2>1, Zenon DEF Status
<1>4. ASSUME Live(c) PROVE Status(c) = "live"
  <2>1. memory[c] # "unborn" /\ result[c] # "answer"
    BY <1>2, <1>4
  <2> QED
    BY <1>4, <2>1, Zenon DEF Status
<1>5. ASSUME memory[c] # "unborn", ~Live(c)
      PROVE  Status(c) = IF result[c] = "answer" THEN "finished" ELSE "void"
  BY <1>5, Zenon DEF Status
<1> QED
  BY <1>3, <1>4, <1>5

(* Computations whose closure, memory and result a step leaves alone keep   *)
(* their abstract state.                                                    *)
Same(c) == Status(c)' = Status(c) /\ On(c)' = On(c)
SameLive(c) == Live(c)' <=> Live(c)

(* It is enough that the closure stays where it was.                       *)
LEMMA KeepsSame ==
  ASSUME NEW c \in Comps, SameLive(c), dyn'[c] = dyn[c],
         result'[c] = result[c],
         \/ memory'[c] = memory[c]
         \/ memory[c] = "held" /\ memory'[c] = "freed",
         \A v \in VMs : current_fn'[v] = c <=> current_fn[v] = c
  PROVE  Same(c)
<1>1. Status(c)' = Status(c)
  BY DEF Status, SameLive
<1>2. On(c)' = On(c)
  <2>1. (\E v \in VMs : current_fn'[v] = c) <=> \E v \in VMs : current_fn[v] = c
    OBVIOUS
  <2>2. (CHOOSE v \in VMs : current_fn'[v] = c)
          = CHOOSE v \in VMs : current_fn[v] = c
    OBVIOUS
  <2> QED
    BY <2>1, <2>2 DEF On
<1> QED
  BY <1>1, <1>2 DEF Same

(* What is known at both ends of a step.                                    *)
Reading == IInv /\ TP!IInv /\ Closure /\ ReadsAs

(* All of it holds of every state.                                         *)
LEMMA ReadingHolds == Spec => []Reading
<1>1. IInv /\ TP!IInv => Reading
  BY ThreadTypes, ClosureHolds, ReadsAsHolds DEF Reading, StateTyped
<1> QED
  BY <1>1, VMInvariant, Threads, PTL

(* A step that changes one computation's abstract state.                    *)
LEMMA OneChanges ==
  ASSUME NEW c \in Comps, NEW s, Status(c)' = s, On(c)' = On(c),
         \A d \in Comps \ {c} : Same(d)
  PROVE  /\ [d \in Comps |-> Status(d)]'
              = [[d \in Comps |-> Status(d)] EXCEPT ![c] = s]
         /\ UNCHANGED [d \in Comps |-> On(d)]
BY DEF Same

(* The embedder's abstract view of a VM: it has a live computation exactly  *)
(* if Invoke would refuse another one.                                      *)
LEMMA BusyIsBusy ==
  ASSUME Reading, NEW h \in Hosts, NEW v \in VMs, HostCalls(h, v)
  PROVE  Promise!Busy(v) <=> Busy(v)
<1>1. state[v] \in {"stopped", "suspended"}
  BY Outside, ThreadTypes DEF Reading
<1>2. current_fn[v] = None
  BY <1>1 DEF Reading, IInv, Holding, InTheFrame
<1>3. ASSUME Busy(v) PROVE Promise!Busy(v)
  <2>1. state[v] = "suspended"
    BY <1>1, <1>2, <1>3 DEF Busy
  <2>2. fn[v] \in Comps
    BY <2>1 DEF Reading, IInv, Holding, InTheFrame
  <2>3. Live(fn[v]) /\ On(fn[v]) = v
    BY <2>1, <2>2 DEF Live, Reading, Closure
  <2> QED
    BY <2>2, <2>3 DEF Promise!Busy, Reading, ReadsAs
<1>4. ASSUME Promise!Busy(v) PROVE Busy(v)
  <2>1. PICK c \in Comps : Status(c) = "live" /\ On(c) = v
    BY <1>4 DEF Promise!Busy
  <2>2. Live(c)
    BY <2>1 DEF Reading, ReadsAs
  <2>3. PICK u \in VMs : current_fn[u] = c \/ (fn[u] = c /\ state[u] # "stopped")
    BY <2>2 DEF Live
  <2>4. On(c) = u
    BY <2>3 DEF Reading, Closure
  <2>5. c # None
    BY VMNamesAssumption
  <2> QED
    BY <1>2, <2>1, <2>3, <2>4, <2>5 DEF Busy
<1> QED
  BY <1>3, <1>4

(* Invoke accepts: the VM is not busy, and the new computation is.          *)
LEMMA InvokeAccepts ==
  ASSUME Reading, Reading', NEW h \in Hosts, NEW v \in VMs, NEW c \in Comps,
         Invoke(h, v, c)
  PROVE  Promise!Accept(c, v)
<1> USE ThreadTypes
<1>1. /\ memory[c] = "unborn" /\ ~Busy(v) /\ HostCalls(h, v)
      /\ T!Resume(h, v)
      /\ current_fn' = [current_fn EXCEPT ![v] = c]
      /\ memory' = [memory EXCEPT ![c] = "held"]
      /\ fn' = [fn EXCEPT ![v] = None]
      /\ dyn' = dyn /\ result' = result
  BY DEF Invoke
<1>2. /\ state[v] = "stopped" /\ current_fn[v] = None
      /\ state' = [state EXCEPT ![v] = "running"]
  BY <1>1 DEF Busy, T!Resume, Reading
<1>3. Status(c) = "idle" /\ ~Promise!Busy(v)
  BY <1>1, BusyIsBusy DEF Reading, ReadsAs
<1>4. Status(c)' = "live" /\ On(c)' = v
  <2>1. current_fn'[v] = c
    BY <1>1 DEF Reading, IInv, CompTypeOK
  <2>2. Live(c)'
    BY <2>1 DEF Live
  <2> QED
    BY <2>1, <2>2 DEF Reading, ReadsAs, Closure
<1>5. ASSUME NEW d \in Comps \ {c} PROVE Same(d)
  <2>1. d # None
    BY VMNamesAssumption
  <2>2. \A u \in VMs : current_fn'[u] = d <=> current_fn[u] = d
    BY <1>1, <1>2, <2>1 DEF Reading, IInv, CompTypeOK
  <2>3. \A u \in VMs : fn'[u] = d /\ state'[u] # "stopped"
                         <=> fn[u] = d /\ state[u] # "stopped"
    BY <1>1, <1>2, <2>1 DEF Reading, IInv, CompTypeOK
  <2>4. SameLive(d)
    BY <2>2, <2>3 DEF Live, SameLive
  <2>5. memory'[d] = memory[d] /\ dyn'[d] = dyn[d] /\ result'[d] = result[d]
    BY <1>1 DEF Reading, IInv, CompTypeOK
  <2> QED
    BY <2>2, <2>4, <2>5, KeepsSame
<1> QED
  BY <1>3, <1>4, <1>5 DEF Promise!Accept, Same

(* Invoke throws: the VM is busy, and the Computation never counts.         *)
LEMMA InvokeRefuses ==
  ASSUME Reading, Reading', NEW h \in Hosts, NEW v \in VMs, NEW c \in Comps,
         InvokeThrows(h, v, c)
  PROVE  Promise!Refuse(c, v)
<1>1. /\ memory[c] = "unborn" /\ Busy(v) /\ HostCalls(h, v)
      /\ memory' = [memory EXCEPT ![c] = "freed"]
      /\ UNCHANGED <<state, current_fn, fn, dyn, result>>
  BY DEF InvokeThrows, threadVars
<1>2. Status(c) = "idle" /\ Promise!Busy(v) /\ ~Live(c) /\ result[c] = "default"
  BY <1>1, BusyIsBusy DEF Reading, ReadsAs, IInv, Knowing, New
<1>3. \A d \in Comps : SameLive(d) /\ On(d)' = On(d)
  BY <1>1 DEF SameLive, Live, On
<1>4. Status(c)' = "void"
  <2>1. ~Live(c)' /\ result'[c] # "answer"
    BY <1>1, <1>2, <1>3 DEF SameLive
  <2>2. memory'[c] # "unborn"
    BY <1>1 DEF Reading, IInv, CompTypeOK
  <2> QED
    BY <2>1, <2>2 DEF Reading, ReadsAs
<1>5. ASSUME NEW d \in Comps \ {c} PROVE Same(d)
  <2>1. memory'[d] = memory[d]
    BY <1>1 DEF Reading, IInv, CompTypeOK
  <2> QED
    BY <1>1, <1>3, <2>1, KeepsSame
<1> QED
  BY <1>2, <1>3, <1>4, <1>5, OneChanges DEF Promise!Refuse

(* RunInternal moves the closure from _current_fn to its frame: the         *)
(* embedder sees nothing of it.                                             *)
LEMMA RunInternalUnseen ==
  ASSUME Reading, Reading', NEW h \in Hosts, RunInternal(h)
  PROVE  \A d \in Comps : Same(d)
<1> USE ThreadTypes
<1>1. PICK v \in VMs : v = cpu[h].stack
  BY DEF RunInternal
<1>2. /\ current[h] = v /\ v # None /\ state[v] = "running" /\ reached[v] = 0
  BY <1>1, Inside DEF RunInternal, Reading
<1>3. PICK c \in Comps : /\ c = current_fn[v] /\ invoking[h] = c /\ c # None
                         /\ OnTheWayIn(v)
  BY <1>2, VMNamesAssumption
  DEF Reading, IInv, Holding, OnTheWayIn, Invoking
<1>4. /\ current_fn' = [current_fn EXCEPT ![v] = None]
      /\ fn' = [fn EXCEPT ![v] = c]
      /\ dyn' = [dyn EXCEPT ![c] = v]
      /\ T!Yield(h)
      /\ memory' = memory /\ result' = result
  BY <1>1, <1>3 DEF RunInternal, TakeFn
<1>5. state' = [state EXCEPT ![v] = "suspended"]
  BY <1>2, <1>4 DEF T!Yield
<1>6. current_fn'[v] = None /\ fn'[v] = c /\ state'[v] = "suspended"
  BY <1>4, <1>5 DEF Reading, IInv, CompTypeOK
<1>7. \A u \in VMs \ {v} : /\ current_fn'[u] = current_fn[u]
                           /\ fn'[u] = fn[u] /\ state'[u] = state[u]
  BY <1>4, <1>5 DEF Reading, IInv, CompTypeOK
<1>8. Same(c)
  <2>1. Live(c) /\ On(c) = v
    BY <1>3 DEF Live, Reading, Closure
  <2>2. Live(c)' /\ On(c)' = v
    BY <1>6 DEF Live, Reading, Closure
  <2> QED
    BY <2>1, <2>2 DEF Reading, ReadsAs, Same
<1>9. ASSUME NEW d \in Comps \ {c} PROVE Same(d)
  <2>1. d # None /\ fn[v] = None /\ current_fn[v] # d
    BY <1>3, VMNamesAssumption DEF OnTheWayIn
  <2>2. \A u \in VMs : current_fn'[u] = d <=> current_fn[u] = d
    BY <1>6, <1>7, <2>1
  <2>3. \A u \in VMs : fn'[u] = d /\ state'[u] # "stopped"
                         <=> fn[u] = d /\ state[u] # "stopped"
    BY <1>6, <1>7, <2>1
  <2>4. SameLive(d)
    BY <2>2, <2>3 DEF Live, SameLive
  <2>5. memory'[d] = memory[d] /\ dyn'[d] = dyn[d] /\ result'[d] = result[d]
    BY <1>4 DEF Reading, IInv, CompTypeOK
  <2> QED
    BY <2>2, <2>4, <2>5, KeepsSame
<1> QED
  BY <1>8, <1>9

(* CallFn finishes the computation in the frame.                            *)
LEMMA CallFnFinishes ==
  ASSUME Reading, Reading', NEW h \in Hosts, CallFn(h)
  PROVE  \E c \in Comps : Promise!Finish(c)
<1> USE ThreadTypes
<1>1. PICK v \in VMs : v = cpu[h].stack
  BY DEF CallFn
<1>2. v # None /\ state[v] = "running" /\ reached[v] # 0
  BY <1>1, Inside DEF CallFn, Reading
<1>3. PICK c \in Comps : /\ c = fn[v] /\ c # None /\ InTheFrame(v)
                         /\ memory[c] = "held" /\ dyn[c] = v
  BY <1>2, VMNamesAssumption DEF Reading, IInv, Holding, InTheFrame, Pending
<1>4. /\ result' = [result EXCEPT ![c] = "answer"]
      /\ fn' = [fn EXCEPT ![v] = None]
      /\ current_fn' = current_fn /\ memory' = memory /\ dyn' = dyn
      /\ state' = [state EXCEPT ![v] = "stopped"]
  BY <1>1, <1>3 DEF CallFn, T!Finish
<1>5. fn'[v] = None /\ \A u \in VMs \ {v} : fn'[u] = fn[u] /\ state'[u] = state[u]
  BY <1>4 DEF Reading, IInv, CompTypeOK
<1>6. Live(c) /\ On(c) = v /\ Status(c) = "live"
  BY <1>2, <1>3 DEF Live, Reading, Closure, ReadsAs
<1>7. ~Live(c)'
  <2>1. \A u \in VMs : current_fn[u] # c
    BY <1>2, <1>3 DEF Reading, Closure
  <2>2. \A u \in VMs \ {v} : ~(fn[u] = c /\ state[u] # "stopped")
    BY <1>6 DEF Reading, Closure
  <2> QED
    BY <1>3, <1>4, <1>5, <2>1, <2>2 DEF Live
<1>8. Status(c)' = "finished"
  <2>1. memory'[c] # "unborn" /\ result'[c] = "answer"
    BY <1>3, <1>4 DEF Reading, IInv, CompTypeOK
  <2> QED
    BY <1>7, <2>1 DEF Reading, ReadsAs
<1>9. \A d \in Comps : On(d)' = On(d)
  BY <1>4 DEF On
<1>10. ASSUME NEW d \in Comps \ {c} PROVE Same(d)
  <2>1. d # None
    BY VMNamesAssumption
  <2>2. SameLive(d)
    BY <1>3, <1>4, <1>5, <2>1 DEF Live, SameLive
  <2>3. result'[d] = result[d]
    BY <1>4 DEF Reading, IInv, CompTypeOK
  <2> QED
    BY <1>4, <2>2, <2>3, KeepsSame
<1> QED
  BY <1>6, <1>8, <1>9, <1>10, OneChanges DEF Promise!Finish

(* Cancel gives up the computation in the frame of the VM it stops.         *)
LEMMA CancelGivesUp ==
  ASSUME Reading, Reading', NEW h \in Hosts, NEW c \in Comps, ~Over(c),
         Cancel(h, c)
  PROVE  Promise!GiveUp(c)
<1> USE ThreadTypes
<1>1. PICK v \in VMs : v = dyn[c]
  BY DEF Cancel, Reading, IInv, CompTypeOK
<1>2. /\ v # None /\ memory[c] = "held" /\ state[v] = "suspended"
      /\ state' = [state EXCEPT ![v] = "stopped"]
      /\ UNCHANGED <<current_fn, fn, memory, dyn, result>>
  BY <1>1 DEF Cancel, T!Stop, compVars
<1>3. fn[v] = c /\ result[c] = "default" /\ On(c) = v
  <2>1. fn[v] = c
    BY <1>1, <1>2 DEF Reading, IInv, Knowing
  <2>2. result[c] = "default"
    BY <1>2, <2>1 DEF Reading, IInv, Holding, InTheFrame, Pending
  <2> QED
    BY <1>2, <2>1, <2>2 DEF Reading, Closure
<1>4. Live(c) /\ Status(c) = "live"
  BY <1>2, <1>3 DEF Live, Reading, ReadsAs
<1>5. ~Live(c)'
  <2>1. \A u \in VMs : current_fn[u] # c
    BY <1>2, <1>3 DEF Reading, Closure
  <2>2. \A u \in VMs \ {v} : ~(fn[u] = c /\ state[u] # "stopped")
    BY <1>3 DEF Reading, Closure
  <2>3. state'[v] = "stopped" /\ \A u \in VMs \ {v} : state'[u] = state[u]
    BY <1>2 DEF Reading
  <2> QED
    BY <1>2, <2>1, <2>2, <2>3 DEF Live
<1>6. Status(c)' = "void"
  BY <1>2, <1>3, <1>5 DEF Reading, ReadsAs
<1>7. \A d \in Comps : On(d)' = On(d)
  BY <1>2 DEF On
<1>8. ASSUME NEW d \in Comps \ {c} PROVE Same(d)
  <2>1. \A u \in VMs : u # v => state'[u] = state[u]
    BY <1>2 DEF Reading
  <2>2. SameLive(d)
    BY <1>2, <1>3, <2>1 DEF Live, SameLive
  <2> QED
    BY <1>2, <2>2, KeepsSame
<1> QED
  BY <1>4, <1>6, <1>7, <1>8, OneChanges DEF Promise!GiveUp

(* Resuming, creating and destroying a VM, and giving up a handle that is   *)
(* over, change nothing of what is promised.                                *)
LEMMA QuietUnseen ==
  ASSUME Reading,
         UNCHANGED <<current_fn, fn, dyn, result>>,
         \A v \in VMs : state'[v] = "stopped" <=> state[v] = "stopped",
         \A c \in Comps : \/ memory'[c] = memory[c]
                          \/ memory[c] = "held" /\ memory'[c] = "freed"
  PROVE  \A d \in Comps : Same(d)
<1> SUFFICES ASSUME NEW d \in Comps PROVE Same(d)
  OBVIOUS
<1>1. SameLive(d)
  BY DEF Live, SameLive
<1> QED
  BY <1>1, KeepsSame

(* Of these calls the embedder sees nothing.                               *)
LEMMA OthersUnseen ==
  ASSUME Reading, NEW h \in Hosts, NEW v \in VMs, NEW c \in Comps,
         CreateVM(h, v) \/ DestroyVM(h, v) \/ Execute(h, c) \/ Drop(h, c)
  PROVE  \A d \in Comps : Same(d)
<1> USE ThreadTypes
<1>1. CASE CreateVM(h, v) \/ DestroyVM(h, v)
  BY <1>1, QuietUnseen DEF CreateVM, DestroyVM, T!Create, T!Destroy, compVars
<1>2. CASE Execute(h, c)
  <2>1. PICK u \in VMs : u = dyn[c]
    BY <1>2 DEF Execute, Reading, IInv, CompTypeOK
  <2>2. /\ state[u] = "suspended"
        /\ state' = [state EXCEPT ![u] = "running"]
        /\ UNCHANGED <<current_fn, fn, memory, dyn, result>>
    BY <1>2, <2>1 DEF Execute, Executes, T!Resume, compVars
  <2>3. \A w \in VMs : state'[w] = "stopped" <=> state[w] = "stopped"
    BY <2>2 DEF Reading
  <2> QED
    BY <2>2, <2>3, QuietUnseen
<1>3. CASE Drop(h, c)
  <2>1. \A d \in Comps : \/ memory'[d] = memory[d]
                         \/ memory[d] = "held" /\ memory'[d] = "freed"
    BY <1>3 DEF Drop, Reading, IInv, CompTypeOK
  <2> QED
    BY <1>3, <2>1, QuietUnseen DEF Drop, threadVars
<1> QED
  BY <1>1, <1>2, <1>3

(* Steps that are not seen stutter.                                        *)
LEMMA UnseenStutters ==
  ASSUME \A d \in Comps : Same(d)
  PROVE  UNCHANGED <<[d \in Comps |-> Status(d)], [d \in Comps |-> On(d)]>>
BY DEF Same

(* The VM implements Computations: for the embedder each call of Invoke is  *)
(* accepted or refused, and what was accepted ends once or is given up, one *)
(* computation of a VM at a time (function_handle.h:15-24).                 *)
THEOREM KeepsPromiseHolds == Spec => KeepsPromise
<1>1. Init /\ Reading => Promise!Init
  <2> SUFFICES ASSUME Init, Reading PROVE Promise!Init
    OBVIOUS
  <2>1. \A c \in Comps : Status(c) = "idle"
    BY DEF Init, Reading, ReadsAs
  <2>2. \A c \in Comps : On(c) = None
    BY VMNamesAssumption DEF Init, On
  <2> QED
    BY <2>1, <2>2 DEF Promise!Init
<1>2. Reading /\ Reading' /\ [Next]_vars =>
        [Promise!Next]_<<[c \in Comps |-> Status(c)], [c \in Comps |-> On(c)]>>
  <2> SUFFICES ASSUME Reading, Reading', [Next]_vars
               PROVE  \/ Promise!Next
                      \/ \A d \in Comps : Same(d)
    BY UnseenStutters
  <2>1. ASSUME NEW h \in Hosts, NEW v \in VMs, NEW c \in Comps,
               Invoke(h, v, c) \/ InvokeThrows(h, v, c)
        PROVE  Promise!Next
    BY <2>1, InvokeAccepts, InvokeRefuses DEF Promise!Next
  <2>2. ASSUME NEW h \in Hosts, CallFn(h) PROVE Promise!Next
    BY <2>2, CallFnFinishes DEF Promise!Next
  <2>3. ASSUME NEW h \in Hosts, NEW c \in Comps, ~Over(c), Cancel(h, c)
        PROVE  Promise!Next
    BY <2>3, CancelGivesUp DEF Promise!Next
  <2>4. ASSUME NEW h \in Hosts, NEW v \in VMs, CreateVM(h, v) \/ DestroyVM(h, v)
        PROVE  \A d \in Comps : Same(d)
    BY <2>4, OthersUnseen
  <2>5. ASSUME NEW h \in Hosts, NEW c \in Comps, Execute(h, c) \/ Drop(h, c)
        PROVE  \A d \in Comps : Same(d)
    <3>1. PICK v \in VMs : v = dyn[c]
      BY <2>5 DEF Execute, Drop, Reading, IInv, CompTypeOK
    <3> QED
      BY <2>5, <3>1, OthersUnseen
  <2>6. ASSUME UNCHANGED vars PROVE \A d \in Comps : Same(d)
    BY <2>6, QuietUnseen DEF vars, threadVars, compVars
  <2> QED
    BY <2>1, <2>2, <2>3, <2>4, <2>5, <2>6, RunInternalUnseen
    DEF Next, OnVM, FreeCalls
<1> QED
  BY <1>1, <1>2, ReadingHolds, PTL DEF Spec, KeepsPromise, Promise!Spec
=============================================================================
