--------------------------------- MODULE VM ---------------------------------
(***************************************************************************)
(* runtime/vm.cc, vm.h and function_handle.*: a VM owns one VMThread whose *)
(* function is RunInternal.  FunctionHandle::Invoke allocates a            *)
(* Computation, hands the VM a closure that will write the Computation's   *)
(* result through a raw pointer, and resumes the VMThread once so that     *)
(* RunInternal takes the closure and yields; Execute resumes it again and  *)
(* the function runs to its end (compiled functions have no way to yield). *)
(*                                                                         *)
(* The VMThread half of every step is an action of VMThread.               *)
(***************************************************************************)
EXTENDS Naturals

CONSTANTS Hosts,      \* OS threads of the embedder
          VMs,        \* VM objects, each standing for its VMThread too
          Comps,      \* Computation objects, one per call of Invoke
          None,
          MaxInvokes  \* bound: calls of Invoke accepted by one VM

ASSUME VMNamesAssumption == /\ Hosts \cap VMs = {}
                            /\ None \notin Hosts \cup VMs \cup Comps
ASSUME InvokesAssumption == MaxInvokes \in Nat

VARIABLES object, state, current, cpu, mine, main, starts, reached, calls,
          aborted,    \* see VMThread
          current_fn, \* VMImpl::_current_fn: the Computation its closure serves
          fn,         \* RunInternal's local fn, in the frame on the VM stack
          invoking,   \* typed_computation in the host's frame of Invoke
          memory,     \* each Computation: "unborn", "held" or "freed"
          dyn,        \* Computation::_dyn._thread
          result,     \* Computation::_result
          runs,       \* history: times the closure was called
          asked,      \* history: computations whose own Cancel was called
          cancelled,  \* history: computations whose activation was stopped
          stray       \* history: a result was written to freed memory

threadVars == <<object, state, current, cpu, mine, main, starts, reached,
                calls, aborted>>
compVars == <<memory, dyn, result>>
histVars == <<runs, asked, cancelled, stray>>
vars == <<threadVars, current_fn, fn, invoking, compVars, histVars>>

T == INSTANCE VMThread WITH Threads <- VMs, MaxStarts <- MaxInvokes,
                            MaxYields <- 1

CompTypeOK ==
  /\ current_fn \in [VMs -> Comps \cup {None}]
  /\ fn \in [VMs -> Comps \cup {None}]
  /\ invoking \in [Hosts -> Comps \cup {None}]
  /\ memory \in [Comps -> {"unborn", "held", "freed"}]
  /\ dyn \in [Comps -> VMs \cup {None}]
  /\ result \in [Comps -> {"default", "answer"}]
  /\ runs \in [Comps -> Nat]
  /\ asked \subseteq Comps
  /\ cancelled \subseteq Comps
  /\ stray \in BOOLEAN

TypeOK == T!TypeOK /\ CompTypeOK

Init ==
  /\ T!Init
  /\ current_fn = [v \in VMs |-> None]
  /\ fn = [v \in VMs |-> None]
  /\ invoking = [h \in Hosts |-> None]
  /\ memory = [c \in Comps |-> "unborn"]
  /\ dyn = [c \in Comps |-> None]
  /\ result = [c \in Comps |-> "default"]
  /\ runs = [c \in Comps |-> 0]
  /\ asked = {}
  /\ cancelled = {}
  /\ stray = FALSE

-----------------------------------------------------------------------------
(* The embedder runs on the host's own stack: compiled code cannot call it. *)
HostCalls(h, v) == cpu[h].stack = h /\ T!MayUse(h, v)

(* A computation that ran, or whose activation was stopped.                 *)
Over(c) == runs[c] > 0 \/ c \in cancelled

\* Mistake: a suspended computation counts as done.
IsDoneIfNotRunning(c) == state[dyn[c]] # "running"

IsDone(c) == state[dyn[c]] = "stopped"

(* The embedder holds c's handle, and no host is inside its VM.             *)
CanAsk(c) == /\ memory[c] = "held"
             /\ dyn[c] # None
             /\ \A h \in Hosts : cpu[h].stack # dyn[c]

-----------------------------------------------------------------------------
CreateVM(h, v) ==
  /\ cpu[h].stack = h
  /\ T!Create(h, v)
  /\ UNCHANGED <<current_fn, fn, invoking, compVars, histVars>>

\* Mistake: a suspended computation does not make the VM busy.
BusyIfPending(v) == current_fn[v] # None

Busy(v) == current_fn[v] # None \/ state[v] # "stopped"

(* Invoke as far as the first switch: the Computation exists, its _dyn is   *)
(* still null, the closure is in _current_fn, and RunInternal is entered on *)
(* an empty stack.                                                          *)
Invoke(h, v, c) ==
  /\ HostCalls(h, v)
  /\ memory[c] = "unborn"
  /\ ~Busy(v)
  /\ current_fn' = [current_fn EXCEPT ![v] = c]
  /\ invoking' = [invoking EXCEPT ![h] = c]
  /\ memory' = [memory EXCEPT ![c] = "held"]
  /\ fn' = [fn EXCEPT ![v] = None]
  /\ T!Resume(h, v)
  /\ UNCHANGED <<dyn, result, histVars>>

(* InvokeDynamic throws; unwinding frees the Computation.                   *)
InvokeThrows(h, v, c) ==
  /\ HostCalls(h, v)
  /\ memory[c] = "unborn"
  /\ Busy(v)
  /\ memory' = [memory EXCEPT ![c] = "freed"]
  /\ UNCHANGED <<threadVars, current_fn, fn, invoking, dyn, result, histVars>>

(* RunInternal up to its Yield.  Control goes back into the host's Invoke,  *)
(* which stores the handle and returns the Computation to the embedder.     *)
(* With nothing in _current_fn its Assert traps, on the VM stack.           *)
\* Mistake: the closure is copied out of _current_fn, not exchanged.
CopyFn(v) == fn' = [fn EXCEPT ![v] = current_fn[v]] /\ UNCHANGED current_fn

TakeFn(v) ==
  /\ fn' = [fn EXCEPT ![v] = current_fn[v]]
  /\ current_fn' = [current_fn EXCEPT ![v] = None]

RunInternal(h) ==
  LET v == cpu[h].stack IN
  /\ v \in VMs
  /\ cpu[h].step = 0
  /\ IF current_fn[v] = None
     THEN /\ T!FuncThrows(h)
          /\ UNCHANGED <<current_fn, fn, invoking, dyn>>
     ELSE /\ TakeFn(v)
          /\ T!Yield(h)
          /\ dyn' = [dyn EXCEPT ![invoking[h]] = v]
          /\ invoking' = [invoking EXCEPT ![h] = None]
  /\ UNCHANGED <<memory, result, histVars>>

(* The rest of RunInternal: the compiled function runs, its result is       *)
(* stored through the captured pointer, and the activation ends.            *)
CallFn(h) ==
  LET v == cpu[h].stack
      c == fn[v]
  IN
  /\ v \in VMs
  /\ cpu[h].step = 1
  /\ IF memory[c] = "held"
     THEN result' = [result EXCEPT ![c] = "answer"] /\ UNCHANGED stray
     ELSE stray' = TRUE /\ UNCHANGED result
  /\ runs' = [runs EXCEPT ![c] = @ + 1]
  /\ fn' = [fn EXCEPT ![v] = None]
  /\ T!Finish(h)
  /\ UNCHANGED <<current_fn, invoking, memory, dyn, asked, cancelled>>

\* Mistakes: Execute also restarts what has stopped, or waits for it to run.
ExecutesStopped(c) == state[dyn[c]] # "running"
ExecutesRunning(c) == state[dyn[c]] = "running"

(* Execute does nothing unless the VMThread is suspended.                   *)
Executes(c) == state[dyn[c]] = "suspended"

Execute(h, c) ==
  /\ memory[c] = "held"
  /\ dyn[c] # None
  /\ HostCalls(h, dyn[c])
  /\ Executes(c)
  /\ T!Resume(h, dyn[c])
  /\ UNCHANGED <<current_fn, fn, invoking, compVars, histVars>>

(* Stopping the VMThread abandons whatever its stack holds.                 *)
Cancel(h, c) ==
  /\ memory[c] = "held"
  /\ dyn[c] # None
  /\ HostCalls(h, dyn[c])
  /\ state[dyn[c]] = "suspended"
  /\ T!Stop(h, dyn[c])
  /\ asked' = asked \cup {c}
  /\ cancelled' = cancelled \cup {fn[dyn[c]]}
  /\ UNCHANGED <<current_fn, fn, invoking, compVars, runs, stray>>

Drop(h, c) ==
  /\ memory[c] = "held"
  /\ dyn[c] # None
  /\ cpu[h].stack = h
  /\ ~aborted
  /\ memory' = [memory EXCEPT ![c] = "freed"]
  /\ UNCHANGED <<threadVars, current_fn, fn, invoking, dyn, result, histVars>>

(* "The VM must outlive the resulting computation."                         *)
DestroyVM(h, v) ==
  /\ cpu[h].stack = h
  /\ \A c \in Comps : dyn[c] = v => memory[c] = "freed"
  /\ T!Destroy(h, v)
  /\ UNCHANGED <<current_fn, fn, invoking, compVars, histVars>>

-----------------------------------------------------------------------------
(* What runs on the VM stacks.                                              *)
OnVM(h) == RunInternal(h) \/ CallFn(h)

(* Calls no contract restricts.  Execute through a handle that is over is   *)
(* among them: it may well resume a later computation of the same VM.       *)
FreeCalls(h) ==
  \/ \E v \in VMs : CreateVM(h, v) \/ DestroyVM(h, v)
  \/ \E v \in VMs, c \in Comps : Invoke(h, v, c) \/ InvokeThrows(h, v, c)
  \/ \E c \in Comps : Execute(h, c)

(* The embedder keeps function_handle.h:22-24: it gives a Computation up    *)
(* only once it is over, and cancels only what is not.                      *)
Next ==
  \E h \in Hosts :
    \/ OnVM(h)
    \/ FreeCalls(h)
    \/ \E c \in Comps : ~Over(c) /\ Cancel(h, c)
    \/ \E c \in Comps : Over(c) /\ Drop(h, c)

Spec == Init /\ [][Next]_vars

(* An embedder that cancels through any handle it still has.                *)
NextCancelling ==
  \E h \in Hosts : OnVM(h) \/ FreeCalls(h) \/ \E c \in Comps : Cancel(h, c)

SpecCancelling == Init /\ [][NextCancelling]_vars

(* Code on a VM stack runs on, and the embedder keeps calling Execute.      *)
Fairness ==
  /\ \A h \in Hosts : WF_vars(OnVM(h))
  /\ \A c \in Comps : WF_vars(\E h \in Hosts : Execute(h, c))

FairSpec == Spec /\ Fairness

-----------------------------------------------------------------------------
(* vm.cc:53 and thread.cc:110: neither the assertion that RunInternal has   *)
(* something to run nor the one that a VMThread is not destroyed while      *)
(* running ever fires.                                                      *)
NoAssertFires == ~aborted

(* Every closure is called at most once, and never after the activation     *)
(* that held it was cancelled: the frame Stop leaves behind on the stack    *)
(* (vm.cc:50-52) is never entered again.                                    *)
RunsOnce == \A c \in Comps :
  /\ runs[c] <= 1
  /\ c \in cancelled => runs[c] = 0

(* The raw Computation pointer in the closure (vm.h:80-84) is still valid   *)
(* when the compiled function's result is stored through it.                *)
NoStrayWrite == ~stray

(* A VM no host is in can always take up work again: nothing is left in     *)
(* _current_fn, and if it is suspended the embedder still holds the         *)
(* computation to resume or cancel.  Every VM's state is typed.             *)
NeverStranded ==
  /\ TypeOK
  /\ \A v \in VMs :
       object[v] = "live" /\ (\A h \in Hosts : cpu[h].stack # v) =>
         /\ current_fn[v] = None
         /\ state[v] = "suspended" => memory[fn[v]] = "held" /\ dyn[fn[v]] = v

(* When IsDone answers true for a computation whose Cancel was never        *)
(* called, GetResult returns the function's result                          *)
(* (function_handle.h:90, 96-97).                                           *)
DoneMeansAnswered == \A c \in Comps :
  CanAsk(c) /\ IsDone(c) /\ c \notin asked => result[c] = "answer"

(* Computation::IsDone, "If this computation has finished executing"        *)
(* (function_handle.h:93).                                                  *)
FinishedStaysDone == \A c \in Comps :
  CanAsk(c) /\ runs[c] > 0 => IsDone(c)

(* Every computation the embedder keeps executing ends, and every host      *)
(* gets back from the VM.                                                   *)
EveryInvokeEnds ==
  /\ \A c \in Comps : runs[c] = 0 /\ memory[c] = "held" ~> Over(c)
  /\ \A h \in Hosts : cpu[h].stack \in VMs ~> cpu[h].stack = h

-----------------------------------------------------------------------------
(* The VM implements Computations: what is live is read off _current_fn,    *)
(* the stack frame and _state, what is finished off the stored result.      *)
Live(c) == \E v \in VMs :
  \/ current_fn[v] = c
  \/ fn[v] = c /\ state[v] # "stopped"

Status(c) == CASE memory[c] = "unborn"  -> "idle"
               [] Live(c)               -> "live"
               [] result[c] = "answer"  -> "finished"
               [] OTHER                 -> "void"

On(c) == IF \E v \in VMs : current_fn[v] = c
         THEN CHOOSE v \in VMs : current_fn[v] = c ELSE dyn[c]

Promise == INSTANCE Computations WITH status <- [c \in Comps |-> Status(c)],
                                      on <- [c \in Comps |-> On(c)]

(* What the embedder sees is a behaviour of Computations.                   *)
KeepsPromise == Promise!Spec
=============================================================================
