------------------------------ MODULE VMThread ------------------------------
(***************************************************************************)
(* runtime/thread: a VMThread runs a function on a stack of its own, on    *)
(* the OS thread ("host") that calls Resume, until the function yields or  *)
(* returns.  The processor of a host is modelled by the context it is      *)
(* executing: whose stack it is on, which call or activation that stack is *)
(* in, and how far it got.  WasmccSwitch saves one context and loads       *)
(* another; everything else here is what decides which ones.               *)
(*                                                                         *)
(* A suspended VMThread may be resumed by another host than before.  The   *)
(* class has no locks: MayUse is the discipline its callers owe it.        *)
(***************************************************************************)
EXTENDS Naturals

CONSTANTS Hosts,      \* OS threads: each has its own current_vm_thread
          Threads,    \* VMThread objects
          None,       \* the null pointer
          MaxStarts,  \* bound: activations of one VMThread's function
          MaxYields   \* bound: yields of one activation

ASSUME NamesAssumption == /\ Hosts \cap Threads = {}
                          /\ None \notin Hosts \cup Threads
ASSUME BoundsAssumption == MaxStarts \in Nat /\ MaxYields \in Nat

VARIABLES object,   \* lifetime of each VMThread: "unborn", "live", "destroyed"
          state,    \* VMThread::_state
          current,  \* the thread_local current_vm_thread of each host
          cpu,      \* the context each host is executing
          mine,     \* VMThread::_my_thread_state
          main,     \* VMThread::_main_thread_state
          starts,   \* history: activations of the function so far
          reached,  \* history: yields done by the latest activation
          calls,    \* history: Resume calls each host has made
          aborted   \* the process was terminated

vars == <<object, state, current, cpu, mine, main, starts, reached, calls,
          aborted>>

Contexts == [stack : Hosts \cup Threads \cup {None}, run : Nat, step : Nat]

\* A register file fresh from `new ThreadStack()`.
NullContext == [stack |-> None, run |-> 0, step |-> 0]

\* The host's own stack, back from its n-th call of Resume.
HostContext(h, n) == [stack |-> h, run |-> n, step |-> 0]

\* The VMThread's stack, after the s-th yield of its r-th activation.
ThreadContext(t, r, s) == [stack |-> t, run |-> r, step |-> s]

\* The same stack, one call further: what a switch away saves.
NextContext(c) ==
  IF c.stack \in Hosts THEN [c EXCEPT !.run = @ + 1]
                       ELSE [c EXCEPT !.step = @ + 1]

TypeOK ==
  /\ object \in [Threads -> {"unborn", "live", "destroyed"}]
  /\ state \in [Threads -> {"stopped", "suspended", "running"}]
  /\ current \in [Hosts -> Threads \cup {None}]
  /\ cpu \in [Hosts -> Contexts]
  /\ mine \in [Threads -> Contexts]
  /\ main \in [Threads -> Contexts]
  /\ starts \in [Threads -> Nat]
  /\ reached \in [Threads -> Nat]
  /\ calls \in [Hosts -> Nat]
  /\ aborted \in BOOLEAN

Init ==
  /\ object = [t \in Threads |-> "unborn"]
  /\ state = [t \in Threads |-> "stopped"]
  /\ current = [h \in Hosts |-> None]
  /\ cpu = [h \in Hosts |-> HostContext(h, 0)]
  /\ mine = [t \in Threads |-> NullContext]
  /\ main = [t \in Threads |-> NullContext]
  /\ starts = [t \in Threads |-> 0]
  /\ reached = [t \in Threads |-> 0]
  /\ calls = [h \in Hosts |-> 0]
  /\ aborted = FALSE

-----------------------------------------------------------------------------
(* Callers' discipline: nobody touches a VMThread that another OS thread is *)
(* executing.  The code running on the VMThread's own stack may.            *)
MayUse(h, t) ==
  /\ ~aborted
  /\ object[t] = "live"
  /\ \A g \in Hosts \ {h} : cpu[g].stack # t

(* WasmccSwitch(from, to): the context left is saved, the other is loaded.  *)
\* Mistake: only the first switch in records where to return to.
TrampolineInOnce(h, t, c) ==
  /\ current' = [current EXCEPT ![h] = t]
  /\ main' = [main EXCEPT ![t] =
                IF @.stack = None THEN NextContext(cpu[h]) ELSE @]
  /\ cpu' = [cpu EXCEPT ![h] = c]

TrampolineInToVM(h, t, c) ==
  /\ current' = [current EXCEPT ![h] = t]
  /\ main' = [main EXCEPT ![t] = NextContext(cpu[h])]
  /\ cpu' = [cpu EXCEPT ![h] = c]

\* Mistake: current_vm_thread keeps pointing at the thread that was left.
TrampolineOutStale(h, t) ==
  /\ UNCHANGED current
  /\ mine' = [mine EXCEPT ![t] = NextContext(cpu[h])]
  /\ cpu' = [cpu EXCEPT ![h] = main[t]]

TrampolineOutOfVM(h, t) ==
  /\ current' = [current EXCEPT ![h] = None]
  /\ mine' = [mine EXCEPT ![t] = NextContext(cpu[h])]
  /\ cpu' = [cpu EXCEPT ![h] = main[t]]

(* The state a stopped thread is resumed from: VMThreadStart on an empty    *)
(* stack.  A suspended one continues where it yielded.                      *)
\* Mistake: the entry point is set up only before the first start.
NeedsEntryOnce(t) == state[t] = "stopped" /\ starts[t] = 0

NeedsEntry(t) == state[t] = "stopped"

InitializeVMThreadStackState(t) == ThreadContext(t, starts[t] + 1, 0)

ResumePoint(t) ==
  IF NeedsEntry(t) THEN InitializeVMThreadStackState(t) ELSE mine[t]

-----------------------------------------------------------------------------
Create(h, t) ==
  /\ ~aborted
  /\ object[t] = "unborn"
  /\ object' = [object EXCEPT ![t] = "live"]
  /\ UNCHANGED <<state, current, cpu, mine, main, starts, reached, calls,
                 aborted>>

(* Called with a VMThread current on this host, Resume throws before it     *)
(* changes anything.                                                        *)
MayResume(h, t) == current[h] = None

Resume(h, t) ==
  /\ MayUse(h, t)
  /\ MayResume(h, t)
  /\ NeedsEntry(t) => starts[t] < MaxStarts
  /\ mine' = [mine EXCEPT ![t] = ResumePoint(t)]
  /\ state' = [state EXCEPT ![t] = "running"]
  /\ TrampolineInToVM(h, t, ResumePoint(t))
  /\ starts' = [starts EXCEPT ![t] = IF NeedsEntry(t) THEN @ + 1 ELSE @]
  /\ reached' = [reached EXCEPT ![t] = IF NeedsEntry(t) THEN 0 ELSE @]
  /\ calls' = [calls EXCEPT ![h] = @ + 1]
  /\ UNCHANGED <<object, aborted>>

(* Yield acts on the host's current VMThread; with none it throws.          *)
Yield(h) ==
  LET t == current[h] IN
  /\ ~aborted
  /\ t # None
  /\ reached[t] < MaxYields
  /\ state' = [state EXCEPT ![t] = "suspended"]
  /\ TrampolineOutOfVM(h, t)
  /\ reached' = [reached EXCEPT ![t] = @ + 1]
  /\ UNCHANGED <<object, main, starts, calls, aborted>>

(* The function returns into VMThreadStart, whose argument is the VMThread  *)
(* whose stack this is.                                                     *)
Finish(h) ==
  LET t == cpu[h].stack IN
  /\ ~aborted
  /\ t \in Threads
  /\ state' = [state EXCEPT ![t] = "stopped"]
  /\ TrampolineOutOfVM(h, t)
  /\ UNCHANGED <<object, main, starts, reached, calls, aborted>>

(* Stop throws on a running VMThread; on a stopped one it does nothing.     *)
MayStop(t) == state[t] # "running"

\* Mistake: Stop checks the state and leaves it.
StopKeepsState(h, t) == MayUse(h, t) /\ MayStop(t) /\ UNCHANGED vars

Stop(h, t) ==
  /\ MayUse(h, t)
  /\ MayStop(t)
  /\ state' = [state EXCEPT ![t] = "stopped"]
  /\ UNCHANGED <<object, current, cpu, mine, main, starts, reached, calls,
                 aborted>>

(* The destructor asserts that the VMThread is not the one executing.       *)
\* Mistake: no assertion in the destructor.
MayDestroyAlways(h, t) == TRUE

MayDestroy(h, t) == current[h] # t /\ state[t] # "running"

Destroy(h, t) ==
  /\ MayUse(h, t)
  /\ IF MayDestroy(h, t)
     THEN object' = [object EXCEPT ![t] = "destroyed"] /\ UNCHANGED aborted
     ELSE aborted' = TRUE /\ UNCHANGED object
  /\ UNCHANGED <<state, current, cpu, mine, main, starts, reached, calls>>

(* An exception the function does not catch has no handler below it on the  *)
(* VM stack: std::terminate.                                                *)
FuncThrows(h) ==
  /\ ~aborted
  /\ cpu[h].stack \in Threads
  /\ aborted' = TRUE
  /\ UNCHANGED <<object, state, current, cpu, mine, main, starts, reached,
                 calls>>

Next ==
  \E h \in Hosts :
    \/ Yield(h) \/ Finish(h) \/ FuncThrows(h)
    \/ \E t \in Threads :
         Create(h, t) \/ Resume(h, t) \/ Stop(h, t) \/ Destroy(h, t)

Spec == Init /\ [][Next]_vars

-----------------------------------------------------------------------------
OnCurrentStack ==
  \A h \in Hosts : cpu[h].stack = IF current[h] = None THEN h ELSE current[h]

RunningSomewhere ==
  \A t \in Threads : state[t] = "running" <=> \E h \in Hosts : current[h] = t

OneHostEach ==
  \A g, h \in Hosts : current[g] = current[h] /\ current[g] # None => g = h

(* current_vm_thread, _state and the stack the processor is really on are   *)
(* written at different places (thread.cc:59-61, 123, 138, 143, 152); they  *)
(* always agree, and no two hosts are on one stack.                         *)
RunningIsExecuting == OnCurrentStack /\ RunningSomewhere /\ OneHostEach

(* A switch out of the VM (thread.cc:162) lands in the host that made the   *)
(* latest Resume, right after that call, even when the thread moved between *)
(* hosts since it last yielded.                                             *)
ReturnsToCaller ==
  \A h \in Hosts :
    IF current[h] = None THEN cpu[h] = HostContext(h, calls[h])
                         ELSE main[current[h]] = HostContext(h, calls[h])

(* What continues on a VM stack is the latest activation, exactly where it  *)
(* yielded: progress is neither lost nor replayed, and an activation that   *)
(* Stop abandoned (thread.cc:126-132) never runs again.                     *)
NoLostProgress ==
  /\ \A t \in Threads : state[t] = "suspended" =>
       mine[t] = ThreadContext(t, starts[t], reached[t])
  /\ \A h \in Hosts : current[h] # None =>
       cpu[h] = ThreadContext(current[h], starts[current[h]],
                              reached[current[h]])

(* No host executes on the memory of a destroyed VMThread, which is what    *)
(* the assertion of ~VMThread (thread.cc:110) is for.                       *)
NoDeadStack ==
  \A h \in Hosts : cpu[h].stack \in Threads => object[cpu[h].stack] = "live"
=============================================================================
