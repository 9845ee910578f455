--------------------------- MODULE VMThreadProofs ---------------------------
(***************************************************************************)
(* Proofs about VMThread for any number of hosts and VMThreads and any     *)
(* bounds.  TypeOK is inductive alone; the four invariants of the switch   *)
(* are inductive only together: the two halves of RunningIsExecuting say   *)
(* whose saved contexts a switch may overwrite, ReturnsToCaller and        *)
(* NoLostProgress say what the contexts hold.                              *)
(***************************************************************************)
EXTENDS VMThread, TLAPS

(* NextContext moves a host's context to its next call, and a VMThread's    *)
(* to its next yield.                                                       *)
LEMMA NextContextLemma ==
  /\ \A h \in Hosts, n \in Nat :
       NextContext(HostContext(h, n)) = HostContext(h, n + 1)
  /\ \A t \in Threads, r \in Nat, s \in Nat :
       NextContext(ThreadContext(t, r, s)) = ThreadContext(t, r, s + 1)
  /\ \A c \in Contexts : NextContext(c) \in Contexts
<1>1. ASSUME NEW h \in Hosts, NEW n \in Nat
      PROVE  NextContext(HostContext(h, n)) = HostContext(h, n + 1)
  BY DEF NextContext, HostContext
<1>2. ASSUME NEW t \in Threads, NEW r \in Nat, NEW s \in Nat
      PROVE  NextContext(ThreadContext(t, r, s)) = ThreadContext(t, r, s + 1)
  BY NamesAssumption DEF NextContext, ThreadContext
<1>3. ASSUME NEW c \in Contexts PROVE NextContext(c) \in Contexts
  BY DEF NextContext, Contexts
<1> QED
  BY <1>1, <1>2, <1>3

(* The constructors leave every variable typed.                             *)
LEMMA InitTyped == Init => TypeOK
<1>1. NullContext \in Contexts
  BY DEF NullContext, Contexts
<1>2. \A h \in Hosts : HostContext(h, 0) \in Contexts
  BY DEF HostContext, Contexts
<1> SUFFICES ASSUME Init PROVE TypeOK
  OBVIOUS
<1>3. cpu \in [Hosts -> Contexts] /\ calls \in [Hosts -> Nat]
  BY <1>2 DEF Init
<1>4. mine \in [Threads -> Contexts] /\ main \in [Threads -> Contexts]
  BY <1>1 DEF Init
<1> QED
  BY <1>3, <1>4 DEF Init, TypeOK

(* Every variable keeps its type through every operation of the class.      *)
THEOREM TypeCorrect == Spec => []TypeOK
<1>1. Init => TypeOK
  BY InitTyped
<1>2. TypeOK /\ [Next]_vars => TypeOK'
  <2> SUFFICES ASSUME TypeOK, [Next]_vars PROVE TypeOK'
    OBVIOUS
  <2>1. ASSUME NEW h \in Hosts, NEW t \in Threads, Create(h, t) PROVE TypeOK'
    BY <2>1 DEF Create, TypeOK
  <2>2. ASSUME NEW h \in Hosts, NEW t \in Threads, Resume(h, t) PROVE TypeOK'
    <3>1. ResumePoint(t) \in Contexts
      BY DEF ResumePoint, InitializeVMThreadStackState, ThreadContext, Contexts,
             TypeOK
    <3>2. NextContext(cpu[h]) \in Contexts
      BY NextContextLemma DEF TypeOK
    <3> QED
      BY <2>2, <3>1, <3>2 DEF Resume, TrampolineInToVM, TypeOK
  <2>3. ASSUME NEW h \in Hosts, Yield(h) PROVE TypeOK'
    <3>1. NextContext(cpu[h]) \in Contexts
      BY NextContextLemma DEF TypeOK
    <3>2. current[h] \in Threads
      BY <2>3 DEF Yield, TypeOK
    <3> QED
      BY <2>3, <3>1, <3>2 DEF Yield, TrampolineOutOfVM, TypeOK
  <2>4. ASSUME NEW h \in Hosts, Finish(h) PROVE TypeOK'
    <3>1. NextContext(cpu[h]) \in Contexts
      BY NextContextLemma DEF TypeOK
    <3> QED
      BY <2>4, <3>1 DEF Finish, TrampolineOutOfVM, TypeOK
  <2>5. ASSUME NEW h \in Hosts, NEW t \in Threads, Stop(h, t) PROVE TypeOK'
    BY <2>5 DEF Stop, TypeOK
  <2>6. ASSUME NEW h \in Hosts, NEW t \in Threads, Destroy(h, t) PROVE TypeOK'
    BY <2>6 DEF Destroy, TypeOK
  <2>7. ASSUME NEW h \in Hosts, FuncThrows(h) PROVE TypeOK'
    BY <2>7 DEF FuncThrows, TypeOK
  <2>8. CASE UNCHANGED vars
    BY <2>8 DEF vars, TypeOK
  <2> QED
    BY <2>1, <2>2, <2>3, <2>4, <2>5, <2>6, <2>7, <2>8 DEF Next
<1> QED
  BY <1>1, <1>2, PTL DEF Spec

-----------------------------------------------------------------------------
IInv == /\ TypeOK
        /\ RunningIsExecuting
        /\ ReturnsToCaller
        /\ NoLostProgress
        /\ NoDeadStack

(* A host that is outside the VM can use a VMThread only if no host is on   *)
(* that VMThread's stack.                                                   *)
LEMMA UnusedThread ==
  ASSUME IInv, NEW h \in Hosts, NEW t \in Threads, MayUse(h, t),
         current[h] # t
  PROVE  \A g \in Hosts : current[g] # t
<1> SUFFICES ASSUME NEW g \in Hosts, current[g] = t PROVE FALSE
  OBVIOUS
<1>1. t # None
  BY NamesAssumption
<1>2. cpu[g].stack = t
  BY <1>1 DEF IInv, RunningIsExecuting, OnCurrentStack
<1> QED
  BY <1>2 DEF MayUse

(* Resume establishes the switch's invariants for the host that enters the  *)
(* VM and disturbs no other host.                                           *)
LEMMA ResumeKeeps ==
  ASSUME IInv, TypeOK', NEW h \in Hosts, NEW t \in Threads, Resume(h, t)
  PROVE  IInv'
<1> USE DEF IInv
<1>1. current[h] = None /\ object[t] = "live" /\ None # t
  BY NamesAssumption DEF Resume, MayResume, MayUse
<1>2. \A g \in Hosts : current[g] # t
  BY <1>1, UnusedThread DEF Resume
<1>3. state[t] # "running"
  BY <1>2 DEF RunningIsExecuting, RunningSomewhere
<1>4. ResumePoint(t) = ThreadContext(t, starts'[t], reached'[t])
  <2>1. CASE NeedsEntry(t)
    BY <2>1 DEF Resume, ResumePoint, InitializeVMThreadStackState, TypeOK
  <2>2. CASE ~NeedsEntry(t)
    <3>1. state[t] = "suspended"
      BY <1>3, <2>2 DEF NeedsEntry, TypeOK
    <3>2. starts'[t] = starts[t] /\ reached'[t] = reached[t]
      BY <2>2 DEF Resume, TypeOK
    <3> QED
      BY <2>2, <3>1, <3>2 DEF ResumePoint, NoLostProgress
  <2> QED
    BY <2>1, <2>2
<1>5. ResumePoint(t).stack = t
  BY <1>4 DEF ThreadContext
<1>6. /\ current' = [current EXCEPT ![h] = t]
      /\ cpu' = [cpu EXCEPT ![h] = ResumePoint(t)]
      /\ main' = [main EXCEPT ![t] = NextContext(cpu[h])]
      /\ mine' = [mine EXCEPT ![t] = ResumePoint(t)]
      /\ state' = [state EXCEPT ![t] = "running"]
      /\ calls' = [calls EXCEPT ![h] = @ + 1]
      /\ object' = object
  BY DEF Resume, TrampolineInToVM
<1>7. \A u \in Threads \ {t} :
        starts'[u] = starts[u] /\ reached'[u] = reached[u]
  BY DEF Resume, TypeOK
<1>8. RunningIsExecuting'
  <2>1. OnCurrentStack'
    BY <1>1, <1>5, <1>6 DEF RunningIsExecuting, OnCurrentStack, TypeOK
  <2>2. RunningSomewhere'
    <3>1. \A g \in Hosts \ {h} : current'[g] = current[g]
      BY <1>6 DEF TypeOK
    <3>2. current'[h] = t /\ state'[t] = "running"
      BY <1>6 DEF TypeOK
    <3>3. \A u \in Threads \ {t} : state'[u] = state[u]
      BY <1>6 DEF TypeOK
    <3> QED
      BY <1>1, <1>2, <3>1, <3>2, <3>3, NamesAssumption
      DEF RunningIsExecuting, RunningSomewhere
  <2>3. OneHostEach'
    BY <1>2, <1>6 DEF RunningIsExecuting, OneHostEach, TypeOK
  <2> QED
    BY <2>1, <2>2, <2>3 DEF RunningIsExecuting
<1>9. ReturnsToCaller'
  <2>1. NextContext(cpu[h]) = HostContext(h, calls'[h])
    BY <1>1, <1>6, NextContextLemma DEF ReturnsToCaller, TypeOK
  <2> QED
    BY <1>1, <1>2, <1>6, <2>1 DEF ReturnsToCaller, TypeOK
<1>10. NoLostProgress'
  BY <1>2, <1>4, <1>6, <1>7 DEF NoLostProgress, TypeOK
<1>11. NoDeadStack'
  BY <1>1, <1>5, <1>6 DEF NoDeadStack, TypeOK
<1> QED
  BY <1>8, <1>9, <1>10, <1>11

(* Leaving the VM, by Yield or by the function's return: the host is back   *)
(* in its caller, and the context saved is the current activation's next    *)
(* step.                                                                    *)
LEMMA LeavesToCaller ==
  ASSUME IInv, NEW h \in Hosts, current[h] \in Threads,
         TrampolineOutOfVM(h, current[h]), calls' = calls
  PROVE  /\ cpu'[h] = HostContext(h, calls[h])
         /\ current'[h] = None
         /\ mine'[current[h]] =
              ThreadContext(current[h], starts[current[h]],
                            reached[current[h]] + 1)
         /\ \A g \in Hosts \ {h} : cpu'[g] = cpu[g] /\ current'[g] = current[g]
         /\ \A u \in Threads \ {current[h]} : mine'[u] = mine[u]
         /\ \A g \in Hosts \ {h} : current[g] # current[h]
<1> USE DEF IInv
<1>1. current[h] # None
  BY NamesAssumption
<1>2. NextContext(cpu[h]) =
        ThreadContext(current[h], starts[current[h]], reached[current[h]] + 1)
  BY <1>1, NextContextLemma DEF NoLostProgress, TypeOK
<1>3. main[current[h]] = HostContext(h, calls[h])
  BY <1>1 DEF ReturnsToCaller
<1>4. \A g \in Hosts \ {h} : current[g] # current[h]
  BY <1>1 DEF RunningIsExecuting, OneHostEach
<1> QED
  BY <1>1, <1>2, <1>3, <1>4 DEF TrampolineOutOfVM, TypeOK

(* A host that leaves the VM leaves its VMThread not running; every other   *)
(* host stays where it is.                                                  *)
LEMMA RunningAfterLeaving ==
  ASSUME IInv, NEW h \in Hosts, NEW t \in Threads, current[h] = t,
         cpu'[h] = HostContext(h, calls[h]), current'[h] = None,
         \A g \in Hosts \ {h} : cpu'[g] = cpu[g] /\ current'[g] = current[g],
         \A g \in Hosts \ {h} : current[g] # t,
         NEW s \in {"stopped", "suspended"}, state' = [state EXCEPT ![t] = s]
  PROVE  RunningIsExecuting'
<1> USE DEF IInv, RunningIsExecuting
<1>1. cpu'[h].stack = h
  BY DEF HostContext
<1>2. OnCurrentStack'
  BY <1>1 DEF OnCurrentStack
<1>3. RunningSomewhere'
  <2>1. state'[t] # "running" /\ \A g \in Hosts : current'[g] # t
    BY NamesAssumption DEF TypeOK
  <2>2. ASSUME NEW u \in Threads \ {t}
        PROVE  state'[u] = "running" <=> \E g \in Hosts : current'[g] = u
    <3>1. state'[u] = state[u] /\ u # None
      BY NamesAssumption DEF TypeOK
    <3>2. \A g \in Hosts : current'[g] = u <=> current[g] = u
      BY <3>1
    <3> QED
      BY <3>1, <3>2 DEF RunningSomewhere
  <2> QED
    BY <2>1, <2>2 DEF RunningSomewhere
<1>4. OneHostEach'
  BY DEF OneHostEach
<1> QED
  BY <1>2, <1>3, <1>4

(* A thread's yield, which hands its host back, keeps IInv.                 *)
LEMMA YieldKeeps ==
  ASSUME IInv, TypeOK', NEW h \in Hosts, Yield(h)
  PROVE  IInv'
<1> USE DEF IInv
<1> DEFINE t == current[h]
<1>1. t \in Threads /\ t # None
  BY DEF Yield, TypeOK
<1>2. /\ cpu'[h] = HostContext(h, calls[h])
      /\ current'[h] = None
      /\ mine'[t] = ThreadContext(t, starts[t], reached[t] + 1)
      /\ \A g \in Hosts \ {h} : cpu'[g] = cpu[g] /\ current'[g] = current[g]
      /\ \A u \in Threads \ {t} : mine'[u] = mine[u]
      /\ \A g \in Hosts \ {h} : current[g] # t
  BY <1>1, LeavesToCaller DEF Yield
<1>3. /\ state' = [state EXCEPT ![t] = "suspended"]
      /\ reached' = [reached EXCEPT ![t] = @ + 1]
      /\ UNCHANGED <<object, main, starts, calls>>
  BY DEF Yield
<1> HIDE DEF t
<1>4. RunningIsExecuting'
  BY <1>1, <1>2, <1>3, RunningAfterLeaving DEF t
<1>5. ReturnsToCaller'
  BY <1>2, <1>3 DEF ReturnsToCaller
<1>6. NoLostProgress'
  BY <1>1, <1>2, <1>3 DEF NoLostProgress, TypeOK
<1>7. NoDeadStack'
  BY <1>2, <1>3, NamesAssumption DEF NoDeadStack, HostContext
<1> QED
  BY <1>4, <1>5, <1>6, <1>7

(* A thread's return, after which its host runs again, keeps IInv.          *)
LEMMA FinishKeeps ==
  ASSUME IInv, TypeOK', NEW h \in Hosts, Finish(h)
  PROVE  IInv'
<1> USE DEF IInv
<1> DEFINE t == current[h]
<1>1. t \in Threads /\ t # None /\ cpu[h].stack = t
  BY NamesAssumption DEF Finish, RunningIsExecuting, OnCurrentStack, TypeOK
<1>2. /\ cpu'[h] = HostContext(h, calls[h])
      /\ current'[h] = None
      /\ \A g \in Hosts \ {h} : cpu'[g] = cpu[g] /\ current'[g] = current[g]
      /\ \A u \in Threads \ {t} : mine'[u] = mine[u]
      /\ \A g \in Hosts \ {h} : current[g] # t
  BY <1>1, LeavesToCaller DEF Finish
<1>3. /\ state' = [state EXCEPT ![t] = "stopped"]
      /\ UNCHANGED <<object, main, starts, reached, calls>>
  BY <1>1 DEF Finish
<1> HIDE DEF t
<1>4. RunningIsExecuting'
  BY <1>1, <1>2, <1>3, RunningAfterLeaving DEF t
<1>5. ReturnsToCaller'
  BY <1>2, <1>3 DEF ReturnsToCaller
<1>6. NoLostProgress'
  BY <1>1, <1>2, <1>3 DEF NoLostProgress, TypeOK
<1>7. NoDeadStack'
  BY <1>2, <1>3, NamesAssumption DEF NoDeadStack, HostContext
<1> QED
  BY <1>4, <1>5, <1>6, <1>7

(* Destroying spares the VMThread a host is on: the assertion catches it.   *)
LEMMA DestroyKeeps ==
  ASSUME IInv, TypeOK', NEW h \in Hosts, NEW t \in Threads, Destroy(h, t)
  PROVE  IInv'
<1> USE DEF IInv
<1>1. UNCHANGED <<state, current, cpu, mine, main, starts, reached, calls>>
  BY DEF Destroy
<1>2. NoDeadStack'
  <2>1. CASE MayDestroy(h, t)
    <3>1. \A g \in Hosts : cpu[g].stack # t
      BY <2>1, NamesAssumption
      DEF MayDestroy, RunningIsExecuting, OnCurrentStack, RunningSomewhere
    <3> QED
      BY <1>1, <2>1, <3>1 DEF Destroy, NoDeadStack, TypeOK
  <2>2. CASE ~MayDestroy(h, t)
    BY <1>1, <2>2 DEF Destroy, NoDeadStack
  <2> QED
    BY <2>1, <2>2
<1> QED
  BY <1>1, <1>2
  DEF RunningIsExecuting, OnCurrentStack, RunningSomewhere, OneHostEach,
      ReturnsToCaller, NoLostProgress

(* At the start every host runs on its own stack and no thread has begun.   *)
LEMMA Initially == Init => IInv
<1> SUFFICES ASSUME Init PROVE IInv
  OBVIOUS
<1>1. \A h \in Hosts : cpu[h].stack = h /\ current[h] = None
  BY DEF Init, HostContext
<1>2. \A t \in Threads : state[t] = "stopped" /\ t # None
  BY NamesAssumption DEF Init
<1>3. RunningIsExecuting
  BY <1>1, <1>2
  DEF RunningIsExecuting, OnCurrentStack, RunningSomewhere, OneHostEach
<1>4. ReturnsToCaller /\ NoLostProgress
  BY <1>1, <1>2 DEF Init, ReturnsToCaller, NoLostProgress
<1>5. NoDeadStack
  BY <1>1, NamesAssumption DEF NoDeadStack
<1> QED
  BY <1>3, <1>4, <1>5, InitTyped DEF IInv

(* The inductive invariant of the class.                                    *)
THEOREM Switching == Spec => []IInv
<1>1. IInv /\ TypeOK' /\ [Next]_vars => IInv'
  <2> SUFFICES ASSUME IInv, TypeOK', [Next]_vars PROVE IInv'
    OBVIOUS
  <2> USE DEF IInv
  <2>1. ASSUME NEW h \in Hosts, NEW t \in Threads, Create(h, t) PROVE IInv'
    <3>1. NoDeadStack'
      BY <2>1 DEF Create, NoDeadStack, TypeOK
    <3> QED
      BY <2>1, <3>1
      DEF Create, RunningIsExecuting, OnCurrentStack, RunningSomewhere,
          OneHostEach, ReturnsToCaller, NoLostProgress
  <2>2. ASSUME NEW h \in Hosts, NEW t \in Threads, Resume(h, t) PROVE IInv'
    BY <2>2, ResumeKeeps
  <2>3. ASSUME NEW h \in Hosts, Yield(h) PROVE IInv'
    BY <2>3, YieldKeeps
  <2>4. ASSUME NEW h \in Hosts, Finish(h) PROVE IInv'
    BY <2>4, FinishKeeps
  <2>5. ASSUME NEW h \in Hosts, NEW t \in Threads, Stop(h, t) PROVE IInv'
    BY <2>5
    DEF Stop, MayStop, RunningIsExecuting, OnCurrentStack, RunningSomewhere,
        OneHostEach, ReturnsToCaller, NoLostProgress,
        NoDeadStack, TypeOK
  <2>6. ASSUME NEW h \in Hosts, NEW t \in Threads, Destroy(h, t) PROVE IInv'
    BY <2>6, DestroyKeeps
  <2>7. ASSUME NEW h \in Hosts, FuncThrows(h) PROVE IInv'
    BY <2>7
    DEF FuncThrows, RunningIsExecuting, OnCurrentStack, RunningSomewhere,
        OneHostEach, ReturnsToCaller, NoLostProgress,
        NoDeadStack
  <2>8. CASE UNCHANGED vars
    BY <2>8
    DEF vars, RunningIsExecuting, OnCurrentStack, RunningSomewhere,
        OneHostEach, ReturnsToCaller, NoLostProgress, NoDeadStack
  <2> QED
    BY <2>1, <2>2, <2>3, <2>4, <2>5, <2>6, <2>7, <2>8 DEF Next
<1> QED
  BY <1>1, Initially, TypeCorrect, PTL DEF Spec

(* _state, current_vm_thread and the executing stack always agree.          *)
THEOREM RunningIsExecutingHolds == Spec => []RunningIsExecuting
  BY Switching, PTL DEF IInv

(* Every switch out of the VM lands in the latest caller of Resume.         *)
THEOREM ReturnsToCallerHolds == Spec => []ReturnsToCaller
  BY Switching, PTL DEF IInv

(* An activation continues exactly where it yielded, and an abandoned one   *)
(* never does.                                                              *)
THEOREM NoLostProgressHolds == Spec => []NoLostProgress
  BY Switching, PTL DEF IInv

(* No host executes on the stack of a destroyed VMThread.                   *)
THEOREM NoDeadStackHolds == Spec => []NoDeadStack
  BY Switching, PTL DEF IInv
=============================================================================
