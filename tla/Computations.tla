---------------------------- MODULE Computations ----------------------------
(***************************************************************************)
(* What FunctionHandle::Invoke and Computation promise (function_handle.h  *)
(* 15-24, 66-75; vm.h "Only one live DynamicComputation is allowed at      *)
(* once"), without stacks, threads or closures: a computation that was     *)
(* accepted is live until it finishes, once, or is given up, for good; a   *)
(* VM has at most one live computation.                                    *)
(***************************************************************************)
CONSTANTS VMs, Comps, None

VARIABLES status,   \* "idle", "live", "finished" or "void"
          on        \* the VM each computation was accepted by

Init ==
  /\ status = [c \in Comps |-> "idle"]
  /\ on = [c \in Comps |-> None]

Busy(v) == \E c \in Comps : status[c] = "live" /\ on[c] = v

Accept(c, v) ==
  /\ status[c] = "idle"
  /\ ~Busy(v)
  /\ status' = [status EXCEPT ![c] = "live"]
  /\ on' = [on EXCEPT ![c] = v]

Refuse(c, v) ==
  /\ status[c] = "idle"
  /\ Busy(v)
  /\ status' = [status EXCEPT ![c] = "void"]
  /\ UNCHANGED on

Finish(c) ==
  /\ status[c] = "live"
  /\ status' = [status EXCEPT ![c] = "finished"]
  /\ UNCHANGED on

GiveUp(c) ==
  /\ status[c] = "live"
  /\ status' = [status EXCEPT ![c] = "void"]
  /\ UNCHANGED on

Next ==
  \E c \in Comps :
    \/ Finish(c) \/ GiveUp(c)
    \/ \E v \in VMs : Accept(c, v) \/ Refuse(c, v)

Spec == Init /\ [][Next]_<<status, on>>
=============================================================================
