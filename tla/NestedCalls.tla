---------------------------- MODULE NestedCalls ----------------------------
(***************************************************************************)
(* What base/coro.h promises of coroutines that await one another: they    *)
(* behave like functions that call one another.  Each runs at most once,   *)
(* calls nest, control comes back to the caller, and the caller sees how   *)
(* its callee ended.                                                       *)
(***************************************************************************)
EXTENDS Naturals, Sequences

CONSTANT Frames  \* the coroutines

VARIABLES
  stack,  \* the calls that are not over, innermost last
  seen    \* how each ended for its caller, "none" before that

Outcomes == {"value", "exception"}

Init == stack = <<>> /\ seen = [f \in Frames |-> "none"]

Call(f) ==
  /\ seen[f] = "none" /\ \A i \in DOMAIN stack : stack[i] # f
  /\ stack' = Append(stack, f)
  /\ UNCHANGED seen

\* A detached coroutine has no caller to see its outcome.
Return(o) ==
  /\ stack # <<>>
  /\ LET top == stack[Len(stack)] IN seen' = [seen EXCEPT ![top] = o]
  /\ stack' = SubSeq(stack, 1, Len(stack) - 1)

Next == \/ \E f \in Frames : Call(f)
        \/ \E o \in Outcomes \cup {"unseen"} : Return(o)

Spec == Init /\ [][Next]_<<stack, seen>>
=============================================================================
