----------------------------- MODULE Coroutine -----------------------------
(***************************************************************************)
(* base/coro.h: futures whose coroutines start suspended, hand control to   *)
(* what they await by symmetric transfer, and hand it back at their final   *)
(* suspension.  Every frame on the heap, who owns its Future, and where     *)
(* control is.  The bodies are those of any coroutine: they create, drop,   *)
(* pass on and await futures, and end with a value or an exception.         *)
(*                                                                         *)
(* The compiler's part (what co_await and resume do to a frame) is          *)
(* external.  A Future is awaited or got once, as everywhere in src.        *)
(***************************************************************************)
EXTENDS Integers, Sequences, FiniteSets

CONSTANTS
  Frames,  \* coroutines, each called once
  Voids,   \* those whose promise is a Promise<void>
  Host, Null, Noop

ASSUME FrameAssumption ==
  /\ Voids \subseteq Frames /\ {Host, Null, Noop} \cap Frames = {}
  /\ Host # Null /\ Host # Noop /\ Null # Noop
  /\ IsFiniteSet(Frames)

VARIABLES
  frame,    \* none, initial, body, final or destroyed
  parent,   \* _chain.parent: a frame, Null, or Noop for get's
  result,   \* _result: none, value or exception
  owner,    \* who holds the Future, Null if nobody
  awaits,   \* the frame whose co_await a frame is suspended in, or Null
  current,  \* who executes: Host or a frame
  getting,  \* the frame whose get the host is in, or Null
  detached, \* frames whose handle the host took out of the Future
  ended,    \* history: how each body ended
  seen      \* history: what await_resume made of it

vars == <<frame, parent, result, owner, awaits, current, getting,
          detached, ended, seen>>

Init ==
  /\ frame = [f \in Frames |-> "none"]
  /\ parent = [f \in Frames |-> Null]
  /\ result = [f \in Frames |-> "none"]
  /\ owner = [f \in Frames |-> Null]
  /\ awaits = [f \in Frames |-> Null]
  /\ current = Host
  /\ getting = Null
  /\ detached = {}
  /\ ended = [f \in Frames |-> "none"]
  /\ seen = [f \in Frames |-> "none"]

-----------------------------------------------------------------------------
Live(f) == frame[f] \in {"initial", "body", "final"}
Owned(c) == {f \in Frames : owner[f] = c /\ Live(f)}

\* Whoever runs user code: the embedder, or a body that is not in co_await.
Runs(c) == /\ current = c
           /\ IF c = Host THEN getting = Null ELSE awaits[c] = Null

(* Destroying a frame destroys the futures in it, and so on.                *)
Closed(fs) == \A f \in fs : Owned(f) \subseteq fs
With(fs) ==
  LET closed == {gs \in SUBSET Frames : fs \subseteq gs /\ Closed(gs)}
  IN  {f \in Frames : \A gs \in closed : f \in gs}
Destroyed(fs) == [f \in Frames |-> IF f \in With(fs) /\ Live(f)
                                   THEN "destroyed" ELSE frame[f]]

\* Frames are interchangeable: the next one of a type is as good as any.
Fresh(void) ==
  CHOOSE f \in Frames : frame[f] = "none" /\ (f \in Voids) = void

(* A call of a coroutine function: get_return_object, and initial_suspend   *)
(* at once.  The futures that are passed to it are moved into its frame.    *)
Create(c, f, moved) ==
  /\ Runs(c)
  /\ frame[f] = "none" /\ f = Fresh(f \in Voids)
  /\ \A a \in moved : owner[a] = c /\ frame[a] = "initial"
  /\ frame' = [frame EXCEPT ![f] = "initial"]
  /\ owner' = [a \in Frames |-> IF a = f THEN c
                                ELSE IF a \in moved THEN f ELSE owner[a]]
  /\ UNCHANGED <<parent, result, awaits, current, getting, detached, ended,
                 seen>>

\* ~Future.
Drop(c, f) ==
  /\ Runs(c)
  /\ f \in Owned(c)
  /\ frame' = Destroyed({f})
  /\ UNCHANGED <<parent, result, owner, awaits, current, getting,
                 detached, ended, seen>>

-----------------------------------------------------------------------------
\* Mistake: the chain is not set.
ChainedNot(f, p) == parent

\* await_suspend.
Chained(f, p) == [parent EXCEPT ![f] = p]

(* co_await f in the body of c: control goes straight to f.                 *)
Await(c, f) ==
  /\ Runs(c) /\ c # Host
  /\ owner[f] = c /\ frame[f] = "initial"
  /\ parent' = Chained(f, c)
  /\ awaits' = [awaits EXCEPT ![c] = f]
  /\ frame' = [frame EXCEPT ![f] = "body"]
  /\ current' = f
  /\ UNCHANGED <<result, owner, getting, detached, ended, seen>>

(* get: the chain ends in a coroutine that does nothing, ...                *)
Get(f) ==
  /\ Runs(Host)
  /\ owner[f] = Host /\ frame[f] = "initial"
  /\ parent' = Chained(f, Noop)
  /\ getting' = f
  /\ UNCHANGED <<frame, result, owner, awaits, current, detached,
                 ended, seen>>

(* ... and it is resumed until it is done.                                  *)
GetResumes ==
  /\ current = Host /\ getting # Null /\ frame[getting] # "final"
  /\ frame' = [frame EXCEPT ![getting] = "body"]
  /\ current' = getting
  /\ UNCHANGED <<parent, result, owner, awaits, getting, detached,
                 ended, seen>>

(* The conversion to a coroutine_handle: the Future gives its coroutine     *)
(* away, and whoever has the handle resumes it.                             *)
Detach(f) ==
  /\ Runs(Host)
  /\ owner[f] = Host /\ frame[f] = "initial"
  /\ owner' = [owner EXCEPT ![f] = Null]
  /\ detached' = detached \cup {f}
  /\ UNCHANGED <<frame, parent, result, awaits, current, getting,
                 ended, seen>>

ResumeDetached(f) ==
  /\ Runs(Host)
  /\ f \in detached /\ frame[f] = "initial"
  /\ frame' = [frame EXCEPT ![f] = "body"]
  /\ current' = f
  /\ UNCHANGED <<parent, result, owner, awaits, getting, detached,
                 ended, seen>>

-----------------------------------------------------------------------------
\* Mistake: Promise<void> keeps no exception.
StoredUnlessVoid(f, o) == IF f \in Voids THEN "none" ELSE o

(* return_value, return_void and unhandled_exception.                       *)
Stored(f, o) == IF f \in Voids /\ o = "value" THEN "none" ELSE o

\* AwaiterNode::await_ready: nobody waits, and the body runs off its end.
Ready(f) == parent[f] = Null

\* Mistake: control goes back to whoever resumed the outermost coroutine.
TransferToHost(f) == Host

(* AwaiterNode::await_suspend: control goes to the parent, the coroutine    *)
(* that does nothing returns it to get.                                     *)
Transfer(f) == IF parent[f] \in Frames THEN parent[f] ELSE Host

\* Mistake: futures that were not awaited outlive the body.
LocalsKept(c) == {}

\* The futures that end with the body.
Locals(c) == Owned(c)

(* The body ends: what it keeps is destroyed, its outcome stored, and       *)
(* final_suspend reached.                                                   *)
Return(c, o) ==
  /\ Runs(c) /\ c # Host
  /\ result' = [result EXCEPT ![c] = Stored(c, o)]
  /\ ended' = [ended EXCEPT ![c] = o]
  /\ frame' = [Destroyed(Locals(c)) EXCEPT ![c] =
                 IF Ready(c) THEN "destroyed" ELSE "final"]
  /\ current' = IF Ready(c) THEN Host ELSE Transfer(c)
  /\ UNCHANGED <<parent, owner, awaits, getting, detached, seen>>

(* Future::await_resume; anything else that is not a value is taken for an  *)
(* exception, and an empty one of a Promise<void> for a value.              *)
Outcome(f) == CASE result[f] = "value"     -> "value"
                [] result[f] = "exception" -> "exception"
                [] result[f] = "none"      ->
                     IF f \in Voids THEN "value" ELSE "bad variant access"

(* c goes on after co_await; the future was a temporary of the expression.  *)
Continue(c) ==
  /\ current = c /\ c # Host /\ awaits[c] # Null
  /\ seen' = [seen EXCEPT ![awaits[c]] = Outcome(awaits[c])]
  /\ awaits' = [awaits EXCEPT ![c] = Null]
  /\ frame' = Destroyed({awaits[c]})
  /\ UNCHANGED <<parent, result, owner, current, getting, detached,
                 ended>>

GetReturns ==
  /\ current = Host /\ getting # Null /\ frame[getting] = "final"
  /\ seen' = [seen EXCEPT ![getting] = Outcome(getting)]
  /\ getting' = Null
  /\ UNCHANGED <<frame, parent, result, owner, awaits, current,
                 detached, ended>>

-----------------------------------------------------------------------------
Body(c) ==
  \/ \E f \in Frames, moved \in SUBSET Owned(c) : Create(c, f, moved)
  \/ \E f \in Frames : Drop(c, f)
  \/ \E f \in Frames : Await(c, f)
  \/ \E o \in {"value", "exception"} : Return(c, o)
  \/ Continue(c)

Embedder ==
  \/ \E f \in Frames, moved \in SUBSET Owned(Host) : Create(Host, f, moved)
  \/ \E f \in Frames : Drop(Host, f) \/ Get(f) \/ Detach(f)
                         \/ ResumeDetached(f)

Loop == GetResumes \/ GetReturns

Next == Embedder \/ Loop \/ \E c \in Frames : Body(c)

(* Bodies do something as long as they run, and end: they create finitely   *)
(* many futures.  get's loop runs by itself.                                *)
Spec == /\ Init /\ [][Next]_vars
        /\ WF_vars(Loop) /\ \A c \in Frames : WF_vars(Body(c))

-----------------------------------------------------------------------------
TypeOK ==
  /\ frame \in [Frames -> {"none", "initial", "body", "final", "destroyed"}]
  /\ parent \in [Frames -> Frames \cup {Null, Noop}]
  /\ result \in [Frames -> {"none", "value", "exception"}]
  /\ owner \in [Frames -> Frames \cup {Host, Null}]
  /\ awaits \in [Frames -> Frames \cup {Null}]
  /\ current \in Frames \cup {Host}
  /\ getting \in Frames \cup {Null}
  /\ detached \subseteq Frames
  /\ ended \in [Frames -> {"none", "value", "exception"}]
  /\ seen \in [Frames -> {"none", "value", "exception"}]

(* Symmetric transfer: control is never in a frame that is not alive, and   *)
(* whatever a running coroutine returns to is alive and suspended in just   *)
(* that co_await, or in get.  State is typed.                               *)
ControlIsChained ==
  /\ TypeOK
  /\ current # Host => frame[current] = "body"
  /\ \A f \in Frames : frame[f] = "body" =>
       /\ parent[f] \in Frames =>
            frame[parent[f]] = "body" /\ awaits[parent[f]] = f
       /\ parent[f] = Noop => getting = f
       /\ parent[f] = Null => f \in detached
       /\ current = f \/ (awaits[f] # Null /\ Live(awaits[f]))

\* Every live frame has one owner that is alive, or a detached handle.
NothingLeaks == \A f \in Frames : Live(f) =>
  \/ owner[f] = Host
  \/ owner[f] \in Frames /\ Live(owner[f])
  \/ f \in detached /\ frame[f] # "final"

\* A coroutine that runs has no future of its own half way: they have not
\* begun, or they are over.
NoneHalfWay ==
  /\ current \in Frames /\ awaits[current] = Null =>
       \A f \in Owned(current) : frame[f] # "body"
  /\ current = Host => \A f \in Frames : frame[f] # "body"

(* ~Future and the frames that destroy themselves: nothing leaks, and       *)
(* ~Future never destroys a coroutine in the middle of its body.            *)
FuturesOwnFrames == NothingLeaks /\ NoneHalfWay

(* Future::await_resume: what it returns or rethrows is how the body ended, *)
(* for every type of result and only once the body ended.                   *)
SeesOutcome == \A f \in Frames : seen[f] # "none" => seen[f] = ended[f]

(* The frames control will return through, innermost last.                  *)
Innermost == IF current = Host THEN getting
             ELSE IF awaits[current] # Null THEN awaits[current] ELSE current
Above == LET chain[n \in 0..Cardinality(Frames)] ==
               IF n = 0 THEN IF Innermost \in Frames THEN <<Innermost>> ELSE <<>>
               ELSE LET rest == chain[n - 1] IN
                    IF rest # <<>> /\ parent[Head(rest)] \in Frames
                    THEN <<parent[Head(rest)]>> \o rest ELSE rest
         IN  chain[Cardinality(Frames)]
Delivered == [f \in Frames |->
  IF f \in detached /\ frame[f] = "destroyed" THEN "unseen" ELSE seen[f]]

Calls == INSTANCE NestedCalls WITH stack <- Above, seen <- Delivered

(* Coroutines behave like functions that call one another.                  *)
BehavesLikeCalls == Calls!Spec

(* Whatever the embedder gets or resumes comes back to it: every get        *)
(* returns, and every body that was entered ends.                           *)
EverythingEnds == ~Runs(Host) ~> Runs(Host)
=============================================================================
