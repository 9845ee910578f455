--------------------------- MODULE CoroutineProofs ---------------------------
(***************************************************************************)
(* Proofs about Coroutine for any number of frames: control is always in a *)
(* frame that is alive, a Future destroys nothing but what has not begun   *)
(* or is over, what is awaited is what the body ended with, and all this   *)
(* implements NestedCalls.                                                 *)
(***************************************************************************)
EXTENDS Coroutine, TLAPS, FiniteSetTheorems, SequenceTheorems,
        WellFoundedInduction

Bodies == {f \in Frames : frame[f] = "body"}

\* A set of frames in their bodies in which each awaits another of the set,
\* unless control is in it.
Waiting(fs) ==
  /\ fs \subseteq Bodies
  /\ \A f \in fs : f # current => awaits[f] \in fs

(* Where control is.  Following co_awaits from any body leads to it: no set *)
(* of bodies waits for one another only, which is said without counting.    *)
Running ==
  /\ current # Host => frame[current] = "body"
  /\ current = Host => Bodies = {}
  /\ \A f \in Bodies : current = f \/ awaits[f] # Null
  /\ \A fs \in SUBSET Frames : Waiting(fs) /\ fs # {} => current \in fs

(* A body was entered by its owner's co_await, by get, or by its handle.    *)
Entered ==
  \A f \in Bodies :
    \/ owner[f] \in Frames /\ parent[f] = owner[f] /\ awaits[owner[f]] = f
    \/ owner[f] = Host /\ parent[f] = Noop /\ getting = f
    \/ owner[f] = Null /\ parent[f] = Null /\ f \in detached

(* What is awaited or got runs, or has just handed control back.            *)
Awaiting ==
  /\ \A f \in Frames : awaits[f] # Null =>
       /\ frame[f] = "body" /\ owner[awaits[f]] = f
       /\ IF current = f THEN frame[awaits[f]] = "final"
                         ELSE frame[awaits[f]] = "body"
  /\ getting # Null =>
       /\ owner[getting] = Host
       /\ IF current = Host THEN frame[getting] \in {"initial", "final"}
                            ELSE frame[getting] = "body"

(* What has not begun owns only what has not begun either, what is over     *)
(* owns nothing, and what nobody owns has its handle outside.               *)
Owning ==
  /\ \A f, g \in Frames : owner[g] = f /\ Live(g) =>
       /\ frame[f] \in {"initial", "body"}
       /\ frame[f] = "initial" => frame[g] = "initial"
  /\ \A f \in Frames : Live(f) /\ owner[f] = Null => f \in detached
  /\ \A f \in detached : /\ owner[f] = Null /\ parent[f] = Null
                         /\ frame[f] \notin {"none", "final"}

(* The chain is set when a coroutine is entered.                            *)
Starting ==
  \A f \in Frames : frame[f] \in {"none", "initial"} =>
    parent[f] = IF getting = f THEN Noop ELSE Null

(* The outcome is stored once, when the body ends, and seen after that.     *)
Outcomes ==
  \A f \in Frames :
    /\ frame[f] = "final" => /\ ended[f] # "none"
                             /\ result[f] = Stored(f, ended[f])
    /\ seen[f] # "none" => /\ frame[f] \in {"final", "destroyed"}
                           /\ seen[f] = ended[f]

IInv == /\ TypeOK /\ Running /\ Entered /\ Awaiting /\ Owning /\ Starting
        /\ Outcomes

-----------------------------------------------------------------------------
(* With is the least set that has fs and is closed under owning.            *)
LEMMA WithIsClosed ==
  ASSUME NEW fs \in SUBSET Frames
  PROVE  /\ fs \subseteq With(fs) /\ With(fs) \subseteq Frames
         /\ \A f \in With(fs) : Owned(f) \subseteq With(fs)
BY DEF With, Closed, Owned

(* Any other such set has all of it.                                       *)
LEMMA WithIsLeast ==
  ASSUME NEW fs \in SUBSET Frames, NEW gs \in SUBSET Frames,
         fs \subseteq gs, \A f \in gs : Owned(f) \subseteq gs
  PROVE  With(fs) \subseteq gs
BY DEF With, Closed

(* Destroying futures that are not half way destroys no body, and nothing   *)
(* that is over but those themselves.                                       *)
LEMMA WhatIsDestroyed ==
  ASSUME IInv, NEW fs \in SUBSET Frames, \A f \in fs : frame[f] # "body"
  PROVE  \A f \in With(fs) : f \notin fs => frame[f] \notin {"body", "final"}
<1> DEFINE gs == fs \cup {f \in Frames : frame[f] \notin {"body", "final"}}
<1>1. \A f \in gs : Owned(f) \subseteq gs
  <2> SUFFICES ASSUME NEW f \in gs, NEW g \in Owned(f) PROVE frame[g] = "initial"
    BY DEF Owned
  <2> QED
    BY DEF Owned, IInv, Owning
<1>2. With(fs) \subseteq gs
  BY <1>1, WithIsLeast
<1> QED
  BY <1>2

(* Control is in the only body left if nobody awaits it.                    *)
LEMMA Outermost ==
  ASSUME IInv, NEW c \in Frames, current = c, awaits[c] = Null,
         owner[c] \notin Frames
  PROVE  Bodies = {c}
<1>1. c \in Bodies
  BY FrameAssumption DEF IInv, Running, Bodies
<1> DEFINE fs == Bodies \ {c}
<1>2. Waiting(fs)
  <2> SUFFICES ASSUME NEW f \in fs PROVE awaits[f] \in fs
    BY DEF Waiting
  <2>1. f \in Frames /\ awaits[f] # Null
    BY DEF IInv, Running, Bodies
  <2>2. awaits[f] \in Frames /\ owner[awaits[f]] = f /\ frame[awaits[f]] = "body"
    BY <2>1 DEF IInv, Awaiting, TypeOK
  <2> QED
    BY <2>1, <2>2 DEF Bodies
<1>3. fs = {}
  BY <1>2 DEF IInv, Running, Bodies
<1> QED
  BY <1>1, <1>3

-----------------------------------------------------------------------------
(* A step that leaves bodies and co_awaits alone keeps control where it is. *)
LEMMA RunningKept ==
  ASSUME Running, UNCHANGED <<current, awaits>>, Bodies' = Bodies,
         current # Host => current \in Frames
  PROVE  Running'
<1>1. \A fs : Waiting(fs)' <=> Waiting(fs)
  BY DEF Waiting
<1>2. current # Host => frame'[current] = "body"
  BY DEF Running, Bodies
<1> QED
  BY <1>1, <1>2 DEF Running

(* The caller of a coroutine is the embedder or a body outside co_await.    *)
LEMMA Caller ==
  ASSUME IInv, NEW c, Runs(c)
  PROVE  /\ c = current
         /\ c # Host => c \in Frames /\ frame[c] = "body" /\ awaits[c] = Null
         /\ c = Host => getting = Null /\ Bodies = {}
BY DEF Runs, IInv, Running, TypeOK

(* A new coroutine has not begun, and takes over what has not begun.       *)
LEMMA CreateKeeps ==
  ASSUME IInv, NEW c, NEW f \in Frames, NEW moved \in SUBSET Owned(c),
         Create(c, f, moved)
  PROVE  IInv'
<1>1. /\ frame[f] = "none" /\ frame' = [frame EXCEPT ![f] = "initial"]
      /\ \A a \in moved : a \in Frames /\ owner[a] = c /\ frame[a] = "initial"
      /\ owner' = [a \in Frames |-> IF a = f THEN c
                                    ELSE IF a \in moved THEN f ELSE owner[a]]
      /\ UNCHANGED <<parent, result, awaits, current, getting, detached, ended,
                     seen>>
  BY DEF Create, Owned
<1>2. /\ c = current /\ c \in Frames \cup {Host}
      /\ c # Host => frame[c] = "body" /\ awaits[c] = Null
  BY Caller DEF Create, IInv, TypeOK
<1>3. TypeOK'
  BY <1>1, <1>2 DEF IInv, TypeOK
<1>4. Bodies' = Bodies /\ \A g \in Frames \ {f} : frame'[g] = frame[g]
  BY <1>1 DEF Bodies, IInv, TypeOK
<1>5. Running'
  BY <1>1, <1>2, <1>4, RunningKept DEF IInv
<1>6. \A g \in Frames : frame[g] \notin {"none", "initial"} => owner'[g] = owner[g]
  BY <1>1
<1>7. Entered'
  BY <1>1, <1>4, <1>6 DEF IInv, Entered, Bodies
<1>8. Awaiting'
  <2>1. ASSUME NEW g \in Frames, awaits[g] # Null
        PROVE  /\ frame'[g] = "body" /\ owner'[awaits[g]] = g
               /\ IF current = g THEN frame'[awaits[g]] = "final"
                                 ELSE frame'[awaits[g]] = "body"
    BY <1>1, <1>4, <1>6, <2>1 DEF IInv, Awaiting, TypeOK
  <2>2. ASSUME getting # Null
        PROVE  /\ owner'[getting] = Host
               /\ IF current = Host THEN frame'[getting] \in {"initial", "final"}
                                    ELSE frame'[getting] = "body"
    <3>1. getting \in Frames /\ owner[getting] = Host /\ c # Host
      BY <2>2, Caller DEF Create, IInv, Awaiting, TypeOK
    <3> QED
      BY <1>1, <1>2, <1>4, <1>6, <2>2, <3>1 DEF IInv, Awaiting
  <2> QED
    BY <1>1, <2>1, <2>2 DEF Awaiting
<1>9. Owning'
  <2>1. \A g \in Frames : frame'[g] = IF g = f THEN "initial" ELSE frame[g]
    BY <1>1 DEF IInv, TypeOK
  <2>2. \A g \in Frames : Live(g) => owner[g] # f
    BY <1>1 DEF IInv, Owning
  <2>3. ASSUME NEW h \in Frames, NEW g \in Frames, owner'[g] = h, Live(g)'
        PROVE  /\ frame'[h] \in {"initial", "body"}
               /\ frame'[h] = "initial" => frame'[g] = "initial"
    BY <1>1, <1>2, <2>1, <2>2, <2>3, FrameAssumption DEF Live, IInv, Owning
  <2>4. ASSUME NEW g \in Frames, Live(g)', owner'[g] = Null PROVE g \in detached
    BY <1>1, <1>2, <2>1, <2>4, FrameAssumption DEF Live, IInv, Owning
  <2>5. ASSUME NEW g \in detached
        PROVE  owner'[g] = Null /\ frame'[g] \notin {"none", "final"}
    <3>1. g \in Frames /\ g # f /\ owner[g] = Null
      BY <1>1 DEF IInv, Owning, TypeOK
    <3>2. g \notin moved
      BY <1>1, <1>2, <3>1, FrameAssumption
    <3> QED
      BY <1>1, <2>1, <3>1, <3>2 DEF IInv, Owning
  <2> QED
    BY <1>1, <2>3, <2>4, <2>5 DEF IInv, Owning
<1>10. Starting'
  BY <1>1, <1>4 DEF IInv, Starting
<1>11. Outcomes'
  BY <1>1, <1>4 DEF IInv, Outcomes, Stored
<1> QED
  BY <1>3, <1>5, <1>7, <1>8, <1>9, <1>10, <1>11 DEF IInv

(* What survives when futures that are not half way are destroyed.          *)
LEMMA Survivors ==
  ASSUME IInv, NEW fs \in SUBSET Frames, \A f \in fs : frame[f] # "body",
         \A f \in Frames :
           frame'[f] = IF f \in With(fs) /\ Live(f) THEN "destroyed" ELSE frame[f]
  PROVE  /\ Bodies' = Bodies
         /\ \A f \in Frames : frame'[f] = frame[f] \/ frame'[f] = "destroyed"
         /\ \A f \in Frames : frame[f] = "final" /\ f \notin fs => frame'[f] = "final"
         /\ \A f, g \in Frames : owner[g] = f /\ Live(g)' =>
              Live(g) /\ frame'[g] = frame[g] /\ frame'[f] = frame[f]
<1>1. \A f \in Frames : frame[f] = "body" => frame'[f] = "body"
  BY WhatIsDestroyed
<1>2. \A f \in Frames : frame[f] = "final" /\ f \notin fs => frame'[f] = "final"
  BY WhatIsDestroyed
<1>3. ASSUME NEW f \in Frames, NEW g \in Frames, owner[g] = f, Live(g)'
      PROVE  Live(g) /\ frame'[g] = frame[g] /\ frame'[f] = frame[f]
  <2>1. Live(g) /\ g \notin With(fs)
    BY <1>3 DEF Live
  <2>2. f \notin With(fs)
    BY <1>3, <2>1, WithIsClosed DEF Owned
  <2> QED
    BY <2>1, <2>2
<1> QED
  BY <1>1, <1>2, <1>3 DEF Bodies

(* What survives is owned by what survives.                                *)
LEMMA OwningSurvives ==
  ASSUME IInv, UNCHANGED <<owner, parent, detached>>,
         \A f \in Frames : frame'[f] = frame[f] \/ frame'[f] = "destroyed",
         \A f, g \in Frames : owner[g] = f /\ Live(g)' =>
           Live(g) /\ frame'[g] = frame[g] /\ frame'[f] = frame[f]
  PROVE  Owning'
<1>1. \A f \in Frames : Live(f)' => Live(f)
  BY DEF Live
<1>2. ASSUME NEW f \in Frames, NEW g \in Frames, owner'[g] = f, Live(g)'
      PROVE  /\ frame'[f] \in {"initial", "body"}
             /\ frame'[f] = "initial" => frame'[g] = "initial"
  BY <1>2 DEF IInv, Owning
<1>3. \A f \in Frames : Live(f)' /\ owner'[f] = Null => f \in detached'
  BY <1>1 DEF IInv, Owning
<1>4. \A f \in detached' : /\ owner'[f] = Null /\ parent'[f] = Null
                           /\ frame'[f] \notin {"none", "final"}
  BY DEF IInv, Owning, TypeOK
<1> QED
  BY <1>2, <1>3, <1>4 DEF Owning

(* ~Future destroys what has not begun or is over.                          *)
LEMMA DropKeeps ==
  ASSUME IInv, NEW c, NEW f \in Frames, Drop(c, f)
  PROVE  IInv'
<1>1. /\ f \in Owned(c) /\ frame' = Destroyed({f})
      /\ UNCHANGED <<parent, result, owner, awaits, current, getting, detached,
                     ended, seen>>
  BY DEF Drop
<1>2. /\ c = current /\ c \in Frames \cup {Host}
      /\ c # Host => frame[c] = "body" /\ awaits[c] = Null
      /\ c = Host => getting = Null /\ Bodies = {}
  BY Caller DEF Drop, IInv, TypeOK
<1>3. frame[f] # "body" /\ owner[f] = c
  BY <1>1, <1>2, FrameAssumption DEF Owned, Bodies, IInv, Entered
<1>4. \A g \in Frames :
        frame'[g] = IF g \in With({f}) /\ Live(g) THEN "destroyed" ELSE frame[g]
  BY <1>1 DEF Destroyed
<1>5. /\ Bodies' = Bodies
      /\ \A g \in Frames : frame'[g] = frame[g] \/ frame'[g] = "destroyed"
      /\ \A g \in Frames : frame[g] = "final" /\ g # f => frame'[g] = "final"
      /\ \A g, h \in Frames : owner[h] = g /\ Live(h)' =>
           Live(h) /\ frame'[h] = frame[h] /\ frame'[g] = frame[g]
  BY <1>3, <1>4, Survivors
<1>6. TypeOK'
  BY <1>1, <1>4 DEF IInv, TypeOK, Destroyed
<1>7. Running'
  BY <1>1, <1>2, <1>5, RunningKept DEF IInv
<1>8. Entered'
  BY <1>1, <1>5 DEF IInv, Entered
<1>9. Awaiting'
  <2>1. ASSUME NEW g \in Frames, awaits[g] # Null
        PROVE  /\ frame'[g] = "body"
               /\ IF current = g THEN frame'[awaits[g]] = "final"
                                 ELSE frame'[awaits[g]] = "body"
    <3>1. /\ awaits[g] \in Frames /\ frame[g] = "body" /\ owner[awaits[g]] = g
          /\ IF current = g THEN frame[awaits[g]] = "final"
                            ELSE frame[awaits[g]] = "body"
      BY <2>1 DEF IInv, Awaiting, TypeOK
    <3>2. awaits[g] # f
      BY <1>2, <1>3, <2>1, <3>1, FrameAssumption
    <3> QED
      BY <1>5, <3>1, <3>2 DEF Bodies
  <2>2. ASSUME getting # Null
        PROVE  current # Host /\ frame'[getting] = "body"
    BY <1>2, <1>5, <2>2 DEF IInv, Awaiting, TypeOK, Bodies
  <2> QED
    BY <1>1, <2>1, <2>2 DEF IInv, Awaiting
<1>10. Owning'
  BY <1>1, <1>5, OwningSurvives
<1>11. Starting'
  BY <1>1, <1>5 DEF IInv, Starting
<1>12. Outcomes'
  BY <1>1, <1>5 DEF IInv, Outcomes, Stored
<1> QED
  BY <1>6, <1>7, <1>8, <1>9, <1>10, <1>11, <1>12 DEF IInv

(* What is over reports how it ended.                                      *)
LEMMA OutcomeIs ==
  ASSUME IInv, NEW f \in Frames, frame[f] = "final"
  PROVE  Outcome(f) = ended[f] /\ ended[f] \in {"value", "exception"}
<1>1. ended[f] \in {"value", "exception"} /\ result[f] = Stored(f, ended[f])
  BY DEF IInv, Outcomes, TypeOK
<1>2. CASE result[f] = "value"
  <2>1. ended[f] = "value"
    BY <1>1, <1>2 DEF Stored
  <2> QED
    BY <1>1, <1>2, <2>1, Zenon DEF Outcome
<1>3. CASE result[f] = "exception"
  <2>1. ended[f] = "exception"
    BY <1>1, <1>3 DEF Stored
  <2> QED
    BY <1>1, <1>3, <2>1, Zenon DEF Outcome
<1>4. CASE result[f] = "none"
  <2>1. ended[f] = "value" /\ f \in Voids
    BY <1>1, <1>4 DEF Stored
  <2> QED
    BY <1>1, <1>4, <2>1, Zenon DEF Outcome
<1> QED
  BY <1>1, <1>2, <1>3, <1>4 DEF IInv, TypeOK

(* The body goes on with the outcome of what it awaited.                    *)
LEMMA ContinueKeeps ==
  ASSUME IInv, NEW c \in Frames, Continue(c)
  PROVE  IInv'
<1> DEFINE g == awaits[c]
<1>1. /\ current = c /\ g # Null
      /\ seen' = [seen EXCEPT ![g] = Outcome(g)]
      /\ awaits' = [awaits EXCEPT ![c] = Null]
      /\ frame' = Destroyed({g})
      /\ UNCHANGED <<parent, result, owner, current, getting, detached, ended>>
  BY DEF Continue
<1>2. g \in Frames /\ owner[g] = c /\ frame[g] = "final" /\ frame[c] = "body"
  BY <1>1 DEF IInv, Awaiting, TypeOK
<1>3. Outcome(g) = ended[g] /\ ended[g] \in {"value", "exception"}
  BY <1>2, OutcomeIs
<1> HIDE DEF g
<1>4. \A h \in Frames :
        frame'[h] = IF h \in With({g}) /\ Live(h) THEN "destroyed" ELSE frame[h]
  BY <1>1 DEF Destroyed
<1>5. /\ Bodies' = Bodies
      /\ \A h \in Frames : frame'[h] = frame[h] \/ frame'[h] = "destroyed"
      /\ \A h \in Frames : frame[h] = "final" /\ h # g => frame'[h] = "final"
      /\ \A h, k \in Frames : owner[k] = h /\ Live(k)' =>
           Live(k) /\ frame'[k] = frame[k] /\ frame'[h] = frame[h]
  BY <1>2, <1>4, Survivors
<1>6. frame'[g] = "destroyed"
  BY <1>2, <1>4, WithIsClosed DEF Live
<1>7. TypeOK'
  BY <1>1, <1>2, <1>3, <1>4 DEF IInv, TypeOK, Destroyed
<1>8. \A h \in Frames : awaits'[h] = IF h = c THEN Null ELSE awaits[h]
  BY <1>1 DEF IInv, TypeOK
<1>9. Running'
  <2>1. ASSUME NEW fs \in SUBSET Frames, Waiting(fs)', c \notin fs
        PROVE  Waiting(fs)
    BY <1>1, <1>5, <1>8, <2>1 DEF Waiting
  <2> QED
    BY <1>1, <1>2, <1>5, <1>8, <2>1, FrameAssumption DEF IInv, Running, Bodies
<1>10. Entered'
  BY <1>1, <1>2, <1>5, <1>8, FrameAssumption DEF IInv, Entered, Bodies, g
<1>11. Awaiting'
  <2>1. ASSUME NEW h \in Frames, awaits'[h] # Null
        PROVE  /\ frame'[h] = "body" /\ owner[awaits[h]] = h /\ current # h
               /\ frame'[awaits[h]] = "body"
    <3>1. h # c /\ awaits'[h] = awaits[h] /\ current # h
      BY <1>1, <1>8, <2>1
    <3>2. /\ awaits[h] \in Frames /\ frame[h] = "body"
          /\ owner[awaits[h]] = h /\ frame[awaits[h]] = "body"
      BY <2>1, <3>1 DEF IInv, Awaiting, TypeOK
    <3> QED
      BY <1>5, <3>1, <3>2 DEF Bodies
  <2>2. ASSUME getting # Null
        PROVE  current # Host /\ frame'[getting] = "body"
    BY <1>1, <1>5, <2>2, FrameAssumption DEF IInv, Awaiting, TypeOK, Bodies
  <2> QED
    BY <1>1, <1>8, <2>1, <2>2 DEF IInv, Awaiting
<1>12. Owning'
  BY <1>1, <1>5, OwningSurvives
<1>13. Starting'
  BY <1>1, <1>5 DEF IInv, Starting
<1>14. Outcomes'
  <2>1. \A h \in Frames : seen'[h] = IF h = g THEN ended[g] ELSE seen[h]
    BY <1>1, <1>3 DEF IInv, TypeOK
  <2> QED
    BY <1>1, <1>5, <1>6, <2>1 DEF IInv, Outcomes, Stored
<1> QED
  BY <1>7, <1>9, <1>10, <1>11, <1>12, <1>13, <1>14 DEF IInv

(* co_await enters what it awaits.                                          *)
LEMMA AwaitKeeps ==
  ASSUME IInv, NEW c \in Frames, NEW f \in Frames, Await(c, f)
  PROVE  IInv'
<1>1. /\ owner[f] = c /\ frame[f] = "initial" /\ c # Host
      /\ parent' = [parent EXCEPT ![f] = c]
      /\ awaits' = [awaits EXCEPT ![c] = f]
      /\ frame' = [frame EXCEPT ![f] = "body"]
      /\ current' = f
      /\ UNCHANGED <<result, owner, getting, detached, ended, seen>>
  BY DEF Await, Chained
<1>2. current = c /\ frame[c] = "body" /\ awaits[c] = Null
  BY <1>1, Caller DEF Await
<1>3. f # c /\ f # Host /\ f # Null /\ c # Null
  BY <1>1, <1>2, FrameAssumption
<1>4. TypeOK'
  BY <1>1 DEF IInv, TypeOK
<1>5. /\ \A g \in Frames : frame'[g] = IF g = f THEN "body" ELSE frame[g]
      /\ \A g \in Frames : awaits'[g] = IF g = c THEN f ELSE awaits[g]
      /\ \A g \in Frames : parent'[g] = IF g = f THEN c ELSE parent[g]
  BY <1>1 DEF IInv, TypeOK
<1>6. Bodies' = Bodies \cup {f} /\ f \notin Bodies
  BY <1>1, <1>5 DEF Bodies
<1>7. Running'
  <2>1. ASSUME NEW fs \in SUBSET Frames, Waiting(fs)', fs # {}, f \notin fs
        PROVE  FALSE
    <3>1. c \in fs => awaits'[c] \in fs
      BY <1>1, <1>3, <2>1 DEF Waiting
    <3>2. c \notin fs
      BY <1>5, <2>1, <3>1
    <3>3. Waiting(fs)
      BY <1>1, <1>5, <1>6, <2>1, <3>2 DEF Waiting
    <3> QED
      BY <1>2, <2>1, <3>2, <3>3 DEF IInv, Running
  <2>2. \A g \in Bodies' : current' = g \/ awaits'[g] # Null
    BY <1>1, <1>2, <1>3, <1>5, <1>6 DEF IInv, Running
  <2>3. current' # Host /\ frame'[current'] = "body"
    BY <1>1, <1>3, <1>5
  <2> QED
    BY <1>1, <2>1, <2>2, <2>3 DEF Running
<1>8. Entered'
  <2> SUFFICES ASSUME NEW g \in Bodies'
               PROVE  \/ /\ owner'[g] \in Frames /\ parent'[g] = owner'[g]
                         /\ awaits'[owner'[g]] = g
                      \/ owner'[g] = Host /\ parent'[g] = Noop /\ getting' = g
                      \/ owner'[g] = Null /\ parent'[g] = Null /\ g \in detached'
    BY DEF Entered
  <2>1. CASE g = f
    BY <1>1, <1>5, <2>1
  <2>2. CASE g # f
    <3>1. g \in Bodies /\ g \in Frames
      BY <1>6, <2>2 DEF Bodies
    <3>2. owner[g] # c
      BY <1>2, <1>3, <3>1, FrameAssumption DEF IInv, Entered, Bodies
    <3> QED
      BY <1>1, <1>5, <2>2, <3>1, <3>2 DEF IInv, Entered
  <2> QED
    BY <2>1, <2>2
<1>9. Awaiting'
  <2>1. ASSUME NEW g \in Frames, awaits'[g] # Null
        PROVE  /\ frame'[g] = "body" /\ owner[awaits'[g]] = g /\ g # f
               /\ frame'[awaits'[g]] = "body"
    <3>1. CASE g = c
      BY <1>1, <1>2, <1>3, <1>5, <3>1
    <3>2. CASE g # c
      <4>1. awaits'[g] = awaits[g] /\ awaits[g] \in Frames
        BY <1>5, <2>1, <3>2 DEF IInv, TypeOK
      <4>2. /\ frame[g] = "body" /\ owner[awaits[g]] = g
            /\ frame[awaits[g]] = "body"
        BY <1>2, <2>1, <3>2, <4>1 DEF IInv, Awaiting
      <4> QED
        BY <1>1, <1>5, <4>1, <4>2
    <3> QED
      BY <3>1, <3>2
  <2>2. ASSUME getting # Null
        PROVE  owner[getting] = Host /\ frame'[getting] = "body"
    BY <1>1, <1>2, <1>5, <2>2 DEF IInv, Awaiting, TypeOK
  <2> QED
    BY <1>1, <1>3, <2>1, <2>2 DEF Awaiting
<1>10. Owning'
  <2>1. \A g \in Frames : Live(g)' <=> Live(g)
    BY <1>1, <1>5 DEF Live
  <2>2. ASSUME NEW g \in Frames, NEW h \in Frames, owner'[h] = g, Live(h)'
        PROVE  /\ frame'[g] \in {"initial", "body"}
               /\ frame'[g] = "initial" => frame'[h] = "initial"
    BY <1>1, <1>2, <1>3, <1>5, <2>1, <2>2 DEF IInv, Owning
  <2>3. f \notin detached
    BY <1>1, <1>3 DEF IInv, Owning
  <2> QED
    BY <1>1, <1>5, <2>1, <2>2, <2>3 DEF IInv, Owning, TypeOK
<1>11. Starting'
  BY <1>1, <1>5 DEF IInv, Starting
<1>12. Outcomes'
  BY <1>1, <1>5 DEF IInv, Outcomes, Stored
<1> QED
  BY <1>4, <1>7, <1>8, <1>9, <1>10, <1>11, <1>12 DEF IInv

(* The host enters a body: nothing else runs.                               *)
LEMMA EnterKeeps ==
  ASSUME IInv, NEW f \in Frames, current = Host, frame[f] = "initial",
         \/ getting = f
         \/ getting = Null /\ f \in detached,
         frame' = [frame EXCEPT ![f] = "body"], current' = f,
         UNCHANGED <<parent, result, owner, awaits, getting, detached, ended,
                     seen>>
  PROVE  IInv'
<1>1. Bodies = {} /\ f # Host /\ f # Null
  BY FrameAssumption DEF IInv, Running
<1>2. TypeOK'
  BY DEF IInv, TypeOK
<1>3. \A g \in Frames : frame'[g] = IF g = f THEN "body" ELSE frame[g]
  BY DEF IInv, TypeOK
<1>4. Bodies' = {f} /\ \A g \in Frames : awaits[g] = Null
  BY <1>1, <1>3 DEF Bodies, IInv, Awaiting
<1>5. Running'
  BY <1>1, <1>3, <1>4 DEF Running, Waiting
<1>6. Entered'
  <2>1. getting = f => owner[f] = Host /\ parent[f] = Noop
    BY <1>1 DEF IInv, Awaiting, Starting
  <2>2. f \in detached => owner[f] = Null /\ parent[f] = Null
    BY DEF IInv, Owning
  <2> QED
    BY <1>4, <2>1, <2>2 DEF Entered
<1>7. Awaiting'
  BY <1>1, <1>3, <1>4 DEF IInv, Awaiting
<1>8. Owning'
  <2>1. \A g \in Frames : Live(g)' <=> Live(g)
    BY <1>3 DEF Live
  <2>2. owner[f] \notin Frames
    BY <1>1, FrameAssumption DEF IInv, Awaiting, Owning
  <2>3. ASSUME NEW g \in Frames, NEW h \in Frames, owner'[h] = g, Live(h)'
        PROVE  /\ frame'[g] \in {"initial", "body"}
               /\ frame'[g] = "initial" => frame'[h] = "initial"
    BY <1>3, <2>1, <2>2, <2>3 DEF IInv, Owning
  <2> QED
    BY <1>3, <2>1, <2>3 DEF IInv, Owning, TypeOK
<1>9. Starting'
  BY <1>3 DEF IInv, Starting
<1>10. Outcomes'
  BY <1>3 DEF IInv, Outcomes, Stored
<1> QED
  BY <1>2, <1>5, <1>6, <1>7, <1>8, <1>9, <1>10 DEF IInv

(* get chains and detaching take the Future away from no running body.      *)
LEMMA HostKeeps ==
  ASSUME IInv, NEW f \in Frames, Get(f) \/ Detach(f) \/ GetReturns
  PROVE  IInv'
<1>1. CASE Get(f)
  <2>1. /\ owner[f] = Host /\ frame[f] = "initial" /\ getting = Null
        /\ current = Host /\ Bodies = {}
        /\ parent' = [parent EXCEPT ![f] = Noop] /\ getting' = f
        /\ UNCHANGED <<frame, result, owner, awaits, current, detached, ended,
                       seen>>
    BY <1>1, Caller DEF Get, Chained, Runs
  <2>2. \A g \in Frames : parent'[g] = IF g = f THEN Noop ELSE parent[g]
    BY <2>1 DEF IInv, TypeOK
  <2>3. TypeOK'
    BY <2>1 DEF IInv, TypeOK
  <2>4. Bodies' = Bodies /\ \A g \in Frames : Live(g)' <=> Live(g)
    BY <2>1 DEF Bodies, Live
  <2>5. Running'
    BY <2>1, <2>4, RunningKept DEF IInv
  <2>6. Entered'
    BY <2>1, <2>4 DEF Entered
  <2>7. Awaiting'
    BY <2>1 DEF IInv, Awaiting
  <2>8. Owning'
    BY <2>1, <2>2, <2>4, FrameAssumption DEF IInv, Owning, TypeOK
  <2>9. Starting'
    <3>1. f # Null
      BY FrameAssumption
    <3> QED
      BY <2>1, <2>2, <3>1, FrameAssumption DEF IInv, Starting
  <2>10. Outcomes'
    BY <2>1 DEF IInv, Outcomes, Stored
  <2> QED
    BY <2>3, <2>5, <2>6, <2>7, <2>8, <2>9, <2>10 DEF IInv
<1>2. CASE Detach(f)
  <2>1. /\ owner[f] = Host /\ frame[f] = "initial" /\ getting = Null
        /\ current = Host /\ Bodies = {}
        /\ owner' = [owner EXCEPT ![f] = Null] /\ detached' = detached \cup {f}
        /\ UNCHANGED <<frame, parent, result, awaits, current, getting, ended,
                       seen>>
    BY <1>2, Caller DEF Detach, Runs
  <2>2. \A g \in Frames : owner'[g] = IF g = f THEN Null ELSE owner[g]
    BY <2>1 DEF IInv, TypeOK
  <2>3. TypeOK'
    BY <2>1 DEF IInv, TypeOK
  <2>4. Bodies' = Bodies /\ \A g \in Frames : Live(g)' <=> Live(g)
    BY <2>1 DEF Bodies, Live
  <2>5. Running'
    BY <2>1, <2>4, RunningKept DEF IInv
  <2>6. Entered'
    BY <2>1, <2>4 DEF Entered
  <2>7. \A g \in Frames : awaits[g] = Null
    BY <2>1 DEF IInv, Awaiting, Bodies
  <2>8. Awaiting'
    BY <2>1, <2>7 DEF Awaiting
  <2>9. parent[f] = Null
    BY <2>1, FrameAssumption DEF IInv, Starting
  <2>10. Owning'
    <3>1. \A g \in Frames, h \in Frames : owner'[h] = g => owner[h] = g
      BY <2>2, FrameAssumption
    <3>2. \A g \in Frames : Live(g)' /\ owner'[g] = Null => g \in detached'
      BY <2>1, <2>2, <2>4 DEF IInv, Owning
    <3>3. \A g \in detached' : /\ owner'[g] = Null /\ parent'[g] = Null
                               /\ frame'[g] \notin {"none", "final"}
      BY <2>1, <2>2, <2>9 DEF IInv, Owning, TypeOK
    <3>4. \A g, h \in Frames : owner'[h] = g /\ Live(h)' =>
            /\ frame'[g] \in {"initial", "body"}
            /\ frame'[g] = "initial" => frame'[h] = "initial"
      BY <2>1, <2>4, <3>1 DEF IInv, Owning
    <3> QED
      BY <3>2, <3>3, <3>4 DEF Owning
  <2>11. Starting'
    BY <2>1 DEF IInv, Starting
  <2>12. Outcomes'
    BY <2>1 DEF IInv, Outcomes, Stored
  <2> QED
    BY <2>3, <2>5, <2>6, <2>8, <2>10, <2>11, <2>12 DEF IInv
<1>3. CASE GetReturns
  <2>1. /\ current = Host /\ getting # Null /\ frame[getting] = "final"
        /\ seen' = [seen EXCEPT ![getting] = Outcome(getting)]
        /\ getting' = Null
        /\ UNCHANGED <<frame, parent, result, owner, awaits, current, detached,
                       ended>>
    BY <1>3 DEF GetReturns
  <2>2. getting \in Frames /\ Bodies = {}
    BY <2>1 DEF IInv, TypeOK, Running
  <2>3. /\ Outcome(getting) = ended[getting]
        /\ ended[getting] \in {"value", "exception"}
    BY <2>1, <2>2, OutcomeIs
  <2>4. TypeOK'
    BY <2>1, <2>2, <2>3 DEF IInv, TypeOK
  <2>5. Bodies' = Bodies /\ \A g \in Frames : Live(g)' <=> Live(g)
    BY <2>1 DEF Bodies, Live
  <2>6. Running'
    BY <2>1, <2>5, RunningKept DEF IInv
  <2>7. Entered'
    BY <2>2, <2>5 DEF Entered
  <2>8. Awaiting'
    BY <2>1 DEF IInv, Awaiting
  <2>9. Owning'
    BY <2>1, <2>5 DEF IInv, Owning
  <2>10. Starting'
    BY <2>1, FrameAssumption DEF IInv, Starting
  <2>11. Outcomes'
    <3>1. \A g \in Frames : seen'[g] = IF g = getting THEN ended[g] ELSE seen[g]
      BY <2>1, <2>3 DEF IInv, TypeOK
    <3> QED
      BY <2>1, <3>1 DEF IInv, Outcomes, Stored
  <2> QED
    BY <2>4, <2>6, <2>7, <2>8, <2>9, <2>10, <2>11 DEF IInv
<1> QED
  BY <1>1, <1>2, <1>3

(* A body ends: it becomes final, or is destroyed if nobody waits for it,   *)
(* and control goes to whoever awaits or got it.                            *)
LEMMA ReturnKeeps ==
  ASSUME IInv, NEW c \in Frames, NEW o \in {"value", "exception"}, Return(c, o)
  PROVE  IInv'
<1>1. /\ result' = [result EXCEPT ![c] = Stored(c, o)]
      /\ ended' = [ended EXCEPT ![c] = o]
      /\ frame' = [Destroyed(Owned(c)) EXCEPT
                     ![c] = IF Ready(c) THEN "destroyed" ELSE "final"]
      /\ current' = IF Ready(c) THEN Host ELSE Transfer(c)
      /\ UNCHANGED <<parent, owner, awaits, getting, detached, seen>>
  BY DEF Return, Locals
<1>2. current = c /\ frame[c] = "body" /\ awaits[c] = Null /\ c \in Bodies
      /\ c # Host /\ c # Null
  BY Caller, FrameAssumption DEF Return, Bodies
<1>3. \A f \in Owned(c) : frame[f] # "body"
  BY <1>2, FrameAssumption DEF Owned, Bodies, IInv, Entered
<1>4. /\ frame'[c] = IF parent[c] = Null THEN "destroyed" ELSE "final"
      /\ \A f \in Frames \ {c} :
           frame'[f] = IF f \in With(Owned(c)) /\ Live(f) THEN "destroyed"
                                                          ELSE frame[f]
  BY <1>1 DEF Destroyed, Ready
<1>5. Owned(c) \in SUBSET Frames /\ \A f \in Owned(c) : owner[f] = c
  BY DEF Owned
<1>6. \A f \in Frames \ {c} : frame[f] = "body" => frame'[f] = "body"
  BY <1>3, <1>4, <1>5, WhatIsDestroyed
<1>7. \A f \in Frames \ {c} : frame'[f] = frame[f] \/ frame'[f] = "destroyed"
  BY <1>4
<1>8. Bodies' = Bodies \ {c}
  BY <1>4, <1>6, <1>7 DEF Bodies
<1>9. ASSUME NEW f \in Frames, NEW g \in Frames, owner[g] = f, Live(g)', g # c
      PROVE  Live(g) /\ frame'[g] = frame[g] /\ frame'[f] = frame[f] /\ f # c
  <2>1. Live(g) /\ g \notin With(Owned(c)) /\ frame'[g] = frame[g]
    BY <1>4, <1>9 DEF Live
  <2>2. f # c
    BY <1>5, <1>9, <2>1, WithIsClosed DEF Owned
  <2>3. f \notin With(Owned(c))
    BY <1>5, <1>9, <2>1, WithIsClosed DEF Owned
  <2> QED
    BY <1>4, <2>1, <2>2, <2>3
<1>10. \A f \in Frames : awaits[f] # Null =>
         /\ f # c /\ awaits[f] \in Frames /\ frame[f] = "body"
         /\ owner[awaits[f]] = f /\ frame[awaits[f]] = "body"
  BY <1>2 DEF IInv, Awaiting, TypeOK
<1>11. getting # Null => /\ getting \in Frames /\ owner[getting] = Host
                         /\ frame[getting] = "body"
  BY <1>2 DEF IInv, Awaiting, TypeOK
<1>12. TypeOK'
  <2>1. Stored(c, o) \in {"none", "value", "exception"}
    BY DEF Stored
  <2>2. current' \in Frames \cup {Host}
    BY <1>1 DEF Transfer
  <2>3. frame' \in [Frames -> {"none", "initial", "body", "final", "destroyed"}]
    BY <1>1 DEF Destroyed, IInv, TypeOK
  <2> QED
    BY <1>1, <2>1, <2>2, <2>3 DEF IInv, TypeOK
<1>13. Owning'
  <2>1. ASSUME NEW f \in Frames, NEW g \in Frames, owner'[g] = f, Live(g)'
        PROVE  /\ frame'[f] \in {"initial", "body"}
               /\ frame'[f] = "initial" => frame'[g] = "initial"
    <3>1. CASE g = c
      <4>1. f # c /\ frame[f] = "body"
        BY <1>1, <1>2, <1>10, <2>1, <3>1, FrameAssumption
        DEF IInv, Entered, Bodies
      <4> QED
        BY <1>6, <4>1
    <3>2. CASE g # c
      BY <1>1, <1>9, <2>1, <3>2 DEF IInv, Owning
    <3> QED
      BY <3>1, <3>2
  <2>2. \A f \in Frames : Live(f)' => Live(f)
    BY <1>2, <1>4 DEF Live
  <2>3. \A f \in detached : /\ owner[f] = Null /\ parent[f] = Null
                            /\ f \in Frames /\ frame'[f] \notin {"none", "final"}
    BY <1>4, <1>7 DEF IInv, Owning, TypeOK
  <2> QED
    BY <1>1, <2>1, <2>2, <2>3 DEF IInv, Owning
<1>14. Starting'
  BY <1>1, <1>4, <1>7 DEF IInv, Starting
<1>15. Outcomes'
  <2>1. seen[c] = "none"
    BY <1>2 DEF IInv, Outcomes
  <2>2. /\ ended'[c] = o /\ result'[c] = Stored(c, o)
        /\ \A f \in Frames \ {c} : ended'[f] = ended[f] /\ result'[f] = result[f]
    BY <1>1 DEF IInv, TypeOK
  <2>3. ASSUME NEW f \in Frames, frame'[f] = "final"
        PROVE  ended'[f] # "none" /\ result'[f] = Stored(f, ended'[f])
    BY <1>7, <2>2, <2>3 DEF IInv, Outcomes
  <2>4. ASSUME NEW f \in Frames, seen'[f] # "none"
        PROVE  frame'[f] \in {"final", "destroyed"} /\ seen'[f] = ended'[f]
    BY <1>1, <1>7, <2>1, <2>2, <2>4 DEF IInv, Outcomes
  <2>5. \A f \in Frames : (Stored(f, ended[f]))' = Stored(f, ended'[f])
    BY DEF Stored
  <2> QED
    BY <2>3, <2>4, <2>5 DEF Outcomes
<1>16. CASE owner[c] \in Frames
  <2> DEFINE p == owner[c]
  <2>1. parent[c] = p /\ awaits[p] = c /\ p \in Frames /\ p # c
    BY <1>2, <1>16, FrameAssumption DEF IInv, Entered
  <2>2. /\ current' = p /\ frame'[c] = "final"
        /\ frame[p] = "body" /\ p # Host /\ p # Null
    BY <1>1, <1>2, <1>4, <1>10, <2>1, FrameAssumption DEF Transfer, Ready
  <2> HIDE DEF p
  <2>3. Running'
    <3>1. ASSUME NEW fs \in SUBSET Frames, Waiting(fs)', fs # {}, p \notin fs
          PROVE  FALSE
      <4>1. fs \subseteq Bodies /\ c \notin fs
        BY <1>8, <3>1 DEF Waiting
      <4>2. \A f \in fs : awaits[f] \in fs
        BY <1>1, <2>2, <3>1 DEF Waiting
      <4>3. Waiting(fs)
        BY <4>1, <4>2 DEF Waiting
      <4> QED
        BY <1>2, <3>1, <4>1, <4>3 DEF IInv, Running
    <3>2. current' # Host /\ frame'[current'] = "body"
      BY <1>6, <2>1, <2>2
    <3>3. \A f \in Bodies' : current' = f \/ awaits'[f] # Null
      BY <1>1, <1>2, <1>8 DEF IInv, Running
    <3> QED
      BY <2>2, <3>1, <3>2, <3>3 DEF Running
  <2>4. Entered'
    BY <1>1, <1>8 DEF IInv, Entered
  <2>5. Awaiting'
    <3>1. ASSUME NEW f \in Frames, awaits[f] # Null
          PROVE  /\ frame'[f] = "body" /\ owner[awaits[f]] = f
                 /\ IF p = f THEN frame'[awaits[f]] = "final"
                             ELSE frame'[awaits[f]] = "body"
      BY <1>6, <1>10, <2>1, <2>2, <3>1 DEF p
    <3>2. getting # Null => owner[getting] = Host /\ frame'[getting] = "body"
      BY <1>6, <1>11, <1>16, FrameAssumption
    <3> QED
      BY <1>1, <2>2, <3>1, <3>2 DEF Awaiting
  <2> QED
    BY <1>12, <1>13, <1>14, <1>15, <2>3, <2>4, <2>5 DEF IInv
<1>17. CASE owner[c] \notin Frames
  <2>1. Bodies = {c} /\ Bodies' = {}
    BY <1>2, <1>8, <1>17, Outermost
  <2>2. /\ current' = Host
        /\ \/ parent[c] = Noop /\ getting = c
           \/ owner[c] = Null /\ parent[c] = Null
    BY <1>1, <1>2, <1>17, FrameAssumption DEF IInv, Entered, Transfer, Ready
  <2>3. Running'
    BY <2>1, <2>2 DEF Running, Waiting
  <2>4. Entered'
    BY <2>1 DEF Entered
  <2>5. Awaiting'
    <3>1. \A f \in Frames : awaits[f] = Null
      BY <1>10, <2>1 DEF Bodies
    <3>2. ASSUME getting # Null
          PROVE  owner[getting] = Host /\ frame'[getting] = "final"
      <4>1. getting = c /\ owner[c] = Host
        BY <1>11, <2>1, <3>2 DEF Bodies
      <4> QED
        BY <1>4, <2>2, <4>1, FrameAssumption
    <3> QED
      BY <1>1, <2>2, <3>1, <3>2 DEF Awaiting
  <2> QED
    BY <1>12, <1>13, <1>14, <1>15, <2>3, <2>4, <2>5 DEF IInv
<1> QED
  BY <1>16, <1>17

-----------------------------------------------------------------------------
(* Nothing is created at first, and control is in the host.                 *)
LEMMA InitHolds == Init => IInv
<1> SUFFICES ASSUME Init PROVE IInv
  OBVIOUS
<1>1. TypeOK
  BY DEF Init, TypeOK
<1>2. Bodies = {}
  BY DEF Init, Bodies
<1>3. Running
  BY <1>2 DEF Init, Running, Waiting
<1>4. Entered /\ Awaiting
  BY <1>2 DEF Init, Entered, Awaiting
<1>5. Owning
  BY DEF Init, Owning, Live
<1>6. Starting
  BY FrameAssumption DEF Init, Starting
<1>7. Outcomes
  BY DEF Init, Outcomes
<1> QED
  BY <1>1, <1>3, <1>4, <1>5, <1>6, <1>7 DEF IInv

(* Every step of the host and of the bodies keeps IInv.                     *)
LEMMA StepKeeps == IInv /\ [Next]_vars => IInv'
<1> SUFFICES ASSUME IInv, [Next]_vars PROVE IInv'
  OBVIOUS
<1>1. ASSUME NEW c \in Frames, Body(c) PROVE IInv'
  BY <1>1, CreateKeeps, DropKeeps, AwaitKeeps, ReturnKeeps, ContinueKeeps
  DEF Body
<1>2. CASE Embedder
  <2>1. ASSUME NEW f \in Frames, ResumeDetached(f) PROVE IInv'
    BY <2>1, EnterKeeps DEF ResumeDetached, Runs
  <2> QED
    BY <1>2, <2>1, CreateKeeps, DropKeeps, HostKeeps DEF Embedder
<1>3. CASE GetResumes
  <2>1. getting \in Frames /\ frame[getting] = "initial"
    BY <1>3 DEF GetResumes, IInv, Awaiting, TypeOK
  <2> QED
    BY <1>3, <2>1, EnterKeeps DEF GetResumes
<1>4. CASE GetReturns
  <2>1. getting \in Frames
    BY <1>4 DEF GetReturns, IInv, TypeOK
  <2> QED
    BY <1>4, <2>1, HostKeeps
<1>5. CASE UNCHANGED vars
  BY <1>5
  DEF vars, IInv, TypeOK, Running, Bodies, Waiting, Entered, Awaiting, Owning,
      Starting, Outcomes, Live, Stored
<1> QED
  BY <1>1, <1>2, <1>3, <1>4, <1>5 DEF Next, Loop

(* The inductive invariant of the coroutines: who entered each body, who    *)
(* waits for it, and what the frames that are not half way own.             *)
THEOREM CoroutineInvariant == Spec => []IInv
BY InitHolds, StepKeeps, PTL DEF Spec

(* Control is in a living frame, and returns to one that is suspended in    *)
(* just that co_await or in get.                                            *)
THEOREM ControlIsChainedHolds == Spec => []ControlIsChained
<1>1. IInv => ControlIsChained
  <2> SUFFICES ASSUME IInv PROVE ControlIsChained
    OBVIOUS
  <2>1. ASSUME NEW f \in Frames, frame[f] = "body"
        PROVE  /\ parent[f] \in Frames =>
                    frame[parent[f]] = "body" /\ awaits[parent[f]] = f
               /\ parent[f] = Noop => getting = f
               /\ parent[f] = Null => f \in detached
               /\ current = f \/ (awaits[f] # Null /\ Live(awaits[f]))
    <3>1. f \in Bodies /\ f # Null
      BY <2>1, FrameAssumption DEF Bodies
    <3>2. \/ owner[f] \in Frames /\ parent[f] = owner[f] /\ awaits[owner[f]] = f
          \/ owner[f] = Host /\ parent[f] = Noop /\ getting = f
          \/ owner[f] = Null /\ parent[f] = Null /\ f \in detached
      BY <3>1 DEF IInv, Entered
    <3>3. parent[f] \in Frames =>
            frame[parent[f]] = "body" /\ awaits[parent[f]] = f
      BY <3>1, <3>2, FrameAssumption DEF IInv, Awaiting
    <3>4. current = f \/ (awaits[f] # Null /\ Live(awaits[f]))
      BY <3>1 DEF IInv, Running, Awaiting, Live
    <3> QED
      BY <3>2, <3>3, <3>4, FrameAssumption
  <2> QED
    BY <2>1 DEF IInv, Running, ControlIsChained
<1> QED
  BY <1>1, CoroutineInvariant, PTL

(* Every live frame has a living owner or its handle outside, and ~Future   *)
(* never destroys a coroutine in the middle of its body.                    *)
THEOREM FuturesOwnFramesHolds == Spec => []FuturesOwnFrames
<1>1. IInv => NothingLeaks
  <2> SUFFICES ASSUME IInv, NEW f \in Frames, Live(f)
               PROVE  \/ owner[f] = Host
                      \/ owner[f] \in Frames /\ Live(owner[f])
                      \/ f \in detached /\ frame[f] # "final"
    BY DEF NothingLeaks
  <2>1. owner[f] \in Frames => Live(owner[f])
    BY DEF IInv, Owning, Live
  <2>2. owner[f] = Null => f \in detached /\ frame[f] # "final"
    BY DEF IInv, Owning
  <2> QED
    BY <2>1, <2>2 DEF IInv, TypeOK
<1>2. IInv => NoneHalfWay
  BY FrameAssumption
  DEF NoneHalfWay, IInv, Running, Entered, Bodies, Owned
<1> QED
  BY <1>1, <1>2, CoroutineInvariant, PTL DEF FuturesOwnFrames

(* What await_resume and get return is how the body ended.                  *)
THEOREM SeesOutcomeHolds == Spec => []SeesOutcome
<1>1. IInv => SeesOutcome
  BY DEF IInv, Outcomes, SeesOutcome
<1> QED
  BY <1>1, CoroutineInvariant, PTL

-----------------------------------------------------------------------------
Below == {ns \in Nat \X Nat : ns[1] < ns[2]}

(* Every set of natural numbers has a least element: what a recursive       *)
(* function computes is proved by the least argument where it does not.     *)
LEMMA Least ==
  ASSUME NEW ns \in SUBSET Nat, ns # {} PROVE \E m \in ns : \A k \in ns : m =< k
<1>1. IsWellFoundedOn(Below, Nat)
  BY NatLessThanWellFounded DEF OpToRel, Below
<1>2. PICK m \in ns : \A k \in ns : <<k, m>> \notin Below
  BY <1>1, WFMin
<1>3. ASSUME NEW k \in ns PROVE m =< k
  <2>1. k \in Nat /\ m \in Nat /\ <<k, m>> \in Nat \X Nat
    OBVIOUS
  <2>2. ~(k < m)
    BY <1>2, <2>1 DEF Below
  <2> QED
    BY <2>1, <2>2
<1> QED
  BY <1>3

(* The call stack: each frame on it but the last is in the co_await of the  *)
(* next one.                                                                *)
Stacked(s) ==
  /\ s \in Seq(Frames)
  /\ s = <<>> => Innermost \notin Frames
  /\ s # <<>> => s[Len(s)] = Innermost /\ parent[s[1]] \notin Frames
  /\ \A i \in 1..Len(s) : i # 1 => /\ parent[s[i]] = s[i - 1]
                                   /\ frame[s[i - 1]] = "body"
  /\ \A i, j \in 1..Len(s) : s[i] = s[j] => i = j

(* No frame is twice on it, so it is no longer than there are frames.       *)
LEMMA StackFits ==
  ASSUME NEW s, Stacked(s)
  PROVE  /\ Cardinality(Frames) \in Nat /\ Len(s) \in Nat
         /\ Len(s) =< Cardinality(Frames)
<1>1. s \in Seq(Frames) /\ \A i, j \in 1..Len(s) : s[i] = s[j] => i = j
  BY DEF Stacked
<1>2. Len(s) \in Nat /\ s \in [1..Len(s) -> Frames]
  BY <1>1
<1>3. PICK n \in Nat : n = Len(s)
  BY <1>2
<1>4. s \in Injection(1..n, Frames)
  BY <1>1, <1>2, <1>3 DEF Injection, IsInjective
<1>5. Cardinality(1..n) =< Cardinality(Frames)
  BY <1>4, FS_Injection, FrameAssumption
<1>6. Cardinality(1..n) = n
  <2>1. Cardinality(1..n) = IF 1 > n THEN 0 ELSE n - 1 + 1
    BY FS_Interval
  <2> QED
    BY <2>1
<1>7. Cardinality(Frames) \in Nat
  BY FS_CardinalityType, FrameAssumption
<1> QED
  BY <1>3, <1>5, <1>6, <1>7

(* The last element of a sequence ...                                       *)
LEMMA LastOnly ==
  ASSUME NEW S, NEW s \in Seq(S), Len(s) \in 1..Len(s)
  PROVE  SubSeq(s, Len(s), Len(s)) = <<s[Len(s)]>>
<1>1. PICK n \in Nat : n = Len(s) /\ n >= 1
  OBVIOUS
<1>2. SubSeq(s, n, n) = <<s[n]>> \o SubSeq(s, n + 1, n)
  BY <1>1, SubSeqRecursiveFirst
<1>3. SubSeq(s, n + 1, n) = <<>>
  BY <1>1, SubSeqEmpty
<1>4. <<s[n]>> \o <<>> = <<s[n]>>
  BY <1>1
<1> QED
  BY <1>1, <1>2, <1>3, <1>4

(* ... and one more than its last elements.                                 *)
LEMMA OneMore ==
  ASSUME NEW S, NEW s \in Seq(S), NEW k \in 1..Len(s), k + 1 \in 1..Len(s)
  PROVE  LET rest == SubSeq(s, k + 1, Len(s))
         IN  /\ rest # <<>> /\ Head(rest) = s[k + 1]
             /\ <<s[k]>> \o rest = SubSeq(s, k, Len(s))
<1>1. PICK n \in Nat : n = Len(s)
  OBVIOUS
<1>2. SubSeq(s, k, n) = <<s[k]>> \o SubSeq(s, k + 1, n)
  BY <1>1, SubSeqRecursiveFirst
<1>3. Head(SubSeq(s, k + 1, n)) = s[k + 1]
  BY <1>1, HeadTailOfSubSeq
<1>4. Len(SubSeq(s, k + 1, n)) # 0
  BY <1>1
<1> QED
  BY <1>1, <1>2, <1>3, <1>4

(* The chain of parents gets to each of them after as many steps.           *)
LEMMA ChainReads ==
  ASSUME NEW s, Stacked(s) PROVE Above = s
<1> DEFINE N == Cardinality(Frames)
           L == Len(s)
           Longer(rest) == IF rest # <<>> /\ parent[Head(rest)] \in Frames
                           THEN <<parent[Head(rest)]>> \o rest ELSE rest
           First == IF Innermost \in Frames THEN <<Innermost>> ELSE <<>>
           chain == CHOOSE g : g = [n \in 0..N |->
                      IF n = 0 THEN First ELSE Longer(g[n - 1])]
           Top(n) == IF n < L THEN SubSeq(s, L - n, L) ELSE s
<1>1. N \in Nat /\ L \in Nat /\ L =< N
  BY StackFits
<1>2. Above = chain[N]
  BY DEF Above
<1>3. /\ s \in Seq(Frames) /\ (s = <<>> => Innermost \notin Frames)
      /\ s # <<>> => s[L] = Innermost /\ parent[s[1]] \notin Frames
      /\ \A i \in 1..L : i # 1 => parent[s[i]] = s[i - 1]
      /\ \A i \in 1..L : s[i] \in Frames
  BY DEF Stacked
<1>4. First = Top(0)
  <2>1. CASE s = <<>>
    BY <1>3, <2>1
  <2>2. CASE s # <<>>
    <3>1. L # 0
      BY <1>3, <2>2, EmptySeq
    <3>2. L \in 1..L /\ s[L] = Innermost /\ s[L] \in Frames
      BY <1>1, <1>3, <2>2, <3>1
    <3>3. SubSeq(s, L, L) = <<s[L]>>
      BY <1>1, <1>3, <3>2, LastOnly
    <3> QED
      BY <1>1, <3>1, <3>2, <3>3
  <2> QED
    BY <2>1, <2>2
<1>5. ASSUME NEW n \in Nat, n # 0 PROVE Longer(Top(n - 1)) = Top(n)
  <2>1. CASE n < L
    <3>1. PICK k \in Nat : k = L - n /\ k \in 1..L /\ k + 1 \in 1..L
      <4>1. L - n \in Nat /\ L - n \in 1..L /\ (L - n) + 1 \in 1..L
        <5>1. PICK l \in Nat : l = L
          BY <1>1
        <5>2. l - n \in Nat /\ l - n \in 1..l /\ (l - n) + 1 \in 1..l
          BY <1>5, <2>1, <5>1
        <5> QED
          BY <5>1, <5>2
      <4> QED
        BY <4>1
    <3>2. PICK rest : rest = SubSeq(s, k + 1, L)
      OBVIOUS
    <3>3. Top(n - 1) = rest /\ Top(n) = SubSeq(s, k, L)
      BY <1>1, <1>5, <2>1, <3>1, <3>2
    <3>4. /\ rest # <<>> /\ Head(rest) = s[k + 1]
          /\ <<s[k]>> \o rest = SubSeq(s, k, L)
      BY <1>1, <1>3, <3>1, <3>2, OneMore
    <3>5. parent[s[k + 1]] = s[k] /\ s[k] \in Frames
      <4>1. k + 1 # 1 /\ (k + 1) - 1 = k
        BY <3>1
      <4> QED
        BY <1>3, <3>1, <4>1
    <3>6. Longer(rest) = <<s[k]>> \o rest
      BY <3>4, <3>5
    <3> QED
      BY <3>3, <3>4, <3>6
  <2>2. CASE n = L
    <3>1. Top(n - 1) = SubSeq(s, 1, L) /\ Top(n) = s
      BY <1>1, <1>5, <2>2
    <3>2. SubSeq(s, 1, L) = s
      BY <1>1, <1>3
    <3>3. s # <<>> => Head(s) = s[1]
      BY <1>3
    <3> QED
      BY <1>3, <3>1, <3>2, <3>3
  <2>3. CASE n > L
    <3>1. Top(n - 1) = s /\ Top(n) = s
      BY <1>1, <1>5, <2>3
    <3>2. s # <<>> => Head(s) = s[1]
      BY <1>3
    <3> QED
      BY <1>3, <3>1, <3>2
  <2>4. n < L \/ n = L \/ n > L
    BY <1>1
  <2> QED
    BY <2>1, <2>2, <2>3, <2>4
<1> HIDE DEF Top, Longer, First
<1>6. chain = [n \in 0..N |-> IF n = 0 THEN First ELSE Longer(chain[n - 1])]
  <2> DEFINE w == [n \in 0..N |-> Top(n)]
  <2>1. ASSUME NEW n \in 0..N
        PROVE  w[n] = IF n = 0 THEN First ELSE Longer(w[n - 1])
    <3>1. n = 0 \/ (n \in Nat /\ n # 0 /\ n - 1 \in 0..N)
      BY <1>1
    <3> QED
      BY <1>4, <1>5, <3>1
  <2>2. w = [n \in 0..N |-> IF n = 0 THEN First ELSE Longer(w[n - 1])]
    BY <2>1
  <2> HIDE DEF w
  <2> QED
    BY <2>2
<1> HIDE DEF chain
<1>7. ASSUME NEW n \in 0..N PROVE chain[n] = Top(n)
  <2> DEFINE wrong == {m \in 0..N : chain[m] # Top(m)}
  <2>1. SUFFICES ASSUME wrong # {} PROVE FALSE
    OBVIOUS
  <2>2. wrong \in SUBSET Nat
    BY <1>1
  <2>3. PICK m \in wrong : \A k \in wrong : m =< k
    BY <2>1, <2>2, Least
  <2>4. m \in 0..N /\ m \in Nat /\ chain[m] # Top(m)
    BY <1>1
  <2>5. m # 0
    BY <1>4, <1>6, <2>4
  <2>6. m - 1 \in 0..N /\ m - 1 \notin wrong
    BY <1>1, <2>3, <2>4, <2>5
  <2>7. chain[m - 1] = Top(m - 1)
    BY <2>6
  <2>8. chain[m] = Longer(chain[m - 1])
    BY <1>6, <2>4, <2>5
  <2> QED
    BY <1>5, <2>4, <2>5, <2>7, <2>8
<1>8. Top(N) = s
  BY <1>1 DEF Top
<1> QED
  BY <1>1, <1>2, <1>7, <1>8

-----------------------------------------------------------------------------
(* What is awaited or got goes on where it was awaited or got.              *)
Chaining ==
  /\ \A f \in Frames : awaits[f] # Null => parent[awaits[f]] = f
  /\ getting # Null => parent[getting] = Noop

(* The stack after a step, when the chain is the same, ...                  *)
LEMMA StackStays ==
  ASSUME NEW s, Stacked(s), Innermost' = Innermost,
         \A i \in 1..Len(s) : parent'[s[i]] = parent[s[i]],
         \A i \in 1..Len(s) : i # Len(s) /\ frame[s[i]] = "body" =>
           frame'[s[i]] = "body"
  PROVE  Stacked(s)'
<1>1. PICK n \in Nat : n = Len(s) /\ s \in Seq(Frames)
  BY DEF Stacked
<1>2. s # <<>> => n >= 1
  BY <1>1, EmptySeq
<1>3. \A i \in 1..n : i # 1 => i - 1 \in 1..n /\ i - 1 # n
  BY <1>1
<1> QED
  BY <1>1, <1>2, <1>3 DEF Stacked

(* ... when a frame is entered that was not on it ...                       *)
LEMMA StackGrows ==
  ASSUME NEW s, Stacked(s), NEW f \in Frames, \A i \in 1..Len(s) : s[i] # f,
         Innermost' = f,
         s # <<>> => parent'[f] = Innermost /\ frame'[Innermost] = "body",
         s = <<>> => parent'[f] \notin Frames,
         \A g \in Frames : g # f => parent'[g] = parent[g],
         \A g \in Frames : frame[g] = "body" => frame'[g] = "body"
  PROVE  Stacked(Append(s, f))'
<1>1. PICK n \in Nat : n = Len(s) /\ s \in Seq(Frames)
  BY DEF Stacked
<1>2. /\ s # <<>> => s[n] = Innermost /\ parent[s[1]] \notin Frames
      /\ \A i \in 1..n : i # 1 => /\ parent[s[i]] = s[i - 1]
                                   /\ frame[s[i - 1]] = "body"
      /\ \A i, j \in 1..n : s[i] = s[j] => i = j
      /\ \A i \in 1..n : s[i] \in Frames
  BY <1>1 DEF Stacked
<1>3. PICK t : t = Append(s, f)
  OBVIOUS
<1>4. /\ t \in Seq(Frames) /\ Len(t) = n + 1 /\ t[n + 1] = f
      /\ \A i \in 1..n : t[i] = s[i]
  BY <1>1, <1>3
<1>5. s = <<>> <=> n = 0
  BY <1>1, EmptySeq
<1>6. ASSUME NEW i \in 1..n + 1 PROVE i \in 1..n \/ i = n + 1
  BY <1>1
<1>7. parent'[t[1]] \notin Frames
  <2>1. CASE n = 0
    BY <1>4, <1>5, <2>1
  <2>2. CASE n # 0
    <3>1. 1 \in 1..n
      BY <1>1, <2>2
    <3> QED
      BY <1>1, <1>2, <1>4, <1>5, <2>2, <3>1
  <2> QED
    BY <2>1, <2>2
<1>8. ASSUME NEW i \in 1..n + 1, i # 1
      PROVE  parent'[t[i]] = t[i - 1] /\ frame'[t[i - 1]] = "body"
  <2>1. CASE i = n + 1
    <3>1. n \in 1..n /\ i - 1 = n /\ n # 0
      BY <1>1, <1>8, <2>1
    <3> QED
      BY <1>2, <1>4, <1>5, <2>1, <3>1
  <2>2. CASE i \in 1..n
    <3>1. i - 1 \in 1..n
      BY <1>1, <1>8, <2>2
    <3> QED
      BY <1>1, <1>2, <1>4, <1>8, <2>2, <3>1
  <2> QED
    BY <1>6, <2>1, <2>2
<1>9. \A i, j \in 1..n + 1 : t[i] = t[j] => i = j
  BY <1>1, <1>2, <1>4, <1>6
<1>10. t # <<>>
  BY <1>1, <1>4, EmptySeq
<1>11. Stacked(t)'
  BY <1>4, <1>7, <1>8, <1>9, <1>10 DEF Stacked
<1> QED
  BY <1>3, <1>11

(* ... and when the innermost one is left.                                  *)
LEMMA StackShrinks ==
  ASSUME NEW s, Stacked(s), s # <<>>, UNCHANGED parent,
         Len(s) = 1 => Innermost' \notin Frames,
         Len(s) # 1 => Innermost' = s[Len(s) - 1],
         \A g \in Frames : g # s[Len(s)] /\ frame[g] = "body" =>
           frame'[g] = "body"
  PROVE  Stacked(SubSeq(s, 1, Len(s) - 1))'
<1>1. PICK n \in Nat : n = Len(s) /\ s \in Seq(Frames) /\ n # 0
  BY EmptySeq DEF Stacked
<1>2. /\ parent[s[1]] \notin Frames
      /\ \A i \in 1..n : i # 1 => /\ parent[s[i]] = s[i - 1]
                                   /\ frame[s[i - 1]] = "body"
      /\ \A i, j \in 1..n : s[i] = s[j] => i = j
      /\ \A i \in 1..n : s[i] \in Frames
  BY <1>1 DEF Stacked
<1>3. PICK m \in Nat : m = n - 1
  BY <1>1
<1>4. PICK t : t = SubSeq(s, 1, m)
  OBVIOUS
<1>5. /\ t \in Seq(Frames) /\ Len(t) = m /\ \A i \in 1..m : t[i] = s[i]
  BY <1>1, <1>3, <1>4
<1>6. t = <<>> <=> m = 0
  BY <1>5, EmptySeq
<1>7. ASSUME NEW i \in 1..m, i # 1
      PROVE  parent'[t[i]] = t[i - 1] /\ frame'[t[i - 1]] = "body"
  <2>1. /\ i \in 1..n /\ i - 1 \in 1..m /\ i - 1 \in 1..n
        /\ n \in 1..n /\ i - 1 # n
    BY <1>1, <1>3, <1>7
  <2>2. s[i - 1] # s[n]
    BY <1>2, <2>1
  <2> QED
    BY <1>1, <1>2, <1>5, <1>7, <2>1, <2>2
<1>8. \A i, j \in 1..m : t[i] = t[j] => i = j
  BY <1>1, <1>2, <1>3, <1>5
<1>9. m = 0 => Innermost' \notin Frames
  <2>1. m = 0 => n = 1
    BY <1>3
  <2>2. n = 1 => Len(s) = 1
    BY <1>1
  <2> QED
    BY <2>1, <2>2
<1>10. m # 0 => t[m] = Innermost' /\ parent'[t[1]] \notin Frames
  <2> HAVE m # 0
  <2>1. m \in 1..m /\ 1 \in 1..m /\ n # 1
    BY <1>1, <1>3
  <2> QED
    BY <1>1, <1>2, <1>3, <1>5, <2>1
<1>11. Stacked(t)'
  BY <1>5, <1>6, <1>7, <1>8, <1>9, <1>10 DEF Stacked
<1> QED
  BY <1>1, <1>3, <1>4, <1>11

(* Destroying owned futures takes no detached coroutine with them.          *)
LEMMA OnlyOwned ==
  ASSUME IInv, NEW fs \in SUBSET Frames, \A f \in fs : owner[f] # Null
  PROVE  \A f \in With(fs) : f \notin detached
<1> DEFINE gs == {f \in Frames : owner[f] # Null}
<1>1. \A f \in gs : Owned(f) \subseteq gs
  BY FrameAssumption DEF Owned
<1>2. With(fs) \subseteq gs
  BY <1>1, WithIsLeast
<1> QED
  BY <1>2 DEF IInv, Owning

(* Nothing is delivered when nobody sees an outcome and no detached         *)
(* coroutine is destroyed.                                                  *)
LEMMA SameDelivered ==
  ASSUME \A f \in Frames :
           /\ seen'[f] = seen[f]
           /\ (f \in detached' /\ frame'[f] = "destroyed") =
                (f \in detached /\ frame[f] = "destroyed")
  PROVE  Delivered' = Delivered
BY DEF Delivered

-----------------------------------------------------------------------------
(* The steps of NestedCalls, from stack s and outcomes d to t and e.        *)
CallStep(s, d, t, e) ==
  \/ t = s /\ e = d
  \/ \E f \in Frames :
       /\ d[f] = "none" /\ \A i \in 1..Len(s) : s[i] # f
       /\ t = Append(s, f) /\ e = d
  \/ \E o \in {"value", "exception", "unseen"} :
       /\ s # <<>> /\ e = [d EXCEPT ![s[Len(s)]] = o]
       /\ t = SubSeq(s, 1, Len(s) - 1)

\* The next state has a stack that such a step leads to.
Simulated(s) == \E t : Stacked(t)' /\ CallStep(s, Delivered, t, Delivered')

(* A step that leaves the stack and the outcomes alone is one of them.      *)
LEMMA Stutters ==
  ASSUME NEW s, Stacked(s)', Delivered' = Delivered PROVE Simulated(s)
BY DEF Simulated, CallStep

(* So is entering a coroutine that has not begun, ...                       *)
LEMMA Calling ==
  ASSUME NEW s, NEW f \in Frames, Stacked(Append(s, f))',
         \A i \in 1..Len(s) : s[i] # f, IInv, frame[f] = "initial",
         Delivered' = Delivered
  PROVE  Simulated(s)
<1>1. seen[f] = "none" /\ Delivered[f] = "none"
  BY DEF IInv, Outcomes, Delivered
<1> QED
  BY <1>1 DEF Simulated, CallStep

(* ... and so is delivering the outcome of the innermost one.               *)
LEMMA Returning ==
  ASSUME NEW s, s # <<>>, Stacked(SubSeq(s, 1, Len(s) - 1))',
         NEW o \in {"value", "exception", "unseen"},
         Delivered' = [Delivered EXCEPT ![s[Len(s)]] = o]
  PROVE  Simulated(s)
BY DEF Simulated, CallStep

(* With nothing innermost the stack is empty.                               *)
LEMMA NothingInnermost ==
  ASSUME NEW s, Stacked(s), Innermost \notin Frames PROVE s = <<>>
<1>1. CASE s # <<>>
  <2>1. PICK n \in Nat : n = Len(s) /\ s \in Seq(Frames) /\ n # 0
    BY <1>1, EmptySeq DEF Stacked
  <2>2. s[n] \in Frames
    BY <2>1
  <2> QED
    BY <1>1, <2>1, <2>2 DEF Stacked
<1> QED
  BY <1>1

(* On the stack below the innermost frame are bodies.                       *)
LEMMA BelowAreBodies ==
  ASSUME NEW s, Stacked(s), NEW i \in 1..Len(s)
  PROVE  s[i] \in Frames /\ (i # Len(s) => frame[s[i]] = "body")
<1>1. PICK n \in Nat : n = Len(s) /\ s \in Seq(Frames)
  BY DEF Stacked
<1>2. i # n => i + 1 \in 1..n /\ i + 1 # 1 /\ (i + 1) - 1 = i
  BY <1>1
<1> QED
  BY <1>1, <1>2 DEF Stacked

(* A new coroutine is not called yet.                                       *)
LEMMA CreateSimulates ==
  ASSUME IInv, Chaining, NEW s, Stacked(s), NEW c, NEW f \in Frames,
         NEW moved \in SUBSET Owned(c), Create(c, f, moved)
  PROVE  Chaining' /\ Simulated(s)
<1>1. /\ frame' = [frame EXCEPT ![f] = "initial"] /\ frame[f] = "none"
      /\ UNCHANGED <<parent, awaits, current, getting, detached, seen>>
  BY DEF Create
<1>2. Chaining'
  BY <1>1 DEF Chaining
<1>3. Innermost' = Innermost
  BY <1>1 DEF Innermost
<1>4. \A g \in Frames : g # f => frame'[g] = frame[g]
  BY <1>1 DEF IInv, TypeOK
<1>5. \A i \in 1..Len(s) : i # Len(s) /\ frame[s[i]] = "body" =>
        frame'[s[i]] = "body"
  BY <1>1, <1>4, BelowAreBodies
<1>6. Stacked(s)'
  BY <1>1, <1>3, <1>5, StackStays
<1>7. frame'[f] = "initial"
  BY <1>1 DEF IInv, TypeOK
<1>8. Delivered' = Delivered
  BY <1>1, <1>4, <1>7, SameDelivered
<1> QED
  BY <1>2, <1>6, <1>8, Stutters

(* ~Future destroys nothing that is on the stack, and nothing detached.     *)
LEMMA DropSimulates ==
  ASSUME IInv, Chaining, NEW s, Stacked(s), NEW c, NEW f \in Frames, Drop(c, f)
  PROVE  Chaining' /\ Simulated(s)
<1>1. /\ f \in Owned(c) /\ frame' = Destroyed({f})
      /\ UNCHANGED <<parent, awaits, current, getting, detached, seen>>
  BY DEF Drop
<1>2. /\ c = current /\ c \in Frames \cup {Host}
      /\ c # Host => frame[c] = "body" /\ awaits[c] = Null
      /\ c = Host => getting = Null /\ Bodies = {}
  BY Caller DEF Drop, IInv, TypeOK
<1>3. frame[f] # "body" /\ owner[f] = c
  BY <1>1, <1>2, FrameAssumption DEF Owned, Bodies, IInv, Entered
<1>4. \A g \in Frames :
        frame'[g] = IF g \in With({f}) /\ Live(g) THEN "destroyed" ELSE frame[g]
  BY <1>1 DEF Destroyed
<1>5. Bodies' = Bodies
  BY <1>3, <1>4, Survivors
<1>6. \A g \in With({f}) : g \notin detached
  BY <1>2, <1>3, FrameAssumption, OnlyOwned
<1>7. Delivered' = Delivered
  BY <1>1, <1>4, <1>6, SameDelivered
<1>8. Innermost' = Innermost
  BY <1>1 DEF Innermost
<1>9. Stacked(s)'
  BY <1>1, <1>5, <1>8, StackStays, BelowAreBodies DEF Bodies
<1>10. Chaining'
  BY <1>1 DEF Chaining
<1> QED
  BY <1>7, <1>9, <1>10, Stutters

(* Taking the handle out of a Future calls nothing.                         *)
LEMMA DetachSimulates ==
  ASSUME IInv, Chaining, NEW s, Stacked(s), NEW f \in Frames, Detach(f)
  PROVE  Chaining' /\ Simulated(s)
<1>1. /\ frame[f] = "initial" /\ detached' = detached \cup {f}
      /\ UNCHANGED <<frame, parent, awaits, current, getting, seen>>
  BY DEF Detach
<1>2. Chaining' /\ Innermost' = Innermost
  BY <1>1 DEF Chaining, Innermost
<1>3. Stacked(s)'
  BY <1>1, <1>2, StackStays
<1>4. Delivered' = Delivered
  BY <1>1, SameDelivered
<1> QED
  BY <1>2, <1>3, <1>4, Stutters

(* co_await is a call by the innermost frame.                               *)
LEMMA AwaitSimulates ==
  ASSUME IInv, Chaining, NEW s, Stacked(s), NEW c \in Frames, NEW f \in Frames,
         Await(c, f)
  PROVE  Chaining' /\ Simulated(s)
<1>1. /\ frame[f] = "initial"
      /\ parent' = [parent EXCEPT ![f] = c]
      /\ awaits' = [awaits EXCEPT ![c] = f]
      /\ frame' = [frame EXCEPT ![f] = "body"] /\ current' = f
      /\ UNCHANGED <<getting, detached, seen>>
  BY DEF Await, Chained
<1>2. current = c /\ frame[c] = "body" /\ awaits[c] = Null
  BY Caller DEF Await
<1>3. Innermost = c /\ c # Host
  BY <1>2, FrameAssumption DEF Innermost
<1>4. f # c /\ awaits[f] = Null /\ f # Host /\ f # Null
  BY <1>1, <1>2, FrameAssumption DEF IInv, Awaiting
<1>5. Innermost' = f
  BY <1>1, <1>4 DEF Innermost, IInv, TypeOK
<1>6. \A g \in Frames : /\ g # f => /\ parent'[g] = parent[g]
                                   /\ frame'[g] = frame[g]
                        /\ g # c => awaits'[g] = awaits[g]
  BY <1>1 DEF IInv, TypeOK
<1>7. parent'[f] = c /\ awaits'[c] = f /\ frame'[f] = "body"
  BY <1>1 DEF IInv, TypeOK
<1>8. \A i \in 1..Len(s) : s[i] # f
  <2> SUFFICES ASSUME NEW i \in 1..Len(s), s[i] = f PROVE FALSE
    OBVIOUS
  <2>1. i = Len(s)
    BY <1>1, BelowAreBodies
  <2>2. s # <<>>
    BY <2>1
  <2> QED
    BY <1>3, <1>4, <2>1, <2>2 DEF Stacked
<1>9. s # <<>>
  BY <1>3 DEF Stacked
<1>10. Stacked(Append(s, f))'
  BY <1>2, <1>3, <1>4, <1>5, <1>6, <1>7, <1>8, <1>9, StackGrows
<1>11. Chaining'
  <2>1. ASSUME NEW g \in Frames, awaits'[g] # Null PROVE parent'[awaits'[g]] = g
    <3>1. CASE g = c
      BY <1>7, <3>1
    <3>2. CASE g # c
      <4>1. awaits[g] # Null /\ awaits'[g] = awaits[g]
        BY <1>6, <2>1, <3>2
      <4>2. awaits[g] # f /\ awaits[g] \in Frames
        BY <1>1, <4>1 DEF IInv, Awaiting, TypeOK
      <4> QED
        BY <1>6, <4>1, <4>2 DEF Chaining
    <3> QED
      BY <3>1, <3>2
  <2>2. ASSUME getting # Null PROVE parent'[getting] = Noop
    <3>1. getting \in Frames /\ getting # f
      BY <1>1, <1>2, <1>3, <2>2 DEF IInv, Awaiting, TypeOK
    <3> QED
      BY <1>6, <2>2, <3>1 DEF Chaining
  <2> QED
    BY <1>1, <2>1, <2>2 DEF Chaining
<1>12. Delivered' = Delivered
  BY <1>1, <1>6, <1>7, SameDelivered
<1> QED
  BY <1>1, <1>8, <1>10, <1>11, <1>12, Calling

(* get is a call by the embedder, when it begins, ...                       *)
LEMMA GetSimulates ==
  ASSUME IInv, Chaining, NEW s, Stacked(s), NEW f \in Frames, Get(f)
  PROVE  Chaining' /\ Simulated(s)
<1>1. /\ frame[f] = "initial" /\ parent' = [parent EXCEPT ![f] = Noop]
      /\ getting' = f
      /\ UNCHANGED <<frame, awaits, current, detached, seen>>
  BY DEF Get, Chained
<1>2. current = Host /\ getting = Null /\ Bodies = {}
  BY Caller DEF Get
<1>3. s = <<>>
  BY <1>2, NothingInnermost, FrameAssumption DEF Innermost
<1>4. Innermost' = f
  BY <1>1, <1>2 DEF Innermost
<1>5. parent'[f] = Noop /\ \A g \in Frames : g # f => parent'[g] = parent[g]
  BY <1>1 DEF IInv, TypeOK
<1>6. Stacked(Append(s, f))'
  <2>1. Len(s) = 0 /\ \A i \in 1..Len(s) : s[i] # f
    BY <1>3
  <2>2. parent'[f] \notin Frames /\ \A g \in Frames : frame'[g] = frame[g]
    BY <1>1, <1>5, FrameAssumption
  <2> QED
    BY <1>3, <1>4, <1>5, <2>1, <2>2, StackGrows
<1>7. \A g \in Frames : awaits[g] = Null
  BY <1>2 DEF IInv, Awaiting, Bodies
<1>8. Chaining'
  BY <1>1, <1>5, <1>7 DEF Chaining
<1>9. Delivered' = Delivered
  BY <1>1, SameDelivered
<1> QED
  <2>1. Len(s) = 0 /\ \A i \in 1..Len(s) : s[i] # f
    BY <1>3
  <2> QED
    BY <1>1, <1>6, <1>8, <1>9, <2>1, Calling

(* ... and entering the body later changes nothing more.                    *)
LEMMA GetResumesSimulates ==
  ASSUME IInv, Chaining, NEW s, Stacked(s), GetResumes
  PROVE  Chaining' /\ Simulated(s)
<1>1. /\ current = Host /\ getting # Null /\ getting \in Frames
      /\ frame' = [frame EXCEPT ![getting] = "body"] /\ current' = getting
      /\ UNCHANGED <<parent, awaits, getting, detached, seen>>
  BY DEF GetResumes, IInv, TypeOK
<1>2. frame[getting] = "initial" /\ awaits[getting] = Null /\ getting # Host
  BY <1>1, FrameAssumption DEF GetResumes, IInv, Awaiting
<1>3. Innermost = getting /\ Innermost' = getting
  BY <1>1, <1>2 DEF Innermost
<1>4. \A g \in Frames : g # getting => frame'[g] = frame[g]
  BY <1>1 DEF IInv, TypeOK
<1>5. frame'[getting] = "body"
  BY <1>1 DEF IInv, TypeOK
<1>6. Stacked(s)'
  <2>1. \A i \in 1..Len(s) : frame[s[i]] = "body" => frame'[s[i]] = "body"
    BY <1>2, <1>4, BelowAreBodies
  <2> QED
    BY <1>1, <1>3, <2>1, StackStays
<1>7. Chaining'
  BY <1>1 DEF Chaining
<1>8. Delivered' = Delivered
  BY <1>1, <1>2, <1>4, <1>5, SameDelivered
<1> QED
  BY <1>6, <1>7, <1>8, Stutters

(* Resuming a detached coroutine is a call by the embedder too.             *)
LEMMA ResumeSimulates ==
  ASSUME IInv, Chaining, NEW s, Stacked(s), NEW f \in Frames, ResumeDetached(f)
  PROVE  Chaining' /\ Simulated(s)
<1>1. /\ f \in detached /\ frame[f] = "initial"
      /\ frame' = [frame EXCEPT ![f] = "body"] /\ current' = f
      /\ UNCHANGED <<parent, awaits, getting, detached, seen>>
  BY DEF ResumeDetached
<1>2. current = Host /\ getting = Null
  BY Caller DEF ResumeDetached
<1>3. s = <<>>
  BY <1>2, NothingInnermost, FrameAssumption DEF Innermost
<1>4. awaits[f] = Null /\ f # Host /\ parent[f] \notin Frames
  BY <1>1, FrameAssumption DEF IInv, Awaiting, Owning
<1>5. Innermost' = f
  BY <1>1, <1>4 DEF Innermost
<1>6. /\ frame'[f] = "body"
      /\ \A g \in Frames : g # f => frame'[g] = frame[g]
  BY <1>1 DEF IInv, TypeOK
<1>7. Stacked(Append(s, f))'
  <2>1. Len(s) = 0 /\ \A i \in 1..Len(s) : s[i] # f
    BY <1>3
  <2>2. parent'[f] \notin Frames /\ \A g \in Frames : parent'[g] = parent[g]
    BY <1>1, <1>4
  <2>3. \A g \in Frames : frame[g] = "body" => frame'[g] = "body"
    BY <1>6
  <2> QED
    BY <1>3, <1>5, <2>1, <2>2, <2>3, StackGrows
<1>8. Chaining'
  BY <1>1 DEF Chaining
<1>9. Delivered' = Delivered
  BY <1>1, <1>6, SameDelivered
<1> QED
  <2>1. Len(s) = 0 /\ \A i \in 1..Len(s) : s[i] # f
    BY <1>3
  <2> QED
    BY <1>1, <1>7, <1>8, <1>9, <2>1, Calling

(* A body that ends is on the stack until it is seen how, unless it is      *)
(* detached: nobody sees that, and it is the only one on the stack.         *)
LEMMA ReturnSimulates ==
  ASSUME IInv, Chaining, NEW s, Stacked(s), NEW c \in Frames,
         NEW o \in {"value", "exception"}, Return(c, o)
  PROVE  Chaining' /\ Simulated(s)
<1>1. /\ frame' = [Destroyed(Owned(c)) EXCEPT
                     ![c] = IF Ready(c) THEN "destroyed" ELSE "final"]
      /\ current' = IF Ready(c) THEN Host ELSE Transfer(c)
      /\ UNCHANGED <<parent, owner, awaits, getting, detached, seen>>
  BY DEF Return, Locals
<1>2. current = c /\ frame[c] = "body" /\ awaits[c] = Null /\ c \in Bodies
      /\ c # Host /\ c # Null
  BY Caller, FrameAssumption DEF Return, Bodies
<1>3. \A f \in Owned(c) : frame[f] # "body"
  BY <1>2, FrameAssumption DEF Owned, Bodies, IInv, Entered
<1>4. /\ frame'[c] = IF parent[c] = Null THEN "destroyed" ELSE "final"
      /\ \A f \in Frames \ {c} :
           frame'[f] = IF f \in With(Owned(c)) /\ Live(f) THEN "destroyed"
                                                          ELSE frame[f]
  BY <1>1 DEF Destroyed, Ready
<1>5. Owned(c) \in SUBSET Frames /\ \A f \in Owned(c) : owner[f] = c
  BY DEF Owned
<1>6. \A f \in Frames \ {c} : frame[f] = "body" => frame'[f] = "body"
  BY <1>3, <1>4, <1>5, WhatIsDestroyed
<1>7. \A f \in With(Owned(c)) : f \notin detached
  BY <1>2, <1>5, OnlyOwned
<1>8. Innermost = c /\ s # <<>> /\ s[Len(s)] = c
  <2>1. Innermost = c
    BY <1>2 DEF Innermost
  <2> QED
    BY <2>1 DEF Stacked
<1>9. Chaining'
  BY <1>1 DEF Chaining
<1>10. PICK n \in Nat : n = Len(s) /\ n \in 1..n /\ s \in Seq(Frames)
  BY <1>8, EmptySeq DEF Stacked
<1>11. \A i, j \in 1..n : s[i] = s[j] => i = j
  BY <1>10 DEF Stacked
<1>12. \/ owner[c] \in Frames /\ parent[c] = owner[c] /\ awaits[owner[c]] = c
       \/ owner[c] = Host /\ parent[c] = Noop /\ getting = c
       \/ owner[c] = Null /\ parent[c] = Null /\ c \in detached
  BY <1>2 DEF IInv, Entered
<1>13. CASE parent[c] # Null
  <2>1. Innermost' = c
    <3>1. CASE parent[c] \in Frames
      <4>1. current' = parent[c] /\ awaits[parent[c]] = c
        BY <1>1, <1>12, <1>13, <3>1, FrameAssumption DEF Ready, Transfer
      <4> QED
        BY <1>1, <1>2, <3>1, <4>1, FrameAssumption DEF Innermost
    <3>2. CASE parent[c] \notin Frames
      <4>1. current' = Host /\ getting = c
        BY <1>1, <1>12, <1>13, <3>2 DEF Ready, Transfer
      <4> QED
        BY <1>1, <4>1 DEF Innermost
    <3> QED
      BY <3>1, <3>2
  <2>2. \A i \in 1..Len(s) : i # Len(s) /\ frame[s[i]] = "body" =>
          frame'[s[i]] = "body"
    <3>1. ASSUME NEW i \in 1..n, i # n PROVE s[i] \in Frames /\ s[i] # c
      BY <1>8, <1>10, <1>11, <3>1
    <3> QED
      BY <1>6, <1>10, <3>1
  <2>3. Stacked(s)'
    BY <1>1, <1>8, <2>1, <2>2, StackStays
  <2>4. \A f \in Frames : (f \in detached' /\ frame'[f] = "destroyed") =
                            (f \in detached /\ frame[f] = "destroyed")
    BY <1>1, <1>2, <1>4, <1>7, <1>13
  <2>5. Delivered' = Delivered
    BY <1>1, <2>4, SameDelivered
  <2> QED
    BY <1>9, <2>3, <2>5, Stutters
<1>14. CASE parent[c] = Null
  <2>1. owner[c] = Null /\ c \in detached
    BY <1>12, <1>14, FrameAssumption
  <2>2. getting = Null
    <3>1. Bodies = {c}
      BY <1>2, <2>1, FrameAssumption, Outermost
    <3>2. ASSUME getting # Null PROVE FALSE
      <4>1. /\ frame[getting] = "body" /\ getting \in Frames
            /\ owner[getting] = Host
        BY <1>2, <3>2 DEF IInv, Awaiting, TypeOK
      <4>2. getting = c
        BY <3>1, <4>1 DEF Bodies
      <4> QED
        BY <2>1, <4>1, <4>2, FrameAssumption
    <3> QED
      BY <3>2
  <2>3. Innermost' = Null
    BY <1>1, <1>14, <2>2 DEF Ready, Innermost
  <2>4. n = 1
    <3>1. n # 1 => parent[s[n]] = s[n - 1]
      BY <1>10 DEF Stacked
    <3>2. n # 1 => s[n - 1] \in Frames
      BY <1>10
    <3> QED
      BY <1>8, <1>10, <1>14, <3>1, <3>2, FrameAssumption
  <2>5. \A g \in Frames : g # s[Len(s)] /\ frame[g] = "body" =>
          frame'[g] = "body"
    BY <1>6, <1>8
  <2>6. Innermost' \notin Frames /\ Len(s) = 1
    BY <1>10, <2>3, <2>4, FrameAssumption
  <2>7. Stacked(SubSeq(s, 1, Len(s) - 1))'
    BY <1>1, <1>8, <2>5, <2>6, StackShrinks
  <2>8. Delivered' = [Delivered EXCEPT ![c] = "unseen"]
    <3>1. Delivered'[c] = "unseen" /\ DOMAIN Delivered' = Frames
      BY <1>1, <1>4, <1>14, <2>1 DEF Delivered
    <3>2. \A f \in Frames \ {c} : Delivered'[f] = Delivered[f]
      BY <1>1, <1>4, <1>7 DEF Delivered
    <3> QED
      BY <3>1, <3>2 DEF Delivered
  <2> QED
    BY <1>8, <1>9, <2>7, <2>8, Returning
<1> QED
  BY <1>13, <1>14

(* The outcome of the innermost call replaces what its caller saw of it.   *)
LEMMA OneDelivered ==
  ASSUME NEW g \in Frames, NEW o, seen' = [seen EXCEPT ![g] = o],
         seen \in [Frames -> {"none", "value", "exception"}],
         \A f \in Frames \ {g} :
           (f \in detached' /\ frame'[f] = "destroyed") =
             (f \in detached /\ frame[f] = "destroyed"),
         g \notin detached'
  PROVE  Delivered' = [Delivered EXCEPT ![g] = o]
<1>1. DOMAIN Delivered' = Frames /\ DOMAIN Delivered = Frames
  BY DEF Delivered
<1>2. Delivered'[g] = o
  BY DEF Delivered
<1>3. \A f \in Frames \ {g} : Delivered'[f] = Delivered[f]
  BY DEF Delivered
<1>4. Delivered' = [f \in Frames |-> Delivered'[f]]
  BY DEF Delivered
<1> QED
  BY <1>1, <1>2, <1>3, <1>4

(* await_resume returns from the innermost call to the frame below it.      *)
LEMMA ContinueSimulates ==
  ASSUME IInv, Chaining, NEW s, Stacked(s), NEW c \in Frames, Continue(c)
  PROVE  Chaining' /\ Simulated(s)
<1> DEFINE g == awaits[c]
<1>1. /\ current = c /\ g # Null
      /\ seen' = [seen EXCEPT ![g] = Outcome(g)]
      /\ awaits' = [awaits EXCEPT ![c] = Null]
      /\ frame' = Destroyed({g})
      /\ UNCHANGED <<parent, owner, current, getting, detached>>
  BY DEF Continue
<1>2. g \in Frames /\ owner[g] = c /\ frame[g] = "final" /\ frame[c] = "body"
  BY <1>1 DEF IInv, Awaiting, TypeOK
<1>3. Outcome(g) \in {"value", "exception"}
  BY <1>2, OutcomeIs
<1>4. parent[g] = c /\ c # Host /\ Innermost = g
  BY <1>1, FrameAssumption DEF Chaining, Innermost
<1>5. awaits'[c] = Null /\ \A f \in Frames : f # c => awaits'[f] = awaits[f]
  BY <1>1 DEF IInv, TypeOK
<1>6. Innermost' = c
  BY <1>1, <1>4, <1>5 DEF Innermost
<1> HIDE DEF g
<1>7. Chaining'
  BY <1>1, <1>5 DEF Chaining
<1>8. \A f \in Frames :
        frame'[f] = IF f \in With({g}) /\ Live(f) THEN "destroyed" ELSE frame[f]
  BY <1>1 DEF Destroyed
<1>9. Bodies' = Bodies
  BY <1>2, <1>8, Survivors
<1>10. g \in With({g}) /\ \A f \in With({g}) : f \notin detached
  BY <1>2, FrameAssumption, OnlyOwned, WithIsClosed
<1>11. Delivered' = [Delivered EXCEPT ![g] = Outcome(g)]
  <2>1. \A f \in Frames \ {g} : (f \in detached' /\ frame'[f] = "destroyed") =
                                  (f \in detached /\ frame[f] = "destroyed")
    BY <1>1, <1>8, <1>10
  <2>2. /\ g \notin detached'
        /\ seen \in [Frames -> {"none", "value", "exception"}]
    BY <1>1, <1>10 DEF IInv, TypeOK
  <2> QED
    BY <1>1, <1>2, <2>1, <2>2, OneDelivered
<1>12. s # <<>> /\ s[Len(s)] = g
  BY <1>2, <1>4 DEF Stacked
<1>13. PICK n \in Nat : n = Len(s) /\ n \in 1..n /\ s \in Seq(Frames)
  BY <1>12, EmptySeq DEF Stacked
<1>14. n # 1 /\ s[n - 1] = c
  <2>1. n = 1 => parent[s[n]] \notin Frames
    BY <1>12, <1>13 DEF Stacked
  <2>2. n # 1 => parent[s[n]] = s[n - 1]
    BY <1>13 DEF Stacked
  <2> QED
    BY <1>4, <1>12, <1>13, <2>1, <2>2
<1>15. \A f \in Frames : frame[f] = "body" => frame'[f] = "body"
  BY <1>9 DEF Bodies
<1>16. Stacked(SubSeq(s, 1, Len(s) - 1))'
  BY <1>1, <1>6, <1>12, <1>13, <1>14, <1>15, StackShrinks
<1> QED
  BY <1>3, <1>7, <1>11, <1>12, <1>16, Returning

(* get returns from the only call to the embedder.                          *)
LEMMA GetReturnsSimulates ==
  ASSUME IInv, Chaining, NEW s, Stacked(s), GetReturns
  PROVE  Chaining' /\ Simulated(s)
<1> DEFINE g == getting
<1>1. /\ current = Host /\ g # Null /\ frame[g] = "final"
      /\ seen' = [seen EXCEPT ![g] = Outcome(g)]
      /\ getting' = Null
      /\ UNCHANGED <<frame, parent, awaits, current, detached>>
  BY DEF GetReturns
<1>2. g \in Frames /\ owner[g] = Host
  BY <1>1 DEF IInv, Awaiting, TypeOK
<1>3. Outcome(g) \in {"value", "exception"}
  BY <1>1, <1>2, OutcomeIs
<1>4. parent[g] = Noop /\ Innermost = g /\ Innermost' = Null
  BY <1>1 DEF Chaining, Innermost
<1> HIDE DEF g
<1>5. Chaining'
  BY <1>1 DEF Chaining
<1>6. g \notin detached
  BY <1>2, FrameAssumption DEF IInv, Owning
<1>7. Delivered' = [Delivered EXCEPT ![g] = Outcome(g)]
  BY <1>1, <1>2, <1>6, OneDelivered DEF IInv, TypeOK
<1>8. s # <<>> /\ s[Len(s)] = g
  BY <1>2, <1>4 DEF Stacked
<1>9. PICK n \in Nat : n = Len(s) /\ n \in 1..n /\ s \in Seq(Frames)
  BY <1>8, EmptySeq DEF Stacked
<1>10. n = 1
  <2>1. n # 1 => parent[s[n]] = s[n - 1]
    BY <1>9 DEF Stacked
  <2>2. n # 1 => s[n - 1] \in Frames
    BY <1>9
  <2> QED
    BY <1>4, <1>8, <1>9, <2>1, <2>2, FrameAssumption
<1>11. Innermost' \notin Frames
  BY <1>4, FrameAssumption
<1>12. Stacked(SubSeq(s, 1, Len(s) - 1))'
  BY <1>1, <1>8, <1>9, <1>10, <1>11, StackShrinks
<1> QED
  BY <1>3, <1>5, <1>7, <1>8, <1>12, Returning

-----------------------------------------------------------------------------
(* Every step is a call, a return or a stutter.                             *)
LEMMA StepSimulates ==
  ASSUME IInv, Chaining, NEW s, Stacked(s), [Next]_vars
  PROVE  Chaining' /\ Simulated(s)
<1>1. ASSUME NEW c \in Frames, Body(c) PROVE Chaining' /\ Simulated(s)
  BY <1>1, CreateSimulates, DropSimulates, AwaitSimulates, ReturnSimulates,
     ContinueSimulates DEF Body
<1>2. CASE Embedder
  BY <1>2, CreateSimulates, DropSimulates, GetSimulates, DetachSimulates,
     ResumeSimulates DEF Embedder
<1>3. CASE Loop
  BY <1>3, GetResumesSimulates, GetReturnsSimulates DEF Loop
<1>4. CASE UNCHANGED vars
  <2>1. UNCHANGED <<frame, parent, awaits, current, getting, detached, seen>>
    BY <1>4 DEF vars
  <2>2. Chaining' /\ Innermost' = Innermost
    BY <2>1 DEF Chaining, Innermost
  <2>3. Stacked(s)'
    BY <2>1, <2>2, StackStays
  <2>4. Delivered' = Delivered
    BY <2>1, SameDelivered
  <2> QED
    BY <2>2, <2>3, <2>4, Stutters
<1> QED
  BY <1>1, <1>2, <1>3, <1>4 DEF Next

(* There is a call stack, and Above reads it, whichever it is.              *)
CallStack == \E s : Stacked(s)
ReadsStack == \A s : Stacked(s) => Above = s

(* Nothing is called at first.                                              *)
LEMMA InitStacks == Init => Chaining /\ CallStack /\ Calls!Init
<1> SUFFICES ASSUME Init PROVE Chaining /\ CallStack /\ Calls!Init
  OBVIOUS
<1>1. Chaining
  BY FrameAssumption DEF Init, Chaining
<1>2. Innermost = Null
  BY DEF Init, Innermost
<1>3. Stacked(<<>>)
  <2>1. <<>> \in Seq(Frames) /\ Len(<<>>) = 0 /\ 1..0 = {}
    OBVIOUS
  <2> QED
    BY <1>2, <2>1, FrameAssumption DEF Stacked
<1>4. Above = <<>>
  BY <1>3, ChainReads
<1>5. Delivered = [f \in Frames |-> "none"]
  BY DEF Init, Delivered
<1> QED
  BY <1>1, <1>3, <1>4, <1>5 DEF CallStack, Calls!Init

(* A step seen through Above and Delivered is a step of NestedCalls.        *)
LEMMA StepCalls ==
  IInv /\ Chaining /\ CallStack /\ [Next]_vars /\ ReadsStack'
    => Chaining' /\ CallStack' /\ [Calls!Next]_<<Above, Delivered>>
<1> SUFFICES ASSUME IInv, Chaining, CallStack, [Next]_vars, ReadsStack'
             PROVE  Chaining' /\ CallStack' /\ [Calls!Next]_<<Above, Delivered>>
  OBVIOUS
<1>1. PICK s : Stacked(s)
  BY DEF CallStack
<1>2. Chaining' /\ Simulated(s)
  BY <1>1, StepSimulates
<1>3. PICK t : Stacked(t)' /\ CallStep(s, Delivered, t, Delivered')
  BY <1>2 DEF Simulated
<1>4. Above = s
  BY <1>1, ChainReads
<1>5. Above' = t
  BY <1>3 DEF ReadsStack
<1>6. s \in Seq(Frames) /\ DOMAIN s = 1..Len(s)
  BY <1>1 DEF Stacked
<1>7. [Calls!Next]_<<Above, Delivered>>
  <2>1. CASE t = s /\ Delivered' = Delivered
    BY <1>4, <1>5, <2>1
  <2>2. ASSUME NEW f \in Frames, Delivered[f] = "none",
               \A i \in 1..Len(s) : s[i] # f, t = Append(s, f),
               Delivered' = Delivered
        PROVE  Calls!Next
    <3>1. Calls!Call(f)
      BY <1>4, <1>5, <1>6, <2>2 DEF Calls!Call
    <3> QED
      BY <3>1 DEF Calls!Next
  <2>3. ASSUME NEW o \in {"value", "exception", "unseen"}, s # <<>>,
               Delivered' = [Delivered EXCEPT ![s[Len(s)]] = o],
               t = SubSeq(s, 1, Len(s) - 1)
        PROVE  Calls!Next
    <3>1. Calls!Return(o)
      BY <1>4, <1>5, <2>3 DEF Calls!Return
    <3> QED
      BY <3>1 DEF Calls!Next, Calls!Outcomes
  <2> QED
    BY <1>3, <2>1, <2>2, <2>3 DEF CallStep
<1> QED
  BY <1>2, <1>3, <1>7 DEF CallStack

(* Coroutine implements NestedCalls: await_suspend, final_suspend and       *)
(* await_resume make coroutines behave like functions that call one         *)
(* another.                                                                 *)
THEOREM BehavesLikeCallsHolds == Spec => BehavesLikeCalls
<1>1. ReadsStack
  BY ChainReads DEF ReadsStack
<1>2. Init => IInv /\ Chaining /\ CallStack /\ Calls!Init
  BY InitHolds, InitStacks
<1>3. IInv /\ Chaining /\ CallStack /\ [Next]_vars /\ ReadsStack'
        => /\ (IInv /\ Chaining /\ CallStack)'
           /\ [Calls!Next]_<<Above, Delivered>>
  BY StepKeeps, StepCalls
<1> QED
  BY <1>1, <1>2, <1>3, PTL DEF Spec, BehavesLikeCalls, Calls!Spec
=============================================================================
