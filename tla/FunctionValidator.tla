------------------------- MODULE FunctionValidator -------------------------
(***************************************************************************)
(* parser/validator.cc: the operand stack of types that is checked while a *)
(* function body is parsed.  It also computes what the compiler lays the   *)
(* frame out with: the most elements and the most bytes ever on the stack. *)
(* A validator is a record; an operation maps it to the next one, with ok  *)
(* FALSE once ValidationException was thrown.                              *)
(*                                                                         *)
(* Instructions are records: op is "const", "add", "get", "set", "return"  *)
(* or "label" (Label, Br and BrIf, which no visitor handles), with the     *)
(* constant in arg for the first and the local's index in arg for get and  *)
(* set.                                                                    *)
(***************************************************************************)
EXTENDS Integers, SequencesExt

CONSTANTS LocalTypes,  \* types of the parameters, then of the other locals
          Results,     \* types of the results
          SizeMod      \* bound: size_t counts modulo this, a multiple of 16

ASSUME SizeAssumption == SizeMod \in Nat \ {0} /\ SizeMod % 16 = 0

ValTypes == {"i32", "i64"}
ASSUME LocalsAssumption == LocalTypes \in Seq(ValTypes)

\* ValidationType::size_bytes.
SizeBytes(vt) == CASE vt = "i32" -> 4 [] vt = "i64" -> 8 [] vt = "any" -> 16

NewValidator == [stack |-> <<>>, unreachable |-> FALSE, ok |-> TRUE,
                 memory |-> 0, maxMemory |-> 0, maxStack |-> 0]

Throw(v) == [v EXCEPT !.ok = FALSE]

Bigger(x, y) == IF x >= y THEN x ELSE y

\* Mistakes: the maximum elements, or the maximum bytes, before the push.
PushLateStack(v, vt) ==
  LET m == (v.memory + SizeBytes(vt)) % SizeMod IN
  [v EXCEPT !.stack = Append(@, vt), !.memory = m, !.maxMemory = Bigger(@, m),
            !.maxStack = Bigger(@, Len(v.stack))]

PushLateMemory(v, vt) ==
  LET m == (v.memory + SizeBytes(vt)) % SizeMod IN
  [v EXCEPT !.stack = Append(@, vt), !.memory = m,
            !.maxMemory = Bigger(@, v.memory),
            !.maxStack = Bigger(@, Len(v.stack) + 1)]

Push(v, vt) ==
  LET m == (v.memory + SizeBytes(vt)) % SizeMod IN
  [v EXCEPT !.stack = Append(@, vt),
            !.memory = m,
            !.maxMemory = Bigger(@, m),
            !.maxStack = Bigger(@, Len(v.stack) + 1)]

\* Mistake: an empty stack can always be popped.
CanPopAlways(v) == TRUE

(* In unreachable code an empty stack yields a value of any type.           *)
CanPop(v) == v.stack # <<>> \/ v.unreachable
Popped(v) == IF v.stack = <<>> THEN "any" ELSE Last(v.stack)
Rest(v) == IF v.stack = <<>> THEN <<>> ELSE Front(v.stack)

Pop(v, vt) ==
  IF ~CanPop(v) THEN Throw(v)
  ELSE [v EXCEPT !.stack = Rest(v),
                 !.memory = (@ - SizeBytes(Popped(v))) % SizeMod,
                 !.ok = @ /\ Popped(v) \in {"any", vt}]

PopResults(v) == FoldLeft(Pop, v, Results)

AssertEmpty(v) == IF v.stack = <<>> THEN v ELSE Throw(v)

AssertLocal(v, i) ==
  IF i \in DOMAIN LocalTypes /\ LocalTypes[i] = "i32" THEN v ELSE Throw(v)

ValidateReturn(v) == [AssertEmpty(PopResults(v)) EXCEPT !.unreachable = TRUE]

Validate(v, ins) ==
  CASE ins.op = "const"  -> Push(v, "i32")
    [] ins.op = "add"    -> Push(Pop(Pop(v, "i32"), "i32"), "i32")
    [] ins.op = "get"    -> Push(AssertLocal(v, ins.arg), "i32")
    [] ins.op = "set"    -> AssertLocal(Pop(v, "i32"), ins.arg)
    [] ins.op = "return" -> ValidateReturn(v)
    [] ins.op = "label"  -> v

Finalize(v) == AssertEmpty(PopResults(v))
=============================================================================
