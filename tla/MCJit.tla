--------------------------------- MODULE MCJit ---------------------------------
(* A module of one function and one of two, of which one is exported under  *)
(* two names; with a few addresses memory runs out and is used again.       *)
EXTENDS Jit

I32ToI32 == [params |-> <<"i32">>, results |-> <<"i32">>]
I64ToI64 == [params |-> <<"i64">>, results |-> <<"i64">>]
UintToInt == [args |-> <<"uint32_t">>, result |-> "int32_t"]
LongToLong == [args |-> <<"int64_t">>, result |-> "int64_t"]
ToDouble == [args |-> <<>>, result |-> "double"]
ThreeNatives == {UintToInt, LongToLong, ToDouble}

Fn(code, signature) == [code |-> code, signature |-> signature]
One == [functions |-> <<Fn("one", I32ToI32)>>, exported |-> [f |-> 0]]
Two == [functions |-> <<Fn("two", I32ToI32), Fn("three", I64ToI64)>>,
        exported |-> [f |-> 1, g |-> 0, h |-> 1]]
OneAndTwo == {One, Two}
=============================================================================
