-------------------------- MODULE MCCompilation --------------------------
(* Register files of two to four registers stand for the nine and fifteen   *)
(* of the backends: what matters is whether a body's stack outgrows them.   *)
EXTENDS Compilation

TwoRegs == {0, 1}
FourRegs == {0, 1, 2, 3}

OneI32 == <<"i32">>
TwoI32 == <<"i32", "i32">>
I32AndI64 == <<"i32", "i64">>
NoTypes == <<>>

AllOps == {"const", "add", "get", "set", "return", "label"}
StackOps == {"const", "add"}
ReadOps == {"const", "add", "get", "return"}
LocalOps == {"const", "add", "get", "set", "return"}
=============================================================================
