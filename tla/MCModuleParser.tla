-------------------------- MODULE MCModuleParser --------------------------
(* Modules of a few items.  Two signatures tell functions apart; the codes  *)
(* are one that fits each signature, one that needs its own local, one with *)
(* too many locals and one whose size is wrong.                             *)
EXTENDS ModuleParser

Nothing == [params |-> <<>>, results |-> <<>>]
Identity == [params |-> <<"i32">>, results |-> <<"i32">>]
Wide == [params |-> <<"i32", "i32">>, results |-> <<>>]
ThreeSignatures == {Nothing, Identity, Wide}

Code(groups, reads, leaves, sized) ==
  [groups |-> groups, reads |-> reads, leaves |-> leaves, sized |-> sized]
Some(n, type) == [n |-> n, type |-> type]
FiveCodes ==
  {Code(<<>>, {}, <<>>, TRUE), Code(<<>>, {0}, <<"i32">>, TRUE),
   Code(<<Some(1, "i64"), Some(1, "i32")>>, {1}, <<>>, TRUE),
   Code(<<Some(2, "i32"), Some(1, "i32")>>, {}, <<>>, TRUE),
   Code(<<>>, {}, <<>>, FALSE)}

AtMostTwo == [id \in 1..7 |-> IF id \in {2, 4, 5, 6} THEN 1 ELSE 2]
=============================================================================
