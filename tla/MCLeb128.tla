------------------------------ MODULE MCLeb128 ------------------------------
(* Numbers of five bits in groups of two: the last of three groups is cut,  *)
(* as the fifth of 32 bits in groups of seven is.                           *)
EXTENDS Leb128
=============================================================================
