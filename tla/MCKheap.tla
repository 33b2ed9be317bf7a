------------------------------ MODULE MCKheap ------------------------------
(***************************************************************************)
(* The instance of Kheap for model checking.                               *)
(***************************************************************************)
EXTENDS Kheap

SomeProducts == {<<2, 3>>}
=============================================================================
