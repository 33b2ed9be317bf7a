------------------------------ MODULE MCTraps ------------------------------
(***************************************************************************)
(* Traps with made-up stub addresses.                                      *)
(***************************************************************************)
EXTENDS Traps

\* Both halves of every address differ.
StubAddresses == [v \in 0 .. 47 |-> <<v, 16, 16 + v, 192>>]

\* Every line open; what a BIOS usually leaves.
SomeMasks == {<<0, 0>>, <<184, 142>>}
=============================================================================
