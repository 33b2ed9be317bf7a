----------------------------- MODULE MCConsole -----------------------------
(***************************************************************************)
(* Instances of Console for model checking.                                *)
(***************************************************************************)
EXTENDS Console

OneLetter == <<[key |-> "a", shifted |-> FALSE]>>
TwoLetters == <<[key |-> "a", shifted |-> TRUE], [key |-> "a", shifted |-> FALSE]>>

\* The keyboard alone, or with the threads that kernel_main starts.
KeysAndThreads == {{"keys"}, {"keys", "threads"}}
BothUsers == {{"keys", "threads"}}

\* What the properties of the run say of a disturbed terminal is said of the
\* state in which it first is.
Undisturbed == ~disturbed
=============================================================================
