------------------------------ MODULE Straight ------------------------------
(***************************************************************************)
(* What interrupts promise to the code they interrupt: that code runs as   *)
(* if nothing had happened.  It goes from one instruction to the next, and *)
(* its registers, its interrupt flag, its data segment and its stack       *)
(* pointer are what its own instructions made of them.                     *)
(***************************************************************************)
EXTENDS Integers, Sequences

CONSTANTS
  End,        \* the last instruction, a loop
  Enables,    \* the instruction that sets the interrupt flag
  Computed(_) \* the registers after an instruction

VARIABLES pc, gpr, flag, ds, depth

Init ==
  /\ pc = 1 /\ gpr = Computed(0)
  /\ flag = 0 /\ ds = 16 /\ depth = 0

Advance ==
  /\ pc < End
  /\ pc' = pc + 1
  /\ gpr' = Computed(pc)
  /\ flag' = IF pc = Enables THEN 1 ELSE flag
  /\ UNCHANGED <<ds, depth>>

Spec == Init /\ [][Advance]_<<pc, gpr, flag, ds, depth>>
=============================================================================
