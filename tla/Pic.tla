-------------------------------- MODULE Pic --------------------------------
(***************************************************************************)
(* The master 8259 interrupt controller, as far as the kernel drives it:   *)
(* it runs in the fully nested, edge-triggered mode that pic_remap (idt.c) *)
(* selects, and every acknowledgement the kernel sends is the non-specific *)
(* end-of-interrupt command outb(0x20, 0x20).                              *)
(*                                                                         *)
(* Hardware is external to the repository: these operators follow how      *)
(* idt.c and timer.c use the chip.                                         *)
(***************************************************************************)
EXTENDS Naturals

TimerIrq    == 0      \* interrupt 32
KeyboardIrq == 1      \* interrupt 33
Irqs        == {TimerIrq, KeyboardIrq}

(***************************************************************************)
(* A request is presented to the CPU when no request of the same or of a   *)
(* higher priority (a smaller number) is in service, and of the requests   *)
(* waiting the one of the highest priority is presented.                   *)
(***************************************************************************)
Presented(irr, isr) ==
  {i \in irr : /\ \A j \in irr : i <= j
               /\ \A j \in isr : i < j}

(***************************************************************************)
(* A non-specific EOI ends the service of whichever interrupt in service   *)
(* has the highest priority: it cannot say whose it is.  With nothing in   *)
(* service it has no effect.                                               *)
(***************************************************************************)
Eoi(isr) == {i \in isr : \E j \in isr : j < i}
=============================================================================
