-------------------------------- MODULE Traps --------------------------------
(***************************************************************************)
(* How the kernel comes to take interrupts and exceptions: the segment and *)
(* interrupt descriptor tables (gdt.c, gdt_flush.asm, idt.c), the          *)
(* reprogramming of the two interrupt controllers, the assembly stubs      *)
(* (interrupts.asm), the dispatch to C handlers, and the way back.  The    *)
(* code that is interrupted is kernel_main; it can be interrupted, and the *)
(* stubs by an NMI, between any two of their steps.                        *)
(*                                                                         *)
(* Every word on the stack is an integer.  32-bit numbers in descriptors   *)
(* are sequences of bytes, the lowest first.  The switch to another thread *)
(* in the timer's handler is in Scheduler; here it returns.                *)
(***************************************************************************)
EXTENDS Integers, Sequences, FiniteSets, FiniteSetsExt, SequencesExt

CONSTANTS
  Stub,        \* the address of the stub of each of the vectors 0 .. 47
  BiosMasks,   \* the interrupt masks the BIOS may leave: pairs, master and slave
  Lines,       \* the interrupt lines that devices raise
  Exceptions,  \* the exceptions that kernel_main runs into
  ErrorCodes   \* the error codes of those that have one

Vectors == 0 .. 47
Bytes == 0 .. 255

\* The exceptions for which the CPU pushes an error code.
CpuPushesError == {8, 10, 11, 12, 13, 14, 17, 21, 29, 30}

ASSUME TrapsAssumption ==
  /\ \A v, w \in Vectors : v # w => Stub[v] # Stub[w]
  /\ \A v \in Vectors : Stub[v] \in [1 .. 4 -> Bytes]
  /\ Lines \subseteq 0 .. 15 /\ Exceptions \subseteq 0 .. 31 /\ ErrorCodes \subseteq Nat
  /\ \A m \in BiosMasks : m \in Bytes \X Bytes

VARIABLES
  gdt,       \* the descriptors of gdt.c
  gdtr,      \* whether lgdt has loaded them; before, stage 2's are in use
  idt,       \* the gates of idt.c
  idtr,      \* whether lidt has loaded them
  pic,       \* the two interrupt controllers
  saved,     \* the masks pic_remap has read
  handlers,  \* the vectors for which idt_register_handler has been called
  cpu,       \* eip, the interrupt flag, cs, ds and the general registers
  stack,     \* the words on the stack, the top one last
  active,    \* history: the events being handled, each with what it interrupted
  lost       \* history: the event that no gate could take, or "none"

vars == <<gdt, gdtr, idt, idtr, pic, saved, handlers, cpu, stack, active, lost>>
tables == <<gdt, gdtr, idt, idtr, saved, handlers>>

-----------------------------------------------------------------------------
(* Segment descriptors.                                                    *)

Zero == <<0, 0, 0, 0>>
Ones == <<255, 255, 255, 255>>

\* Limit bits 16 to 19 and the flags.
Granularity(limit, gran) == (limit[3] % 16) + (gran - (gran % 16))

\* gdt_set_entry.
SegmentEntry(base, limit, access, gran) ==
  [limit_low |-> <<limit[1], limit[2]>>, base_low |-> <<base[1], base[2]>>,
   base_middle |-> base[3], access |-> access,
   granularity |-> Granularity(limit, gran), base_high |-> base[4]]

NoSegment == SegmentEntry(Zero, Zero, 0, 0)

\* What the CPU makes of a descriptor: a present segment of all 4 GB in ring 0,
\* with 32-bit operands.
Bit(n, k) == (n \div 2^k) % 2 = 1
Flat(d) ==
  /\ d.base_low \o <<d.base_middle, d.base_high>> = Zero
  /\ d.limit_low = <<255, 255>> /\ d.granularity % 16 = 15
  /\ Bit(d.granularity, 7) /\ Bit(d.granularity, 6)
  /\ Bit(d.access, 7) /\ ~Bit(d.access, 6) /\ ~Bit(d.access, 5) /\ Bit(d.access, 4)

CodeSegment(table, sel) ==
  sel \div 8 \in 1 .. 2 /\ Flat(table[sel \div 8]) /\ Bit(table[sel \div 8].access, 3)
DataSegment(table, sel) ==
  /\ sel \div 8 \in 1 .. 2 /\ Flat(table[sel \div 8])
  /\ ~Bit(table[sel \div 8].access, 3) /\ Bit(table[sel \div 8].access, 1)

-----------------------------------------------------------------------------
(* Gates.                                                                  *)

\* Mutant: the low half of the address goes into both fields.
GateTwiceLow(base, selector, flags) ==
  [base_low |-> <<base[1], base[2]>>, base_high |-> <<base[1], base[2]>>,
   selector |-> selector, zero |-> 0, flags |-> flags]

\* idt_set_entry.
Gate(base, selector, flags) ==
  [base_low |-> <<base[1], base[2]>>, base_high |-> <<base[3], base[4]>>,
   selector |-> selector, zero |-> 0, flags |-> flags]

NoGate == Gate(Zero, 0, 0)

\* What idt_init installs: interrupt gates for the 32 exceptions and the 16
\* lines; the other 208 stay empty.
Gates == [v \in Bytes |-> IF v \in Vectors THEN Gate(Stub[v], 8, 142) ELSE NoGate]

\* The stub a gate leads to, or -1.
Target(g) ==
  LET hits == {v \in Vectors : Stub[v] = g.base_low \o g.base_high}
  IN  IF Bit(g.flags, 7) /\ g.flags % 16 \in {14, 15} /\ hits # {}
      THEN CHOOSE v \in hits : TRUE ELSE -1

-----------------------------------------------------------------------------
(* The interrupt controllers.                                              *)

Chips == {"master", "slave"}

\* A byte written to the data port of a controller: one of the initialization
\* words 2 to 4 while it waits for them, else the mask.
DataWritten(chip, b) ==
  CASE chip.next = 2 -> [chip EXCEPT !.offset = b, !.next = 3]
    [] chip.next = 3 -> [chip EXCEPT !.wiring = b, !.next = 4]
    [] chip.next = 4 -> [chip EXCEPT !.next = 0]
    [] OTHER         -> [chip EXCEPT !.mask = b]

\* A byte written to the command port: the start of an initialization, which
\* clears the mask, or the end of the interrupt with the highest priority.
CommandWritten(chip, b) ==
  IF b = 17 THEN [chip EXCEPT !.next = 2, !.mask = 0, !.inService = {}]
  ELSE [chip EXCEPT !.inService = IF @ = {} THEN @ ELSE @ \ {Min(@)}]

Command(c, b) == [chip |-> c, port |-> "command", byte |-> b]
Data(c, b) == [chip |-> c, port |-> "data", byte |-> b]
Written(p, w) ==
  [p EXCEPT ![w.chip] = IF w.port = "data" THEN DataWritten(@, w.byte)
                        ELSE CommandWritten(@, w.byte)]

\* The writes of pic_remap.
RemapWrites ==
  <<Command("master", 17), Command("slave", 17), Data("master", 32), Data("slave", 40),
    Data("master", 4), Data("slave", 2), Data("master", 1), Data("slave", 1),
    Data("master", saved[1]), Data("slave", saved[2])>>

-----------------------------------------------------------------------------
(* Execution.  The instructions of kernel_main are its calls up to the      *)
(* idle loop; the stubs and handlers have addresses of their own.           *)

Op(o, n) == [op |-> o, n |-> n]

\* gdt_init, idt_init, keyboard_init, timer_init and vmm_init.
Program ==
  <<Op("segment", 0), Op("segment", 1), Op("segment", 2), Op("flush", 0), Op("masks", 0)>>
  \o [i \in 1 .. 10 |-> Op("remap", i)]
  \o <<Op("gates", 0), Op("lidt", 0), Op("sti", 0), Op("register", 33),
       Op("register", 32), Op("register", 14), Op("idle", 0)>>

LastPoint == Len(Program)
StiPoint == CHOOSE i \in 1 .. LastPoint : Program[i].op = "sti"

StubAddress(v) == 100 + v    \* the stub of a vector
Save == 150                  \* isr_common
Dispatch == 151              \* interrupt_handler
Acknowledge == 152           \* its end-of-interrupt
Halt == 153                  \* the hlt of page_fault_handler
Restore == 154               \* isr_common after the call
Iret == 155

Gprs == <<"eax", "ecx", "edx", "ebx", "ebp", "esi", "edi">>
Scratch == {"eax", "ecx", "edx"}    \* what a C function may change

\* The registers kernel_main has after its instruction i: each has a value of its
\* own in both halves.
Half == 65536
Computed(i) == [r \in ToSet(Gprs) |-> Half * (CHOOSE k \in DOMAIN Gprs : Gprs[k] = r) + i]

Executes(at) == cpu.eip = at /\ lost = "none"
InProgram(o) == Executes(cpu.eip) /\ cpu.eip \in 1 .. LastPoint /\ Program[cpu.eip].op = o
Operand == Program[cpu.eip].n

\* An instruction of kernel_main other than sti is done.
Done(flag) ==
  cpu' = [cpu EXCEPT !.eip = @ + 1, !.flag = flag, !.gpr = Computed(cpu.eip)]

\* The three calls of gdt_set_entry.
SetSegment ==
  /\ InProgram("segment")
  /\ gdt' = [gdt EXCEPT ![Operand] =
               CASE Operand = 0 -> NoSegment
                 [] Operand = 1 -> SegmentEntry(Zero, Ones, 154, 207)
                 [] Operand = 2 -> SegmentEntry(Zero, Ones, 146, 207)]
  /\ Done(cpu.flag)
  /\ UNCHANGED <<gdtr, idt, idtr, pic, saved, handlers, stack, active, lost>>

\* gdt_flush: lgdt, the data segments, and the far jump that loads CS.
GdtFlush ==
  /\ InProgram("flush")
  /\ gdtr' = TRUE
  /\ IF DataSegment(gdt, 16) /\ CodeSegment(gdt, 8)
     THEN /\ cpu' = [cpu EXCEPT !.eip = @ + 1, !.ds = 16, !.cs = 8, !.gpr = Computed(cpu.eip)]
          /\ UNCHANGED lost
     ELSE lost' = "segment" /\ UNCHANGED cpu
  /\ UNCHANGED <<gdt, idt, idtr, pic, saved, handlers, stack, active>>

\* pic_remap reads the masks, and programs the controllers.
ReadMasks ==
  /\ InProgram("masks")
  /\ saved' = <<pic["master"].mask, pic["slave"].mask>>
  /\ Done(cpu.flag)
  /\ UNCHANGED <<gdt, gdtr, idt, idtr, pic, handlers, stack, active, lost>>

Remap ==
  /\ InProgram("remap")
  /\ pic' = Written(pic, RemapWrites[Operand])
  /\ Done(cpu.flag)
  /\ UNCHANGED <<tables, stack, active, lost>>

SetGates ==
  /\ InProgram("gates")
  /\ idt' = Gates
  /\ Done(cpu.flag)
  /\ UNCHANGED <<gdt, gdtr, idtr, pic, saved, handlers, stack, active, lost>>

Lidt ==
  /\ InProgram("lidt")
  /\ idtr' = TRUE
  /\ Done(cpu.flag)
  /\ UNCHANGED <<gdt, gdtr, idt, pic, saved, handlers, stack, active, lost>>

Sti ==
  /\ InProgram("sti")
  /\ Done(1)
  /\ UNCHANGED <<tables, pic, stack, active, lost>>

\* idt_register_handler.
RegisterHandler ==
  /\ InProgram("register")
  /\ handlers' = handlers \cup {Operand}
  /\ Done(cpu.flag)
  /\ UNCHANGED <<gdt, gdtr, idt, idtr, pic, saved, stack, active, lost>>

-----------------------------------------------------------------------------
(* Interrupts and exceptions.                                              *)

\* What an event interrupts: where the code goes on, and its registers.
Context(eip) ==
  [eip |-> eip, flag |-> cpu.flag, cs |-> cpu.cs, ds |-> cpu.ds, gpr |-> cpu.gpr,
   depth |-> Len(stack)]

\* The CPU takes an event: kind and number say what happened, code is its error
\* code, vector is what the CPU looks up.
Take(kind, number, code, vector) ==
  LET gate == idt[vector]
      to   == Target(gate)
      eip  == IF cpu.eip = Halt THEN Acknowledge ELSE cpu.eip
      pushesCode == kind = "exception" /\ number \in CpuPushesError
  IN  IF idtr /\ to # -1 /\ gdtr /\ CodeSegment(gdt, gate.selector)
      THEN /\ stack' = stack \o <<cpu.flag, cpu.cs, eip>>
                             \o (IF pushesCode THEN <<code>> ELSE <<>>)
           /\ cpu' = [cpu EXCEPT !.eip = StubAddress(to), !.cs = gate.selector,
                                 !.flag = IF gate.flags % 16 = 14 THEN 0 ELSE @]
           /\ active' = Append(active, [kind |-> kind, number |-> number,
                                        code |-> IF pushesCode THEN code ELSE 0,
                                        context |-> Context(eip)])
           /\ UNCHANGED lost
      ELSE lost' = kind /\ UNCHANGED <<stack, cpu, active>>

\* An instruction of kernel_main faults.
Exception(v, code) ==
  /\ Executes(cpu.eip) /\ cpu.eip \in 1 .. LastPoint
  /\ Take("exception", v, code, v)
  /\ UNCHANGED <<tables, pic>>

\* A non-maskable interrupt, unless one is being handled.
Nmi ==
  /\ Executes(cpu.eip)
  /\ \A i \in DOMAIN active : active[i].kind # "nmi"
  /\ Take("nmi", 2, 0, 2)
  /\ UNCHANGED <<tables, pic>>

Masked(c, k) == Bit(pic[c].mask, k)
Outranked(c, k) == \E j \in pic[c].inService : j <= k

\* A device's interrupt passes the controllers and the CPU takes it.
Irq(n) ==
  LET c == IF n < 8 THEN "master" ELSE "slave"
  IN  /\ Executes(cpu.eip) /\ cpu.flag = 1
      /\ n # 2 /\ \A d \in Chips : pic[d].next = 0
      /\ ~Masked(c, n % 8) /\ ~Outranked(c, n % 8)
      /\ n >= 8 => ~Masked("master", 2) /\ ~Outranked("master", 2)
      /\ Take("irq", n, 0, pic[c].offset + (n % 8))
      /\ pic' = [d \in Chips |->
                   [pic[d] EXCEPT !.inService =
                      @ \cup (IF d = c THEN {n % 8} ELSE IF n >= 8 THEN {2} ELSE {})]]
      /\ UNCHANGED tables

\* A line that is withdrawn too late: the controller presents its last line, and
\* has nothing in service.
Spurious(c) ==
  /\ Executes(cpu.eip) /\ cpu.flag = 1
  /\ \A d \in Chips : pic[d].next = 0
  /\ pic[c].inService = {} /\ pic["master"].inService = {}
  /\ c = "slave" => ~Masked("master", 2)
  /\ Take("irq", IF c = "master" THEN 7 ELSE 15, 0, pic[c].offset + 7)
  /\ pic' = IF c = "slave" THEN [pic EXCEPT !["master"].inService = {2}] ELSE pic
  /\ UNCHANGED tables

-----------------------------------------------------------------------------
(* The stubs and the handlers.                                             *)

\* Mutant: every stub pushes a dummy error code.
DummyCodesAlways == Vectors

\* The stubs that push a dummy error code.
DummyCodes == (0 .. 7) \cup {9, 15, 16, 18, 19, 20} \cup (22 .. 28) \cup (31 .. 47)

RunStub(v) ==
  /\ Executes(StubAddress(v))
  /\ stack' = stack \o (IF v \in DummyCodes THEN <<0, v>> ELSE <<v>>)
  /\ cpu' = [cpu EXCEPT !.eip = Save]
  /\ UNCHANGED <<tables, pic, active, lost>>

\* A move to %ax leaves the upper half of EAX as it is.
WithAx(eax, n) == eax - (eax % Half) + n

\* isr_common up to the call: pusha, the data segment in a word whose upper half
\* is that of EAX, the kernel's segment.
SaveState ==
  /\ Executes(Save)
  /\ LET g == cpu.gpr
     IN  stack' = stack \o <<g["eax"], g["ecx"], g["edx"], g["ebx"], Len(stack),
                             g["ebp"], g["esi"], g["edi"], WithAx(g["eax"], cpu.ds)>>
  /\ cpu' = [cpu EXCEPT !.eip = Dispatch, !.ds = 16, !.gpr["eax"] = WithAx(@, 16)]
  /\ UNCHANGED <<tables, pic, active, lost>>

\* struct interrupt_frame, from the top of the stack.
Layout == <<"ds", "edi", "esi", "ebp", "esp", "ebx", "edx", "ecx", "eax",
            "interrupt_number", "error_code", "eip", "cs", "eflags">>
InFrame(field) == stack[Len(stack) + 1 - (CHOOSE k \in DOMAIN Layout : Layout[k] = field)]

\* The handler of interrupt_handler's table, if there is one: the timer's sends
\* an end-of-interrupt, the page fault's halts.
DispatchHandler ==
  /\ Executes(Dispatch)
  /\ LET v == InFrame("interrupt_number")
     IN  /\ cpu' = [cpu EXCEPT
                      !.eip = IF v = 14 /\ v \in handlers THEN Halt ELSE Acknowledge,
                      !.gpr = [r \in DOMAIN @ |-> IF r \in Scratch THEN 0 ELSE @[r]]]
         /\ pic' = IF v = 32 /\ v \in handlers THEN Written(pic, Command("master", 32)) ELSE pic
  /\ UNCHANGED <<tables, stack, active, lost>>

\* Mutant: the slave is acknowledged instead of the master.
EndsSlaveOnly(p, v) ==
  IF v \in 40 .. 47 THEN Written(p, Command("slave", 32))
  ELSE IF v \in 32 .. 39 THEN Written(p, Command("master", 32)) ELSE p

\* The controllers p after the end-of-interrupt commands of interrupt_handler: to
\* the slave for its lines, and to the master for all.
Ends(p, v) ==
  LET q == IF v \in 40 .. 47 THEN Written(p, Command("slave", 32)) ELSE p
  IN  IF v \in 32 .. 47 THEN Written(q, Command("master", 32)) ELSE q

SendEoi ==
  /\ Executes(Acknowledge)
  /\ pic' = Ends(pic, InFrame("interrupt_number"))
  /\ cpu' = [cpu EXCEPT !.eip = Restore]
  /\ UNCHANGED <<tables, stack, active, lost>>

\* Mutant: the error code stays on the stack.
DroppedOne == 1

\* Error code and interrupt number.
Dropped == 2

\* The data segment from %ax, popa, which ignores the stack pointer, and add $8, %esp.
RestoreState ==
  /\ Executes(Restore)
  /\ cpu' = [cpu EXCEPT !.eip = Iret, !.ds = InFrame("ds") % Half,
                        !.gpr = [r \in DOMAIN @ |-> InFrame(r)]]
  /\ stack' = SubSeq(stack, 1, Len(stack) - 9 - Dropped)
  /\ UNCHANGED <<tables, pic, active, lost>>

ReturnFromInterrupt ==
  /\ Executes(Iret)
  /\ LET top == Len(stack)
     IN  cpu' = [cpu EXCEPT !.eip = stack[top], !.cs = stack[top - 1], !.flag = stack[top - 2]]
  /\ stack' = SubSeq(stack, 1, Len(stack) - 3)
  /\ active' = Front(active)
  /\ UNCHANGED <<tables, pic, lost>>

-----------------------------------------------------------------------------

Chip(offset, mask) == [offset |-> offset, wiring |-> 0, next |-> 0, mask |-> mask, inService |-> {}]

\* Stage 2 has entered kernel_main in its flat segments with interrupts off; the
\* controllers are as the BIOS left them.
Init ==
  /\ gdt = [i \in 0 .. 2 |-> NoSegment] /\ gdtr = FALSE
  /\ idt = [v \in Bytes |-> NoGate] /\ idtr = FALSE
  /\ \E m \in BiosMasks :
       pic = [c \in Chips |-> IF c = "master" THEN Chip(8, m[1]) ELSE Chip(112, m[2])]
  /\ saved = <<0, 0>> /\ handlers = {}
  /\ cpu = [eip |-> 1, flag |-> 0, cs |-> 8, ds |-> 16, gpr |-> Computed(0)]
  /\ stack = <<>> /\ active = <<>> /\ lost = "none"

Boot ==
  \/ SetSegment \/ GdtFlush \/ ReadMasks \/ Remap \/ SetGates \/ Lidt \/ Sti \/ RegisterHandler

Event ==
  \/ \E v \in Exceptions, code \in ErrorCodes : Exception(v, code)
  \/ Nmi
  \/ \E n \in Lines : Irq(n)
  \/ \E c \in Chips : Spurious(c)

Handling ==
  \/ \E v \in Vectors : RunStub(v)
  \/ SaveState \/ DispatchHandler \/ SendEoi \/ RestoreState \/ ReturnFromInterrupt

Next == Boot \/ Event \/ Handling

Spec == Init /\ [][Next]_vars

-----------------------------------------------------------------------------
(* Properties.                                                             *)

\* The vector the kernel's tables have for an event: "Hardware IRQs (timer,
\* keyboard, disk, etc.)" are 32-47 (idt.h:15).
ExpectedVector(e) == IF e.kind = "irq" THEN 32 + e.number ELSE e.number

\* The frame a C handler gets is the event's: its interrupt number, its error code
\* or 0, and what was interrupted, whether or not the CPU pushed a code, and
\* whichever stub an NMI came in between.  Of the 32 bits of its field ds the lower
\* half is the segment.
FrameFaithful ==
  Executes(Dispatch) =>
    LET e == Last(active)
    IN  /\ InFrame("interrupt_number") = ExpectedVector(e)
        /\ InFrame("error_code") = e.code
        /\ InFrame("eip") = e.context.eip /\ InFrame("cs") = e.context.cs
        /\ InFrame("eflags") = e.context.flag /\ InFrame("ds") % Half = e.context.ds
        /\ \A r \in ToSet(Gprs) : InFrame(r) = e.context.gpr[r]

\* No interrupt and no segment load is lost: from the first device interrupt the
\* CPU takes there is a gate and a segment for it.  Only an exception or an NMI
\* before lidt finds nothing.
NothingLost == lost # "none" => lost \in {"exception", "nmi"} /\ ~idtr

\* Every interrupt is acknowledged where it came from: when no interrupt is being
\* handled no line is in service, and once the controllers are programmed they
\* have the masks the BIOS had left.
LinesReleased ==
  /\ (\A i \in DOMAIN active : active[i].kind # "irq") => \A c \in Chips : pic[c].inService = {}
  /\ idtr => <<pic["master"].mask, pic["slave"].mask>> = saved /\ \A c \in Chips : pic[c].next = 0

\* The code that is interrupted: kernel_main's own registers.
Own == IF active = <<>> THEN Context(cpu.eip) ELSE active[1].context

Uninterrupted == INSTANCE Straight WITH
  End <- LastPoint, Enables <- StiPoint, Computed <- Computed,
  pc <- Own.eip, gpr <- Own.gpr, flag <- Own.flag, ds <- Own.ds, depth <- Own.depth

\* Interrupts are transparent: whatever events come, and however they nest,
\* kernel_main runs as if there were none (the specification Straight).
Transparent == Uninterrupted!Spec
=============================================================================
