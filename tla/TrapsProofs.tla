---------------------------- MODULE TrapsProofs ----------------------------
(***************************************************************************)
(* Proofs about Traps for all addresses of the stubs, masks of the BIOS,   *)
(* interrupt lines, exceptions and error codes, however interrupts nest:   *)
(* no interrupt is lost once there are gates, handlers get the frame of    *)
(* their event, lines are released, and kernel_main runs as if there were  *)
(* no interrupts (the refinement of Straight).                             *)
(***************************************************************************)
EXTENDS Traps, SequenceTheorems, TLAPS

Registers == ToSet(Gprs)
Contexts ==
  [eip : Nat, flag : {0, 1}, cs : Int, ds : Int, gpr : [Registers -> Int], depth : Nat]
Events ==
  [kind : {"exception", "nmi", "irq"}, number : 0 .. 31, code : Nat, context : Contexts]
CpuType == [eip : Nat, flag : {0, 1}, cs : Int, ds : Int, gpr : [Registers -> Int]]
ChipType ==
  [offset : Nat, wiring : Nat, next : {0, 2, 3, 4}, mask : Nat, inService : SUBSET Nat]

\* The types.
TypeInv ==
  /\ DOMAIN gdt = 0 .. 2
  /\ pic \in [Chips -> ChipType]
  /\ saved \in Nat \X Nat
  /\ cpu \in CpuType
  /\ stack \in Seq(Int)
  /\ active \in Seq(Events)
  /\ \A i \in 1 .. Len(active) : active[i].kind = "irq" => active[i].number < 16

\* What the handler of event i, or for 0 kernel_main, goes on with: the CPU's state, or
\* what the next event has interrupted.
State(i) == IF i = Len(active) THEN Context(cpu.eip) ELSE active[i + 1].context

\* Where kernel_main is: all it has not done yet is as the BIOS or stage 2 left it.
Point == State(0).eip

\* gdt_init, gdt_flush, idt_init and sti are done up to there, and kernel_main has its
\* segments, an empty stack and the flag it has set.
TableInv ==
  /\ Point \in 1 .. LastPoint
  /\ Point > 2 => gdt[1] = SegmentEntry(Zero, Ones, 154, 207)
  /\ Point > 3 => gdt[2] = SegmentEntry(Zero, Ones, 146, 207)
  /\ Point > 4 => gdtr
  /\ Point > 16 => idt = Gates
  /\ idtr <=> Point > 17
  /\ State(0).cs = 8 /\ State(0).ds = 16 /\ State(0).depth = 0
  /\ State(0).flag = (IF Point > 18 THEN 1 ELSE 0)
  /\ active # <<>> => idtr
  /\ NothingLost

\* pic_remap is done up to there: the word each controller waits for, the offsets, and
\* the masks, which were read before and are written back at the end.
RemapInv ==
  /\ pic["master"].next = CASE Point \in 7 .. 8   -> 2 [] Point \in 9 .. 10 -> 3
                            [] Point \in 11 .. 12 -> 4 [] OTHER -> 0
  /\ pic["slave"].next = CASE Point \in 8 .. 9   -> 2 [] Point \in 10 .. 11 -> 3
                           [] Point \in 12 .. 13 -> 4 [] OTHER -> 0
  /\ Point > 8 => pic["master"].offset = 32
  /\ Point > 9 => pic["slave"].offset = 40
  /\ Point > 14 => pic["master"].mask = saved[1]
  /\ Point > 15 => pic["slave"].mask = saved[2]

\* How many words of event e are on the stack where its handler is, and what they are.
InC == {Dispatch, Acknowledge, Halt, Restore}
Height(e, at) ==
  CASE at = Iret -> 3
    [] at = Save -> 5
    [] at \in InC -> 14
    [] OTHER -> IF e.kind = "exception" /\ e.number \in CpuPushesError THEN 4 ELSE 3

Holds(e, n) ==
  LET d == e.context.depth
      g == e.context.gpr
  IN  /\ stack[d + 1] = e.context.flag /\ stack[d + 2] = e.context.cs
      /\ stack[d + 3] = e.context.eip
      /\ n > 3 => stack[d + 4] = e.code
      /\ n > 4 => stack[d + 5] = ExpectedVector(e)
      /\ n = 14 =>
           /\ stack[d + 6] = g["eax"] /\ stack[d + 7] = g["ecx"] /\ stack[d + 8] = g["edx"]
           /\ stack[d + 9] = g["ebx"] /\ stack[d + 11] = g["ebp"] /\ stack[d + 12] = g["esi"]
           /\ stack[d + 13] = g["edi"] /\ stack[d + 14] % Half = e.context.ds

\* State s is one of the handler of e: in the stub for e or after it, with interrupts off and in the
\* kernel's segments, with the registers of the interrupted code outside C.
Handles(e, s) ==
  /\ s.eip \in {StubAddress(ExpectedVector(e)), Save, Iret} \cup InC
  /\ s.flag = 0 /\ s.cs = 8 /\ s.ds = 16
  /\ s.depth = e.context.depth + Height(e, s.eip)
  /\ s.eip \notin InC => s.gpr = e.context.gpr

\* Every event's handler is in such a state, what it has pushed is on the stack, above
\* what those it has interrupted have pushed; only code of kernel_main is interrupted by
\* other events than an NMI; an error code is the CPU's or 0.
NestInv ==
  \A i \in 1 .. Len(active) :
    /\ Handles(active[i], State(i))
    /\ Holds(active[i], Height(active[i], State(i).eip))
    /\ \A j \in 1 .. i : active[j].context.depth <= active[i].context.depth
    /\ i > 1 => active[i].kind = "nmi"
    /\ active[i].kind = "nmi" => active[i].number = 2
    /\ ~(active[i].kind = "exception" /\ active[i].number \in CpuPushesError) => active[i].code = 0

\* A line in service is that of the interrupt that came first, which has not been
\* acknowledged; it is the only one of its controller.
LineInv ==
  \A c \in Chips : pic[c].inService # {} =>
    /\ active # <<>> /\ active[1].kind = "irq" /\ State(1).eip \notin {Restore, Iret}
    /\ c = "slave" => active[1].number >= 8
    /\ \A x, y \in pic[c].inService : x = y

TrapsInv == TypeInv /\ TableInv /\ RemapInv /\ NestInv /\ LineInv

-----------------------------------------------------------------------------
(* Constants of the code.                                                  *)

\* The instructions of kernel_main.
LEMMA ProgramPoints ==
  /\ LastPoint = 22
  /\ \A i \in 1 .. 3 : Program[i] = Op("segment", i - 1)
  /\ Program[4] = Op("flush", 0) /\ Program[5] = Op("masks", 0)
  /\ \A i \in 6 .. 15 : Program[i] = Op("remap", i - 5)
  /\ Program[16] = Op("gates", 0) /\ Program[17] = Op("lidt", 0) /\ Program[18] = Op("sti", 0)
  /\ Program[19] = Op("register", 33) /\ Program[20] = Op("register", 32)
  /\ Program[21] = Op("register", 14) /\ Program[22] = Op("idle", 0)
<1>1. LastPoint = 22
  BY DEF LastPoint, Program
<1>2. \A i \in 1 .. 3 : Program[i] = Op("segment", i - 1)
  BY DEF Program
<1>3. Program[4] = Op("flush", 0) /\ Program[5] = Op("masks", 0)
  BY DEF Program
<1>4. \A i \in 6 .. 15 : Program[i] = Op("remap", i - 5)
  BY DEF Program
<1>5. Program[16] = Op("gates", 0) /\ Program[17] = Op("lidt", 0) /\ Program[18] = Op("sti", 0)
  BY DEF Program
<1>6. /\ Program[19] = Op("register", 33) /\ Program[20] = Op("register", 32)
      /\ Program[21] = Op("register", 14) /\ Program[22] = Op("idle", 0)
  BY DEF Program
<1> QED
  BY <1>1, <1>2, <1>3, <1>4, <1>5, <1>6

\* Where an operation stands in kernel_main.
LEMMA OpPoints ==
  ASSUME NEW i \in 1 .. LastPoint
  PROVE  /\ Program[i].op = "segment" => i \in 1 .. 3 /\ Program[i].n = i - 1
         /\ Program[i].op = "flush" => i = 4
         /\ Program[i].op = "masks" => i = 5
         /\ Program[i].op = "remap" => i \in 6 .. 15 /\ Program[i].n = i - 5
         /\ Program[i].op = "gates" => i = 16
         /\ Program[i].op = "lidt" => i = 17
         /\ Program[i].op = "sti" <=> i = 18
         /\ Program[i].op = "register" => i \in 19 .. 21
<1>1. LastPoint = 22
  BY ProgramPoints
<1>2. CASE i \in 1 .. 3
  BY <1>2, ProgramPoints DEF Op
<1>3. CASE i \in 6 .. 15
  BY <1>3, ProgramPoints DEF Op
<1>4. CASE i \in {4, 5, 16, 17}
  BY <1>4, ProgramPoints DEF Op
<1>5. CASE i \in {18, 19, 20, 21, 22}
  BY <1>5, ProgramPoints DEF Op
<1> QED
  BY <1>1, <1>2, <1>3, <1>4, <1>5

\* Interrupts are enabled by the instruction 18.
LEMMA StiPointIs == StiPoint = 18
<1>1. LastPoint = 22
  BY ProgramPoints
<1>2. \A i \in 1 .. LastPoint : Program[i].op = "sti" <=> i = 18
  BY OpPoints
<1> QED
  BY <1>1, <1>2 DEF StiPoint

\* The registers pusha saves.
LEMMA RegistersAre == Registers = {"eax", "ecx", "edx", "ebx", "ebp", "esi", "edi"}
  BY DEF Registers, ToSet, Gprs

\* What kernel_main computes is numbers.
LEMMA ComputedType ==
  ASSUME NEW i \in Nat
  PROVE  Computed(i) \in [Registers -> Int]
<1>1. DOMAIN Gprs = 1 .. 7
  BY DEF Gprs
<1>2. ASSUME NEW r \in Registers
      PROVE  (CHOOSE k \in DOMAIN Gprs : Gprs[k] = r) \in Int
  BY <1>1 DEF Registers, ToSet
<1>3. \A r \in Registers : Half * (CHOOSE k \in DOMAIN Gprs : Gprs[k] = r) + i \in Int
  BY <1>2 DEF Half
<1> QED
  BY <1>3 DEF Computed, Registers

\* struct interrupt_frame has its fields at these words below the top of the stack.
LEMMA FrameFields ==
  ASSUME NEW n \in Nat, n = Len(stack)
  PROVE  /\ InFrame("ds") = stack[n] /\ InFrame("edi") = stack[n - 1]
         /\ InFrame("esi") = stack[n - 2] /\ InFrame("ebp") = stack[n - 3]
         /\ InFrame("ebx") = stack[n - 5] /\ InFrame("edx") = stack[n - 6]
         /\ InFrame("ecx") = stack[n - 7] /\ InFrame("eax") = stack[n - 8]
         /\ InFrame("interrupt_number") = stack[n - 9]
         /\ InFrame("error_code") = stack[n - 10] /\ InFrame("eip") = stack[n - 11]
         /\ InFrame("cs") = stack[n - 12] /\ InFrame("eflags") = stack[n - 13]
<1>1. DOMAIN Layout = 1 .. 14
  BY DEF Layout
<1>3. InFrame("ds") = stack[n + 1 - 1]
  <2>1. \A j \in 1 .. 14 : Layout[j] = "ds" <=> j = 1
    BY DEF Layout
  <2>2. (CHOOSE k \in DOMAIN Layout : Layout[k] = "ds") = 1
    BY <1>1, <2>1
  <2> QED
    BY <2>2 DEF InFrame
<1>4. InFrame("edi") = stack[n + 1 - 2]
  <2>1. \A j \in 1 .. 14 : Layout[j] = "edi" <=> j = 2
    BY DEF Layout
  <2>2. (CHOOSE k \in DOMAIN Layout : Layout[k] = "edi") = 2
    BY <1>1, <2>1
  <2> QED
    BY <2>2 DEF InFrame
<1>5. InFrame("esi") = stack[n + 1 - 3]
  <2>1. \A j \in 1 .. 14 : Layout[j] = "esi" <=> j = 3
    BY DEF Layout
  <2>2. (CHOOSE k \in DOMAIN Layout : Layout[k] = "esi") = 3
    BY <1>1, <2>1
  <2> QED
    BY <2>2 DEF InFrame
<1>6. InFrame("ebp") = stack[n + 1 - 4]
  <2>1. \A j \in 1 .. 14 : Layout[j] = "ebp" <=> j = 4
    BY DEF Layout
  <2>2. (CHOOSE k \in DOMAIN Layout : Layout[k] = "ebp") = 4
    BY <1>1, <2>1
  <2> QED
    BY <2>2 DEF InFrame
<1>7. InFrame("ebx") = stack[n + 1 - 6]
  <2>1. \A j \in 1 .. 14 : Layout[j] = "ebx" <=> j = 6
    BY DEF Layout
  <2>2. (CHOOSE k \in DOMAIN Layout : Layout[k] = "ebx") = 6
    BY <1>1, <2>1
  <2> QED
    BY <2>2 DEF InFrame
<1>8. InFrame("edx") = stack[n + 1 - 7]
  <2>1. \A j \in 1 .. 14 : Layout[j] = "edx" <=> j = 7
    BY DEF Layout
  <2>2. (CHOOSE k \in DOMAIN Layout : Layout[k] = "edx") = 7
    BY <1>1, <2>1
  <2> QED
    BY <2>2 DEF InFrame
<1>9. InFrame("ecx") = stack[n + 1 - 8]
  <2>1. \A j \in 1 .. 14 : Layout[j] = "ecx" <=> j = 8
    BY DEF Layout
  <2>2. (CHOOSE k \in DOMAIN Layout : Layout[k] = "ecx") = 8
    BY <1>1, <2>1
  <2> QED
    BY <2>2 DEF InFrame
<1>10. InFrame("eax") = stack[n + 1 - 9]
  <2>1. \A j \in 1 .. 14 : Layout[j] = "eax" <=> j = 9
    BY DEF Layout
  <2>2. (CHOOSE k \in DOMAIN Layout : Layout[k] = "eax") = 9
    BY <1>1, <2>1
  <2> QED
    BY <2>2 DEF InFrame
<1>11. InFrame("interrupt_number") = stack[n + 1 - 10]
  <2>1. \A j \in 1 .. 14 : Layout[j] = "interrupt_number" <=> j = 10
    BY DEF Layout
  <2>2. (CHOOSE k \in DOMAIN Layout : Layout[k] = "interrupt_number") = 10
    BY <1>1, <2>1
  <2> QED
    BY <2>2 DEF InFrame
<1>12. InFrame("error_code") = stack[n + 1 - 11]
  <2>1. \A j \in 1 .. 14 : Layout[j] = "error_code" <=> j = 11
    BY DEF Layout
  <2>2. (CHOOSE k \in DOMAIN Layout : Layout[k] = "error_code") = 11
    BY <1>1, <2>1
  <2> QED
    BY <2>2 DEF InFrame
<1>13. InFrame("eip") = stack[n + 1 - 12]
  <2>1. \A j \in 1 .. 14 : Layout[j] = "eip" <=> j = 12
    BY DEF Layout
  <2>2. (CHOOSE k \in DOMAIN Layout : Layout[k] = "eip") = 12
    BY <1>1, <2>1
  <2> QED
    BY <2>2 DEF InFrame
<1>14. InFrame("cs") = stack[n + 1 - 13]
  <2>1. \A j \in 1 .. 14 : Layout[j] = "cs" <=> j = 13
    BY DEF Layout
  <2>2. (CHOOSE k \in DOMAIN Layout : Layout[k] = "cs") = 13
    BY <1>1, <2>1
  <2> QED
    BY <2>2 DEF InFrame
<1>15. InFrame("eflags") = stack[n + 1 - 14]
  <2>1. \A j \in 1 .. 14 : Layout[j] = "eflags" <=> j = 14
    BY DEF Layout
  <2>2. (CHOOSE k \in DOMAIN Layout : Layout[k] = "eflags") = 14
    BY <1>1, <2>1
  <2> QED
    BY <2>2 DEF InFrame
<1> QED
  BY <1>3, <1>4, <1>5, <1>6, <1>7, <1>8, <1>9, <1>10, <1>11, <1>12, <1>13, <1>14, <1>15

\* The gates of idt_init lead to their stubs with interrupts off, in the code segment.
LEMMA GateLeads ==
  ASSUME NEW v \in Vectors
  PROVE  /\ Target(Gates[v]) = v
         /\ Gates[v].selector = 8 /\ Gates[v].flags % 16 = 14
<1>1. Gates[v] = Gate(Stub[v], 8, 142)
  BY DEF Gates, Vectors, Bytes
<1>2. Bit(142, 7) /\ 142 % 16 = 14
  BY DEF Bit
<1>3. /\ Gates[v].flags = 142 /\ Gates[v].selector = 8
      /\ Gates[v].base_low = <<Stub[v][1], Stub[v][2]>>
      /\ Gates[v].base_high = <<Stub[v][3], Stub[v][4]>>
  BY <1>1 DEF Gate
<1>4. Gates[v].base_low \o Gates[v].base_high = Stub[v]
  <2>1. Stub[v] \in [1 .. 4 -> Bytes]
    BY TrapsAssumption
  <2>2. ASSUME NEW f \in [1 .. 4 -> Bytes]
        PROVE  <<f[1], f[2]>> \o <<f[3], f[4]>> = f
    OBVIOUS
  <2> QED
    BY <1>3, <2>1, <2>2
<1>5. {w \in Vectors : Stub[w] = Gates[v].base_low \o Gates[v].base_high} = {v}
  BY <1>4, TrapsAssumption
<1> QED
  BY <1>2, <1>3, <1>5 DEF Target

\* The segments of gdt_init are what gdt_flush and the gates need.
LEMMA SegmentsWork ==
  ASSUME DOMAIN gdt = 0 .. 2, gdt[1] = SegmentEntry(Zero, Ones, 154, 207)
  PROVE  /\ CodeSegment(gdt, 8)
         /\ gdt[2] = SegmentEntry(Zero, Ones, 146, 207) => DataSegment(gdt, 16)
<1>1. Granularity(Ones, 207) = 207
  BY DEF Granularity, Ones
<1>2. <<0, 0>> \o <<0, 0>> = Zero
  <2>1. <<0, 0>> \in Seq(Nat) /\ Zero \in Seq(Nat) /\ Len(<<0, 0>>) = 2 /\ Len(Zero) = 4
    BY DEF Zero
  <2>2. /\ <<0, 0>> \o <<0, 0>> \in Seq(Nat) /\ Len(<<0, 0>> \o <<0, 0>>) = 4
        /\ \A i \in 1 .. 4 : (<<0, 0>> \o <<0, 0>>)[i] = 0
    BY <2>1, ConcatProperties
  <2>3. \A i \in 1 .. 4 : Zero[i] = 0
    BY DEF Zero
  <2> QED
    BY <2>1, <2>2, <2>3, SeqEqual
<1>3. ASSUME NEW access \in {146, 154}
      PROVE  Flat(SegmentEntry(Zero, Ones, access, 207))
  <2>1. Bit(207, 7) /\ Bit(207, 6) /\ 207 % 16 = 15
    BY DEF Bit
  <2>2. Bit(access, 7) /\ ~Bit(access, 6) /\ ~Bit(access, 5) /\ Bit(access, 4)
    BY DEF Bit
  <2>3. /\ Zero[1] = 0 /\ Zero[2] = 0 /\ Zero[3] = 0 /\ Zero[4] = 0
        /\ Ones[1] = 255 /\ Ones[2] = 255
    BY DEF Zero, Ones
  <2> QED
    BY <1>1, <1>2, <2>1, <2>2, <2>3 DEF Flat, SegmentEntry
<1>4. Bit(154, 3) /\ ~Bit(146, 3) /\ Bit(146, 1)
  BY DEF Bit
<1>5. 8 \div 8 = 1 /\ 16 \div 8 = 2
  OBVIOUS
<1>6. /\ SegmentEntry(Zero, Ones, 154, 207).access = 154
      /\ SegmentEntry(Zero, Ones, 146, 207).access = 146
  BY DEF SegmentEntry
<1> QED
  BY <1>3, <1>4, <1>5, <1>6 DEF CodeSegment, DataSegment

\* An end-of-interrupt to a controller with one line in service releases it.
LEMMA EndOfOne ==
  ASSUME NEW S \in SUBSET Nat, \A x, y \in S : x = y
  PROVE  (IF S = {} THEN S ELSE S \ {Min(S)}) = {}
<1>1. CASE S # {}
  <2>1. PICK x \in S : S = {x}
    BY <1>1
  <2>2. Min(S) = x
    BY <2>1 DEF Min
  <2> QED
    BY <2>1, <2>2
<1> QED
  BY <1>1

-----------------------------------------------------------------------------
(* What a step leaves alone.                                               *)

\* Words on top of a stack.
LEMMA Push ==
  ASSUME NEW s \in Seq(Int), NEW t \in Seq(Int)
  PROVE  /\ s \o t \in Seq(Int) /\ Len(s \o t) = Len(s) + Len(t)
         /\ \A i \in 1 .. Len(s) : (s \o t)[i] = s[i]
         /\ \A i \in 1 .. Len(t) : (s \o t)[Len(s) + i] = t[i]
  OBVIOUS

\* The vectors of events are small numbers.
LEMMA VectorRange ==
  ASSUME NEW e \in Events
  PROVE  /\ ExpectedVector(e) \in Nat
         /\ e.kind = "irq" => ExpectedVector(e) = 32 + e.number
         /\ e.kind # "irq" => ExpectedVector(e) = e.number
         /\ e.number \in 0 .. 31 /\ e.code \in Nat /\ e.context \in Contexts
<1>1. e.number \in 0 .. 31 /\ e.code \in Nat /\ e.context \in Contexts
  BY DEF Events
<1> QED
  BY <1>1 DEF ExpectedVector

\* kernel_main runs when no event is being handled, and only then.
LEMMA KernelRuns ==
  ASSUME TrapsInv
  PROVE  /\ cpu.eip \in 1 .. LastPoint <=> active = <<>>
         /\ Len(active) \in Nat
         /\ active = <<>> => /\ Len(active) = 0 /\ Len(stack) = 0 /\ State(0) = Context(cpu.eip)
                            /\ Point = cpu.eip /\ cpu.cs = 8 /\ cpu.ds = 16
                            /\ cpu.flag = (IF cpu.eip > 18 THEN 1 ELSE 0)
                            /\ \A c \in Chips : pic[c].inService = {}
<1>1. active \in Seq(Events) /\ Len(active) \in Nat
  BY DEF TrapsInv, TypeInv
<1>2. ASSUME active # <<>>
      PROVE  cpu.eip \notin 1 .. LastPoint
  <2>1. Len(active) \in 1 .. Len(active)
    BY <1>1, <1>2
  <2>2. Handles(active[Len(active)], State(Len(active)))
    BY <2>1 DEF TrapsInv, NestInv
  <2>3. PICK e \in Events : e = active[Len(active)]
    BY <1>1, <2>1
  <2>4. ExpectedVector(e) \in Nat
    BY VectorRange
  <2>5. State(Len(active)).eip = cpu.eip
    BY DEF State, Context
  <2>6. cpu.eip \in {StubAddress(ExpectedVector(e)), Save, Iret} \cup InC
    BY <2>2, <2>3, <2>5 DEF Handles
  <2> QED
    BY <2>4, <2>6, ProgramPoints
       DEF StubAddress, Save, Iret, InC, Dispatch, Acknowledge, Halt, Restore
<1>3. ASSUME active = <<>>
      PROVE  /\ Len(active) = 0 /\ Len(stack) = 0 /\ State(0) = Context(cpu.eip)
             /\ Point = cpu.eip /\ cpu.cs = 8 /\ cpu.ds = 16
             /\ cpu.flag = (IF cpu.eip > 18 THEN 1 ELSE 0)
             /\ cpu.eip \in 1 .. LastPoint
             /\ \A c \in Chips : pic[c].inService = {}
  <2>1. Len(active) = 0
    BY <1>3
  <2>2. State(0) = Context(cpu.eip)
    BY <2>1 DEF State
  <2>3. /\ State(0).eip = cpu.eip /\ State(0).cs = cpu.cs /\ State(0).ds = cpu.ds
        /\ State(0).flag = cpu.flag /\ State(0).depth = Len(stack)
    BY <2>2 DEF Context
  <2> QED
    BY <1>3, <2>1, <2>2, <2>3 DEF TrapsInv, TableInv, LineInv, Point
<1> QED
  BY <1>1, <1>2, <1>3

\* The handler on top of the others.
LEMMA TopHandler ==
  ASSUME TrapsInv, active # <<>>
  PROVE  /\ Len(active) \in Nat \ {0} /\ active[Len(active)] \in Events
         /\ Handles(active[Len(active)], Context(cpu.eip))
         /\ Holds(active[Len(active)], Height(active[Len(active)], cpu.eip))
<1>1. active \in Seq(Events) /\ Len(active) \in Nat \ {0}
  BY DEF TrapsInv, TypeInv
<1>2. Len(active) \in 1 .. Len(active)
  BY <1>1
<1>3. State(Len(active)) = Context(cpu.eip) /\ State(Len(active)).eip = cpu.eip
  BY DEF State, Context
<1>4. active[Len(active)] \in Events
  BY <1>1, <1>2
<1> QED
  BY <1>1, <1>2, <1>3, <1>4 DEF TrapsInv, NestInv

\* A step that leaves kernel_main and the tables alone.
LEMMA TablesKept ==
  ASSUME TableInv, State(0)' = State(0), UNCHANGED tables, active' # <<>> => idtr, UNCHANGED lost
  PROVE  TableInv'
  BY DEF TableInv, NothingLost, Point, tables

\* A step that leaves kernel_main and the programming of the controllers alone.
LEMMA RemapKept ==
  ASSUME RemapInv, State(0)' = State(0), UNCHANGED saved,
         \A c \in Chips : /\ pic'[c].next = pic[c].next /\ pic'[c].offset = pic[c].offset
                          /\ pic'[c].mask = pic[c].mask
  PROVE  RemapInv'
  BY DEF RemapInv, Point, Chips

\* The words of an event are kept if those of the stack are.
LEMMA HoldsKept ==
  ASSUME NEW e \in Events, NEW n \in 3 .. 14, Holds(e, n),
         \A j \in 1 .. e.context.depth + n : stack'[j] = stack[j]
  PROVE  Holds(e, n)'
<1> DEFINE d == e.context.depth
<1>1. d \in Nat
  BY DEF Events, Contexts
<1> HIDE DEF d
<1>2. \A j \in 1 .. n : d + j \in 1 .. d + n
  BY <1>1
<1>3. \A j \in 1 .. n : stack'[d + j] = stack[d + j]
  BY <1>2 DEF d
<1>4. /\ stack'[d + 1] = stack[d + 1] /\ stack'[d + 2] = stack[d + 2]
      /\ stack'[d + 3] = stack[d + 3]
      /\ n > 3 => stack'[d + 4] = stack[d + 4]
      /\ n > 4 => stack'[d + 5] = stack[d + 5]
      /\ n = 14 => \A j \in 6 .. 14 : stack'[d + j] = stack[d + j]
  BY <1>3
<1>5. n = 14 =>
        /\ stack'[d + 6] = stack[d + 6] /\ stack'[d + 7] = stack[d + 7]
        /\ stack'[d + 8] = stack[d + 8] /\ stack'[d + 9] = stack[d + 9]
        /\ stack'[d + 11] = stack[d + 11] /\ stack'[d + 12] = stack[d + 12]
        /\ stack'[d + 13] = stack[d + 13] /\ stack'[d + 14] = stack[d + 14]
  BY <1>4
<1> QED
  BY <1>4, <1>5, Zenon DEF Holds, d

\* How many words a handler has on the stack.
LEMMA HeightRange ==
  ASSUME NEW e, NEW at
  PROVE  Height(e, at) \in {3, 4, 5, 14}
  BY DEF Height

\* An event below the top keeps its words if the top handler changes only its own.
LEMMA BelowKept ==
  ASSUME TypeInv, NestInv, NEW k \in 1 .. Len(active), NEW i \in 1 .. k - 1,
         \A j \in 1 .. active[k].context.depth : stack'[j] = stack[j]
  PROVE  Holds(active[i], Height(active[i], State(i).eip))'
           \/ active'[i] # active[i] \/ State(i)' # State(i)
<1> DEFINE h == Height(active[i], State(i).eip)
<1>1. Len(active) \in Nat /\ active \in Seq(Events) /\ i \in 1 .. Len(active) /\ i + 1 \in 1 .. k
  BY DEF TypeInv
<1>2. active[i] \in Events /\ active[k] \in Events /\ active[i + 1] \in Events
  BY <1>1
<1>3. active[i + 1].context.depth <= active[k].context.depth
  BY <1>1 DEF NestInv
<1>4. State(i) = active[i + 1].context
  BY <1>1 DEF State
<1>5. State(i).depth = active[i].context.depth + h /\ Holds(active[i], h)
  BY <1>1 DEF NestInv, Handles
<1>6. h \in 3 .. 14
  BY HeightRange
<1> HIDE DEF h
<1>7. /\ active[i].context.depth \in Nat /\ active[k].context.depth \in Nat
      /\ active[i].context.depth + h <= active[k].context.depth
  BY SMTT(40), <1>2, <1>3, <1>4, <1>5 DEF Events, Contexts
<1>8. \A j \in 1 .. active[i].context.depth + h : stack'[j] = stack[j]
  BY <1>6, <1>7
<1>9. PICK e \in Events, n \in 3 .. 14 : e = active[i] /\ n = h
  BY <1>2, <1>6
<1>10. Holds(e, n)'
  BY <1>5, <1>8, <1>9, HoldsKept
<1> QED
  BY <1>9, <1>10 DEF h

\* A step of the top handler that leaves the words below its own alone.
LEMMA HandlerStep ==
  ASSUME TrapsInv, active # <<>>, UNCHANGED <<tables, active, lost>>, TypeInv',
         NEW k, k = Len(active),
         Handles(active[k], Context(cpu.eip))',
         Holds(active[k], Height(active[k], cpu.eip))',
         \A j \in 1 .. active[k].context.depth : stack'[j] = stack[j],
         \A c \in Chips : /\ pic'[c].next = pic[c].next /\ pic'[c].offset = pic[c].offset
                          /\ pic'[c].mask = pic[c].mask
                          /\ pic'[c].inService \subseteq pic[c].inService,
         k = 1 /\ cpu'.eip \in {Restore, Iret} => \A c \in Chips : pic'[c].inService = {}
  PROVE  TrapsInv'
<1>1. /\ k \in Nat \ {0} /\ k \in 1 .. Len(active)
      /\ TypeInv /\ NestInv /\ TableInv /\ RemapInv /\ LineInv
  BY TopHandler DEF TrapsInv
<1>2. active' = active /\ lost' = lost /\ saved' = saved /\ idtr' = idtr /\ UNCHANGED tables
  BY DEF tables
<1>3. /\ State(k)' = Context(cpu.eip)' /\ State(k)'.eip = cpu'.eip
      /\ \A i \in 0 .. k - 1 : State(i)' = State(i)
  BY <1>1, <1>2 DEF State, Context
<1>4. State(0)' = State(0)
  BY <1>1, <1>3
<1>5. TableInv' /\ RemapInv'
  <2>1. active' # <<>> => idtr
    BY <1>1 DEF TableInv
  <2>2. TableInv'
    BY <1>1, <1>2, <1>4, <2>1, TablesKept
  <2>3. RemapInv'
    BY <1>1, <1>2, <1>4, RemapKept
  <2> QED
    BY <2>2, <2>3
<1>6. NestInv'
  <2>1. ASSUME NEW i \in 1 .. k - 1
        PROVE  /\ Handles(active[i], State(i))'
               /\ Holds(active[i], Height(active[i], State(i).eip))'
    <3>1. i \in 1 .. Len(active) /\ State(i)' = State(i) /\ active'[i] = active[i]
      BY <1>1, <1>2, <1>3
    <3>2. Holds(active[i], Height(active[i], State(i).eip))'
      BY <1>1, <3>1, BelowKept
    <3>3. Handles(active[i], State(i))
      BY <1>1, <3>1 DEF NestInv
    <3> QED
      BY <3>1, <3>2, <3>3 DEF Handles
  <2>2. /\ Handles(active[k], State(k))'
        /\ Holds(active[k], Height(active[k], State(k).eip))'
    BY <1>3
  <2>3. ASSUME NEW i \in 1 .. Len(active)
        PROVE  /\ Handles(active[i], State(i))'
               /\ Holds(active[i], Height(active[i], State(i).eip))'
    BY <1>1, <2>1, <2>2
  <2> QED
    BY <1>1, <1>2, <2>3 DEF NestInv
<1>7. LineInv'
  <2>1. SUFFICES ASSUME NEW c \in Chips, pic'[c].inService # {}
                 PROVE  /\ active # <<>> /\ active[1].kind = "irq" /\ State(1)'.eip \notin {Restore, Iret}
                        /\ c = "slave" => active[1].number >= 8
                        /\ \A x, y \in pic'[c].inService : x = y
    BY <1>2 DEF LineInv
  <2>2. /\ active[1].kind = "irq" /\ State(1).eip \notin {Restore, Iret}
        /\ c = "slave" => active[1].number >= 8
        /\ \A x, y \in pic'[c].inService : x = y
    BY <1>1, <2>1 DEF LineInv
  <2>3. State(1)'.eip \notin {Restore, Iret}
    <3>1. CASE k = 1
      BY <1>3, <2>1, <3>1
    <3>2. CASE k # 1
      BY <1>1, <1>3, <2>2, <3>2
    <3> QED
      BY <3>1, <3>2
  <2> QED
    BY <2>2, <2>3
<1> QED
  BY <1>5, <1>6, <1>7 DEF TrapsInv

\* A stub pushes a dummy error code where the CPU has pushed none.
LEMMA DummyWhereNone ==
  ASSUME NEW e \in Events, e.kind = "irq" => e.number < 16, e.kind = "nmi" => e.number = 2
  PROVE  ExpectedVector(e) \in DummyCodes
           <=> ~(e.kind = "exception" /\ e.number \in CpuPushesError)
<1>1. e.number \in 0 .. 31 /\ e.kind \in {"exception", "nmi", "irq"}
  BY DEF Events
<1>2. CASE e.kind = "irq"
  BY <1>1, <1>2, VectorRange DEF DummyCodes
<1>3. CASE e.kind = "nmi"
  BY <1>1, <1>3, VectorRange DEF DummyCodes
<1>4. CASE e.kind = "exception"
  BY <1>1, <1>4, VectorRange DEF DummyCodes, CpuPushesError
<1> QED
  BY <1>1, <1>2, <1>3, <1>4

-----------------------------------------------------------------------------
(* The steps of handlers.                                                  *)

\* The types after a step that changes nothing but the CPU and the stack.
LEMMA TypesKept ==
  ASSUME TypeInv, UNCHANGED <<tables, active>>, stack' \in Seq(Int), pic' \in [Chips -> ChipType],
         cpu' \in CpuType
  PROVE  TypeInv'
  BY DEF TypeInv, tables

\* What is known of the event e whose handler runs, the last of k, with its words on the stack
\* from d on.
TopIs(k, e, d) ==
  /\ k = Len(active) /\ e = active[k] /\ d = e.context.depth
  /\ Handles(e, Context(cpu.eip)) /\ Holds(e, Height(e, cpu.eip))
  /\ e.kind = "irq" => e.number < 16
  /\ e.kind = "nmi" => e.number = 2
  /\ ~(e.kind = "exception" /\ e.number \in CpuPushesError) => e.code = 0
  /\ cpu.eip \in {StubAddress(ExpectedVector(e)), Save, Iret} \cup InC
  /\ cpu.flag = 0 /\ cpu.cs = 8 /\ cpu.ds = 16
  /\ Len(stack) = d + Height(e, cpu.eip)
  /\ cpu.eip \notin InC => cpu.gpr = e.context.gpr

\* There is such an event whenever a handler runs.
LEMMA TopEvent ==
  ASSUME TrapsInv, active # <<>>
  PROVE  \E k \in Nat \ {0}, e \in Events, d \in Nat : TopIs(k, e, d)
<1>1. PICK k \in Nat \ {0}, e \in Events :
        /\ k = Len(active) /\ e = active[k]
        /\ Handles(e, Context(cpu.eip)) /\ Holds(e, Height(e, cpu.eip))
  BY TopHandler
<1>2. /\ Context(cpu.eip).eip = cpu.eip /\ Context(cpu.eip).flag = cpu.flag
      /\ Context(cpu.eip).cs = cpu.cs /\ Context(cpu.eip).ds = cpu.ds
      /\ Context(cpu.eip).gpr = cpu.gpr /\ Context(cpu.eip).depth = Len(stack)
  BY DEF Context
<1>3. k \in 1 .. Len(active)
  BY <1>1
<1>4. /\ e.kind = "irq" => e.number < 16
      /\ e.kind = "nmi" => e.number = 2
      /\ ~(e.kind = "exception" /\ e.number \in CpuPushesError) => e.code = 0
  BY <1>1, <1>3 DEF TrapsInv, TypeInv, NestInv
<1>5. e.context.depth \in Nat
  BY DEF Events, Contexts
<1>6. /\ cpu.eip \in {StubAddress(ExpectedVector(e)), Save, Iret} \cup InC
      /\ cpu.flag = 0 /\ cpu.cs = 8 /\ cpu.ds = 16
      /\ Len(stack) = e.context.depth + Height(e, cpu.eip)
      /\ cpu.eip \notin InC => cpu.gpr = e.context.gpr
  BY <1>1, <1>2 DEF Handles
<1> QED
  BY <1>1, <1>4, <1>5, <1>6 DEF TopIs

\* What an event has interrupted is kernel_main or a handler, in the kernel's segments.
LEMMA Interrupted ==
  ASSUME TrapsInv, active # <<>>
  PROVE  /\ active[Len(active)].context = State(Len(active) - 1)
         /\ active[Len(active)].context.ds = 16 /\ active[Len(active)].context.cs = 8
<1>1. Len(active) \in Nat \ {0}
  BY TopHandler
<1>2. PICK k \in Nat : k = Len(active) - 1 /\ k # Len(active) /\ k + 1 = Len(active)
  BY <1>1
<1>3. active[Len(active)].context = State(k)
  BY <1>2 DEF State
<1>4. CASE k = 0
  <2>1. State(k).ds = 16 /\ State(k).cs = 8
    BY <1>4 DEF TrapsInv, TableInv, State
  <2> QED
    BY <1>2, <1>3, <2>1
<1>5. CASE k # 0
  <2>1. k \in 1 .. Len(active)
    BY <1>1, <1>2, <1>5
  <2>2. Handles(active[k], State(k))
    BY <2>1 DEF TrapsInv, NestInv
  <2> QED
    BY <1>2, <1>3, <2>2 DEF Handles
<1> QED
  BY <1>4, <1>5

\* The addresses of the stubs and of the common code differ.
LEMMA Addresses ==
  /\ \A v \in 0 .. 47 : StubAddress(v) \notin {Save, Iret} \cup InC
  /\ Save \notin {Iret} \cup InC /\ Iret \notin InC
  /\ Dispatch \in InC /\ Acknowledge \in InC /\ Halt \in InC /\ Restore \in InC
  /\ \A v, w \in Nat : StubAddress(v) = StubAddress(w) => v = w
  /\ \A v \in Nat : StubAddress(v) \notin 1 .. LastPoint
  /\ {Save, Iret} \cup InC \subseteq Nat /\ ({Save, Iret} \cup InC) \cap 1 .. LastPoint = {}
  BY ProgramPoints DEF StubAddress, Save, Iret, InC, Dispatch, Acknowledge, Halt, Restore

\* The vector's stub pushes a dummy code, or none, and the number.
LEMMA RunStubStep ==
  ASSUME TrapsInv, NEW v \in Vectors, RunStub(v)
  PROVE  TrapsInv'
<1>1. cpu.eip = StubAddress(v) /\ v \in 0 .. 47
  BY DEF RunStub, Executes, Vectors
<1>2. active # <<>>
  <2>1. cpu.eip \notin 1 .. LastPoint
    BY <1>1, Addresses
  <2> QED
    BY <2>1, KernelRuns
<1>3. PICK k \in Nat \ {0}, e \in Events, d \in Nat : TopIs(k, e, d)
  BY <1>2, TopEvent
<1> DEFINE coded == e.kind = "exception" /\ e.number \in CpuPushesError
<1>4. ExpectedVector(e) = v
  <2>1. StubAddress(v) \notin {Save, Iret} \cup InC
    BY <1>1, Addresses
  <2>2. StubAddress(ExpectedVector(e)) = StubAddress(v)
    BY <1>1, <1>3, <2>1 DEF TopIs
  <2> QED
    BY <1>1, <2>2, VectorRange, Addresses
<1>5. Height(e, cpu.eip) = IF coded THEN 4 ELSE 3
  BY <1>1, Addresses DEF Height
<1>6. v \in DummyCodes <=> ~coded
  BY <1>3, <1>4, DummyWhereNone DEF TopIs
<1>7. stack \in Seq(Int) /\ e.code \in Int /\ v \in Int
  BY <1>1, VectorRange DEF TrapsInv, TypeInv
<1>8. PICK t \in Seq(Int) :
        /\ stack' = stack \o t
        /\ coded => Len(t) = 1 /\ t[1] = v
        /\ ~coded => Len(t) = 2 /\ t[1] = e.code /\ t[2] = v
  <2>1. stack' = stack \o (IF v \in DummyCodes THEN <<0, v>> ELSE <<v>>)
    BY DEF RunStub
  <2>2. <<0, v>> \in Seq(Int) /\ Len(<<0, v>>) = 2 /\ <<0, v>>[1] = 0 /\ <<0, v>>[2] = v
    BY <1>7
  <2>3. <<v>> \in Seq(Int) /\ Len(<<v>>) = 1 /\ <<v>>[1] = v
    BY <1>7
  <2>4. CASE coded
    BY <1>6, <2>1, <2>3, <2>4
  <2>5. CASE ~coded
    <3>1. e.code = 0
      BY <1>3, <2>5 DEF TopIs
    <3> QED
      BY <1>6, <2>1, <2>2, <2>5, <3>1
  <2> QED
    BY <2>4, <2>5
<1> HIDE DEF coded
<1>9. /\ stack' \in Seq(Int) /\ Len(stack') = Len(stack) + Len(t)
      /\ \A i \in 1 .. Len(stack) : stack'[i] = stack[i]
      /\ \A i \in 1 .. Len(t) : stack'[Len(stack) + i] = t[i]
  BY <1>7, <1>8, Push
<1>10. /\ Len(stack') = d + 5
       /\ \A i \in 1 .. d + 3 : stack'[i] = stack[i]
       /\ stack'[d + 4] = e.code /\ stack'[d + 5] = v
  <2>1. CASE coded
    <3>1. Len(stack) = d + 4 /\ Len(t) = 1 /\ t[1] = v
      BY <1>3, <1>5, <1>8, <2>1 DEF TopIs
    <3>2. stack[d + 4] = e.code
      BY <1>3, <1>5, <2>1 DEF Holds, TopIs
    <3>3. d + 4 \in 1 .. Len(stack) /\ 1 \in 1 .. Len(t) /\ Len(stack) + 1 = d + 5
      BY <3>1
    <3>4. stack'[d + 4] = stack[d + 4] /\ stack'[d + 5] = t[1]
      BY <1>9, <3>3
    <3>5. \A i \in 1 .. d + 3 : i \in 1 .. Len(stack)
      BY <3>1
    <3> QED
      BY <1>9, <3>1, <3>2, <3>3, <3>4, <3>5
  <2>2. CASE ~coded
    <3>1. Len(stack) = d + 3 /\ Len(t) = 2 /\ t[1] = e.code /\ t[2] = v
      BY <1>3, <1>5, <1>8, <2>2 DEF TopIs
    <3>2. /\ 1 \in 1 .. Len(t) /\ 2 \in 1 .. Len(t)
          /\ Len(stack) + 1 = d + 4 /\ Len(stack) + 2 = d + 5
      BY <3>1
    <3>3. stack'[d + 4] = t[1] /\ stack'[d + 5] = t[2]
      BY <1>9, <3>2
    <3> QED
      BY <1>9, <3>1, <3>2, <3>3
  <2> QED
    BY <2>1, <2>2
<1>11. Holds(e, 5)'
  <2>1. stack[d + 1] = e.context.flag /\ stack[d + 2] = e.context.cs /\ stack[d + 3] = e.context.eip
    BY <1>3 DEF Holds, TopIs
  <2>2. d + 1 \in 1 .. d + 3 /\ d + 2 \in 1 .. d + 3 /\ d + 3 \in 1 .. d + 3
    OBVIOUS
  <2>3. /\ stack'[d + 1] = stack[d + 1] /\ stack'[d + 2] = stack[d + 2]
        /\ stack'[d + 3] = stack[d + 3]
    BY <1>10, <2>2
  <2>4. d = e.context.depth
    BY <1>3 DEF TopIs
  <2> QED
    BY <1>4, <1>10, <2>1, <2>3, <2>4 DEF Holds
<1>12. /\ cpu' = [cpu EXCEPT !.eip = Save] /\ UNCHANGED <<tables, pic, active, lost>>
       /\ cpu \in CpuType
       /\ pic \in [Chips -> ChipType] /\ Save \in Nat
  BY Addresses DEF RunStub, TrapsInv, TypeInv
<1>13. /\ cpu'.eip = Save /\ cpu'.flag = cpu.flag /\ cpu'.cs = cpu.cs /\ cpu'.ds = cpu.ds
       /\ cpu'.gpr = cpu.gpr
  BY <1>12 DEF CpuType
<1>14. TypeInv'
  <2>1. cpu' \in CpuType
    BY <1>12 DEF CpuType
  <2> QED
    BY <1>9, <1>12, <2>1, TypesKept DEF TrapsInv
<1>15. Height(e, Save) = 5
  BY Addresses DEF Height
<1>16. Handles(e, Context(cpu.eip))'
  <2>1. /\ Context(cpu.eip)'.eip = Save /\ Context(cpu.eip)'.flag = 0 /\ Context(cpu.eip)'.cs = 8
        /\ Context(cpu.eip)'.ds = 16 /\ Context(cpu.eip)'.gpr = e.context.gpr
        /\ Context(cpu.eip)'.depth = d + 5
    BY ZenonT(60), <1>1, <1>3, <1>10, <1>13, Addresses DEF Context, TopIs
  <2> QED
    BY <1>3, <1>15, <2>1 DEF Handles, TopIs
<1>17. /\ Handles(active[k], Context(cpu.eip))'
       /\ Holds(active[k], Height(active[k], cpu.eip))'
  BY <1>3, <1>11, <1>12, <1>13, <1>15, <1>16 DEF TopIs
<1>18. \A j \in 1 .. active[k].context.depth : stack'[j] = stack[j]
  <2>1. \A j \in 1 .. d : j \in 1 .. d + 3
    OBVIOUS
  <2> QED
    BY <1>3, <1>10, <2>1 DEF TopIs
<1>19. cpu'.eip \notin {Restore, Iret}
  BY <1>13, Addresses
<1> QED
  BY <1>2, <1>3, <1>12, <1>14, <1>17, <1>18, <1>19, HandlerStep DEF TopIs

\* The lower half of a word whose lower half was replaced.
LEMMA AxIs ==
  ASSUME NEW eax \in Int, NEW n \in Int, 0 <= n, n < Half
  PROVE  WithAx(eax, n) \in Int /\ WithAx(eax, n) % Half = n
<1>1. PICK r \in Int, q \in Int : r = eax % Half /\ eax = 65536 * q + r
  <2>1. /\ eax = 65536 * (eax \div 65536) + (eax % 65536)
        /\ eax \div 65536 \in Int /\ eax % 65536 \in Int
    OBVIOUS
  <2> QED
    BY <2>1 DEF Half
<1>2. PICK w \in Int : w = WithAx(eax, n) /\ w = 65536 * q + n
  BY <1>1 DEF WithAx
<1>3. w % 65536 = n
  BY <1>2 DEF Half
<1> QED
  BY <1>2, <1>3 DEF Half

\* pusha, the data segment, and the kernel's.
LEMMA SaveStateStep ==
  ASSUME TrapsInv, SaveState
  PROVE  TrapsInv'
<1>1. cpu.eip = Save
  BY DEF SaveState, Executes
<1>2. active # <<>>
  <2>1. cpu.eip \notin 1 .. LastPoint
    BY <1>1, Addresses
  <2> QED
    BY <2>1, KernelRuns
<1>3. PICK k \in Nat \ {0}, e \in Events, d \in Nat : TopIs(k, e, d)
  BY <1>2, TopEvent
<1>4. Height(e, Save) = 5 /\ Height(e, Dispatch) = 14
  BY Addresses DEF Height
<1>5. /\ cpu \in CpuType
      /\ stack \in Seq(Int) /\ pic \in [Chips -> ChipType]
  BY DEF TrapsInv, TypeInv
<1>6. Len(stack) = d + 5 /\ cpu.gpr = e.context.gpr /\ d = e.context.depth
  BY <1>1, <1>3, <1>4, Addresses DEF TopIs
<1>7. e.context.ds = 16
  BY <1>2, <1>3, Interrupted DEF TopIs
<1> DEFINE g == cpu.gpr
           t == <<g["eax"], g["ecx"], g["edx"], g["ebx"], Len(stack), g["ebp"], g["esi"], g["edi"],
                  WithAx(g["eax"], cpu.ds)>>
<1>21. /\ g["eax"] \in Int /\ WithAx(g["eax"], 16) \in Int /\ WithAx(g["eax"], cpu.ds) \in Int
       /\ WithAx(g["eax"], cpu.ds) % Half = cpu.ds
  <2>1. g["eax"] \in Int /\ cpu.ds = 16
    BY <1>3, <1>5, RegistersAre DEF CpuType, TopIs
  <2>2. 16 \in Int /\ 0 <= 16 /\ 16 < Half
    BY DEF Half
  <2> HIDE DEF g
  <2> QED
    BY <2>1, <2>2, AxIs
<1>8. t \in Seq(Int) /\ Len(t) = 9
  <2>1. /\ g["eax"] \in Int /\ g["ecx"] \in Int /\ g["edx"] \in Int /\ g["ebx"] \in Int
        /\ g["ebp"] \in Int /\ g["esi"] \in Int /\ g["edi"] \in Int /\ Len(stack) \in Int
    BY <1>5, RegistersAre DEF CpuType
  <2> QED
    BY <1>21, <2>1
<1>9. /\ t[1] = g["eax"] /\ t[2] = g["ecx"] /\ t[3] = g["edx"] /\ t[4] = g["ebx"]
      /\ t[6] = g["ebp"] /\ t[7] = g["esi"] /\ t[8] = g["edi"] /\ t[9] = WithAx(g["eax"], cpu.ds)
  OBVIOUS
<1>10. stack' = stack \o t
  BY DEF SaveState
<1> HIDE DEF t, g
<1>11. /\ stack' \in Seq(Int) /\ Len(stack') = d + 14
       /\ \A i \in 1 .. d + 5 : stack'[i] = stack[i]
       /\ \A i \in 1 .. 9 : stack'[d + 5 + i] = t[i]
  <2>1. /\ stack' \in Seq(Int) /\ Len(stack') = Len(stack) + Len(t)
        /\ \A i \in 1 .. Len(stack) : stack'[i] = stack[i]
        /\ \A i \in 1 .. Len(t) : stack'[Len(stack) + i] = t[i]
    BY ZenonT(60), <1>5, <1>8, <1>10, Push
  <2> QED
    BY <1>6, <1>8, <2>1
<1>12. /\ stack'[d + 6] = t[1] /\ stack'[d + 7] = t[2] /\ stack'[d + 8] = t[3]
       /\ stack'[d + 9] = t[4] /\ stack'[d + 11] = t[6] /\ stack'[d + 12] = t[7]
       /\ stack'[d + 13] = t[8] /\ stack'[d + 14] = t[9]
  <2>1. /\ d + 5 + 1 = d + 6 /\ d + 5 + 2 = d + 7 /\ d + 5 + 3 = d + 8 /\ d + 5 + 4 = d + 9
        /\ d + 5 + 6 = d + 11 /\ d + 5 + 7 = d + 12 /\ d + 5 + 8 = d + 13 /\ d + 5 + 9 = d + 14
    OBVIOUS
  <2>2. /\ stack'[d + 5 + 1] = t[1] /\ stack'[d + 5 + 2] = t[2] /\ stack'[d + 5 + 3] = t[3]
        /\ stack'[d + 5 + 4] = t[4] /\ stack'[d + 5 + 6] = t[6] /\ stack'[d + 5 + 7] = t[7]
        /\ stack'[d + 5 + 8] = t[8] /\ stack'[d + 5 + 9] = t[9]
    BY <1>11
  <2> QED
    BY <2>1, <2>2
<1>13. Holds(e, 14)'
  <2>1. /\ stack[d + 1] = e.context.flag /\ stack[d + 2] = e.context.cs
        /\ stack[d + 3] = e.context.eip /\ stack[d + 4] = e.code
        /\ stack[d + 5] = ExpectedVector(e)
    BY <1>1, <1>3, <1>4 DEF TopIs, Holds
  <2>2. /\ d + 1 \in 1 .. d + 5 /\ d + 2 \in 1 .. d + 5 /\ d + 3 \in 1 .. d + 5
        /\ d + 4 \in 1 .. d + 5 /\ d + 5 \in 1 .. d + 5
    OBVIOUS
  <2>3. /\ stack'[d + 1] = stack[d + 1] /\ stack'[d + 2] = stack[d + 2]
        /\ stack'[d + 3] = stack[d + 3] /\ stack'[d + 4] = stack[d + 4]
        /\ stack'[d + 5] = stack[d + 5]
    BY <1>11, <2>2
  <2>4. cpu.ds = e.context.ds /\ g = e.context.gpr
    BY <1>3, <1>6, <1>7 DEF TopIs, g
  <2> QED
    BY <1>6, <1>9, <1>12, <1>21, <2>1, <2>3, <2>4 DEF Holds
<1>22. PICK h \in [Registers -> Int] : h = [g EXCEPT !["eax"] = WithAx(@, 16)]
  BY <1>5, <1>21, RegistersAre DEF CpuType, g
<1>14. /\ cpu' = [cpu EXCEPT !.eip = Dispatch, !.ds = 16, !.gpr = h]
       /\ UNCHANGED <<tables, pic, active, lost>>
       /\ Dispatch \in Nat
  BY <1>22, Addresses DEF SaveState, g
<1>15. TypeInv'
  <2>1. cpu' \in CpuType
    <3>1. /\ cpu.flag \in {0, 1} /\ cpu.cs \in Int /\ h \in [Registers -> Int]
          /\ cpu' = [eip |-> Dispatch, flag |-> cpu.flag, cs |-> cpu.cs, ds |-> 16, gpr |-> h]
      BY <1>5, <1>14 DEF CpuType
    <3> QED
      BY <1>14, <3>1 DEF CpuType
  <2> QED
    BY <1>5, <1>11, <1>14, <2>1, TypesKept DEF TrapsInv
<1>16. cpu'.eip = Dispatch /\ cpu'.flag = cpu.flag /\ cpu'.cs = cpu.cs /\ cpu'.ds = 16
  BY <1>5, <1>14 DEF CpuType
<1>17. Handles(e, Context(cpu.eip))'
  <2>1. /\ Context(cpu.eip)'.eip = Dispatch /\ Context(cpu.eip)'.flag = 0
        /\ Context(cpu.eip)'.cs = 8 /\ Context(cpu.eip)'.ds = 16
        /\ Context(cpu.eip)'.depth = d + 14
    BY <1>3, <1>11, <1>16 DEF Context, TopIs
  <2> QED
    BY <1>4, <1>6, <2>1, Addresses DEF Handles
<1>18. /\ Handles(active[k], Context(cpu.eip))'
       /\ Holds(active[k], Height(active[k], cpu.eip))'
  BY <1>3, <1>4, <1>13, <1>14, <1>16, <1>17 DEF TopIs
<1>19. \A j \in 1 .. active[k].context.depth : stack'[j] = stack[j]
  <2>1. \A j \in 1 .. d : j \in 1 .. d + 5
    OBVIOUS
  <2> QED
    BY <1>3, <1>11, <2>1 DEF TopIs
<1>20. cpu'.eip \notin {Restore, Iret}
  BY <1>16 DEF Dispatch, Restore, Iret
<1> QED
  BY <1>2, <1>3, <1>14, <1>15, <1>18, <1>19, <1>20, HandlerStep DEF TopIs

\* The controllers after an end-of-interrupt command to c.
LEMMA EndStep ==
  ASSUME NEW p \in [Chips -> ChipType], NEW c \in Chips
  PROVE  /\ Written(p, Command(c, 32)) \in [Chips -> ChipType]
         /\ \A x \in Chips :
              /\ Written(p, Command(c, 32))[x].next = p[x].next
              /\ Written(p, Command(c, 32))[x].offset = p[x].offset
              /\ Written(p, Command(c, 32))[x].mask = p[x].mask
              /\ Written(p, Command(c, 32))[x].inService \subseteq p[x].inService
              /\ x = c /\ (\A y, z \in p[c].inService : y = z) =>
                   Written(p, Command(c, 32))[x].inService = {}
<1> DEFINE S == p[c].inService
           R == IF S = {} THEN S ELSE S \ {Min(S)}
<1>1. S \in SUBSET Nat /\ p[c] \in ChipType
  BY DEF ChipType
<1>2. R \subseteq S /\ ((\A y, z \in S : y = z) => R = {})
  BY <1>1, EndOfOne
<1>3. Written(p, Command(c, 32)) = [p EXCEPT ![c] = [p[c] EXCEPT !.inService = R]]
  BY DEF Written, Command, CommandWritten
<1> HIDE DEF S, R
<1>4. /\ [p[c] EXCEPT !.inService = R] \in ChipType
      /\ [p[c] EXCEPT !.inService = R].next = p[c].next
      /\ [p[c] EXCEPT !.inService = R].offset = p[c].offset
      /\ [p[c] EXCEPT !.inService = R].mask = p[c].mask
      /\ [p[c] EXCEPT !.inService = R].inService = R
  BY <1>1, <1>2 DEF ChipType
<1>5. \A x \in Chips : Written(p, Command(c, 32))[x] =
        IF x = c THEN [p[c] EXCEPT !.inService = R] ELSE p[x]
  BY <1>3
<1>6. Written(p, Command(c, 32)) \in [Chips -> ChipType]
  BY <1>3, <1>4
<1> QED
  BY <1>2, <1>4, <1>5, <1>6 DEF S

\* Where C code runs the frame is that of the event.
LEMMA FrameOfEvent ==
  ASSUME TrapsInv, NEW k \in Nat \ {0}, NEW e \in Events, NEW d \in Nat, TopIs(k, e, d),
         cpu.eip \in InC
  PROVE  /\ Len(stack) = d + 14 /\ Height(e, cpu.eip) = 14 /\ Holds(e, 14)
         /\ d = e.context.depth
         /\ InFrame("interrupt_number") = ExpectedVector(e) /\ InFrame("error_code") = e.code
         /\ InFrame("eip") = e.context.eip /\ InFrame("cs") = e.context.cs
         /\ InFrame("eflags") = e.context.flag /\ InFrame("ds") % Half = e.context.ds
         /\ \A r \in Registers : InFrame(r) = e.context.gpr[r]
<1>1. Height(e, cpu.eip) = 14
  BY Addresses DEF Height
<1>2. Len(stack) = d + 14 /\ Holds(e, 14) /\ d = e.context.depth
  BY <1>1 DEF TopIs
<1>3. PICK n \in Nat : n = d + 14 /\ n = Len(stack)
  BY <1>2
<1>4. /\ n = d + 14 /\ n - 1 = d + 13 /\ n - 2 = d + 12 /\ n - 3 = d + 11 /\ n - 5 = d + 9
      /\ n - 6 = d + 8 /\ n - 7 = d + 7 /\ n - 8 = d + 6 /\ n - 9 = d + 5 /\ n - 10 = d + 4
      /\ n - 11 = d + 3 /\ n - 12 = d + 2 /\ n - 13 = d + 1
  BY <1>3
<1>5. /\ InFrame("ds") = stack[d + 14] /\ InFrame("edi") = stack[d + 13]
      /\ InFrame("esi") = stack[d + 12] /\ InFrame("ebp") = stack[d + 11]
      /\ InFrame("ebx") = stack[d + 9] /\ InFrame("edx") = stack[d + 8]
      /\ InFrame("ecx") = stack[d + 7] /\ InFrame("eax") = stack[d + 6]
      /\ InFrame("interrupt_number") = stack[d + 5]
      /\ InFrame("error_code") = stack[d + 4] /\ InFrame("eip") = stack[d + 3]
      /\ InFrame("cs") = stack[d + 2] /\ InFrame("eflags") = stack[d + 1]
  BY <1>3, <1>4, FrameFields
<1>6. /\ InFrame("interrupt_number") = ExpectedVector(e) /\ InFrame("error_code") = e.code
      /\ InFrame("eip") = e.context.eip /\ InFrame("cs") = e.context.cs
      /\ InFrame("eflags") = e.context.flag /\ InFrame("ds") % Half = e.context.ds
  <2>1. /\ stack[d + 1] = e.context.flag /\ stack[d + 2] = e.context.cs
        /\ stack[d + 3] = e.context.eip /\ stack[d + 4] = e.code
        /\ stack[d + 5] = ExpectedVector(e) /\ stack[d + 14] % Half = e.context.ds
    BY <1>2 DEF Holds
  <2> QED
    BY <1>5, <2>1
<1>7. /\ InFrame("edi") = e.context.gpr["edi"] /\ InFrame("esi") = e.context.gpr["esi"]
      /\ InFrame("ebp") = e.context.gpr["ebp"] /\ InFrame("ebx") = e.context.gpr["ebx"]
      /\ InFrame("edx") = e.context.gpr["edx"] /\ InFrame("ecx") = e.context.gpr["ecx"]
      /\ InFrame("eax") = e.context.gpr["eax"]
  BY <1>2, <1>5 DEF Holds
<1>8. \A r \in Registers : InFrame(r) = e.context.gpr[r]
  BY <1>7, RegistersAre
<1> QED
  BY <1>1, <1>2, <1>6, <1>8

\* A step of C code, which leaves the stack alone.
LEMMA InCStep ==
  ASSUME TrapsInv, active # <<>>, UNCHANGED <<tables, stack, active, lost>>, cpu.eip \in InC,
         cpu' \in CpuType, cpu'.eip \in InC, cpu'.flag = cpu.flag, cpu'.cs = cpu.cs, cpu'.ds = cpu.ds,
         pic' \in [Chips -> ChipType],
         \A c \in Chips : /\ pic'[c].next = pic[c].next /\ pic'[c].offset = pic[c].offset
                          /\ pic'[c].mask = pic[c].mask
                          /\ pic'[c].inService \subseteq pic[c].inService,
         Len(active) = 1 /\ cpu'.eip = Restore => \A c \in Chips : pic'[c].inService = {}
  PROVE  TrapsInv'
<1>1. PICK k \in Nat \ {0}, e \in Events, d \in Nat : TopIs(k, e, d)
  BY TopEvent
<1>2. Len(stack) = d + 14 /\ Holds(e, 14) /\ d = e.context.depth
  BY <1>1, FrameOfEvent
<1>3. TypeInv'
  <2>1. stack' \in Seq(Int) /\ UNCHANGED <<tables, active>>
    BY DEF TrapsInv, TypeInv
  <2> QED
    BY <2>1, TypesKept DEF TrapsInv
<1>4. Height(e, cpu.eip)' = 14
  BY Addresses DEF Height
<1>5. Holds(e, 14)'
  BY <1>2 DEF Holds
<1>6. Handles(e, Context(cpu.eip))'
  <2>1. /\ Context(cpu.eip)'.eip = cpu'.eip /\ Context(cpu.eip)'.flag = 0
        /\ Context(cpu.eip)'.cs = 8 /\ Context(cpu.eip)'.ds = 16
        /\ Context(cpu.eip)'.depth = d + 14
    BY <1>1, <1>2 DEF Context, TopIs
  <2> QED
    BY <1>2, <1>4, <2>1 DEF Handles
<1>7. /\ Handles(active[k], Context(cpu.eip))'
      /\ Holds(active[k], Height(active[k], cpu.eip))'
  BY <1>1, <1>4, <1>5, <1>6 DEF TopIs
<1>8. \A j \in 1 .. active[k].context.depth : stack'[j] = stack[j]
  OBVIOUS
<1>9. k = 1 /\ cpu'.eip \in {Restore, Iret} => \A c \in Chips : pic'[c].inService = {}
  BY <1>1, Addresses DEF TopIs
<1>10. UNCHANGED <<tables, active, lost>> /\ k = Len(active)
  BY <1>1 DEF TopIs
<1> QED
  BY <1>3, <1>7, <1>8, <1>9, <1>10, HandlerStep

\* interrupt_handler calls the handler that is registered.
LEMMA DispatchStep ==
  ASSUME TrapsInv, DispatchHandler
  PROVE  TrapsInv'
<1>1. cpu.eip = Dispatch
  BY DEF DispatchHandler, Executes
<1>2. active # <<>>
  <2>1. cpu.eip \notin 1 .. LastPoint
    BY <1>1, Addresses
  <2> QED
    BY <2>1, KernelRuns
<1>3. PICK k \in Nat \ {0}, e \in Events, d \in Nat : TopIs(k, e, d)
  BY <1>2, TopEvent
<1>4. /\ cpu \in CpuType /\ stack \in Seq(Int) /\ pic \in [Chips -> ChipType]
  BY DEF TrapsInv, TypeInv
<1> DEFINE g == [r \in DOMAIN cpu.gpr |-> IF r \in Scratch THEN 0 ELSE cpu.gpr[r]]
<1>5. PICK to \in {Halt, Acknowledge} : cpu' = [cpu EXCEPT !.eip = to, !.gpr = g]
  BY DEF DispatchHandler
<1>6. g \in [Registers -> Int]
  BY <1>4 DEF CpuType
<1> HIDE DEF g
<1>7. /\ cpu' \in CpuType /\ cpu'.eip = to /\ cpu'.flag = cpu.flag /\ cpu'.cs = cpu.cs
      /\ cpu'.ds = cpu.ds
  <2>1. to \in Nat
    BY Addresses
  <2>2. /\ cpu.flag \in {0, 1} /\ cpu.cs \in Int /\ cpu.ds \in Int
        /\ cpu' = [eip |-> to, flag |-> cpu.flag, cs |-> cpu.cs, ds |-> cpu.ds, gpr |-> g]
    BY <1>4, <1>5 DEF CpuType
  <2> QED
    BY <1>6, <2>1, <2>2 DEF CpuType
<1>8. to \in InC /\ Dispatch \in InC /\ to # Restore
  BY Addresses DEF Halt, Acknowledge, Restore
<1>9. /\ pic' \in [Chips -> ChipType]
      /\ \A c \in Chips : /\ pic'[c].next = pic[c].next /\ pic'[c].offset = pic[c].offset
                           /\ pic'[c].mask = pic[c].mask
                           /\ pic'[c].inService \subseteq pic[c].inService
  <2>1. pic' = pic \/ pic' = Written(pic, Command("master", 32))
    BY DEF DispatchHandler
  <2>2. "master" \in Chips
    BY DEF Chips
  <2> QED
    BY <1>4, <2>1, <2>2, EndStep
<1>10. UNCHANGED <<tables, stack, active, lost>>
  BY DEF DispatchHandler
<1> QED
  BY <1>1, <1>2, <1>7, <1>8, <1>9, <1>10, InCStep

\* The end-of-interrupt commands release what is in service.
LEMMA SendEoiStep ==
  ASSUME TrapsInv, SendEoi
  PROVE  TrapsInv'
<1>1. cpu.eip = Acknowledge
  BY DEF SendEoi, Executes
<1>2. active # <<>>
  <2>1. cpu.eip \notin 1 .. LastPoint
    BY <1>1, Addresses
  <2> QED
    BY <2>1, KernelRuns
<1>3. PICK k \in Nat \ {0}, e \in Events, d \in Nat : TopIs(k, e, d)
  BY <1>2, TopEvent
<1>4. /\ cpu \in CpuType /\ stack \in Seq(Int) /\ pic \in [Chips -> ChipType]
  BY DEF TrapsInv, TypeInv
<1>5. Acknowledge \in InC /\ Restore \in InC /\ Restore \in Nat
  BY Addresses
<1>6. InFrame("interrupt_number") = ExpectedVector(e)
  BY <1>1, <1>3, <1>5, FrameOfEvent
<1> DEFINE v == ExpectedVector(e)
           q == IF v \in 40 .. 47 THEN Written(pic, Command("slave", 32)) ELSE pic
<1>7. pic' = IF v \in 32 .. 47 THEN Written(q, Command("master", 32)) ELSE q
  BY <1>6 DEF SendEoi, Ends
<1>8. "master" \in Chips /\ "slave" \in Chips /\ \A c \in Chips : c = "master" \/ c = "slave"
  BY DEF Chips
<1> HIDE DEF v
<1>9. /\ q \in [Chips -> ChipType]
      /\ \A c \in Chips : /\ q[c].next = pic[c].next /\ q[c].offset = pic[c].offset
                           /\ q[c].mask = pic[c].mask /\ q[c].inService \subseteq pic[c].inService
      /\ v \in 40 .. 47 /\ (\A y, z \in pic["slave"].inService : y = z) => q["slave"].inService = {}
  BY <1>4, <1>8, EndStep
<1> HIDE DEF q
<1>10. /\ pic' \in [Chips -> ChipType]
       /\ \A c \in Chips : /\ pic'[c].next = q[c].next /\ pic'[c].offset = q[c].offset
                            /\ pic'[c].mask = q[c].mask /\ pic'[c].inService \subseteq q[c].inService
       /\ v \in 32 .. 47 /\ (\A y, z \in q["master"].inService : y = z) => pic'["master"].inService = {}
  BY <1>7, <1>8, <1>9, EndStep
<1>11. ASSUME Len(active) = 1, NEW c \in Chips
       PROVE  pic'[c].inService = {}
  <2>1. SUFFICES ASSUME pic'[c].inService # {} PROVE FALSE
    OBVIOUS
  <2>2. pic[c].inService # {}
    BY <1>9, <1>10, <2>1
  <2>3. /\ active[1].kind = "irq" /\ (c = "slave" => active[1].number >= 8)
        /\ \A x, y \in pic[c].inService : x = y
    BY <2>2 DEF TrapsInv, LineInv
  <2>4. e.kind = "irq" /\ (c = "slave" => e.number >= 8) /\ e.number < 16 /\ e.number \in 0 .. 31
    BY <1>3, <1>11, <2>3, VectorRange DEF TopIs
  <2>5. v \in 32 .. 47 /\ (c = "slave" => v \in 40 .. 47)
    BY <2>4, VectorRange DEF v
  <2>6. CASE c = "slave"
    BY <1>9, <1>10, <2>1, <2>3, <2>5, <2>6
  <2>7. CASE c = "master"
    BY <1>9, <1>10, <2>1, <2>3, <2>5, <2>7
  <2> QED
    BY <1>8, <2>6, <2>7
<1>12. /\ cpu' = [cpu EXCEPT !.eip = Restore] /\ UNCHANGED <<tables, stack, active, lost>>
  BY DEF SendEoi
<1>13. /\ cpu' \in CpuType /\ cpu'.eip = Restore /\ cpu'.flag = cpu.flag /\ cpu'.cs = cpu.cs
       /\ cpu'.ds = cpu.ds
  BY <1>4, <1>5, <1>12 DEF CpuType
<1>14. \A c \in Chips : /\ pic'[c].next = pic[c].next /\ pic'[c].offset = pic[c].offset
                        /\ pic'[c].mask = pic[c].mask
                        /\ pic'[c].inService \subseteq pic[c].inService
  BY <1>9, <1>10
<1> QED
  BY <1>1, <1>2, <1>5, <1>10, <1>11, <1>12, <1>13, <1>14, InCStep

\* The first words of a stack.
LEMMA Pop ==
  ASSUME NEW s \in Seq(Int), NEW n \in 0 .. Len(s)
  PROVE  /\ SubSeq(s, 1, n) \in Seq(Int) /\ Len(SubSeq(s, 1, n)) = n
         /\ \A i \in 1 .. n : SubSeq(s, 1, n)[i] = s[i]
<1>1. \A i \in 1 .. n : s[i] \in Int
  OBVIOUS
<1> QED
  BY <1>1, SubSeqProperties

\* The data segment, popa, and the two words below.
LEMMA RestoreStateStep ==
  ASSUME TrapsInv, RestoreState
  PROVE  TrapsInv'
<1>1. cpu.eip = Restore
  BY DEF RestoreState, Executes
<1>2. active # <<>>
  <2>1. cpu.eip \notin 1 .. LastPoint
    BY <1>1, Addresses
  <2> QED
    BY <2>1, KernelRuns
<1>3. PICK k \in Nat \ {0}, e \in Events, d \in Nat : TopIs(k, e, d)
  BY <1>2, TopEvent
<1>4. /\ cpu \in CpuType /\ stack \in Seq(Int) /\ pic \in [Chips -> ChipType]
      /\ e.context.gpr \in [Registers -> Int]
  BY DEF TrapsInv, TypeInv, Events, Contexts
<1>5. /\ Len(stack) = d + 14 /\ Holds(e, 14) /\ d = e.context.depth
      /\ InFrame("ds") % Half = e.context.ds
      /\ \A r \in Registers : InFrame(r) = e.context.gpr[r]
  BY ZenonT(60), <1>1, <1>3, Addresses, FrameOfEvent
<1>6. e.context.ds = 16
  BY <1>2, <1>3, Interrupted DEF TopIs
<1>7. [r \in DOMAIN cpu.gpr |-> InFrame(r)] = e.context.gpr
  <2>1. DOMAIN cpu.gpr = Registers
    BY <1>4 DEF CpuType
  <2> QED
    BY <1>4, <1>5, <2>1
<1>8. /\ cpu' = [cpu EXCEPT !.eip = Iret, !.ds = 16, !.gpr = e.context.gpr]
      /\ UNCHANGED <<tables, pic, active, lost>>
      /\ Iret \in Nat
  BY <1>5, <1>6, <1>7, Addresses DEF RestoreState
<1>9. /\ cpu' = [eip |-> Iret, flag |-> cpu.flag, cs |-> cpu.cs, ds |-> 16, gpr |-> e.context.gpr]
      /\ cpu.flag \in {0, 1} /\ cpu.cs \in Int
  BY <1>4, <1>8 DEF CpuType
<1>10. cpu' \in CpuType
  <2>1. Iret \in Nat
    BY Addresses
  <2> QED
    BY <1>4, <1>9, <2>1 DEF CpuType
<1>11. /\ stack' \in Seq(Int) /\ Len(stack') = d + 3
       /\ \A i \in 1 .. d + 3 : stack'[i] = stack[i]
  <2>1. Len(stack) - 9 - Dropped = d + 3 /\ d + 3 \in 0 .. Len(stack)
    BY SMTT(40), <1>5 DEF Dropped
  <2>2. stack' = SubSeq(stack, 1, d + 3)
    BY <2>1 DEF RestoreState
  <2> QED
    BY <1>4, <2>1, <2>2, Pop
<1>12. TypeInv'
  BY <1>4, <1>8, <1>10, <1>11, TypesKept DEF TrapsInv
<1>13. Height(e, Iret) = 3
  BY Addresses DEF Height
<1>14. Holds(e, 3)'
  <2>1. stack[d + 1] = e.context.flag /\ stack[d + 2] = e.context.cs /\ stack[d + 3] = e.context.eip
    BY <1>5 DEF Holds
  <2>2. d + 1 \in 1 .. d + 3 /\ d + 2 \in 1 .. d + 3 /\ d + 3 \in 1 .. d + 3
    OBVIOUS
  <2>3. /\ stack'[d + 1] = stack[d + 1] /\ stack'[d + 2] = stack[d + 2]
        /\ stack'[d + 3] = stack[d + 3]
    BY <1>11, <2>2
  <2> QED
    BY <1>5, <2>1, <2>3 DEF Holds
<1>15. Handles(e, Context(cpu.eip))'
  <2>1. /\ Context(cpu.eip)'.eip = Iret /\ Context(cpu.eip)'.flag = 0 /\ Context(cpu.eip)'.cs = 8
        /\ Context(cpu.eip)'.ds = 16 /\ Context(cpu.eip)'.gpr = e.context.gpr
        /\ Context(cpu.eip)'.depth = d + 3
    BY <1>3, <1>9, <1>11 DEF Context, TopIs
  <2> QED
    BY <1>5, <1>13, <2>1 DEF Handles
<1>16. /\ Handles(active[k], Context(cpu.eip))'
       /\ Holds(active[k], Height(active[k], cpu.eip))'
  BY <1>3, <1>8, <1>9, <1>13, <1>14, <1>15 DEF TopIs
<1>17. \A j \in 1 .. active[k].context.depth : stack'[j] = stack[j]
  <2>1. \A j \in 1 .. d : j \in 1 .. d + 3
    OBVIOUS
  <2> QED
    BY <1>3, <1>11, <2>1 DEF TopIs
<1>18. k = 1 => \A c \in Chips : pic'[c].inService = {}
  <2>1. k = 1 => State(1).eip = Restore
    BY <1>1, <1>3 DEF TopIs, State, Context
  <2> QED
    BY <1>8, <2>1 DEF TrapsInv, LineInv
<1> QED
  BY <1>2, <1>3, <1>8, <1>12, <1>16, <1>17, <1>18, HandlerStep DEF TopIs

\* The events below the top one.
LEMMA FrontIs ==
  ASSUME NEW s \in Seq(Events), NEW k \in Nat, Len(s) = k + 1
  PROVE  /\ Front(s) \in Seq(Events) /\ Len(Front(s)) = k
         /\ \A i \in 1 .. k : Front(s)[i] = s[i]
<1>1. Front(s) = SubSeq(s, 1, k)
  BY DEF Front
<1>2. \A i \in 1 .. k : s[i] \in Events
  OBVIOUS
<1>3. k \in Int /\ k <= Len(s)
  OBVIOUS
<1>4. Len(SubSeq(s, 1, k)) = k /\ \A i \in 1 .. k : SubSeq(s, 1, k)[i] = s[i]
  BY <1>3
<1>5. SubSeq(s, 1, k) \in Seq(Events)
  BY <1>3
<1> QED
  BY <1>1, <1>4, <1>5

\* iretd goes back to what the event has interrupted.
LEMMA ReturnStep ==
  ASSUME TrapsInv, ReturnFromInterrupt
  PROVE  TrapsInv' /\ State(0)' = State(0)
<1>1. cpu.eip = Iret
  BY DEF ReturnFromInterrupt, Executes
<1>2. active # <<>>
  <2>1. cpu.eip \notin 1 .. LastPoint
    BY <1>1, Addresses
  <2> QED
    BY <2>1, KernelRuns
<1>3. PICK k \in Nat \ {0}, e \in Events, d \in Nat : TopIs(k, e, d)
  BY <1>2, TopEvent
<1>4. PICK m \in Nat : k = m + 1 /\ m = k - 1
  <2>1. k - 1 \in Nat
    OBVIOUS
  <2> QED
    BY <2>1
<1>5. /\ cpu \in CpuType /\ stack \in Seq(Int) /\ active \in Seq(Events)
      /\ TypeInv /\ TableInv /\ RemapInv /\ NestInv /\ LineInv
  BY DEF TrapsInv, TypeInv
<1>6. e.context \in Contexts /\ e = active[k] /\ k = Len(active) /\ d = e.context.depth
  BY <1>3, VectorRange DEF TopIs
<1>7. Height(e, Iret) = 3
  BY Addresses DEF Height
<1>8. /\ Len(stack) = d + 3 /\ Holds(e, 3) /\ cpu.gpr = e.context.gpr /\ cpu.ds = 16
  BY <1>1, <1>3, <1>7, Addresses DEF TopIs
<1>9. stack[d + 1] = e.context.flag /\ stack[d + 2] = e.context.cs /\ stack[d + 3] = e.context.eip
  BY <1>6, <1>8 DEF Holds
<1>10. e.context.ds = 16
  BY <1>2, <1>6, Interrupted
<1>11. cpu' = [cpu EXCEPT !.eip = e.context.eip, !.cs = e.context.cs, !.flag = e.context.flag]
  <2>1. Len(stack) = d + 3 /\ Len(stack) - 1 = d + 2 /\ Len(stack) - 2 = d + 1
    BY <1>8
  <2>2. cpu' = [cpu EXCEPT !.eip = stack[d + 3], !.cs = stack[d + 2], !.flag = stack[d + 1]]
    BY <2>1 DEF ReturnFromInterrupt
  <2> QED
    BY <1>9, <2>2
<1>12. cpu' = [eip |-> e.context.eip, flag |-> e.context.flag, cs |-> e.context.cs,
               ds |-> e.context.ds, gpr |-> e.context.gpr]
  BY <1>5, <1>8, <1>10, <1>11 DEF CpuType
<1>13. /\ stack' \in Seq(Int) /\ Len(stack') = d
       /\ \A i \in 1 .. d : stack'[i] = stack[i]
  <2>1. Len(stack) - 3 = d /\ d \in 0 .. Len(stack)
    BY <1>8
  <2>2. stack' = SubSeq(stack, 1, d)
    BY <2>1 DEF ReturnFromInterrupt
  <2> QED
    BY <1>5, <2>1, <2>2, Pop
<1>14. active' \in Seq(Events) /\ Len(active') = m /\ \A i \in 1 .. m : active'[i] = active[i]
  <2>1. active' = Front(active) /\ Len(active) = m + 1
    BY <1>4, <1>6 DEF ReturnFromInterrupt
  <2> QED
    BY <1>5, <2>1, FrontIs
<1>15. UNCHANGED <<tables, pic, lost>>
  BY DEF ReturnFromInterrupt
<1>16. Context(cpu.eip)' = e.context
  <2>1. e.context = [eip |-> e.context.eip, flag |-> e.context.flag, cs |-> e.context.cs,
                     ds |-> e.context.ds, gpr |-> e.context.gpr, depth |-> d]
    BY <1>6 DEF Contexts
  <2>2. Context(cpu.eip)' = [eip |-> e.context.eip, flag |-> e.context.flag, cs |-> e.context.cs,
                     ds |-> e.context.ds, gpr |-> e.context.gpr, depth |-> d]
    BY <1>12, <1>13 DEF Context
  <2> QED
    BY <2>1, <2>2
<1>17. ASSUME NEW i \in 0 .. m
       PROVE  State(i)' = State(i)
  <2>1. CASE i = m
    <3>1. State(i) = e.context
      BY <1>4, <1>6, <2>1 DEF State
    <3>2. State(i)' = Context(cpu.eip)'
      BY <1>14, <2>1 DEF State
    <3> QED
      BY <1>16, <3>1, <3>2
  <2>2. CASE i # m
    <3>1. i # Len(active) /\ i # Len(active') /\ i + 1 \in 1 .. m
      BY <1>4, <1>6, <1>14, <2>2
    <3>2. State(i) = active[i + 1].context /\ State(i)' = active'[i + 1].context
      BY <3>1 DEF State
    <3> QED
      BY <1>14, <3>1, <3>2
  <2> QED
    BY <2>1, <2>2
<1>18. State(0)' = State(0)
  BY <1>17
<1>19. TypeInv'
  <2>1. cpu' \in CpuType
    <3>1. /\ e.context.eip \in Nat /\ e.context.flag \in {0, 1} /\ e.context.cs \in Int
          /\ e.context.ds \in Int /\ e.context.gpr \in [Registers -> Int]
      BY <1>6 DEF Contexts
    <3> QED
      BY <1>12, <3>1 DEF CpuType
  <2>2. \A i \in 1 .. Len(active') : active'[i].kind = "irq" => active'[i].number < 16
    <3>1. \A i \in 1 .. m : i \in 1 .. Len(active)
      BY <1>4, <1>6
    <3> QED
      BY <1>5, <1>14, <3>1 DEF TypeInv
  <2> QED
    BY <1>5, <1>13, <1>14, <1>15, <2>1, <2>2 DEF TypeInv, tables
<1>20. TableInv' /\ RemapInv'
  <2>1. idtr /\ UNCHANGED tables /\ UNCHANGED lost /\ UNCHANGED saved /\ UNCHANGED pic
    BY <1>2, <1>5, <1>15 DEF TableInv, tables
  <2>2. TableInv'
    BY <1>5, <1>18, <2>1, TablesKept
  <2>3. RemapInv'
    BY <1>5, <1>18, <2>1, RemapKept
  <2> QED
    BY <2>2, <2>3
<1>21. NestInv'
  <2>1. ASSUME NEW i \in 1 .. m
        PROVE  /\ Handles(active[i], State(i))'
               /\ Holds(active[i], Height(active[i], State(i).eip))'
               /\ \A j \in 1 .. i : active'[j].context.depth <= active'[i].context.depth
               /\ i > 1 => active'[i].kind = "nmi"
               /\ active'[i].kind = "nmi" => active'[i].number = 2
               /\ ~(active'[i].kind = "exception" /\ active'[i].number \in CpuPushesError)
                    => active'[i].code = 0
    <3>1. /\ i \in 1 .. Len(active) /\ k \in 1 .. Len(active) /\ i \in 1 .. k - 1
          /\ State(i)' = State(i) /\ active'[i] = active[i]
          /\ \A j \in 1 .. i : active'[j] = active[j]
      BY <1>4, <1>6, <1>14, <1>17
    <3>2. Holds(active[i], Height(active[i], State(i).eip))'
      <4>1. \A j \in 1 .. active[k].context.depth : stack'[j] = stack[j]
        BY <1>6, <1>13
      <4> QED
        BY <1>5, <3>1, <4>1, BelowKept
    <3>3. Handles(active[i], State(i))
      BY <1>5, <3>1 DEF NestInv
    <3>4. Handles(active[i], State(i))'
      BY <3>1, <3>3 DEF Handles
    <3>5. /\ \A j \in 1 .. i : active[j].context.depth <= active[i].context.depth
          /\ i > 1 => active[i].kind = "nmi"
          /\ active[i].kind = "nmi" => active[i].number = 2
          /\ ~(active[i].kind = "exception" /\ active[i].number \in CpuPushesError)
               => active[i].code = 0
      BY <1>5, <3>1 DEF NestInv
    <3> QED
      BY <3>1, <3>2, <3>4, <3>5
  <2> QED
    BY <1>14, <2>1 DEF NestInv
<1>22. LineInv'
  <2>1. SUFFICES ASSUME NEW c \in Chips, pic[c].inService # {}
                 PROVE  /\ active' # <<>> /\ active'[1].kind = "irq"
                        /\ State(1)'.eip \notin {Restore, Iret}
                        /\ c = "slave" => active'[1].number >= 8
                        /\ \A x, y \in pic[c].inService : x = y
    BY <1>15 DEF LineInv
  <2>2. /\ active[1].kind = "irq" /\ State(1).eip \notin {Restore, Iret}
        /\ c = "slave" => active[1].number >= 8
        /\ \A x, y \in pic[c].inService : x = y
    BY <1>5, <2>1 DEF LineInv
  <2>3. k # 1
    <3>1. k = 1 => State(1).eip = Iret
      BY <1>1, <1>6 DEF State, Context
    <3> QED
      BY <2>2, <3>1
  <2>4. 1 \in 1 .. m /\ 1 \in 0 .. m
    BY <1>4, <2>3
  <2>5. active' # <<>> /\ active'[1] = active[1] /\ State(1)' = State(1)
    BY <1>14, <1>17, <2>4
  <2> QED
    BY <2>2, <2>5
<1> QED
  BY <1>18, <1>19, <1>20, <1>21, <1>22 DEF TrapsInv

-----------------------------------------------------------------------------
(* Events.                                                                 *)

\* Where the interrupted code goes on: hlt ends with the interrupt.
Resumes == IF cpu.eip = Halt THEN Acknowledge ELSE cpu.eip

\* The CPU pushes an error code for the event.
Coded(kind, number) == kind = "exception" /\ number \in CpuPushesError

\* Once lidt is done an event finds its gate, and the gate its segment.
LEMMA GateFound ==
  ASSUME TrapsInv, idtr, NEW vector \in Vectors
  PROVE  /\ Target(idt[vector]) # -1 /\ gdtr /\ CodeSegment(gdt, idt[vector].selector)
         /\ Target(idt[vector]) = vector /\ idt[vector].selector = 8
         /\ idt[vector].flags % 16 = 14
<1>1. /\ idt = Gates /\ gdtr /\ gdt[1] = SegmentEntry(Zero, Ones, 154, 207) /\ DOMAIN gdt = 0 .. 2
  <2>1. Point > 17 /\ Point \in Int
    BY ProgramPoints DEF TrapsInv, TableInv
  <2>2. Point > 16 /\ Point > 4 /\ Point > 2
    BY <2>1
  <2> QED
    BY <2>2 DEF TrapsInv, TableInv, TypeInv
<1>2. /\ Target(idt[vector]) = vector /\ idt[vector].selector = 8 /\ idt[vector].flags % 16 = 14
  BY <1>1, GateLeads
<1>3. CodeSegment(gdt, idt[vector].selector)
  BY <1>1, <1>2, SegmentsWork
<1>4. vector # -1
  BY DEF Vectors
<1> QED
  BY <1>1, <1>2, <1>3, <1>4

\* The code that runs is kernel_main or a handler, in the kernel's segments.
LEMMA Running ==
  ASSUME TrapsInv
  PROVE  /\ cpu.cs = 8 /\ cpu.ds = 16 /\ cpu.eip \in Nat /\ cpu.flag \in {0, 1}
         /\ cpu.gpr \in [Registers -> Int]
         /\ cpu.flag = 1 => active = <<>> /\ cpu.eip > 18
<1>1. cpu \in CpuType
  BY DEF TrapsInv, TypeInv
<1>2. CASE active = <<>>
  BY <1>1, <1>2, KernelRuns DEF CpuType
<1>3. CASE active # <<>>
  <2>1. cpu.cs = 8 /\ cpu.ds = 16 /\ cpu.flag = 0
    BY <1>3, TopEvent DEF TopIs
  <2> QED
    BY <1>1, <2>1 DEF CpuType
<1> QED
  BY <1>2, <1>3

\* One word on top of a stack.
LEMMA PushOne ==
  ASSUME NEW s \in Seq(Int), NEW w \in Int
  PROVE  /\ s \o <<w>> \in Seq(Int) /\ Len(s \o <<w>>) = Len(s) + 1
         /\ \A i \in 1 .. Len(s) : (s \o <<w>>)[i] = s[i]
         /\ (s \o <<w>>)[Len(s) + 1] = w
  OBVIOUS

\* The words the CPU pushes for every event.
LEMMA PushThree ==
  ASSUME NEW s \in Seq(Int), NEW f \in Int, NEW c \in Int, NEW a \in Int
  PROVE  /\ s \o <<f, c, a>> \in Seq(Int) /\ Len(s \o <<f, c, a>>) = Len(s) + 3
         /\ \A i \in 1 .. Len(s) : (s \o <<f, c, a>>)[i] = s[i]
         /\ (s \o <<f, c, a>>)[Len(s) + 1] = f /\ (s \o <<f, c, a>>)[Len(s) + 2] = c
         /\ (s \o <<f, c, a>>)[Len(s) + 3] = a
  OBVIOUS

\* What an event that finds its gate does to the events, the CPU and the stack: with d words on the
\* stack and n events before, e is the new event.
Taken(e, n, d) ==
  /\ n = Len(active) /\ d = Len(stack)
  /\ e.context = Context(Resumes)
  /\ e.kind = "irq" => e.number < 16
  /\ e.kind = "nmi" => e.number = 2
  /\ ~(e.kind = "exception" /\ e.number \in CpuPushesError) => e.code = 0
  /\ active' \in Seq(Events) /\ Len(active') = n + 1 /\ active'[n + 1] = e
  /\ \A i \in 1 .. n : active'[i] = active[i]
  /\ cpu' = [eip |-> StubAddress(ExpectedVector(e)), flag |-> 0, cs |-> 8, ds |-> 16,
             gpr |-> e.context.gpr]
  /\ cpu' \in CpuType
  /\ stack' \in Seq(Int)
  /\ Len(stack') = d + Height(e, cpu'.eip)
  /\ \A i \in 1 .. d : stack'[i] = stack[i]
  /\ Holds(e, Height(e, cpu.eip))'
  /\ ExpectedVector(e) \in Vectors
  /\ lost' = lost

\* So does every event after lidt, at its own vector.
LEMMA TakeDoes ==
  ASSUME TrapsInv, idtr, NEW kind \in {"exception", "nmi", "irq"}, NEW number \in 0 .. 31,
         NEW code \in Nat, NEW vector \in Vectors,
         kind = "irq" => vector = 32 + number, kind # "irq" => vector = number,
         kind = "nmi" => number = 2,
         Take(kind, number, code, vector)
  PROVE  \E e \in Events, n \in Nat, d \in Nat : e.kind = kind /\ e.number = number /\ Taken(e, n, d)
<1>1. PICK coded \in BOOLEAN : coded = Coded(kind, number)
  BY DEF Coded
<1>2. PICK eip \in Nat : eip = Resumes
  BY Running, Addresses DEF Resumes
<1>3. /\ stack' = stack \o <<cpu.flag, cpu.cs, eip>> \o (IF coded THEN <<code>> ELSE <<>>)
      /\ cpu' = [cpu EXCEPT !.eip = StubAddress(vector), !.cs = 8, !.flag = 0]
      /\ active' = Append(active, [kind |-> kind, number |-> number,
                                   code |-> IF coded THEN code ELSE 0, context |-> Context(eip)])
      /\ lost' = lost
  <2>1. /\ stack' = stack \o <<cpu.flag, cpu.cs, Resumes>>
                          \o (IF Coded(kind, number) THEN <<code>> ELSE <<>>)
        /\ cpu' = [cpu EXCEPT !.eip = StubAddress(vector), !.cs = 8, !.flag = 0]
        /\ active' = Append(active, [kind |-> kind, number |-> number,
                                     code |-> IF Coded(kind, number) THEN code ELSE 0,
                                     context |-> Context(Resumes)])
        /\ lost' = lost
    BY GateFound DEF Take, Coded, Resumes
  <2> QED
    BY <1>1, <1>2, <2>1, Zenon
<1>4. /\ cpu \in CpuType /\ stack \in Seq(Int) /\ active \in Seq(Events)
      /\ cpu.flag \in {0, 1} /\ cpu.cs = 8 /\ cpu.ds = 16 /\ cpu.gpr \in [Registers -> Int]
      /\ Len(stack) \in Nat /\ Len(active) \in Nat
  BY Running DEF TrapsInv, TypeInv
<1>5. PICK d \in Nat, n \in Nat : d = Len(stack) /\ n = Len(active)
  BY <1>4
<1>6. PICK e \in Events : e = [kind |-> kind, number |-> number,
                               code |-> IF coded THEN code ELSE 0, context |-> Context(eip)]
  <2>1. Context(eip) \in Contexts
    BY <1>4 DEF Context, Contexts
  <2> QED
    BY <2>1 DEF Events
<1>7. /\ e.kind = kind /\ e.number = number /\ (e.code = IF coded THEN code ELSE 0)
      /\ e.context = Context(eip)
  BY <1>6
<1>8. /\ e.context.eip = eip /\ e.context.flag = cpu.flag /\ e.context.cs = cpu.cs
      /\ e.context.ds = cpu.ds /\ e.context.gpr = cpu.gpr /\ e.context.depth = d
  BY <1>5, <1>7 DEF Context
<1>9. ExpectedVector(e) = vector /\ vector \in 0 .. 47 /\ (e.kind = "irq" => e.number < 16)
  BY <1>7, VectorRange DEF Vectors
<1>10. coded <=> (e.kind = "exception" /\ e.number \in CpuPushesError)
  BY <1>1, <1>7 DEF Coded
<1>11. active' \in Seq(Events) /\ Len(active') = n + 1 /\ active'[n + 1] = e
       /\ \A i \in 1 .. n : active'[i] = active[i]
  BY <1>3, <1>4, <1>5, <1>6
<1>12. cpu' = [eip |-> StubAddress(vector), flag |-> 0, cs |-> 8, ds |-> 16, gpr |-> e.context.gpr]
  BY <1>3, <1>4, <1>8 DEF CpuType
<1>13. cpu' \in CpuType
  <2>1. StubAddress(vector) \in Nat
    BY <1>9 DEF StubAddress
  <2> QED
    BY <1>4, <1>8, <1>12, <2>1 DEF CpuType
<1>14. Height(e, cpu'.eip) = IF coded THEN 4 ELSE 3
  <2>1. cpu'.eip = StubAddress(vector) /\ StubAddress(vector) \notin {Save, Iret} \cup InC
    BY <1>9, <1>12, Addresses
  <2> QED
    BY <1>10, <2>1 DEF Height
<1>15. /\ stack' \in Seq(Int) /\ Len(stack') = d + (IF coded THEN 4 ELSE 3)
       /\ \A i \in 1 .. d : stack'[i] = stack[i]
       /\ stack'[d + 1] = cpu.flag /\ stack'[d + 2] = cpu.cs /\ stack'[d + 3] = eip
       /\ coded => stack'[d + 4] = code
  <2>1. PICK f \in Int, c \in Int, w \in Seq(Int) : f = cpu.flag /\ c = cpu.cs /\ w = stack
    BY <1>4
  <2>2. /\ w \o <<f, c, eip>> \in Seq(Int) /\ Len(w \o <<f, c, eip>>) = Len(w) + 3
        /\ \A i \in 1 .. Len(w) : (w \o <<f, c, eip>>)[i] = w[i]
        /\ (w \o <<f, c, eip>>)[Len(w) + 1] = f /\ (w \o <<f, c, eip>>)[Len(w) + 2] = c
        /\ (w \o <<f, c, eip>>)[Len(w) + 3] = eip
    <3>1. eip \in Int
      OBVIOUS
    <3> QED
      BY <3>1, PushThree
  <2>3. PICK u \in Seq(Int) : u = w \o <<f, c, eip>>
    BY <2>2
  <2>4. /\ Len(u) = d + 3 /\ \A i \in 1 .. d : u[i] = stack[i]
        /\ u[d + 1] = f /\ u[d + 2] = c /\ u[d + 3] = eip
    BY <1>5, <2>1, <2>2, <2>3
  <2>5. stack' = u \o (IF coded THEN <<code>> ELSE <<>>)
    BY <1>3, <2>1, <2>3
  <2>6. CASE ~coded
    <3>1. stack' = u
      BY <2>5, <2>6, ConcatEmptySeq
    <3> QED
      BY <2>1, <2>4, <2>6, <3>1
  <2>7. CASE coded
    <3>1. stack' = u \o <<code>>
      BY <2>5, <2>7
    <3>2. /\ stack' \in Seq(Int) /\ Len(stack') = Len(u) + 1
          /\ \A i \in 1 .. Len(u) : stack'[i] = u[i]
          /\ stack'[Len(u) + 1] = code
      <4>1. code \in Int
        OBVIOUS
      <4> QED
        BY <3>1, <4>1, PushOne
    <3>3. /\ \A i \in 1 .. d : i \in 1 .. d + 3
          /\ d + 1 \in 1 .. d + 3 /\ d + 2 \in 1 .. d + 3 /\ d + 3 \in 1 .. d + 3
          /\ d + 3 + 1 = d + 4
      OBVIOUS
    <3>4. /\ stack' \in Seq(Int) /\ Len(stack') = d + 4
          /\ \A i \in 1 .. d + 3 : stack'[i] = u[i]
          /\ stack'[d + 4] = code
      BY <2>4, <3>2, <3>3
    <3> QED
      BY <2>1, <2>4, <2>7, <3>3, <3>4
  <2> QED
    BY <2>6, <2>7
<1>16. Holds(e, Height(e, cpu.eip))'
  <2>1. CASE coded
    <3>1. Holds(e, 4)'
      BY <1>7, <1>8, <1>15, <2>1 DEF Holds
    <3> QED
      BY <1>14, <2>1, <3>1
  <2>2. CASE ~coded
    <3>1. Holds(e, 3)'
      BY <1>8, <1>15 DEF Holds
    <3> QED
      BY <1>14, <2>2, <3>1
  <2> QED
    BY <2>1, <2>2
<1>17. Taken(e, n, d)
  <2>1. e.context = Context(Resumes)
    BY <1>2, <1>7
  <2>2. /\ e.kind = "nmi" => e.number = 2
        /\ ~(e.kind = "exception" /\ e.number \in CpuPushesError) => e.code = 0
        /\ ExpectedVector(e) \in Vectors
    BY <1>7, <1>9, <1>10
  <2> QED
    BY <1>3, <1>5, <1>9, <1>11, <1>12, <1>13, <1>14, <1>15, <1>16, <2>1, <2>2 DEF Taken
<1> QED
  BY <1>7, <1>17

\* The stack below an event's words.
LEMMA DepthIs ==
  ASSUME NEW e \in Events
  PROVE  e.context.depth \in Nat
  BY DEF Events, Contexts

\* An event that finds its gate: what runs goes on below it as it was.
LEMMA TakeStep ==
  ASSUME TrapsInv, idtr, UNCHANGED tables, NEW e \in Events, NEW n \in Nat, NEW d \in Nat,
         Taken(e, n, d), active # <<>> => e.kind = "nmi",
         pic' \in [Chips -> ChipType],
         \A c \in Chips : /\ pic'[c].next = pic[c].next /\ pic'[c].offset = pic[c].offset
                          /\ pic'[c].mask = pic[c].mask
                          /\ \/ pic'[c].inService = pic[c].inService
                             \/ /\ e.kind = "irq" /\ (c = "slave" => e.number >= 8)
                                /\ \A x, y \in pic'[c].inService : x = y
  PROVE  TrapsInv' /\ State(0)' = State(0)
<1>1. /\ n = Len(active) /\ d = Len(stack) /\ e.context = Context(Resumes)
      /\ e.kind = "irq" => e.number < 16
      /\ e.kind = "nmi" => e.number = 2
      /\ ~(e.kind = "exception" /\ e.number \in CpuPushesError) => e.code = 0
      /\ active' \in Seq(Events) /\ Len(active') = n + 1 /\ active'[n + 1] = e
      /\ \A i \in 1 .. n : active'[i] = active[i]
      /\ lost' = lost /\ ExpectedVector(e) \in Vectors
  BY DEF Taken
<1>2. /\ cpu' = [eip |-> StubAddress(ExpectedVector(e)), flag |-> 0, cs |-> 8, ds |-> 16,
                 gpr |-> e.context.gpr]
      /\ cpu' \in CpuType
      /\ stack' \in Seq(Int) /\ Len(stack') = d + Height(e, cpu'.eip)
      /\ \A i \in 1 .. d : stack'[i] = stack[i]
      /\ Holds(e, Height(e, cpu.eip))'
  BY DEF Taken
<1>3. /\ TypeInv /\ TableInv /\ RemapInv /\ NestInv /\ LineInv /\ active \in Seq(Events)
      /\ n = 0 <=> active = <<>>
  BY <1>1 DEF TrapsInv, TypeInv
<1>4. /\ e.context.eip = Resumes /\ e.context.flag = cpu.flag /\ e.context.cs = cpu.cs
      /\ e.context.ds = cpu.ds /\ e.context.gpr = cpu.gpr /\ e.context.depth = d
  BY <1>1 DEF Context
<1>5. State(n + 1)' = Context(cpu.eip)' /\ State(n + 1)'.eip = cpu'.eip
  BY <1>1 DEF State, Context
<1>6. State(n)' = e.context /\ State(n) = Context(cpu.eip)
  BY <1>1 DEF State
<1>7. ASSUME NEW i \in 0 .. n - 1
      PROVE  State(i)' = State(i)
  <2>1. i # Len(active) /\ i # Len(active') /\ i + 1 \in 1 .. n
    BY <1>1
  <2> QED
    BY <1>1, <2>1 DEF State
<1>8. State(0)' = State(0)
  <2>1. CASE n = 0
    <3>1. cpu.eip \in 1 .. LastPoint /\ cpu.eip # Halt
      BY <1>3, <2>1, KernelRuns, Addresses
    <3>2. Resumes = cpu.eip
      BY <3>1 DEF Resumes
    <3> QED
      BY <1>1, <1>6, <2>1, <3>2
  <2>2. CASE n # 0
    <3>1. 0 \in 0 .. n - 1
      BY <2>2
    <3> QED
      BY <1>7, <3>1
  <2> QED
    BY <2>1, <2>2
<1>9. TypeInv'
  <2>1. ASSUME NEW i \in 1 .. n + 1, active'[i].kind = "irq"
        PROVE  active'[i].number < 16
    <3>1. CASE i = n + 1
      BY <1>1, <2>1, <3>1
    <3>2. CASE i # n + 1
      <4>1. i \in 1 .. Len(active) /\ active'[i] = active[i]
        BY <1>1, <3>2
      <4> QED
        BY <1>3, <2>1, <4>1 DEF TypeInv
    <3> QED
      BY <3>1, <3>2
  <2> QED
    BY <1>1, <1>2, <1>3, <2>1 DEF TypeInv, tables
<1>10. TableInv' /\ RemapInv'
  <2>1. saved' = saved
    BY DEF tables
  <2>2. TableInv'
    BY <1>1, <1>3, <1>8, TablesKept
  <2>3. RemapInv'
    BY <1>3, <1>8, <2>1, RemapKept
  <2> QED
    BY <2>2, <2>3
<1>11. Handles(e, Context(cpu.eip))'
  <2>1. /\ Context(cpu.eip)'.eip = StubAddress(ExpectedVector(e)) /\ Context(cpu.eip)'.flag = 0
        /\ Context(cpu.eip)'.cs = 8 /\ Context(cpu.eip)'.ds = 16
        /\ Context(cpu.eip)'.gpr = e.context.gpr
        /\ Context(cpu.eip)'.depth = d + Height(e, StubAddress(ExpectedVector(e)))
    BY <1>2 DEF Context
  <2> QED
    BY <1>4, <2>1 DEF Handles
<1>12. ASSUME n # 0
       PROVE  /\ Handles(active[n], State(n))'
              /\ Holds(active[n], Height(active[n], State(n).eip))'
              /\ \A j \in 1 .. n : active[j].context.depth <= d
              /\ cpu.eip \notin {Restore, Iret} => State(n)'.eip \notin {Restore, Iret}
  <2>1. PICK k \in Nat \ {0}, t \in Events, b \in Nat : TopIs(k, t, b)
    BY <1>3, <1>12, TopEvent
  <2>2. /\ k = n /\ t = active[n] /\ b = t.context.depth /\ active'[n] = t
        /\ Handles(t, Context(cpu.eip)) /\ Holds(t, Height(t, cpu.eip))
        /\ d = b + Height(t, cpu.eip) /\ n \in 1 .. n
    BY <1>1, <1>12, <2>1 DEF TopIs
  <2>3. PICK a : a = Resumes
    OBVIOUS
  <2>4. /\ Height(t, a) = Height(t, cpu.eip) /\ (a = cpu.eip \/ (a \in InC /\ cpu.eip \in InC))
        /\ a \notin {Restore, Iret} \/ a = cpu.eip
    <3>1. a = cpu.eip \/ (a = Acknowledge /\ cpu.eip = Halt)
      BY <2>3 DEF Resumes
    <3>2. Height(t, Acknowledge) = 14 /\ Height(t, Halt) = 14
      BY Addresses DEF Height
    <3>3. Acknowledge \notin {Restore, Iret}
      BY DEF Acknowledge, Restore, Iret
    <3> QED
      BY <3>1, <3>2, <3>3, Addresses
  <2>5. State(n)' = e.context /\ e.context.eip = a
    BY <1>4, <1>6, <2>3
  <2>6. Handles(t, e.context)
    <3>1. /\ Context(cpu.eip).eip = cpu.eip /\ Context(cpu.eip).flag = cpu.flag
          /\ Context(cpu.eip).cs = cpu.cs /\ Context(cpu.eip).ds = cpu.ds
          /\ Context(cpu.eip).gpr = cpu.gpr /\ Context(cpu.eip).depth = d
      BY <1>1 DEF Context
    <3> QED
      BY <1>4, <2>2, <2>4, <2>5, <3>1 DEF Handles
  <2>7. Handles(active[n], State(n))'
    BY <2>2, <2>5, <2>6 DEF Handles
  <2>8. Holds(t, Height(t, a))'
    <3>1. PICK h \in 3 .. 14 : h = Height(t, cpu.eip)
      BY HeightRange
    <3>2. \A j \in 1 .. t.context.depth + h : stack'[j] = stack[j]
      BY <1>2, <2>2, <3>1
    <3>3. Holds(t, h)
      BY <2>2, <3>1
    <3>4. Holds(t, h)'
      BY <3>2, <3>3, HoldsKept
    <3> QED
      BY <2>4, <3>1, <3>4
  <2>9. Holds(active[n], Height(active[n], State(n).eip))'
    BY <2>2, <2>5, <2>8
  <2>10. \A j \in 1 .. n : active[j].context.depth <= d
    <3>1. n \in 1 .. Len(active)
      BY <1>1, <2>2
    <3>2. \A j \in 1 .. n : active[j].context.depth <= b
      BY <1>3, <2>2, <3>1 DEF NestInv
    <3>3. \A j \in 1 .. n : active[j].context.depth \in Nat
      <4>1. \A j \in 1 .. n : active[j] \in Events
        BY <1>1, <1>3
      <4> QED
        BY <4>1, DepthIs
    <3>4. b <= d
      BY <2>2, HeightRange
    <3> QED
      BY <3>2, <3>3, <3>4
  <2> QED
    BY <2>4, <2>5, <2>7, <2>9, <2>10
<1>13. NestInv'
  <2>1. ASSUME NEW i \in 1 .. n
        PROVE  /\ Handles(active[i], State(i))'
               /\ Holds(active[i], Height(active[i], State(i).eip))'
    <3>1. CASE i = n
      BY <1>12, <3>1
    <3>2. CASE i # n
      <4>1. /\ i \in 1 .. Len(active) /\ n \in 1 .. Len(active) /\ i \in 1 .. n - 1
            /\ State(i)' = State(i) /\ active'[i] = active[i]
        BY <1>1, <1>7, <3>2
      <4>2. \A j \in 1 .. active[n].context.depth : stack'[j] = stack[j]
        <5>1. active[n].context.depth \in Nat /\ active[n].context.depth <= d
          <6>1. active[n] \in Events /\ n # 0 /\ n \in 1 .. n
            BY <1>1, <1>3, <4>1
          <6> QED
            BY <1>12, <6>1, DepthIs
        <5> QED
          BY SMTT(40), <1>2, <5>1
      <4>3. Holds(active[i], Height(active[i], State(i).eip))'
        BY <1>3, <4>1, <4>2, BelowKept
      <4>4. Handles(active[i], State(i))
        BY <1>3, <4>1 DEF NestInv
      <4> QED
        BY <4>1, <4>3, <4>4 DEF Handles
    <3> QED
      BY <3>1, <3>2
  <2>2. /\ Handles(active[n + 1], State(n + 1))'
        /\ Holds(active[n + 1], Height(active[n + 1], State(n + 1).eip))'
    BY <1>1, <1>2, <1>5, <1>11
  <2>3. ASSUME NEW i \in 1 .. n + 1
        PROVE  /\ \A j \in 1 .. i : active'[j].context.depth <= active'[i].context.depth
               /\ i > 1 => active'[i].kind = "nmi"
               /\ active'[i].kind = "nmi" => active'[i].number = 2
               /\ ~(active'[i].kind = "exception" /\ active'[i].number \in CpuPushesError)
                    => active'[i].code = 0
    <3>1. CASE i = n + 1
      <4>1. \A j \in 1 .. n + 1 : active'[j].context.depth <= d
        <5>1. \A j \in 1 .. n : active'[j].context.depth <= d
          BY <1>1, <1>12
        <5>2. active'[n + 1].context.depth <= d
          BY <1>1, <1>4
        <5> QED
          BY <5>1, <5>2
      <4> QED
        BY <1>1, <1>3, <1>4, <3>1, <4>1
    <3>2. CASE i # n + 1
      <4>1. i \in 1 .. Len(active) /\ \A j \in 1 .. i : active'[j] = active[j]
        BY <1>1, <3>2
      <4>2. /\ \A j \in 1 .. i : active[j].context.depth <= active[i].context.depth
            /\ i > 1 => active[i].kind = "nmi"
            /\ active[i].kind = "nmi" => active[i].number = 2
            /\ ~(active[i].kind = "exception" /\ active[i].number \in CpuPushesError)
                 => active[i].code = 0
        BY <1>3, <4>1 DEF NestInv
      <4>3. active'[i] = active[i]
        BY <4>1
      <4> QED
        BY <4>1, <4>2, <4>3
    <3> QED
      BY <3>1, <3>2
  <2>4. \A i \in 1 .. n + 1 : /\ Handles(active[i], State(i))'
                             /\ Holds(active[i], Height(active[i], State(i).eip))'
    <3>1. \A i \in 1 .. n + 1 : i \in 1 .. n \/ i = n + 1
      OBVIOUS
    <3> QED
      BY <2>1, <2>2, <3>1
  <2> QED
    BY <1>1, <2>3, <2>4 DEF NestInv
<1>14. LineInv'
  <2>1. SUFFICES ASSUME NEW c \in Chips, pic'[c].inService # {}
                 PROVE  /\ active' # <<>> /\ active'[1].kind = "irq"
                        /\ State(1)'.eip \notin {Restore, Iret}
                        /\ c = "slave" => active'[1].number >= 8
                        /\ \A x, y \in pic'[c].inService : x = y
    BY DEF LineInv
  <2>2. active' # <<>>
    BY <1>1
  <2>3. CASE pic'[c].inService = pic[c].inService
    <3>1. /\ active # <<>> /\ active[1].kind = "irq" /\ State(1).eip \notin {Restore, Iret}
          /\ c = "slave" => active[1].number >= 8
          /\ \A x, y \in pic[c].inService : x = y
      BY <1>3, <2>1, <2>3 DEF LineInv
    <3>2. n # 0 /\ 1 \in 1 .. n
      BY <1>3, <3>1
    <3>3. active'[1] = active[1]
      BY <1>1, <3>2
    <3>4. State(1)'.eip \notin {Restore, Iret}
      <4>1. CASE n = 1
        <5>1. State(1).eip = cpu.eip
          BY <1>6, <4>1 DEF Context
        <5> QED
          BY <1>12, <3>1, <4>1, <5>1
      <4>2. CASE n # 1
        <5>1. 1 \in 0 .. n - 1
          BY <3>2, <4>2
        <5> QED
          BY <1>7, <3>1, <5>1
      <4> QED
        BY <4>1, <4>2
    <3> QED
      BY <2>2, <2>3, <3>1, <3>3, <3>4
  <2>4. CASE pic'[c].inService # pic[c].inService
    <3>1. /\ e.kind = "irq" /\ (c = "slave" => e.number >= 8)
          /\ \A x, y \in pic'[c].inService : x = y
      BY <2>4
    <3>2. n = 0
      BY <1>3, <3>1
    <3>3. active'[1] = e /\ State(1)'.eip = StubAddress(ExpectedVector(e))
      BY <1>1, <1>2, <1>5, <3>2
    <3>4. StubAddress(ExpectedVector(e)) \notin {Restore, Iret}
      BY <1>1, Addresses DEF Vectors
    <3> QED
      BY <2>2, <3>1, <3>3, <3>4
  <2> QED
    BY <2>3, <2>4
<1> QED
  BY <1>8, <1>9, <1>10, <1>13, <1>14 DEF TrapsInv

\* Before lidt an exception or an NMI finds no gate; the machine stops.
LEMMA LostStep ==
  ASSUME TrapsInv, ~idtr, UNCHANGED <<tables, pic, stack, cpu, active>>, lost' \in {"exception", "nmi"}
  PROVE  TrapsInv' /\ State(0)' = State(0)
<1>1. \A i : State(i)' = State(i)
  BY DEF State, Context
<1>2. Point' = Point /\ State(0)' = State(0)
  BY <1>1 DEF Point
<1>3. TypeInv' /\ RemapInv'
  BY <1>2 DEF TrapsInv, TypeInv, RemapInv, tables
<1>4. TableInv'
  <2>1. NothingLost'
    BY DEF NothingLost, tables
  <2> QED
    BY <1>2, <2>1 DEF TrapsInv, TableInv, tables
<1>5. active = <<>> /\ Len(active) = 0
  BY DEF TrapsInv, TableInv
<1>6. NestInv'
  BY <1>5 DEF NestInv
<1>7. LineInv'
  BY <1>1 DEF TrapsInv, LineInv
<1> QED
  BY <1>2, <1>3, <1>4, <1>6, <1>7 DEF TrapsInv

\* An exception of kernel_main.
LEMMA ExceptionStep ==
  ASSUME TrapsInv, NEW v \in Exceptions, NEW code \in ErrorCodes, Exception(v, code)
  PROVE  TrapsInv' /\ State(0)' = State(0)
<1>1. /\ active = <<>> /\ Take("exception", v, code, v) /\ UNCHANGED <<tables, pic>>
  BY KernelRuns DEF Exception
<1>2. v \in 0 .. 31 /\ v \in Vectors /\ code \in Nat
  <2>1. Exceptions \subseteq 0 .. 31 /\ ErrorCodes \subseteq Nat
    BY TrapsAssumption
  <2> QED
    BY <2>1 DEF Vectors
<1>3. CASE idtr
  <2>1. PICK e \in Events, n \in Nat, d \in Nat : e.kind = "exception" /\ Taken(e, n, d)
    BY <1>1, <1>2, <1>3, TakeDoes
  <2>2. pic' = pic /\ pic \in [Chips -> ChipType]
    BY <1>1 DEF TrapsInv, TypeInv
  <2> QED
    BY <1>1, <1>3, <2>1, <2>2, TakeStep
<1>4. CASE ~idtr
  BY <1>1, <1>4, LostStep DEF Take
<1> QED
  BY <1>3, <1>4

\* A non-maskable interrupt, of kernel_main or of a handler.
LEMMA NmiStep ==
  ASSUME TrapsInv, Nmi
  PROVE  TrapsInv' /\ State(0)' = State(0)
<1>1. Take("nmi", 2, 0, 2) /\ UNCHANGED <<tables, pic>>
  BY DEF Nmi
<1>2. 2 \in 0 .. 31 /\ 2 \in Vectors /\ 0 \in Nat
  BY DEF Vectors
<1>3. CASE idtr
  <2>1. PICK e \in Events, n \in Nat, d \in Nat : e.kind = "nmi" /\ Taken(e, n, d)
    BY <1>1, <1>2, <1>3, TakeDoes
  <2>2. pic' = pic /\ pic \in [Chips -> ChipType]
    BY <1>1 DEF TrapsInv, TypeInv
  <2> QED
    BY <1>1, <1>3, <2>1, <2>2, TakeStep
<1>4. CASE ~idtr
  BY <1>1, <1>4, LostStep DEF Take
<1> QED
  BY <1>3, <1>4

\* While interrupts are enabled kernel_main runs, the tables are loaded, and the controllers
\* have the kernel's offsets and no line in service.
LEMMA Enabled ==
  ASSUME TrapsInv, cpu.flag = 1
  PROVE  /\ active = <<>> /\ idtr /\ pic["master"].offset = 32 /\ pic["slave"].offset = 40
         /\ pic \in [Chips -> ChipType] /\ \A c \in Chips : pic[c].inService = {}
<1>1. active = <<>> /\ cpu.eip > 18 /\ cpu.eip \in Nat
  BY Running
<1>2. Point = cpu.eip /\ \A c \in Chips : pic[c].inService = {}
  BY <1>1, KernelRuns
<1>3. Point > 17 /\ Point > 8 /\ Point > 9
  BY <1>1, <1>2
<1> QED
  BY <1>1, <1>2, <1>3 DEF TrapsInv, TableInv, RemapInv, TypeInv

\* An interrupt with the kernel's offsets is taken at its own vector.
LEMMA IrqTaken ==
  ASSUME TrapsInv, idtr, NEW n \in 0 .. 31, NEW v \in Vectors, v = 32 + n, Take("irq", n, 0, v)
  PROVE  \E e \in Events, k \in Nat, d \in Nat : e.kind = "irq" /\ e.number = n /\ Taken(e, k, d)
<1>1. PICK kind \in {"exception", "nmi", "irq"}, code \in Nat : kind = "irq" /\ code = 0
  OBVIOUS
<1>2. /\ Take(kind, n, code, v) /\ (kind = "irq" => v = 32 + n) /\ (kind # "irq" => v = n)
      /\ (kind = "nmi" => n = 2)
  BY <1>1
<1>3. \E e \in Events, k \in Nat, d \in Nat : e.kind = kind /\ e.number = n /\ Taken(e, k, d)
  BY <1>2, TakeDoes
<1> QED
  BY <1>1, <1>3

\* A device's interrupt: its line, and for the slave's the master's line 2, are in service.
LEMMA IrqStep ==
  ASSUME TrapsInv, NEW n \in Lines, Irq(n)
  PROVE  TrapsInv' /\ State(0)' = State(0)
<1> DEFINE c == IF n < 8 THEN "master" ELSE "slave"
           S(x) == IF x = c THEN {n % 8} ELSE IF n >= 8 THEN {2} ELSE {}
<1>1. /\ cpu.flag = 1 /\ Take("irq", n, 0, pic[c].offset + (n % 8)) /\ UNCHANGED tables
      /\ pic' = [x \in Chips |-> [pic[x] EXCEPT !.inService = @ \cup S(x)]]
  BY DEF Irq
<1>2. /\ active = <<>> /\ idtr /\ pic["master"].offset = 32 /\ pic["slave"].offset = 40
      /\ pic \in [Chips -> ChipType] /\ \A x \in Chips : pic[x].inService = {}
  BY <1>1, Enabled
<1>3. n \in 0 .. 15
  BY TrapsAssumption
<1>4. pic[c].offset + (n % 8) = 32 + n /\ n % 8 \in Nat
  <2>1. CASE n < 8
    BY <1>2, <1>3, <2>1
  <2>2. CASE ~(n < 8)
    BY <1>2, <1>3, <2>2
  <2> QED
    BY <2>1, <2>2
<1>5. 32 + n \in Vectors /\ n \in 0 .. 31 /\ 0 \in Nat
  BY <1>3 DEF Vectors
<1>6. Take("irq", n, 0, 32 + n)
  BY <1>1, <1>4
<1>7. PICK e \in Events, k \in Nat, d \in Nat : e.kind = "irq" /\ e.number = n /\ Taken(e, k, d)
  <2>1. PICK v \in Vectors : v = 32 + n
    BY <1>5
  <2>2. Take("irq", n, 0, v)
    BY <1>6, <2>1
  <2> QED
    BY <1>2, <1>5, <2>1, <2>2, IrqTaken
<1>8. \A x \in Chips : /\ S(x) \in SUBSET Nat /\ \A y, z \in S(x) : y = z
                       /\ x = "slave" => S(x) = {} \/ n >= 8
  BY <1>3, <1>4
<1> HIDE DEF S, c
<1>9. /\ pic' \in [Chips -> ChipType]
      /\ \A x \in Chips : /\ pic'[x].next = pic[x].next /\ pic'[x].offset = pic[x].offset
                          /\ pic'[x].mask = pic[x].mask /\ pic'[x].inService = S(x)
  <2>1. ASSUME NEW x \in Chips
        PROVE  /\ [pic[x] EXCEPT !.inService = @ \cup S(x)] \in ChipType
               /\ [pic[x] EXCEPT !.inService = @ \cup S(x)].next = pic[x].next
               /\ [pic[x] EXCEPT !.inService = @ \cup S(x)].offset = pic[x].offset
               /\ [pic[x] EXCEPT !.inService = @ \cup S(x)].mask = pic[x].mask
               /\ [pic[x] EXCEPT !.inService = @ \cup S(x)].inService = S(x)
    <3>1. pic[x] \in ChipType /\ pic[x].inService = {} /\ pic[x].inService \cup S(x) = S(x)
          /\ S(x) \in SUBSET Nat
      BY <1>2, <1>8
    <3> QED
      BY <3>1 DEF ChipType
  <2> QED
    BY <1>1, <2>1
<1>10. \A x \in Chips : \/ pic'[x].inService = pic[x].inService
                        \/ /\ e.kind = "irq" /\ (x = "slave" => e.number >= 8)
                           /\ \A y, z \in pic'[x].inService : y = z
  <2>1. SUFFICES ASSUME NEW x \in Chips
                 PROVE  \/ pic'[x].inService = pic[x].inService
                        \/ /\ e.kind = "irq" /\ (x = "slave" => e.number >= 8)
                           /\ \A y, z \in pic'[x].inService : y = z
    OBVIOUS
  <2>2. pic'[x].inService = S(x) /\ pic[x].inService = {}
    BY <1>2, <1>9
  <2>3. (\A y, z \in S(x) : y = z) /\ (x = "slave" => S(x) = {} \/ n >= 8)
    BY <1>8
  <2> QED
    BY <1>7, <2>2, <2>3
<1> QED
  BY <1>1, <1>2, <1>7, <1>9, <1>10, TakeStep

\* A spurious interrupt: only the master has line 2 in service, if it is the slave's.
LEMMA SpuriousStep ==
  ASSUME TrapsInv, NEW c \in Chips, Spurious(c)
  PROVE  TrapsInv' /\ State(0)' = State(0)
<1> DEFINE number == IF c = "master" THEN 7 ELSE 15
<1>1. /\ cpu.flag = 1 /\ Take("irq", number, 0, pic[c].offset + 7) /\ UNCHANGED tables
      /\ pic' = IF c = "slave" THEN [pic EXCEPT !["master"].inService = {2}] ELSE pic
  BY DEF Spurious
<1>2. /\ active = <<>> /\ idtr /\ pic["master"].offset = 32 /\ pic["slave"].offset = 40
      /\ pic \in [Chips -> ChipType] /\ \A x \in Chips : pic[x].inService = {}
  BY <1>1, Enabled
<1>3. pic[c].offset + 7 = 32 + number
  BY <1>2 DEF Chips
<1>4. 32 + number \in Vectors /\ number \in 0 .. 31 /\ 0 \in Nat
  BY DEF Vectors
<1>5. Take("irq", number, 0, 32 + number)
  BY <1>1, <1>3
<1>6. PICK e \in Events, k \in Nat, d \in Nat : e.kind = "irq" /\ e.number = number /\ Taken(e, k, d)
  <2>1. PICK v \in Vectors, m \in 0 .. 31 : v = 32 + number /\ m = number
    BY <1>4
  <2>2. Take("irq", m, 0, v)
    BY <1>5, <2>1
  <2>3. v = 32 + m
    BY <2>1
  <2>4. \E e \in Events, k \in Nat, d \in Nat : e.kind = "irq" /\ e.number = m /\ Taken(e, k, d)
    BY ZenonT(60), <1>2, <1>4, <2>2, <2>3, IrqTaken
  <2> QED
    BY <2>1, <2>4
<1>7. CASE c # "slave"
  BY <1>1, <1>2, <1>6, <1>7, TakeStep
<1>8. CASE c = "slave"
  <2>1. "master" \in Chips /\ pic["master"] \in ChipType /\ "master" # "slave"
    BY <1>2 DEF Chips
  <2>2. /\ [pic["master"] EXCEPT !.inService = {2}] \in ChipType
        /\ [pic["master"] EXCEPT !.inService = {2}].next = pic["master"].next
        /\ [pic["master"] EXCEPT !.inService = {2}].offset = pic["master"].offset
        /\ [pic["master"] EXCEPT !.inService = {2}].mask = pic["master"].mask
        /\ [pic["master"] EXCEPT !.inService = {2}].inService = {2}
    BY <2>1 DEF ChipType
  <2>3. pic' = [pic EXCEPT !["master"] = [pic["master"] EXCEPT !.inService = {2}]]
    BY <1>1, <1>8
  <2>4. /\ pic' \in [Chips -> ChipType]
        /\ \A x \in Chips : pic'[x] =
             IF x = "master" THEN [pic["master"] EXCEPT !.inService = {2}] ELSE pic[x]
    BY <1>2, <2>1, <2>2, <2>3
  <2>5. \A x \in Chips : /\ pic'[x].next = pic[x].next /\ pic'[x].offset = pic[x].offset
                         /\ pic'[x].mask = pic[x].mask
                         /\ \/ pic'[x].inService = pic[x].inService
                            \/ /\ e.kind = "irq" /\ (x = "slave" => e.number >= 8)
                               /\ \A y, z \in pic'[x].inService : y = z
    <3>1. \A y, z \in {2} : y = z
      OBVIOUS
    <3>2. \A x \in Chips : x # "master" => pic'[x] = pic[x]
      BY <2>4
    <3>3. pic'["master"] = [pic["master"] EXCEPT !.inService = {2}]
      BY <2>1, <2>4
    <3>4. /\ pic'["master"].next = pic["master"].next /\ pic'["master"].offset = pic["master"].offset
          /\ pic'["master"].mask = pic["master"].mask /\ pic'["master"].inService = {2}
      BY <2>2, <3>3
    <3> QED
      BY <1>6, <2>1, <3>1, <3>2, <3>4
  <2> QED
    BY <1>1, <1>2, <1>6, <2>4, <2>5, TakeStep
<1> QED
  BY <1>7, <1>8

-----------------------------------------------------------------------------
(* The steps of kernel_main.                                               *)

\* kernel_main has executed instruction p: the CPU goes on with the next one, and the flag is that
\* of the code before or after sti.
Advanced(p) ==
  /\ cpu' = [eip |-> p + 1, flag |-> IF p >= 18 THEN 1 ELSE 0, cs |-> 8, ds |-> 16,
             gpr |-> Computed(p)]
  /\ UNCHANGED <<stack, active, lost>>

\* What holds while kernel_main is at p.
LEMMA AtPoint ==
  ASSUME TrapsInv, NEW o, InProgram(o)
  PROVE  /\ cpu.eip \in 1 .. 22 /\ Program[cpu.eip].op = o /\ Point = cpu.eip
         /\ active = <<>> /\ Len(active) = 0 /\ Len(stack) = 0 /\ lost = "none"
         /\ cpu.cs = 8 /\ cpu.ds = 16 /\ cpu.flag = (IF cpu.eip > 18 THEN 1 ELSE 0)
         /\ cpu \in CpuType /\ \A c \in Chips : pic[c].inService = {}
         /\ State(0) = Context(cpu.eip)
<1>1. cpu.eip \in 1 .. LastPoint /\ lost = "none" /\ Program[cpu.eip].op = o
  BY DEF InProgram, Executes
<1> QED
  BY <1>1, KernelRuns, ProgramPoints DEF TrapsInv, TypeInv

\* An instruction other than sti leaves the flag, sti sets it.
LEMMA DoneIs ==
  ASSUME cpu \in CpuType, NEW p \in 1 .. 21, p = cpu.eip, cpu.cs = 8, cpu.ds = 16,
         NEW f, f = (IF p >= 18 THEN 1 ELSE 0), Done(f)
  PROVE  cpu' = [eip |-> p + 1, flag |-> IF p >= 18 THEN 1 ELSE 0, cs |-> 8, ds |-> 16,
                 gpr |-> Computed(p)]
  BY DEF Done, CpuType

\* What gdt_init, gdt_flush and idt_init have done before instruction p.
Filled(p) ==
  /\ p > 2 => gdt[1] = SegmentEntry(Zero, Ones, 154, 207)
  /\ p > 3 => gdt[2] = SegmentEntry(Zero, Ones, 146, 207)
  /\ p > 4 => gdtr
  /\ p > 16 => idt = Gates
  /\ idtr <=> p > 17

\* The next instruction of kernel_main is one too.
LEMMA NextPoint ==
  ASSUME NEW p \in 1 .. 21
  PROVE  p \in Nat /\ p + 1 \in Nat /\ p + 1 \in 1 .. 22
  OBVIOUS

\* The invariant after a step of kernel_main that has done its part of the tables.
LEMMA AdvanceStep ==
  ASSUME TrapsInv, NEW p \in 1 .. 21, p = cpu.eip, active = <<>>, lost = "none", Len(stack) = 0,
         Advanced(p), DOMAIN gdt' = 0 .. 2, pic' \in [Chips -> ChipType], saved' \in Nat \X Nat,
         \A c \in Chips : pic'[c].inService = {},
         Filled(p + 1)', Point' = p + 1 => RemapInv'
  PROVE  TrapsInv'
<1>1. active' = <<>> /\ Len(active') = 0 /\ stack' = stack /\ lost' = "none"
  BY DEF Advanced
<1>2. State(0)' = Context(cpu.eip)'
  BY <1>1 DEF State
<1>3. /\ State(0)'.eip = p + 1 /\ State(0)'.cs = 8 /\ State(0)'.ds = 16 /\ State(0)'.depth = 0
      /\ State(0)'.flag = IF p >= 18 THEN 1 ELSE 0
  BY <1>1, <1>2 DEF Context, Advanced
<1>4. Point' = p + 1 /\ RemapInv'
  BY <1>3 DEF Point
<1>5. TypeInv'
  <2>1. cpu' \in CpuType
    <3>1. p \in Nat /\ p + 1 \in Nat
      BY NextPoint
    <3>2. Computed(p) \in [Registers -> Int]
      BY <3>1, ComputedType
    <3> QED
      BY <3>1, <3>2 DEF Advanced, CpuType
  <2>2. stack' \in Seq(Int) /\ active' \in Seq(Events)
    BY <1>1 DEF TrapsInv, TypeInv
  <2> QED
    BY <1>1, <2>1, <2>2 DEF TypeInv
<1>6. TableInv'
  <2>1. NothingLost'
    BY <1>1 DEF NothingLost
  <2>2. Point' \in 1 .. LastPoint
    <3>1. LastPoint = 22 /\ p + 1 \in 1 .. 22
      BY NextPoint, ProgramPoints
    <3> QED
      BY <1>4, <3>1
  <2>3. State(0)'.flag = IF Point' > 18 THEN 1 ELSE 0
    BY <1>3, <1>4
  <2> QED
    BY <1>1, <1>3, <1>4, <2>1, <2>2, <2>3 DEF TableInv, Filled
<1>7. NestInv'
  BY <1>1 DEF NestInv
<1>8. LineInv'
  BY DEF LineInv
<1> QED
  BY <1>4, <1>5, <1>6, <1>7, <1>8 DEF TrapsInv

\* The steps outside pic_remap leave the controllers alone.
LEMMA RemapFar ==
  ASSUME RemapInv, NEW p \in 1 .. 21, Point = p, Point' = p + 1, UNCHANGED <<pic, saved>>,
         p < 5 \/ p > 15
  PROVE  RemapInv'
<1>1. CASE p < 5
  <2>1. pic'["master"].next = 0 /\ pic'["slave"].next = 0
    BY <1>1 DEF RemapInv
  <2> QED
    BY <1>1, <2>1 DEF RemapInv
<1>2. CASE p > 15
  <2>1. pic'["master"].next = 0 /\ pic'["slave"].next = 0
    BY <1>2 DEF RemapInv
  <2>2. /\ pic'["master"].offset = 32 /\ pic'["slave"].offset = 40
        /\ pic'["master"].mask = saved'[1] /\ pic'["slave"].mask = saved'[2]
    BY <1>2 DEF RemapInv
  <2> QED
    BY <1>2, <2>1, <2>2 DEF RemapInv
<1> QED
  BY <1>1, <1>2

\* The types of what kernel_main fills in.
LEMMA TableTypes ==
  ASSUME TrapsInv
  PROVE  /\ DOMAIN gdt = 0 .. 2 /\ pic \in [Chips -> ChipType] /\ saved \in Nat \X Nat
         /\ TableInv /\ RemapInv
  BY DEF TrapsInv, TypeInv

\* gdt_set_entry, three times.
LEMMA SetSegmentStep ==
  ASSUME TrapsInv, SetSegment
  PROVE  TrapsInv' /\ cpu.eip \in 1 .. 21 /\ Advanced(cpu.eip)
<1>1. PICK p \in 1 .. 21 : p = cpu.eip /\ p \in 1 .. 3 /\ Operand = p - 1
  <2>1. InProgram("segment")
    BY DEF SetSegment
  <2>2. cpu.eip \in 1 .. LastPoint /\ Program[cpu.eip].op = "segment"
    BY <2>1 DEF InProgram
  <2> QED
    BY <2>2, OpPoints DEF Operand
<1>2. /\ Point = p /\ active = <<>> /\ Len(stack) = 0 /\ lost = "none" /\ cpu \in CpuType
      /\ cpu.cs = 8 /\ cpu.ds = 16 /\ cpu.flag = 0 /\ \A c \in Chips : pic[c].inService = {}
  BY <1>1, AtPoint DEF SetSegment
<1>3. Done(0) /\ UNCHANGED <<gdtr, idt, idtr, pic, saved, handlers, stack, active, lost>>
  BY <1>2 DEF SetSegment
<1>4. Advanced(p)
  <2>1. (IF p >= 18 THEN 1 ELSE 0) = 0
    BY <1>1
  <2> QED
    BY <1>1, <1>2, <1>3, <2>1, DoneIs DEF Advanced
<1>5. /\ DOMAIN gdt' = 0 .. 2
      /\ p + 1 > 2 => gdt'[1] = SegmentEntry(Zero, Ones, 154, 207)
      /\ p + 1 > 3 => gdt'[2] = SegmentEntry(Zero, Ones, 146, 207)
  <2>1. DOMAIN gdt = 0 .. 2 /\ (p > 2 => gdt[1] = SegmentEntry(Zero, Ones, 154, 207))
    BY <1>2, TableTypes DEF TableInv
  <2>2. gdt' = [gdt EXCEPT ![p - 1] = CASE p - 1 = 0 -> NoSegment
                 [] p - 1 = 1 -> SegmentEntry(Zero, Ones, 154, 207)
                 [] p - 1 = 2 -> SegmentEntry(Zero, Ones, 146, 207)]
    BY <1>1 DEF SetSegment
  <2>3. CASE p = 1
    BY <2>1, <2>2, <2>3
  <2>4. CASE p = 2
    BY <2>1, <2>2, <2>4
  <2>5. CASE p = 3
    BY <2>1, <2>2, <2>5
  <2> QED
    BY <1>1, <2>3, <2>4, <2>5
<1>6. pic' = pic /\ saved' = saved /\ (idtr' <=> p + 1 > 17) /\ DOMAIN gdt' = 0 .. 2
  <2>1. ~(Point > 17) /\ ~(p + 1 > 17)
    BY <1>1, <1>2
  <2>2. ~idtr
    BY <2>1, TableTypes DEF TableInv
  <2> QED
    BY <1>3, <1>5, <2>1, <2>2
<1>7. Point' = p + 1 => RemapInv'
  BY SMTT(40), <1>1, <1>2, <1>6, RemapFar, TableTypes
<1>8. Filled(p + 1)'
  BY <1>1, <1>5, <1>6 DEF Filled
<1>9. TrapsInv'
  BY <1>1, <1>2, <1>4, <1>6, <1>7, <1>8, AdvanceStep, TableTypes
<1> QED
  BY <1>1, <1>4, <1>6, <1>9

\* gdt_flush finds both segments.
LEMMA GdtFlushStep ==
  ASSUME TrapsInv, GdtFlush
  PROVE  TrapsInv' /\ cpu.eip \in 1 .. 21 /\ Advanced(cpu.eip)
<1>1. PICK p \in 1 .. 21 : p = cpu.eip /\ p = 4
  <2>1. InProgram("flush")
    BY DEF GdtFlush
  <2>2. cpu.eip \in 1 .. LastPoint /\ Program[cpu.eip].op = "flush"
    BY <2>1 DEF InProgram
  <2> QED
    BY <2>2, OpPoints
<1>2. /\ Point = p /\ active = <<>> /\ Len(stack) = 0 /\ lost = "none" /\ cpu \in CpuType
      /\ cpu.cs = 8 /\ cpu.ds = 16 /\ cpu.flag = 0 /\ \A c \in Chips : pic[c].inService = {}
  BY <1>1, AtPoint DEF GdtFlush
<1>3. /\ DOMAIN gdt = 0 .. 2 /\ gdt[1] = SegmentEntry(Zero, Ones, 154, 207)
      /\ gdt[2] = SegmentEntry(Zero, Ones, 146, 207) /\ ~idtr
  BY <1>1, <1>2, TableTypes DEF TableInv
<1>4. DataSegment(gdt, 16) /\ CodeSegment(gdt, 8)
  BY <1>3, SegmentsWork
<1>5. /\ cpu' = [cpu EXCEPT !.eip = @ + 1, !.ds = 16, !.cs = 8, !.gpr = Computed(cpu.eip)]
      /\ gdtr' = TRUE /\ UNCHANGED <<gdt, idt, idtr, pic, saved, stack, active, lost>>
  BY <1>4 DEF GdtFlush
<1>6. Advanced(p)
  <2>1. cpu' = [eip |-> p + 1, flag |-> 0, cs |-> 8, ds |-> 16, gpr |-> Computed(p)]
    BY <1>1, <1>2, <1>5 DEF CpuType
  <2>2. ~(p >= 18)
    BY <1>1
  <2> QED
    BY <1>5, <2>1, <2>2 DEF Advanced
<1>7. pic' = pic /\ saved' = saved /\ gdt' = gdt /\ (idtr' <=> p + 1 > 17) /\ ~(p + 1 > 16)
  BY <1>1, <1>3, <1>5
<1>8. Point' = p + 1 => RemapInv'
  BY <1>1, <1>2, <1>7, RemapFar, TableTypes
<1>9. Filled(p + 1)'
  BY <1>1, <1>3, <1>5, <1>7 DEF Filled
<1>10. TrapsInv'
  BY <1>1, <1>2, <1>3, <1>6, <1>7, <1>8, <1>9, AdvanceStep, TableTypes
<1> QED
  BY <1>1, <1>6, <1>10

\* idt_init's gates.
LEMMA SetGatesStep ==
  ASSUME TrapsInv, SetGates
  PROVE  TrapsInv' /\ cpu.eip \in 1 .. 21 /\ Advanced(cpu.eip)
<1>1. PICK p \in 1 .. 21 : p = cpu.eip /\ p = 16
  <2>1. InProgram("gates")
    BY DEF SetGates
  <2>2. cpu.eip \in 1 .. LastPoint /\ Program[cpu.eip].op = "gates"
    BY <2>1 DEF InProgram
  <2> QED
    BY <2>2, OpPoints
<1>2. /\ Point = p /\ active = <<>> /\ Len(stack) = 0 /\ lost = "none" /\ cpu \in CpuType
      /\ cpu.cs = 8 /\ cpu.ds = 16 /\ cpu.flag = 0 /\ \A c \in Chips : pic[c].inService = {}
  BY <1>1, AtPoint DEF SetGates
<1>3. Done(0) /\ UNCHANGED <<gdt, gdtr, idtr, pic, saved, stack, active, lost>>
  BY <1>2 DEF SetGates, tables
<1>4. Advanced(p)
  <2>1. (IF p >= 18 THEN 1 ELSE 0) = 0
    BY <1>1
  <2> QED
    BY <1>1, <1>2, <1>3, <2>1, DoneIs DEF Advanced
<1>5. DOMAIN gdt' = 0 .. 2 /\ pic' = pic /\ saved' = saved
  BY <1>3, TableTypes
<1>6. Point' = p + 1 => RemapInv'
  BY <1>1, <1>2, <1>5, RemapFar, TableTypes
<1>7. Filled(p + 1)'
  <2>1. /\ gdt[1] = SegmentEntry(Zero, Ones, 154, 207) /\ gdt[2] = SegmentEntry(Zero, Ones, 146, 207)
        /\ gdtr /\ (p > 16 => idt = Gates) /\ (idtr <=> p > 17)
    BY <1>1, <1>2, TableTypes DEF TableInv
  <2> QED
    BY <1>1, <1>3, <2>1 DEF Filled, SetGates
<1>8. TrapsInv'
  BY <1>1, <1>2, <1>4, <1>5, <1>6, <1>7, AdvanceStep, TableTypes
<1> QED
  BY <1>1, <1>4, <1>8

\* lidt: from here on events find their gates.
LEMMA LidtStep ==
  ASSUME TrapsInv, Lidt
  PROVE  TrapsInv' /\ cpu.eip \in 1 .. 21 /\ Advanced(cpu.eip)
<1>1. PICK p \in 1 .. 21 : p = cpu.eip /\ p = 17
  <2>1. InProgram("lidt")
    BY DEF Lidt
  <2>2. cpu.eip \in 1 .. LastPoint /\ Program[cpu.eip].op = "lidt"
    BY <2>1 DEF InProgram
  <2> QED
    BY <2>2, OpPoints
<1>2. /\ Point = p /\ active = <<>> /\ Len(stack) = 0 /\ lost = "none" /\ cpu \in CpuType
      /\ cpu.cs = 8 /\ cpu.ds = 16 /\ cpu.flag = 0 /\ \A c \in Chips : pic[c].inService = {}
  BY <1>1, AtPoint DEF Lidt
<1>3. Done(0) /\ UNCHANGED <<gdt, gdtr, idt, pic, saved, stack, active, lost>>
  BY <1>2 DEF Lidt, tables
<1>4. Advanced(p)
  <2>1. (IF p >= 18 THEN 1 ELSE 0) = 0
    BY <1>1
  <2> QED
    BY <1>1, <1>2, <1>3, <2>1, DoneIs DEF Advanced
<1>5. DOMAIN gdt' = 0 .. 2 /\ pic' = pic /\ saved' = saved
  BY <1>3, TableTypes
<1>6. Point' = p + 1 => RemapInv'
  BY <1>1, <1>2, <1>5, RemapFar, TableTypes
<1>7. Filled(p + 1)'
  <2>1. /\ gdt[1] = SegmentEntry(Zero, Ones, 154, 207) /\ gdt[2] = SegmentEntry(Zero, Ones, 146, 207)
        /\ gdtr /\ (p > 16 => idt = Gates) /\ (idtr <=> p > 17)
    BY <1>1, <1>2, TableTypes DEF TableInv
  <2> QED
    BY <1>1, <1>3, <2>1 DEF Filled, Lidt
<1>8. TrapsInv'
  BY <1>1, <1>2, <1>4, <1>5, <1>6, <1>7, AdvanceStep, TableTypes
<1> QED
  BY <1>1, <1>4, <1>8

\* sti: the flag is set with the tables in place.
LEMMA StiStep ==
  ASSUME TrapsInv, Sti
  PROVE  TrapsInv' /\ cpu.eip \in 1 .. 21 /\ Advanced(cpu.eip)
<1>1. PICK p \in 1 .. 21 : p = cpu.eip /\ p = 18
  <2>1. InProgram("sti")
    BY DEF Sti
  <2>2. cpu.eip \in 1 .. LastPoint /\ Program[cpu.eip].op = "sti"
    BY <2>1 DEF InProgram
  <2> QED
    BY <2>2, OpPoints
<1>2. /\ Point = p /\ active = <<>> /\ Len(stack) = 0 /\ lost = "none" /\ cpu \in CpuType
      /\ cpu.cs = 8 /\ cpu.ds = 16 /\ cpu.flag = 0 /\ \A c \in Chips : pic[c].inService = {}
  BY <1>1, AtPoint DEF Sti
<1>3. Done(1) /\ UNCHANGED <<gdt, gdtr, idt, idtr, pic, saved, stack, active, lost>>
  BY <1>2 DEF Sti, tables
<1>4. Advanced(p)
  <2>1. (IF p >= 18 THEN 1 ELSE 0) = 1
    BY <1>1
  <2> QED
    BY <1>1, <1>2, <1>3, <2>1, DoneIs DEF Advanced
<1>5. DOMAIN gdt' = 0 .. 2 /\ pic' = pic /\ saved' = saved
  BY <1>3, TableTypes
<1>6. Point' = p + 1 => RemapInv'
  BY <1>1, <1>2, <1>5, RemapFar, TableTypes
<1>7. Filled(p + 1)'
  <2>1. /\ gdt[1] = SegmentEntry(Zero, Ones, 154, 207) /\ gdt[2] = SegmentEntry(Zero, Ones, 146, 207)
        /\ gdtr /\ (p > 16 => idt = Gates) /\ (idtr <=> p > 17)
    BY <1>1, <1>2, TableTypes DEF TableInv
  <2> QED
    BY <1>1, <1>3, <2>1 DEF Filled
<1>8. TrapsInv'
  BY <1>1, <1>2, <1>4, <1>5, <1>6, <1>7, AdvanceStep, TableTypes
<1> QED
  BY <1>1, <1>4, <1>8

\* idt_register_handler.
LEMMA RegisterStep ==
  ASSUME TrapsInv, RegisterHandler
  PROVE  TrapsInv' /\ cpu.eip \in 1 .. 21 /\ Advanced(cpu.eip)
<1>1. PICK p \in 1 .. 21 : p = cpu.eip /\ p \in 19 .. 21
  <2>1. InProgram("register")
    BY DEF RegisterHandler
  <2>2. cpu.eip \in 1 .. LastPoint /\ Program[cpu.eip].op = "register"
    BY <2>1 DEF InProgram
  <2> QED
    BY <2>2, OpPoints
<1>2. /\ Point = p /\ active = <<>> /\ Len(stack) = 0 /\ lost = "none" /\ cpu \in CpuType
      /\ cpu.cs = 8 /\ cpu.ds = 16 /\ cpu.flag = 1 /\ \A c \in Chips : pic[c].inService = {}
  BY <1>1, AtPoint DEF RegisterHandler
<1>3. Done(1) /\ UNCHANGED <<gdt, gdtr, idt, idtr, pic, saved, stack, active, lost>>
  BY <1>2 DEF RegisterHandler, tables
<1>4. Advanced(p)
  <2>1. (IF p >= 18 THEN 1 ELSE 0) = 1
    BY <1>1
  <2> QED
    BY <1>1, <1>2, <1>3, <2>1, DoneIs DEF Advanced
<1>5. DOMAIN gdt' = 0 .. 2 /\ pic' = pic /\ saved' = saved
  BY <1>3, TableTypes
<1>6. Point' = p + 1 => RemapInv'
  BY <1>1, <1>2, <1>5, RemapFar, TableTypes
<1>7. Filled(p + 1)'
  <2>1. /\ gdt[1] = SegmentEntry(Zero, Ones, 154, 207) /\ gdt[2] = SegmentEntry(Zero, Ones, 146, 207)
        /\ gdtr /\ (p > 16 => idt = Gates) /\ (idtr <=> p > 17)
    BY <1>1, <1>2, TableTypes DEF TableInv
  <2> QED
    BY <1>1, <1>3, <2>1 DEF Filled
<1>8. TrapsInv'
  BY <1>1, <1>2, <1>4, <1>5, <1>6, <1>7, AdvanceStep, TableTypes
<1> QED
  BY <1>1, <1>4, <1>8

\* pic_remap reads the masks before it writes anything.
LEMMA ReadMasksStep ==
  ASSUME TrapsInv, ReadMasks
  PROVE  TrapsInv' /\ cpu.eip \in 1 .. 21 /\ Advanced(cpu.eip)
<1>1. PICK p \in 1 .. 21 : p = cpu.eip /\ p = 5
  <2>1. InProgram("masks")
    BY DEF ReadMasks
  <2>2. cpu.eip \in 1 .. LastPoint /\ Program[cpu.eip].op = "masks"
    BY <2>1 DEF InProgram
  <2> QED
    BY <2>2, OpPoints
<1>2. /\ Point = p /\ active = <<>> /\ Len(stack) = 0 /\ lost = "none" /\ cpu \in CpuType
      /\ cpu.cs = 8 /\ cpu.ds = 16 /\ cpu.flag = 0 /\ \A c \in Chips : pic[c].inService = {}
  BY <1>1, AtPoint DEF ReadMasks
<1>3. Done(0) /\ UNCHANGED <<gdt, gdtr, idt, idtr, pic, stack, active, lost>>
  BY <1>2 DEF ReadMasks
<1>4. Advanced(p)
  <2>1. (IF p >= 18 THEN 1 ELSE 0) = 0
    BY <1>1
  <2> QED
    BY <1>1, <1>2, <1>3, <2>1, DoneIs DEF Advanced
<1>5. DOMAIN gdt' = 0 .. 2 /\ pic' = pic /\ saved' \in Nat \X Nat
  <2>1. pic["master"].mask \in Nat /\ pic["slave"].mask \in Nat
    BY TableTypes DEF Chips, ChipType
  <2> QED
    BY <1>3, <2>1, TableTypes DEF ReadMasks
<1>6. Point' = p + 1 => RemapInv'
  <2>1. pic["master"].next = 0 /\ pic["slave"].next = 0
    BY <1>1, <1>2, TableTypes DEF RemapInv
  <2> QED
    BY <1>1, <1>5, <2>1 DEF RemapInv
<1>7. Filled(p + 1)'
  <2>1. /\ gdt[1] = SegmentEntry(Zero, Ones, 154, 207) /\ gdt[2] = SegmentEntry(Zero, Ones, 146, 207)
        /\ gdtr /\ ~idtr
    BY <1>1, <1>2, TableTypes DEF TableInv
  <2> QED
    BY <1>1, <1>3, <2>1 DEF Filled
<1>8. TrapsInv'
  BY <1>1, <1>2, <1>4, <1>5, <1>6, <1>7, AdvanceStep, TableTypes
<1> QED
  BY <1>1, <1>4, <1>8

\* A controller is the record of its registers.
LEMMA ChipIs ==
  ASSUME NEW r \in ChipType
  PROVE  r = [offset |-> r.offset, wiring |-> r.wiring, next |-> r.next, mask |-> r.mask,
              inService |-> r.inService]
  BY DEF ChipType

\* A byte written to the data port of controller c.
LEMMA DataStep ==
  ASSUME NEW q \in [Chips -> ChipType], NEW c \in Chips, NEW b \in Nat
  PROVE  /\ Written(q, Data(c, b)) \in [Chips -> ChipType]
         /\ \A x \in Chips : x # c => Written(q, Data(c, b))[x] = q[x]
         /\ Written(q, Data(c, b))[c] = DataWritten(q[c], b)
<1>1. q[c] \in ChipType
  OBVIOUS
<1>2. DataWritten(q[c], b) \in ChipType
  BY <1>1 DEF DataWritten, ChipType
<1>3. Written(q, Data(c, b)) = [q EXCEPT ![c] = DataWritten(q[c], b)]
  BY DEF Written, Data
<1> QED
  BY <1>2, <1>3

\* The command that starts the initialization of controller c.
LEMMA StartStep ==
  ASSUME NEW q \in [Chips -> ChipType], NEW c \in Chips
  PROVE  /\ Written(q, Command(c, 17)) \in [Chips -> ChipType]
         /\ \A x \in Chips : x # c => Written(q, Command(c, 17))[x] = q[x]
         /\ Written(q, Command(c, 17))[c].next = 2 /\ Written(q, Command(c, 17))[c].inService = {}
<1>1. q[c] \in ChipType
  OBVIOUS
<1>2. PICK r \in ChipType : /\ r = [q[c] EXCEPT !.next = 2, !.mask = 0, !.inService = {}]
                            /\ r.next = 2 /\ r.inService = {}
  <2>1. PICK x \in ChipType : x = q[c]
    BY <1>1
  <2> DEFINE y == [x EXCEPT !.next = 2]
             z == [y EXCEPT !.mask = 0]
             r == [z EXCEPT !.inService = {}]
  <2>2. y \in ChipType /\ y.next = 2
    BY DEF ChipType
  <2>3. r = [x EXCEPT !.next = 2, !.mask = 0, !.inService = {}]
    OBVIOUS
  <2> HIDE DEF y
  <2>4. z \in ChipType /\ z.next = 2
    BY <2>2 DEF ChipType
  <2> HIDE DEF z
  <2>5. r \in ChipType /\ r.next = 2 /\ r.inService = {}
    BY <2>4 DEF ChipType
  <2> QED
    BY <2>1, <2>3, <2>5
<1>3. Written(q, Command(c, 17)) = [q EXCEPT ![c] = r]
  BY <1>2 DEF Written, Command, CommandWritten
<1> QED
  BY <1>2, <1>3

\* What the byte is to a controller depends on the word it waits for.
LEMMA DataFields ==
  ASSUME NEW r \in ChipType, NEW b \in Nat
  PROVE  /\ DataWritten(r, b).inService = r.inService
         /\ r.next = 2 => /\ DataWritten(r, b).next = 3 /\ DataWritten(r, b).offset = b
                          /\ DataWritten(r, b).mask = r.mask
         /\ r.next = 3 => /\ DataWritten(r, b).next = 4 /\ DataWritten(r, b).offset = r.offset
                          /\ DataWritten(r, b).mask = r.mask
         /\ r.next = 4 => /\ DataWritten(r, b).next = 0 /\ DataWritten(r, b).offset = r.offset
                          /\ DataWritten(r, b).mask = r.mask
         /\ r.next = 0 => /\ DataWritten(r, b).next = 0 /\ DataWritten(r, b).offset = r.offset
                          /\ DataWritten(r, b).mask = b
<1>1. r.next \in {0, 2, 3, 4}
  BY DEF ChipType
<1>2. CASE r.next = 0
  BY <1>2 DEF DataWritten, ChipType
<1>3. CASE r.next = 2
  <2>1. DataWritten(r, b) = [offset |-> b, wiring |-> r.wiring, next |-> 3, mask |-> r.mask,
                             inService |-> r.inService]
    <3>1. DataWritten(r, b) = [r EXCEPT !.offset = b, !.next = 3]
      BY <1>3 DEF DataWritten
    <3> QED
      BY <3>1, ChipIs
  <2> QED
    BY <1>3, <2>1
<1>4. CASE r.next = 3
  <2>1. DataWritten(r, b) = [offset |-> r.offset, wiring |-> b, next |-> 4, mask |-> r.mask,
                             inService |-> r.inService]
    <3>1. DataWritten(r, b) = [r EXCEPT !.wiring = b, !.next = 4]
      BY <1>4 DEF DataWritten
    <3> QED
      BY <3>1, ChipIs
  <2> QED
    BY <1>4, <2>1
<1>5. CASE r.next = 4
  BY <1>5 DEF DataWritten, ChipType
<1> QED
  BY <1>1, <1>2, <1>3, <1>4, <1>5

\* The writes of pic_remap.
LEMMA RemapWritesAre ==
  /\ RemapWrites[1] = Command("master", 17) /\ RemapWrites[2] = Command("slave", 17)
  /\ RemapWrites[3] = Data("master", 32) /\ RemapWrites[4] = Data("slave", 40)
  /\ RemapWrites[5] = Data("master", 4) /\ RemapWrites[6] = Data("slave", 2)
  /\ RemapWrites[7] = Data("master", 1) /\ RemapWrites[8] = Data("slave", 1)
  /\ RemapWrites[9] = Data("master", saved[1]) /\ RemapWrites[10] = Data("slave", saved[2])
  BY DEF RemapWrites

\* pic_remap's writes: each controller gets its four words in order, though the writes to the two
\* alternate, and the masks at the end.
LEMMA RemapStep ==
  ASSUME TrapsInv, Remap
  PROVE  TrapsInv' /\ cpu.eip \in 1 .. 21 /\ Advanced(cpu.eip)
<1>1. PICK p \in 1 .. 21 : p = cpu.eip /\ p \in 6 .. 15 /\ Operand = p - 5
  <2>1. InProgram("remap")
    BY DEF Remap
  <2>2. cpu.eip \in 1 .. LastPoint /\ Program[cpu.eip].op = "remap"
    BY <2>1 DEF InProgram
  <2> QED
    BY <2>2, OpPoints DEF Operand
<1>2. /\ Point = p /\ active = <<>> /\ Len(stack) = 0 /\ lost = "none" /\ cpu \in CpuType
      /\ cpu.cs = 8 /\ cpu.ds = 16 /\ cpu.flag = 0 /\ \A c \in Chips : pic[c].inService = {}
  BY <1>1, AtPoint DEF Remap
<1>3. Done(0) /\ UNCHANGED <<gdt, gdtr, idt, idtr, saved, stack, active, lost>>
  BY <1>2 DEF Remap, tables
<1>4. Advanced(p)
  <2>1. (IF p >= 18 THEN 1 ELSE 0) = 0
    BY <1>1
  <2> QED
    BY <1>1, <1>2, <1>3, <2>1, DoneIs DEF Advanced
<1>5. DOMAIN gdt' = 0 .. 2 /\ saved' = saved
  BY <1>3, TableTypes
<1>6. pic' = Written(pic, RemapWrites[p - 5])
  BY <1>1 DEF Remap
<1>7. /\ pic \in [Chips -> ChipType] /\ RemapInv /\ saved[1] \in Nat /\ saved[2] \in Nat
      /\ "master" \in Chips /\ "slave" \in Chips /\ "master" # "slave"
      /\ \A c \in Chips : c = "master" \/ c = "slave"
  BY TableTypes DEF Chips
<1>8. /\ pic["master"] \in ChipType /\ pic["slave"] \in ChipType
      /\ pic["master"].inService = {} /\ pic["slave"].inService = {}
  BY <1>2, <1>7
<1> DEFINE Right == /\ pic' \in [Chips -> ChipType]
                    /\ pic'["master"].inService = {} /\ pic'["slave"].inService = {}
                    /\ Point' = p + 1 => RemapInv'
<1>9. ASSUME p = 6 PROVE Right
  <2>1. /\ Point = 6 /\ pic["master"].next = 0 /\ pic["slave"].next = 0
    BY <1>2, <1>7, <1>9 DEF RemapInv
  <2>2. pic' = Written(pic, Command("master", 17))
    BY <1>6, <1>9, RemapWritesAre
  <2>3. /\ pic' \in [Chips -> ChipType] /\ pic'["slave"] = pic["slave"]
    BY <1>7, <2>2, StartStep
  <2>4. pic'["master"].next = 2 /\ pic'["master"].inService = {}
    BY <1>7, <2>2, StartStep
  <2>5. Point' = 7 => RemapInv'
    BY <1>5, <2>1, <2>3, <2>4 DEF RemapInv
  <2> QED
    BY <1>8, <1>9, <2>3, <2>4, <2>5
<1>10. ASSUME p = 7 PROVE Right
  <2>1. /\ Point = 7 /\ pic["master"].next = 2 /\ pic["slave"].next = 0
    BY <1>2, <1>7, <1>10 DEF RemapInv
  <2>2. pic' = Written(pic, Command("slave", 17))
    BY <1>6, <1>10, RemapWritesAre
  <2>3. /\ pic' \in [Chips -> ChipType] /\ pic'["master"] = pic["master"]
    BY <1>7, <2>2, StartStep
  <2>4. pic'["slave"].next = 2 /\ pic'["slave"].inService = {}
    BY <1>7, <2>2, StartStep
  <2>5. Point' = 8 => RemapInv'
    BY <1>5, <2>1, <2>3, <2>4 DEF RemapInv
  <2> QED
    BY <1>8, <1>10, <2>3, <2>4, <2>5
<1>11. ASSUME p = 8 PROVE Right
  <2>1. /\ Point = 8 /\ pic["master"].next = 2 /\ pic["slave"].next = 2
    BY <1>2, <1>7, <1>11 DEF RemapInv
  <2>2. pic' = Written(pic, Data("master", 32))
    BY <1>6, <1>11, RemapWritesAre
  <2>3. /\ pic' \in [Chips -> ChipType] /\ pic'["slave"] = pic["slave"]
        /\ pic'["master"] = DataWritten(pic["master"], 32)
    BY <1>7, <2>2, DataStep
  <2>4. /\ pic'["master"].next = 3 /\ pic'["master"].inService = {}
        /\ pic'["master"].offset = 32 /\ pic'["master"].mask = pic["master"].mask
    BY <1>7, <1>8, <2>1, <2>3, DataFields
  <2>5. Point' = 9 => RemapInv'
    BY <1>5, <2>1, <2>3, <2>4 DEF RemapInv
  <2> QED
    BY <1>8, <1>11, <2>3, <2>4, <2>5
<1>12. ASSUME p = 9 PROVE Right
  <2>1. /\ Point = 9 /\ pic["master"].next = 3 /\ pic["slave"].next = 2
        /\ pic["master"].offset = 32
    BY <1>2, <1>7, <1>12 DEF RemapInv
  <2>2. pic' = Written(pic, Data("slave", 40))
    BY <1>6, <1>12, RemapWritesAre
  <2>3. /\ pic' \in [Chips -> ChipType] /\ pic'["master"] = pic["master"]
        /\ pic'["slave"] = DataWritten(pic["slave"], 40)
    BY <1>7, <2>2, DataStep
  <2>4. /\ pic'["slave"].next = 3 /\ pic'["slave"].inService = {}
        /\ pic'["slave"].offset = 40 /\ pic'["slave"].mask = pic["slave"].mask
    BY <1>7, <1>8, <2>1, <2>3, DataFields
  <2>5. Point' = 10 => RemapInv'
    BY <1>5, <2>1, <2>3, <2>4 DEF RemapInv
  <2> QED
    BY <1>8, <1>12, <2>3, <2>4, <2>5
<1>13. ASSUME p = 10 PROVE Right
  <2>1. /\ Point = 10 /\ pic["master"].next = 3 /\ pic["slave"].next = 3
        /\ pic["master"].offset = 32 /\ pic["slave"].offset = 40
    BY <1>2, <1>7, <1>13 DEF RemapInv
  <2>2. pic' = Written(pic, Data("master", 4))
    BY <1>6, <1>13, RemapWritesAre
  <2>3. /\ pic' \in [Chips -> ChipType] /\ pic'["slave"] = pic["slave"]
        /\ pic'["master"] = DataWritten(pic["master"], 4)
    BY <1>7, <2>2, DataStep
  <2>4. /\ pic'["master"].next = 4 /\ pic'["master"].inService = {}
        /\ pic'["master"].offset = pic["master"].offset /\ pic'["master"].mask = pic["master"].mask
    BY <1>7, <1>8, <2>1, <2>3, DataFields
  <2>5. Point' = 11 => RemapInv'
    BY <1>5, <2>1, <2>3, <2>4 DEF RemapInv
  <2> QED
    BY <1>8, <1>13, <2>3, <2>4, <2>5
<1>14. ASSUME p = 11 PROVE Right
  <2>1. /\ Point = 11 /\ pic["master"].next = 4 /\ pic["slave"].next = 3
        /\ pic["master"].offset = 32 /\ pic["slave"].offset = 40
    BY <1>2, <1>7, <1>14 DEF RemapInv
  <2>2. pic' = Written(pic, Data("slave", 2))
    BY <1>6, <1>14, RemapWritesAre
  <2>3. /\ pic' \in [Chips -> ChipType] /\ pic'["master"] = pic["master"]
        /\ pic'["slave"] = DataWritten(pic["slave"], 2)
    BY <1>7, <2>2, DataStep
  <2>4. /\ pic'["slave"].next = 4 /\ pic'["slave"].inService = {}
        /\ pic'["slave"].offset = pic["slave"].offset /\ pic'["slave"].mask = pic["slave"].mask
    BY <1>7, <1>8, <2>1, <2>3, DataFields
  <2>5. Point' = 12 => RemapInv'
    BY <1>5, <2>1, <2>3, <2>4 DEF RemapInv
  <2> QED
    BY <1>8, <1>14, <2>3, <2>4, <2>5
<1>15. ASSUME p = 12 PROVE Right
  <2>1. /\ Point = 12 /\ pic["master"].next = 4 /\ pic["slave"].next = 4
        /\ pic["master"].offset = 32 /\ pic["slave"].offset = 40
    BY <1>2, <1>7, <1>15 DEF RemapInv
  <2>2. pic' = Written(pic, Data("master", 1))
    BY <1>6, <1>15, RemapWritesAre
  <2>3. /\ pic' \in [Chips -> ChipType] /\ pic'["slave"] = pic["slave"]
        /\ pic'["master"] = DataWritten(pic["master"], 1)
    BY <1>7, <2>2, DataStep
  <2>4. /\ pic'["master"].next = 0 /\ pic'["master"].inService = {}
        /\ pic'["master"].offset = pic["master"].offset /\ pic'["master"].mask = pic["master"].mask
    BY <1>7, <1>8, <2>1, <2>3, DataFields
  <2>5. Point' = 13 => RemapInv'
    BY <1>5, <2>1, <2>3, <2>4 DEF RemapInv
  <2> QED
    BY <1>8, <1>15, <2>3, <2>4, <2>5
<1>16. ASSUME p = 13 PROVE Right
  <2>1. /\ Point = 13 /\ pic["master"].next = 0 /\ pic["slave"].next = 4
        /\ pic["master"].offset = 32 /\ pic["slave"].offset = 40
    BY <1>2, <1>7, <1>16 DEF RemapInv
  <2>2. pic' = Written(pic, Data("slave", 1))
    BY <1>6, <1>16, RemapWritesAre
  <2>3. /\ pic' \in [Chips -> ChipType] /\ pic'["master"] = pic["master"]
        /\ pic'["slave"] = DataWritten(pic["slave"], 1)
    BY <1>7, <2>2, DataStep
  <2>4. /\ pic'["slave"].next = 0 /\ pic'["slave"].inService = {}
        /\ pic'["slave"].offset = pic["slave"].offset /\ pic'["slave"].mask = pic["slave"].mask
    BY <1>7, <1>8, <2>1, <2>3, DataFields
  <2>5. Point' = 14 => RemapInv'
    BY <1>5, <2>1, <2>3, <2>4 DEF RemapInv
  <2> QED
    BY <1>8, <1>16, <2>3, <2>4, <2>5
<1>17. ASSUME p = 14 PROVE Right
  <2>1. /\ Point = 14 /\ pic["master"].next = 0 /\ pic["slave"].next = 0
        /\ pic["master"].offset = 32 /\ pic["slave"].offset = 40
    BY <1>2, <1>7, <1>17 DEF RemapInv
  <2>2. pic' = Written(pic, Data("master", saved[1]))
    BY <1>6, <1>17, RemapWritesAre
  <2>3. /\ pic' \in [Chips -> ChipType] /\ pic'["slave"] = pic["slave"]
        /\ pic'["master"] = DataWritten(pic["master"], saved[1])
    <3>1. PICK b \in Nat : b = saved[1]
      BY <1>7
    <3>2. pic' = Written(pic, Data("master", b))
      BY <2>2, <3>1
    <3>3. /\ pic' \in [Chips -> ChipType] /\ pic'["slave"] = pic["slave"]
          /\ pic'["master"] = DataWritten(pic["master"], b)
      BY <1>7, <3>2, DataStep
    <3> QED
      BY <3>1, <3>3
  <2>4. /\ pic'["master"].next = 0 /\ pic'["master"].inService = {}
        /\ pic'["master"].offset = pic["master"].offset /\ pic'["master"].mask = saved[1]
    BY <1>7, <1>8, <2>1, <2>3, DataFields
  <2>5. Point' = 15 => RemapInv'
    BY <1>5, <2>1, <2>3, <2>4 DEF RemapInv
  <2> QED
    BY <1>8, <1>17, <2>3, <2>4, <2>5
<1>18. ASSUME p = 15 PROVE Right
  <2>1. /\ Point = 15 /\ pic["master"].next = 0 /\ pic["slave"].next = 0
        /\ pic["master"].offset = 32 /\ pic["slave"].offset = 40 /\ pic["master"].mask = saved[1]
    BY <1>2, <1>7, <1>18 DEF RemapInv
  <2>2. pic' = Written(pic, Data("slave", saved[2]))
    BY <1>6, <1>18, RemapWritesAre
  <2>3. /\ pic' \in [Chips -> ChipType] /\ pic'["master"] = pic["master"]
        /\ pic'["slave"] = DataWritten(pic["slave"], saved[2])
    <3>1. PICK b \in Nat : b = saved[2]
      BY <1>7
    <3>2. pic' = Written(pic, Data("slave", b))
      BY <2>2, <3>1
    <3>3. /\ pic' \in [Chips -> ChipType] /\ pic'["master"] = pic["master"]
          /\ pic'["slave"] = DataWritten(pic["slave"], b)
      BY <1>7, <3>2, DataStep
    <3> QED
      BY <3>1, <3>3
  <2>4. /\ pic'["slave"].next = 0 /\ pic'["slave"].inService = {}
        /\ pic'["slave"].offset = pic["slave"].offset /\ pic'["slave"].mask = saved[2]
    BY <1>7, <1>8, <2>1, <2>3, DataFields
  <2>5. Point' = 16 => RemapInv'
    BY <1>5, <2>1, <2>3, <2>4 DEF RemapInv
  <2> QED
    BY <1>8, <1>18, <2>3, <2>4, <2>5
<1>19. Right
  <2>1. p \in {6, 7, 8, 9, 10, 11, 12, 13, 14, 15}
    BY <1>1
  <2> HIDE DEF Right
  <2> QED
    BY <2>1, <1>9, <1>10, <1>11, <1>12, <1>13, <1>14, <1>15, <1>16, <1>17, <1>18
<1>20. Filled(p + 1)'
  <2>1. /\ gdt[1] = SegmentEntry(Zero, Ones, 154, 207) /\ gdt[2] = SegmentEntry(Zero, Ones, 146, 207)
        /\ gdtr /\ ~idtr
    <3>1. Point > 2 /\ Point > 3 /\ Point > 4 /\ ~(Point > 17)
      BY <1>1, <1>2, SMTT(30)
    <3> QED
      BY <3>1, TableTypes DEF TableInv
  <2> QED
    BY <1>1, <1>3, <2>1 DEF Filled
<1>21. \A c \in Chips : pic'[c].inService = {}
  BY <1>7, <1>19
<1>22. TrapsInv'
  BY <1>1, <1>2, <1>4, <1>5, <1>19, <1>20, <1>21, AdvanceStep, TableTypes
<1> QED
  BY <1>1, <1>4, <1>22

-----------------------------------------------------------------------------
(* The results.                                                            *)

\* What stage 2 and the BIOS leave satisfies the invariant.
LEMMA InitInv == Init => TrapsInv
<1> SUFFICES ASSUME Init PROVE TrapsInv
  OBVIOUS
<1>1. PICK m \in BiosMasks :
        pic = [c \in Chips |-> IF c = "master" THEN Chip(8, m[1]) ELSE Chip(112, m[2])]
  BY DEF Init
<1>2. m[1] \in Nat /\ m[2] \in Nat
  <2>1. m \in Bytes \X Bytes
    BY TrapsAssumption
  <2> QED
    BY <2>1 DEF Bytes
<1>3. Chip(8, m[1]) \in ChipType /\ Chip(112, m[2]) \in ChipType
  BY <1>2 DEF Chip, ChipType
<1>4. /\ pic \in [Chips -> ChipType] /\ pic["master"].next = 0 /\ pic["slave"].next = 0
      /\ \A c \in Chips : pic[c].inService = {}
  BY <1>1, <1>3 DEF Chips, Chip
<1>5. /\ cpu = [eip |-> 1, flag |-> 0, cs |-> 8, ds |-> 16, gpr |-> Computed(0)]
      /\ active = <<>> /\ stack = <<>> /\ lost = "none" /\ idtr = FALSE
      /\ DOMAIN gdt = 0 .. 2 /\ saved \in Nat \X Nat
  BY DEF Init
<1>6. Len(active) = 0 /\ Len(stack) = 0
  BY <1>5
<1>7. State(0) = Context(cpu.eip)
  BY <1>6 DEF State
<1>8. /\ State(0).eip = 1 /\ State(0).cs = 8 /\ State(0).ds = 16 /\ State(0).depth = 0
      /\ State(0).flag = 0
  BY <1>5, <1>6, <1>7 DEF Context
<1>9. Point = 1
  BY <1>8 DEF Point
<1>10. TypeInv
  <2>1. cpu \in CpuType
    BY <1>5, ComputedType DEF CpuType
  <2>2. stack \in Seq(Int) /\ active \in Seq(Events)
    BY <1>5
  <2> QED
    BY <1>4, <1>5, <1>6, <2>1, <2>2 DEF TypeInv
<1>11. TableInv
  BY <1>5, <1>8, <1>9, ProgramPoints DEF TableInv, NothingLost
<1>12. RemapInv
  BY <1>4, <1>9 DEF RemapInv
<1>13. NestInv /\ LineInv
  BY <1>4, <1>6 DEF NestInv, LineInv
<1> QED
  BY <1>10, <1>11, <1>12, <1>13 DEF TrapsInv

\* The code of handlers runs while an event is being handled, and leaves what kernel_main goes
\* on with alone.
LEMMA HandlersOwn ==
  ASSUME TrapsInv, active' = active, cpu.eip \notin 1 .. LastPoint
  PROVE  State(0)' = State(0)
<1>1. active # <<>> /\ active \in Seq(Events)
  BY KernelRuns DEF TrapsInv, TypeInv
<1>2. Len(active) # 0
  BY <1>1
<1> QED
  BY <1>2 DEF State

\* Every step of handlers keeps the invariant and what kernel_main goes on with.
LEMMA HandlingStep ==
  ASSUME TrapsInv, Handling
  PROVE  TrapsInv' /\ State(0)' = State(0)
<1>1. ASSUME NEW v \in Vectors, RunStub(v)
      PROVE  TrapsInv' /\ State(0)' = State(0)
  <2>1. cpu.eip \notin 1 .. LastPoint /\ active' = active
    <3>1. cpu.eip = StubAddress(v) /\ active' = active
      BY <1>1 DEF RunStub, Executes
    <3>2. v \in Nat
      BY DEF Vectors
    <3> QED
      BY <3>1, <3>2, Addresses
  <2> QED
    BY <1>1, <2>1, RunStubStep, HandlersOwn
<1>2. CASE SaveState
  <2>1. cpu.eip \notin 1 .. LastPoint /\ active' = active
    BY <1>2, Addresses DEF SaveState, Executes
  <2> QED
    BY <1>2, <2>1, SaveStateStep, HandlersOwn
<1>3. CASE DispatchHandler
  <2>1. cpu.eip \notin 1 .. LastPoint /\ active' = active
    BY <1>3, Addresses DEF DispatchHandler, Executes
  <2> QED
    BY <1>3, <2>1, DispatchStep, HandlersOwn
<1>4. CASE SendEoi
  <2>1. cpu.eip \notin 1 .. LastPoint /\ active' = active
    BY <1>4, Addresses DEF SendEoi, Executes
  <2> QED
    BY <1>4, <2>1, SendEoiStep, HandlersOwn
<1>5. CASE RestoreState
  <2>1. cpu.eip \notin 1 .. LastPoint /\ active' = active
    BY <1>5, Addresses DEF RestoreState, Executes
  <2> QED
    BY <1>5, <2>1, RestoreStateStep, HandlersOwn
<1>6. CASE ReturnFromInterrupt
  BY <1>6, ReturnStep
<1> QED
  BY <1>1, <1>2, <1>3, <1>4, <1>5, <1>6 DEF Handling

\* Events too.
LEMMA EventStep ==
  ASSUME TrapsInv, Event
  PROVE  TrapsInv' /\ State(0)' = State(0)
  BY ExceptionStep, NmiStep, IrqStep, SpuriousStep DEF Event

\* kernel_main's own steps go from one instruction to the next.
LEMMA BootStep ==
  ASSUME TrapsInv, Boot
  PROVE  TrapsInv' /\ cpu.eip \in 1 .. 21 /\ Advanced(cpu.eip)
  BY SetSegmentStep, GdtFlushStep, ReadMasksStep, RemapStep, SetGatesStep, LidtStep, StiStep,
     RegisterStep DEF Boot

\* Every step keeps the invariant.
LEMMA NextInv == TrapsInv /\ [Next]_vars => TrapsInv'
<1> SUFFICES ASSUME TrapsInv, [Next]_vars PROVE TrapsInv'
  OBVIOUS
<1>1. CASE Next
  BY <1>1, BootStep, EventStep, HandlingStep DEF Next
<1>2. CASE UNCHANGED vars
  <2>1. \A i : State(i)' = State(i)
    BY <1>2 DEF State, Context, vars
  <2>2. TypeInv' /\ RemapInv' /\ LineInv'
    BY SMTT(40), <1>2, <2>1 DEF TrapsInv, TypeInv, RemapInv, LineInv, Point, vars
  <2>3. TableInv'
    BY <1>2, <2>1 DEF TrapsInv, TableInv, NothingLost, Point, vars
  <2>4. NestInv'
    BY <1>2, <2>1 DEF TrapsInv, NestInv, Handles, Holds, vars
  <2> QED
    BY <2>2, <2>3, <2>4 DEF TrapsInv
<1> QED
  BY <1>1, <1>2

\* The invariant of the interrupt path: tables and controllers are programmed up to where
\* kernel_main is, and every handler's words are on the stack above those it has interrupted.
THEOREM TrapsInvariant == Spec => []TrapsInv
  BY InitInv, NextInv, PTL DEF Spec

\* No interrupt and no segment load is lost: only an exception or an NMI before lidt is.
THEOREM NothingLostHolds == Spec => []NothingLost
<1>1. TrapsInv => NothingLost
  BY DEF TrapsInv, TableInv
<1> QED
  BY <1>1, TrapsInvariant, PTL

\* interrupt_handler gets the frame of the event it handles, for every stub, whether or not the CPU
\* pushes an error code, and whatever the handler is nested in.
THEOREM FrameFaithfulHolds == Spec => []FrameFaithful
<1>1. TrapsInv => FrameFaithful
  <2> SUFFICES ASSUME TrapsInv, Executes(Dispatch)
               PROVE  LET e == Last(active)
                      IN  /\ InFrame("interrupt_number") = ExpectedVector(e)
                          /\ InFrame("error_code") = e.code
                          /\ InFrame("eip") = e.context.eip /\ InFrame("cs") = e.context.cs
                          /\ InFrame("eflags") = e.context.flag /\ InFrame("ds") % Half = e.context.ds
                          /\ \A r \in ToSet(Gprs) : InFrame(r) = e.context.gpr[r]
    BY DEF FrameFaithful
  <2>1. cpu.eip = Dispatch /\ cpu.eip \in InC /\ cpu.eip \notin 1 .. LastPoint
    BY Addresses DEF Executes
  <2>2. active # <<>>
    BY <2>1, KernelRuns
  <2>3. PICK k \in Nat \ {0}, e \in Events, d \in Nat : TopIs(k, e, d)
    BY <2>2, TopEvent
  <2>4. e = Last(active)
    BY <2>3 DEF TopIs, Last
  <2>5. /\ InFrame("interrupt_number") = ExpectedVector(e) /\ InFrame("error_code") = e.code
        /\ InFrame("eip") = e.context.eip /\ InFrame("cs") = e.context.cs
        /\ InFrame("eflags") = e.context.flag /\ InFrame("ds") % Half = e.context.ds
        /\ \A r \in Registers : InFrame(r) = e.context.gpr[r]
    BY <2>1, <2>3, FrameOfEvent
  <2> QED
    BY <2>4, <2>5 DEF Registers
<1> QED
  BY <1>1, TrapsInvariant, PTL

\* The controllers have no line in service when no interrupt is being handled, and once they are
\* programmed they have the masks the BIOS had left.
THEOREM LinesReleasedHolds == Spec => []LinesReleased
<1>1. TrapsInv => LinesReleased
  <2> SUFFICES ASSUME TrapsInv PROVE LinesReleased
    OBVIOUS
  <2>1. ASSUME \A i \in DOMAIN active : active[i].kind # "irq", NEW c \in Chips
        PROVE  pic[c].inService = {}
    <3>1. active # <<>> => 1 \in DOMAIN active
      BY DEF TrapsInv, TypeInv
    <3> QED
      BY <2>1, <3>1 DEF TrapsInv, LineInv
  <2>2. ASSUME idtr
        PROVE  /\ <<pic["master"].mask, pic["slave"].mask>> = saved
               /\ \A c \in Chips : pic[c].next = 0
    <3>1. Point > 17 /\ Point \in Int
      BY <2>2, ProgramPoints DEF TrapsInv, TableInv
    <3>2. /\ pic["master"].mask = saved[1] /\ pic["slave"].mask = saved[2]
          /\ pic["master"].next = 0 /\ pic["slave"].next = 0
      BY <3>1 DEF TrapsInv, RemapInv
    <3>3. saved = <<saved[1], saved[2]>>
      BY TableTypes
    <3> QED
      BY <3>2, <3>3 DEF Chips
  <2> QED
    BY <2>1, <2>2 DEF LinesReleased
<1> QED
  BY <1>1, TrapsInvariant, PTL

\* Own is what kernel_main goes on with.
LEMMA OwnIs == TrapsInv => Own = State(0)
<1> SUFFICES ASSUME TrapsInv PROVE Own = State(0)
  OBVIOUS
<1>1. active \in Seq(Events)
  BY DEF TrapsInv, TypeInv
<1>2. Len(active) = 0 <=> active = <<>>
  BY <1>1
<1> QED
  BY <1>2 DEF Own, State

\* kernel_main runs as Straight says, one instruction after the other, whatever events come:
\* interrupts are transparent to its registers, its flag, its data segment and its stack.
THEOREM TransparentHolds == Spec => Transparent
<1>1. Init => Uninterrupted!Init
  <2> SUFFICES ASSUME Init PROVE Uninterrupted!Init
    OBVIOUS
  <2>1. Own = [eip |-> 1, flag |-> 0, cs |-> 8, ds |-> 16, gpr |-> Computed(0), depth |-> Len(stack)]
        /\ Len(stack) = 0
    BY DEF Init, Own, Context
  <2>2. Own.eip = 1 /\ Own.flag = 0 /\ Own.ds = 16 /\ Own.gpr = Computed(0) /\ Own.depth = 0
    BY <2>1
  <2> QED
    BY <2>2 DEF Uninterrupted!Init
<1>2. TrapsInv /\ TrapsInv' /\ [Next]_vars =>
        [Uninterrupted!Advance]_<<Own.eip, Own.gpr, Own.flag, Own.ds, Own.depth>>
  <2> SUFFICES ASSUME TrapsInv, TrapsInv', [Next]_vars
               PROVE  [Uninterrupted!Advance]_<<Own.eip, Own.gpr, Own.flag, Own.ds, Own.depth>>
    OBVIOUS
  <2>1. Own = State(0) /\ Own' = State(0)'
    <3>1. active' \in Seq(Events)
      BY DEF TrapsInv, TypeInv
    <3>2. Len(active') = 0 <=> active' = <<>>
      BY <3>1
    <3>3. Own' = State(0)'
      BY <3>2 DEF Own, State
    <3> QED
      BY <3>3, OwnIs
  <2>2. CASE State(0)' = State(0)
    BY <2>1, <2>2
  <2>3. CASE Boot
    <3>1. PICK p \in 1 .. 21 : p = cpu.eip /\ Advanced(p)
      BY <2>3, BootStep
    <3>2. active = <<>> /\ State(0) = Context(cpu.eip) /\ cpu.ds = 16 /\ Len(stack) = 0
          /\ cpu.flag = IF p > 18 THEN 1 ELSE 0
      BY SMTT(40), <3>1, KernelRuns, ProgramPoints
    <3>3. Own.eip = p /\ Own.flag = (IF p > 18 THEN 1 ELSE 0) /\ Own.ds = 16 /\ Own.depth = 0
      BY <2>1, <3>1, <3>2 DEF Context
    <3>4. Own' = Context(cpu.eip)'
      BY <3>1, <3>2 DEF Own, Advanced
    <3>5. /\ Own'.eip = p + 1 /\ (Own'.flag = IF p >= 18 THEN 1 ELSE 0) /\ Own'.ds = 16
          /\ Own'.gpr = Computed(p) /\ Own'.depth = 0
      BY <3>1, <3>2, <3>4 DEF Context, Advanced
    <3>6. p < LastPoint /\ StiPoint = 18
      BY ProgramPoints, StiPointIs
    <3>7. Own'.flag = IF Own.eip = StiPoint THEN 1 ELSE Own.flag
      BY <3>3, <3>5, <3>6
    <3>8. Uninterrupted!Advance
      BY <3>3, <3>5, <3>6, <3>7 DEF Uninterrupted!Advance
    <3> QED
      BY <3>8
  <2>4. CASE UNCHANGED vars
    <3>1. State(0)' = State(0)
      BY <2>4 DEF State, Context, vars
    <3> QED
      BY <2>2, <3>1
  <2> QED
    BY <2>2, <2>3, <2>4, EventStep, HandlingStep DEF Next
<1> QED
  BY <1>1, <1>2, TrapsInvariant, PTL DEF Spec, Transparent, Uninterrupted!Spec
=============================================================================
