---------------------------- MODULE PrintfProofs ----------------------------
(***************************************************************************)
(* Printf: serial_init leaves the serial port in the state the other end   *)
(* expects, no byte that callers of serial_printf write is lost, and every *)
(* call prints what its format and its arguments mean.                     *)
(***************************************************************************)
EXTENDS Printf, FiniteSetTheorems, SequenceTheorems, WellFoundedInduction, TLAPS

\* There are no more threads than bytes in the FIFO.
FewThreads == IsFiniteSet(Threads) /\ Cardinality(Threads) <= FifoDepth

\* The registers of the serial port as the BIOS may leave them, and as serial_init does.
BiosUart == [dlab : {0, 1}, divisor : {<<12, 0>>}, format : {3}, fifo : {0, 1}]
LineUart == [dlab |-> 0, divisor |-> <<3, 0>>, format |-> 3, fifo |-> 1]

\* serial_init sets the line up, and nobody prints before it.
LineInv ==
  /\ busy \in [Threads -> BOOLEAN] /\ polled \in [Threads -> BOOLEAN]
  /\ ready \in BOOLEAN
  /\ DOMAIN todo = Threads
  /\ ready => uart = LineUart
  /\ ~ready => /\ uart \in BiosUart
               /\ \A t \in Threads : ~busy[t] /\ todo[t] = <<>> /\ ~polled[t]

\* The threads that have seen an empty transmitter and not yet written.
Polled == {t \in Threads : polled[t]}

IsSequence(s) == \E S : s \in Seq(S)

\* What waits in the FIFO and what may still be written to it come from different threads,
\* because a thread polls only when the FIFO is empty.
FifoInv ==
  /\ IsSequence(port) /\ sent \in Nat /\ sent <= Len(port)
  /\ Len(port) - sent + Cardinality(Polled) <= Cardinality(Threads)
  /\ ~overrun

-----------------------------------------------------------------------------
(* serial_init.                                                            *)

\* Which register a write goes to.
LEMMA WhichRegister ==
  ASSUME NEW u, NEW w
  PROVE  /\ w.reg = 3 => Written(u, w) = SetLine(u, w.byte)
         /\ w.reg = 2 => Written(u, w) = SetFifo(u, w.byte)
         /\ w.reg = 4 => Written(u, w) = u
         /\ w.reg = 1 /\ u.dlab # 1 => Written(u, w) = u
         /\ w.reg = 0 /\ u.dlab = 1 => Written(u, w) = SetDivisor(u, 1, w.byte)
         /\ w.reg = 1 /\ u.dlab = 1 => Written(u, w) = SetDivisor(u, 2, w.byte)
BY DEF Written

Uart(d, v, f, e) == [dlab |-> d, divisor |-> v, format |-> f, fifo |-> e]

\* The registers after the writes, one by one.
Steps(u) ==
  LET u1 == Written(u, RegWrite(1, 0))
      u2 == Written(u1, RegWrite(3, 128))
      u3 == Written(u2, RegWrite(0, 3))
      u4 == Written(u3, RegWrite(1, 0))
      u5 == Written(u4, RegWrite(3, 3))
      u6 == Written(u5, RegWrite(2, 199))
      u7 == Written(u6, RegWrite(4, 11))
  IN  <<u1, u2, u3, u4, u5, u6, u7>>

\* serial_init has seven writes.
LEMMA SevenWrites ==
  /\ Len(InitWrites) = 7
  /\ InitWrites[1] = RegWrite(1, 0) /\ InitWrites[2] = RegWrite(3, 128)
  /\ InitWrites[3] = RegWrite(0, 3) /\ InitWrites[4] = RegWrite(1, 0)
  /\ InitWrites[5] = RegWrite(3, 3) /\ InitWrites[6] = RegWrite(2, 199)
  /\ InitWrites[7] = RegWrite(4, 11)
BY DEF InitWrites

\* The recursion of Programmed has a solution, so it may be unfolded.
LEMMA ProgrammedUnfold ==
  /\ Programmed[0] = uart
  /\ \A k \in 1 .. 7 : Programmed[k] = Written(Programmed[k - 1], InitWrites[k])
<1> DEFINE Sol(f) == f = [k \in 0 .. Len(InitWrites) |->
                           IF k = 0 THEN uart ELSE Written(f[k - 1], InitWrites[k])]
           g == [k \in 0 .. 7 |-> IF k = 0 THEN uart ELSE Steps(uart)[k]]
           h == [k \in 0 .. 7 |-> IF k = 0 THEN uart ELSE Written(g[k - 1], InitWrites[k])]
<1>1. ASSUME NEW k \in 0 .. 7 PROVE g[k] = h[k]
  <2>1. CASE k = 0
    BY <2>1
  <2>2. CASE k = 1
    BY <2>2, SevenWrites DEF Steps
  <2>3. CASE k = 2
    BY <2>3, SevenWrites DEF Steps
  <2>4. CASE k = 3
    BY <2>4, SevenWrites DEF Steps
  <2>5. CASE k = 4
    BY <2>5, SevenWrites DEF Steps
  <2>6. CASE k = 5
    BY <2>6, SevenWrites DEF Steps
  <2>7. CASE k = 6
    BY <2>7, SevenWrites DEF Steps
  <2>8. CASE k = 7
    BY <2>8, SevenWrites DEF Steps
  <2> QED
    BY <2>1, <2>2, <2>3, <2>4, <2>5, <2>6, <2>7, <2>8
<1>2. g = h
  BY <1>1
<1>3. Sol(g)
  BY <1>2, SevenWrites
<1>4. Programmed = CHOOSE f : Sol(f)
  BY DEF Programmed
<1> HIDE DEF g
<1>5. Sol(Programmed)
  BY <1>3, <1>4
<1>6. Programmed = [k \in 0 .. 7 |->
                     IF k = 0 THEN uart ELSE Written(Programmed[k - 1], InitWrites[k])]
  BY <1>5, SevenWrites
<1> QED
  BY <1>6

\* The register and the byte of a write.
LEMMA WriteParts == \A r, b : RegWrite(r, b).reg = r /\ RegWrite(r, b).byte = b
BY DEF RegWrite

\* What a write of byte b to each register does.
LEMMA WriteLine ==
  ASSUME NEW d, NEW v, NEW f, NEW e, NEW b \in Nat
  PROVE  Written(Uart(d, v, f, e), RegWrite(3, b)) = Uart(b \div 128, v, b % 128, e)
<1>1. Written(Uart(d, v, f, e), RegWrite(3, b)) = SetLine(Uart(d, v, f, e), b)
  BY WhichRegister, WriteParts
<1>2. SetLine(Uart(d, v, f, e), b) = Uart(b \div 128, v, b % 128, e)
  <2>1. ASSUME NEW x, NEW y
        PROVE  [Uart(d, v, f, e) EXCEPT !.dlab = x, !.format = y] = Uart(x, v, y, e)
    <3>1. [Uart(d, v, f, e) EXCEPT !.dlab = x] = Uart(x, v, f, e)
      BY DEF Uart
    <3>2. [Uart(x, v, f, e) EXCEPT !.format = y] = Uart(x, v, y, e)
      BY DEF Uart
    <3>3. [Uart(d, v, f, e) EXCEPT !.dlab = x, !.format = y] =
            [[Uart(d, v, f, e) EXCEPT !.dlab = x] EXCEPT !.format = y]
      OBVIOUS
    <3> QED
      BY <3>1, <3>2, <3>3
  <2> QED
    BY <2>1 DEF SetLine
<1> QED
  BY <1>1, <1>2

\* The FIFO control register.
LEMMA WriteFifo ==
  ASSUME NEW d, NEW v, NEW f, NEW e, NEW b
  PROVE  Written(Uart(d, v, f, e), RegWrite(2, b)) = Uart(d, v, f, b % 2)
<1>1. Written(Uart(d, v, f, e), RegWrite(2, b)) = SetFifo(Uart(d, v, f, e), b)
  BY WhichRegister, WriteParts
<1>2. SetFifo(Uart(d, v, f, e), b) = Uart(d, v, f, b % 2)
  BY DEF SetFifo, Uart
<1> QED
  BY <1>1, <1>2

\* The modem control register, which the model leaves out.
LEMMA WriteModem ==
  ASSUME NEW d, NEW v, NEW f, NEW e, NEW b
  PROVE  Written(Uart(d, v, f, e), RegWrite(4, b)) = Uart(d, v, f, e)
BY WhichRegister, WriteParts

\* DLAB of a record of registers.
LEMMA DlabOf == \A d, v, f, e : Uart(d, v, f, e).dlab = d
BY DEF Uart

\* Register 1 without DLAB is the interrupt enable register.
LEMMA WriteInterrupts ==
  ASSUME NEW v, NEW f, NEW e, NEW b
  PROVE  Written(Uart(0, v, f, e), RegWrite(1, b)) = Uart(0, v, f, e)
<1>1. Uart(0, v, f, e).dlab # 1
  BY DlabOf
<1> QED
  BY <1>1, WhichRegister, WriteParts

\* The low half of the divisor.
LEMMA WriteLow ==
  ASSUME NEW v, NEW f, NEW e, NEW b
  PROVE  Written(Uart(1, v, f, e), RegWrite(0, b)) = Uart(1, [v EXCEPT ![1] = b], f, e)
<1>1. Written(Uart(1, v, f, e), RegWrite(0, b)) = SetDivisor(Uart(1, v, f, e), 1, b)
  BY WhichRegister, WriteParts, DlabOf
<1>2. SetDivisor(Uart(1, v, f, e), 1, b) = Uart(1, [v EXCEPT ![1] = b], f, e)
  BY DEF SetDivisor, Uart
<1> QED
  BY <1>1, <1>2

\* The high half.
LEMMA WriteHigh ==
  ASSUME NEW v, NEW f, NEW e, NEW b
  PROVE  Written(Uart(1, v, f, e), RegWrite(1, b)) = Uart(1, [v EXCEPT ![2] = b], f, e)
<1>1. Written(Uart(1, v, f, e), RegWrite(1, b)) = SetDivisor(Uart(1, v, f, e), 2, b)
  BY WhichRegister, WriteParts, DlabOf
<1>2. SetDivisor(Uart(1, v, f, e), 2, b) = Uart(1, [v EXCEPT ![2] = b], f, e)
  BY DEF SetDivisor, Uart
<1> QED
  BY <1>1, <1>2

\* serial_init sets the divisor and the format and enables the FIFO, whatever the BIOS has left,
\* DLAB included.
LEMMA SetUp == uart \in BiosUart => Programmed[Len(InitWrites)] = LineUart
<1> SUFFICES ASSUME uart \in BiosUart PROVE Programmed[7] = LineUart
  BY SevenWrites
<1>0. PICK d \in {0, 1}, e \in {0, 1} : uart = Uart(d, <<12, 0>>, 3, e)
  BY DEF BiosUart, Uart
<1>1. PICK v : uart = Uart(d, v, 3, e) /\ v = <<12, 0>>
  BY <1>0
<1>2. PICK w : w = [v EXCEPT ![1] = 3] /\ w = <<3, 0>>
  <2>1. [<<12, 0>> EXCEPT ![1] = 3] = <<3, 0>>
    OBVIOUS
  <2> QED
    BY <1>1, <2>1
<1>3. [v EXCEPT ![2] = 0] = v /\ [w EXCEPT ![2] = 0] = w
  <2>1. [<<12, 0>> EXCEPT ![2] = 0] = <<12, 0>> /\ [<<3, 0>> EXCEPT ![2] = 0] = <<3, 0>>
    OBVIOUS
  <2> QED
    BY <1>1, <1>2, <2>1
<1>4. Programmed[1] = Uart(d, v, 3, e)
  <2>1. Programmed[1] = Written(Uart(d, v, 3, e), RegWrite(1, 0))
    BY <1>1, ProgrammedUnfold, SevenWrites
  <2>2. CASE d = 1
    BY <1>3, <2>1, <2>2, WriteHigh
  <2>3. CASE d = 0
    BY <2>1, <2>3, WriteInterrupts
  <2> QED
    BY <2>2, <2>3
<1>5. Programmed[2] = Uart(1, v, 0, e)
  <2>1. Programmed[2] = Written(Uart(d, v, 3, e), RegWrite(3, 128))
    BY <1>4, ProgrammedUnfold, SevenWrites
  <2>2. Programmed[2] = Uart(128 \div 128, v, 128 % 128, e)
    BY <2>1, WriteLine
  <2>3. 128 \div 128 = 1 /\ 128 % 128 = 0
    OBVIOUS
  <2> QED
    BY <2>2, <2>3
<1>6. Programmed[3] = Uart(1, w, 0, e)
  <2>1. Programmed[3] = Written(Uart(1, v, 0, e), RegWrite(0, 3))
    BY <1>5, ProgrammedUnfold, SevenWrites
  <2>2. Written(Uart(1, v, 0, e), RegWrite(0, 3)) = Uart(1, [v EXCEPT ![1] = 3], 0, e)
    BY WriteLow
  <2> QED
    BY <1>2, <2>1, <2>2
<1>7. Programmed[4] = Uart(1, w, 0, e)
  <2>1. Programmed[4] = Written(Uart(1, w, 0, e), RegWrite(1, 0))
    BY <1>6, ProgrammedUnfold, SevenWrites
  <2> QED
    BY <1>3, <2>1, WriteHigh
<1>8. Programmed[5] = Uart(0, w, 3, e)
  <2>1. Programmed[5] = Written(Uart(1, w, 0, e), RegWrite(3, 3))
    BY <1>7, ProgrammedUnfold, SevenWrites
  <2>2. Programmed[5] = Uart(3 \div 128, w, 3 % 128, e)
    BY <2>1, WriteLine
  <2>3. 3 \div 128 = 0 /\ 3 % 128 = 3
    OBVIOUS
  <2> QED
    BY <2>2, <2>3
<1>9. Programmed[6] = Uart(0, w, 3, 1)
  <2>1. Programmed[6] = Written(Uart(0, w, 3, e), RegWrite(2, 199))
    BY <1>8, ProgrammedUnfold, SevenWrites
  <2>2. Programmed[6] = Uart(0, w, 3, 199 % 2)
    BY <2>1, WriteFifo
  <2>3. 199 % 2 = 1
    OBVIOUS
  <2> QED
    BY <2>2, <2>3
<1>10. Programmed[7] = Uart(0, w, 3, 1)
  <2>1. Programmed[7] = Written(Uart(0, w, 3, 1), RegWrite(4, 11))
    BY <1>9, ProgrammedUnfold, SevenWrites
  <2> QED
    BY <2>1, WriteModem
<1> QED
  BY <1>2, <1>10 DEF LineUart, Uart

-----------------------------------------------------------------------------
(* The line.                                                               *)

\* Every step keeps the line set up.
LEMMA LineStep == LineInv /\ [Next]_vars => LineInv'
<1> SUFFICES ASSUME LineInv, [Next]_vars PROVE LineInv'
  OBVIOUS
<1>1. CASE UNCHANGED vars
  BY <1>1 DEF vars, LineInv
<1>2. CASE SerialInit
  BY <1>2, SetUp DEF SerialInit, LineInv
<1>3. CASE Transmit
  BY <1>3 DEF Transmit, LineInv, local
<1>4. ASSUME NEW t \in Threads, NEW c \in Calls, Call(t, c) PROVE LineInv'
  BY <1>4 DEF Call, LineInv
<1>5. ASSUME NEW t \in Threads, Scan(t) PROVE LineInv'
  <2>1. ready /\ DOMAIN todo' = Threads
    BY <1>5 DEF Scan, LineInv
  <2> QED
    BY <1>5, <2>1 DEF Scan, LineInv
<1>6. ASSUME NEW t \in Threads, Return(t) PROVE LineInv'
  BY <1>6 DEF Return, LineInv
<1>7. ASSUME NEW t \in Threads, PutTerminal(t) PROVE LineInv'
  BY <1>7 DEF PutTerminal, LineInv, local
<1>8. ASSUME NEW t \in Threads, PollSerial(t) PROVE LineInv'
  BY <1>8 DEF PollSerial, LineInv, local
<1>9. ASSUME NEW t \in Threads, PutSerial(t) PROVE LineInv'
  BY <1>9 DEF PutSerial, LineInv, local
<1> QED
  BY <1>1, <1>2, <1>3, <1>4, <1>5, <1>6, <1>7, <1>8, <1>9 DEF Next, Progress

\* From serial_init on the line has the speed and the format of the other end, and its FIFO is
\* enabled; before it nobody prints.
THEOREM LineInvariant == Spec => []LineInv
<1>1. Init => LineInv
  BY DEF Init, LineInv, BiosUart
<1> QED
  BY <1>1, LineStep, PTL DEF Spec

-----------------------------------------------------------------------------
(* The FIFO.                                                               *)

\* A sequence with one element more.
LEMMA AppendSequence ==
  ASSUME NEW s, IsSequence(s), NEW e
  PROVE  IsSequence(Append(s, e)) /\ Len(s) \in Nat /\ Len(Append(s, e)) = Len(s) + 1
<1>1. PICK S : s \in Seq(S)
  BY DEF IsSequence
<1>2. s \in Seq(S \cup {e})
  BY <1>1
<1>3. Append(s, e) \in Seq(S \cup {e})
  BY <1>2
<1> QED
  BY <1>2, <1>3 DEF IsSequence

\* Every step keeps the account of the FIFO.
LEMMA FifoStep ==
  ASSUME FewThreads
  PROVE  LineInv /\ FifoInv /\ [Next]_vars => FifoInv'
<1> SUFFICES ASSUME LineInv, FifoInv, [Next]_vars PROVE FifoInv'
  OBVIOUS
<1>1. PICK n \in Nat, c \in Nat, p \in Nat :
        n = Cardinality(Threads) /\ c = Len(port) /\ p = Cardinality(Polled) /\ n <= FifoDepth
  <2>1. IsFiniteSet(Polled) /\ IsFiniteSet(Threads)
    BY FS_Subset DEF FewThreads, Polled
  <2>2. Len(port) \in Nat
    BY AppendSequence DEF FifoInv
  <2> QED
    BY <2>1, <2>2, FS_CardinalityType DEF FewThreads
<1>2. sent \in Nat /\ sent <= c /\ c - sent + p <= n /\ ~overrun
  BY <1>1 DEF FifoInv
<1>3. ASSUME UNCHANGED <<polled, port, sent, overrun>> PROVE FifoInv'
  BY <1>3 DEF FifoInv, Polled
<1>4. CASE UNCHANGED vars
  BY <1>3, <1>4 DEF vars
<1>5. CASE SerialInit
  BY <1>3, <1>5 DEF SerialInit
<1>6. CASE Transmit
  <2>1. sent < c /\ sent' = sent + 1 /\ port' = port /\ overrun' = overrun /\ Polled' = Polled
    BY <1>1, <1>6 DEF Transmit, Polled
  <2> QED
    BY <1>1, <1>2, <2>1 DEF FifoInv
<1>7. ASSUME NEW t \in Threads, NEW cl \in Calls, Call(t, cl) PROVE FifoInv'
  BY <1>3, <1>7 DEF Call
<1>8. ASSUME NEW t \in Threads, Scan(t) \/ Return(t) \/ PutTerminal(t) PROVE FifoInv'
  BY <1>3, <1>8 DEF Scan, Return, PutTerminal
<1>9. ASSUME NEW t \in Threads, PollSerial(t) PROVE FifoInv'
  <2>1. sent = c /\ sent' = sent /\ port' = port /\ overrun' = overrun
    BY <1>1, <1>9 DEF PollSerial, TransmitEmpty
  <2>2. PICK q \in Nat : q = Cardinality(Polled') /\ q <= n
    <3>1. Polled' \subseteq Threads
      BY DEF Polled
    <3> QED
      BY <1>1, <3>1, FS_Subset, FS_CardinalityType DEF FewThreads
  <2> QED
    BY <1>1, <1>2, <2>1, <2>2 DEF FifoInv
<1>10. ASSUME NEW t \in Threads, PutSerial(t) PROVE FifoInv'
  <2>1. /\ polled[t] /\ sent' = sent /\ overrun' = (overrun \/ Len(port) - sent >= Depth)
        /\ polled' = [polled EXCEPT ![t] = FALSE]
    BY <1>10 DEF PutSerial
  <2>2. ready /\ uart = LineUart
    BY <2>1 DEF LineInv
  <2>3. Depth = FifoDepth /\ uart.dlab = 0
    BY <2>2 DEF Depth, LineUart
  <2>4. t \in Polled /\ Polled' = Polled \ {t}
    BY <2>1 DEF Polled, LineInv
  <2>5. p - 1 \in Nat /\ Cardinality(Polled') = p - 1
    <3>1. IsFiniteSet(Polled) /\ IsFiniteSet(Polled \ {t})
      BY FS_Subset, FS_RemoveElement DEF FewThreads, Polled
    <3>2. Cardinality(Polled \ {t}) = Cardinality(Polled) - 1
      BY <2>4, <3>1, FS_RemoveElement
    <3>3. Cardinality(Polled \ {t}) \in Nat
      BY <3>1, FS_CardinalityType
    <3> QED
      BY <1>1, <2>4, <3>2, <3>3
  <2>6. ~overrun'
    <3>1. FifoDepth \in Nat
      BY PrintfAssumption
    <3>2. ~(c - sent >= FifoDepth)
      BY <1>1, <1>2, <2>5, <3>1
    <3> QED
      BY <1>1, <1>2, <2>1, <2>3, <3>2
  <2>7. port' = Append(port, <<t, Arrives(Head(todo[t]))>>)
    BY <1>10, <2>3 DEF PutSerial
  <2>8. IsSequence(port') /\ Len(port') = c + 1
    <3>1. IsSequence(port)
      BY DEF FifoInv
    <3> QED
      BY <1>1, <2>7, <3>1, AppendSequence
  <2>9. Cardinality(Threads)' = n
    BY <1>1
  <2> QED
    BY <1>1, <1>2, <2>1, <2>5, <2>6, <2>8, <2>9 DEF FifoInv
<1> QED
  BY <1>4, <1>5, <1>6, <1>7, <1>8, <1>9, <1>10 DEF Next, Progress

\* What waits in the FIFO and the threads about to write are no more than there are threads.
THEOREM FifoInvariant == ASSUME FewThreads PROVE Spec => []FifoInv
<1>1. Init => FifoInv
  <2> SUFFICES ASSUME Init PROVE FifoInv
    OBVIOUS
  <2>1. Polled = {} /\ Cardinality(Polled) = 0
    BY FS_EmptySet DEF Init, Polled
  <2>2. Cardinality(Threads) \in Nat
    BY FS_CardinalityType DEF FewThreads
  <2>3. IsSequence(<<>>)
    BY DEF IsSequence
  <2> QED
    BY <2>1, <2>2, <2>3 DEF Init, FifoInv
<1>2. LineInv /\ FifoInv /\ [Next]_vars => FifoInv'
  BY FifoStep
<1> QED
  BY <1>1, <1>2, LineInvariant, PTL DEF Spec

\* No byte is lost in the serial port, however callers of serial_putchar interleave between
\* the poll and the write, as long as there are no more of them than bytes in the FIFO: property NoOverrun.
THEOREM NoOverrunHolds == ASSUME FewThreads PROVE Spec => []NoOverrun
<1>1. FifoInv => NoOverrun
  BY DEF FifoInv, NoOverrun
<1> QED
  BY <1>1, FifoInvariant, PTL

-----------------------------------------------------------------------------
(* Induction, on sets of numbers.                                          *)

\* A set that has every number whose predecessors it has is all of them.
LEMMA StrongInduction ==
  ASSUME NEW S, \A k \in Nat : (\A j \in Nat : j < k => j \in S) => k \in S
  PROVE  \A k \in Nat : k \in S
<1> DEFINE Bad == {k \in Nat : k \notin S}
<1>1. SUFFICES ASSUME Bad # {} PROVE FALSE
  OBVIOUS
<1>2. Bad \in SUBSET Nat
  OBVIOUS
<1>3. PICK n \in Bad : \A m \in Bad : ~(<<m, n>> \in OpToRel(<, Nat))
  BY <1>1, <1>2, NatLessThanWellFounded, WFMin
<1>4. \A m \in Bad : ~(m < n)
  BY <1>2, <1>3 DEF OpToRel
<1>5. \A j \in Nat : j < n => j \in S
  BY <1>4
<1> QED
  BY <1>3, <1>5

\* A set that has 0 and with each number the next is all of them.
LEMMA Induction ==
  ASSUME NEW S, 0 \in S, \A k \in Nat : k \in S => k + 1 \in S
  PROVE  \A k \in Nat : k \in S
<1>1. ASSUME NEW k \in Nat, \A j \in Nat : j < k => j \in S PROVE k \in S
  <2>1. CASE k = 0
    BY <2>1
  <2>2. CASE k # 0
    <3>1. k - 1 \in Nat /\ k - 1 < k /\ (k - 1) + 1 = k
      BY <2>2
    <3> QED
      BY <1>1, <3>1
  <2> QED
    BY <2>1, <2>2
<1> QED
  BY <1>1, StrongInduction

-----------------------------------------------------------------------------
(* Concatenation.                                                          *)

\* What the parts up to each add up to.
Joins(f, n, parts) ==
  f = [i \in 1 .. n |-> IF i = 1 THEN parts[i] ELSE f[i - 1] \o parts[i]]
CanJoin(n, parts) == \E f : Joins(f, n, parts)

\* The recursion of FlattenSeq has a solution.
LEMMA JoinsExist == ASSUME NEW parts PROVE \A n \in Nat : CanJoin(n, parts)
<1> DEFINE S == {n \in Nat : CanJoin(n, parts)}
<1>1. 0 \in S
  <2> DEFINE f == [i \in 1 .. 0 |-> parts[i]]
  <2>1. Joins(f, 0, parts)
    BY DEF Joins
  <2> QED
    BY <2>1 DEF CanJoin
<1>2. ASSUME NEW k \in Nat, k \in S PROVE k + 1 \in S
  <2>1. PICK f : Joins(f, k, parts)
    BY <1>2 DEF CanJoin
  <2> DEFINE new == IF k = 0 THEN parts[1] ELSE f[k] \o parts[k + 1]
             g == [i \in 1 .. k + 1 |-> IF i = k + 1 THEN new ELSE f[i]]
             h == [i \in 1 .. k + 1 |-> IF i = 1 THEN parts[i] ELSE g[i - 1] \o parts[i]]
  <2>2. ASSUME NEW i \in 1 .. k + 1 PROVE g[i] = h[i]
    <3>1. CASE i = k + 1 /\ k = 0
      BY <3>1
    <3>2. CASE i = k + 1 /\ k # 0
      <4>1. i - 1 = k /\ k \in 1 .. k + 1 /\ i # 1 /\ k # k + 1
        BY <3>2
      <4> QED
        BY <3>2, <4>1
    <3>3. CASE i # k + 1
      <4>1. i \in 1 .. k
        BY <3>3
      <4>2. g[i] = f[i]
        BY <3>3
      <4>3. CASE i = 1
        BY <2>1, <4>1, <4>2, <4>3 DEF Joins
      <4>4. CASE i # 1
        <5>1. i - 1 \in 1 .. k + 1 /\ i - 1 # k + 1
          BY <4>1, <4>4
        <5>2. g[i - 1] = f[i - 1]
          BY <5>1
        <5>3. f[i] = f[i - 1] \o parts[i]
          BY <2>1, <4>1, <4>4 DEF Joins
        <5> QED
          BY <4>2, <4>4, <5>2, <5>3
      <4> QED
        BY <4>3, <4>4
    <3> QED
      BY <3>1, <3>2, <3>3
  <2>3. g = h
    BY <2>2
  <2>4. Joins(g, k + 1, parts)
    BY <2>3 DEF Joins
  <2> QED
    BY <2>4 DEF CanJoin
<1>3. \A k \in Nat : k \in S
  BY <1>1, <1>2, Induction
<1> QED
  BY <1>3

\* FlattenSeq adds the parts up one by one.
LEMMA FlattenUnfold ==
  ASSUME NEW parts, NEW n \in Nat, n = Len(parts), n > 0
  PROVE  \E f : /\ FlattenSeq(parts) = f[n] /\ f[1] = parts[1]
                /\ \A i \in 2 .. n : f[i] = f[i - 1] \o parts[i]
<1> DEFINE f == CHOOSE g : Joins(g, n, parts)
<1>1. Joins(f, n, parts)
  BY JoinsExist DEF CanJoin
<1>2. FlattenSeq(parts) = f[n]
  BY DEF FlattenSeq, Joins
<1> HIDE DEF f
<1>3. f = [i \in 1 .. n |-> IF i = 1 THEN parts[i] ELSE f[i - 1] \o parts[i]]
  BY <1>1 DEF Joins
<1>4. f[1] = parts[1]
  BY <1>3
<1>5. ASSUME NEW i \in 2 .. n PROVE f[i] = f[i - 1] \o parts[i]
  <2>1. i \in 1 .. n /\ i # 1
    OBVIOUS
  <2>2. f[i] = IF i = 1 THEN parts[i] ELSE f[i - 1] \o parts[i]
    BY <1>3, <2>1, Zenon
  <2> QED
    BY <2>1, <2>2
<1> QED
  BY <1>2, <1>4, <1>5


\* The sums of the first parts.
IsSum(f, parts) ==
  /\ f[0] = <<>> /\ FlattenSeq(parts) = f[Len(parts)]
  /\ \A i \in 1 .. Len(parts) : f[i] = f[i - 1] \o parts[i]
Sum(parts) == CHOOSE f : IsSum(f, parts)

\* FlattenSeq is the last of these sums.
LEMMA SumExists ==
  ASSUME NEW V, NEW parts \in Seq(Seq(V))
  PROVE  IsSum(Sum(parts), parts)
<1>1. PICK n \in Nat : n = Len(parts)
  OBVIOUS
<1>2. CASE n = 0
  <2> DEFINE g == [i \in 0 .. 0 |-> <<>>]
  <2>1. FlattenSeq(parts) = <<>>
    <3>1. parts = <<>>
      BY <1>1, <1>2, EmptySeq
    <3>2. FlattenSeq(parts) = parts
      BY <1>1, <1>2 DEF FlattenSeq
    <3> QED
      BY <3>1, <3>2
  <2>2. IsSum(g, parts)
    BY <1>1, <1>2, <2>1 DEF IsSum
  <2> QED
    BY <2>2 DEF Sum
<1>3. CASE n > 0
  <2>1. PICK f : /\ FlattenSeq(parts) = f[n] /\ f[1] = parts[1]
                 /\ \A i \in 2 .. n : f[i] = f[i - 1] \o parts[i]
    BY <1>1, <1>3, FlattenUnfold
  <2> DEFINE g == [i \in 0 .. n |-> IF i = 0 THEN <<>> ELSE f[i]]
  <2>2. g[0] = <<>> /\ g[n] = f[n]
    BY <1>3
  <2>3. ASSUME NEW i \in 1 .. n PROVE g[i] = g[i - 1] \o parts[i]
    <3>1. CASE i = 1
      <4>1. parts[1] \in Seq(V)
        BY <1>1, <3>1
      <4>2. <<>> \o parts[1] = parts[1]
        BY <4>1, ConcatEmptySeq
      <4>3. g[1] = f[1] /\ g[0] = <<>> /\ f[1] = parts[1] /\ i - 1 = 0
        BY <2>1, <3>1
      <4> HIDE DEF g
      <4>4. g[1] = g[0] \o parts[1]
        BY <4>2, <4>3
      <4> QED
        BY <3>1, <4>3, <4>4
    <3>2. CASE i # 1
      <4>1. i \in 2 .. n /\ i - 1 \in 0 .. n /\ i - 1 # 0 /\ i # 0 /\ i \in 0 .. n
        BY <3>2
      <4>2. g[i] = f[i] /\ g[i - 1] = f[i - 1]
        BY <4>1
      <4> QED
        BY <2>1, <4>1, <4>2
    <3> QED
      BY <3>1, <3>2
  <2> HIDE DEF g
  <2>4. IsSum(g, parts)
    BY <1>1, <2>1, <2>2, <2>3 DEF IsSum
  <2> QED
    BY <2>4 DEF Sum
<1> QED
  BY <1>2, <1>3

\* A sum of sequences is a sequence.
LEMMA SumType ==
  ASSUME NEW V, NEW parts \in Seq(Seq(V)), NEW f, IsSum(f, parts)
  PROVE  \A i \in 0 .. Len(parts) : f[i] \in Seq(V)
<1>1. PICK n \in Nat : n = Len(parts)
  OBVIOUS
<1> DEFINE S == {i \in Nat : i <= n => f[i] \in Seq(V)}
<1>2. 0 \in S
  <2>1. f[0] = <<>>
    BY DEF IsSum
  <2>2. f[0] \in Seq(V)
    BY <2>1, EmptySeq
  <2> QED
    BY <2>2
<1>3. ASSUME NEW k \in Nat, k \in S PROVE k + 1 \in S
  <2>1. SUFFICES ASSUME k + 1 <= n PROVE f[k + 1] \in Seq(V)
    OBVIOUS
  <2>2. f[k] \in Seq(V)
    BY <1>3, <2>1
  <2>3. k + 1 \in 1 .. n /\ (k + 1) - 1 = k
    BY <2>1
  <2>4. f[k + 1] = f[k] \o parts[k + 1]
    BY <1>1, <2>3 DEF IsSum
  <2>5. parts[k + 1] \in Seq(V)
    BY <1>1, <2>3
  <2> QED
    BY <2>2, <2>4, <2>5, ConcatProperties
<1>4. \A k \in Nat : k \in S
  BY <1>2, <1>3, Induction
<1> QED
  BY <1>1, <1>4

\* Two lists of parts agree in the first n.
Agree(p, q, n) ==
  /\ Len(p) \in Nat /\ Len(q) \in Nat /\ n <= Len(p) /\ n <= Len(q)
  /\ \A i \in 1 .. n : p[i] = q[i]

\* The sums of two lists of parts agree as far as the parts do.
LEMMA SumUnique ==
  ASSUME NEW n \in Nat, NEW p, NEW q, NEW f, NEW g, Agree(p, q, n), IsSum(f, p), IsSum(g, q)
  PROVE  \A i \in 0 .. n : f[i] = g[i]
<1> DEFINE S == {i \in Nat : i <= n => f[i] = g[i]}
<1>1. 0 \in S
  BY DEF IsSum
<1>2. ASSUME NEW k \in Nat, k \in S PROVE k + 1 \in S
  <2>1. SUFFICES ASSUME k + 1 <= n PROVE f[k + 1] = g[k + 1]
    OBVIOUS
  <2>2. k + 1 \in 1 .. n /\ k + 1 \in 1 .. Len(p) /\ k + 1 \in 1 .. Len(q) /\ (k + 1) - 1 = k
    BY <2>1 DEF Agree
  <2>3. f[k + 1] = f[k] \o p[k + 1] /\ g[k + 1] = g[k] \o q[k + 1]
    BY <2>2 DEF IsSum
  <2>4. f[k] = g[k]
    BY <1>2, <2>1
  <2>5. p[k + 1] = q[k + 1]
    BY <2>2 DEF Agree
  <2> QED
    BY <2>3, <2>4, <2>5
<1>3. \A k \in Nat : k \in S
  BY <1>1, <1>2, Induction
<1> QED
  BY <1>3

\* Parts, and one part more.
LEMMA FlattenAppend ==
  ASSUME NEW V, NEW s \in Seq(Seq(V)), NEW r \in Seq(Seq(V)), Len(r) = Len(s) + 1,
         \A i \in 1 .. Len(s) : r[i] = s[i]
  PROVE  FlattenSeq(s) \in Seq(V) /\ FlattenSeq(r) = FlattenSeq(s) \o r[Len(r)]
<1>1. PICK n \in Nat : n = Len(s) /\ Len(r) = n + 1
  OBVIOUS
<1>2. PICK f, g : IsSum(f, s) /\ IsSum(g, r)
  BY SumExists
<1>3. \A i \in 0 .. n : f[i] = g[i]
  <2>1. Agree(s, r, n)
    BY <1>1 DEF Agree
  <2> QED
    BY <1>2, <2>1, SumUnique
<1>4. n + 1 \in 1 .. n + 1 /\ (n + 1) - 1 = n /\ n \in 0 .. n
  BY <1>1
<1>5. g[n + 1] = g[n] \o r[n + 1] /\ FlattenSeq(r) = g[n + 1] /\ FlattenSeq(s) = f[n]
  BY <1>1, <1>2, <1>4 DEF IsSum
<1>6. f[n] \in Seq(V)
  BY <1>1, <1>2, <1>4, SumType
<1> QED
  BY <1>1, <1>3, <1>4, <1>5, <1>6

\* Each sum is the beginning of the whole.
LEMMA SumBegins ==
  ASSUME NEW V, NEW parts \in Seq(Seq(V)), NEW f, IsSum(f, parts)
  PROVE  \A k \in 0 .. Len(parts) :
           /\ Len(f[k]) \in Nat /\ Len(FlattenSeq(parts)) \in Nat
           /\ Len(f[k]) <= Len(FlattenSeq(parts))
           /\ \A i \in 1 .. Len(f[k]) : FlattenSeq(parts)[i] = f[k][i]
<1>1. PICK n \in Nat : n = Len(parts)
  OBVIOUS
<1>2. \A i \in 0 .. n : f[i] \in Seq(V)
  BY <1>1, SumType
<1> DEFINE Begins(k) == Len(f[k]) <= Len(f[n]) /\ \A i \in 1 .. Len(f[k]) : f[n][i] = f[k][i]
           S == {j \in Nat : j <= n => Begins(n - j)}
<1>3. 0 \in S
  <2>1. Len(f[n]) \in Nat
    BY <1>1, <1>2
  <2> QED
    BY <1>1, <2>1
<1>4. ASSUME NEW j \in Nat, j \in S PROVE j + 1 \in S
  <2>1. SUFFICES ASSUME j + 1 <= n PROVE Begins(n - (j + 1))
    OBVIOUS
  <2>2. PICK k \in 0 .. n : k = n - (j + 1)
    <3>1. n - (j + 1) \in 0 .. n
      BY <1>1, <2>1
    <3> HIDE DEF Begins
    <3> QED
      BY <3>1
  <2>3. k + 1 \in 1 .. n /\ k + 1 \in 0 .. n /\ k + 1 = n - j /\ (k + 1) - 1 = k /\ n \in 0 .. n
    BY <1>1, <2>1, <2>2
  <2>4. Begins(k + 1)
    BY <1>4, <2>1, <2>3
  <2>5. PICK x \in Seq(V), y \in Seq(V) : x = f[k] /\ y = parts[k + 1]
    BY <1>1, <1>2, <2>2, <2>3
  <2>6. PICK z \in Seq(V), w \in Seq(V) : z = f[k + 1] /\ w = f[n]
    BY <1>2, <2>3
  <2>7. z = x \o y
    BY <1>1, <2>3, <2>5, <2>6 DEF IsSum
  <2>8. Len(z) <= Len(w) /\ \A i \in 1 .. Len(z) : w[i] = z[i]
    BY <2>4, <2>6
  <2>9. Len(x) <= Len(z) /\ \A i \in 1 .. Len(x) : z[i] = x[i]
    BY <2>7, ConcatProperties
  <2>10. Len(x) <= Len(w) /\ \A i \in 1 .. Len(x) : w[i] = x[i]
    BY <2>8, <2>9
  <2> QED
    BY <2>2, <2>5, <2>6, <2>10
<1>5. \A j \in Nat : j \in S
  BY <1>3, <1>4, Induction
<1>6. ASSUME NEW k \in 0 .. n PROVE Begins(k)
  <2>1. n - k \in Nat /\ n - k <= n /\ n - (n - k) = k
    OBVIOUS
  <2>2. n - k \in S
    BY <1>5, <2>1
  <2> QED
    BY <2>1, <2>2
<1>7. FlattenSeq(parts) = f[n] /\ n \in 0 .. n
  BY <1>1 DEF IsSum
<1> QED
  BY <1>1, <1>2, <1>6, <1>7

-----------------------------------------------------------------------------
(* Numerals.                                                               *)

Bases == {10, 16}
Digits == {Digit[d] : d \in 1 .. 16}

\* The last digit of a number, and the number without it.
LEMMA LastDigit ==
  ASSUME NEW base \in Bases, NEW k \in Nat, k # 0
  PROVE  /\ k \div base \in Nat /\ k \div base < k /\ k % base \in 0 .. base - 1
         /\ (k % base) + 1 \in 1 .. base
<1>1. CASE base = 10
  BY <1>1
<1>2. CASE base = 16
  BY <1>2
<1> QED
  BY <1>1, <1>2 DEF Bases

\* A number with one digit more.
LEMMA MoreDigit ==
  ASSUME NEW base \in Bases, NEW a \in Nat, NEW d \in 0 .. base - 1
  PROVE  /\ a * base + d \in Nat /\ a <= a * base + d
         /\ a # 0 \/ d # 0 => a * base + d # 0
         /\ (a * base + d) \div base = a /\ (a * base + d) % base = d
<1>1. CASE base = 10
  BY <1>1
<1>2. CASE base = 16
  BY <1>2
<1> QED
  BY <1>1, <1>2 DEF Bases

\* The digits differ.
LEMMA DigitsDiffer ==
  ASSUME NEW base \in Bases, NEW i \in 1 .. base, NEW j \in 1 .. base, Digit[i] = Digit[j]
  PROVE  i = j
<1>1. i \in 1 .. 16 /\ j \in 1 .. 16
  BY DEF Bases
<1> QED
  BY <1>1 DEF Digit

\* The digits of a base are digits.
LEMMA DigitTypes ==
  ASSUME NEW base \in Bases, NEW i \in 1 .. base
  PROVE  Digit[i] \in Digits
BY DEF Bases, Digits

\* The value of a digit is its place in the table.
LEMMA DigitValueIs ==
  ASSUME NEW base \in Bases, NEW i \in 1 .. base
  PROVE  DigitValue(Digit[i], base) = i - 1
<1> DEFINE k == CHOOSE j \in 1 .. base : Digit[j] = Digit[i]
<1>1. k \in 1 .. base /\ Digit[k] = Digit[i]
  OBVIOUS
<1>2. k = i
  BY <1>1, DigitsDiffer
<1> QED
  BY <1>2 DEF DigitValue

\* A solution of the recursion of Buffer.
Buffers(f, m, base) ==
  f = [k \in 0 .. m |-> IF k = 0 THEN <<>> ELSE <<Digit[(k % base) + 1]>> \o f[k \div base]]
HasBuffers(m, base) == \E f : Buffers(f, m, base)

\* The recursion of Buffer has a solution.
LEMMA BuffersExist == ASSUME NEW base \in Bases PROVE \A m \in Nat : HasBuffers(m, base)
<1> DEFINE S == {m \in Nat : HasBuffers(m, base)}
<1>1. 0 \in S
  <2> DEFINE f == [k \in 0 .. 0 |-> <<>>]
             h == [k \in 0 .. 0 |-> IF k = 0 THEN <<>> ELSE <<Digit[(k % base) + 1]>> \o f[k \div base]]
  <2>1. f = h
    <3>1. \A k \in 0 .. 0 : k = 0
      OBVIOUS
    <3>2. \A k \in 0 .. 0 : f[k] = h[k]
      BY <3>1
    <3> QED
      BY <3>2
  <2>2. Buffers(f, 0, base)
    BY <2>1 DEF Buffers
  <2> QED
    BY <2>2 DEF HasBuffers
<1>2. ASSUME NEW m \in Nat, m \in S PROVE m + 1 \in S
  <2>1. PICK f : Buffers(f, m, base)
    BY <1>2 DEF HasBuffers
  <2> DEFINE new == <<Digit[((m + 1) % base) + 1]>> \o f[(m + 1) \div base]
             g == [k \in 0 .. m + 1 |-> IF k = m + 1 THEN new ELSE f[k]]
             h == [k \in 0 .. m + 1 |->
                    IF k = 0 THEN <<>> ELSE <<Digit[(k % base) + 1]>> \o g[k \div base]]
  <2>2. ASSUME NEW k \in 0 .. m + 1 PROVE g[k] = h[k]
    <3>1. CASE k = 0
      <4>1. 0 \in 0 .. m /\ k # m + 1
        BY <3>1
      <4>2. g[k] = f[0] /\ f[0] = <<>>
        BY <2>1, <3>1, <4>1 DEF Buffers
      <4> QED
        BY <3>1, <4>2
    <3>2. CASE k # 0
      <4>1. PICK q \in Nat : q = k \div base /\ q < k
        BY <3>2, LastDigit
      <4>2. q \in 0 .. m /\ q \in 0 .. m + 1 /\ q # m + 1
        BY <4>1
      <4>3. g[q] = f[q]
        BY <4>2
      <4>4. CASE k = m + 1
        <5>1. g[k] = <<Digit[(k % base) + 1]>> \o f[q]
          BY <4>1, <4>4
        <5>2. h[k] = <<Digit[(k % base) + 1]>> \o g[q]
          BY <3>2, <4>1
        <5> HIDE DEF g, h
        <5> QED
          BY <4>3, <5>1, <5>2
      <4>5. CASE k # m + 1
        <5>1. k \in 0 .. m
          BY <4>5
        <5>2. f[k] = <<Digit[(k % base) + 1]>> \o f[q]
          BY <2>1, <3>2, <4>1, <5>1 DEF Buffers
        <5>3. h[k] = <<Digit[(k % base) + 1]>> \o g[q]
          BY <3>2, <4>1
        <5>4. g[k] = f[k]
          BY <4>5
        <5> HIDE DEF g, h
        <5> QED
          BY <4>3, <5>2, <5>3, <5>4
      <4> QED
        BY <4>4, <4>5
    <3> QED
      BY <3>1, <3>2
  <2>3. g = h
    BY <2>2
  <2>4. Buffers(g, m + 1, base)
    BY <2>3 DEF Buffers
  <2> QED
    BY <2>4 DEF HasBuffers
<1>3. \A m \in Nat : m \in S
  BY <1>1, <1>2, Induction
<1> QED
  BY <1>3

\* The buffer of a number holds its last digit and the buffer of the number without it.
LEMMA BufferUnfold ==
  ASSUME NEW base \in Bases, NEW n \in Words
  PROVE  Buffer(n, base) = IF n = 0 THEN <<>>
                           ELSE <<Digit[(n % base) + 1]>> \o Buffer(n \div base, base)
<1>1. PICK m \in Nat : m = Word - 1
  BY PrintfAssumption
<1> DEFINE f == CHOOSE g : Buffers(g, m, base)
<1>2. Buffers(f, m, base)
  BY BuffersExist DEF HasBuffers
<1>3. \A k : Buffer(k, base) = f[k]
  BY <1>1 DEF Buffer, Buffers, Words
<1> HIDE DEF f
<1>4. f[n] = IF n = 0 THEN <<>> ELSE <<Digit[(n % base) + 1]>> \o f[n \div base]
  BY <1>1, <1>2 DEF Buffers, Words
<1> QED
  BY <1>3, <1>4

\* The buffer holds digits.
LEMMA BufferType ==
  ASSUME NEW base \in Bases
  PROVE  \A n \in Words : Buffer(n, base) \in Seq(Digits)
<1> DEFINE S == {n \in Nat : n \in Words => Buffer(n, base) \in Seq(Digits)}
<1>1. ASSUME NEW n \in Nat, \A j \in Nat : j < n => j \in S PROVE n \in S
  <2>1. SUFFICES ASSUME n \in Words PROVE Buffer(n, base) \in Seq(Digits)
    OBVIOUS
  <2>2. CASE n = 0
    BY <2>1, <2>2, BufferUnfold, EmptySeq
  <2>3. CASE n # 0
    <3>1. PICK q \in Nat : q = n \div base /\ q < n
      BY <2>3, LastDigit
    <3>2. q \in Words
      BY <2>1, <3>1, PrintfAssumption DEF Words
    <3>3. Buffer(q, base) \in Seq(Digits)
      BY <1>1, <3>1, <3>2
    <3>4. <<Digit[(n % base) + 1]>> \in Seq(Digits)
      <4>1. Digit[(n % base) + 1] \in Digits
        BY <2>3, LastDigit, DigitTypes
      <4> QED
        BY <4>1
    <3>5. Buffer(n, base) = <<Digit[(n % base) + 1]>> \o Buffer(q, base)
      BY <2>1, <2>3, <3>1, BufferUnfold
    <3> QED
      BY <3>3, <3>4, <3>5, ConcatProperties
  <2> QED
    BY <2>2, <2>3
<1>2. \A n \in Nat : n \in S
  BY <1>1, StrongInduction
<1> QED
  BY <1>2, PrintfAssumption DEF Words

\* A solution of the recursion of Value.
Values(v, s, n, base) ==
  v = [i \in 0 .. n |-> IF i = 0 THEN 0 ELSE v[i - 1] * base + DigitValue(s[i], base)]
HasValues(s, n, base) == \E v : Values(v, s, n, base)

\* The recursion of Value has a solution.
LEMMA ValuesExist == ASSUME NEW s, NEW base PROVE \A n \in Nat : HasValues(s, n, base)
<1> DEFINE S == {n \in Nat : HasValues(s, n, base)}
<1>1. 0 \in S
  <2> DEFINE f == [i \in 0 .. 0 |-> 0]
             h == [i \in 0 .. 0 |-> IF i = 0 THEN 0 ELSE f[i - 1] * base + DigitValue(s[i], base)]
  <2>1. f = h
    <3>1. \A i \in 0 .. 0 : i = 0
      OBVIOUS
    <3>2. \A i \in 0 .. 0 : f[i] = h[i]
      BY <3>1
    <3> QED
      BY <3>2
  <2>2. Values(f, s, 0, base)
    BY <2>1 DEF Values
  <2> QED
    BY <2>2 DEF HasValues
<1>2. ASSUME NEW n \in Nat, n \in S PROVE n + 1 \in S
  <2>1. PICK f : Values(f, s, n, base)
    BY <1>2 DEF HasValues
  <2> DEFINE new == f[n] * base + DigitValue(s[n + 1], base)
             g == [i \in 0 .. n + 1 |-> IF i = n + 1 THEN new ELSE f[i]]
             h == [i \in 0 .. n + 1 |->
                    IF i = 0 THEN 0 ELSE g[i - 1] * base + DigitValue(s[i], base)]
  <2>2. ASSUME NEW i \in 0 .. n + 1 PROVE g[i] = h[i]
    <3>1. CASE i = 0
      <4>1. 0 \in 0 .. n /\ i # n + 1
        BY <3>1
      <4>2. g[i] = f[0] /\ f[0] = 0
        BY <2>1, <3>1, <4>1 DEF Values
      <4> QED
        BY <3>1, <4>2
    <3>2. CASE i # 0
      <4>1. PICK j \in 0 .. n : j = i - 1
        BY <3>2
      <4>2. j \in 0 .. n + 1 /\ j # n + 1
        OBVIOUS
      <4>3. g[j] = f[j]
        BY <4>2
      <4>4. h[i] = g[j] * base + DigitValue(s[i], base)
        BY <3>2, <4>1
      <4>5. CASE i = n + 1
        <5>1. j = n
          BY <4>1, <4>5
        <5>2. g[i] = f[j] * base + DigitValue(s[i], base)
          BY <4>5, <5>1
        <5> HIDE DEF g, h
        <5> QED
          BY <4>3, <4>4, <5>2
      <4>6. CASE i # n + 1
        <5>1. i \in 0 .. n
          BY <4>6
        <5>2. f[i] = f[j] * base + DigitValue(s[i], base)
          BY <2>1, <3>2, <4>1, <5>1 DEF Values
        <5>3. g[i] = f[i]
          BY <4>6
        <5> HIDE DEF g, h
        <5> QED
          BY <4>3, <4>4, <5>2, <5>3
      <4> QED
        BY <4>5, <4>6
    <3> QED
      BY <3>1, <3>2
  <2>3. g = h
    BY <2>2
  <2>4. Values(g, s, n + 1, base)
    BY <2>3 DEF Values
  <2> QED
    BY <2>4 DEF HasValues
<1>3. \A n \in Nat : n \in S
  BY <1>1, <1>2, Induction
<1> QED
  BY <1>3

\* The value of a sequence of digits, digit by digit.
LEMMA ValueUnfold ==
  ASSUME NEW s, NEW base, NEW n \in Nat, n = Len(s)
  PROVE  \E v : /\ Value(s, base) = v[n] /\ v[0] = 0
                /\ \A i \in 1 .. n : v[i] = v[i - 1] * base + DigitValue(s[i], base)
<1> DEFINE v == CHOOSE w : Values(w, s, n, base)
<1>1. Values(v, s, n, base)
  BY ValuesExist DEF HasValues
<1>2. Value(s, base) = v[n]
  BY DEF Value, Values
<1> HIDE DEF v
<1>3. v[0] = 0
  BY <1>1 DEF Values
<1>4. ASSUME NEW i \in 1 .. n PROVE v[i] = v[i - 1] * base + DigitValue(s[i], base)
  <2>1. i \in 0 .. n /\ i # 0
    OBVIOUS
  <2> QED
    BY <1>1, <2>1 DEF Values
<1> QED
  BY <1>2, <1>3, <1>4

\* What a numeral is.
LEMMA NumeralShape ==
  ASSUME NEW base \in Bases, NEW room \in Nat, NEW s \in Numerals(base, room)
  PROVE  /\ s \in Seq(Digits) /\ Len(s) \in 1 .. room
         /\ \A i \in 1 .. Len(s) : \E d \in 1 .. base : s[i] = Digit[d]
         /\ Len(s) > 1 => s[1] # "0"
<1>1. PICK k \in 1 .. room : s \in [1 .. k -> {Digit[d] : d \in 1 .. base}]
  BY DEF Numerals
<1>2. {Digit[d] : d \in 1 .. base} \subseteq Digits
  BY DEF Bases, Digits
<1>3. s \in [1 .. k -> Digits] /\ k \in Nat
  BY <1>1, <1>2
<1>4. s \in Seq(Digits) /\ Len(s) = k
  BY <1>3
<1>5. \A i \in 1 .. k : \E d \in 1 .. base : s[i] = Digit[d]
  BY <1>1
<1>6. Len(s) > 1 => s[1] # "0"
  BY DEF Numerals
<1> QED
  BY <1>4, <1>5, <1>6

\* What print_uint puts is the only numeral of a number.
LEMMA NumeralUnique ==
  ASSUME NEW base \in Bases, NEW room \in Nat, NEW s \in Numerals(base, room),
         NEW n \in Words, Value(s, base) = n
  PROVE  /\ Converted(n, base) = s /\ s \in Seq(Digits)
         /\ Len(Buffer(n, base)) <= room
<1>1. PICK len \in Nat : len = Len(s) /\ len \in 1 .. room
  BY NumeralShape
<1>2. PICK v : /\ n = v[len] /\ v[0] = 0
               /\ \A i \in 1 .. len : v[i] = v[i - 1] * base + DigitValue(s[i], base)
  BY <1>1, ValueUnfold
<1>3. ASSUME NEW i \in 1 .. len
      PROVE  \E d \in 0 .. base - 1 :
               v[i] = v[i - 1] * base + d /\ s[i] = Digit[d + 1] /\ DigitValue(s[i], base) = d
  <2>1. PICK e \in 1 .. base : s[i] = Digit[e]
    BY <1>1, NumeralShape
  <2>2. PICK d \in 0 .. base - 1 : d = e - 1 /\ d + 1 = e
    BY DEF Bases
  <2>3. DigitValue(s[i], base) = d
    BY <2>1, <2>2, DigitValueIs
  <2> QED
    BY <1>2, <2>1, <2>2, <2>3
<1>4. Digit[1] = "0"
  BY DEF Digit
<1>5. CASE s[1] = "0"
  <2>1. len = 1
    BY <1>1, <1>5, NumeralShape
  <2>2. PICK d \in 0 .. base - 1 : v[1] = v[0] * base + d /\ s[1] = Digit[d + 1]
    <3>1. 1 \in 1 .. len /\ 1 - 1 = 0
      BY <2>1
    <3> QED
      BY <1>3, <3>1
  <2>3. d = 0
    <3>1. d + 1 \in 1 .. base /\ 1 \in 1 .. base
      BY DEF Bases
    <3>2. d + 1 = 1
      BY <1>4, <1>5, <2>2, <3>1, DigitsDiffer
    <3> QED
      BY <3>2
  <2>4. n = 0
    <3>1. 0 * base + 0 = 0
      BY DEF Bases
    <3> QED
      BY <1>2, <2>1, <2>2, <2>3, <3>1
  <2>5. s = <<"0">>
    <3>1. s \in Seq(Digits) /\ Len(s) = 1
      BY <1>1, <2>1, NumeralShape
    <3> QED
      BY <1>5, <3>1
  <2>6. Buffer(n, base) = <<>>
    BY <2>4, BufferUnfold
  <2> QED
    BY <1>1, <2>4, <2>5, <2>6, NumeralShape DEF Converted
<1>6. CASE s[1] # "0"
  <2> DEFINE Fits(i) ==
               /\ i > 0 => v[i] # 0
               /\ Buffer(v[i], base) \in Seq(Digits) /\ Len(Buffer(v[i], base)) = i
               /\ \A j \in 1 .. i : Buffer(v[i], base)[(i - j) + 1] = s[j]
             S == {i \in Nat : i <= len => v[i] \in Nat /\ (v[i] \in Words => Fits(i))}
  <2>1. 0 \in S
    <3>1. v[0] \in Nat
      BY <1>2
    <3>2. ASSUME v[0] \in Words PROVE Fits(0)
      <4>1. Buffer(v[0], base) = <<>>
        BY <1>2, <3>2, BufferUnfold
      <4> QED
        BY <4>1, EmptySeq
    <3> HIDE DEF Fits
    <3> QED
      BY <3>1, <3>2
  <2>2. ASSUME NEW i \in Nat, i \in S PROVE i + 1 \in S
    <3> HIDE DEF Fits
    <3>1. SUFFICES ASSUME i + 1 <= len
                   PROVE v[i + 1] \in Nat /\ (v[i + 1] \in Words => Fits(i + 1))
      OBVIOUS
    <3>2. i + 1 \in 1 .. len /\ (i + 1) - 1 = i /\ i <= len
      BY <3>1
    <3>3. PICK d \in 0 .. base - 1 : v[i + 1] = v[i] * base + d /\ s[i + 1] = Digit[d + 1]
      BY <1>3, <3>2
    <3>4. PICK a \in Nat : a = v[i]
      BY <2>2, <3>2
    <3>5. PICK b \in Nat : b = v[i + 1] /\ a <= b /\ b \div base = a /\ b % base = d
                           /\ (a # 0 \/ d # 0 => b # 0)
      BY <3>3, <3>4, MoreDigit
    <3>6. SUFFICES ASSUME b \in Words PROVE Fits(i + 1)
      BY <3>5
    <3>7. a \in Words /\ Fits(i)
      <4>1. a \in Words
        BY <3>5, <3>6, PrintfAssumption DEF Words
      <4> QED
        BY <2>2, <3>2, <3>4, <4>1
    <3>8. b # 0
      <4>1. CASE i = 0
        <5>1. s[1] = Digit[d + 1]
          BY <3>3, <4>1
        <5>2. d # 0
          BY <1>4, <1>6, <5>1
        <5> QED
          BY <3>5, <5>2
      <4>2. CASE i # 0
        BY <3>4, <3>5, <3>7, <4>2 DEF Fits
      <4> QED
        BY <4>1, <4>2
    <3>9. PICK x \in Seq(Digits) : /\ x = Buffer(a, base) /\ Len(x) = i
                                   /\ \A j \in 1 .. i : x[(i - j) + 1] = s[j]
      BY <3>4, <3>7 DEF Fits
    <3>10. PICK c \in Digits : c = s[i + 1] /\ c = Digit[d + 1]
      BY <1>1, <3>2, <3>3, NumeralShape
    <3>11. Buffer(b, base) = <<c>> \o x
      BY <3>5, <3>6, <3>8, <3>9, <3>10, BufferUnfold
    <3>12. PICK y \in Seq(Digits) : y = <<c>> \o x /\ Len(y) = i + 1 /\ y[1] = c
                                    /\ \A j \in 1 .. i : y[j + 1] = x[j]
      <4>1. <<c>> \in Seq(Digits) /\ Len(<<c>>) = 1 /\ <<c>>[1] = c
        OBVIOUS
      <4>2. PICK y \in Seq(Digits) : y = <<c>> \o x
        BY <4>1, ConcatProperties
      <4>3. Len(y) = 1 + i /\ \A j \in 1 .. 1 + i : y[j] = IF j <= 1 THEN <<c>>[j] ELSE x[j - 1]
        BY <3>9, <4>1, <4>2, ConcatProperties
      <4>4. y[1] = c
        BY <4>1, <4>3
      <4>5. ASSUME NEW j \in 1 .. i PROVE y[j + 1] = x[j]
        <5>1. j + 1 \in 1 .. 1 + i /\ ~(j + 1 <= 1) /\ (j + 1) - 1 = j
          OBVIOUS
        <5> QED
          BY <4>3, <5>1
      <4>6. Len(y) = i + 1
        BY <4>3
      <4> QED
        BY <4>2, <4>4, <4>5, <4>6, Zenon
    <3>13. ASSUME NEW j \in 1 .. i + 1 PROVE y[((i + 1) - j) + 1] = s[j]
      <4>1. CASE j = i + 1
        <5>1. ((i + 1) - j) + 1 = 1
          BY <4>1
        <5> QED
          BY <3>10, <3>12, <4>1, <5>1
      <4>2. CASE j # i + 1
        <5>1. PICK k \in 1 .. i : k = (i - j) + 1 /\ ((i + 1) - j) + 1 = k + 1 /\ j \in 1 .. i
          BY <4>2
        <5> QED
          BY <3>9, <3>12, <5>1
      <4> QED
        BY <4>1, <4>2
    <3> QED
      BY <3>5, <3>8, <3>11, <3>12, <3>13 DEF Fits
  <2>3. \A i \in Nat : i \in S
    BY <2>1, <2>2, Induction
  <2>4. Fits(len)
    <3> HIDE DEF Fits
    <3> QED
      BY <1>1, <1>2, <2>3
  <2>5. PICK y \in Seq(Digits) : /\ y = Buffer(n, base) /\ Len(y) = len /\ n # 0
                                 /\ \A j \in 1 .. len : y[(len - j) + 1] = s[j]
    BY <1>1, <1>2, <2>4
  <2>6. Reverse(y) = s
    <3>1. s \in [1 .. len -> Digits]
      BY <1>1, NumeralShape
    <3>2. Reverse(y) = [j \in 1 .. len |-> y[(len - j) + 1]]
      BY <2>5 DEF Reverse
    <3> QED
      BY <2>5, <3>1, <3>2
  <2> QED
    BY <1>1, <2>5, <2>6, NumeralShape DEF Converted
<1> QED
  BY <1>5, <1>6

\* A part p behind the parts x of a whole w; with it they are y.
PartBehind(V, x, y, p, w) ==
  /\ x \in Seq(V) /\ y \in Seq(V) /\ p \in Seq(V) /\ w \in Seq(V)
  /\ y = x \o p /\ Len(y) = Len(x) + Len(p) /\ Len(y) <= Len(w)
  /\ \A j \in 1 .. Len(p) : w[Len(x) + j] = p[j]

\* Each part is found in the whole behind the parts before it.
LEMMA PartAt ==
  ASSUME NEW V, NEW parts \in Seq(Seq(V)), NEW k \in Nat, k < Len(parts)
  PROVE  PartBehind(V, Sum(parts)[k], Sum(parts)[k + 1], parts[k + 1], FlattenSeq(parts))
<1>0. PICK x, y, p, w : /\ x = Sum(parts)[k] /\ y = Sum(parts)[k + 1] /\ p = parts[k + 1]
                        /\ w = FlattenSeq(parts)
  OBVIOUS
<1>1. PICK n \in Nat : n = Len(parts)
  OBVIOUS
<1>2. PICK f : f = Sum(parts) /\ IsSum(f, parts)
  BY SumExists
<1>3. k \in 0 .. n /\ k + 1 \in 0 .. n /\ n \in 0 .. n /\ k + 1 \in 1 .. n /\ (k + 1) - 1 = k
  BY <1>1
<1>4. \A i \in 0 .. n : f[i] \in Seq(V)
  BY <1>1, <1>2, SumType
<1>5. y = x \o p /\ w = f[n] /\ x = f[k] /\ y = f[k + 1]
  BY <1>0, <1>1, <1>2, <1>3 DEF IsSum
<1>6. x \in Seq(V) /\ y \in Seq(V) /\ w \in Seq(V) /\ p \in Seq(V)
  BY <1>0, <1>1, <1>3, <1>4, <1>5
<1>7. Len(y) <= Len(w) /\ \A i \in 1 .. Len(y) : w[i] = y[i]
  <2>1. \A i \in 0 .. Len(parts) : /\ Len(f[i]) <= Len(FlattenSeq(parts))
                                    /\ \A j \in 1 .. Len(f[i]) : FlattenSeq(parts)[j] = f[i][j]
    BY <1>2, SumBegins
  <2>2. k + 1 \in 0 .. Len(parts)
    BY <1>1, <1>3
  <2> QED
    BY <1>0, <1>5, <2>1, <2>2, Zenon
<1>8. PICK lx \in Nat, lp \in Nat : lx = Len(x) /\ lp = Len(p)
  BY <1>6
<1>9. Len(y) = lx + lp /\ \A i \in 1 .. lx + lp : y[i] = IF i <= lx THEN x[i] ELSE p[i - lx]
  <2>1. /\ Len(x \o p) = Len(x) + Len(p)
        /\ \A i \in 1 .. Len(x) + Len(p) : (x \o p)[i] = IF i <= Len(x) THEN x[i] ELSE p[i - Len(x)]
    BY <1>6, ConcatProperties
  <2> QED
    BY <1>5, <1>8, <2>1, Zenon
<1>10. ASSUME NEW j \in 1 .. lp PROVE w[lx + j] = p[j]
  <2>1. lx + j \in 1 .. lx + lp /\ ~(lx + j <= lx) /\ (lx + j) - lx = j
    OBVIOUS
  <2> QED
    BY <1>7, <1>9, <2>1
<1>11. PartBehind(V, x, y, p, w)
  BY <1>5, <1>6, <1>7, <1>8, <1>9, <1>10 DEF PartBehind
<1> QED
  BY <1>0, <1>11

\* The first sum is empty and the last is the whole.
LEMMA SumEnds ==
  ASSUME NEW V, NEW parts \in Seq(Seq(V))
  PROVE  /\ Sum(parts)[0] = <<>> /\ Sum(parts)[Len(parts)] = FlattenSeq(parts)
         /\ FlattenSeq(parts) \in Seq(V)
<1>1. IsSum(Sum(parts), parts)
  BY SumExists
<1>2. Len(parts) \in 0 .. Len(parts)
  OBVIOUS
<1>3. Sum(parts)[Len(parts)] \in Seq(V)
  BY <1>1, <1>2, SumType
<1> QED
  BY <1>1, <1>3 DEF IsSum

-----------------------------------------------------------------------------
(* What callers pass.                                                      *)

\* Every word has a numeral that fits the buffer.
RoomForWords ==
  \A n \in Words : /\ \E s \in Numerals(10, DecRoom) : Value(s, 10) = n
                   /\ \E s \in Numerals(16, HexRoom) : Value(s, 16) = n

\* An item that a caller may pass, with characters from a set: a literal is neither the
\* start of a directive nor the end of the string.
PlainItem(it, chars) ==
  /\ it.kind \in {"lit", "d", "u", "x", "s", "%"} /\ it.num \in Words
  /\ it.kind = "lit" => it.char \in chars /\ it.char # "%" /\ it.char # "end"
  /\ it.kind = "s" => it.str \in Seq(chars)

PlainCall(c, chars) ==
  /\ c.sink \in {"terminal", "serial"} /\ IsSequence(c.items)
  /\ \A i \in 1 .. Len(c.items) : PlainItem(c.items[i], chars)

PlainCalls(chars) ==
  /\ Digits \subseteq chars /\ "%" \in chars /\ "-" \in chars
  /\ \A c \in Calls : PlainCall(c, chars)

\* A numeral is what the conversion gives.
LEMMA NumeralsAreConverted ==
  ASSUME RoomForWords, NEW n \in Words
  PROVE  /\ DecNumeral[n] = Converted(n, 10) /\ HexNumeral[n] = Converted(n, 16)
         /\ Converted(n, 10) \in Seq(Digits) /\ Converted(n, 16) \in Seq(Digits)
         /\ Len(Buffer(n, 10)) <= DecRoom /\ Len(Buffer(n, 16)) <= HexRoom
<1>1. 10 \in Bases /\ 16 \in Bases /\ DecRoom \in Nat /\ HexRoom \in Nat
  BY PrintfAssumption DEF Bases
<1>2. PICK d \in Numerals(10, DecRoom) : d = DecNumeral[n] /\ Value(d, 10) = n
  <2>1. \E s \in Numerals(10, DecRoom) : Value(s, 10) = n
    BY DEF RoomForWords
  <2>2. DecNumeral[n] = CHOOSE s \in Numerals(10, DecRoom) : Value(s, 10) = n
    BY DEF DecNumeral
  <2> QED
    BY <2>1, <2>2, Zenon
<1>3. PICK h \in Numerals(16, HexRoom) : h = HexNumeral[n] /\ Value(h, 16) = n
  <2>1. \E s \in Numerals(16, HexRoom) : Value(s, 16) = n
    BY DEF RoomForWords
  <2>2. HexNumeral[n] = CHOOSE s \in Numerals(16, HexRoom) : Value(s, 16) = n
    BY DEF HexNumeral
  <2> QED
    BY <2>1, <2>2, Zenon
<1>4. DecNumeral[n] = Converted(n, 10) /\ Converted(n, 10) \in Seq(Digits)
      /\ Len(Buffer(n, 10)) <= DecRoom
  BY <1>1, <1>2, NumeralUnique
<1>5. HexNumeral[n] = Converted(n, 16) /\ Converted(n, 16) \in Seq(Digits)
      /\ Len(Buffer(n, 16)) <= HexRoom
  BY <1>1, <1>3, NumeralUnique
<1> QED
  BY <1>4, <1>5

\* The meaning of an item, by its kind.
LEMMA MeaningOf ==
  ASSUME RoomForWords, NEW chars, PlainCalls(chars), NEW sink, NEW it, PlainItem(it, chars)
  PROVE  /\ ItemMeaning(it, sink) \in Seq(chars)
         /\ it.kind = "d" => ItemMeaning(it, sink) = Signed(it.num)
         /\ it.kind = "u" => ItemMeaning(it, sink) = Converted(it.num, 10)
         /\ it.kind = "x" => ItemMeaning(it, sink) = Converted(it.num, 16)
         /\ it.kind = "s" => ItemMeaning(it, sink) = it.str
         /\ it.kind = "%" => ItemMeaning(it, sink) = IF sink = "terminal" THEN <<"%", "%">> ELSE <<"%">>
         /\ it.kind = "lit" => ItemMeaning(it, sink) = <<it.char>>
<1>1. PICK n \in Words : n = it.num
  BY DEF PlainItem
<1>2. \A m \in Words : Converted(m, 10) \in Seq(chars) /\ Converted(m, 16) \in Seq(chars)
  BY NumeralsAreConverted, SeqMonotonic DEF PlainCalls
<1>3. CASE it.kind = "d"
  <2>1. ItemMeaning(it, sink) = IF n >= Word \div 2 THEN <<"-">> \o DecNumeral[Word - n] ELSE DecNumeral[n]
    BY <1>1, <1>3 DEF ItemMeaning
  <2>2. CASE n >= Word \div 2
    <3>1. Word - n \in Words /\ (Word - n) % Word = Word - n
      BY <2>2, PrintfAssumption DEF Words
    <3>2. Signed(n) = <<"-">> \o Converted(Word - n, 10)
      BY <2>2, <3>1 DEF Signed
    <3>3. <<"-">> \in Seq(chars)
      BY DEF PlainCalls
    <3>4. ItemMeaning(it, sink) = Signed(n)
      BY <2>1, <2>2, <3>1, <3>2, NumeralsAreConverted
    <3>5. Signed(n) \in Seq(chars)
      BY <1>2, <3>1, <3>2, <3>3, ConcatProperties
    <3> QED
      BY <1>1, <1>3, <3>4, <3>5
  <2>3. CASE ~(n >= Word \div 2)
    <3>1. Signed(n) = Converted(n, 10)
      BY <2>3 DEF Signed
    <3>2. ItemMeaning(it, sink) = Signed(n)
      BY <2>1, <2>3, <3>1, NumeralsAreConverted
    <3> QED
      BY <1>1, <1>2, <1>3, <3>1, <3>2
  <2> QED
    BY <2>2, <2>3
<1>4. CASE it.kind = "u"
  <2>1. ItemMeaning(it, sink) = DecNumeral[n]
    BY <1>1, <1>4 DEF ItemMeaning
  <2> QED
    BY <1>1, <1>2, <1>4, <2>1, NumeralsAreConverted
<1>5. CASE it.kind = "x"
  <2>1. ItemMeaning(it, sink) = HexNumeral[n]
    BY <1>1, <1>5 DEF ItemMeaning
  <2> QED
    BY <1>1, <1>2, <1>5, <2>1, NumeralsAreConverted
<1>6. CASE it.kind = "s"
  <2>1. ItemMeaning(it, sink) = it.str
    BY <1>6 DEF ItemMeaning
  <2> QED
    BY <1>6, <2>1 DEF PlainItem
<1>7. CASE it.kind = "%"
  <2>1. ItemMeaning(it, sink) = IF sink = "terminal" THEN <<"%", "%">> ELSE <<"%">>
    BY <1>7 DEF ItemMeaning
  <2>2. <<"%">> \in Seq(chars) /\ <<"%", "%">> \in Seq(chars)
    BY DEF PlainCalls
  <2> QED
    BY <1>7, <2>1, <2>2
<1>8. CASE it.kind = "lit"
  <2>1. ItemMeaning(it, sink) = <<it.char>>
    BY <1>8 DEF ItemMeaning
  <2>2. <<it.char>> \in Seq(chars)
    BY <1>8 DEF PlainItem
  <2> QED
    BY <1>8, <2>1, <2>2
<1> QED
  BY <1>3, <1>4, <1>5, <1>6, <1>7, <1>8 DEF PlainItem

\* The parts of which a call's text, arguments and meaning are made.
TextParts(c) == [i \in 1 .. Len(c.items) |-> Spelled(c.items[i])]
ArgParts(c) == [i \in 1 .. Len(c.items) |-> Passed(c.items[i])]
MeaningParts(c) == [i \in 1 .. Len(c.items) |-> ItemMeaning(c.items[i], c.sink)]

Letters(chars) == chars \cup {"lit", "d", "u", "x", "s", "%"}
ItemSet(c) == {c.items[i] : i \in 1 .. Len(c.items)}

\* There is one part for every item.
LEMMA PartTypes ==
  ASSUME RoomForWords, NEW chars, PlainCalls(chars), NEW c, PlainCall(c, chars)
  PROVE  \E n \in Nat :
           /\ n = Len(c.items)
           /\ TextParts(c) \in Seq(Seq(Letters(chars))) /\ Len(TextParts(c)) = n
           /\ ArgParts(c) \in Seq(Seq(ItemSet(c))) /\ Len(ArgParts(c)) = n
           /\ MeaningParts(c) \in Seq(Seq(chars)) /\ Len(MeaningParts(c)) = n
<1>1. PICK n \in Nat : n = Len(c.items)
  <2>1. PICK S : c.items \in Seq(S)
    BY DEF PlainCall, IsSequence
  <2> QED
    BY <2>1
<1>2. ASSUME NEW i \in 1 .. n PROVE Spelled(c.items[i]) \in Seq(Letters(chars))
  <2>1. PICK it : it = c.items[i] /\ PlainItem(it, chars)
    BY <1>1 DEF PlainCall
  <2>2. CASE it.kind = "lit"
    <3>1. it.char \in Letters(chars)
      BY <2>1, <2>2 DEF PlainItem, Letters
    <3>2. <<it.char>> \in Seq(Letters(chars))
      BY <3>1
    <3> QED
      BY <2>1, <2>2, <3>2 DEF Spelled
  <2>3. CASE it.kind # "lit"
    <3>1. "%" \in Letters(chars) /\ it.kind \in Letters(chars)
      BY <2>1 DEF PlainItem, Letters
    <3>2. <<"%", it.kind>> \in Seq(Letters(chars))
      BY <3>1
    <3> QED
      BY <2>1, <2>3, <3>2 DEF Spelled
  <2> QED
    BY <2>2, <2>3
<1>3. ASSUME NEW i \in 1 .. n PROVE Passed(c.items[i]) \in Seq(ItemSet(c))
  <2>1. c.items[i] \in ItemSet(c)
    BY <1>1 DEF ItemSet
  <2>2. <<c.items[i]>> \in Seq(ItemSet(c)) /\ <<>> \in Seq(ItemSet(c))
    BY <2>1, EmptySeq
  <2> QED
    BY <2>2 DEF Passed
<1>4. ASSUME NEW i \in 1 .. n PROVE ItemMeaning(c.items[i], c.sink) \in Seq(chars)
  <2>1. PlainItem(c.items[i], chars)
    BY <1>1 DEF PlainCall
  <2> QED
    BY <2>1, MeaningOf
<1>5. TextParts(c) \in [1 .. n -> Seq(Letters(chars))]
  BY <1>1, <1>2 DEF TextParts
<1>6. ArgParts(c) \in [1 .. n -> Seq(ItemSet(c))]
  BY <1>1, <1>3 DEF ArgParts
<1>7. MeaningParts(c) \in [1 .. n -> Seq(chars)]
  BY <1>1, <1>4 DEF MeaningParts
<1>8. TextParts(c) \in Seq(Seq(Letters(chars))) /\ Len(TextParts(c)) = n
  BY <1>5
<1>9. ArgParts(c) \in Seq(Seq(ItemSet(c))) /\ Len(ArgParts(c)) = n
  BY <1>6
<1>10. MeaningParts(c) \in Seq(Seq(chars)) /\ Len(MeaningParts(c)) = n
  BY <1>7
<1> QED
  BY <1>1, <1>8, <1>9, <1>10

\* A call that has processed its first k items: the format pointer and the va_list stand
\* behind them, and what it has put and is about to put is their meaning.
Place(c, k, p, a, out) ==
  /\ k \in 0 .. Len(c.items)
  /\ p = Len(Sum(TextParts(c))[k]) + 1
  /\ a = Len(Sum(ArgParts(c))[k]) + 1
  /\ out = Sum(MeaningParts(c))[k]

\* The place at which a call starts, and the one at which it is done.
LEMMA Places ==
  ASSUME RoomForWords, NEW chars, PlainCalls(chars), NEW c, PlainCall(c, chars)
  PROVE  /\ Place(c, 0, 1, 1, <<>>)
         /\ Meaning(c) \in Seq(chars) /\ Len(Text(c)) \in Nat
         /\ \A p, a, out : Place(c, Len(c.items), p, a, out) =>
                             p = Len(Text(c)) + 1 /\ out = Meaning(c)
<1>1. PICK n \in Nat :
           /\ n = Len(c.items)
           /\ TextParts(c) \in Seq(Seq(Letters(chars))) /\ Len(TextParts(c)) = n
           /\ ArgParts(c) \in Seq(Seq(ItemSet(c))) /\ Len(ArgParts(c)) = n
           /\ MeaningParts(c) \in Seq(Seq(chars)) /\ Len(MeaningParts(c)) = n
  BY PartTypes
<1>2. Text(c) = FlattenSeq(TextParts(c)) /\ Meaning(c) = FlattenSeq(MeaningParts(c))
  BY DEF Text, Meaning, TextParts, MeaningParts
<1>3. Sum(TextParts(c))[0] = <<>> /\ Sum(TextParts(c))[n] = Text(c)
      /\ Text(c) \in Seq(Letters(chars))
  BY <1>1, <1>2, SumEnds
<1>4. Sum(ArgParts(c))[0] = <<>>
  BY <1>1, SumEnds
<1>5. Sum(MeaningParts(c))[0] = <<>> /\ Sum(MeaningParts(c))[n] = Meaning(c)
      /\ Meaning(c) \in Seq(chars)
  BY <1>1, <1>2, SumEnds
<1>6. Len(<<>>) + 1 = 1 /\ 0 \in 0 .. n /\ Len(Text(c)) \in Nat
  BY <1>3
<1>7. Place(c, 0, 1, 1, <<>>)
  BY <1>1, <1>3, <1>4, <1>5, <1>6 DEF Place
<1>8. ASSUME NEW p, NEW a, NEW out, Place(c, n, p, a, out) PROVE p = Len(Text(c)) + 1 /\ out = Meaning(c)
  BY <1>3, <1>5, <1>8 DEF Place
<1> QED
  BY <1>1, <1>5, <1>6, <1>7, <1>8

\* A sequence begins another.
Begins(chars, x, m) ==
  x \in Seq(chars) /\ m \in Seq(chars) /\ Len(x) <= Len(m) /\ \A i \in 1 .. Len(x) : m[i] = x[i]

\* What a call has put and is about to put is the beginning of its meaning.
LEMMA PlaceBegins ==
  ASSUME RoomForWords, NEW chars, PlainCalls(chars), NEW c, PlainCall(c, chars),
         NEW k, NEW p, NEW a, NEW out, Place(c, k, p, a, out)
  PROVE  Begins(chars, out, Meaning(c))
<1>1. PICK n \in Nat : n = Len(c.items) /\ MeaningParts(c) \in Seq(Seq(chars))
                       /\ Len(MeaningParts(c)) = n
  BY PartTypes
<1>2. Meaning(c) = FlattenSeq(MeaningParts(c))
  BY DEF Meaning, MeaningParts
<1>3. IsSum(Sum(MeaningParts(c)), MeaningParts(c))
  BY <1>1, SumExists
<1>4. k \in 0 .. Len(MeaningParts(c)) /\ out = Sum(MeaningParts(c))[k]
  BY <1>1 DEF Place
<1>5. out \in Seq(chars)
  BY <1>1, <1>3, <1>4, SumType
<1>6. \A i \in 0 .. Len(MeaningParts(c)) :
        /\ Len(Sum(MeaningParts(c))[i]) <= Len(FlattenSeq(MeaningParts(c)))
        /\ \A j \in 1 .. Len(Sum(MeaningParts(c))[i]) :
             FlattenSeq(MeaningParts(c))[j] = Sum(MeaningParts(c))[i][j]
  BY <1>1, <1>3, SumBegins
<1>7. Meaning(c) \in Seq(chars)
  BY Places
<1> QED
  BY <1>2, <1>4, <1>5, <1>6, <1>7, Zenon DEF Begins

\* What the loop over the format string finds at an item, and where it stands after it.
ItemFound(chars, c, k, p, a, out, it) ==
  /\ PlainItem(it, chars) /\ p \in Nat /\ a \in Nat /\ p <= Len(Text(c))
  /\ it.kind = "lit" =>
       Text(c)[p] = it.char /\ Place(c, k + 1, p + 1, a, out \o ItemMeaning(it, c.sink))
  /\ it.kind # "lit" =>
       /\ Text(c)[p] = "%" /\ Text(c)[p + 1] = it.kind
       /\ Place(c, k + 1, p + 2, IF it.kind \in Directives THEN a + 1 ELSE a,
                out \o ItemMeaning(it, c.sink))
  /\ it.kind \in Directives => Args(c)[a] = it

\* The loop finds its item behind those it has processed.
LEMMA AtItem ==
  ASSUME RoomForWords, NEW chars, PlainCalls(chars), NEW c, PlainCall(c, chars),
         NEW k \in Nat, NEW p, NEW a, NEW out, Place(c, k, p, a, out), k < Len(c.items)
  PROVE  ItemFound(chars, c, k, p, a, out, c.items[k + 1])
<1>0. PICK it : it = c.items[k + 1]
  OBVIOUS
<1>1. PICK n \in Nat :
           /\ n = Len(c.items)
           /\ TextParts(c) \in Seq(Seq(Letters(chars))) /\ Len(TextParts(c)) = n
           /\ ArgParts(c) \in Seq(Seq(ItemSet(c))) /\ Len(ArgParts(c)) = n
           /\ MeaningParts(c) \in Seq(Seq(chars)) /\ Len(MeaningParts(c)) = n
  BY PartTypes
<1>2. Text(c) = FlattenSeq(TextParts(c)) /\ Args(c) = FlattenSeq(ArgParts(c))
      /\ Meaning(c) = FlattenSeq(MeaningParts(c))
  BY DEF Text, Args, Meaning, TextParts, ArgParts, MeaningParts
<1>3. k + 1 \in 1 .. n /\ k < n /\ k + 1 \in 0 .. n
  BY <1>1
<1>4. PlainItem(it, chars)
  BY <1>0, <1>1, <1>3 DEF PlainCall
<1>5. TextParts(c)[k + 1] = Spelled(it) /\ ArgParts(c)[k + 1] = Passed(it)
      /\ MeaningParts(c)[k + 1] = ItemMeaning(it, c.sink)
  BY <1>0, <1>1, <1>3 DEF TextParts, ArgParts, MeaningParts
<1>6. PICK x, y, s : x = Sum(TextParts(c))[k] /\ y = Sum(TextParts(c))[k + 1] /\ s = Spelled(it)
  OBVIOUS
<1>7. /\ x \in Seq(Letters(chars)) /\ y \in Seq(Letters(chars)) /\ s \in Seq(Letters(chars))
      /\ Len(y) = Len(x) + Len(s) /\ Len(y) <= Len(Text(c)) /\ Text(c) \in Seq(Letters(chars))
      /\ \A j \in 1 .. Len(s) : Text(c)[Len(x) + j] = s[j]
  <2>1. PartBehind(Letters(chars), x, y, s, Text(c))
    BY <1>1, <1>2, <1>3, <1>5, <1>6, PartAt
  <2> QED
    BY <2>1 DEF PartBehind
<1>8. PICK xa, ya, sa : xa = Sum(ArgParts(c))[k] /\ ya = Sum(ArgParts(c))[k + 1] /\ sa = Passed(it)
  OBVIOUS
<1>9. /\ xa \in Seq(ItemSet(c)) /\ sa \in Seq(ItemSet(c))
      /\ Len(ya) = Len(xa) + Len(sa) /\ \A j \in 1 .. Len(sa) : Args(c)[Len(xa) + j] = sa[j]
  <2>1. PartBehind(ItemSet(c), xa, ya, sa, Args(c))
    BY <1>1, <1>2, <1>3, <1>5, <1>8, PartAt
  <2> QED
    BY <2>1 DEF PartBehind
<1>10. Sum(MeaningParts(c))[k + 1] = Sum(MeaningParts(c))[k] \o ItemMeaning(it, c.sink)
  <2>1. PartBehind(chars, Sum(MeaningParts(c))[k], Sum(MeaningParts(c))[k + 1], ItemMeaning(it, c.sink),
                   Meaning(c))
    BY <1>1, <1>2, <1>3, <1>5, PartAt
  <2> QED
    BY <2>1 DEF PartBehind
<1>11. PICK lx \in Nat, lt \in Nat, la \in Nat : lx = Len(x) /\ lt = Len(Text(c)) /\ la = Len(xa)
  <2>1. Len(x) \in Nat /\ Len(Text(c)) \in Nat /\ Len(xa) \in Nat
    BY <1>7, <1>9
  <2> QED
    BY <2>1, Zenon
<1>12. p = lx + 1 /\ a = la + 1 /\ out = Sum(MeaningParts(c))[k]
  BY <1>6, <1>8, <1>11 DEF Place
<1>13. PICK z : z = out \o ItemMeaning(it, c.sink) /\ z = Sum(MeaningParts(c))[k + 1]
  BY <1>10, <1>12
<1>14. \A q, b : q = Len(y) + 1 /\ b = Len(ya) + 1 => Place(c, k + 1, q, b, z)
  BY <1>1, <1>3, <1>6, <1>8, <1>13 DEF Place
<1> SUFFICES ItemFound(chars, c, k, p, a, out, it)
  BY <1>0
<1>15. CASE it.kind = "lit"
  <2>1. s = <<it.char>> /\ sa = <<>>
    BY <1>6, <1>8, <1>15 DEF Spelled, Passed, Directives
  <2>2. Len(s) = 1 /\ s[1] = it.char /\ Len(sa) = 0
    BY <2>1
  <2>3. Len(y) = lx + 1 /\ Len(ya) = la
    BY <1>7, <1>9, <1>11, <2>2
  <2>4. Text(c)[p] = it.char /\ p <= lt
    BY <1>7, <1>11, <1>12, <2>2, <2>3
  <2>5. Place(c, k + 1, p + 1, a, z)
    BY <1>12, <1>14, <2>3
  <2> QED
    BY <1>4, <1>11, <1>12, <1>13, <1>15, <2>4, <2>5 DEF ItemFound, Directives
<1>16. CASE it.kind # "lit"
  <2>1. s = <<"%", it.kind>>
    BY <1>6, <1>16 DEF Spelled
  <2>2. Len(s) = 2 /\ s[1] = "%" /\ s[2] = it.kind
    BY <2>1
  <2>3. Len(y) = lx + 2
    BY <1>7, <1>11, <2>2
  <2>4. Text(c)[p] = "%" /\ Text(c)[p + 1] = it.kind /\ p <= lt
    <3>1. p + 1 = lx + 2
      BY <1>12
    <3> QED
      BY <1>7, <1>11, <1>12, <2>2, <2>3, <3>1
  <2>5. CASE it.kind \in Directives
    <3>1. sa = <<it>>
      BY <1>8, <2>5 DEF Passed
    <3>2. Len(sa) = 1 /\ sa[1] = it
      BY <3>1
    <3>3. Len(ya) = la + 1 /\ Args(c)[a] = it
      BY <1>9, <1>11, <1>12, <3>2
    <3>4. Place(c, k + 1, p + 2, a + 1, z)
      BY <1>12, <1>14, <2>3, <3>3
    <3> QED
      BY <1>4, <1>11, <1>12, <1>13, <1>16, <2>4, <2>5, <3>3, <3>4 DEF ItemFound
  <2>6. CASE it.kind \notin Directives
    <3>1. sa = <<>>
      BY <1>8, <2>6 DEF Passed
    <3>2. Len(ya) = la
      BY <1>9, <1>11, <3>1
    <3>3. Place(c, k + 1, p + 2, a, z)
      BY <1>12, <1>14, <2>3, <3>2
    <3> QED
      BY <1>4, <1>11, <1>12, <1>13, <1>16, <2>4, <2>6, <3>3 DEF ItemFound
  <2> QED
    BY <2>5, <2>6
<1> QED
  BY <1>15, <1>16

-----------------------------------------------------------------------------
(* What a thread has put.                                                  *)

OwnParts(log, t) == [i \in 1 .. Len(log) |-> IF log[i][1] = t THEN <<log[i][2]>> ELSE <<>>]

\* There is one part for every character of a log.
LEMMA OwnPartsType ==
  ASSUME NEW chars, NEW log \in Seq(Threads \X chars), NEW t
  PROVE  /\ OwnParts(log, t) \in Seq(Seq(chars)) /\ Len(OwnParts(log, t)) = Len(log)
         /\ Own(log, t) = FlattenSeq(OwnParts(log, t))
<1>1. PICK n \in Nat : n = Len(log)
  OBVIOUS
<1>2. ASSUME NEW i \in 1 .. n
      PROVE  (IF log[i][1] = t THEN <<log[i][2]>> ELSE <<>>) \in Seq(chars)
  <2>1. log[i] \in Threads \X chars
    BY <1>1
  <2>2. <<log[i][2]>> \in Seq(chars) /\ <<>> \in Seq(chars)
    BY <2>1, EmptySeq
  <2> QED
    BY <2>2
<1>3. OwnParts(log, t) \in [1 .. n -> Seq(chars)]
  BY <1>1, <1>2 DEF OwnParts
<1>4. OwnParts(log, t) \in Seq(Seq(chars)) /\ Len(OwnParts(log, t)) = n
  BY <1>3
<1> QED
  BY <1>1, <1>4 DEF Own, OwnParts

\* A log, and one that has a character of a thread more.
Log(chars) == Seq(Threads \X chars)
Puts(log, new, u, ch) == \A t : Own(new, t) = IF u = t THEN Own(log, t) \o <<ch>> ELSE Own(log, t)

\* A character put adds to what its thread has put, and to nobody else's.
LEMMA OwnPuts ==
  ASSUME NEW chars, NEW log \in Log(chars), NEW u \in Threads, NEW ch \in chars,
         NEW new, new = Append(log, <<u, ch>>)
  PROVE  Puts(log, new, u, ch) /\ new \in Log(chars)
<1>1. PICK n \in Nat : n = Len(log) /\ log \in Seq(Threads \X chars)
  BY DEF Log
<1>2. /\ new \in Seq(Threads \X chars) /\ Len(new) = n + 1 /\ new[n + 1] = <<u, ch>>
      /\ \A i \in 1 .. n : new[i] = log[i]
  <2>1. PICK e \in Threads \X chars : e = <<u, ch>>
    OBVIOUS
  <2>2. /\ Append(log, e) \in Seq(Threads \X chars) /\ Len(Append(log, e)) = Len(log) + 1
        /\ \A i \in 1 .. Len(log) : Append(log, e)[i] = log[i]
        /\ Append(log, e)[Len(log) + 1] = e
    BY <1>1, AppendProperties
  <2> QED
    BY <1>1, <2>1, <2>2, Zenon
<1> SUFFICES ASSUME NEW t
             PROVE  Own(new, t) = IF u = t THEN Own(log, t) \o <<ch>> ELSE Own(log, t)
  BY <1>2 DEF Puts, Log
<1>3. /\ OwnParts(log, t) \in Seq(Seq(chars)) /\ Len(OwnParts(log, t)) = n
      /\ Own(log, t) = FlattenSeq(OwnParts(log, t))
  BY <1>1, OwnPartsType
<1>4. /\ OwnParts(new, t) \in Seq(Seq(chars)) /\ Len(OwnParts(new, t)) = n + 1
      /\ Own(new, t) = FlattenSeq(OwnParts(new, t))
  BY <1>2, OwnPartsType
<1>5. ASSUME NEW i \in 1 .. n PROVE OwnParts(new, t)[i] = OwnParts(log, t)[i]
  <2>1. i \in 1 .. Len(new) /\ i \in 1 .. Len(log)
    BY <1>1, <1>2
  <2>2. new[i] = log[i]
    BY <1>2
  <2> QED
    BY <2>1, <2>2 DEF OwnParts
<1>6. OwnParts(new, t)[n + 1] = IF u = t THEN <<ch>> ELSE <<>>
  <2>1. n + 1 \in 1 .. Len(new) /\ new[n + 1][1] = u /\ new[n + 1][2] = ch
    BY <1>2
  <2> QED
    BY <2>1 DEF OwnParts
<1>7. FlattenSeq(OwnParts(log, t)) \in Seq(chars)
      /\ FlattenSeq(OwnParts(new, t)) = FlattenSeq(OwnParts(log, t)) \o OwnParts(new, t)[n + 1]
  <2>1. \A i \in 1 .. Len(OwnParts(log, t)) : OwnParts(new, t)[i] = OwnParts(log, t)[i]
    BY <1>3, <1>5
  <2> QED
    BY <1>3, <1>4, <2>1, FlattenAppend
<1>8. Own(log, t) \in Seq(chars) /\ Own(new, t) = Own(log, t) \o OwnParts(new, t)[n + 1]
  BY <1>3, <1>4, <1>7
<1>9. Own(log, t) \o <<>> = Own(log, t)
  BY <1>8, ConcatEmptySeq
<1> QED
  BY <1>6, <1>8, <1>9

\* What a thread has put is a sequence of characters.
LEMMA OwnType ==
  ASSUME NEW chars, NEW log \in Log(chars), NEW t
  PROVE  Own(log, t) \in Seq(chars)
<1>1. OwnParts(log, t) \in Seq(Seq(chars)) /\ Own(log, t) = FlattenSeq(OwnParts(log, t))
  BY OwnPartsType DEF Log
<1>2. FlattenSeq(OwnParts(log, t)) \in Seq(chars)
  BY <1>1, SumEnds
<1> QED
  BY <1>1, <1>2

\* Nobody has put anything to an empty log.
LEMMA OwnNothing == ASSUME NEW t PROVE Own(<<>>, t) = <<>>
<1>1. <<>> \in Seq(Threads \X {}) /\ Len(<<>>) = 0
  BY EmptySeq
<1>2. /\ OwnParts(<<>>, t) \in Seq(Seq({})) /\ Len(OwnParts(<<>>, t)) = 0
      /\ Own(<<>>, t) = FlattenSeq(OwnParts(<<>>, t))
  BY <1>1, OwnPartsType
<1> QED
  BY <1>2, SumEnds

\* A character taken from what is to be put and put at the end of what has been.
LEMMA HeadMoves ==
  ASSUME NEW chars, NEW x \in Seq(chars), NEW td \in Seq(chars), td # <<>>
  PROVE  /\ Head(td) \in chars /\ Tail(td) \in Seq(chars)
         /\ (x \o <<Head(td)>>) \o Tail(td) = x \o td
<1>1. Head(td) \in chars /\ Tail(td) \in Seq(chars)
  BY HeadTailProperties
<1>2. <<Head(td)>> \in Seq(chars)
  BY <1>1
<1>3. td = <<Head(td)>> \o Tail(td)
  OBVIOUS
<1>4. (x \o <<Head(td)>>) \o Tail(td) = x \o (<<Head(td)>> \o Tail(td))
  BY <1>1, <1>2, ConcatAssociative
<1> QED
  BY <1>1, <1>3, <1>4

-----------------------------------------------------------------------------
(* Every call prints what it means.                                        *)

\* A thread's call, its progress, and what the thread has put on the screen and the port.
Out(c, onScreen, onPort) == IF c.sink = "terminal" THEN onScreen ELSE onPort
ThreadInv(c, b, p, a, td, po, onScreen, onPort) ==
  /\ \E k \in Nat : Place(c, k, p, a, Out(c, onScreen, onPort) \o td)
  /\ c.items = <<>> => onScreen = <<>> /\ onPort = <<>>
  /\ ~b => td = <<>> /\ Out(c, onScreen, onPort) = Meaning(c)
  /\ po => td # <<>> /\ c.sink = "serial"

InPlace(t) ==
  ThreadInv(call[t], busy[t], pos[t], arg[t], todo[t], polled[t], Own(screen, t), Own(port, t))

\* Each thread is between two items of its call.
MeaningInv(chars) ==
  /\ call \in [Threads -> Calls \cup {Nothing}]
  /\ pos \in [Threads -> Nat] /\ arg \in [Threads -> Nat]
  /\ todo \in [Threads -> Seq(chars)]
  /\ screen \in Log(chars) /\ port \in Log(chars)
  /\ \A t \in Threads : InPlace(t)

\* No call yet is a call that prints nothing.
LEMMA NothingIsPlain == ASSUME NEW chars PROVE PlainCall(Nothing, chars)
<1>1. Nothing.sink = "terminal" /\ Nothing.items = <<>>
  BY DEF Nothing
<1>2. IsSequence(<<>>) /\ Len(<<>>) = 0
  BY EmptySeq DEF IsSequence
<1> QED
  BY <1>1, <1>2 DEF PlainCall

\* Threads make plain calls.
LEMMA CallsArePlain ==
  ASSUME NEW chars, PlainCalls(chars), MeaningInv(chars), NEW t \in Threads
  PROVE  PlainCall(call[t], chars)
<1>1. call[t] \in Calls \/ call[t] = Nothing
  BY DEF MeaningInv
<1> QED
  BY <1>1, NothingIsPlain DEF PlainCalls

\* A call without items is at its start.
LEMMA EmptyCall ==
  ASSUME RoomForWords, NEW chars, PlainCalls(chars), NEW c, PlainCall(c, chars), c.items = <<>>,
         NEW k \in Nat, NEW p, NEW a, NEW out, Place(c, k, p, a, out)
  PROVE  p = 1 /\ a = 1 /\ out = <<>>
<1>1. k = 0
  BY DEF Place
<1>2. Place(c, 0, 1, 1, <<>>)
  BY Places
<1> QED
  BY <1>1, <1>2 DEF Place

\* What a directive puts is the meaning of its item.
LEMMA ExpansionIs ==
  ASSUME RoomForWords, NEW chars, PlainCalls(chars), NEW t, NEW it,
         PlainItem(it, chars), it.kind # "lit", call[t].sink \in {"terminal", "serial"},
         it.kind \in Directives => Args(call[t])[arg[t]] = it
  PROVE  Expansion(t, it.kind) = ItemMeaning(it, call[t].sink)
<1>1. CASE it.kind = "d"
  <2>1. Args(call[t])[arg[t]] = it
    BY <1>1 DEF Directives
  <2> QED
    BY <1>1, <2>1, MeaningOf DEF Expansion
<1>2. CASE it.kind = "u"
  <2>1. Args(call[t])[arg[t]] = it
    BY <1>2 DEF Directives
  <2> QED
    BY <1>2, <2>1, MeaningOf DEF Expansion
<1>3. CASE it.kind = "x"
  <2>1. Args(call[t])[arg[t]] = it
    BY <1>3 DEF Directives
  <2> QED
    BY <1>3, <2>1, MeaningOf DEF Expansion
<1>4. CASE it.kind = "s"
  <2>1. Args(call[t])[arg[t]] = it
    BY <1>4 DEF Directives
  <2> QED
    BY <1>4, <2>1, MeaningOf DEF Expansion
<1>5. CASE it.kind = "%"
  <2>1. CASE call[t].sink = "serial"
    BY <1>5, <2>1, MeaningOf DEF Expansion
  <2>2. CASE call[t].sink = "terminal"
    BY <1>5, <2>2, MeaningOf DEF Expansion
  <2> QED
    BY <2>1, <2>2
<1> QED
  BY <1>1, <1>2, <1>3, <1>4, <1>5 DEF PlainItem

\* At the start nobody has printed.
LEMMA MeaningStart ==
  ASSUME RoomForWords, NEW chars, PlainCalls(chars)
  PROVE  Init => MeaningInv(chars)
<1> SUFFICES ASSUME Init PROVE MeaningInv(chars)
  OBVIOUS
<1>1. <<>> \in Seq(chars) /\ <<>> \in Log(chars)
  BY EmptySeq DEF Log
<1>2. /\ call \in [Threads -> Calls \cup {Nothing}] /\ pos \in [Threads -> Nat] /\ arg \in [Threads -> Nat]
      /\ todo \in [Threads -> Seq(chars)]
      /\ screen \in Log(chars) /\ port \in Log(chars)
  BY <1>1 DEF Init
<1>3. ASSUME NEW t \in Threads PROVE InPlace(t)
  <2>1. /\ call[t] = Nothing /\ pos[t] = 1 /\ arg[t] = 1 /\ todo[t] = <<>> /\ ~polled[t]
        /\ screen = <<>> /\ port = <<>>
    BY DEF Init
  <2>2. Own(screen, t) = <<>> /\ Own(port, t) = <<>>
    BY <2>1, OwnNothing
  <2>3. PlainCall(Nothing, chars) /\ Len(Nothing.items) = 0
    BY NothingIsPlain DEF Nothing
  <2>4. Place(Nothing, 0, 1, 1, <<>>)
    BY <2>3, Places
  <2>5. Meaning(Nothing) = <<>>
    BY <2>3, <2>4, Places
  <2>6. Out(Nothing, <<>>, <<>>) = <<>> /\ <<>> \o <<>> = <<>>
    BY <1>1, ConcatEmptySeq DEF Out
  <2> QED
    BY <2>1, <2>2, <2>4, <2>5, <2>6 DEF InPlace, ThreadInv
<1> QED
  BY <1>2, <1>3 DEF MeaningInv

\* A thread is called.
LEMMA CallInPlace ==
  ASSUME RoomForWords, NEW chars, PlainCalls(chars), LineInv, MeaningInv(chars),
         NEW t \in Threads, NEW c \in Calls, Call(t, c)
  PROVE  MeaningInv(chars)'
<1>1. /\ call' = [call EXCEPT ![t] = c] /\ busy' = [busy EXCEPT ![t] = TRUE]
      /\ pos' = pos /\ arg' = arg /\ todo' = todo /\ polled' = polled /\ screen' = screen
      /\ port' = port /\ ~busy[t] /\ call[t].items = <<>>
  BY DEF Call
<1>2. /\ call' \in [Threads -> Calls \cup {Nothing}] /\ pos' \in [Threads -> Nat] /\ arg' \in [Threads -> Nat]
      /\ todo' \in [Threads -> Seq(chars)]
      /\ screen' \in Log(chars) /\ port' \in Log(chars)
  BY <1>1 DEF MeaningInv
<1>3. ASSUME NEW u \in Threads PROVE InPlace(u)'
  <2>1. InPlace(u)
    BY DEF MeaningInv
  <2>2. CASE u # t
    <3>1. call'[u] = call[u] /\ busy'[u] = busy[u]
      BY <1>1, <2>2 DEF MeaningInv, LineInv
    <3> QED
      BY <1>1, <2>1, <3>1 DEF InPlace
  <2>3. CASE u = t
    <3>1. call'[t] = c /\ busy'[t] = TRUE
      BY <1>1 DEF MeaningInv, LineInv
    <3>2. PICK k \in Nat : Place(call[t], k, pos[t], arg[t], Out(call[t], Own(screen, t), Own(port, t)) \o todo[t])
      BY <2>1, <2>3 DEF InPlace, ThreadInv
    <3>3. Own(screen, t) = <<>> /\ Own(port, t) = <<>> /\ todo[t] = <<>> /\ ~polled[t]
      BY <1>1, <2>1, <2>3 DEF InPlace, ThreadInv
    <3>4. pos[t] = 1 /\ arg[t] = 1
      BY <1>1, <3>2, CallsArePlain, EmptyCall
    <3>5. Place(c, 0, 1, 1, <<>>)
      BY Places DEF PlainCalls
    <3>6. Out(c, <<>>, <<>>) = <<>> /\ <<>> \o <<>> = <<>>
      BY EmptySeq, ConcatEmptySeq DEF Out
    <3> QED
      BY <1>1, <2>3, <3>1, <3>3, <3>4, <3>5, <3>6 DEF InPlace, ThreadInv
  <2> QED
    BY <2>2, <2>3
<1> QED
  BY <1>2, <1>3 DEF MeaningInv

\* What a thread has put, wherever it prints to, is a sequence of characters.
LEMMA OutType ==
  ASSUME NEW chars, MeaningInv(chars), NEW t \in Threads
  PROVE  /\ Own(screen, t) \in Seq(chars) /\ Own(port, t) \in Seq(chars)
         /\ Out(call[t], Own(screen, t), Own(port, t)) \in Seq(chars)
<1>1. Own(screen, t) \in Seq(chars) /\ Own(port, t) \in Seq(chars)
  BY OwnType DEF MeaningInv
<1> QED
  BY <1>1 DEF Out

\* The end of the string is seen exactly behind the last item.
LEMMA EndSeen ==
  ASSUME RoomForWords, NEW chars, PlainCalls(chars), NEW t, PlainCall(call[t], chars),
         NEW k \in Nat, NEW out, Place(call[t], k, pos[t], arg[t], out)
  PROVE  /\ k = Len(call[t].items) => CharAt(t) = "end"
         /\ k < Len(call[t].items) => CharAt(t) = Text(call[t])[pos[t]] /\ CharAt(t) # "end"
         /\ k = Len(call[t].items) \/ k < Len(call[t].items)
<1>1. PICK n \in Nat : n = Len(call[t].items)
  BY PartTypes
<1>2. k = n \/ k < n
  BY <1>1 DEF Place
<1>3. CASE k = n
  <2>1. pos[t] = Len(Text(call[t])) + 1 /\ Len(Text(call[t])) \in Nat
    BY <1>1, <1>3, Places
  <2>2. ~(pos[t] <= Len(Text(call[t])))
    BY <2>1
  <2> QED
    BY <1>1, <1>3, <2>2 DEF CharAt
<1>4. CASE k < n
  <2>1. PICK it : ItemFound(chars, call[t], k, pos[t], arg[t], out, it)
    BY <1>1, <1>4, AtItem
  <2>2. /\ PlainItem(it, chars) /\ pos[t] <= Len(Text(call[t]))
        /\ it.kind = "lit" => Text(call[t])[pos[t]] = it.char
        /\ it.kind # "lit" => Text(call[t])[pos[t]] = "%"
    BY <2>1 DEF ItemFound
  <2>3. Text(call[t])[pos[t]] # "end"
    BY <2>2 DEF PlainItem
  <2>4. CharAt(t) = Text(call[t])[pos[t]]
    BY <2>2 DEF CharAt
  <2> QED
    BY <1>1, <1>4, <2>3, <2>4
<1> QED
  BY <1>1, <1>2, <1>3, <1>4

\* The loop takes an item.
LEMMA ScanInPlace ==
  ASSUME RoomForWords, NEW chars, PlainCalls(chars), LineInv, MeaningInv(chars),
         NEW t \in Threads, Scan(t)
  PROVE  MeaningInv(chars)'
<1>1. /\ call' = call /\ busy' = busy /\ polled' = polled /\ screen' = screen /\ port' = port
      /\ busy[t] /\ todo[t] = <<>> /\ CharAt(t) # "end"
  BY DEF Scan
<1>2. PICK c, o : c = call[t] /\ o = Out(c, Own(screen, t), Own(port, t)) /\ o \in Seq(chars)
                  /\ PlainCall(c, chars)
  BY OutType, CallsArePlain
<1>3. InPlace(t)
  BY DEF MeaningInv
<1>4. PICK k \in Nat : Place(c, k, pos[t], arg[t], o \o todo[t])
  BY <1>2, <1>3 DEF InPlace, ThreadInv
<1>5. o \o todo[t] = o
  BY <1>1, <1>2, ConcatEmptySeq
<1>6. k < Len(c.items) /\ CharAt(t) = Text(c)[pos[t]]
  BY <1>1, <1>2, <1>4, EndSeen
<1>7. PICK it : it = c.items[k + 1] /\ ItemFound(chars, c, k, pos[t], arg[t], o, it)
  BY <1>2, <1>4, <1>5, <1>6, AtItem
<1>8. /\ PlainItem(it, chars) /\ pos[t] \in Nat /\ arg[t] \in Nat
      /\ it.kind = "lit" =>
           Text(c)[pos[t]] = it.char /\ Place(c, k + 1, pos[t] + 1, arg[t], o \o ItemMeaning(it, c.sink))
      /\ it.kind # "lit" =>
           /\ Text(c)[pos[t]] = "%" /\ Text(c)[pos[t] + 1] = it.kind
           /\ Place(c, k + 1, pos[t] + 2, IF it.kind \in Directives THEN arg[t] + 1 ELSE arg[t],
                    o \o ItemMeaning(it, c.sink))
      /\ it.kind \in Directives => Args(c)[arg[t]] = it
  BY <1>7 DEF ItemFound
<1>9. PICK m \in Seq(chars) : m = ItemMeaning(it, c.sink)
  BY <1>8, MeaningOf
<1>10. PICK p \in Nat, a \in Nat : /\ pos' = [pos EXCEPT ![t] = p] /\ arg' = [arg EXCEPT ![t] = a]
                   /\ todo' = [todo EXCEPT ![t] = m] /\ Place(c, k + 1, p, a, o \o m)
  <2>1. CASE it.kind = "lit"
    <3>1. CharAt(t) = it.char /\ it.char # "%"
      BY <1>6, <1>8, <2>1 DEF PlainItem
    <3>2. m = <<it.char>>
      BY <1>8, <1>9, <2>1, MeaningOf
    <3>3. /\ todo' = [todo EXCEPT ![t] = <<CharAt(t)>>] /\ pos' = [pos EXCEPT ![t] = @ + 1]
          /\ arg' = arg
      BY <3>1 DEF Scan
    <3>4. arg' = [arg EXCEPT ![t] = arg[t]] /\ pos' = [pos EXCEPT ![t] = pos[t] + 1]
      BY <3>3 DEF MeaningInv
    <3>5. todo' = [todo EXCEPT ![t] = m]
      BY <3>1, <3>2, <3>3
    <3>6. Place(c, k + 1, pos[t] + 1, arg[t], o \o m)
      BY <1>8, <1>9, <2>1
    <3>7. pos[t] + 1 \in Nat /\ arg[t] \in Nat
      BY <1>8
    <3> QED
      BY <3>4, <3>5, <3>6, <3>7, Zenon
  <2>2. CASE it.kind # "lit"
    <3>1. CharAt(t) = "%" /\ Text(call[t])[pos[t] + 1] = it.kind
      BY <1>2, <1>6, <1>8, <2>2
    <3>2. /\ todo' = [todo EXCEPT ![t] = Expansion(t, it.kind)]
          /\ pos' = [pos EXCEPT ![t] = pos[t] + 2]
          /\ arg' = [arg EXCEPT ![t] = IF it.kind \in Directives THEN arg[t] + 1 ELSE arg[t]]
      BY <3>1 DEF Scan, DirectiveLength
    <3>3. Expansion(t, it.kind) = m
      <4>1. call[t].sink = c.sink /\ call[t].sink \in {"terminal", "serial"}
        BY <1>2 DEF PlainCall
      <4>2. it.kind \in Directives => Args(call[t])[arg[t]] = it
        BY <1>2, <1>8
      <4>3. Expansion(t, it.kind) = ItemMeaning(it, call[t].sink)
        BY <1>8, <2>2, <4>1, <4>2, ExpansionIs
      <4> QED
        BY <1>9, <4>1, <4>3
    <3>4. PICK p \in Nat, a \in Nat :
            p = pos[t] + 2 /\ a = IF it.kind \in Directives THEN arg[t] + 1 ELSE arg[t]
      BY <1>8
    <3>5. Place(c, k + 1, p, a, o \o m)
      BY <1>8, <1>9, <2>2, <3>4
    <3> QED
      BY <3>2, <3>3, <3>4, <3>5, Zenon
  <2> QED
    BY <2>1, <2>2
<1>11. /\ call' \in [Threads -> Calls \cup {Nothing}] /\ pos' \in [Threads -> Nat] /\ arg' \in [Threads -> Nat]
       /\ todo' \in [Threads -> Seq(chars)]
       /\ screen' \in Log(chars) /\ port' \in Log(chars)
  BY <1>1, <1>10 DEF MeaningInv
<1>12. ASSUME NEW u \in Threads PROVE InPlace(u)'
  <2>1. InPlace(u)
    BY DEF MeaningInv
  <2>2. CASE u # t
    <3>1. pos'[u] = pos[u] /\ arg'[u] = arg[u] /\ todo'[u] = todo[u]
      BY <1>10, <2>2 DEF MeaningInv
    <3> QED
      BY <1>1, <2>1, <3>1 DEF InPlace
  <2>3. CASE u = t
    <3>1. pos'[t] = p /\ arg'[t] = a /\ todo'[t] = m
      BY <1>10 DEF MeaningInv
    <3>2. ~polled[t] /\ (c.items = <<>> => Own(screen, t) = <<>> /\ Own(port, t) = <<>>)
      BY <1>1, <1>2, <1>3 DEF InPlace, ThreadInv
    <3>3. k + 1 \in Nat
      OBVIOUS
    <3>4. ThreadInv(c, busy[t], p, a, m, polled[t], Own(screen, t), Own(port, t))
      BY <1>1, <1>2, <1>10, <3>2, <3>3 DEF ThreadInv
    <3> QED
      BY <1>1, <1>2, <2>3, <3>1, <3>4 DEF InPlace
  <2> QED
    BY <2>2, <2>3
<1> QED
  BY <1>11, <1>12 DEF MeaningInv

\* A call returns.
LEMMA ReturnInPlace ==
  ASSUME RoomForWords, NEW chars, PlainCalls(chars), LineInv, MeaningInv(chars),
         NEW t \in Threads, Return(t)
  PROVE  MeaningInv(chars)'
<1>1. /\ call' = call /\ pos' = pos /\ arg' = arg /\ todo' = todo /\ polled' = polled
      /\ screen' = screen /\ port' = port /\ busy' = [busy EXCEPT ![t] = FALSE]
      /\ todo[t] = <<>> /\ CharAt(t) = "end"
  BY DEF Return
<1>2. PICK c, o : c = call[t] /\ o = Out(c, Own(screen, t), Own(port, t)) /\ o \in Seq(chars)
                  /\ PlainCall(c, chars)
  BY OutType, CallsArePlain
<1>3. InPlace(t)
  BY DEF MeaningInv
<1>4. PICK k \in Nat : Place(c, k, pos[t], arg[t], o \o todo[t])
  BY <1>2, <1>3 DEF InPlace, ThreadInv
<1>5. o \o todo[t] = o
  BY <1>1, <1>2, ConcatEmptySeq
<1>6. k = Len(c.items)
  BY <1>1, <1>2, <1>4, EndSeen
<1>7. o = Meaning(c)
  BY <1>2, <1>4, <1>5, <1>6, Places
<1>8. ASSUME NEW u \in Threads PROVE InPlace(u)'
  <2>1. InPlace(u)
    BY DEF MeaningInv
  <2>2. CASE u # t
    <3>1. busy'[u] = busy[u]
      BY <1>1, <2>2 DEF LineInv
    <3> QED
      BY <1>1, <2>1, <3>1 DEF InPlace
  <2>3. CASE u = t
    <3>1. ThreadInv(c, busy'[t], pos[t], arg[t], todo[t], polled[t], Own(screen, t), Own(port, t))
      BY <1>1, <1>2, <1>3, <1>7 DEF InPlace, ThreadInv
    <3> QED
      BY <1>1, <1>2, <2>3, <3>1 DEF InPlace
  <2> QED
    BY <2>2, <2>3
<1> QED
  BY <1>1, <1>8 DEF MeaningInv

\* A character that goes to the log its call prints to keeps its thread in place.
LEMMA PutInPlace ==
  ASSUME RoomForWords, NEW chars, PlainCalls(chars), NEW c, PlainCall(c, chars),
         NEW td \in Seq(chars), td # <<>>, NEW b, NEW p, NEW a, NEW po,
         NEW s \in Seq(chars), NEW r \in Seq(chars), ThreadInv(c, b, p, a, td, po, s, r)
  PROVE  /\ Head(td) \in chars /\ Tail(td) \in Seq(chars)
         /\ c.sink = "terminal" => ThreadInv(c, b, p, a, Tail(td), FALSE, s \o <<Head(td)>>, r)
         /\ c.sink = "serial" => ThreadInv(c, b, p, a, Tail(td), FALSE, s, r \o <<Head(td)>>)
<1>1. PICK k \in Nat : Place(c, k, p, a, Out(c, s, r) \o td)
  BY DEF ThreadInv
<1>2. b
  BY DEF ThreadInv
<1>3. c.items # <<>>
  <2>1. SUFFICES ASSUME c.items = <<>> PROVE FALSE
    OBVIOUS
  <2>2. Out(c, s, r) \o td = <<>>
    BY <1>1, <2>1, EmptyCall
  <2>3. Out(c, s, r) \in Seq(chars)
    BY DEF Out
  <2> QED
    BY <2>2, <2>3, ConcatEqualIffEmpty
<1>4. Head(td) \in chars /\ Tail(td) \in Seq(chars)
  BY HeadMoves
<1>5. ASSUME c.sink = "terminal"
      PROVE  ThreadInv(c, b, p, a, Tail(td), FALSE, s \o <<Head(td)>>, r)
  <2>1. Out(c, s, r) = s /\ Out(c, s \o <<Head(td)>>, r) = s \o <<Head(td)>>
    BY <1>5 DEF Out
  <2>2. (s \o <<Head(td)>>) \o Tail(td) = s \o td
    BY HeadMoves
  <2> QED
    BY <1>1, <1>2, <1>3, <2>1, <2>2 DEF ThreadInv
<1>6. ASSUME c.sink = "serial"
      PROVE  ThreadInv(c, b, p, a, Tail(td), FALSE, s, r \o <<Head(td)>>)
  <2>1. Out(c, s, r) = r /\ Out(c, s, r \o <<Head(td)>>) = r \o <<Head(td)>>
    BY <1>6 DEF Out
  <2>2. (r \o <<Head(td)>>) \o Tail(td) = r \o td
    BY HeadMoves
  <2> QED
    BY <1>1, <1>2, <1>3, <2>1, <2>2 DEF ThreadInv
<1> QED
  BY <1>4, <1>5, <1>6

\* What begins a beginning of a sequence is a prefix of it.
LEMMA BeginIsPrefix ==
  ASSUME NEW V, NEW x \in Seq(V), NEW y \in Seq(V), NEW m, Begins(V, x \o y, m)
  PROVE  IsPrefix(x, m)
<1>0. PICK z \in Seq(V) : z = x \o y /\ m \in Seq(V) /\ Len(z) <= Len(m)
                         /\ \A i \in 1 .. Len(z) : m[i] = z[i]
  BY DEF Begins
<1>1. PICK lx \in Nat, ly \in Nat, lm \in Nat : lx = Len(x) /\ ly = Len(y) /\ lm = Len(m)
  BY <1>0
<1>2. Len(z) = lx + ly /\ \A i \in 1 .. lx + ly : z[i] = IF i <= lx THEN x[i] ELSE y[i - lx]
  <2>1. /\ Len(x \o y) = Len(x) + Len(y)
        /\ \A i \in 1 .. Len(x) + Len(y) : (x \o y)[i] = IF i <= Len(x) THEN x[i] ELSE y[i - Len(x)]
    BY ConcatProperties
  <2> QED
    BY <1>0, <1>1, <2>1, Zenon
<1>3. lx <= lm /\ \A i \in 1 .. lx : m[i] = x[i]
  BY <1>0, <1>1, <1>2
<1>4. SubSeq(x, 1, lx) = x
  BY <1>1, SubSeqFull
<1>5. /\ SubSeq(m, 1, lx) \in Seq(V) /\ Len(SubSeq(m, 1, lx)) = lx
      /\ \A i \in 1 .. lx : SubSeq(m, 1, lx)[i] = m[i]
  <2>1. \A i \in 1 .. lx : m[i] \in V
    BY <1>0, <1>1, <1>3
  <2>2. /\ SubSeq(m, 1, lx) \in Seq(V) /\ Len(SubSeq(m, 1, lx)) = IF 1 <= lx THEN lx - 1 + 1 ELSE 0
        /\ \A i \in 1 .. lx - 1 + 1 : SubSeq(m, 1, lx)[i] = m[1 + i - 1]
    BY <2>1, SubSeqProperties
  <2> QED
    BY <2>2
<1>6. SubSeq(m, 1, lx) = x
  BY <1>1, <1>3, <1>5, SeqEqual
<1> QED
  BY <1>1, <1>3, <1>4, <1>6 DEF IsPrefix

\* terminal_putchar.
LEMMA TerminalInPlace ==
  ASSUME RoomForWords, NEW chars, PlainCalls(chars), LineInv, MeaningInv(chars),
         NEW t \in Threads, PutTerminal(t)
  PROVE  MeaningInv(chars)'
<1>1. /\ call' = call /\ busy' = busy /\ pos' = pos /\ arg' = arg /\ polled' = polled /\ port' = port
      /\ todo[t] # <<>> /\ call[t].sink = "terminal"
      /\ screen' = Append(screen, <<t, Head(todo[t])>>) /\ todo' = [todo EXCEPT ![t] = Tail(todo[t])]
  BY DEF PutTerminal, local
<1>2. PICK c, td : c = call[t] /\ td = todo[t] /\ td \in Seq(chars) /\ PlainCall(c, chars)
  BY CallsArePlain DEF MeaningInv
<1>3. PICK s \in Seq(chars), r \in Seq(chars) : s = Own(screen, t) /\ r = Own(port, t)
  BY OutType
<1>4. ThreadInv(c, busy[t], pos[t], arg[t], td, polled[t], s, r)
  BY <1>2, <1>3 DEF MeaningInv, InPlace
<1>5. /\ Head(td) \in chars /\ Tail(td) \in Seq(chars)
      /\ ThreadInv(c, busy[t], pos[t], arg[t], Tail(td), FALSE, s \o <<Head(td)>>, r)
  BY <1>1, <1>2, <1>4, PutInPlace
<1>6. Puts(screen, screen', t, Head(td)) /\ screen' \in Log(chars)
  BY <1>1, <1>2, <1>5, OwnPuts DEF MeaningInv
<1>7. \A u \in Threads : Own(screen', u) = IF t = u THEN Own(screen, u) \o <<Head(td)>> ELSE Own(screen, u)
  BY <1>6 DEF Puts
<1>8. todo' \in [Threads -> Seq(chars)]
  BY <1>1, <1>2, <1>5 DEF MeaningInv
<1>9. ASSUME NEW u \in Threads PROVE InPlace(u)'
  <2>1. InPlace(u)
    BY DEF MeaningInv
  <2>2. CASE u # t
    <3>1. todo'[u] = todo[u] /\ Own(screen', u) = Own(screen, u)
      BY <1>1, <1>7, <2>2 DEF MeaningInv
    <3> QED
      BY <1>1, <2>1, <3>1 DEF InPlace
  <2>3. CASE u = t
    <3>1. todo'[t] = Tail(td) /\ Own(screen', t) = s \o <<Head(td)>>
      BY <1>1, <1>2, <1>3, <1>7 DEF MeaningInv
    <3>2. polled[t] = FALSE
      BY <1>1, <1>2, <1>4 DEF ThreadInv, LineInv
    <3>3. ThreadInv(call'[t], busy'[t], pos'[t], arg'[t], todo'[t], polled'[t], Own(screen', t), Own(port', t))
      BY <1>1, <1>2, <1>3, <1>5, <3>1, <3>2
    <3> QED
      BY <2>3, <3>3 DEF InPlace
  <2> QED
    BY <2>2, <2>3
<1> QED
  BY <1>1, <1>6, <1>8, <1>9 DEF MeaningInv

\* serial_putchar's poll.
LEMMA PollInPlace ==
  ASSUME NEW chars, LineInv, MeaningInv(chars), NEW t \in Threads, PollSerial(t)
  PROVE  MeaningInv(chars)'
<1>1. /\ call' = call /\ busy' = busy /\ pos' = pos /\ arg' = arg /\ port' = port /\ screen' = screen
      /\ todo' = todo /\ todo[t] # <<>> /\ call[t].sink = "serial"
      /\ polled' = [polled EXCEPT ![t] = TRUE]
  BY DEF PollSerial, local
<1>2. ASSUME NEW u \in Threads PROVE InPlace(u)'
  <2>1. InPlace(u)
    BY DEF MeaningInv
  <2>2. CASE u # t
    <3>1. polled'[u] = polled[u]
      BY <1>1, <2>2 DEF LineInv
    <3> QED
      BY <1>1, <2>1, <3>1 DEF InPlace
  <2>3. CASE u = t
    <3>1. ThreadInv(call[t], busy[t], pos[t], arg[t], todo[t], polled'[t], Own(screen, t), Own(port, t))
      BY <1>1, <2>1, <2>3 DEF InPlace, ThreadInv
    <3> QED
      BY <1>1, <2>3, <3>1 DEF InPlace
  <2> QED
    BY <2>2, <2>3
<1> QED
  BY <1>1, <1>2 DEF MeaningInv

\* serial_putchar's write: the line is set up, so that the byte arrives as it is.
LEMMA SerialInPlace ==
  ASSUME RoomForWords, NEW chars, PlainCalls(chars), LineInv, MeaningInv(chars),
         NEW t \in Threads, PutSerial(t)
  PROVE  MeaningInv(chars)'
<1>1. /\ call' = call /\ busy' = busy /\ pos' = pos /\ arg' = arg /\ screen' = screen
      /\ polled[t] /\ polled' = [polled EXCEPT ![t] = FALSE]
      /\ todo' = [todo EXCEPT ![t] = Tail(todo[t])]
      /\ port' = IF uart.dlab = 1 THEN port ELSE Append(port, <<t, Arrives(Head(todo[t]))>>)
  BY DEF PutSerial, local
<1>2. PICK c, td : c = call[t] /\ td = todo[t] /\ td \in Seq(chars) /\ PlainCall(c, chars)
  BY CallsArePlain DEF MeaningInv
<1>3. PICK s \in Seq(chars), r \in Seq(chars) : s = Own(screen, t) /\ r = Own(port, t)
  BY OutType
<1>4. ThreadInv(c, busy[t], pos[t], arg[t], td, polled[t], s, r)
  BY <1>2, <1>3 DEF MeaningInv, InPlace
<1>5. td # <<>> /\ c.sink = "serial"
  BY <1>1, <1>4 DEF ThreadInv
<1>6. /\ Head(td) \in chars /\ Tail(td) \in Seq(chars)
      /\ ThreadInv(c, busy[t], pos[t], arg[t], Tail(td), FALSE, s, r \o <<Head(td)>>)
  BY <1>2, <1>4, <1>5, PutInPlace
<1>7. port' = Append(port, <<t, Head(td)>>)
  <2>1. uart = LineUart
    BY <1>1 DEF LineInv
  <2>2. uart.dlab = 0 /\ uart.divisor = <<3, 0>> /\ uart.format = 3
    BY <2>1 DEF LineUart
  <2>3. Arrives(Head(td)) = Head(td)
    BY <2>2 DEF Arrives
  <2> QED
    BY <1>1, <1>2, <2>2, <2>3
<1>8. Puts(port, port', t, Head(td)) /\ port' \in Log(chars)
  BY <1>6, <1>7, OwnPuts DEF MeaningInv
<1>9. \A u \in Threads : Own(port', u) = IF t = u THEN Own(port, u) \o <<Head(td)>> ELSE Own(port, u)
  BY <1>8 DEF Puts
<1>10. todo' \in [Threads -> Seq(chars)]
  BY <1>1, <1>2, <1>6 DEF MeaningInv
<1>11. ASSUME NEW u \in Threads PROVE InPlace(u)'
  <2>1. InPlace(u)
    BY DEF MeaningInv
  <2>2. CASE u # t
    <3>1. todo'[u] = todo[u] /\ Own(port', u) = Own(port, u) /\ polled'[u] = polled[u]
      BY <1>1, <1>9, <2>2 DEF MeaningInv, LineInv
    <3> QED
      BY <1>1, <2>1, <3>1 DEF InPlace
  <2>3. CASE u = t
    <3>1. todo'[t] = Tail(td) /\ Own(port', t) = r \o <<Head(td)>> /\ polled'[t] = FALSE
      BY <1>1, <1>2, <1>3, <1>9 DEF MeaningInv, LineInv
    <3>2. ThreadInv(call'[t], busy'[t], pos'[t], arg'[t], todo'[t], polled'[t], Own(screen', t), Own(port', t))
      BY <1>1, <1>2, <1>3, <1>6, <3>1
    <3> QED
      BY <2>3, <3>2 DEF InPlace
  <2> QED
    BY <2>2, <2>3
<1> QED
  BY <1>1, <1>8, <1>10, <1>11 DEF MeaningInv

\* Every step keeps every thread in place.
LEMMA MeaningStep ==
  ASSUME RoomForWords, NEW chars, PlainCalls(chars), LineInv, MeaningInv(chars), [Next]_vars
  PROVE  MeaningInv(chars)'
<1>1. ASSUME NEW t \in Threads, NEW c \in Calls, Call(t, c) PROVE MeaningInv(chars)'
  BY <1>1, CallInPlace
<1>2. ASSUME NEW t \in Threads, Scan(t) PROVE MeaningInv(chars)'
  BY <1>2, ScanInPlace
<1>3. ASSUME NEW t \in Threads, Return(t) PROVE MeaningInv(chars)'
  BY <1>3, ReturnInPlace
<1>4. ASSUME NEW t \in Threads, PutTerminal(t) PROVE MeaningInv(chars)'
  BY <1>4, TerminalInPlace
<1>5. ASSUME NEW t \in Threads, PollSerial(t) PROVE MeaningInv(chars)'
  BY <1>5, PollInPlace
<1>6. ASSUME NEW t \in Threads, PutSerial(t) PROVE MeaningInv(chars)'
  BY <1>6, SerialInPlace
<1>7. ASSUME Transmit \/ SerialInit \/ UNCHANGED vars PROVE MeaningInv(chars)'
  <2>1. /\ call' = call /\ busy' = busy /\ pos' = pos /\ arg' = arg /\ todo' = todo
        /\ polled' = polled /\ screen' = screen /\ port' = port
    BY <1>7 DEF Transmit, SerialInit, vars, local
  <2> QED
    BY <2>1 DEF MeaningInv, InPlace
<1> QED
  BY <1>1, <1>2, <1>3, <1>4, <1>5, <1>6, <1>7 DEF Next, Progress

\* In every state each thread that prints is between two items of its call.
THEOREM MeaningInvariant ==
  ASSUME RoomForWords, NEW CONSTANT chars, PlainCalls(chars)
  PROVE  Spec => []MeaningInv(chars)
<1>1. Init => MeaningInv(chars)
  BY MeaningStart
<1>2. LineInv /\ MeaningInv(chars) /\ [Next]_vars => MeaningInv(chars)'
  BY MeaningStep
<1> QED
  BY <1>1, <1>2, LineInvariant, PTL DEF Spec

\* PrintsMeaning: kprintf and serial_printf print what their format and their arguments mean.
THEOREM PrintsMeaningHolds ==
  ASSUME RoomForWords, NEW CONSTANT chars, PlainCalls(chars)
  PROVE  Spec => []PrintsMeaning
<1>1. LineInv /\ MeaningInv(chars) => PrintsMeaning
  <2> SUFFICES ASSUME LineInv, MeaningInv(chars), NEW t \in Threads
               PROVE  /\ IsPrefix(Printed(t), Meaning(call[t]))
                      /\ ~busy[t] => Printed(t) = Meaning(call[t])
                      /\ \A i \in 1 .. Len(call[t].items) :
                           /\ Len(Buffer(call[t].items[i].num, 10)) <= DecRoom
                           /\ Len(Buffer(call[t].items[i].num, 16)) <= HexRoom
    BY DEF PrintsMeaning
  <2>1. PlainCall(call[t], chars) /\ InPlace(t)
    BY CallsArePlain DEF MeaningInv
  <2>2. Printed(t) = Out(call[t], Own(screen, t), Own(port, t)) /\ Printed(t) \in Seq(chars)
    <3>1. Printed(t) = Out(call[t], Own(screen, t), Own(port, t))
      BY DEF Printed, Out
    <3> QED
      BY <3>1, OutType
  <2>3. ~busy[t] => Printed(t) = Meaning(call[t])
    BY <2>1, <2>2 DEF InPlace, ThreadInv
  <2>4. PICK k \in Nat : Place(call[t], k, pos[t], arg[t], Printed(t) \o todo[t])
    BY <2>1, <2>2 DEF InPlace, ThreadInv
  <2>5. PICK x \in Seq(chars), y \in Seq(chars), m \in Seq(chars) :
          x = Printed(t) /\ y = todo[t] /\ m = Meaning(call[t])
    BY <2>1, <2>2, Places DEF MeaningInv
  <2>6. Begins(chars, x \o y, m)
    BY <2>1, <2>4, <2>5, PlaceBegins
  <2>7. IsPrefix(x, m)
    BY <2>6, BeginIsPrefix
  <2>8. ASSUME NEW i \in 1 .. Len(call[t].items)
        PROVE  /\ Len(Buffer(call[t].items[i].num, 10)) <= DecRoom
               /\ Len(Buffer(call[t].items[i].num, 16)) <= HexRoom
    <3>1. call[t].items[i].num \in Words
      BY <2>1 DEF PlainCall, PlainItem
    <3> QED
      BY <3>1, NumeralsAreConverted
  <2> QED
    BY <2>3, <2>5, <2>7, <2>8
<1> QED
  BY <1>1, LineInvariant, MeaningInvariant, PTL
=============================================================================
