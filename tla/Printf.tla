------------------------------- MODULE Printf -------------------------------
(***************************************************************************)
(* Formatted output: kprintf (kprintf.c) to the terminal and serial_printf *)
(* (serial.c) to the serial port.  Several threads may be in them at once  *)
(* and are preempted between any two characters; the serial port is polled *)
(* and has a transmit FIFO.                                                *)
(*                                                                         *)
(* A call is a sequence of items; the callee sees only the characters and  *)
(* the arguments that the items spell.  Words are small in the instances.  *)
(***************************************************************************)
EXTENDS Integers, FiniteSets, Sequences, SequencesExt

CONSTANTS
  Threads,     \* the threads that print
  Calls,       \* the calls they make: records of sink and items
  Word,        \* 2^32
  DecRoom,     \* the length of print_uint's buffer (12)
  HexRoom,     \* the length of print_hex's buffer (8)
  FifoDepth    \* the depth of the transmit FIFO (16)

Item(k, c, n, s) == [kind |-> k, char |-> c, num |-> n, str |-> s]
Lit(c)     == Item("lit", c, 0, <<>>)
Number(k, n) == Item(k, "", n, <<>>)     \* k is "d", "u" or "x"
Str(s)     == Item("s", "", 0, s)
Percent    == Item("%", "", 0, <<>>)

Words == 0 .. Word - 1
Directives == {"d", "u", "x", "s"}

ASSUME PrintfAssumption ==
  /\ Word \in Nat \ {0, 1} /\ DecRoom \in Nat /\ HexRoom \in Nat /\ FifoDepth \in Nat \ {0}
  /\ \A c \in Calls : c.sink \in {"terminal", "serial"}

\* What an item adds to the format string and to the arguments.
Spelled(it) == IF it.kind = "lit" THEN <<it.char>> ELSE <<"%", it.kind>>
Passed(it) == IF it.kind \in Directives THEN <<it>> ELSE <<>>

\* The format string and the arguments of a call.
Text(cl) == FlattenSeq([i \in 1 .. Len(cl.items) |-> Spelled(cl.items[i])])
Args(cl) == FlattenSeq([i \in 1 .. Len(cl.items) |-> Passed(cl.items[i])])

VARIABLES
  call,    \* the call of each thread, the last one after its return
  busy,    \* the thread is in that call
  pos,     \* the position of its format pointer
  arg,     \* the position of its va_list
  todo,    \* characters it has converted and not yet put
  polled,  \* serial_putchar has seen an empty transmitter
  screen,  \* what terminal_putchar was called with, and by whom
  port,    \* what was written to COM1, and by whom
  sent,    \* how many of these the serial port has sent
  overrun, \* a byte was written to a full transmitter
  uart,    \* the registers of the serial port
  ready    \* serial_init has been called

vars == <<call, busy, pos, arg, todo, polled, screen, port, sent, overrun, uart, ready>>
local == <<call, busy, pos, arg, uart, ready>>

-----------------------------------------------------------------------------
(* Conversions.                                                            *)

Digit == <<"0", "1", "2", "3", "4", "5", "6", "7", "8", "9", "A", "B", "C", "D", "E", "F">>

\* The buffer of print_uint and print_hex: the last digit comes first.
Buffer(n, base) ==
  LET f[k \in Words] == IF k = 0 THEN <<>> ELSE <<Digit[(k % base) + 1]>> \o f[k \div base]
  IN  f[n]

\* Mutant: the digits are put in the order of the buffer.
ConvertedBackwards(n, base) == IF n = 0 THEN <<"0">> ELSE Buffer(n, base)

\* What print_uint and print_hex put.
Converted(n, base) == IF n = 0 THEN <<"0">> ELSE Reverse(Buffer(n, base))

\* print_int: the sign, and the number negated in a machine word.
Signed(n) ==
  IF n >= Word \div 2 THEN <<"-">> \o Converted((Word - n) % Word, 10) ELSE Converted(n, 10)

\* The character at a position of the format string; a zero ends it.
CharAt(t) == IF pos[t] <= Len(Text(call[t])) THEN Text(call[t])[pos[t]] ELSE "end"

\* What a directive puts.  kprintf drops one it does not know; serial_printf
\* copies it.
Expansion(t, c) ==
  LET v == Args(call[t])[arg[t]]
  IN  CASE c = "d" -> Signed(v.num)
        [] c = "u" -> Converted(v.num, 10)
        [] c = "x" -> Converted(v.num, 16)
        [] c = "s" -> v.str
        [] c = "%" /\ call[t].sink = "serial" -> <<"%">>
        [] c = "%" /\ call[t].sink = "terminal" -> <<"%", "%">>
        [] OTHER -> IF call[t].sink = "serial" THEN <<"%", c>> ELSE <<>>

-----------------------------------------------------------------------------
(* The serial port's registers.                                            *)

RegWrite(r, b) == [reg |-> r, byte |-> b]

\* The registers 3 (bit 7 is DLAB), 0 and 1 (the two halves of the divisor) and 2.
SetLine(u, b) == [u EXCEPT !.dlab = b \div 128, !.format = b % 128]
SetDivisor(u, half, b) == [u EXCEPT !.divisor[half] = b]
SetFifo(u, b) == [u EXCEPT !.fifo = b % 2]

\* A byte written to a register.  Only while DLAB is set are the registers 0 and 1 the
\* divisor.
Written(u, w) ==
  CASE w.reg = 3 -> SetLine(u, w.byte)
    [] w.reg \in {0, 1} /\ u.dlab = 1 -> SetDivisor(u, w.reg + 1, w.byte)
    [] w.reg = 2 -> SetFifo(u, w.byte)
    [] OTHER -> u

\* Mutant: the FIFO is not enabled.
InitWritesNoFifo ==
  <<RegWrite(1, 0), RegWrite(3, 128), RegWrite(0, 3), RegWrite(1, 0), RegWrite(3, 3),
    RegWrite(2, 0), RegWrite(4, 11)>>

\* The writes of serial_init.
InitWrites ==
  <<RegWrite(1, 0), RegWrite(3, 128), RegWrite(0, 3), RegWrite(1, 0), RegWrite(3, 3),
    RegWrite(2, 199), RegWrite(4, 11)>>

\* The registers after the first k writes of serial_init.
Programmed ==
  LET after[k \in 0 .. Len(InitWrites)] ==
        IF k = 0 THEN uart ELSE Written(after[k - 1], InitWrites[k])
  IN  after

SerialInit ==
  /\ ~ready /\ ready' = TRUE
  /\ uart' = Programmed[Len(InitWrites)]
  /\ UNCHANGED <<call, busy, pos, arg, todo, polled, screen, port, sent, overrun>>

\* The bytes the transmitter holds.
Depth == IF uart.fifo = 1 THEN FifoDepth ELSE 1

\* What arrives at the other end of the line, which is set to 38400 baud, 8 bits,
\* no parity and one stop bit.
Arrives(c) == IF uart.divisor = <<3, 0>> /\ uart.format = 3 THEN c ELSE "garbled"

-----------------------------------------------------------------------------
(* The callers.                                                            *)

\* A thread calls kprintf or serial_printf; kernel_main has called serial_init.
Call(t, c) ==
  /\ ready /\ ~busy[t] /\ call[t].items = <<>>
  /\ call' = [call EXCEPT ![t] = c]
  /\ busy' = [busy EXCEPT ![t] = TRUE]
  /\ UNCHANGED <<pos, arg, todo, polled, screen, port, sent, overrun, uart, ready>>

\* How far a directive moves the format pointer.
DirectiveLength == 2

\* The loop over the format string: a directive is converted, any other
\* character is put as it is.
Scan(t) ==
  /\ busy[t] /\ todo[t] = <<>> /\ CharAt(t) # "end"
  /\ IF CharAt(t) = "%"
     THEN LET c == Text(call[t])[pos[t] + 1]
          IN  /\ todo' = [todo EXCEPT ![t] = Expansion(t, c)]
              /\ pos' = [pos EXCEPT ![t] = @ + DirectiveLength]
              /\ arg' = [arg EXCEPT ![t] = IF c \in Directives THEN @ + 1 ELSE @]
     ELSE /\ todo' = [todo EXCEPT ![t] = <<CharAt(t)>>]
          /\ pos' = [pos EXCEPT ![t] = @ + 1]
          /\ UNCHANGED arg
  /\ UNCHANGED <<call, busy, polled, screen, port, sent, overrun, uart, ready>>

Return(t) ==
  /\ busy[t] /\ todo[t] = <<>> /\ CharAt(t) = "end"
  /\ busy' = [busy EXCEPT ![t] = FALSE]
  /\ UNCHANGED <<call, pos, arg, todo, polled, screen, port, sent, overrun, uart, ready>>

\* terminal_putchar.
PutTerminal(t) ==
  /\ todo[t] # <<>> /\ call[t].sink = "terminal"
  /\ screen' = Append(screen, <<t, Head(todo[t])>>)
  /\ todo' = [todo EXCEPT ![t] = Tail(@)]
  /\ UNCHANGED <<local, polled, port, sent, overrun>>

\* Mutant: the bit polled says that the port has sent something.
TransmitDone == sent = Len(port) /\ port # <<>>

\* serial_is_transmit_empty: the FIFO has been sent.
TransmitEmpty == sent = Len(port)

\* serial_putchar's loop ends, and the byte is written.
PollSerial(t) ==
  /\ todo[t] # <<>> /\ call[t].sink = "serial" /\ ~polled[t]
  /\ TransmitEmpty
  /\ polled' = [polled EXCEPT ![t] = TRUE]
  /\ UNCHANGED <<local, todo, screen, port, sent, overrun>>

PutSerial(t) ==
  /\ polled[t]
  /\ overrun' = (overrun \/ Len(port) - sent >= Depth)
  /\ port' = IF uart.dlab = 1 THEN port ELSE Append(port, <<t, Arrives(Head(todo[t]))>>)
  /\ todo' = [todo EXCEPT ![t] = Tail(@)]
  /\ polled' = [polled EXCEPT ![t] = FALSE]
  /\ UNCHANGED <<local, screen, sent>>

\* The serial port sends a byte of its FIFO.
Transmit ==
  /\ sent < Len(port)
  /\ sent' = sent + 1
  /\ UNCHANGED <<local, todo, polled, screen, port, overrun>>

-----------------------------------------------------------------------------

Nothing == [sink |-> "terminal", items |-> <<>>]

Init ==
  /\ call = [t \in Threads |-> Nothing]
  /\ busy = [t \in Threads |-> FALSE]
  /\ pos = [t \in Threads |-> 1] /\ arg = [t \in Threads |-> 1]
  /\ todo = [t \in Threads |-> <<>>] /\ polled = [t \in Threads |-> FALSE]
  /\ screen = <<>> /\ port = <<>> /\ sent = 0 /\ overrun = FALSE
  /\ uart \in [dlab : {0, 1}, divisor : {<<12, 0>>}, format : {3}, fifo : {0, 1}]
  /\ ready = FALSE

Progress(t) == Scan(t) \/ Return(t) \/ PutTerminal(t) \/ PollSerial(t) \/ PutSerial(t)

Next ==
  \/ \E t \in Threads : Progress(t) \/ \E c \in Calls : Call(t, c)
  \/ Transmit \/ SerialInit

Spec == Init /\ [][Next]_vars

\* Every thread runs again and again (NoStarvation of RoundRobin), and the serial
\* port sends.  A thread that polls has the processor to itself for a tick, longer
\* than the port needs to send, so that nobody fills the FIFO before it sees it
\* empty: polling is strongly fair.
FairSpec ==
  /\ Spec /\ WF_vars(Transmit)
  /\ \A t \in Threads : WF_vars(Progress(t)) /\ SF_vars(PollSerial(t))

-----------------------------------------------------------------------------
(* Properties.                                                             *)

\* The numeral of a word: the one sequence of digits without a leading zero that
\* denotes it.
DigitValue(c, base) == (CHOOSE k \in 1 .. base : Digit[k] = c) - 1
Value(s, base) ==
  LET v[i \in 0 .. Len(s)] == IF i = 0 THEN 0 ELSE v[i - 1] * base + DigitValue(s[i], base)
  IN  v[Len(s)]
Numerals(base, room) ==
  {s \in UNION {[1 .. k -> {Digit[d] : d \in 1 .. base}] : k \in 1 .. room} :
     Len(s) > 1 => s[1] # "0"}
DecNumeral == [n \in Words |-> CHOOSE s \in Numerals(10, DecRoom) : Value(s, 10) = n]
HexNumeral == [n \in Words |-> CHOOSE s \in Numerals(16, HexRoom) : Value(s, 16) = n]

\* What an item prints: "%d (int), %u (unsigned), %x (hex), %s (string),
\* %% (literal %)" (kprintf.h:5), with one exception: "%%" is a literal % in
\* serial_printf only; kprintf puts a second one behind it (kprintf.c:74).
ItemMeaning(it, sink) ==
  CASE it.kind = "d" -> IF it.num >= Word \div 2 THEN <<"-">> \o DecNumeral[Word - it.num]
                        ELSE DecNumeral[it.num]
    [] it.kind = "u" -> DecNumeral[it.num]
    [] it.kind = "x" -> HexNumeral[it.num]
    [] it.kind = "s" -> it.str
    [] it.kind = "%" -> IF sink = "terminal" THEN <<"%", "%">> ELSE <<"%">>
    [] it.kind = "lit" -> <<it.char>>

Meaning(c) == FlattenSeq([i \in 1 .. Len(c.items) |-> ItemMeaning(c.items[i], c.sink)])

\* What a thread has put to a log.
Own(log, t) == FlattenSeq([i \in 1 .. Len(log) |-> IF log[i][1] = t THEN <<log[i][2]>> ELSE <<>>])
Printed(t) == Own(IF call[t].sink = "terminal" THEN screen ELSE port, t)

\* Whatever else is printed at the same time, the characters a call has put are
\* the beginning of what its format and its arguments mean, in its order, and
\* all of it once the call has returned, also at the other end of the serial line,
\* which the order of serial_init's writes has to set up; and the digits of every word fit the
\* buffer they are converted in.
PrintsMeaning ==
  \A t \in Threads :
    /\ IsPrefix(Printed(t), Meaning(call[t]))
    /\ ~busy[t] => Printed(t) = Meaning(call[t])
    /\ \A i \in 1 .. Len(call[t].items) :
         /\ Len(Buffer(call[t].items[i].num, 10)) <= DecRoom
         /\ Len(Buffer(call[t].items[i].num, 16)) <= HexRoom

\* No byte is lost in the serial port: callers that saw it empty before any of them
\* wrote fill its FIFO together, and there are no more of them than it holds; it
\* holds one byte only unless serial_init has enabled the FIFO.
NoOverrun == ~overrun

\* Every call returns, also when several threads wait for the serial port.
PrintReturns == \A t \in Threads : busy[t] ~> ~busy[t]
=============================================================================
