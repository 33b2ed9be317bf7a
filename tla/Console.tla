------------------------------ MODULE Console ------------------------------
(***************************************************************************)
(* The console: the VGA terminal (kernel.c), the keyboard handler          *)
(* (keyboard.c) and the shell's line editor (shell.c), which runs inside   *)
(* that handler with interrupts off, and the threads of kernel.c that      *)
(* print a character at a time and can be interrupted between any two      *)
(* stores to the terminal's globals.                                       *)
(*                                                                         *)
(* Key presses before the shell's first prompt are left out.               *)
(***************************************************************************)
EXTENDS Integers, Sequences, SequencesExt

CONSTANTS
  Width,      \* VGA_WIDTH
  Height,     \* VGA_HEIGHT
  MaxCmd,     \* MAX_CMD_LENGTH
  Letters,    \* the keys with a printable character
  Editing,    \* the other keys that are pressed: newline and backspace
  ClearCmd,   \* the line that clears the screen
  TextCmd,    \* a line that prints a text
  Threads,    \* the threads that print
  Users       \* who uses the terminal in a run: sets of "keys" and "threads"

\* Characters: what a key prints without shift, or with it.
Plain(k) == [key |-> k, shifted |-> FALSE]
Newline == Plain("newline")
Backspace == Plain("backspace")
Blank == Plain(" ")

ASSUME ConsoleAssumption ==
  /\ Width \in Nat \ {0} /\ Height \in Nat \ {0} /\ MaxCmd \in Nat \ {0}
  /\ Editing \subseteq {"newline", "backspace"}
  /\ Users \subseteq SUBSET {"keys", "threads"}
  /\ MaxCmd + 1 <= Width * (Height - 1)   \* a prompt and a full line fit the screen

VARIABLES
  term,      \* terminal_row, terminal_column, the cells and the hardware cursor
  cmd,       \* cmd_buffer up to cmd_length
  shift,     \* shift_held
  pc,        \* where each thread is in terminal_putchar
  reg,       \* the row and the column it holds in registers
  disturbed, \* history: terminal_putchar was entered while a thread was inside it
  users      \* who uses the terminal in this behaviour: chosen at first

vars == <<term, cmd, shift, pc, reg, disturbed, users>>

-----------------------------------------------------------------------------
(* The terminal.                                                           *)

Cells == 0 .. Width * Height - 1
Position(t) == t.row * Width + t.col

\* terminal_initialize.
Initialized(cursor) ==
  [row |-> 0, col |-> 0, cells |-> [i \in Cells |-> Blank], cursor |-> cursor]

\* terminal_scroll.
Scrolled(cells) ==
  [i \in Cells |-> IF i + Width \in Cells THEN cells[i + Width] ELSE Blank]

\* The cursor moves to the next line; at the bottom the screen scrolls instead.
NewLine(t) ==
  IF t.row + 1 = Height
  THEN [t EXCEPT !.col = 0, !.row = Height - 1, !.cells = Scrolled(@)]
  ELSE [t EXCEPT !.col = 0, !.row = @ + 1]

\* Mutant: a backspace stays in its row.
BackWithinRow(t) == IF t.col > 0 THEN [t EXCEPT !.col = @ - 1] ELSE t

\* Where a backspace moves the cursor.
Back(t) ==
  IF t.col > 0 THEN [t EXCEPT !.col = @ - 1]
  ELSE IF t.row > 0 THEN [t EXCEPT !.row = @ - 1, !.col = Width - 1]
  ELSE t

\* terminal_update_cursor.
UpdateCursor(t) == [t EXCEPT !.cursor = Position(t)]

\* terminal_putchar.  A newline leaves the hardware cursor where it is.
PutChar(t, c) ==
  CASE c = Newline -> NewLine(t)
    [] c = Backspace ->
         LET b == Back(t)
         IN  UpdateCursor([b EXCEPT !.cells[Position(b)] = Blank])
    [] OTHER ->
         LET p == [t EXCEPT !.cells[Position(t)] = c, !.col = @ + 1]
         IN  UpdateCursor(IF p.col = Width THEN NewLine(p) ELSE p)

\* terminal_write.
Write(t, text) ==
  LET put[i \in 0 .. Len(text)] == IF i = 0 THEN t ELSE PutChar(put[i - 1], text[i])
  IN  put[Len(text)]

-----------------------------------------------------------------------------
(* The shell.                                                              *)

\* Mutant: no prompt after a command.
PromptMissing == <<>>

\* shell_prompt.
Prompt == <<Plain(">"), Blank>>

\* shell_execute: the command's output, or the line as an unknown command, and
\* the next prompt.
Execute(t) ==
  LET out == CASE cmd = ClearCmd -> Initialized(t.cursor)
               [] cmd = TextCmd  -> Write(t, <<Plain("text"), Newline>>)
               [] OTHER          -> Write(t, <<Plain("unknown")>> \o cmd \o <<Newline>>)
  IN  Write(out, Prompt)

\* Room for one more character and the terminating zero.
Room == Len(cmd) < MaxCmd - 1

\* shell_handle_key.
HandleKey(c) ==
  \/ /\ c = Newline
     /\ term' = Execute(PutChar(term, Newline))
     /\ cmd' = <<>>
  \/ /\ c = Backspace /\ cmd # <<>>
     /\ cmd' = Front(cmd)
     /\ term' = PutChar(term, Backspace)
  \/ /\ c \notin {Newline, Backspace} /\ Room
     /\ cmd' = Append(cmd, c)
     /\ term' = PutChar(term, c)

\* Somebody enters terminal_putchar.
Enter == disturbed' = (disturbed \/ \E t \in Threads : pc[t] # "load")

\* The two scancode tables agree on newline and backspace.
KeyChar(k) == [key |-> k, shifted |-> shift /\ k \in Letters]

\* keyboard_handler for a key that is pressed: it may interrupt a thread
\* anywhere.  The releases of other keys are ignored.
KeyPress(k) ==
  /\ HandleKey(KeyChar(k))
  /\ Enter
  /\ UNCHANGED <<shift, pc, reg>>

\* keyboard_handler for a shift key that is pressed or released.
ShiftKey(down) ==
  /\ shift # down
  /\ shift' = down
  /\ UNCHANGED <<term, cmd, pc, reg, disturbed>>

-----------------------------------------------------------------------------
(* The threads: terminal_putchar of a printable character, in the loads and *)
(* stores that the build (gcc -O2) makes of it: row and column are loaded    *)
(* once, compared in registers, and stored.                                  *)

\* What a thread's registers hold outside terminal_putchar does not matter.
Unused == [row |-> 0, col |-> 0]

Step(t, from, to) == pc[t] = from /\ pc' = [pc EXCEPT ![t] = to]

ThreadLoad(t) ==
  /\ Step(t, "load", "put")
  /\ reg' = [reg EXCEPT ![t] = [row |-> term.row, col |-> term.col]]
  /\ Enter
  /\ UNCHANGED <<term, cmd, shift>>

ThreadPut(t) ==
  /\ Step(t, "put", IF reg[t].col + 1 = Width THEN "column" ELSE "advance")
  /\ term' = [term EXCEPT !.cells = IF Position(reg[t]) \in Cells
                                    THEN [@ EXCEPT ![Position(reg[t])] = Plain(t)] ELSE @]
  /\ UNCHANGED <<cmd, shift, reg, disturbed>>

ThreadAdvance(t) ==
  /\ Step(t, "advance", "cursor")
  /\ reg' = [reg EXCEPT ![t].col = @ + 1]
  /\ term' = [term EXCEPT !.col = reg'[t].col]
  /\ UNCHANGED <<cmd, shift, disturbed>>

ThreadColumn(t) ==
  /\ Step(t, "column", "row")
  /\ reg' = [reg EXCEPT ![t].col = 0]
  /\ term' = [term EXCEPT !.col = 0]
  /\ UNCHANGED <<cmd, shift, disturbed>>

\* Mutant: the bottom is noticed one row late.
AtBottomLate(row) == row = Height + 1

\* The row that was just stored is past the screen.
AtBottom(row) == row = Height

ThreadRow(t) ==
  /\ Step(t, "row", IF AtBottom(reg[t].row + 1) THEN "scroll" ELSE "cursor")
  /\ reg' = [reg EXCEPT ![t].row = @ + 1]
  /\ term' = [term EXCEPT !.row = reg'[t].row]
  /\ UNCHANGED <<cmd, shift, disturbed>>

ThreadScroll(t) ==
  /\ Step(t, "scroll", "reset")
  /\ term' = [term EXCEPT !.cells = Scrolled(@)]
  /\ UNCHANGED <<cmd, shift, reg, disturbed>>

ThreadReset(t) ==
  /\ Step(t, "reset", "cursor")
  /\ reg' = [reg EXCEPT ![t].row = Height - 1]
  /\ term' = [term EXCEPT !.row = Height - 1]
  /\ UNCHANGED <<cmd, shift, disturbed>>

\* Where the thread sets the hardware cursor.
ShownPosition(t) == Position(reg[t])

ThreadCursor(t) ==
  /\ Step(t, "cursor", "load")
  /\ term' = [term EXCEPT !.cursor = ShownPosition(t)]
  /\ reg' = [reg EXCEPT ![t] = Unused]
  /\ UNCHANGED <<cmd, shift, disturbed>>

ThreadStep(t) ==
  \/ ThreadLoad(t) \/ ThreadPut(t) \/ ThreadAdvance(t) \/ ThreadColumn(t)
  \/ ThreadRow(t) \/ ThreadScroll(t) \/ ThreadReset(t) \/ ThreadCursor(t)

\* The shell has printed its welcome and its first prompt.
Init ==
  /\ term = Write(Initialized(0), <<Plain("text"), Newline>> \o Prompt)
  /\ cmd = <<>>
  /\ shift = FALSE
  /\ pc = [t \in Threads |-> "load"]
  /\ reg = [t \in Threads |-> Unused]
  /\ disturbed = FALSE
  /\ users \in Users

Next ==
  /\ \/ /\ "keys" \in users
        /\ \/ \E k \in Letters \cup Editing : KeyPress(k)
           \/ \E down \in BOOLEAN : ShiftKey(down)
     \/ "threads" \in users /\ \E t \in Threads : ThreadStep(t)
  /\ UNCHANGED users

Spec == Init /\ [][Next]_vars

-----------------------------------------------------------------------------
(* Properties.                                                             *)

\* The keyboard's line is safe from the threads: it leaves room for the zero
\* that shell_execute stores.  And while no thread prints, what the user sees is
\* what the shell has: the cells in front of the cursor are the prompt and the
\* line typed so far, across wraps, scrolling, editing and every command.
EchoMatchesLine ==
  /\ Len(cmd) + 1 <= MaxCmd
  /\ users = {"keys"} =>
       LET shown == Prompt \o cmd
           start == Position(term) - Len(shown)
       IN  start >= 0 /\ \A i \in 1 .. Len(shown) : term.cells[start + i - 1] = shown[i]

AtRest == \A t \in Threads : pc[t] = "load"

\* Until terminal_putchar is first entered while a thread is inside it, the
\* hardware cursor is, between two characters, where the next one goes, whoever
\* of the keyboard and the threads put the last, and though a newline alone
\* does not move it.
CursorShown == ~disturbed /\ AtRest => term.cursor = Position(term)

\* The column is in range under every interleaving of the keyboard and the
\* threads; the row, and with it every cell that is written, until
\* terminal_putchar is first entered while a thread is inside it.
OnScreenUndisturbed ==
  /\ term.col < Width
  /\ ~disturbed => /\ AtRest => term.row < Height
                  /\ \A t \in Threads : pc[t] = "put" => Position(reg[t]) \in Cells

\* Whoever writes next writes to a cell of the screen: the row and the column
\* are in range (0-24 and 0-79 in kernel.c) whenever a thread starts to put a
\* character or a key may be pressed.
OnScreen ==
  ("keys" \in users \/ \E t \in Threads : pc[t] = "load") =>
    term.row < Height /\ term.col < Width
=============================================================================
