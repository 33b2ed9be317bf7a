--------------------------- MODULE ConsoleProofs ---------------------------
(***************************************************************************)
(* Proofs about Console for every size of the screen and of the line, every*)
(* set of keys and of threads and every pair of commands, for keyboard and *)
(* threads in every interleaving.                                          *)
(*                                                                         *)
(* What a text does to the terminal is proved by induction on its length,  *)
(* in the form of a least counterexample.                                  *)
(***************************************************************************)
EXTENDS Console, SequenceTheorems, WellFoundedInduction, TLAPS

\* A set of natural numbers has a least element.
LEMMA LeastNatural ==
  ASSUME NEW S \in SUBSET Nat, S # {}
  PROVE  \E n \in S : \A m \in S : n <= m
<1>1. PICK n \in S : \A m \in S : ~(<<m, n>> \in OpToRel(<, Nat))
  BY NatLessThanWellFounded, WFMin
<1>2. \A m \in S : ~(m < n)
  BY <1>1 DEF OpToRel
<1> QED
  BY <1>2

-----------------------------------------------------------------------------
(* A text is written character by character.                               *)

\* The first n characters of a text, put one after the other.
Puts(f, n, t, text) ==
  /\ f = [i \in 0 .. n |-> IF i = 0 THEN t ELSE PutChar(f[i - 1], text[i])]

CanPut(n, t, text) == \E f : Puts(f, n, t, text)

\* Every text can be written: the recursion of Write has a solution.
LEMMA PutsExist ==
  ASSUME NEW t, NEW text, NEW n \in Nat
  PROVE  CanPut(n, t, text)
<1> DEFINE Bad == {k \in Nat : ~CanPut(k, t, text)}
<1>1. SUFFICES ASSUME Bad # {} PROVE FALSE
  OBVIOUS
<1>2. PICK k \in Bad : \A j \in Bad : k <= j
  BY <1>1, LeastNatural
<1>3. k \in Nat /\ ~CanPut(k, t, text)
  BY <1>2
<1>4. CanPut(0, t, text)
  <2> DEFINE f == [i \in 0 .. 0 |-> t]
  <2>1. Puts(f, 0, t, text)
    BY DEF Puts
  <2> QED
    BY <2>1 DEF CanPut
<1>5. k # 0 /\ k - 1 \in Nat
  BY <1>3, <1>4
<1>6. k - 1 \notin Bad
  BY <1>2, <1>5
<1>7. CanPut(k - 1, t, text)
  BY <1>5, <1>6
<1>8. PICK f : Puts(f, k - 1, t, text)
  BY <1>7 DEF CanPut
<1> DEFINE g == [i \in 0 .. k |-> IF i = k THEN PutChar(f[k - 1], text[k]) ELSE f[i]]
           h == [i \in 0 .. k |-> IF i = 0 THEN t ELSE PutChar(g[i - 1], text[i])]
<1>9. ASSUME NEW i \in 0 .. k PROVE g[i] = h[i]
  <2>1. CASE i = 0
    BY <1>5, <1>8, <2>1 DEF Puts
  <2>2. CASE i = k
    BY <1>5, <1>8, <2>2
  <2>3. CASE i # 0 /\ i # k
    <3>1. i \in 0 .. k - 1 /\ i - 1 \in 0 .. k /\ i - 1 # k
      BY <1>5, <2>3
    <3>2. f[i] = PutChar(f[i - 1], text[i])
      BY <1>8, <2>3, <3>1 DEF Puts
    <3>3. g[i] = f[i] /\ g[i - 1] = f[i - 1]
      BY <2>3, <3>1
    <3>4. h[i] = PutChar(g[i - 1], text[i])
      BY <2>3
    <3> QED
      BY <3>2, <3>3, <3>4
  <2> QED
    BY <2>1, <2>2, <2>3
<1>10. g = h
  BY <1>9
<1>11. Puts(g, k, t, text)
  BY <1>10 DEF Puts
<1> QED
  BY <1>3, <1>11 DEF CanPut

\* What Puts says of each character.
LEMMA PutsUnfold ==
  ASSUME NEW t, NEW text, NEW n \in Nat, NEW f, Puts(f, n, t, text)
  PROVE  /\ f[0] = t
         /\ \A i \in 1 .. n : f[i] = PutChar(f[i - 1], text[i])
BY DEF Puts

\* Write puts the characters of the text one after the other.
LEMMA WriteSteps ==
  ASSUME NEW t, NEW text, Len(text) \in Nat
  PROVE  \E f : /\ f[0] = t /\ f[Len(text)] = Write(t, text)
                /\ \A i \in 1 .. Len(text) : f[i] = PutChar(f[i - 1], text[i])
<1> DEFINE n == Len(text)
           p == CHOOSE f : Puts(f, n, t, text)
<1>1. Puts(p, n, t, text)
  BY PutsExist DEF CanPut
<1>2. Write(t, text) = p[n]
  BY DEF Write, Puts
<1> HIDE DEF p
<1>3. PICK q : q = p
  OBVIOUS
<1>4. PICK m \in Nat : m = n
  OBVIOUS
<1>5. Puts(q, m, t, text)
  BY <1>1, <1>3, <1>4
<1>6. q[0] = t
  BY <1>5, PutsUnfold
<1>7. \A i \in 1 .. m : q[i] = PutChar(q[i - 1], text[i])
  BY <1>5, PutsUnfold
<1> QED
  BY <1>2, <1>3, <1>4, <1>6, <1>7

-----------------------------------------------------------------------------
(* The screen.                                                             *)

\* What a cell can show.
Glyphs == [key : Letters \cup Editing \cup Threads
                   \cup {">", " ", "text", "unknown", "newline", "backspace"},
           shifted : BOOLEAN]

\* A terminal between two calls of terminal_putchar.
Terminals ==
  [row : 0 .. Height - 1, col : 0 .. Width - 1, cells : [Cells -> Glyphs], cursor : Nat]

\* The characters the code prints on its own account.
LEMMA GlyphFacts ==
  /\ Newline \in Glyphs /\ Backspace \in Glyphs /\ Blank \in Glyphs
  /\ Plain(">") \in Glyphs /\ Plain("text") \in Glyphs /\ Plain("unknown") \in Glyphs
  /\ \A t \in Threads : Plain(t) \in Glyphs
  /\ Newline # Backspace /\ Blank # Newline /\ Blank # Backspace
  /\ Plain(">") # Newline /\ Plain(">") # Backspace
  /\ Plain("text") # Newline /\ Plain("text") # Backspace
BY DEF Glyphs, Plain, Newline, Backspace, Blank

\* Rows that come first hold cells that come first.
LEMMA RowsGrow ==
  ASSUME NEW a \in Nat, NEW b \in Nat, NEW w \in Nat, a <= b
  PROVE  /\ a * w \in Nat /\ b * w \in Nat /\ a * w <= b * w
         /\ (a + 1) * w = a * w + w
OBVIOUS

\* The screen in numbers: there are two rows at least, and the last one starts a
\* row before the end.
LEMMA ScreenFacts ==
  /\ Width \in Nat /\ Height \in Nat /\ Width >= 1 /\ Height >= 2
  /\ Width * Height \in Nat
  /\ (Height - 1) * Width = Width * Height - Width
  /\ MaxCmd \in Nat /\ MaxCmd >= 1
  /\ MaxCmd + 1 <= Width * Height - Width
<1>1. /\ Width \in Nat /\ Height \in Nat /\ Width >= 1 /\ Height >= 1
      /\ MaxCmd \in Nat /\ MaxCmd >= 1 /\ MaxCmd + 1 <= Width * (Height - 1)
  BY ConsoleAssumption
<1>2. Height # 1
  <2>1. Height = 1 => Width * (Height - 1) = 0
    BY <1>1
  <2> QED
    BY <1>1, <2>1
<1>3. Width * (Height - 1) = Width * Height - Width /\ (Height - 1) * Width = Width * Height - Width
  BY <1>1
<1> QED
  BY <1>1, <1>2, <1>3

\* The position of a row and a column of the screen is a cell.
LEMMA PositionInCells ==
  ASSUME NEW t, t.row \in 0 .. Height - 1, t.col \in 0 .. Width - 1
  PROVE  /\ Position(t) \in Cells /\ Position(t) \in Nat
         /\ t.row * Width \in Nat
         /\ t.row * Width + Width <= Width * Height
<1>1. PICK r \in Nat, c \in Nat : r = t.row /\ c = t.col
  BY ScreenFacts
<1>2. r * Width \in Nat /\ r * Width <= (Height - 1) * Width
  BY <1>1, RowsGrow, ScreenFacts
<1>3. r * Width + c \in 0 .. Width * Height - 1
  BY <1>1, <1>2, ScreenFacts
<1> QED
  BY <1>1, <1>2, <1>3, ScreenFacts DEF Cells, Position

\* Scrolling keeps the screen a screen.
LEMMA ScrolledKeeps ==
  ASSUME NEW cells \in [Cells -> Glyphs]
  PROVE  Scrolled(cells) \in [Cells -> Glyphs]
BY GlyphFacts DEF Scrolled

\* A new line starts at the left, a row down or, at the bottom, after scrolling.
LEMMA NewLineShape ==
  ASSUME NEW r \in 0 .. Height - 1, NEW c, NEW cells \in [Cells -> Glyphs], NEW cur,
         NEW t, t = [row |-> r, col |-> c, cells |-> cells, cursor |-> cur]
  PROVE  NewLine(t) = IF r + 1 = Height
                      THEN [row |-> Height - 1, col |-> 0, cells |-> Scrolled(cells), cursor |-> cur]
                      ELSE [row |-> r + 1, col |-> 0, cells |-> cells, cursor |-> cur]
<1>1. CASE r + 1 = Height
  <2>1. NewLine(t) = [t EXCEPT !.col = 0, !.row = Height - 1, !.cells = Scrolled(@)]
    BY <1>1 DEF NewLine
  <2> QED
    BY <1>1, <2>1
<1>2. CASE r + 1 # Height
  <2>1. NewLine(t) = [t EXCEPT !.col = 0, !.row = @ + 1]
    BY <1>2 DEF NewLine
  <2> QED
    BY <1>2, <2>1
<1> QED
  BY <1>1, <1>2

\* A newline leaves the terminal usable.
LEMMA PutNewline ==
  ASSUME NEW t \in Terminals
  PROVE  PutChar(t, Newline) \in Terminals
<1>1. PICK r \in 0 .. Height - 1, c \in 0 .. Width - 1, cells \in [Cells -> Glyphs], cur \in Nat :
        t = [row |-> r, col |-> c, cells |-> cells, cursor |-> cur]
  BY DEF Terminals
<1>2. PutChar(t, Newline) = NewLine(t)
  BY GlyphFacts DEF PutChar
<1>3. /\ Scrolled(cells) \in [Cells -> Glyphs]
      /\ Height - 1 \in 0 .. Height - 1 /\ 0 \in 0 .. Width - 1
      /\ r + 1 # Height => r + 1 \in 0 .. Height - 1
  BY ScrolledKeeps, ScreenFacts
<1> QED
  BY <1>1, <1>2, <1>3, NewLineShape DEF Terminals

\* A printable character goes to the cell at the cursor, and the cursor to the
\* next one; behind the last cell everything moves up by a row.
LEMMA PutPrintable ==
  ASSUME NEW t \in Terminals, NEW c \in Glyphs, c # Newline, c # Backspace
  PROVE  LET q == PutChar(t, c)
             p == Position(t)
         IN  /\ q \in Terminals /\ q.cursor = Position(q)
             /\ \/ /\ Position(q) = p + 1
                   /\ q.cells = [t.cells EXCEPT ![p] = c]
                \/ /\ p + 1 = Width * Height
                   /\ Position(q) = p + 1 - Width
                   /\ q.cells = Scrolled([t.cells EXCEPT ![p] = c])
<1>1. PICK r \in 0 .. Height - 1, k \in 0 .. Width - 1, cells \in [Cells -> Glyphs], cur \in Nat :
        t = [row |-> r, col |-> k, cells |-> cells, cursor |-> cur]
  BY DEF Terminals
<1>2. PICK p \in Cells : p = Position(t)
  BY <1>1, PositionInCells
<1>3. PICK full \in [Cells -> Glyphs] : full = [cells EXCEPT ![p] = c]
  BY <1>2
<1>4. PICK u : u = [row |-> r, col |-> k + 1, cells |-> full, cursor |-> cur]
  OBVIOUS
<1>5. [t EXCEPT !.cells[Position(t)] = c, !.col = @ + 1] = u
  <2>1. [t EXCEPT !.cells[p] = c, !.col = @ + 1] = u
    <3> DEFINE v == [t EXCEPT !.cells[p] = c]
    <3>1. v = [row |-> r, col |-> k, cells |-> full, cursor |-> cur]
      BY <1>1, <1>3
    <3>2. [t EXCEPT !.cells[p] = c, !.col = @ + 1] = [v EXCEPT !.col = @ + 1]
      OBVIOUS
    <3> HIDE DEF v
    <3>3. [v EXCEPT !.col = @ + 1] = u
      BY <1>4, <3>1
    <3> QED
      BY <3>2, <3>3
  <2> QED
    BY <1>2, <2>1
<1>6. PutChar(t, c) = UpdateCursor(IF k + 1 = Width THEN NewLine(u) ELSE u)
  <2>1. u.col = k + 1
    BY <1>4
  <2>2. PutChar(t, c) = UpdateCursor(IF u.col = Width THEN NewLine(u) ELSE u)
    BY <1>5 DEF PutChar
  <2> QED
    BY <2>1, <2>2
<1> DEFINE q == PutChar(t, c)
<1>11. [t.cells EXCEPT ![Position(t)] = c] = full
  BY <1>1, <1>2, <1>3
<1>7. r \in Int /\ k \in Int /\ r * Width \in Int /\ p = r * Width + k
  BY <1>1, <1>2, PositionInCells, ScreenFacts DEF Position
<1>8. CASE k + 1 # Width
  <2>1. PutChar(t, c) = [row |-> r, col |-> k + 1, cells |-> full, cursor |-> r * Width + (k + 1)]
    BY <1>4, <1>6, <1>8 DEF UpdateCursor, Position
  <2>2. k + 1 \in 0 .. Width - 1
    BY <1>8, ScreenFacts
  <2>3. r * Width + (k + 1) = p + 1 /\ p + 1 \in Nat
    BY <1>7, PositionInCells, <1>1, <1>2
  <2>4. PutChar(t, c) \in Terminals
    BY <2>1, <2>2, <2>3 DEF Terminals
  <2>5. q.cursor = p + 1 /\ Position(q) = p + 1 /\ q.cells = full
    BY <2>1, <2>3 DEF Position
  <2> QED
    BY <1>2, <1>11, <2>4, <2>5
<1>9. CASE k + 1 = Width /\ r + 1 # Height
  <2>1. NewLine(u) = [row |-> r + 1, col |-> 0, cells |-> full, cursor |-> cur]
    BY <1>4, <1>9, NewLineShape
  <2>2. PutChar(t, c) = [row |-> r + 1, col |-> 0, cells |-> full, cursor |-> (r + 1) * Width + 0]
    BY <1>6, <1>9, <2>1 DEF UpdateCursor, Position
  <2>3. r + 1 \in 0 .. Height - 1 /\ 0 \in 0 .. Width - 1
    BY <1>9, ScreenFacts
  <2>4. (r + 1) * Width + 0 = p + 1 /\ p + 1 \in Nat
    <3>1. (r + 1) * Width = r * Width + Width
      BY RowsGrow, ScreenFacts
    <3> QED
      BY <1>7, <1>9, <3>1, PositionInCells, <1>1, <1>2, ScreenFacts
  <2>5. PutChar(t, c) \in Terminals
    BY <2>2, <2>3, <2>4 DEF Terminals
  <2>6. q.cursor = p + 1 /\ Position(q) = p + 1 /\ q.cells = full
    BY <2>2, <2>4 DEF Position
  <2> QED
    BY <1>2, <1>11, <2>5, <2>6
<1>10. CASE k + 1 = Width /\ r + 1 = Height
  <2>1. NewLine(u) = [row |-> Height - 1, col |-> 0, cells |-> Scrolled(full), cursor |-> cur]
    BY <1>4, <1>10, NewLineShape
  <2>2. PutChar(t, c) = [row |-> Height - 1, col |-> 0, cells |-> Scrolled(full),
                         cursor |-> (Height - 1) * Width + 0]
    BY <1>6, <1>10, <2>1 DEF UpdateCursor, Position
  <2>3. Height - 1 \in 0 .. Height - 1 /\ 0 \in 0 .. Width - 1
    BY ScreenFacts
  <2>4. /\ p + 1 = Width * Height
        /\ (Height - 1) * Width + 0 = p + 1 - Width
        /\ (Height - 1) * Width + 0 \in Nat
    <3>1. r = Height - 1 /\ k = Width - 1
      BY <1>10, ScreenFacts
    <3>2. p = (Height - 1) * Width + (Width - 1)
      BY <1>7, <3>1
    <3> QED
      BY <3>2, ScreenFacts
  <2>5. Scrolled(full) \in [Cells -> Glyphs]
    BY ScrolledKeeps
  <2>6. PutChar(t, c) \in Terminals
    BY <2>2, <2>3, <2>4, <2>5 DEF Terminals
  <2>7. q.cursor = p + 1 - Width /\ Position(q) = p + 1 - Width /\ q.cells = Scrolled(full)
    BY <2>2, <2>4 DEF Position
  <2> QED
    BY <1>2, <1>11, <2>4, <2>6, <2>7
<1> QED
  BY <1>8, <1>9, <1>10

\* A backspace clears the cell before the cursor and moves the cursor there.
LEMMA PutBackspace ==
  ASSUME NEW t \in Terminals
  PROVE  LET q == PutChar(t, Backspace)
             p == Position(t)
         IN  /\ q \in Terminals /\ q.cursor = Position(q)
             /\ p > 0 => /\ Position(q) = p - 1
                         /\ q.cells = [t.cells EXCEPT ![p - 1] = Blank]
<1>1. PICK r \in 0 .. Height - 1, k \in 0 .. Width - 1, cells \in [Cells -> Glyphs], cur \in Nat :
        t = [row |-> r, col |-> k, cells |-> cells, cursor |-> cur]
  BY DEF Terminals
<1>2. PICK b : b = Back(t)
  OBVIOUS
<1>3. PutChar(t, Backspace) = UpdateCursor([b EXCEPT !.cells[Position(b)] = Blank])
  BY <1>2, GlyphFacts DEF PutChar
<1>4. PICK r2 \in 0 .. Height - 1, k2 \in 0 .. Width - 1 :
        /\ b = [row |-> r2, col |-> k2, cells |-> cells, cursor |-> cur]
        /\ Position(t) > 0 => r2 * Width + k2 = Position(t) - 1
  <2>1. CASE k > 0
    <3>1. b = [row |-> r, col |-> k - 1, cells |-> cells, cursor |-> cur]
      BY <1>1, <1>2, <2>1 DEF Back
    <3>2. k - 1 \in 0 .. Width - 1
      BY <2>1, ScreenFacts
    <3>3. r * Width + (k - 1) = Position(t) - 1
      BY <1>1, PositionInCells, ScreenFacts DEF Position
    <3> QED
      BY <3>1, <3>2, <3>3
  <2>2. CASE k = 0 /\ r > 0
    <3>1. b = [row |-> r - 1, col |-> Width - 1, cells |-> cells, cursor |-> cur]
      <4>1. b = [t EXCEPT !.row = @ - 1, !.col = Width - 1]
        BY <1>1, <1>2, <2>2 DEF Back
      <4> QED
        BY <1>1, <4>1
    <3>2. r - 1 \in 0 .. Height - 1 /\ Width - 1 \in 0 .. Width - 1
      BY <2>2, ScreenFacts
    <3>3. (r - 1) * Width + (Width - 1) = Position(t) - 1
      <4>1. r - 1 \in Nat
        BY <2>2, ScreenFacts
      <4>2. ((r - 1) + 1) * Width = (r - 1) * Width + Width /\ (r - 1) * Width \in Nat
        BY <4>1, RowsGrow, ScreenFacts
      <4>3. r * Width = (r - 1) * Width + Width
        BY <4>2, ScreenFacts
      <4> QED
        BY <1>1, <2>2, <4>2, <4>3, ScreenFacts DEF Position
    <3> QED
      BY <3>1, <3>2, <3>3
  <2>3. CASE k = 0 /\ r = 0
    <3>1. b = t
      BY <1>1, <1>2, <2>3 DEF Back
    <3>2. Position(t) = 0
      BY <1>1, <2>3, ScreenFacts DEF Position
    <3> QED
      BY <1>1, <3>1, <3>2
  <2> QED
    BY <2>1, <2>2, <2>3
<1>5. PICK p \in Cells : p = r2 * Width + k2 /\ p \in Nat
  BY <1>4, PositionInCells DEF Position
<1>6. [b EXCEPT !.cells[Position(b)] = Blank]
        = [row |-> r2, col |-> k2, cells |-> [cells EXCEPT ![p] = Blank], cursor |-> cur]
  BY <1>4, <1>5 DEF Position
<1>7. PutChar(t, Backspace)
        = [row |-> r2, col |-> k2, cells |-> [cells EXCEPT ![p] = Blank], cursor |-> p]
  BY <1>3, <1>5, <1>6 DEF UpdateCursor, Position
<1>8. [cells EXCEPT ![p] = Blank] \in [Cells -> Glyphs]
  BY <1>5, GlyphFacts
<1>9. PutChar(t, Backspace) \in Terminals
  BY <1>5, <1>7, <1>8 DEF Terminals
<1> DEFINE q == PutChar(t, Backspace)
<1>10. q.cursor = p /\ Position(q) = p /\ q.cells = [cells EXCEPT ![p] = Blank]
  BY <1>5, <1>7 DEF Position
<1>11. t.cells = cells
  BY <1>1
<1> HIDE DEF q
<1>12. Position(t) > 0 => /\ Position(q) = Position(t) - 1
                         /\ q.cells = [t.cells EXCEPT ![Position(t) - 1] = Blank]
  BY <1>4, <1>5, <1>10, <1>11
<1> QED
  BY <1>9, <1>10, <1>12 DEF q

\* Every character leaves the terminal usable.
LEMMA PutKeeps ==
  ASSUME NEW t \in Terminals, NEW c \in Glyphs
  PROVE  PutChar(t, c) \in Terminals
<1>1. CASE c = Newline
  BY <1>1, PutNewline
<1>2. CASE c = Backspace
  BY <1>2, PutBackspace
<1>3. CASE c # Newline /\ c # Backspace
  BY <1>3, PutPrintable
<1> QED
  BY <1>1, <1>2, <1>3

\* Every text leaves the terminal usable.
LEMMA WriteKeeps ==
  ASSUME NEW t \in Terminals, NEW text \in Seq(Glyphs)
  PROVE  Write(t, text) \in Terminals
<1>1. PICK n \in Nat : n = Len(text)
  OBVIOUS
<1>2. PICK f : /\ f[0] = t /\ f[n] = Write(t, text)
               /\ \A i \in 1 .. n : f[i] = PutChar(f[i - 1], text[i])
  BY <1>1, WriteSteps
<1> DEFINE Bad == {i \in 0 .. n : f[i] \notin Terminals}
<1>3. SUFFICES ASSUME Bad # {} PROVE FALSE
  BY SMTT(40), <1>2
<1>4. Bad \in SUBSET Nat
  OBVIOUS
<1>5. PICK k \in Bad : \A j \in Bad : k <= j
  BY <1>3, <1>4, LeastNatural
<1>6. k \in 1 .. n /\ k - 1 \in 0 .. n
  BY <1>2, <1>5
<1>7. k - 1 \notin Bad
  BY <1>5, <1>6
<1>8. f[k - 1] \in Terminals
  BY <1>6, <1>7
<1>9. text[k] \in Glyphs
  BY <1>1, <1>6
<1>10. f[k] \in Terminals
  BY <1>2, <1>6, <1>8, <1>9, PutKeeps
<1> QED
  BY <1>5, <1>10

\* The two characters of a prompt.
LEMMA WritePrompt ==
  ASSUME NEW t
  PROVE  Write(t, Prompt) = PutChar(PutChar(t, Plain(">")), Blank)
<1>1. Len(Prompt) = 2 /\ Prompt[1] = Plain(">") /\ Prompt[2] = Blank
  BY DEF Prompt
<1>2. Len(Prompt) \in Nat
  BY <1>1
<1>3. PICK f : /\ f[0] = t /\ f[Len(Prompt)] = Write(t, Prompt)
               /\ \A i \in 1 .. Len(Prompt) : f[i] = PutChar(f[i - 1], Prompt[i])
  BY <1>2, WriteSteps
<1>4. f[1] = PutChar(f[0], Prompt[1]) /\ f[2] = PutChar(f[1], Prompt[2])
  <2>1. /\ 1 \in 1 .. Len(Prompt) /\ 2 \in 1 .. Len(Prompt)
        /\ 1 - 1 = 0 /\ 2 - 1 = 1
    BY <1>1
  <2> QED
    BY <1>3, <2>1
<1> QED
  BY <1>1, <1>3, <1>4

-----------------------------------------------------------------------------
(* What the cells in front of the cursor show.                             *)

Shown(t, s) ==
  /\ Len(s) <= Position(t)
  /\ \A i \in 1 .. Len(s) : t.cells[Position(t) - Len(s) + i - 1] = s[i]

\* A character that is put follows what is shown, also where the screen scrolls,
\* as long as all of it fits the rows above the last.
LEMMA ShownPut ==
  ASSUME NEW t \in Terminals, NEW c \in Glyphs, c # Newline, c # Backspace,
         NEW s \in Seq(Glyphs), Shown(t, s), Len(s) + 1 <= Width * Height - Width
  PROVE  Shown(PutChar(t, c), Append(s, c))
<1>1. PICK q : q = PutChar(t, c)
  OBVIOUS
<1>2. PICK n \in Nat, p \in Nat : n = Len(s) /\ p = Position(t) /\ p \in Cells
  BY PositionInCells DEF Terminals
<1>3. PICK full \in [Cells -> Glyphs] : full = [t.cells EXCEPT ![p] = c] /\ full[p] = c
  <2>1. PICK cells \in [Cells -> Glyphs] : cells = t.cells
    BY DEF Terminals
  <2>2. [cells EXCEPT ![p] = c] \in [Cells -> Glyphs] /\ [cells EXCEPT ![p] = c][p] = c
    BY <1>2
  <2> QED
    BY <2>1, <2>2
<1>4. n <= p /\ \A i \in 1 .. n : t.cells[p - n + i - 1] = s[i]
  BY <1>2 DEF Shown
<1>5. PICK area \in Nat : area = Width * Height /\ Cells = 0 .. area - 1 /\ p < area
                        /\ n + 1 <= area - Width
  BY <1>2, ScreenFacts DEF Cells
<1>6. \A i \in 1 .. n : /\ p - n + i - 1 \in Cells /\ p - n + i - 1 # p
                       /\ full[p - n + i - 1] = s[i]
  <2>1. SUFFICES ASSUME NEW i \in 1 .. n
                 PROVE  /\ p - n + i - 1 \in Cells /\ p - n + i - 1 # p
                        /\ full[p - n + i - 1] = s[i]
    OBVIOUS
  <2>2. p - n + i - 1 \in 0 .. area - 1 /\ p - n + i - 1 # p
    BY <1>2, <1>4, <1>5
  <2>3. p - n + i - 1 \in Cells
    BY <1>5, <2>2
  <2> QED
    BY <1>3, <1>4, <2>2, <2>3 DEF Terminals
<1>7. /\ Len(Append(s, c)) = n + 1 /\ Append(s, c)[n + 1] = c
      /\ \A i \in 1 .. n : Append(s, c)[i] = s[i]
  BY <1>2
<1>8. CASE Position(q) = p + 1 /\ q.cells = full
  <2>1. SUFFICES ASSUME NEW i \in 1 .. n + 1
                 PROVE  q.cells[(p + 1) - (n + 1) + i - 1] = Append(s, c)[i]
    BY <1>1, <1>4, <1>7, <1>8 DEF Shown
  <2>2. CASE i = n + 1
    <3>1. (p + 1) - (n + 1) + i - 1 = p
      BY <2>2
    <3> QED
      BY <1>3, <1>7, <1>8, <2>2, <3>1
  <2>3. CASE i \in 1 .. n
    <3>1. (p + 1) - (n + 1) + i - 1 = p - n + i - 1
      BY <2>3
    <3> QED
      BY <1>6, <1>7, <1>8, <2>3, <3>1
  <2> QED
    BY <1>2, <2>2, <2>3
<1>9. CASE p + 1 = area /\ Position(q) = p + 1 - Width /\ q.cells = Scrolled(full)
  <2>1. n + 1 <= p + 1 - Width
    BY <1>2, <1>5, <1>9, ScreenFacts
  <2>2. SUFFICES ASSUME NEW i \in 1 .. n + 1
                 PROVE  q.cells[(p + 1 - Width) - (n + 1) + i - 1] = Append(s, c)[i]
    BY <1>1, <1>7, <1>9, <2>1 DEF Shown
  <2>3. PICK j \in Int : j = (p + 1 - Width) - (n + 1) + i - 1
    BY ScreenFacts
  <2>4. /\ j \in 0 .. area - 1
        /\ j + Width \in 0 .. area - 1
        /\ j + Width = p - n + i - 1
    <3>1. Width \in Nat
      BY ScreenFacts
    <3>2. n \in Int /\ p \in Int /\ i \in Int /\ i >= 1 /\ i <= n + 1
      BY <1>2
    <3>3. j + Width = p - n + i - 1 /\ j >= 0 /\ j + Width <= p
      BY <2>1, <2>3, <3>1, <3>2
    <3>4. p < area /\ area \in Int /\ j \in Int
      BY <1>5, <2>3
    <3> QED
      BY <3>1, <3>2, <3>3, <3>4
  <2>5. q.cells[j] = full[p - n + i - 1]
    <3>1. j \in Cells /\ j + Width \in Cells
      BY <1>5, <2>4
    <3>2. Scrolled(full)[j] = full[j + Width]
      BY <3>1 DEF Scrolled
    <3> QED
      BY <1>9, <2>4, <3>2
  <2>6. CASE i = n + 1
    <3>1. p - n + i - 1 = p
      BY <2>6
    <3> QED
      BY <1>3, <1>7, <2>3, <2>5, <2>6, <3>1
  <2>7. CASE i \in 1 .. n
    BY <1>6, <1>7, <2>3, <2>5, <2>7
  <2> QED
    BY <1>2, <2>6, <2>7
<1> QED
  BY <1>1, <1>2, <1>3, <1>5, <1>8, <1>9, PutPrintable

\* A backspace takes the last character back.
LEMMA ShownBack ==
  ASSUME NEW t \in Terminals, NEW s \in Seq(Glyphs), Shown(t, s), s # <<>>
  PROVE  Shown(PutChar(t, Backspace), Front(s))
<1>1. PICK q : q = PutChar(t, Backspace)
  OBVIOUS
<1>2. PICK n \in Nat, p \in Nat : n = Len(s) /\ p = Position(t) /\ p \in Cells
  BY PositionInCells DEF Terminals
<1>3. n >= 1 /\ n <= p /\ \A i \in 1 .. n : t.cells[p - n + i - 1] = s[i]
  BY <1>2 DEF Shown
<1>4. Position(q) = p - 1 /\ q.cells = [t.cells EXCEPT ![p - 1] = Blank]
  <2>1. Position(t) > 0
    BY <1>2, <1>3
  <2> QED
    BY <1>1, <1>2, <2>1, PutBackspace
<1>5. Len(Front(s)) = n - 1 /\ \A i \in 1 .. n - 1 : Front(s)[i] = s[i]
  BY <1>2, <1>3 DEF Front
<1>6. SUFFICES ASSUME NEW i \in 1 .. n - 1
               PROVE  q.cells[(p - 1) - (n - 1) + i - 1] = s[i]
  BY <1>1, <1>2, <1>3, <1>4, <1>5 DEF Shown
<1>7. PICK j \in Int : j = p - n + i - 1
  OBVIOUS
<1>8. j = (p - 1) - (n - 1) + i - 1 /\ j # p - 1 /\ j \in 0 .. Width * Height - 1
      /\ p - 1 \in 0 .. Width * Height - 1
  BY <1>2, <1>3, <1>7, ScreenFacts DEF Cells
<1>9. t.cells[j] = s[i]
  BY <1>3, <1>7
<1>10. j \in Cells /\ t.cells \in [Cells -> Glyphs]
  BY <1>8 DEF Cells, Terminals
<1> QED
  BY <1>4, <1>8, <1>9, <1>10

-----------------------------------------------------------------------------
(* The invariant.                                                          *)

PCs == {"load", "put", "advance", "column", "row", "scroll", "reset", "cursor"}

\* The types while terminal_putchar was never entered with a thread inside.
TypeOK ==
  /\ term \in [row : 0 .. Height, col : 0 .. Width - 1, cells : [Cells -> Glyphs],
               cursor : Nat]
  /\ cmd \in Seq(Glyphs) /\ Len(cmd) + 1 <= MaxCmd
  /\ shift \in BOOLEAN
  /\ pc \in [Threads -> PCs]
  /\ reg \in [Threads -> [row : 0 .. Height, col : 0 .. Width - 1]]
  /\ users \in Users

\* Between two characters the terminal is usable and shows its cursor.
RestInv == AtRest => term \in Terminals /\ term.cursor = Position(term)

\* Without threads nobody is inside terminal_putchar, and the line is on the screen.
KeysInv ==
  "threads" \notin users =>
    /\ AtRest
    /\ Shown(term, Prompt \o cmd)

\* A thread inside terminal_putchar holds what the terminal has, and is past the
\* bottom only where it is about to scroll.
Holds(t) ==
  pc[t] # "load" =>
    /\ reg[t].row = term.row /\ reg[t].col = term.col
    /\ pc[t] \in {"scroll", "reset"} => reg[t].row = Height
    /\ pc[t] \notin {"scroll", "reset"} => reg[t].row < Height
    /\ pc[t] = "advance" => reg[t].col + 1 # Width

\* One thread at most is inside.
Alone == \A t, u \in Threads : pc[t] # "load" /\ pc[u] # "load" => t = u

Calm == TypeOK /\ RestInv /\ KeysInv /\ Alone /\ \A t \in Threads : Holds(t)

\* What holds under every interleaving: the row may be anywhere, the column may not.
WildTerminals ==
  [row : Nat, col : 0 .. Width - 1, cells : [Cells -> Glyphs], cursor : Nat]

LooseOK ==
  /\ term \in WildTerminals
  /\ cmd \in Seq(Glyphs) /\ Len(cmd) + 1 <= MaxCmd
  /\ shift \in BOOLEAN /\ disturbed \in BOOLEAN /\ users \in Users
  /\ pc \in [Threads -> PCs]
  /\ reg \in [Threads -> [row : Nat, col : 0 .. Width - 1]]
  /\ \A t \in Threads : pc[t] = "advance" => reg[t].col + 1 # Width
  /\ "threads" \notin users => AtRest /\ ~disturbed

ConsoleInv == LooseOK /\ (~disturbed => Calm)

\* Texts of one and of two characters.
LEMMA OneChar ==
  ASSUME NEW a \in Glyphs
  PROVE  /\ Append(<<>>, a) = <<a>> /\ Append(<<>>, a) \in Seq(Glyphs)
         /\ Len(Append(<<>>, a)) = 1
<1>1. <<>> \in Seq(Glyphs) /\ <<a>> \in Seq(Glyphs)
  OBVIOUS
<1>2. PICK e \in Seq(Glyphs) : e = <<>> /\ Len(e) = 0
  BY <1>1
<1>3. Append(e, a) \in Seq(Glyphs) /\ Len(Append(e, a)) = 1 /\ Append(e, a)[1] = a
  BY <1>2
<1>4. Append(e, a) = <<a>>
  <2>1. PICK x \in Seq(Glyphs) : x = Append(e, a) /\ Len(x) = 1 /\ x[1] = a
    BY <1>3
  <2>2. PICK y \in Seq(Glyphs) : y = <<a>> /\ Len(y) = 1 /\ y[1] = a
    BY <1>1
  <2>3. \A i \in 1 .. Len(x) : x[i] = y[i]
    BY <2>1, <2>2
  <2>4. x = y
    BY <2>1, <2>2, <2>3, SeqEqual
  <2> QED
    BY <2>1, <2>2, <2>4
<1> QED
  BY <1>2, <1>3, <1>4

\* The same for two characters.
LEMMA TwoChars ==
  ASSUME NEW a \in Glyphs, NEW b \in Glyphs
  PROVE  Append(<<a>>, b) = <<a, b>>
<1>1. <<a>> \in Seq(Glyphs) /\ <<a, b>> \in Seq(Glyphs)
  OBVIOUS
<1>2. PICK e \in Seq(Glyphs) : e = <<a>> /\ Len(e) = 1 /\ e[1] = a
  BY <1>1
<1>3. Append(e, b) \in Seq(Glyphs) /\ Len(Append(e, b)) = 2
      /\ Append(e, b)[1] = a /\ Append(e, b)[2] = b
  BY <1>2
<1>4. PICK x \in Seq(Glyphs) : x = Append(e, b) /\ Len(x) = 2 /\ x[1] = a /\ x[2] = b
  BY <1>3
<1>5. PICK y \in Seq(Glyphs) : y = <<a, b>> /\ Len(y) = 2 /\ y[1] = a /\ y[2] = b
  BY <1>1
<1>6. \A i \in 1 .. Len(x) : x[i] = y[i]
  BY <1>4, <1>5
<1>7. x = y
  BY <1>4, <1>5, <1>6, SeqEqual
<1> QED
  BY <1>2, <1>4, <1>5, <1>7

\* After a prompt the cursor is shown behind it.
LEMMA PromptShown ==
  ASSUME NEW t \in Terminals
  PROVE  LET q == Write(t, Prompt)
         IN  q \in Terminals /\ q.cursor = Position(q) /\ Shown(q, Prompt)
<1>1. PICK u \in Terminals : u = PutChar(t, Plain(">"))
  BY GlyphFacts, PutKeeps
<1>2. PICK q \in Terminals : q = PutChar(u, Blank) /\ q.cursor = Position(q)
  BY GlyphFacts, PutPrintable
<1>3. q = Write(t, Prompt)
  BY <1>1, <1>2, WritePrompt
<1>4. Shown(t, <<>>) /\ <<>> \in Seq(Glyphs) /\ Len(<<>>) = 0
  <2>1. Position(t) \in Nat
    BY PositionInCells DEF Terminals
  <2> QED
    BY <2>1 DEF Shown
<1>5. 2 <= Width * Height - Width /\ Width * Height - Width \in Int
  BY ScreenFacts
<1>6. Shown(u, Append(<<>>, Plain(">")))
  <2>1. Len(<<>>) + 1 <= Width * Height - Width
    BY <1>4, <1>5
  <2> QED
    BY <1>1, <1>4, <2>1, GlyphFacts, ShownPut
<1>7. Shown(q, Append(Append(<<>>, Plain(">")), Blank))
  <2>1. PICK s \in Seq(Glyphs) : s = Append(<<>>, Plain(">")) /\ Len(s) = 1
    BY OneChar, GlyphFacts
  <2>2. Len(s) + 1 <= Width * Height - Width
    BY <1>5, <2>1
  <2> QED
    BY <1>2, <1>6, <2>1, <2>2, GlyphFacts, ShownPut
<1>8. Append(Append(<<>>, Plain(">")), Blank) = Prompt
  BY OneChar, TwoChars, GlyphFacts DEF Prompt
<1> QED
  BY <1>2, <1>3, <1>7, <1>8

\* A cleared terminal is usable.
LEMMA InitializedFits ==
  ASSUME NEW cur \in Nat PROVE Initialized(cur) \in Terminals
BY GlyphFacts, ScreenFacts DEF Initialized, Terminals

\* After a command there is a prompt, whatever the command was.
LEMMA ExecuteShown ==
  ASSUME NEW t \in Terminals, cmd \in Seq(Glyphs)
  PROVE  LET q == Execute(t)
         IN  q \in Terminals /\ q.cursor = Position(q) /\ Shown(q, Prompt)
<1> DEFINE out == CASE cmd = ClearCmd -> Initialized(t.cursor)
                    [] cmd = TextCmd  -> Write(t, <<Plain("text"), Newline>>)
                    [] OTHER -> Write(t, <<Plain("unknown")>> \o cmd \o <<Newline>>)
<1>1. Initialized(t.cursor) \in Terminals
  BY InitializedFits DEF Terminals
<1>2. Write(t, <<Plain("text"), Newline>>) \in Terminals
  <2>1. <<Plain("text"), Newline>> \in Seq(Glyphs)
    BY GlyphFacts
  <2> QED
    BY <2>1, WriteKeeps
<1>3. Write(t, <<Plain("unknown")>> \o cmd \o <<Newline>>) \in Terminals
  <2>1. <<Plain("unknown")>> \o cmd \o <<Newline>> \in Seq(Glyphs)
    BY GlyphFacts
  <2> QED
    BY <2>1, WriteKeeps
<1>4. out \in Terminals
  BY <1>1, <1>2, <1>3
<1>5. Execute(t) = Write(out, Prompt)
  BY DEF Execute
<1> HIDE DEF out
<1> QED
  BY <1>4, <1>5, PromptShown

\* A prompt and an empty line are a prompt.
LEMMA EmptyLine == Prompt \o <<>> = Prompt
BY DEF Prompt

\* The welcome and the first prompt.
LEMMA WelcomeShown ==
  LET q == Write(Initialized(0), <<Plain("text"), Newline>> \o Prompt)
  IN  q \in Terminals /\ q.cursor = Position(q) /\ Shown(q, Prompt)
<1>1. PICK text : text = <<Plain("text"), Newline>> \o Prompt
  OBVIOUS
<1>2. /\ Len(text) = 4 /\ text[1] = Plain("text") /\ text[2] = Newline
      /\ text[3] = Plain(">") /\ text[4] = Blank
  BY <1>1 DEF Prompt
<1>3. PICK t0 \in Terminals : t0 = Initialized(0)
  BY InitializedFits
<1>4. Len(text) \in Nat
  BY <1>2
<1>5. PICK f : /\ f[0] = t0 /\ f[Len(text)] = Write(t0, text)
               /\ \A i \in 1 .. Len(text) : f[i] = PutChar(f[i - 1], text[i])
  BY <1>4, WriteSteps
<1>6. /\ f[1] = PutChar(f[0], text[1]) /\ f[2] = PutChar(f[1], text[2])
      /\ f[3] = PutChar(f[2], text[3]) /\ f[4] = PutChar(f[3], text[4])
  <2>1. /\ 1 \in 1 .. Len(text) /\ 2 \in 1 .. Len(text)
        /\ 3 \in 1 .. Len(text) /\ 4 \in 1 .. Len(text)
        /\ 1 - 1 = 0 /\ 2 - 1 = 1 /\ 3 - 1 = 2 /\ 4 - 1 = 3
    BY <1>2
  <2> QED
    BY <1>5, <2>1
<1>7. f[1] \in Terminals
  BY <1>2, <1>3, <1>5, <1>6, GlyphFacts, PutKeeps
<1>8. PICK t2 \in Terminals : t2 = f[2]
  BY <1>2, <1>6, <1>7, GlyphFacts, PutKeeps
<1>9. f[4] = Write(t2, Prompt)
  BY <1>2, <1>6, <1>8, WritePrompt
<1>10. Write(Initialized(0), <<Plain("text"), Newline>> \o Prompt) = Write(t2, Prompt)
  BY <1>1, <1>2, <1>3, <1>5, <1>9
<1> QED
  BY <1>8, <1>10, PromptShown

\* The initial states.
LEMMA InvInit == Init => Calm
<1>1. SUFFICES ASSUME Init PROVE Calm
  OBVIOUS
<1>2. PICK q \in Terminals : q = term /\ q.cursor = Position(q) /\ Shown(q, Prompt)
  BY <1>1, WelcomeShown DEF Init
<1>3. TypeOK
  <2>1. term \in [row : 0 .. Height, col : 0 .. Width - 1, cells : [Cells -> Glyphs], cursor : Nat]
    BY <1>2, ScreenFacts DEF Terminals
  <2>2. /\ 0 \in 0 .. Height /\ 0 \in 0 .. Width - 1
    BY ScreenFacts
  <2>3. reg \in [Threads -> [row : 0 .. Height, col : 0 .. Width - 1]]
    BY <1>1, <2>2 DEF Init, Unused
  <2>4. /\ cmd \in Seq(Glyphs) /\ Len(cmd) + 1 <= MaxCmd
        /\ shift \in BOOLEAN /\ users \in Users
    <3>1. cmd = <<>> /\ shift = FALSE /\ users \in Users
      BY <1>1 DEF Init
    <3>2. cmd \in Seq(Glyphs)
      BY <3>1
    <3>3. Len(cmd) + 1 <= MaxCmd
      BY <3>1, ScreenFacts
    <3> QED
      BY <3>1, <3>2, <3>3
  <2>5. pc \in [Threads -> PCs]
    BY <1>1 DEF Init, PCs
  <2> QED
    BY <2>1, <2>3, <2>4, <2>5 DEF TypeOK
<1>4. AtRest /\ RestInv
  BY <1>1, <1>2 DEF Init, AtRest, RestInv
<1>5. KeysInv
  <2>1. Shown(term, Prompt \o cmd)
    BY <1>1, <1>2, EmptyLine DEF Init
  <2> QED
    BY <1>4, <2>1 DEF KeysInv
<1>6. Alone /\ \A t \in Threads : Holds(t)
  BY <1>4 DEF AtRest, Alone, Holds
<1> QED
  BY <1>3, <1>4, <1>5, <1>6 DEF Calm

\* Sequences of characters: what is appended, taken back and put together.
LEMMA AppendFacts ==
  ASSUME NEW s \in Seq(Glyphs), NEW c \in Glyphs
  PROVE  /\ Append(s, c) \in Seq(Glyphs) /\ Len(Append(s, c)) = Len(s) + 1
         /\ Append(s, c)[Len(s) + 1] = c
         /\ \A i \in 1 .. Len(s) : Append(s, c)[i] = s[i]
OBVIOUS

\* The same without the last character.
LEMMA FrontFacts ==
  ASSUME NEW s \in Seq(Glyphs), s # <<>>
  PROVE  /\ Front(s) \in Seq(Glyphs) /\ Len(Front(s)) = Len(s) - 1 /\ Len(s) >= 1
         /\ \A i \in 1 .. Len(s) - 1 : Front(s)[i] = s[i]
<1>1. Len(s) >= 1
  OBVIOUS
<1>2. PICK n \in Nat : n = Len(s) - 1
  BY <1>1
<1>4. \A i \in 1 .. n : s[i] \in Glyphs
  BY <1>2
<1>5. Front(s) \in Seq(Glyphs) /\ Len(Front(s)) = n
  <2>1. Front(s) = SubSeq(s, 1, n)
    BY <1>2 DEF Front
  <2>2. SubSeq(s, 1, n) \in Seq(Glyphs) /\ Len(SubSeq(s, 1, n)) = IF 1 <= n THEN n - 1 + 1 ELSE 0
    BY <1>4, SubSeqProperties
  <2> QED
    BY <2>1, <2>2
<1>3. \A i \in 1 .. Len(s) - 1 : Front(s)[i] = s[i]
  BY <1>1 DEF Front
<1> QED
  BY <1>1, <1>2, <1>3, <1>5

\* The same for a text behind a prompt.
LEMMA LineFacts ==
  ASSUME NEW s \in Seq(Glyphs)
  PROVE  /\ Prompt \o s \in Seq(Glyphs) /\ Len(Prompt \o s) = Len(s) + 2
         /\ \A i \in 1 .. 2 : (Prompt \o s)[i] = Prompt[i]
         /\ \A i \in 1 .. Len(s) : (Prompt \o s)[i + 2] = s[i]
<1>1. Prompt \in Seq(Glyphs) /\ Len(Prompt) = 2
  BY GlyphFacts DEF Prompt
<1>2. PICK p \in Seq(Glyphs) : p = Prompt /\ Len(p) = 2
  BY <1>1
<1>3. PICK n \in Nat : n = Len(s)
  OBVIOUS
<1>4. /\ p \o s \in Seq(Glyphs) /\ Len(p \o s) = 2 + n
      /\ \A i \in 1 .. 2 + n : (p \o s)[i] = IF i <= 2 THEN p[i] ELSE s[i - 2]
  <2>1. /\ p \o s \in Seq(Glyphs) /\ Len(p \o s) = Len(p) + Len(s)
        /\ \A i \in 1 .. Len(p) + Len(s) :
             (p \o s)[i] = IF i <= Len(p) THEN p[i] ELSE s[i - Len(p)]
    BY ConcatProperties
  <2> QED
    BY <1>2, <1>3, <2>1
<1>5. \A i \in 1 .. 2 : (p \o s)[i] = p[i]
  BY <1>3, <1>4
<1>6. ASSUME NEW i \in 1 .. n PROVE (p \o s)[i + 2] = s[i]
  <2>1. i + 2 \in 1 .. 2 + n /\ ~(i + 2 <= 2) /\ (i + 2) - 2 = i
    BY <1>3
  <2> QED
    BY <1>4, <2>1
<1> QED
  BY <1>2, <1>3, <1>4, <1>5, <1>6

\* Taking back the last character of the line takes back the last one shown.
LEMMA FrontOfLine ==
  ASSUME NEW line \in Seq(Glyphs), line # <<>>
  PROVE  Front(Prompt \o line) = Prompt \o Front(line)
<1>1. PICK n \in Nat : n = Len(line) /\ n >= 1
  BY FrontFacts
<1>2. PICK f \in Seq(Glyphs) : f = Front(line) /\ Len(f) = n - 1
                             /\ \A i \in 1 .. n - 1 : f[i] = line[i]
  BY <1>1, FrontFacts
<1>3. PICK all \in Seq(Glyphs) : all = Prompt \o line /\ Len(all) = n + 2
        /\ (\A i \in 1 .. 2 : all[i] = Prompt[i]) /\ \A i \in 1 .. n : all[i + 2] = line[i]
  BY <1>1, LineFacts
<1>4. PICK x \in Seq(Glyphs) : x = Front(all) /\ Len(x) = n + 1
                             /\ \A i \in 1 .. n + 1 : x[i] = all[i]
  <2>1. all # <<>> /\ Len(all) - 1 = n + 1
    BY <1>3
  <2> QED
    BY ZenonT(60), <2>1, FrontFacts
<1>5. PICK y \in Seq(Glyphs) : y = Prompt \o f /\ Len(y) = n + 1
        /\ (\A i \in 1 .. 2 : y[i] = Prompt[i]) /\ \A i \in 1 .. n - 1 : y[i + 2] = f[i]
  <2>1. Len(f) + 2 = n + 1
    BY <1>1, <1>2
  <2>2. /\ Prompt \o f \in Seq(Glyphs) /\ Len(Prompt \o f) = Len(f) + 2
        /\ \A i \in 1 .. 2 : (Prompt \o f)[i] = Prompt[i]
        /\ \A i \in 1 .. Len(f) : (Prompt \o f)[i + 2] = f[i]
    BY LineFacts
  <2> QED
    BY ZenonT(60), <1>2, <2>1, <2>2
<1>6. ASSUME NEW i \in 1 .. n + 1 PROVE x[i] = y[i]
  <2>1. CASE i \in 1 .. 2
    BY <1>3, <1>4, <1>5, <2>1
  <2>2. CASE i > 2
    <3>1. PICK j \in 1 .. n - 1 : i = j + 2
      <4>1. i - 2 \in 1 .. n - 1 /\ i = (i - 2) + 2
        BY <1>1, <2>2
      <4> QED
        BY <4>1
    <3>2. j \in 1 .. n
      BY <1>1
    <3>3. x[i] = line[j]
      BY <1>3, <1>4, <3>1, <3>2
    <3>4. y[i] = line[j]
      BY <1>2, <1>5, <3>1
    <3> QED
      BY <3>3, <3>4
  <2> QED
    BY <2>1, <2>2
<1>7. x = y
  BY <1>4, <1>5, <1>6, SeqEqual
<1> QED
  BY <1>2, <1>3, <1>4, <1>5, <1>7

\* A character added to the line is added to what is shown.
LEMMA AppendToLine ==
  ASSUME NEW line \in Seq(Glyphs), NEW c \in Glyphs
  PROVE  Append(Prompt \o line, c) = Prompt \o Append(line, c)
<1>1. PICK n \in Nat : n = Len(line)
  OBVIOUS
<1>2. PICK f \in Seq(Glyphs) : f = Append(line, c) /\ Len(f) = n + 1 /\ f[n + 1] = c
                             /\ \A i \in 1 .. n : f[i] = line[i]
  BY <1>1, AppendFacts
<1>3. PICK all \in Seq(Glyphs) : all = Prompt \o line /\ Len(all) = n + 2
        /\ (\A i \in 1 .. 2 : all[i] = Prompt[i]) /\ \A i \in 1 .. n : all[i + 2] = line[i]
  BY <1>1, LineFacts
<1>4. PICK x \in Seq(Glyphs) : x = Append(all, c) /\ Len(x) = n + 3 /\ x[n + 3] = c
                             /\ \A i \in 1 .. n + 2 : x[i] = all[i]
  <2>1. Len(all) + 1 = n + 3
    BY <1>1, <1>3
  <2>2. /\ Append(all, c) \in Seq(Glyphs) /\ Len(Append(all, c)) = Len(all) + 1
        /\ Append(all, c)[Len(all) + 1] = c
        /\ \A i \in 1 .. Len(all) : Append(all, c)[i] = all[i]
    BY AppendFacts
  <2> QED
    BY <1>3, <2>1, <2>2
<1>5. PICK y \in Seq(Glyphs) : y = Prompt \o f /\ Len(y) = n + 3
        /\ (\A i \in 1 .. 2 : y[i] = Prompt[i]) /\ \A i \in 1 .. n + 1 : y[i + 2] = f[i]
  <2>1. Len(f) + 2 = n + 3
    BY <1>1, <1>2
  <2>2. /\ Prompt \o f \in Seq(Glyphs) /\ Len(Prompt \o f) = Len(f) + 2
        /\ \A i \in 1 .. 2 : (Prompt \o f)[i] = Prompt[i]
        /\ \A i \in 1 .. Len(f) : (Prompt \o f)[i + 2] = f[i]
    BY LineFacts
  <2> QED
    BY ZenonT(60), <1>2, <2>1, <2>2
<1>6. ASSUME NEW i \in 1 .. n + 3 PROVE x[i] = y[i]
  <2>1. CASE i \in 1 .. 2
    <3>1. i \in 1 .. n + 2
      BY <1>1, <2>1
    <3> QED
      BY <1>3, <1>4, <1>5, <2>1, <3>1
  <2>2. CASE i > 2 /\ i <= n + 2
    <3>1. PICK j \in 1 .. n : i = j + 2
      <4>1. i - 2 \in 1 .. n /\ i = (i - 2) + 2
        BY <1>1, <2>2
      <4> QED
        BY <4>1
    <3>2. j \in 1 .. n + 1 /\ i \in 1 .. n + 2
      BY <1>1, <2>2
    <3> QED
      BY <1>2, <1>3, <1>4, <1>5, <3>1, <3>2
  <2>3. CASE i = n + 3
    <3>1. n + 1 \in 1 .. n + 1 /\ i = (n + 1) + 2
      BY <1>1, <2>3
    <3> QED
      BY <1>2, <1>4, <1>5, <2>3, <3>1
  <2> QED
    BY <1>1, <2>1, <2>2, <2>3
<1>7. x = y
  BY <1>4, <1>5, <1>6, SeqEqual
<1> QED
  BY <1>2, <1>3, <1>4, <1>5, <1>7

\* A key that finds nobody inside terminal_putchar keeps the invariant.
LEMMA KeyStep ==
  ASSUME Calm, AtRest, UNCHANGED users, NEW k \in Letters \cup Editing, KeyPress(k)
  PROVE  Calm'
<1>2. /\ term \in Terminals /\ cmd \in Seq(Glyphs) /\ Len(cmd) + 1 <= MaxCmd
      /\ "threads" \notin users => Shown(term, Prompt \o cmd)
  BY DEF Calm, TypeOK, RestInv, KeysInv
<1>3. PICK c \in Glyphs : c = KeyChar(k) /\ HandleKey(c)
  BY DEF KeyPress, KeyChar, Glyphs, Calm, TypeOK
<1>4. PICK line \in Seq(Glyphs) : line = Prompt \o cmd
  BY <1>2, LineFacts
<1>5. Len(line) = Len(cmd) + 2 /\ Len(cmd) \in Nat
  BY <1>2, <1>4, LineFacts
<1>6. SUFFICES /\ term' \in Terminals /\ term'.cursor = Position(term')
               /\ cmd' \in Seq(Glyphs) /\ Len(cmd') + 1 <= MaxCmd
               /\ "threads" \notin users => Shown(term', Prompt \o cmd')
  <2>1. UNCHANGED <<shift, pc, reg, users>>
    BY DEF KeyPress
  <2>2. ASSUME term' \in Terminals, cmd' \in Seq(Glyphs), Len(cmd') + 1 <= MaxCmd PROVE TypeOK'
    <3>1. term' \in [row : 0 .. Height, col : 0 .. Width - 1, cells : [Cells -> Glyphs],
                     cursor : Nat]
      BY <2>2, ScreenFacts DEF Terminals
    <3> QED
      BY <2>1, <2>2, <3>1 DEF Calm, TypeOK
  <2>3. AtRest' /\ Alone' /\ (\A t \in Threads : Holds(t))'
    BY <2>1 DEF AtRest, Alone, Holds
  <2> QED
    BY <2>1, <2>2, <2>3 DEF Calm, RestInv, KeysInv
<1>7. CASE c = Newline /\ term' = Execute(PutChar(term, Newline)) /\ cmd' = <<>>
  <2>1. PICK t \in Terminals : t = PutChar(term, Newline)
    BY <1>2, PutNewline
  <2>2. PICK q \in Terminals : q = Execute(t) /\ q.cursor = Position(q) /\ Shown(q, Prompt)
    BY <1>2, <2>1, ExecuteShown
  <2>3. term' = q
    BY <1>7, <2>1, <2>2
  <2>4. Len(cmd') = 0 /\ cmd' \in Seq(Glyphs)
    BY <1>7
  <2> QED
    BY <1>7, <2>2, <2>3, <2>4, EmptyLine, ScreenFacts
<1>8. CASE c = Backspace /\ cmd # <<>> /\ cmd' = Front(cmd) /\ term' = PutChar(term, Backspace)
  <2>1. PICK t \in Terminals : t = term'
    BY <1>2, <1>8, PutBackspace
  <2>2. t.cursor = Position(t)
    BY <1>2, <1>8, <2>1, PutBackspace
  <2>3. cmd' \in Seq(Glyphs) /\ Len(cmd') = Len(cmd) - 1
    BY <1>2, <1>8, FrontFacts
  <2>4. "threads" \notin users => Shown(t, Front(line))
    <3>1. line # <<>>
      BY <1>5
    <3> QED
      BY <1>2, <1>4, <1>8, <2>1, <3>1, ShownBack
  <2>5. Front(line) = Prompt \o cmd'
    BY <1>2, <1>4, <1>8, FrontOfLine
  <2> QED
    BY <1>2, <1>5, <2>1, <2>2, <2>3, <2>4, <2>5, ScreenFacts
<1>9. CASE c \notin {Newline, Backspace} /\ Room /\ cmd' = Append(cmd, c) /\ term' = PutChar(term, c)
  <2>1. PICK t \in Terminals : t = term' /\ t.cursor = Position(t)
    BY <1>2, <1>9, PutPrintable
  <2>2. cmd' \in Seq(Glyphs) /\ Len(cmd') = Len(cmd) + 1
    BY <1>2, <1>9, AppendFacts
  <2>3. Len(cmd) + 1 <= MaxCmd - 1
    BY <1>5, <1>9, ScreenFacts DEF Room
  <2>4. Len(line) + 1 <= Width * Height - Width
    BY <1>5, <2>3, ScreenFacts
  <2>5. "threads" \notin users => Shown(t, Append(line, c))
    BY <1>2, <1>4, <1>9, <2>1, <2>4, ShownPut
  <2>6. Append(line, c) = Prompt \o cmd'
    BY <1>2, <1>4, <1>9, AppendToLine
  <2> QED
    BY <1>5, <2>1, <2>2, <2>3, <2>5, <2>6, ScreenFacts
<1> QED
  BY <1>3, <1>7, <1>8, <1>9 DEF HandleKey

\* The shift keys keep the invariant.
LEMMA ShiftStep ==
  ASSUME Calm, UNCHANGED users, NEW down \in BOOLEAN, ShiftKey(down)
  PROVE  Calm'
<1>1. UNCHANGED <<term, cmd, pc, reg, users>> /\ shift' \in BOOLEAN
  BY DEF ShiftKey
<1> QED
  BY <1>1 DEF Calm, TypeOK, RestInv, KeysInv, Alone, Holds, AtRest

\* A thread that enters when nobody is inside, or is inside, keeps the invariant.
LEMMA ThreadKeeps ==
  ASSUME Calm, "threads" \in users, UNCHANGED users,
         NEW t \in Threads, ThreadStep(t), pc[t] = "load" => AtRest
  PROVE  Calm'
<1>1. \A u \in Threads : u # t => pc[u] = "load"
  BY DEF Calm, Alone, AtRest
<1>2. PICK r \in 0 .. Height, k \in 0 .. Width - 1, cells \in [Cells -> Glyphs], cur \in Nat :
        term = [row |-> r, col |-> k, cells |-> cells, cursor |-> cur]
  BY DEF Calm, TypeOK
<1>3. PICK gr \in 0 .. Height, gc \in 0 .. Width - 1 : reg[t] = [row |-> gr, col |-> gc]
  <2>1. reg[t] \in [row : 0 .. Height, col : 0 .. Width - 1]
    BY DEF Calm, TypeOK
  <2> QED
    BY <2>1
<1>4. Height \in Nat /\ Width \in Nat /\ Height >= 2 /\ Width >= 1
  BY ScreenFacts
<1>5. /\ pc \in [Threads -> PCs]
      /\ reg \in [Threads -> [row : 0 .. Height, col : 0 .. Width - 1]]
  BY DEF Calm, TypeOK
<1>6. pc[t] = "load" => term \in Terminals /\ term.cursor = Position(term)
  BY DEF Calm, RestInv
<1>7. /\ pc[t] # "load" => gr = r /\ gc = k
      /\ pc[t] = "scroll" => r = Height
      /\ pc[t] = "reset" => r = Height
      /\ pc[t] = "put" => r < Height
      /\ pc[t] = "advance" => r < Height /\ k + 1 # Width
      /\ pc[t] = "column" => r < Height
      /\ pc[t] = "row" => r < Height
      /\ pc[t] = "cursor" => r < Height
  <2>1. Holds(t)
    BY DEF Calm
  <2>2. term.row = r /\ term.col = k /\ reg[t].row = gr /\ reg[t].col = gc
    BY <1>2, <1>3
  <2> QED
    BY <2>1, <2>2 DEF Holds
<1>8. UNCHANGED <<cmd, shift, users>>
  BY DEF ThreadStep, ThreadLoad, ThreadPut, ThreadAdvance, ThreadColumn, ThreadRow,
     ThreadScroll, ThreadReset, ThreadCursor
\* What is left to show of a step that leaves t inside terminal_putchar.
<1>9. ASSUME NEW p \in PCs, p # "load", pc' = [pc EXCEPT ![t] = p],
             NEW r2 \in 0 .. Height, NEW k2 \in 0 .. Width - 1,
             NEW cells2 \in [Cells -> Glyphs],
             term' = [row |-> r2, col |-> k2, cells |-> cells2, cursor |-> cur],
             reg' = [reg EXCEPT ![t] = [row |-> r2, col |-> k2]],
             p \in {"scroll", "reset"} => r2 = Height,
             p \notin {"scroll", "reset"} => r2 < Height,
             p = "advance" => k2 + 1 # Width
      PROVE  Calm'
  <2>1. pc'[t] = p /\ reg'[t] = [row |-> r2, col |-> k2]
    BY <1>5, <1>9
  <2>2. [row |-> r2, col |-> k2] \in [row : 0 .. Height, col : 0 .. Width - 1]
    OBVIOUS
  <2>3. TypeOK'
    <3>1. term' \in [row : 0 .. Height, col : 0 .. Width - 1, cells : [Cells -> Glyphs],
                     cursor : Nat]
      BY <1>2, <1>9
    <3>2. pc' \in [Threads -> PCs]
      BY <1>5, <1>9
    <3>3. reg' \in [Threads -> [row : 0 .. Height, col : 0 .. Width - 1]]
      BY <1>5, <1>9, <2>2
    <3> QED
      BY <1>8, <3>1, <3>2, <3>3 DEF Calm, TypeOK
  <2>4. RestInv' /\ KeysInv'
    BY <1>8, <1>9, <2>1 DEF RestInv, AtRest, KeysInv
  <2>5. Holds(t)'
    <3>1. reg'[t].row = term'.row /\ reg'[t].col = term'.col /\ reg'[t].row = r2 /\ reg'[t].col = k2
      BY <1>9, <2>1
    <3> QED
      BY <1>9, <2>1, <3>1 DEF Holds
  <2>6. \A u \in Threads : u # t => pc'[u] = "load"
    BY <1>1, <1>5, <1>9
  <2>7. Alone' /\ (\A u \in Threads : Holds(u))'
    BY <2>5, <2>6 DEF Alone, Holds
  <2> QED
    BY <2>3, <2>4, <2>7 DEF Calm
<1>10. pc[t] # "load" => reg[t] = [row |-> r, col |-> k] /\ reg = [reg EXCEPT ![t] = [row |-> r, col |-> k]]
  <2>1. pc[t] # "load" => reg[t] = [row |-> r, col |-> k]
    BY <1>3, <1>7
  <2> QED
    BY <1>5, <2>1
<1>11. CASE ThreadLoad(t)
  <2>1. /\ pc[t] = "load" /\ pc' = [pc EXCEPT ![t] = "put"]
        /\ reg' = [reg EXCEPT ![t] = [row |-> r, col |-> k]] /\ term' = term
    BY <1>2, <1>11 DEF ThreadLoad, Step
  <2>2. r < Height
    BY <1>2, <1>4, <1>6, <2>1 DEF Terminals
  <2> QED
    BY <1>2, <1>9, <2>1, <2>2 DEF PCs
<1>12. CASE ThreadPut(t)
  <2>1. /\ pc[t] = "put" /\ pc' = [pc EXCEPT ![t] = IF k + 1 = Width THEN "column" ELSE "advance"]
        /\ reg' = reg
    <3>1. pc[t] = "put" /\ reg[t].col = k
      BY <1>3, <1>7, <1>12 DEF ThreadPut, Step
    <3> QED
      BY <1>12, <3>1 DEF ThreadPut, Step
  <2>2. PICK cells2 \in [Cells -> Glyphs] :
          term' = [row |-> r, col |-> k, cells |-> cells2, cursor |-> cur]
    <3> DEFINE cells2 == IF Position(reg[t]) \in Cells
                         THEN [cells EXCEPT ![Position(reg[t])] = Plain(t)] ELSE cells
    <3>1. cells2 \in [Cells -> Glyphs]
      BY GlyphFacts
    <3>2. term' = [row |-> r, col |-> k, cells |-> cells2, cursor |-> cur]
      BY <1>2, <1>12 DEF ThreadPut
    <3> QED
      BY <3>1, <3>2
  <2>3. CASE k + 1 = Width
    <3>1. /\ "column" \in PCs /\ pc' = [pc EXCEPT ![t] = "column"] /\ r < Height
          /\ "column" \notin {"scroll", "reset", "load", "advance"}
      BY <1>7, <2>1, <2>3 DEF PCs
    <3>2. reg' = [reg EXCEPT ![t] = [row |-> r, col |-> k]]
      BY <1>10, <2>1
    <3> QED
      BY <1>2, <1>9, <2>2, <3>1, <3>2
  <2>4. CASE k + 1 # Width
    <3>1. /\ "advance" \in PCs /\ pc' = [pc EXCEPT ![t] = "advance"] /\ r < Height
          /\ "advance" \notin {"scroll", "reset", "load"}
      BY <1>7, <2>1, <2>4 DEF PCs
    <3>2. reg' = [reg EXCEPT ![t] = [row |-> r, col |-> k]]
      BY <1>10, <2>1
    <3> QED
      BY <1>2, <1>9, <2>2, <2>4, <3>1, <3>2
  <2> QED
    BY <2>3, <2>4
<1>13. CASE ThreadAdvance(t)
  <2>1. /\ pc[t] = "advance" /\ pc' = [pc EXCEPT ![t] = "cursor"]
        /\ reg' = [reg EXCEPT ![t].col = @ + 1] /\ term' = [term EXCEPT !.col = reg'[t].col]
    BY <1>13 DEF ThreadAdvance, Step
  <2>2. k + 1 \in 0 .. Width - 1
    BY <1>2, <1>4, <1>7, <2>1
  <2>3. reg' = [reg EXCEPT ![t] = [row |-> r, col |-> k + 1]] /\ reg'[t].col = k + 1
    <3>1. [reg[t] EXCEPT !.col = @ + 1] = [row |-> r, col |-> k + 1]
      BY <1>10, <2>1
    <3>2. reg' = [reg EXCEPT ![t] = [reg[t] EXCEPT !.col = @ + 1]]
      BY <2>1
    <3> QED
      BY <1>5, <3>1, <3>2
  <2>4. term' = [row |-> r, col |-> k + 1, cells |-> cells, cursor |-> cur]
    BY <1>2, <2>1, <2>3
  <2>5. /\ "cursor" \in PCs /\ r < Height
        /\ "cursor" \notin {"scroll", "reset", "load", "advance"}
    BY <1>7, <2>1 DEF PCs
  <2> QED
    BY <1>2, <1>9, <2>1, <2>2, <2>3, <2>4, <2>5
<1>14. CASE ThreadColumn(t)
  <2>1. /\ pc[t] = "column" /\ pc' = [pc EXCEPT ![t] = "row"]
        /\ reg' = [reg EXCEPT ![t].col = 0] /\ term' = [term EXCEPT !.col = 0]
    BY <1>14 DEF ThreadColumn, Step
  <2>2. 0 \in 0 .. Width - 1
    BY <1>4
  <2>3. reg' = [reg EXCEPT ![t] = [row |-> r, col |-> 0]]
    <3>1. [reg[t] EXCEPT !.col = 0] = [row |-> r, col |-> 0]
      BY <1>10, <2>1
    <3>2. reg' = [reg EXCEPT ![t] = [reg[t] EXCEPT !.col = 0]]
      BY <2>1
    <3> QED
      BY <3>1, <3>2
  <2>4. term' = [row |-> r, col |-> 0, cells |-> cells, cursor |-> cur]
    BY <1>2, <2>1
  <2>5. /\ "row" \in PCs /\ r < Height
        /\ "row" \notin {"scroll", "reset", "load", "advance"}
    BY <1>7, <2>1 DEF PCs
  <2> QED
    BY <1>2, <1>9, <2>1, <2>2, <2>3, <2>4, <2>5
<1>15. CASE ThreadRow(t)
  <2>1. /\ pc[t] = "row"
        /\ pc' = [pc EXCEPT ![t] = IF r + 1 = Height THEN "scroll" ELSE "cursor"]
        /\ reg' = [reg EXCEPT ![t].row = @ + 1] /\ term' = [term EXCEPT !.row = reg'[t].row]
    <3>1. pc[t] = "row" /\ reg[t].row = r
      BY <1>3, <1>7, <1>15 DEF ThreadRow, Step
    <3> QED
      BY <1>15, <3>1 DEF ThreadRow, Step, AtBottom
  <2>2. r + 1 \in 0 .. Height
    BY <1>2, <1>4, <1>7, <2>1
  <2>3. reg' = [reg EXCEPT ![t] = [row |-> r + 1, col |-> k]] /\ reg'[t].row = r + 1
    <3>1. [reg[t] EXCEPT !.row = @ + 1] = [row |-> r + 1, col |-> k]
      BY <1>10, <2>1
    <3>2. reg' = [reg EXCEPT ![t] = [reg[t] EXCEPT !.row = @ + 1]]
      BY <2>1
    <3> QED
      BY <1>5, <3>1, <3>2
  <2>4. term' = [row |-> r + 1, col |-> k, cells |-> cells, cursor |-> cur]
    BY <1>2, <2>1, <2>3
  <2>5. CASE r + 1 = Height
    BY ZenonT(60), <1>2, <1>9, <2>1, <2>2, <2>3, <2>4, <2>5 DEF PCs
  <2>6. CASE r + 1 # Height
    <3>1. r + 1 < Height
      BY <1>4, <2>2, <2>6
    <3> QED
      BY <1>2, <1>9, <2>1, <2>2, <2>3, <2>4, <2>6, <3>1 DEF PCs
  <2> QED
    BY <2>5, <2>6
<1>16. CASE ThreadScroll(t)
  <2>1. /\ pc[t] = "scroll" /\ pc' = [pc EXCEPT ![t] = "reset"]
        /\ reg' = reg /\ term' = [term EXCEPT !.cells = Scrolled(@)]
    BY <1>16 DEF ThreadScroll, Step
  <2>2. Scrolled(cells) \in [Cells -> Glyphs]
    BY ScrolledKeeps
  <2>3. term' = [row |-> r, col |-> k, cells |-> Scrolled(cells), cursor |-> cur]
    BY <1>2, <2>1
  <2>4. "reset" \in PCs /\ r = Height
    BY <1>7, <2>1 DEF PCs
  <2> QED
    BY <1>2, <1>9, <1>10, <2>1, <2>2, <2>3, <2>4
<1>17. CASE ThreadReset(t)
  <2>1. /\ pc[t] = "reset" /\ pc' = [pc EXCEPT ![t] = "cursor"]
        /\ reg' = [reg EXCEPT ![t].row = Height - 1] /\ term' = [term EXCEPT !.row = Height - 1]
    BY <1>17 DEF ThreadReset, Step
  <2>2. Height - 1 \in 0 .. Height /\ Height - 1 < Height
    BY <1>4
  <2>3. reg' = [reg EXCEPT ![t] = [row |-> Height - 1, col |-> k]]
    <3>1. [reg[t] EXCEPT !.row = Height - 1] = [row |-> Height - 1, col |-> k]
      BY <1>10, <2>1
    <3>2. reg' = [reg EXCEPT ![t] = [reg[t] EXCEPT !.row = Height - 1]]
      BY <2>1
    <3> QED
      BY <3>1, <3>2
  <2>4. term' = [row |-> Height - 1, col |-> k, cells |-> cells, cursor |-> cur]
    BY <1>2, <2>1
  <2> QED
    BY <1>2, <1>9, <2>1, <2>2, <2>3, <2>4 DEF PCs
<1>18. CASE ThreadCursor(t)
  <2>1. /\ pc[t] = "cursor" /\ pc' = [pc EXCEPT ![t] = "load"]
        /\ reg' = [reg EXCEPT ![t] = [row |-> 0, col |-> 0]]
        /\ term' = [term EXCEPT !.cursor = Position(reg[t])]
    BY <1>18 DEF ThreadCursor, Step, ShownPosition, Unused
  <2>2. r \in 0 .. Height - 1
    BY <1>2, <1>4, <1>7, <2>1
  <2>3. Position(reg[t]) = Position(term) /\ Position(term) \in Nat
    <3>1. Position(reg[t]) = Position(term)
      BY <1>2, <1>10, <2>1 DEF Position
    <3>2. term.row \in 0 .. Height - 1 /\ term.col \in 0 .. Width - 1
      BY <1>2, <2>2
    <3> QED
      BY <3>1, <3>2, PositionInCells
  <2>4. term' = [row |-> r, col |-> k, cells |-> cells, cursor |-> Position(term)]
    BY <1>2, <2>1, <2>3
  <2>5. term' \in Terminals /\ term'.cursor = Position(term')
    <3>1. term' \in Terminals
      BY <2>2, <2>3, <2>4 DEF Terminals
    <3>2. Position(term') = Position(term)
      BY <1>2, <2>4 DEF Position
    <3>3. term'.cursor = Position(term)
      BY <2>4
    <3> QED
      BY <3>1, <3>2, <3>3
  <2>6. TypeOK'
    <3>1. term' \in [row : 0 .. Height, col : 0 .. Width - 1, cells : [Cells -> Glyphs],
                     cursor : Nat]
      BY <2>3, <2>4
    <3>2. pc' \in [Threads -> PCs]
      BY <1>5, <2>1 DEF PCs
    <3>3. reg' \in [Threads -> [row : 0 .. Height, col : 0 .. Width - 1]]
      <4>1. [row |-> 0, col |-> 0] \in [row : 0 .. Height, col : 0 .. Width - 1]
        BY <1>4
      <4> QED
        BY <1>5, <2>1, <4>1
    <3> QED
      BY <1>8, <3>1, <3>2, <3>3 DEF Calm, TypeOK
  <2>7. \A u \in Threads : pc'[u] = "load"
    BY <1>1, <1>5, <2>1
  <2>8. RestInv' /\ KeysInv' /\ Alone' /\ (\A u \in Threads : Holds(u))'
    BY <1>8, <2>5, <2>7 DEF RestInv, KeysInv, Alone, Holds
  <2> QED
    BY <2>6, <2>8 DEF Calm
<1> QED
  BY <1>11, <1>12, <1>13, <1>14, <1>15, <1>16, <1>17, <1>18 DEF ThreadStep

-----------------------------------------------------------------------------
(* Every interleaving.                                                     *)

\* A terminal that is usable is one of those that interleavings may lead to.
LEMMA TerminalsAreWild == Terminals \subseteq WildTerminals
BY ScreenFacts DEF Terminals, WildTerminals

\* A character that finds the row anywhere leaves the column on the screen.
LEMMA WildPut ==
  ASSUME NEW t \in WildTerminals, NEW c \in Glyphs
  PROVE  PutChar(t, c) \in WildTerminals
<1>1. PICK r \in Nat, k \in 0 .. Width - 1, cells \in [Cells -> Glyphs], cur \in Nat :
        t = [row |-> r, col |-> k, cells |-> cells, cursor |-> cur]
  BY DEF WildTerminals
<1>2. /\ Height \in Nat /\ Width \in Nat /\ Height - 1 \in Nat
      /\ 0 \in 0 .. Width - 1 /\ Width - 1 \in 0 .. Width - 1
  BY ScreenFacts
<1>3. ASSUME NEW k2, NEW cells2 \in [Cells -> Glyphs],
             NEW u, u = [row |-> r, col |-> k2, cells |-> cells2, cursor |-> cur]
      PROVE  NewLine(u) \in WildTerminals
  <2>1. Scrolled(cells2) \in [Cells -> Glyphs]
    BY ScrolledKeeps
  <2>2. CASE r + 1 = Height
    <3>1. NewLine(u) = [u EXCEPT !.col = 0, !.row = Height - 1, !.cells = Scrolled(@)]
      BY <1>3, <2>2 DEF NewLine
    <3>2. NewLine(u) = [row |-> Height - 1, col |-> 0, cells |-> Scrolled(cells2), cursor |-> cur]
      BY <1>3, <3>1
    <3> QED
      BY <1>2, <2>1, <3>2 DEF WildTerminals
  <2>3. CASE r + 1 # Height
    <3>1. NewLine(u) = [u EXCEPT !.col = 0, !.row = @ + 1]
      BY <1>3, <2>3 DEF NewLine
    <3>2. NewLine(u) = [row |-> r + 1, col |-> 0, cells |-> cells2, cursor |-> cur]
      BY <1>3, <3>1
    <3> QED
      BY <1>2, <3>2 DEF WildTerminals
  <2> QED
    BY <2>2, <2>3
<1>4. ASSUME NEW u \in WildTerminals PROVE UpdateCursor(u) \in WildTerminals
  <2>1. u.row \in Nat /\ u.col \in Nat
    BY <1>2 DEF WildTerminals
  <2>2. u.row * Width + u.col \in Nat
    BY <1>2, <2>1
  <2> QED
    BY <2>2 DEF UpdateCursor, Position, WildTerminals
<1>5. CASE c = Newline
  BY <1>1, <1>3, <1>5, GlyphFacts DEF PutChar
<1>6. CASE c = Backspace
  <2>1. PICK b \in WildTerminals : b = Back(t)
    <3>1. CASE k > 0
      <4>1. Back(t) = [row |-> r, col |-> k - 1, cells |-> cells, cursor |-> cur]
        BY <1>1, <3>1 DEF Back
      <4>2. k - 1 \in 0 .. Width - 1
        BY <1>2, <3>1
      <4> QED
        BY <4>1, <4>2 DEF WildTerminals
    <3>2. CASE k = 0 /\ r > 0
      <4>1. Back(t) = [row |-> r - 1, col |-> Width - 1, cells |-> cells, cursor |-> cur]
        <5>1. Back(t) = [t EXCEPT !.row = @ - 1, !.col = Width - 1]
          BY <1>1, <3>2 DEF Back
        <5> QED
          BY <1>1, <5>1
      <4>2. r - 1 \in Nat
        BY <3>2
      <4> QED
        BY <1>2, <4>1, <4>2 DEF WildTerminals
    <3>3. CASE k = 0 /\ r = 0
      <4>1. Back(t) = t
        BY <1>1, <3>3 DEF Back
      <4> QED
        BY <4>1
    <3> QED
      BY <1>2, <3>1, <3>2, <3>3
  <2>2. PICK p : p = Position(b)
    OBVIOUS
  <2>3. [b EXCEPT !.cells[p] = Blank] \in WildTerminals
    <3>1. [b.cells EXCEPT ![p] = Blank] \in [Cells -> Glyphs]
      BY GlyphFacts DEF WildTerminals
    <3>2. [b EXCEPT !.cells = [b.cells EXCEPT ![p] = Blank]] \in WildTerminals
      BY <3>1 DEF WildTerminals
    <3>3. [b EXCEPT !.cells[p] = Blank] = [b EXCEPT !.cells = [b.cells EXCEPT ![p] = Blank]]
      OBVIOUS
    <3> QED
      BY <3>2, <3>3
  <2>4. PutChar(t, c) = UpdateCursor([b EXCEPT !.cells[p] = Blank])
    BY <1>6, <2>1, <2>2, GlyphFacts DEF PutChar
  <2> QED
    BY <1>4, <2>3, <2>4
<1>7. CASE c # Newline /\ c # Backspace
  <2>1. PICK p : p = Position(t)
    OBVIOUS
  <2>2. PICK full \in [Cells -> Glyphs] : full = [cells EXCEPT ![p] = c]
    OBVIOUS
  <2>3. PICK u : u = [row |-> r, col |-> k + 1, cells |-> full, cursor |-> cur]
    OBVIOUS
  <2>4. [t EXCEPT !.cells[p] = c, !.col = @ + 1] = u
    <3> DEFINE v == [t EXCEPT !.cells[p] = c]
    <3>1. v = [row |-> r, col |-> k, cells |-> full, cursor |-> cur]
      BY <1>1, <2>2
    <3>2. [t EXCEPT !.cells[p] = c, !.col = @ + 1] = [v EXCEPT !.col = @ + 1]
      OBVIOUS
    <3> HIDE DEF v
    <3>3. [v EXCEPT !.col = @ + 1] = u
      BY <2>3, <3>1
    <3> QED
      BY <3>2, <3>3
  <2>5. PutChar(t, c) = UpdateCursor(IF k + 1 = Width THEN NewLine(u) ELSE u)
    <3>1. u.col = k + 1
      BY <2>3
    <3>2. PutChar(t, c) = UpdateCursor(IF u.col = Width THEN NewLine(u) ELSE u)
      BY <1>7, <2>1, <2>4 DEF PutChar
    <3> QED
      BY <3>1, <3>2
  <2>6. CASE k + 1 = Width
    <3>1. NewLine(u) \in WildTerminals
      BY <1>3, <2>3
    <3> QED
      BY <1>4, <2>5, <2>6, <3>1
  <2>7. CASE k + 1 # Width
    <3>1. k + 1 \in 0 .. Width - 1
      BY <1>2, <2>7
    <3>2. u \in WildTerminals
      BY <2>3, <3>1 DEF WildTerminals
    <3> QED
      BY <1>4, <2>5, <2>7, <3>2
  <2> QED
    BY <2>6, <2>7
<1> QED
  BY <1>5, <1>6, <1>7

\* So does a text.
LEMMA WildWrite ==
  ASSUME NEW t \in WildTerminals, NEW text \in Seq(Glyphs)
  PROVE  Write(t, text) \in WildTerminals
<1>1. PICK n \in Nat : n = Len(text)
  OBVIOUS
<1>2. PICK f : /\ f[0] = t /\ f[n] = Write(t, text)
               /\ \A i \in 1 .. n : f[i] = PutChar(f[i - 1], text[i])
  BY <1>1, WriteSteps
<1> DEFINE Bad == {i \in 0 .. n : f[i] \notin WildTerminals}
<1>3. SUFFICES ASSUME Bad # {} PROVE FALSE
  <2>1. n \in 0 .. n
    BY <1>1
  <2>2. SUFFICES ASSUME Write(t, text) \notin WildTerminals PROVE FALSE
    OBVIOUS
  <2>3. n \in Bad
    BY <1>2, <2>1, <2>2
  <2> QED
    BY <2>3, <1>3
<1>4. Bad \in SUBSET Nat
  OBVIOUS
<1>5. PICK k \in Bad : \A j \in Bad : k <= j
  BY <1>3, <1>4, LeastNatural
<1>6. k \in 1 .. n /\ k - 1 \in 0 .. n
  BY <1>2, <1>5
<1>7. k - 1 \notin Bad
  BY <1>5, <1>6
<1>8. f[k - 1] \in WildTerminals
  BY <1>6, <1>7
<1>9. text[k] \in Glyphs
  BY <1>1, <1>6
<1>10. f[k] \in WildTerminals
  BY <1>2, <1>6, <1>8, <1>9, WildPut
<1> QED
  BY <1>5, <1>10

\* So does a command.
LEMMA WildExecute ==
  ASSUME NEW t \in WildTerminals, cmd \in Seq(Glyphs)
  PROVE  Execute(t) \in WildTerminals
<1> DEFINE out == CASE cmd = ClearCmd -> Initialized(t.cursor)
                    [] cmd = TextCmd  -> Write(t, <<Plain("text"), Newline>>)
                    [] OTHER -> Write(t, <<Plain("unknown")>> \o cmd \o <<Newline>>)
<1>1. Initialized(t.cursor) \in WildTerminals
  <2>1. t.cursor \in Nat
    BY DEF WildTerminals
  <2> QED
    BY <2>1, InitializedFits, TerminalsAreWild
<1>2. Write(t, <<Plain("text"), Newline>>) \in WildTerminals
  <2>1. <<Plain("text"), Newline>> \in Seq(Glyphs)
    BY GlyphFacts
  <2> QED
    BY <2>1, WildWrite
<1>3. Write(t, <<Plain("unknown")>> \o cmd \o <<Newline>>) \in WildTerminals
  <2>1. <<Plain("unknown")>> \o cmd \o <<Newline>> \in Seq(Glyphs)
    BY GlyphFacts
  <2> QED
    BY <2>1, WildWrite
<1>4. out \in WildTerminals
  BY <1>1, <1>2, <1>3
<1>5. Execute(t) = Write(out, Prompt)
  BY DEF Execute
<1> HIDE DEF out
<1>6. Prompt \in Seq(Glyphs)
  BY GlyphFacts DEF Prompt
<1> QED
  BY <1>4, <1>5, <1>6, WildWrite

\* A key keeps what holds under every interleaving, wherever the threads are.
LEMMA KeyLoose ==
  ASSUME LooseOK, UNCHANGED users, NEW k \in Letters \cup Editing, KeyPress(k)
  PROVE  LooseOK'
<1>1. PICK c \in Glyphs : c = KeyChar(k) /\ HandleKey(c)
  BY DEF KeyPress, KeyChar, Glyphs, LooseOK
<1>2. /\ term \in WildTerminals /\ cmd \in Seq(Glyphs)
      /\ Len(cmd) \in Nat /\ Len(cmd) + 1 <= MaxCmd
  BY DEF LooseOK
<1>3. /\ term' \in WildTerminals /\ cmd' \in Seq(Glyphs) /\ Len(cmd') + 1 <= MaxCmd
  <2>1. CASE c = Newline /\ term' = Execute(PutChar(term, Newline)) /\ cmd' = <<>>
    <3>1. PICK t \in WildTerminals : t = PutChar(term, Newline)
      BY <1>2, WildPut, GlyphFacts
    <3>2. Execute(t) \in WildTerminals
      BY <1>2, WildExecute
    <3>3. cmd' \in Seq(Glyphs) /\ Len(cmd') + 1 <= MaxCmd
      BY <2>1, ScreenFacts
    <3> QED
      BY <2>1, <3>1, <3>2, <3>3
  <2>2. CASE c = Backspace /\ cmd # <<>> /\ cmd' = Front(cmd) /\ term' = PutChar(term, Backspace)
    <3>1. cmd' \in Seq(Glyphs) /\ Len(cmd') = Len(cmd) - 1
      BY <1>2, <2>2, FrontFacts
    <3>2. Len(cmd') + 1 <= MaxCmd
      BY <1>2, <3>1, ScreenFacts
    <3> QED
      BY <1>2, <2>2, <3>1, <3>2, WildPut, GlyphFacts
  <2>3. CASE c \notin {Newline, Backspace} /\ Room /\ cmd' = Append(cmd, c) /\ term' = PutChar(term, c)
    <3>1. cmd' \in Seq(Glyphs) /\ Len(cmd') = Len(cmd) + 1
      BY <1>2, <2>3, AppendFacts
    <3>2. Len(cmd') + 1 <= MaxCmd
      BY <1>2, <2>3, <3>1, ScreenFacts DEF Room
    <3> QED
      BY <1>2, <2>3, <3>1, <3>2, WildPut
  <2> QED
    BY <1>1, <2>1, <2>2, <2>3 DEF HandleKey
<1>4. UNCHANGED <<shift, pc, reg, users>> /\ disturbed' \in BOOLEAN
  BY DEF KeyPress, Enter
<1>5. "threads" \notin users' => AtRest' /\ ~disturbed'
  BY <1>4 DEF LooseOK, AtRest, KeyPress, Enter
<1> QED
  BY <1>3, <1>4, <1>5 DEF LooseOK

\* A thread keeps it, whatever the others have done since it loaded its registers.
LEMMA ThreadLoose ==
  ASSUME LooseOK, "threads" \in users, UNCHANGED users, NEW t \in Threads, ThreadStep(t)
  PROVE  LooseOK'
<1>1. PICK r \in Nat, k \in 0 .. Width - 1, cells \in [Cells -> Glyphs], cur \in Nat :
        term = [row |-> r, col |-> k, cells |-> cells, cursor |-> cur]
  BY DEF LooseOK, WildTerminals
<1>2. PICK gr \in Nat, gc \in 0 .. Width - 1 : reg[t] = [row |-> gr, col |-> gc]
  <2>1. reg[t] \in [row : Nat, col : 0 .. Width - 1]
    BY DEF LooseOK
  <2> QED
    BY <2>1
<1>3. /\ pc \in [Threads -> PCs] /\ reg \in [Threads -> [row : Nat, col : 0 .. Width - 1]]
      /\ \A u \in Threads : pc[u] = "advance" => reg[u].col + 1 # Width
  BY DEF LooseOK
<1>4. Height - 1 \in Nat /\ Width \in Nat /\ 0 \in 0 .. Width - 1
  BY ScreenFacts
<1>5. UNCHANGED <<cmd, shift, users>> /\ disturbed' \in BOOLEAN
  BY DEF ThreadStep, ThreadLoad, ThreadPut, ThreadAdvance, ThreadColumn, ThreadRow,
     ThreadScroll, ThreadReset, ThreadCursor, Enter, LooseOK
\* What is left to show of a step.
<1>6. ASSUME NEW p \in PCs, pc' = [pc EXCEPT ![t] = p],
             NEW g \in [row : Nat, col : 0 .. Width - 1], reg' = [reg EXCEPT ![t] = g],
             p = "advance" => g.col + 1 # Width,
             NEW r2 \in Nat, NEW k2 \in 0 .. Width - 1, NEW cells2 \in [Cells -> Glyphs],
             NEW cur2 \in Nat,
             term' = [row |-> r2, col |-> k2, cells |-> cells2, cursor |-> cur2]
      PROVE  LooseOK'
  <2>1. term' \in WildTerminals
    BY <1>6 DEF WildTerminals
  <2>2. pc' \in [Threads -> PCs] /\ reg' \in [Threads -> [row : Nat, col : 0 .. Width - 1]]
    BY <1>3, <1>6
  <2>3. \A u \in Threads : pc'[u] = "advance" => reg'[u].col + 1 # Width
    BY <1>3, <1>6
  <2> QED
    BY <1>5, <2>1, <2>2, <2>3 DEF LooseOK
<1>7. reg = [reg EXCEPT ![t] = [row |-> gr, col |-> gc]]
  BY <1>2, <1>3
<1>8. CASE ThreadLoad(t)
  <2>1. /\ pc' = [pc EXCEPT ![t] = "put"] /\ reg' = [reg EXCEPT ![t] = [row |-> r, col |-> k]]
        /\ term' = term
    BY <1>1, <1>8 DEF ThreadLoad, Step
  <2>2. [row |-> r, col |-> k] \in [row : Nat, col : 0 .. Width - 1] /\ "put" \in PCs
    BY DEF PCs
  <2> QED
    BY <1>1, <1>6, <2>1, <2>2
<1>9. CASE ThreadPut(t)
  <2>1. PICK p \in PCs : /\ pc' = [pc EXCEPT ![t] = p] /\ reg' = reg
                         /\ p = "advance" => gc + 1 # Width
    <3>1. pc' = [pc EXCEPT ![t] = IF reg[t].col + 1 = Width THEN "column" ELSE "advance"]
      BY <1>9 DEF ThreadPut, Step
    <3>2. reg[t].col = gc
      BY <1>2
    <3>3. CASE gc + 1 = Width
      <4>1. pc' = [pc EXCEPT ![t] = "column"] /\ "column" \in PCs /\ "column" # "advance"
        BY <3>1, <3>2, <3>3 DEF PCs
      <4> QED
        BY <1>9, <4>1 DEF ThreadPut
    <3>4. CASE gc + 1 # Width
      <4>1. pc' = [pc EXCEPT ![t] = "advance"] /\ "advance" \in PCs
        BY <3>1, <3>2, <3>4 DEF PCs
      <4> QED
        BY <1>9, <3>4, <4>1 DEF ThreadPut
    <3> QED
      BY <3>3, <3>4
  <2>2. PICK cells2 \in [Cells -> Glyphs] :
          term' = [row |-> r, col |-> k, cells |-> cells2, cursor |-> cur]
    <3> DEFINE cells2 == IF Position(reg[t]) \in Cells
                         THEN [cells EXCEPT ![Position(reg[t])] = Plain(t)] ELSE cells
    <3>1. cells2 \in [Cells -> Glyphs]
      BY GlyphFacts
    <3>2. term' = [row |-> r, col |-> k, cells |-> cells2, cursor |-> cur]
      BY <1>1, <1>9 DEF ThreadPut
    <3> QED
      BY <3>1, <3>2
  <2>3. /\ [row |-> gr, col |-> gc] \in [row : Nat, col : 0 .. Width - 1]
        /\ [row |-> gr, col |-> gc].col = gc
    OBVIOUS
  <2>4. reg' = [reg EXCEPT ![t] = [row |-> gr, col |-> gc]]
    BY <1>7, <2>1
  <2> QED
    BY <1>1, <1>6, <2>1, <2>2, <2>3, <2>4
<1>10. CASE ThreadAdvance(t)
  <2>1. /\ pc[t] = "advance" /\ pc' = [pc EXCEPT ![t] = "cursor"]
        /\ reg' = [reg EXCEPT ![t].col = @ + 1] /\ term' = [term EXCEPT !.col = reg'[t].col]
    BY <1>10 DEF ThreadAdvance, Step
  <2>2. gc + 1 \in 0 .. Width - 1
    <3>1. reg[t].col = gc /\ reg[t].col + 1 # Width
      BY <1>2, <1>3, <2>1
    <3>2. gc + 1 # Width
      BY <3>1
    <3> QED
      BY <1>4, <3>2
  <2>3. reg' = [reg EXCEPT ![t] = [row |-> gr, col |-> gc + 1]] /\ reg'[t].col = gc + 1
    <3>1. [reg[t] EXCEPT !.col = @ + 1] = [row |-> gr, col |-> gc + 1]
      BY <1>2
    <3>2. reg' = [reg EXCEPT ![t] = [reg[t] EXCEPT !.col = @ + 1]]
      BY <2>1
    <3> QED
      BY <1>3, <3>1, <3>2
  <2>4. term' = [row |-> r, col |-> gc + 1, cells |-> cells, cursor |-> cur]
    BY <1>1, <2>1, <2>3
  <2>5. "cursor" \in PCs /\ "cursor" # "advance"
        /\ [row |-> gr, col |-> gc + 1] \in [row : Nat, col : 0 .. Width - 1]
    BY <2>2 DEF PCs
  <2>6. /\ pc' = [pc EXCEPT ![t] = "cursor"]
        /\ reg' = [reg EXCEPT ![t] = [row |-> gr, col |-> gc + 1]]
    BY <2>1, <2>3
  <2> QED
    BY <1>6, <2>2, <2>4, <2>5, <2>6
<1>11. CASE ThreadColumn(t)
  <2>1. /\ pc' = [pc EXCEPT ![t] = "row"]
        /\ reg' = [reg EXCEPT ![t].col = 0] /\ term' = [term EXCEPT !.col = 0]
    BY <1>11 DEF ThreadColumn, Step
  <2>2. reg' = [reg EXCEPT ![t] = [row |-> gr, col |-> 0]]
    <3>1. [reg[t] EXCEPT !.col = 0] = [row |-> gr, col |-> 0]
      BY <1>2
    <3>2. reg' = [reg EXCEPT ![t] = [reg[t] EXCEPT !.col = 0]]
      BY <2>1
    <3> QED
      BY <3>1, <3>2
  <2>3. term' = [row |-> r, col |-> 0, cells |-> cells, cursor |-> cur]
    BY <1>1, <2>1
  <2>4. "row" \in PCs /\ "row" # "advance"
        /\ [row |-> gr, col |-> 0] \in [row : Nat, col : 0 .. Width - 1]
    BY <1>4 DEF PCs
  <2>5. pc' = [pc EXCEPT ![t] = "row"]
    BY <2>1
  <2> QED
    BY <1>4, <1>6, <2>2, <2>3, <2>4, <2>5
<1>12. CASE ThreadRow(t)
  <2>1. PICK p \in PCs : p # "advance" /\ pc' = [pc EXCEPT ![t] = p]
    BY <1>12 DEF ThreadRow, Step, PCs
  <2>2. reg' = [reg EXCEPT ![t].row = @ + 1] /\ term' = [term EXCEPT !.row = reg'[t].row]
    BY <1>12 DEF ThreadRow
  <2>3. reg' = [reg EXCEPT ![t] = [row |-> gr + 1, col |-> gc]] /\ reg'[t].row = gr + 1
    <3>1. [reg[t] EXCEPT !.row = @ + 1] = [row |-> gr + 1, col |-> gc]
      BY <1>2
    <3>2. reg' = [reg EXCEPT ![t] = [reg[t] EXCEPT !.row = @ + 1]]
      BY <2>2
    <3> QED
      BY <1>3, <3>1, <3>2
  <2>4. term' = [row |-> gr + 1, col |-> k, cells |-> cells, cursor |-> cur]
    BY <1>1, <2>2, <2>3
  <2>5. gr + 1 \in Nat /\ [row |-> gr + 1, col |-> gc] \in [row : Nat, col : 0 .. Width - 1]
    OBVIOUS
  <2> QED
    BY <1>6, <2>1, <2>3, <2>4, <2>5
<1>13. CASE ThreadScroll(t)
  <2>1. pc' = [pc EXCEPT ![t] = "reset"] /\ reg' = reg /\ term' = [term EXCEPT !.cells = Scrolled(@)]
    BY <1>13 DEF ThreadScroll, Step
  <2>2. Scrolled(cells) \in [Cells -> Glyphs]
    BY ScrolledKeeps
  <2>3. term' = [row |-> r, col |-> k, cells |-> Scrolled(cells), cursor |-> cur]
    BY <1>1, <2>1
  <2>4. "reset" \in PCs /\ "reset" # "advance"
        /\ [row |-> gr, col |-> gc] \in [row : Nat, col : 0 .. Width - 1]
    BY DEF PCs
  <2> QED
    BY <1>6, <1>7, <2>1, <2>2, <2>3, <2>4
<1>14. CASE ThreadReset(t)
  <2>1. /\ pc' = [pc EXCEPT ![t] = "cursor"]
        /\ reg' = [reg EXCEPT ![t].row = Height - 1] /\ term' = [term EXCEPT !.row = Height - 1]
    BY <1>14 DEF ThreadReset, Step
  <2>2. reg' = [reg EXCEPT ![t] = [row |-> Height - 1, col |-> gc]]
    <3>1. [reg[t] EXCEPT !.row = Height - 1] = [row |-> Height - 1, col |-> gc]
      BY <1>2
    <3>2. reg' = [reg EXCEPT ![t] = [reg[t] EXCEPT !.row = Height - 1]]
      BY <2>1
    <3> QED
      BY <3>1, <3>2
  <2>3. term' = [row |-> Height - 1, col |-> k, cells |-> cells, cursor |-> cur]
    BY <1>1, <2>1
  <2>4. "cursor" \in PCs /\ "cursor" # "advance"
        /\ [row |-> Height - 1, col |-> gc] \in [row : Nat, col : 0 .. Width - 1]
    BY <1>4 DEF PCs
  <2>5. pc' = [pc EXCEPT ![t] = "cursor"]
    BY <2>1
  <2> QED
    BY <1>4, <1>6, <2>2, <2>3, <2>4, <2>5
<1>15. CASE ThreadCursor(t)
  <2>1. /\ pc' = [pc EXCEPT ![t] = "load"] /\ reg' = [reg EXCEPT ![t] = [row |-> 0, col |-> 0]]
        /\ term' = [term EXCEPT !.cursor = Position(reg[t])]
    BY <1>15 DEF ThreadCursor, Step, ShownPosition, Unused
  <2>2. PICK cur2 \in Nat : cur2 = Position(reg[t])
    <3>1. Position(reg[t]) = gr * Width + gc
      BY <1>2 DEF Position
    <3>2. gr * Width + gc \in Nat
      BY <1>4
    <3> QED
      BY <3>1, <3>2
  <2>3. term' = [row |-> r, col |-> k, cells |-> cells, cursor |-> cur2]
    BY <1>1, <2>1, <2>2
  <2>4. "load" \in PCs /\ "load" # "advance"
        /\ [row |-> 0, col |-> 0] \in [row : Nat, col : 0 .. Width - 1]
    BY <1>4 DEF PCs
  <2> QED
    BY <1>6, <2>1, <2>3, <2>4
<1> QED
  BY <1>8, <1>9, <1>10, <1>11, <1>12, <1>13, <1>14, <1>15 DEF ThreadStep

\* Every step keeps the invariant; one that leaves the terminal undisturbed entered
\* terminal_putchar with nobody inside, or did not enter it.
LEMMA InvStep ==
  ASSUME ConsoleInv, [Next]_vars PROVE ConsoleInv'
<1>1. CASE UNCHANGED vars
  BY <1>1 DEF vars, ConsoleInv, LooseOK, Calm, TypeOK, RestInv, KeysInv, Alone, Holds, AtRest
<1>2. CASE Next
  <2>1. UNCHANGED users
    BY <1>2 DEF Next
  <2>2. ASSUME NEW k \in Letters \cup Editing, KeyPress(k) PROVE ConsoleInv'
    <3>1. LooseOK'
      BY <2>1, <2>2, KeyLoose DEF ConsoleInv
    <3>2. ~disturbed' => ~disturbed /\ AtRest
      BY <2>2 DEF KeyPress, Enter, AtRest
    <3> QED
      BY <2>1, <2>2, <3>1, <3>2, KeyStep DEF ConsoleInv
  <2>3. ASSUME NEW down \in BOOLEAN, ShiftKey(down) PROVE ConsoleInv'
    <3>1. LooseOK' /\ disturbed' = disturbed
      BY <2>1, <2>3 DEF ConsoleInv, LooseOK, ShiftKey, AtRest
    <3> QED
      BY <2>1, <2>3, <3>1, ShiftStep DEF ConsoleInv
  <2>4. ASSUME "threads" \in users, NEW t \in Threads, ThreadStep(t) PROVE ConsoleInv'
    <3>1. LooseOK'
      BY <2>1, <2>4, ThreadLoose DEF ConsoleInv
    <3>2. ~disturbed' => ~disturbed /\ (pc[t] = "load" => AtRest)
      BY <2>4 DEF ThreadStep, ThreadLoad, ThreadPut, ThreadAdvance, ThreadColumn, ThreadRow,
         ThreadScroll, ThreadReset, ThreadCursor, Step, Enter, AtRest
    <3> QED
      BY <2>1, <2>4, <3>1, <3>2, ThreadKeeps DEF ConsoleInv
  <2> QED
    BY <1>2, <2>2, <2>3, <2>4 DEF Next
<1> QED
  BY <1>1, <1>2

\* For the keyboard and any number of threads in every interleaving: columns stay on
\* the screen and the line in its buffer; and until terminal_putchar is first entered
\* while a thread is inside it, that thread holds what the terminal has, and between
\* two characters the terminal is usable.
THEOREM ConsoleInvariant == Spec => []ConsoleInv
<1>1. Init => ConsoleInv
  <2> SUFFICES ASSUME Init PROVE ConsoleInv
    OBVIOUS
  <2>1. Calm
    BY InvInit
  <2>2. AtRest /\ disturbed = FALSE
    BY DEF Init, AtRest
  <2>3. term \in WildTerminals
    BY <2>1, <2>2, TerminalsAreWild DEF Calm, RestInv
  <2>4. reg \in [Threads -> [row : Nat, col : 0 .. Width - 1]]
    BY ScreenFacts DEF Init, Unused
  <2>5. LooseOK
    BY <2>1, <2>2, <2>3, <2>4 DEF LooseOK, Calm, TypeOK, AtRest
  <2> QED
    BY <2>1, <2>5 DEF ConsoleInv
<1>2. ConsoleInv /\ [Next]_vars => ConsoleInv'
  BY InvStep
<1> QED
  BY <1>1, <1>2, PTL DEF Spec

\* For every screen, line and set of keys, the line never outgrows its buffer, and
\* while no thread prints what is typed is what is shown, across wraps, scrolling,
\* editing and every command of shell.c.
THEOREM EchoMatchesLineHolds == Spec => []EchoMatchesLine
<1>1. ConsoleInv => EchoMatchesLine
  <2> SUFFICES ASSUME ConsoleInv PROVE EchoMatchesLine
    OBVIOUS
  <2>1. Len(cmd) + 1 <= MaxCmd /\ cmd \in Seq(Glyphs)
    BY DEF ConsoleInv, LooseOK
  <2>2. ASSUME users = {"keys"}
        PROVE  LET shown == Prompt \o cmd
                   start == Position(term) - Len(shown)
               IN  start >= 0 /\ \A i \in 1 .. Len(shown) : term.cells[start + i - 1] = shown[i]
    <3>1. term \in Terminals /\ Shown(term, Prompt \o cmd)
      BY <2>2 DEF ConsoleInv, LooseOK, Calm, KeysInv, RestInv
    <3>2. PICK n \in Nat, p \in Nat : n = Len(Prompt \o cmd) /\ p = Position(term)
      <4>1. Prompt \o cmd \in Seq(Glyphs)
        BY <2>1, LineFacts
      <4>2. Len(Prompt \o cmd) \in Nat
        BY <4>1
      <4>3. term.row \in 0 .. Height - 1 /\ term.col \in 0 .. Width - 1
        BY <3>1 DEF Terminals
      <4>4. Position(term) \in Nat
        BY <4>3, PositionInCells
      <4> QED
        BY <4>2, <4>4
    <3>3. n <= p /\ p - n >= 0
          /\ \A i \in 1 .. n : term.cells[p - n + i - 1] = (Prompt \o cmd)[i]
      BY <3>1, <3>2 DEF Shown
    <3> QED
      BY <3>2, <3>3
  <2> QED
    BY <2>1, <2>2 DEF EchoMatchesLine
<1> QED
  BY ConsoleInvariant, <1>1, PTL

\* For every screen, keyboard and threads: the hardware cursor is shown where the next
\* character goes, until terminal_putchar is entered while a thread is inside it.
THEOREM CursorShownHolds == Spec => []CursorShown
<1>1. ConsoleInv => CursorShown
  BY DEF ConsoleInv, Calm, RestInv, CursorShown
<1> QED
  BY ConsoleInvariant, <1>1, PTL

\* For every screen, keyboard and threads: the column never leaves the screen, and the
\* row and what is written do not until then.
THEOREM OnScreenUndisturbedHolds == Spec => []OnScreenUndisturbed
<1>1. ConsoleInv => OnScreenUndisturbed
  <2> SUFFICES ASSUME ConsoleInv PROVE OnScreenUndisturbed
    OBVIOUS
  <2>1. term.col < Width
    BY ScreenFacts DEF ConsoleInv, LooseOK, WildTerminals
  <2>2. ASSUME ~disturbed, AtRest PROVE term.row < Height
    <3>1. term \in Terminals
      BY <2>2 DEF ConsoleInv, Calm, RestInv
    <3> QED
      BY <3>1, ScreenFacts DEF Terminals
  <2>3. ASSUME ~disturbed, NEW t \in Threads, pc[t] = "put" PROVE Position(reg[t]) \in Cells
    <3>1. reg[t] \in [row : 0 .. Height, col : 0 .. Width - 1] /\ reg[t].row < Height
      BY <2>3 DEF ConsoleInv, Calm, TypeOK, Holds
    <3>2. reg[t].row \in 0 .. Height - 1 /\ reg[t].col \in 0 .. Width - 1
      BY <3>1, ScreenFacts
    <3> QED
      BY <3>2, PositionInCells
  <2> QED
    BY <2>1, <2>2, <2>3 DEF OnScreenUndisturbed
<1> QED
  BY ConsoleInvariant, <1>1, PTL
=============================================================================
