---------------------------- MODULE ConsoleProofs ----------------------------
(* Proofs about the console, for every size of screen and block, about     *)
(* in_char, for every set of keys, and about the shell, for every set of   *)
(* lines and every width of an address.                                    *)
EXTENDS MCConsole, MCShell, SequenceTheorems, FiniteSetTheorems, WellFoundedInduction, TLAPS

-----------------------------------------------------------------------------
(* The screen                                                              *)

Screen == [cell : [Cell -> Glyph \cup {Blank, Zero}], cursor : Cell]

(* The last row ends where the screen ends.                                *)
LEMMA Rows ==
  /\ Size \in Nat \ {0} /\ LastRow \in Nat /\ LastRow + tty_width = Size
  /\ tty_width \in Nat \ {0} /\ LastRow \in Cell
  /\ UIntRange \in Nat /\ Size < UIntRange
<1>1. /\ tty_width \in Nat \ {0} /\ tty_height \in Nat \ {0}
      /\ UIntRange \in Nat /\ Size < UIntRange
  BY ScreenAssumption
<1>2. Size \in Nat /\ LastRow \in Nat
  BY <1>1 DEF Size, LastRow
<1>3. LastRow + tty_width = Size
  BY <1>1 DEF Size, LastRow
<1> QED
  BY <1>1, <1>2, <1>3 DEF Cell

(* A screen that scrolls keeps its type.                                   *)
LEMMA ScrolledType ==
  ASSUME NEW c \in [Cell -> Glyph \cup {Blank, Zero}]
  PROVE  Scrolled(c) \in [Cell -> Glyph \cup {Blank, Zero}]
<1>1. ASSUME NEW p \in Cell, p < LastRow PROVE p + tty_width \in Cell
  BY <1>1, Rows DEF Cell
<1> QED
  BY <1>1 DEF Scrolled

(* The cursor never leaves the screen.                                     *)
LEMMA MoveCursorType ==
  ASSUME NEW t \in Screen, NEW pos \in Nat
  PROVE  move_cursor(t, pos) \in Screen
<1>1. CASE pos >= Size
  <2>1. Scrolled(t.cell) \in [Cell -> Glyph \cup {Blank, Zero}]
    BY ScrolledType DEF Screen
  <2> QED
    BY <1>1, <2>1, Rows DEF move_cursor, Screen
<1>2. CASE ~(pos >= Size)
  <2>1. pos \in Cell
    BY <1>2, Rows DEF Cell
  <2> QED
    BY <1>2, <2>1 DEF move_cursor, Screen
<1> QED
  BY <1>1, <1>2

(* Stepping back from cell 0 leads beyond the last cell.                   *)
LEMMA StepBackPosition ==
  ASSUME NEW n \in Cell
  PROVE  /\ (n - 1) % UIntRange \in Nat
         /\ n > 0 => (n - 1) % UIntRange = n - 1
<1>1. n \in Nat /\ n < UIntRange /\ UIntRange \in Nat \ {0}
  BY Rows DEF Cell
<1>2. CASE n > 0
  BY <1>1, <1>2
<1>3. CASE n = 0
  BY <1>1, <1>3
<1> QED
  BY <1>1, <1>2, <1>3

(* Stepping back, also across cell 0, leaves a screen (tty.c:217-220).     *)
LEMMA StepBackType ==
  ASSUME NEW t \in Screen
  PROVE  StepBack(t) \in Screen
<1>1. t.cursor \in Cell
  BY DEF Screen
<1> QED
  BY <1>1, StepBackPosition, MoveCursorType DEF StepBack

(* A store into the cell at the cursor.                                    *)
LEMMA StoreCell ==
  ASSUME NEW t \in Screen, NEW c \in Glyph \cup {Blank, Zero}
  PROVE  LET s == [t EXCEPT !.cell[t.cursor] = c] IN
         /\ s \in Screen /\ s.cursor = t.cursor
         /\ s.cell = [t.cell EXCEPT ![t.cursor] = c]
<1>1. t.cursor \in Cell /\ t.cell \in [Cell -> Glyph \cup {Blank, Zero}]
  BY DEF Screen
<1>2. [t EXCEPT !.cell[t.cursor] = c] = [t EXCEPT !.cell = [t.cell EXCEPT ![t.cursor] = c]]
  BY DEF Screen
<1>3. [t.cell EXCEPT ![t.cursor] = c] \in [Cell -> Glyph \cup {Blank, Zero}]
  BY <1>1
<1> QED
  BY <1>1, <1>2, <1>3 DEF Screen

(* out_char leaves a screen.                                               *)
LEMMA OutCharType ==
  ASSUME NEW t \in Screen, NEW c \in Glyph \cup {Blank, Zero}
  PROVE  out_char(t, c) \in Screen
<1>1. [t EXCEPT !.cell[t.cursor] = c] \in Screen
  BY StoreCell
<1>2. t.cursor + 1 \in Nat
  BY Rows DEF Screen, Cell
<1> QED
  BY <1>1, <1>2, MoveCursorType DEF out_char

(* A new line leaves a screen.                                             *)
LEMMA OutNewlineType ==
  ASSUME NEW t \in Screen
  PROVE  out_newline(t) \in Screen
<1>1. t.cursor \in Nat /\ tty_width \in Nat \ {0}
  BY Rows DEF Screen, Cell
<1>2. t.cursor \div tty_width \in Nat
  BY <1>1
<1>3. (t.cursor \div tty_width + 1) * tty_width \in Nat
  BY <1>1, <1>2
<1> QED
  BY <1>3, MoveCursorType DEF out_newline

(* clear_screen leaves a screen.                                           *)
LEMMA ClearScreenType ==
  ASSUME NEW t \in Screen
  PROVE  clear_screen(t) \in Screen
<1>1. [t EXCEPT !.cell = [p \in Cell |-> Blank]] \in Screen
  BY DEF Screen
<1> QED
  BY <1>1, MoveCursorType DEF clear_screen

(* A character appears before the cursor and what stood before the cursor  *)
(* stands before it, scrolled or not.                                      *)
LEMMA OutCharCells ==
  ASSUME NEW t \in Screen, NEW c \in Glyph \cup {Blank, Zero}
  PROVE  LET u == out_char(t, c) IN
         /\ 1 <= u.cursor => u.cell[u.cursor - 1] = c
         /\ \A i \in Nat : 1 <= i /\ i + 1 <= u.cursor =>
              /\ u.cell[u.cursor - (i + 1)] = t.cell[t.cursor - i]
              /\ i <= t.cursor
<1> DEFINE s == [t EXCEPT !.cell[t.cursor] = c]
           n == t.cursor
<1>1. /\ s \in Screen /\ n \in Cell /\ n \in Nat /\ n < Size
      /\ s.cursor = n /\ t.cell \in [Cell -> Glyph \cup {Blank, Zero}]
      /\ s.cell = [t.cell EXCEPT ![n] = c]
      /\ out_char(t, c) = move_cursor(s, n + 1)
  <2>1. n \in Cell /\ t.cell \in [Cell -> Glyph \cup {Blank, Zero}]
    BY DEF Screen
  <2>2. n \in Nat /\ n < Size
    BY <2>1, Rows DEF Cell
  <2> QED
    BY <2>1, <2>2, StoreCell DEF out_char
<1>2. s.cell[n] = c /\ \A p \in Cell : p # n => s.cell[p] = t.cell[p]
  BY <1>1
<1> HIDE DEF s, n
<1>3. CASE n + 1 >= Size
  <2>1. /\ out_char(t, c).cell = Scrolled(s.cell) /\ out_char(t, c).cursor = LastRow
        /\ n + 1 = Size
    BY <1>1, <1>3, Rows DEF move_cursor
  <2>2. ASSUME NEW p \in Nat, p < LastRow
        PROVE  Scrolled(s.cell)[p] = s.cell[p + tty_width]
    BY <2>2, Rows DEF Scrolled, Cell
  <2>3. 1 <= LastRow => Scrolled(s.cell)[LastRow - 1] = c
    <3> SUFFICES ASSUME 1 <= LastRow PROVE Scrolled(s.cell)[LastRow - 1] = c
      OBVIOUS
    <3>1. LastRow - 1 \in Nat /\ LastRow - 1 < LastRow /\ LastRow - 1 + tty_width = n
      BY <1>1, <2>1, Rows
    <3> QED
      BY <1>2, <2>2, <3>1
  <2>4. ASSUME NEW i \in Nat, 1 <= i, i + 1 <= LastRow
        PROVE  Scrolled(s.cell)[LastRow - (i + 1)] = t.cell[n - i] /\ i <= n
    <3>1. /\ LastRow - (i + 1) \in Nat /\ LastRow - (i + 1) < LastRow
          /\ LastRow - (i + 1) + tty_width = n - i /\ n - i \in Cell /\ n - i # n
          /\ i <= n
      BY <1>1, <2>1, <2>4, Rows DEF Cell
    <3> QED
      BY <1>2, <2>2, <3>1
  <2> QED
    BY <2>1, <2>3, <2>4 DEF n
<1>4. CASE ~(n + 1 >= Size)
  <2>1. out_char(t, c).cell = s.cell /\ out_char(t, c).cursor = n + 1
    BY <1>1, <1>4 DEF move_cursor, Screen
  <2>2. ASSUME NEW i \in Nat, 1 <= i, i + 1 <= n + 1
        PROVE  s.cell[n + 1 - (i + 1)] = t.cell[n - i] /\ i <= n
    <3>1. n + 1 - (i + 1) = n - i /\ n - i \in Cell /\ n - i # n /\ i <= n
      BY <1>1, <2>2, Rows DEF Cell
    <3> QED
      BY <1>2, <3>1
  <2>3. out_char(t, c).cell[out_char(t, c).cursor - 1] = c
    <3>1. out_char(t, c).cursor - 1 = n
      BY <1>1, <2>1
    <3> QED
      BY <1>2, <2>1, <3>1
  <2>4. ASSUME NEW i \in Nat, 1 <= i, i + 1 <= out_char(t, c).cursor
        PROVE  /\ out_char(t, c).cell[out_char(t, c).cursor - (i + 1)] = t.cell[n - i]
               /\ i <= n
    <3>1. i + 1 <= n + 1 /\ out_char(t, c).cursor - (i + 1) = n + 1 - (i + 1)
      BY <1>1, <2>1, <2>4
    <3> QED
      BY <2>1, <2>2, <2>4, <3>1
  <2> QED
    BY <2>3, <2>4 DEF n
<1> QED
  BY <1>3, <1>4

(* Erasing where the cursor can step back leaves the cells before it.      *)
LEMMA ErasedCells ==
  ASSUME NEW t \in Screen, t.cursor > 0
  PROVE  /\ Erased(t).cursor = t.cursor - 1
         /\ \A p \in Cell : p < t.cursor - 1 => Erased(t).cell[p] = t.cell[p]
<1>1. /\ t.cursor \in Cell /\ t.cursor \in Nat /\ t.cursor < Size /\ t.cursor - 1 \in Cell
      /\ t.cell \in [Cell -> Glyph \cup {Blank, Zero}]
  BY Rows DEF Screen, Cell
<1>2. StepBack(t) = [t EXCEPT !.cursor = t.cursor - 1]
  BY <1>1, StepBackPosition, Rows DEF StepBack, move_cursor
<1> DEFINE b == StepBack(t)
           s == [b EXCEPT !.cell[b.cursor] = Zero]
           u == out_char(b, Zero)
<1>3. b \in Screen /\ b.cursor = t.cursor - 1 /\ b.cell = t.cell
  BY <1>1, <1>2, StepBackType DEF Screen
<1> HIDE DEF b
<1>4. /\ s \in Screen /\ s.cursor = t.cursor - 1
      /\ s.cell = [t.cell EXCEPT ![t.cursor - 1] = Zero]
  BY <1>1, <1>3 DEF Screen
<1>5. u = move_cursor(s, t.cursor)
  <2>1. b.cursor + 1 = t.cursor
    BY <1>1, <1>3
  <2> QED
    BY <2>1 DEF out_char
<1> HIDE DEF s
<1>6. u = [s EXCEPT !.cursor = t.cursor]
  BY <1>1, <1>5, Rows DEF move_cursor
<1>7. u \in Screen /\ u.cursor = t.cursor /\ u.cell = s.cell
  BY <1>1, <1>4, <1>6 DEF Screen
<1> HIDE DEF u
<1>8. StepBack(u) = [u EXCEPT !.cursor = t.cursor - 1]
  BY <1>1, <1>7, StepBackPosition, Rows DEF StepBack, move_cursor
<1>9. Erased(t) = StepBack(u)
  BY DEF Erased, u, b
<1>10. Erased(t).cursor = t.cursor - 1 /\ Erased(t).cell = s.cell
  BY <1>7, <1>8, <1>9 DEF Screen
<1> QED
  BY <1>1, <1>4, <1>10 DEF Cell

-----------------------------------------------------------------------------
(* The line editor                                                         *)

(* What has been typed is made of glyphs, so that no character of it is    *)
(* the 0 that ends a string.                                               *)
Typed == reading => \A p \in 0 .. position - 1 : buffer[p] \in Glyph

ConsoleInv == TypeOK /\ OnScreen /\ Typed

(* The invariant holds when nothing has been printed or read yet.          *)
LEMMA ConsoleStart == Init => ConsoleInv
<1> SUFFICES ASSUME Init PROVE ConsoleInv
  OBVIOUS
<1>1. tty \in Screen
  BY Rows DEF Init, Screen, Cell
<1>2. TypeOK
  <2>1. buffer_size = 1 /\ position = 0
    BY DEF Init
  <2>2. reading \in BOOLEAN /\ lost \in BOOLEAN
    BY DEF Init
  <2>3. position \in 0 .. buffer_size - 1
    BY <2>1
  <2>4. buffer \in [0 .. buffer_size - 1 -> Glyph \cup {Zero, Junk}]
    <3>1. 0 .. buffer_size - 1 = {0}
      BY <2>1
    <3> QED
      BY <3>1 DEF Init
  <2> QED
    BY <1>1, <2>1, <2>2, <2>3, <2>4 DEF TypeOK, Screen
<1>3. OnScreen /\ Typed
  BY DEF Init, OnScreen, Typed
<1> QED
  BY <1>2, <1>3 DEF ConsoleInv

(* What the shell prints between two lines stays on the screen.            *)
LEMMA PrintsStep == ConsoleInv /\ Prints => ConsoleInv'
<1> SUFFICES ASSUME ConsoleInv, Prints PROVE ConsoleInv'
  OBVIOUS
<1>1. tty \in Screen
  BY DEF ConsoleInv, TypeOK, Screen
<1>2. tty' \in Screen
  BY <1>1, OutCharType, OutNewlineType, ClearScreenType DEF Prints
<1>3. ~reading' /\ UNCHANGED <<reading, buffer, buffer_size, position, lost>>
  BY DEF Prints
<1>4. TypeOK'
  BY <1>2, <1>3 DEF ConsoleInv, TypeOK, Screen
<1>5. OnScreen' /\ Typed'
  BY <1>3 DEF OnScreen, Typed
<1> QED
  BY <1>4, <1>5 DEF ConsoleInv

(* The block has room for the character and a final 0, and keeps the line. *)
LEMMA GrownBlock ==
  ASSUME ConsoleInv
  PROVE  /\ GrownSize \in Nat \ {0} /\ position + 1 \in 0 .. GrownSize - 1
         /\ Grown \in [0 .. GrownSize - 1 -> Glyph \cup {Zero, Junk}]
         /\ position \in 0 .. GrownSize - 1
         /\ \A p \in 0 .. position - 1 : Grown[p] = buffer[p]
<1>1. /\ buffer_size \in Nat \ {0} /\ position \in 0 .. buffer_size - 1
      /\ buffer \in [0 .. buffer_size - 1 -> Glyph \cup {Zero, Junk}]
  BY DEF ConsoleInv, TypeOK
<1>2. GrownSize \in Nat \ {0} /\ position + 1 \in 0 .. GrownSize - 1
  BY <1>1 DEF GrownSize, IsFull
<1>3. Grown \in [0 .. GrownSize - 1 -> Glyph \cup {Zero, Junk}]
  BY <1>1, <1>2 DEF Grown
<1>4. ASSUME NEW p \in 0 .. position - 1 PROVE Grown[p] = buffer[p]
  <2>1. p \in 0 .. GrownSize - 1 /\ p < buffer_size
    BY <1>1, <1>2
  <2> QED
    BY <2>1 DEF Grown
<1>5. position \in 0 .. GrownSize - 1
  BY <1>1, <1>2
<1> QED
  BY <1>2, <1>3, <1>4, <1>5

(* A character that is typed goes to the block and to the screen.          *)
LEMMA TypeCharStep ==
  ASSUME ConsoleInv, NEW c \in Glyph, TypeChar(c)
  PROVE  ConsoleInv'
<1>1. /\ reading /\ reading' = reading /\ lost' = lost
      /\ buffer_size' = GrownSize /\ buffer' = [Grown EXCEPT ![position] = c]
      /\ position' = position + 1 /\ tty' = out_char(tty, c)
  BY DEF TypeChar
<1>2. tty \in Screen /\ position \in Nat /\ tty' \in Screen
  BY <1>1, OutCharType DEF ConsoleInv, TypeOK, Screen
<1>3. TypeOK'
  BY <1>1, <1>2, GrownBlock DEF ConsoleInv, TypeOK, Screen
<1>4. /\ buffer'[position] = c
      /\ \A p \in 0 .. position - 1 : buffer'[p] = buffer[p]
  BY <1>1, <1>2, GrownBlock
<1>5. Typed'
  <2> SUFFICES ASSUME NEW p \in 0 .. position PROVE buffer'[p] \in Glyph
    BY <1>1, <1>2 DEF Typed
  <2>1. CASE p = position
    BY <1>4, <2>1
  <2>2. CASE p # position
    BY <1>1, <1>2, <1>4, <2>2 DEF ConsoleInv, Typed
  <2> QED
    BY <2>1, <2>2
<1>6. OnScreen'
  <2> SUFFICES ASSUME ~lost, NEW i \in 1 .. position + 1, i <= tty'.cursor
               PROVE  tty'.cell[tty'.cursor - i] = buffer'[position + 1 - i]
    BY <1>1, <1>2 DEF OnScreen
  <2>1. CASE i = 1
    <3>1. tty'.cell[tty'.cursor - 1] = c
      BY <1>1, <1>2, <2>1, OutCharCells
    <3>2. position + 1 - 1 = position
      BY <1>2
    <3> QED
      BY <1>4, <2>1, <3>1, <3>2
  <2>2. CASE i # 1
    <3>1. PICK j \in Nat : i = j + 1 /\ 1 <= j /\ j \in 1 .. position
      <4>1. i - 1 \in Nat /\ i = (i - 1) + 1 /\ 1 <= i - 1 /\ i - 1 \in 1 .. position
        BY <1>2, <2>2
      <4> QED
        BY <4>1
    <3>2. tty'.cell[tty'.cursor - (j + 1)] = tty.cell[tty.cursor - j] /\ j <= tty.cursor
      BY <1>1, <1>2, <3>1, OutCharCells
    <3>3. tty.cell[tty.cursor - j] = buffer[position - j]
      BY <1>1, <3>1, <3>2 DEF ConsoleInv, OnScreen
    <3>4. position + 1 - i = position - j /\ position - j \in 0 .. position - 1
      BY <1>2, <3>1
    <3> QED
      BY <1>4, <3>1, <3>2, <3>3, <3>4
  <2> QED
    BY <2>1, <2>2
<1> QED
  BY <1>3, <1>5, <1>6 DEF ConsoleInv

(* Erasing takes the last character from both.                             *)
LEMMA BackspaceStep == ConsoleInv /\ Backspace => ConsoleInv'
<1> SUFFICES ASSUME ConsoleInv, Backspace PROVE ConsoleInv'
  OBVIOUS
<1>1. reading /\ UNCHANGED <<reading, buffer, buffer_size>>
  BY DEF Backspace
<1>2. tty \in Screen /\ position \in Nat /\ buffer_size \in Nat
  BY DEF ConsoleInv, TypeOK, Screen
<1>3. CASE position > 0
  <2>1. position' = position - 1 /\ tty' = Erased(tty) /\ lost' = (lost \/ tty.cursor = 0)
    BY <1>3 DEF Backspace
  <2>2. tty' \in Screen
    BY <1>2, <2>1, StepBackType, OutCharType DEF Erased
  <2>3. TypeOK'
    BY <1>1, <1>2, <1>3, <2>1, <2>2 DEF ConsoleInv, TypeOK, Screen
  <2>4. Typed'
    BY <1>1, <1>2, <1>3, <2>1 DEF ConsoleInv, Typed
  <2>5. OnScreen'
    <3> SUFFICES ASSUME ~lost, tty.cursor # 0, NEW i \in 1 .. position - 1, i <= tty'.cursor
                 PROVE  tty'.cell[tty'.cursor - i] = buffer[position - 1 - i]
      BY <1>1, <1>2, <2>1 DEF OnScreen
    <3>1. tty.cursor \in Nat /\ tty.cursor > 0 /\ tty.cursor \in Cell
      BY <1>2, Rows DEF Screen, Cell
    <3>2. /\ tty'.cursor = tty.cursor - 1
          /\ \A p \in Cell : p < tty.cursor - 1 => tty'.cell[p] = tty.cell[p]
      BY <1>2, <2>1, <3>1, ErasedCells
    <3>3. PICK j \in 1 .. position : j = i + 1 /\ j <= tty.cursor
      BY <1>2, <1>3, <3>1, <3>2
    <3>4. tty.cell[tty.cursor - j] = buffer[position - j]
      BY <1>1, <3>3 DEF ConsoleInv, OnScreen
    <3>5. /\ tty'.cursor - i = tty.cursor - j /\ position - 1 - i = position - j
          /\ tty.cursor - j \in Cell /\ tty.cursor - j < tty.cursor - 1
      BY <1>2, <3>1, <3>2, <3>3, Rows DEF Cell
    <3> QED
      BY <3>2, <3>4, <3>5
  <2> QED
    BY <2>3, <2>4, <2>5 DEF ConsoleInv
<1>4. CASE ~(position > 0)
  <2>1. UNCHANGED vars
    BY <1>1, <1>4 DEF Backspace, vars
  <2> QED
    BY <2>1 DEF ConsoleInv, TypeOK, OnScreen, Typed, vars
<1> QED
  BY <1>3, <1>4

(* Every step keeps the invariant.                                         *)
LEMMA ConsoleStep == ConsoleInv /\ [Next]_vars => ConsoleInv'
<1> SUFFICES ASSUME ConsoleInv, [Next]_vars PROVE ConsoleInv'
  OBVIOUS
<1>1. CASE StartLine
  <2>1. /\ reading' = TRUE /\ buffer_size' = FirstSize /\ position' = 0 /\ lost' = FALSE
        /\ buffer' = [p \in 0 .. FirstSize - 1 |-> Junk] /\ tty' = tty
    BY <1>1 DEF StartLine
  <2>2. TypeOK'
    <3>1. FirstSize \in Nat \ {0} /\ position' \in 0 .. FirstSize - 1
      BY <2>1, FirstSizeAssumption
    <3>2. buffer' \in [0 .. FirstSize - 1 -> Glyph \cup {Zero, Junk}]
      BY <2>1
    <3> QED
      BY <2>1, <3>1, <3>2 DEF ConsoleInv, TypeOK
  <2> QED
    BY <2>1, <2>2 DEF ConsoleInv, OnScreen, Typed
<1>2. CASE Enter
  <2>1. /\ reading' = FALSE /\ tty' = out_newline(tty)
        /\ buffer' = [buffer EXCEPT ![position] = Zero]
        /\ UNCHANGED <<buffer_size, position, lost>>
    BY <1>2 DEF Enter
  <2>2. tty' \in Screen
    BY <2>1, OutNewlineType DEF ConsoleInv, TypeOK, Screen
  <2>3. TypeOK'
    BY <2>1, <2>2 DEF ConsoleInv, TypeOK, Screen
  <2> QED
    BY <2>1, <2>3 DEF ConsoleInv, OnScreen, Typed
<1>3. CASE UNCHANGED vars
  BY <1>3 DEF ConsoleInv, TypeOK, OnScreen, Typed, vars
<1> QED
  BY <1>1, <1>2, <1>3, PrintsStep, TypeCharStep, BackspaceStep DEF Next, in_string

(* The cursor stays on the screen, and every store of in_string hits its   *)
(* block, however the line grows and shrinks (tty.c:81-92 and 228-241).    *)
THEOREM ConsoleTypes == Spec => []TypeOK
BY ConsoleStart, ConsoleStep, PTL DEF Spec, ConsoleInv

(* Through scrolling, erasing and moving to a larger block, what stands    *)
(* before the cursor is the end of the line (tty.c:52-92 and 208-240).     *)
THEOREM ConsoleOnScreen == Spec => []OnScreen
BY ConsoleStart, ConsoleStep, PTL DEF Spec, ConsoleInv

-----------------------------------------------------------------------------
(* The console implements the editor of LineEditor                         *)

Line == IF reading THEN [i \in 1 .. position |-> buffer[i - 1]] ELSE <<>>
Answer == IF reading THEN <<>> ELSE CString

(* A function on the numbers up to n is a sequence of that length.         *)
LEMMA FunctionIsSeq ==
  ASSUME NEW S, NEW n \in Nat, NEW f \in [1 .. n -> S]
  PROVE  f \in Seq(S) /\ Len(f) = n
OBVIOUS

(* The line so far is a sequence of glyphs.                                *)
LineView ==
  /\ Line \in Seq(Glyph) /\ Len(Line) = position /\ position \in Nat
  /\ \A i \in 1 .. position : Line[i] = buffer[i - 1]

(* Under the invariant the block before position is a line.                *)
LEMMA LineIsSeq == ConsoleInv /\ reading => LineView
<1> SUFFICES ASSUME ConsoleInv, reading PROVE LineView
  OBVIOUS
<1>1. position \in Nat
  BY DEF ConsoleInv, TypeOK
<1>2. ASSUME NEW i \in 1 .. position PROVE buffer[i - 1] \in Glyph
  <2>1. i - 1 \in 0 .. position - 1
    BY <1>1
  <2> QED
    BY <2>1 DEF ConsoleInv, Typed
<1>3. Line = [i \in 1 .. position |-> buffer[i - 1]]
  BY DEF Line
<1>4. Line \in [1 .. position -> Glyph]
  BY <1>2, <1>3
<1> QED
  BY <1>1, <1>3, <1>4, FunctionIsSeq DEF LineView

(* A block whose first 0 is at n holds the n characters before it.         *)
LEMMA CStringIs ==
  ASSUME NEW n \in 0 .. buffer_size - 1, buffer_size \in Nat, buffer[n] = Zero,
         \A m \in 0 .. n - 1 : buffer[m] # Zero
  PROVE  CString = [i \in 1 .. n |-> buffer[i - 1]]
<1> DEFINE P(k) == buffer[k] = Zero /\ \A m \in 0 .. k - 1 : buffer[m] # Zero
<1>1. \A k \in 0 .. buffer_size - 1 : P(k) => k = n
  OBVIOUS
<1>2. P(n)
  OBVIOUS
<1>3. (CHOOSE k \in 0 .. buffer_size - 1 : P(k)) = n
  BY <1>1, <1>2
<1> QED
  BY <1>3 DEF CString

(* The same for the block that in_string returns.                          *)
Ended ==
  /\ buffer_size \in Nat /\ position \in 0 .. buffer_size - 1
  /\ buffer[position] = Zero /\ \A m \in 0 .. position - 1 : buffer[m] # Zero
EndedView == CString = [i \in 1 .. position |-> buffer[i - 1]]

(* The string a caller reads ends at the 0 in_string stored.               *)
LEMMA EndedString == Ended => EndedView
BY CStringIs DEF Ended, EndedView

(* A fresh console has read nothing.                                       *)
LEMMA ConsoleStartIsEditorStart == Init => Editor!Init
<1> SUFFICES ASSUME Init PROVE Editor!Init
  OBVIOUS
<1>1. /\ ~reading /\ reading = FALSE /\ buffer_size = 1 /\ buffer[0] = Zero
  BY DEF Init
<1>2. CString = [i \in 1 .. 0 |-> buffer[i - 1]]
  BY <1>1, CStringIs
<1>3. CString = <<>>
  BY <1>2
<1> QED
  BY <1>1, <1>3 DEF Editor!Init

(* The typed character ends the line.                                      *)
LEMMA TypeCharIsType ==
  ASSUME ConsoleInv, ConsoleInv', NEW c \in Glyph, TypeChar(c), LineView'
  PROVE  Line' = Append(Line, c)
<1>1. /\ reading /\ position' = position + 1 /\ buffer' = [Grown EXCEPT ![position] = c]
  BY DEF TypeChar
<1>2. /\ Line \in Seq(Glyph) /\ Len(Line) = position /\ position \in Nat
      /\ \A i \in 1 .. position : Line[i] = buffer[i - 1]
  BY <1>1, LineIsSeq DEF LineView
<1>3. /\ Append(Line, c) \in Seq(Glyph) /\ Len(Append(Line, c)) = position + 1
      /\ \A i \in 1 .. position : Append(Line, c)[i] = Line[i]
      /\ Append(Line, c)[position + 1] = c
  BY <1>2, AppendProperties
<1>4. /\ buffer'[position] = c
      /\ \A p \in 0 .. position - 1 : buffer'[p] = buffer[p]
  BY <1>1, <1>2, GrownBlock
<1>5. ASSUME NEW i \in 1 .. position + 1 PROVE Line'[i] = Append(Line, c)[i]
  <2>1. CASE i = position + 1
    <3>1. i - 1 = position
      BY <1>2, <2>1
    <3> QED
      BY <1>1, <1>2, <1>3, <1>4, <2>1, <3>1 DEF LineView
  <2>2. CASE i # position + 1
    <3>1. i \in 1 .. position /\ i - 1 \in 0 .. position - 1
      BY <1>2, <2>2
    <3> QED
      BY <1>1, <1>2, <1>3, <1>4, <3>1 DEF LineView
  <2> QED
    BY <2>1, <2>2
<1> QED
  BY <1>1, <1>3, <1>5, SeqEqual DEF LineView

(* Every step of the console is one of the editor, or leaves it as it is.  *)
LEMMA ConsoleStepIsEditorStep ==
  ConsoleInv /\ [Next]_vars => [Editor!Next]_(Editor!vars)
<1> SUFFICES ASSUME ConsoleInv, [Next]_vars PROVE [Editor!Next]_(Editor!vars)
  OBVIOUS
<1>1. ConsoleInv'
  BY ConsoleStep
<1>2. ConsoleInv' /\ reading' => LineView'
  BY LineIsSeq, PTL
<1>3. ASSUME UNCHANGED <<reading, buffer, buffer_size, position>>
      PROVE  UNCHANGED Editor!vars
  BY <1>3 DEF Editor!vars, CString
<1>4. CASE Prints
  BY <1>3, <1>4 DEF Prints
<1>5. CASE UNCHANGED vars
  BY <1>3, <1>5 DEF vars
<1>6. CASE StartLine
  <2>1. ~reading /\ reading' = TRUE /\ position' = 0
    BY <1>6 DEF StartLine
  <2>2. [i \in 1 .. position' |-> buffer'[i - 1]] = <<>>
    BY <2>1
  <2> QED
    BY <2>1, <2>2 DEF Editor!Next, Editor!Start
<1>7. ASSUME NEW c \in Glyph, TypeChar(c) PROVE Editor!Next
  <2>1. reading /\ reading' = reading
    BY <1>7 DEF TypeChar
  <2>2. Line' = Append(Line, c)
    BY <1>1, <1>2, <1>7, <2>1, TypeCharIsType
  <2> QED
    BY <2>1, <2>2 DEF Editor!Next, Editor!Type, Line
<1>8. CASE Backspace /\ position > 0
  <2>1. reading /\ reading' = reading /\ position' = position - 1 /\ buffer' = buffer
    BY <1>8 DEF Backspace
  <2>2. /\ Line \in Seq(Glyph) /\ Len(Line) = position /\ position \in Nat
        /\ \A i \in 1 .. position : Line[i] = buffer[i - 1]
    BY <2>1, LineIsSeq DEF LineView
  <2>3. /\ SubSeq(Line, 1, position - 1) \in Seq(Glyph)
        /\ Len(SubSeq(Line, 1, position - 1)) = position - 1
        /\ \A i \in 1 .. position - 1 : SubSeq(Line, 1, position - 1)[i] = Line[i]
    BY <1>8, <2>2
  <2>4. /\ Line' \in Seq(Glyph) /\ Len(Line') = position - 1
        /\ \A i \in 1 .. position - 1 : Line'[i] = Line[i]
    BY <1>1, <1>2, <2>1, <2>2 DEF LineView
  <2>5. Line' = SubSeq(Line, 1, Len(Line) - 1)
    BY <2>2, <2>3, <2>4, SeqEqual
  <2>6. Line # <<>>
    BY <1>8, <2>2, EmptySeq
  <2> QED
    BY <2>1, <2>5, <2>6 DEF Editor!Next, Editor!Erase, Line
<1>9. CASE Backspace /\ ~(position > 0)
  BY <1>3, <1>9 DEF Backspace
<1>10. CASE Enter
  <2>1. /\ reading /\ reading' = FALSE /\ buffer' = [buffer EXCEPT ![position] = Zero]
        /\ buffer_size' = buffer_size /\ position' = position
    BY <1>10 DEF Enter
  <2>2. /\ buffer_size \in Nat /\ position \in 0 .. buffer_size - 1
        /\ buffer \in [0 .. buffer_size - 1 -> Glyph \cup {Zero, Junk}]
    BY DEF ConsoleInv, TypeOK
  <2>3. /\ buffer'[position] = Zero
        /\ \A m \in 0 .. position - 1 : buffer'[m] = buffer[m] /\ buffer[m] # Zero
    BY <2>1, <2>2, CharAssumption DEF ConsoleInv, Typed
  <2>4. CString' = [i \in 1 .. position |-> buffer'[i - 1]]
    <3>1. Ended'
      BY <2>1, <2>2, <2>3 DEF Ended
    <3>2. Ended' => EndedView'
      BY EndedString, PTL
    <3>3. CString' = [i \in 1 .. position' |-> buffer'[i - 1]]
      BY <3>1, <3>2 DEF EndedView
    <3> QED
      BY <2>1, <3>3
  <2>5. ASSUME NEW i \in 1 .. position PROVE buffer'[i - 1] = buffer[i - 1]
    BY <2>2, <2>3
  <2>6. CString' = Line
    BY <2>1, <2>4, <2>5 DEF Line
  <2> QED
    BY <2>1, <2>6 DEF Editor!Next, Editor!Submit, Line
<1> QED
  BY <1>4, <1>5, <1>6, <1>7, <1>8, <1>9, <1>10 DEF Next, in_string

(* in_string returns what was typed less what was erased, whatever the     *)
(* block held and however often it grew (tty.c:202-243).                   *)
THEOREM ConsoleIsLineEditor == Spec => IsLineEditor
BY ConsoleStart, ConsoleStep, ConsoleStartIsEditorStart, ConsoleStepIsEditorStep, PTL
   DEF Spec, IsLineEditor, Editor!Spec

-----------------------------------------------------------------------------
(* in_char                                                                 *)

Shifts == {LeftShift, RightShift}
Stroke == [key : Letter, shifted : BOOLEAN]

(* The shift keys that are down after a code, when held were before it.    *)
AfterCode(held, code) ==
  IF code.key \notin Shifts THEN held
  ELSE IF code.up THEN held \ {code.key} ELSE held \cup {code.key}

IsStroke(code) == code.key \in Letter /\ ~code.up

(* The codes that wait explain what is still to come: held[i] are the      *)
(* shift keys that were down when the first i of them had been sent, and   *)
(* place[j] is the code of the j-th letter that is expected.               *)
Explains(held, place) ==
  /\ held[Len(queue)] = down \cap Shifts
  /\ \A i \in 1 .. Len(queue) : held[i] = AfterCode(held[i - 1], queue[i])
  /\ shift => held[0] # {}
  /\ \A j, k \in 1 .. Len(expected) : j < k => place[j] < place[k]
  /\ \A i \in 1 .. Len(queue) :
       IsStroke(queue[i]) => \E j \in 1 .. Len(expected) : place[j] = i
  /\ \A j \in 1 .. Len(expected) :
       /\ IsStroke(queue[place[j]]) /\ queue[place[j]].key = expected[j].key
       /\ held[place[j] - 1] # {} => expected[j].shifted

Explained ==
  \E held \in [0 .. Len(queue) -> SUBSET Shifts],
     place \in [1 .. Len(expected) -> 1 .. Len(queue)] : Explains(held, place)

LettersInv ==
  /\ queue \in Seq(Typing!Code) /\ expected \in Seq(Stroke)
  /\ shift \in BOOLEAN
  /\ overrun \/ Explained
  /\ LettersAsTyped

(* What a code does to the shift keys keeps their set.                     *)
LEMMA AfterCodeType ==
  ASSUME NEW S \in SUBSET Shifts, NEW code
  PROVE  AfterCode(S, code) \in SUBSET Shifts
BY DEF AfterCode

(* A new code, and the letter it stands for if any, at the end.            *)
LEMMA CodeAppended ==
  ASSUME queue \in Seq(Typing!Code), expected \in Seq(Stroke), Explained,
         NEW code \in Typing!Code, queue' = Append(queue, code), shift' = shift,
         down' \cap Shifts = AfterCode(down \cap Shifts, code),
         NEW e, expected' = IF IsStroke(code) THEN Append(expected, e) ELSE expected,
         IsStroke(code) => e \in Stroke /\ e.key = code.key,
         down \cap Shifts # {} => e.shifted
  PROVE  Explained'
<1> DEFINE n == Len(queue)
           m == Len(expected)
           m2 == Len(expected')
<1>1. PICK held \in [0 .. n -> SUBSET Shifts], place \in [1 .. m -> 1 .. n] :
             Explains(held, place)
  BY DEF Explained
<1>2. /\ n \in Nat /\ m \in Nat /\ Len(queue') = n + 1
      /\ queue'[n + 1] = code /\ \A i \in 1 .. n : queue'[i] = queue[i]
  BY AppendProperties
<1>3. /\ m2 \in Nat /\ m <= m2 /\ m2 <= m + 1
      /\ m2 = m + 1 <=> IsStroke(code)
      /\ \A j \in 1 .. m : expected'[j] = expected[j]
      /\ m2 = m + 1 => /\ expected'[m + 1].key = code.key
                       /\ down \cap Shifts # {} => expected'[m + 1].shifted
  <2>1. CASE ~IsStroke(code)
    BY <1>2, <2>1
  <2>2. CASE IsStroke(code)
    <3>1. expected' = Append(expected, e) /\ e \in Stroke /\ e.key = code.key
      BY <2>2
    <3>2. /\ Len(expected') = m + 1 /\ expected'[m + 1] = e
          /\ \A j \in 1 .. m : expected'[j] = expected[j]
      BY <3>1, AppendProperties
    <3> QED
      BY <1>2, <2>2, <3>1, <3>2
  <2> QED
    BY <2>1, <2>2
<1> HIDE DEF n, m, m2
<1>4. PICK held2 \in [0 .. n + 1 -> SUBSET Shifts] :
        (\A i \in 0 .. n : held2[i] = held[i]) /\ held2[n + 1] = AfterCode(held[n], code)
  <2> DEFINE h == [i \in 0 .. n + 1 |-> IF i <= n THEN held[i] ELSE AfterCode(held[n], code)]
  <2>1. AfterCode(held[n], code) \in SUBSET Shifts
    BY <1>2, AfterCodeType
  <2>2. h \in [0 .. n + 1 -> SUBSET Shifts]
    BY <1>2, <2>1
  <2>3. (\A i \in 0 .. n : h[i] = held[i]) /\ h[n + 1] = AfterCode(held[n], code)
    BY <1>2
  <2> HIDE DEF h
  <2> QED
    BY <2>2, <2>3
<1>5. PICK place2 \in [1 .. m2 -> 1 .. n + 1] :
        (\A j \in 1 .. m : place2[j] = place[j]) /\ (m2 = m + 1 => place2[m + 1] = n + 1)
  <2> DEFINE q == [j \in 1 .. m2 |-> IF j <= m THEN place[j] ELSE n + 1]
  <2>1. q \in [1 .. m2 -> 1 .. n + 1]
    BY <1>2, <1>3
  <2>2. (\A j \in 1 .. m : q[j] = place[j]) /\ (m2 = m + 1 => q[m + 1] = n + 1)
    BY <1>2, <1>3
  <2> HIDE DEF q
  <2> QED
    BY <2>1, <2>2
<1>6. /\ held[n] = down \cap Shifts
      /\ \A i \in 1 .. n : held[i] = AfterCode(held[i - 1], queue[i])
      /\ shift => held[0] # {}
      /\ \A j, k \in 1 .. m : j < k => place[j] < place[k]
      /\ \A i \in 1 .. n : IsStroke(queue[i]) => \E j \in 1 .. m : place[j] = i
      /\ \A j \in 1 .. m :
           /\ IsStroke(queue[place[j]]) /\ queue[place[j]].key = expected[j].key
           /\ held[place[j] - 1] # {} => expected[j].shifted
  BY <1>1 DEF Explains, n, m
<1>7. held2[n + 1] = down' \cap Shifts
  BY <1>4, <1>6
<1>8. ASSUME NEW i \in 1 .. n + 1 PROVE held2[i] = AfterCode(held2[i - 1], queue'[i])
  <2>1. CASE i = n + 1
    <3>1. i - 1 = n /\ n \in 0 .. n
      BY <1>2, <2>1
    <3> QED
      BY <1>2, <1>4, <2>1, <3>1
  <2>2. CASE i # n + 1
    <3>1. i \in 1 .. n /\ i \in 0 .. n /\ i - 1 \in 0 .. n
      BY <1>2, <2>2
    <3> QED
      BY <1>2, <1>4, <1>6, <3>1
  <2> QED
    BY <2>1, <2>2
<1>9. shift' => held2[0] # {}
  BY <1>2, <1>4, <1>6
<1>10. ASSUME NEW j \in 1 .. m2, NEW k \in 1 .. m2, j < k PROVE place2[j] < place2[k]
  <2>1. CASE k = m + 1
    BY <1>2, <1>3, <1>5, <1>10, <2>1
  <2>2. CASE k # m + 1
    <3>1. j \in 1 .. m /\ k \in 1 .. m
      BY <1>2, <1>3, <1>10, <2>2
    <3> QED
      BY <1>5, <1>6, <1>10, <3>1
  <2> QED
    BY <2>1, <2>2
<1>11. ASSUME NEW i \in 1 .. n + 1, IsStroke(queue'[i])
       PROVE  \E j \in 1 .. m2 : place2[j] = i
  <2>1. CASE i = n + 1
    <3>1. m2 = m + 1 /\ m + 1 \in 1 .. m2
      BY <1>2, <1>3, <1>11, <2>1
    <3> QED
      BY <1>5, <2>1, <3>1
  <2>2. CASE i # n + 1
    <3>1. i \in 1 .. n
      BY <1>2, <2>2
    <3>2. PICK j \in 1 .. m : place[j] = i
      BY <1>2, <1>6, <1>11, <3>1
    <3>3. j \in 1 .. m2
      BY <1>2, <1>3
    <3> QED
      BY <1>5, <3>2, <3>3
  <2> QED
    BY <2>1, <2>2
<1>12. ASSUME NEW j \in 1 .. m2
       PROVE  /\ IsStroke(queue'[place2[j]]) /\ queue'[place2[j]].key = expected'[j].key
              /\ held2[place2[j] - 1] # {} => expected'[j].shifted
  <2>1. CASE j = m + 1
    <3>1. m2 = m + 1 /\ IsStroke(code) /\ place2[j] = n + 1
      BY <1>2, <1>3, <1>5, <2>1
    <3>2. place2[j] - 1 = n /\ n \in 0 .. n
      BY <1>2, <3>1
    <3>3. held2[place2[j] - 1] = down \cap Shifts
      BY <1>4, <1>6, <3>2
    <3> QED
      BY <1>2, <1>3, <2>1, <3>1, <3>3
  <2>2. CASE j # m + 1
    <3>1. j \in 1 .. m
      BY <1>2, <1>3, <2>2
    <3>2. place[j] \in 1 .. n /\ place[j] - 1 \in 0 .. n /\ place2[j] = place[j]
      BY <1>2, <1>5, <3>1
    <3>3. queue'[place2[j]] = queue[place[j]] /\ held2[place2[j] - 1] = held[place[j] - 1]
      BY <1>2, <1>4, <3>2
    <3>4. expected'[j] = expected[j]
      BY <1>3, <3>1
    <3> QED
      BY <1>6, <3>1, <3>3, <3>4
  <2> QED
    BY <2>1, <2>2
<1>13. Explains(held2, place2)'
  BY <1>2, <1>7, <1>8, <1>9, <1>10, <1>11, <1>12 DEF Explains, m2
<1> QED
  BY <1>2, <1>13 DEF Explained, m2

(* The code of the next letter comes before those of the later ones.       *)
LEMMA FirstStroke ==
  ASSUME queue \in Seq(Typing!Code), expected \in Seq(Stroke), queue # <<>>,
         NEW held \in [0 .. Len(queue) -> SUBSET Shifts],
         NEW place \in [1 .. Len(expected) -> 1 .. Len(queue)], Explains(held, place)
  PROVE  IF IsStroke(queue[1])
         THEN /\ expected # <<>> /\ Len(expected) > 0 /\ place[1] = 1
              /\ expected[1].key = queue[1].key
              /\ held[0] # {} => expected[1].shifted
         ELSE \A j \in 1 .. Len(expected) : place[j] > 1
<1>1. /\ Len(queue) \in Nat /\ Len(expected) \in Nat /\ 1 \in 1 .. Len(queue)
  BY EmptySeq
<1>2. CASE IsStroke(queue[1])
  <2>1. PICK j \in 1 .. Len(expected) : place[j] = 1
    BY <1>1, <1>2 DEF Explains
  <2>2. 1 \in 1 .. Len(expected) /\ j \in Nat /\ Len(expected) > 0
    BY <1>1
  <2>3. place[1] = 1
    <3>1. 1 < j => place[1] < place[j]
      BY <2>2 DEF Explains
    <3>2. place[1] \in 1 .. Len(queue)
      BY <2>2
    <3> QED
      BY <1>1, <2>1, <2>2, <3>1, <3>2
  <2>4. expected[1].key = queue[1].key /\ (held[1 - 1] # {} => expected[1].shifted)
    BY <2>2, <2>3 DEF Explains
  <2>5. expected # <<>>
    BY <2>2, EmptySeq
  <2> QED
    BY <1>2, <2>2, <2>3, <2>4, <2>5
<1>3. CASE ~IsStroke(queue[1])
  <2>1. ASSUME NEW j \in 1 .. Len(expected) PROVE place[j] > 1
    <3>1. place[j] \in 1 .. Len(queue) /\ IsStroke(queue[place[j]])
      BY DEF Explains
    <3>2. place[j] # 1
      BY <1>3, <3>1
    <3> QED
      BY <1>1, <3>1, <3>2
  <2> QED
    BY <1>3, <2>1
<1> QED
  BY <1>2, <1>3

(* The oldest code leaves, and with it the letter it stands for if any.    *)
LEMMA CodeTaken ==
  ASSUME queue \in Seq(Typing!Code), expected \in Seq(Stroke), Explained,
         queue # <<>>, queue' = Tail(queue), down' = down,
         shift' => IF queue[1].key \in Shifts THEN ~queue[1].up ELSE shift,
         expected' = IF IsStroke(queue[1]) THEN Tail(expected) ELSE expected
  PROVE  Explained'
<1> DEFINE n == Len(queue)
           m == Len(expected)
           m2 == Len(expected')
           d == m - m2
<1>1. PICK held \in [0 .. n -> SUBSET Shifts], place \in [1 .. m -> 1 .. n] :
             Explains(held, place)
  BY DEF Explained
<1>2. /\ n \in Nat \ {0} /\ m \in Nat /\ Len(queue') = n - 1
      /\ \A i \in 1 .. n - 1 : queue'[i] = queue[i + 1]
  <2>1. n \in Nat \ {0} /\ m \in Nat
    BY EmptySeq
  <2> QED
    BY <2>1, HeadTailProperties
<1>3. /\ m2 \in Nat /\ d \in {0, 1} /\ m = m2 + d
      /\ d = 1 <=> IsStroke(queue[1])
      /\ d = 1 => place[1] = 1
      /\ \A j \in 1 .. m : d < j => place[j] > 1
      /\ \A j \in 1 .. m2 : expected'[j] = expected[j + d]
  <2>1. CASE IsStroke(queue[1])
    <3>1. expected # <<>> /\ place[1] = 1 /\ m > 0
      BY <1>1, <2>1, FirstStroke
    <3>2. expected' = Tail(expected)
      BY <2>1
    <3>3. m2 = m - 1 /\ \A j \in 1 .. m2 : expected'[j] = expected[j + 1]
      BY <1>2, <3>1, <3>2, HeadTailProperties
    <3>4. d = 1
      BY <1>2, <3>3
    <3>5. ASSUME NEW j \in 1 .. m, 1 < j PROVE place[j] > 1
      <4>1. 1 \in 1 .. m /\ place[j] \in 1 .. n
        BY <1>2, <3>1, SMTT(30)
      <4>2. place[1] < place[j]
        BY <1>1, <3>5, <4>1 DEF Explains
      <4> QED
        BY <3>1, <4>2
    <3>6. m2 \in Nat /\ m = m2 + d
      BY <1>2, <3>1, <3>3, <3>4
    <3> HIDE DEF m, m2, d
    <3>7. \A j \in 1 .. m2 : expected'[j] = expected[j + d]
      BY <3>3, <3>4
    <3>8. \A j \in 1 .. m : d < j => place[j] > 1
      BY <3>4, <3>5
    <3> QED
      BY <2>1, <3>1, <3>4, <3>6, <3>7, <3>8
  <2>2. CASE ~IsStroke(queue[1])
    <3>1. \A j \in 1 .. m : place[j] > 1
      BY <1>1, <2>2, FirstStroke
    <3>2. expected' = expected /\ m2 = m /\ d = 0
      BY <1>2, <2>2
    <3> HIDE DEF m, m2, d
    <3> QED
      BY <1>2, <2>2, <3>1, <3>2
  <2> QED
    BY <2>1, <2>2
<1> HIDE DEF n, m, m2, d
<1>4. PICK held2 \in [0 .. n - 1 -> SUBSET Shifts] : \A i \in 0 .. n - 1 : held2[i] = held[i + 1]
  <2> DEFINE h == [i \in 0 .. n - 1 |-> held[i + 1]]
  <2>1. h \in [0 .. n - 1 -> SUBSET Shifts]
    BY <1>2
  <2>2. \A i \in 0 .. n - 1 : h[i] = held[i + 1]
    OBVIOUS
  <2> HIDE DEF h
  <2> QED
    BY <2>1, <2>2
<1>5. PICK place2 \in [1 .. m2 -> 1 .. n - 1] : \A j \in 1 .. m2 : place2[j] = place[j + d] - 1
  <2> DEFINE q == [j \in 1 .. m2 |-> place[j + d] - 1]
  <2>1. ASSUME NEW j \in 1 .. m2 PROVE place[j + d] - 1 \in 1 .. n - 1
    <3>1. j + d \in 1 .. m /\ d < j + d
      BY <1>3
    <3>2. place[j + d] \in 1 .. n /\ place[j + d] > 1
      BY <1>3, <3>1
    <3> QED
      BY <1>2, <3>2
  <2>2. q \in [1 .. m2 -> 1 .. n - 1]
    BY <2>1
  <2>3. \A j \in 1 .. m2 : q[j] = place[j + d] - 1
    OBVIOUS
  <2> HIDE DEF q
  <2> QED
    BY <2>2, <2>3
<1>6. /\ held[n] = down \cap Shifts
      /\ \A i \in 1 .. n : held[i] = AfterCode(held[i - 1], queue[i])
      /\ shift => held[0] # {}
      /\ \A j, k \in 1 .. m : j < k => place[j] < place[k]
      /\ \A i \in 1 .. n : IsStroke(queue[i]) => \E j \in 1 .. m : place[j] = i
      /\ \A j \in 1 .. m :
           /\ IsStroke(queue[place[j]]) /\ queue[place[j]].key = expected[j].key
           /\ held[place[j] - 1] # {} => expected[j].shifted
  BY <1>1 DEF Explains, n, m
<1>7. held2[n - 1] = down' \cap Shifts
  <2>1. n - 1 \in 0 .. n - 1 /\ (n - 1) + 1 = n
    BY <1>2
  <2> QED
    BY <1>4, <1>6, <2>1
<1>8. ASSUME NEW i \in 1 .. n - 1 PROVE held2[i] = AfterCode(held2[i - 1], queue'[i])
  <2>1. /\ i \in 0 .. n - 1 /\ i - 1 \in 0 .. n - 1 /\ (i - 1) + 1 = i
        /\ i + 1 \in 1 .. n /\ (i + 1) - 1 = i
    BY <1>2
  <2>2. held[i + 1] = AfterCode(held[i], queue[i + 1])
    BY <1>6, <2>1
  <2> QED
    BY <1>2, <1>4, <2>1, <2>2
<1>9. shift' => held2[0] # {}
  <2> SUFFICES ASSUME shift' PROVE held2[0] # {}
    OBVIOUS
  <2>1. held2[0] = AfterCode(held[0], queue[1])
    <3>1. 0 \in 0 .. n - 1 /\ 1 \in 1 .. n /\ 0 + 1 = 1 /\ 1 - 1 = 0
      BY <1>2
    <3>2. held2[0] = held[1]
      BY <1>4, <3>1
    <3>3. held[1] = AfterCode(held[0], queue[1])
      BY <1>6, <3>1
    <3> QED
      BY <3>2, <3>3
  <2>2. CASE queue[1].key \in Shifts
    BY <2>1, <2>2 DEF AfterCode
  <2>3. CASE queue[1].key \notin Shifts
    BY <1>6, <2>1, <2>3 DEF AfterCode
  <2> QED
    BY <2>2, <2>3
<1>10. ASSUME NEW j \in 1 .. m2, NEW k \in 1 .. m2, j < k PROVE place2[j] < place2[k]
  <2>1. j + d \in 1 .. m /\ k + d \in 1 .. m /\ j + d < k + d
    BY <1>3, <1>10
  <2>2. place[j + d] \in 1 .. n /\ place[k + d] \in 1 .. n
    BY <2>1
  <2>3. place[j + d] < place[k + d]
    BY <1>6, <2>1
  <2> QED
    BY <1>2, <1>5, <2>2, <2>3
<1>11. ASSUME NEW i \in 1 .. n - 1, IsStroke(queue'[i])
       PROVE  \E j \in 1 .. m2 : place2[j] = i
  <2>1. i + 1 \in 1 .. n /\ IsStroke(queue[i + 1])
    BY <1>2, <1>11
  <2>2. PICK k \in 1 .. m : place[k] = i + 1
    BY <1>6, <2>1
  <2>3. k > d
    BY <1>3, <2>2
  <2>4. k - d \in 1 .. m2 /\ (k - d) + d = k
    BY <1>3, <2>3
  <2>5. place2[k - d] = i
    <3>1. place2[k - d] = place[(k - d) + d] - 1
      BY <1>5, <2>4
    <3>2. place2[k - d] = (i + 1) - 1
      BY <2>2, <2>4, <3>1
    <3> QED
      BY <1>2, <3>2
  <2> QED
    BY <2>4, <2>5
<1>12. ASSUME NEW j \in 1 .. m2
       PROVE  /\ IsStroke(queue'[place2[j]]) /\ queue'[place2[j]].key = expected'[j].key
              /\ held2[place2[j] - 1] # {} => expected'[j].shifted
  <2>1. j + d \in 1 .. m /\ d < j + d
    BY <1>3
  <2>2. place[j + d] \in 1 .. n /\ place[j + d] > 1
    BY <1>3, <2>1
  <2>3. /\ place2[j] = place[j + d] - 1 /\ place2[j] \in 1 .. n - 1
        /\ place2[j] + 1 = place[j + d] /\ place2[j] - 1 \in 0 .. n - 1
        /\ (place2[j] - 1) + 1 = place[j + d] - 1
    BY <1>2, <1>5, <2>2, SMTT(30)
  <2>4. queue'[place2[j]] = queue[place[j + d]]
    BY <1>2, <2>3
  <2>5. held2[place2[j] - 1] = held[place[j + d] - 1]
    BY <1>4, <2>3
  <2>6. expected'[j] = expected[j + d]
    BY <1>3
  <2> QED
    <3>1. /\ IsStroke(queue[place[j + d]]) /\ queue[place[j + d]].key = expected[j + d].key
          /\ held[place[j + d] - 1] # {} => expected[j + d].shifted
      BY <1>6, <2>1
    <3> QED
      BY <2>4, <2>5, <2>6, <3>1, Zenon
<1>13. Explains(held2, place2)'
  BY <1>2, <1>7, <1>8, <1>9, <1>10, <1>11, <1>12 DEF Explains, m2
<1> QED
  BY <1>2, <1>13 DEF Explained, m2

(* The explanation stays while the codes and what is expected do, and when *)
(* shift is forgotten.                                                     *)
LEMMA ExplainedKept ==
  ASSUME Explained, UNCHANGED <<queue, down, expected>>, shift' => shift
  PROVE  Explained'
<1>1. PICK held \in [0 .. Len(queue) -> SUBSET Shifts],
           place \in [1 .. Len(expected) -> 1 .. Len(queue)] : Explains(held, place)
  BY DEF Explained
<1>2. Explains(held, place)'
  BY <1>1 DEF Explains
<1> QED
  BY <1>2 DEF Explained

(* Nothing is expected of an empty buffer.                                 *)
LEMMA LettersStart == Typing!Init => LettersInv
<1> SUFFICES ASSUME Typing!Init PROVE LettersInv
  OBVIOUS
<1>1. /\ queue = <<>> /\ expected = <<>> /\ down = {} /\ shift = FALSE /\ ~shift
      /\ chr = NoCode
  BY DEF Typing!Init, Typing!Buffer!Init
<1>2. Len(queue) = 0 /\ Len(expected) = 0
  BY <1>1
<1>3. PICK held \in [0 .. 0 -> SUBSET Shifts], place \in [1 .. 0 -> 1 .. 0] : held[0] = {}
  <2>1. [i \in 0 .. 0 |-> {}] \in [0 .. 0 -> SUBSET Shifts]
    OBVIOUS
  <2>2. [i \in 1 .. 0 |-> 0] \in [1 .. 0 -> 1 .. 0]
    OBVIOUS
  <2>3. [i \in 0 .. 0 |-> {}][0] = {}
    OBVIOUS
  <2> QED
    BY <2>1, <2>2, <2>3
<1>4. Explains(held, place)
  BY <1>1, <1>2, <1>3 DEF Explains
<1>5. Explained
  BY <1>2, <1>4 DEF Explained
<1> QED
  <2>1. shift \in BOOLEAN
    BY <1>1
  <2>2. queue \in Seq(Typing!Code) /\ expected \in Seq(Stroke)
    BY <1>1
  <2> QED
    BY <1>1, <1>5, <2>1, <2>2 DEF LettersInv, LettersAsTyped, Typing!LettersAsTyped

(* A code that the typist sends.                                           *)
LEMMA SendsCode ==
  ASSUME queue \in Seq(Typing!Code), NEW code \in Typing!Code, Typing!Sends(code)
  PROVE  /\ queue' \in Seq(Typing!Code)
         /\ overrun' \/ (overrun' = overrun /\ queue' = Append(queue, code))
<1>1. CASE Typing!Buffer!Press(code) /\ UNCHANGED overrun
  BY <1>1, AppendProperties DEF Typing!Buffer!Press
<1>2. CASE Typing!Buffer!Overrun(code) /\ overrun' = TRUE
  <2>1. queue' \in {<<>>, <<code>>}
    BY <1>2 DEF Typing!Buffer!Overrun
  <2>2. <<>> \in Seq(Typing!Code) /\ <<code>> \in Seq(Typing!Code)
    OBVIOUS
  <2> QED
    BY <1>2, <2>1, <2>2
<1> QED
  BY <1>1, <1>2 DEF Typing!Sends

(* A key that goes down.                                                   *)
LEMMA PressKeepsLetters ==
  ASSUME LettersInv, ~overrun, NEW k \in Typing!Key, Typing!Press(k)
  PROVE  LettersInv'
<1> DEFINE code == [key |-> k, up |-> FALSE]
           e == [key |-> k, shifted |-> down \cap Typing!Shift # {}]
<1>1. /\ queue \in Seq(Typing!Code) /\ expected \in Seq(Stroke) /\ Explained
  BY DEF LettersInv
<1>2. /\ Typing!Sends(code) /\ down' = down \cup {k} /\ shift' = shift
      /\ expected' = IF k \in Letter THEN Append(expected, e) ELSE expected
      /\ chr' = chr /\ meant' = meant
  BY DEF Typing!Press, Typing!in
<1>3. code \in Typing!Code /\ code.key = k /\ ~code.up
  BY DEF Typing!Code
<1>4. IsStroke(code) <=> k \in Letter
  BY <1>3 DEF IsStroke
<1>5. k \in Letter => e \in Stroke /\ e.key = k
  BY DEF Stroke
<1>6. down \cap Shifts # {} => e.shifted
  BY DEF Shifts, Typing!Shift
<1>7. down' \cap Shifts = AfterCode(down \cap Shifts, code)
  BY <1>2, <1>3 DEF AfterCode
<1> HIDE DEF code, e
<1>8. /\ queue' \in Seq(Typing!Code)
      /\ overrun' \/ (overrun' = overrun /\ queue' = Append(queue, code))
  BY <1>1, <1>2, <1>3, SendsCode
<1>9. expected' \in Seq(Stroke)
  BY <1>1, <1>2, <1>5, AppendProperties
<1>10. overrun' \/ Explained'
  <2> SUFFICES ASSUME queue' = Append(queue, code) PROVE Explained'
    BY <1>8
  <2>1. expected' = IF IsStroke(code) THEN Append(expected, e) ELSE expected
    BY <1>2, <1>4
  <2>2. IsStroke(code) => e \in Stroke /\ e.key = code.key
    BY <1>3, <1>4, <1>5
  <2> QED
    BY <1>1, <1>2, <1>3, <1>6, <1>7, <2>1, <2>2, CodeAppended
<1>11. LettersAsTyped'
  BY <1>2, <1>8 DEF LettersInv, LettersAsTyped, Typing!LettersAsTyped
<1> QED
  BY <1>2, <1>8, <1>9, <1>10, <1>11 DEF LettersInv

(* A key that goes up.                                                     *)
LEMMA ReleaseKeepsLetters ==
  ASSUME LettersInv, ~overrun, NEW k \in Typing!Key, Typing!Release(k)
  PROVE  LettersInv'
<1> DEFINE code == [key |-> k, up |-> TRUE]
<1>1. /\ queue \in Seq(Typing!Code) /\ expected \in Seq(Stroke) /\ Explained
  BY DEF LettersInv
<1>2. /\ Typing!Sends(code) /\ down' = down \ {k} /\ shift' = shift
      /\ expected' = expected /\ chr' = chr /\ meant' = meant
  BY DEF Typing!Release, Typing!in
<1>3. code \in Typing!Code /\ code.key = k /\ code.up
  BY DEF Typing!Code
<1>4. ~IsStroke(code)
  BY <1>3 DEF IsStroke
<1>5. down' \cap Shifts = AfterCode(down \cap Shifts, code)
  BY <1>2, <1>3 DEF AfterCode
<1> HIDE DEF code
<1>6. /\ queue' \in Seq(Typing!Code)
      /\ overrun' \/ (overrun' = overrun /\ queue' = Append(queue, code))
  BY <1>1, <1>2, <1>3, SendsCode
<1>7. overrun' \/ Explained'
  <2> SUFFICES ASSUME queue' = Append(queue, code) PROVE Explained'
    BY <1>6
  <2>1. PICK e : e = [key |-> k, shifted |-> TRUE]
    OBVIOUS
  <2>2. down \cap Shifts # {} => e.shifted
    BY <2>1
  <2>3. expected' = IF IsStroke(code) THEN Append(expected, e) ELSE expected
    BY <1>2, <1>4
  <2> QED
    BY <1>1, <1>2, <1>3, <1>4, <1>5, <2>2, <2>3, CodeAppended
<1>8. LettersAsTyped'
  BY <1>2, <1>6 DEF LettersInv, LettersAsTyped, Typing!LettersAsTyped
<1> QED
  BY <1>1, <1>2, <1>6, <1>7, <1>8 DEF LettersInv

(* in_char takes a code.                                                   *)
LEMMA IterateKeepsLetters == LettersInv /\ Typing!Iterate => LettersInv'
<1> SUFFICES ASSUME LettersInv, Typing!Iterate PROVE LettersInv'
  OBVIOUS
<1>1. /\ queue \in Seq(Typing!Code) /\ expected \in Seq(Stroke)
      /\ overrun \/ Explained
  BY DEF LettersInv
<1>2. /\ shift' = Typing!ShiftAfter(out') /\ chr' = Typing!Translated(out', shift')
      /\ IF chr' = NoCode \/ expected = <<>>
         THEN meant' = NoCode /\ expected' = expected
         ELSE meant' = Head(expected) /\ expected' = Tail(expected)
      /\ down' = down /\ overrun' = overrun
      /\ shift' \in BOOLEAN
  <2>1. Typing!ShiftAfter(out') \in BOOLEAN
    BY DEF Typing!ShiftAfter, LettersInv
  <2> QED
    BY <2>1 DEF Typing!Iterate
<1>3. expected' \in Seq(Stroke)
  <2>1. expected # <<>> => Tail(expected) \in Seq(Stroke)
    BY <1>1, HeadTailProperties
  <2> QED
    BY <1>1, <1>2, <2>1
<1>4. CASE Typing!Buffer!FindNone
  <2>1. queue' = queue /\ out' = NoCode
    BY <1>4 DEF Typing!Buffer!FindNone
  <2>2. chr' = NoCode /\ shift' = shift
    BY <1>2, <2>1 DEF Typing!Translated, Typing!ShiftAfter
  <2>3. expected' = expected
    BY <1>2, <2>2
  <2>4. overrun' \/ Explained'
    BY <1>1, <1>2, <2>1, <2>2, <2>3, ExplainedKept
  <2>5. LettersAsTyped'
    BY <2>2 DEF LettersAsTyped, Typing!LettersAsTyped
  <2> QED
    BY <1>1, <1>2, <2>1, <2>3, <2>4, <2>5 DEF LettersInv
<1>5. CASE Typing!Buffer!Take
  <2>1. queue # <<>> /\ out' = queue[1] /\ queue' = Tail(queue)
    BY <1>1, <1>5 DEF Typing!Buffer!Take
  <2>2. queue[1] \in Typing!Code /\ queue[1] # NoCode /\ queue' \in Seq(Typing!Code)
    <3>1. queue' \in Seq(Typing!Code)
      BY <1>1, <2>1, HeadTailProperties
    <3>2. 1 \in 1 .. Len(queue)
      BY <1>1, <2>1, EmptySeq
    <3>3. queue[1] \in Typing!Code
      BY <1>1, <3>2
    <3> QED
      BY <3>1, <3>3, KeyAssumption
  <2>3. shift' = IF queue[1].key \in Shifts THEN ~queue[1].up ELSE shift
    BY <1>2, <2>1, <2>2 DEF Typing!ShiftAfter, Shifts, Typing!Shift
  <2>4. IF IsStroke(queue[1])
        THEN chr' = [key |-> queue[1].key, shifted |-> shift'] ELSE chr' = NoCode
    BY <1>2, <2>1, <2>2 DEF Typing!Translated, IsStroke
  <2>5. shift' => IF queue[1].key \in Shifts THEN ~queue[1].up ELSE shift
    BY <2>3
  <2>6. CASE overrun
    BY <1>2, <1>3, <2>2, <2>6 DEF LettersInv, LettersAsTyped, Typing!LettersAsTyped
  <2>7. CASE Explained /\ IsStroke(queue[1])
    <3>1. PICK held \in [0 .. Len(queue) -> SUBSET Shifts],
               place \in [1 .. Len(expected) -> 1 .. Len(queue)] : Explains(held, place)
      BY <2>7 DEF Explained
    <3>2. /\ expected # <<>> /\ Len(expected) > 0
          /\ expected[1].key = queue[1].key
          /\ held[0] # {} => expected[1].shifted
      BY <1>1, <2>1, <2>7, <3>1, FirstStroke
    <3>3. queue[1].key \notin Shifts /\ shift' = shift
      BY <2>3, <2>7, KeyAssumption DEF IsStroke, Shifts
    <3>4. chr'.key = queue[1].key /\ (chr'.shifted => shift) /\ chr' # NoCode
      <4>1. chr' = [key |-> queue[1].key, shifted |-> shift']
        BY <2>4, <2>7
      <4>2. chr'.key = queue[1].key /\ chr'.shifted = shift'
        BY <4>1
      <4>3. chr' \in [key : Letter, shifted : BOOLEAN]
        BY <1>2, <2>7, <4>1 DEF IsStroke
      <4>4. chr' # NoCode
        BY <4>3, KeyAssumption
      <4> QED
        BY <3>3, <4>2, <4>4
    <3>5. meant' = Head(expected) /\ expected' = Tail(expected)
      BY <1>2, <3>2, <3>4
    <3>6. meant' = expected[1] /\ expected[1] \in Stroke
      <4>1. 1 \in 1 .. Len(expected)
        BY <1>1, <3>2
      <4>2. expected[1] \in Stroke
        BY <1>1, <4>1
      <4>3. Head(expected) = expected[1]
        BY <1>1, <3>2
      <4> QED
        BY <3>5, <4>2, <4>3
    <3>7. Explained'
      BY <1>1, <1>2, <2>1, <2>7, <2>5, <3>5, CodeTaken
    <3>8. shift => held[0] # {}
      BY <3>1 DEF Explains
    <3>9. meant' # NoCode
      BY <3>6, KeyAssumption DEF Stroke
    <3>10. LettersAsTyped'
      BY <3>2, <3>4, <3>6, <3>8, <3>9 DEF LettersAsTyped, Typing!LettersAsTyped
    <3> QED
      BY <1>2, <1>3, <2>2, <3>7, <3>10 DEF LettersInv
  <2>8. CASE Explained /\ ~IsStroke(queue[1])
    <3>1. chr' = NoCode /\ expected' = expected
      BY <1>2, <2>4, <2>8
    <3>2. Explained'
      BY <1>1, <1>2, <2>1, <2>8, <2>5, <3>1, CodeTaken
    <3> QED
      BY <1>2, <1>3, <2>2, <3>1, <3>2 DEF LettersInv, LettersAsTyped, Typing!LettersAsTyped
  <2> QED
    BY <1>1, <2>6, <2>7, <2>8
<1> QED
  BY <1>4, <1>5 DEF Typing!Iterate

(* Every step keeps the invariant.                                         *)
LEMMA LettersStep == LettersInv /\ [Typing!Next]_(Typing!vars) => LettersInv'
<1> SUFFICES ASSUME LettersInv, [Typing!Next]_(Typing!vars) PROVE LettersInv'
  OBVIOUS
<1>1. ASSUME NEW w \in BOOLEAN, Typing!Call(w) PROVE LettersInv'
  <2>1. UNCHANGED <<queue, down, expected, overrun, chr, meant>> /\ shift' = FALSE
    BY <1>1 DEF Typing!Call
  <2>2. overrun' \/ Explained'
    BY <2>1, ExplainedKept DEF LettersInv
  <2> QED
    BY <2>1, <2>2 DEF LettersInv, LettersAsTyped, Typing!LettersAsTyped
<1>2. CASE UNCHANGED Typing!vars
  <2>1. UNCHANGED <<queue, down, expected, overrun, chr, meant, shift>>
    BY <1>2 DEF Typing!vars, Typing!in
  <2>2. overrun' \/ Explained'
    BY <2>1, ExplainedKept DEF LettersInv
  <2> QED
    BY <2>1, <2>2 DEF LettersInv, LettersAsTyped, Typing!LettersAsTyped
<1> QED
  BY <1>1, <1>2, PressKeepsLetters, ReleaseKeepsLetters, IterateKeepsLetters DEF Typing!Next

(* Until the buffer overruns, in_char returns the letters in the order of  *)
(* the presses, each once, and shifts only those that were pressed with a  *)
(* shift key down (tty.c:176-199).                                         *)
THEOREM InCharLettersAsTyped == Typing!Spec => []LettersAsTyped
BY LettersStart, LettersStep, PTL DEF Typing!Spec, LettersInv

-----------------------------------------------------------------------------
(* The shell                                                               *)

Text == Seq(DOMAIN Code)

(* A set of numbers that is not empty has a least one, and Min is it.      *)
LEMMA FirstNumber ==
  ASSUME NEW T \in SUBSET Nat, T # {}
  PROVE  \E x \in T : \A y \in T : x <= y
<1>1. PICK x \in T : \A y \in T : <<y, x>> \notin OpToRel(<, Nat)
  BY NatLessThanWellFounded, WFMin
<1>2. \A y \in T : y \in Nat /\ x \in Nat /\ ~(y < x)
  BY <1>1 DEF OpToRel
<1> QED
  BY <1>2

(* Min of such a set is its least member.                                  *)
LEMMA MinIs ==
  ASSUME NEW T \in SUBSET Nat, T # {}
  PROVE  Sh!Min(T) \in T /\ \A y \in T : Sh!Min(T) <= y
BY FirstNumber DEF Sh!Min

(* Counting is the same inside Shell.                                      *)
LEMMA SameCardinality == ASSUME NEW T PROVE Sh!Cardinality(T) = Cardinality(T)
BY DEF Sh!Cardinality, Cardinality

(* SkipBlanks stops at the first character that is not blank.              *)
LEMMA SkipBlanksIs ==
  ASSUME NEW s \in Text, NEW k \in 1 .. Len(s) + 1
  PROVE  /\ Sh!SkipBlanks(s, k) \in k .. Len(s) + 1
         /\ Sh!SkipBlanks(s, k) <= Len(s) => s[Sh!SkipBlanks(s, k)] # Sh!Space
         /\ \A j \in k .. Sh!SkipBlanks(s, k) - 1 : s[j] = Sh!Space
<1> DEFINE Hits == {j \in k .. Len(s) + 1 : ~Sh!IsBlank(s, j)}
<1>1. Len(s) \in Nat
  BY DEF Text
<1>2. Len(s) + 1 \in Hits /\ Hits \in SUBSET Nat
  BY <1>1 DEF Sh!IsBlank
<1>3. Sh!Min(Hits) \in Hits /\ \A j \in Hits : Sh!Min(Hits) <= j
  <2> HIDE DEF Hits
  <2> QED
    BY <1>2, MinIs
<1>4. Sh!SkipBlanks(s, k) = Sh!Min(Hits)
  BY DEF Sh!SkipBlanks
<1> HIDE DEF Hits
<1>5. PICK b \in Hits : b = Sh!SkipBlanks(s, k) /\ \A j \in Hits : b <= j
  BY <1>3, <1>4
<1>6. b \in k .. Len(s) + 1 /\ ~Sh!IsBlank(s, b)
  BY DEF Hits
<1>7. ASSUME NEW j \in k .. b - 1 PROVE s[j] = Sh!Space
  <2>1. j \in k .. Len(s) + 1 /\ ~(b <= j)
    BY <1>1, <1>6
  <2>2. j \notin Hits
    BY <1>5, <2>1
  <2> QED
    BY <2>1, <2>2 DEF Hits, Sh!IsBlank
<1> QED
  BY <1>5, <1>6, <1>7 DEF Sh!IsBlank

(* SkipWord stops at a blank or at the end.                                *)
LEMMA SkipWordIs ==
  ASSUME NEW s \in Text, NEW k \in 1 .. Len(s) + 1
  PROVE  /\ Sh!SkipWord(s, k) \in k .. Len(s) + 1
         /\ Sh!SkipWord(s, k) <= Len(s) => s[Sh!SkipWord(s, k)] = Sh!Space
         /\ \A j \in k .. Sh!SkipWord(s, k) - 1 : s[j] # Sh!Space
<1> DEFINE Hits == {j \in k .. Len(s) + 1 : Sh!IsBlank(s, j) \/ Sh!AtEnd(s, j)}
<1>1. Len(s) \in Nat
  BY DEF Text
<1>2. Len(s) + 1 \in Hits /\ Hits \in SUBSET Nat
  BY <1>1 DEF Sh!IsBlank, Sh!AtEnd
<1>3. Sh!Min(Hits) \in Hits /\ \A j \in Hits : Sh!Min(Hits) <= j
  <2> HIDE DEF Hits
  <2> QED
    BY <1>2, MinIs
<1>4. Sh!SkipWord(s, k) = Sh!Min(Hits)
  BY DEF Sh!SkipWord
<1> HIDE DEF Hits
<1>5. PICK e \in Hits : e = Sh!SkipWord(s, k) /\ \A j \in Hits : e <= j
  BY <1>3, <1>4
<1>6. e \in k .. Len(s) + 1 /\ (e <= Len(s) => s[e] = Sh!Space)
  BY <1>1 DEF Hits, Sh!IsBlank, Sh!AtEnd
<1>7. ASSUME NEW j \in k .. e - 1 PROVE s[j] # Sh!Space
  <2>1. j \in k .. Len(s) + 1 /\ ~(e <= j) /\ j <= Len(s)
    BY <1>1, <1>6
  <2>2. j \notin Hits
    BY <1>5, <2>1
  <2> QED
    BY <2>1, <2>2 DEF Hits, Sh!IsBlank
<1> QED
  BY <1>5, <1>6, <1>7

(* One step of WordsFrom: a word, and the words behind it.                 *)
Split(s, g, k) ==
  LET b == Sh!SkipBlanks(s, k) IN
  IF Sh!AtEnd(s, b) THEN <<>>
  ELSE <<SubSeq(s, b, Sh!SkipWord(s, b) - 1)>> \o g[Sh!SkipWord(s, b)]

(* A step looks further on only.                                           *)
LEMMA SplitLooksOn ==
  ASSUME NEW s \in Text, NEW k \in 1 .. Len(s) + 1, NEW g, NEW h,
         \A j \in k + 1 .. Len(s) + 1 : g[j] = h[j]
  PROVE  Split(s, g, k) = Split(s, h, k)
<1>1. PICK b \in k .. Len(s) + 1 : b = Sh!SkipBlanks(s, k) /\ (b <= Len(s) => s[b] # Sh!Space)
  BY SkipBlanksIs
<1>2. Len(s) \in Nat
  BY DEF Text
<1>3. CASE Sh!AtEnd(s, b)
  BY <1>1, <1>3 DEF Split
<1>4. CASE ~Sh!AtEnd(s, b)
  <2>1. b \in 1 .. Len(s) + 1 /\ b <= Len(s)
    BY <1>2, <1>4 DEF Sh!AtEnd
  <2>2. PICK e \in b .. Len(s) + 1 : e = Sh!SkipWord(s, b) /\ (e <= Len(s) => s[e] = Sh!Space)
    BY <2>1, SkipWordIs
  <2>3. e # b
    BY <1>1, <2>1, <2>2
  <2>4. e \in k + 1 .. Len(s) + 1
    BY <1>1, <1>2, <2>1, <2>2, <2>3
  <2> QED
    BY <1>1, <2>2, <2>4 DEF Split
<1> QED
  BY <1>3, <1>4

(* There is a function that splits a text at every position.               *)
LEMMA SplitExists ==
  ASSUME NEW s \in Text
  PROVE  \E g : g = [k \in 1 .. Len(s) + 1 |-> Split(s, g, k)]
<1>1. Len(s) \in Nat
  BY DEF Text
<1> DEFINE n == Len(s) + 1
           Splits(g, i) == \A k \in i .. n : g[k] = Split(s, g, k)
           Bad == {m \in 0 .. n : ~\E g : Splits(g, n - m + 1)}
<1>2. \A i \in 1 .. n + 1 : \A k \in i .. n : k \in 1 .. Len(s) + 1
  BY <1>1
<1>3. ASSUME Bad # {} PROVE FALSE
  <2>1. PICK m \in Bad : \A j \in Bad : m <= j
    <3>1. Bad \in SUBSET Nat
      BY <1>1
    <3> HIDE DEF Bad
    <3> QED
      BY <1>3, <3>1, FirstNumber
  <2>2. m \in 0 .. n /\ ~\E g : Splits(g, n - m + 1)
    OBVIOUS
  <2>3. m # 0
    <3>1. n - 0 + 1 .. n = {}
      BY <1>1
    <3>2. Splits(<<>>, n - 0 + 1)
      BY <3>1
    <3> HIDE DEF Splits
    <3> QED
      BY <2>2, <3>2
  <2>4. m - 1 \in 0 .. n /\ ~(m <= m - 1) /\ n - (m - 1) + 1 = (n - m + 1) + 1
    BY <1>1, <2>2, <2>3
  <2>5. PICK g : Splits(g, (n - m + 1) + 1)
    <3>1. m - 1 \notin Bad
      <4> HIDE DEF Bad
      <4> QED
        BY <2>1, <2>4
    <3>2. \E g : Splits(g, n - (m - 1) + 1)
      <4> HIDE DEF Splits
      <4> QED
        BY <2>4, <3>1
    <3> HIDE DEF Splits
    <3> QED
      BY <2>4, <3>2
  <2>6. PICK i : i = n - m + 1
    OBVIOUS
  <2>7. i \in 1 .. n /\ i \in Nat
    BY <1>1, <2>2, <2>3, <2>6
  <2> DEFINE h == [k \in 1 .. n |-> IF k = i THEN Split(s, g, i) ELSE g[k]]
  <2>8. ASSUME NEW k \in i .. n PROVE h[k] = Split(s, h, k)
    <3>1. k \in 1 .. n /\ k \in 1 .. Len(s) + 1
      BY <1>1, <2>7
    <3>2. \A j \in k + 1 .. Len(s) + 1 : g[j] = h[j]
      <4>1. \A j \in k + 1 .. Len(s) + 1 : j \in 1 .. n /\ j # i
        BY <1>1, <2>7
      <4> QED
        BY <4>1
    <3>3. Split(s, g, k) = Split(s, h, k)
      <4> HIDE DEF h
      <4> QED
        BY <3>1, <3>2, SplitLooksOn
    <3>4. CASE k = i
      <4>1. h[k] = Split(s, g, k)
        BY <3>1, <3>4
      <4> QED
        BY <3>3, <4>1
    <3>5. CASE k # i
      <4>1. k \in i + 1 .. n
        BY <1>1, <2>7, <3>5
      <4>2. h[k] = g[k]
        BY <3>1, <3>5
      <4>3. g[k] = Split(s, g, k)
        BY <2>5, <2>6, <4>1
      <4> QED
        BY <3>3, <4>2, <4>3
    <3> QED
      BY <3>4, <3>5
  <2>9. Splits(h, n - m + 1)
    <3> HIDE DEF h
    <3> QED
      BY <2>6, <2>8
  <2> HIDE DEF Splits, h
  <2> QED
    BY <2>2, <2>9
<1>4. n \in 0 .. n /\ n - n + 1 = 1
  BY <1>1
<1>5. n \notin Bad
  BY <1>3
<1>6. PICK g : Splits(g, 1)
  <2> HIDE DEF Splits
  <2> QED
    BY <1>4, <1>5
<1> DEFINE h == [k \in 1 .. n |-> g[k]]
<1>7. ASSUME NEW k \in 1 .. n PROVE h[k] = Split(s, h, k)
  <2>1. \A j \in k + 1 .. Len(s) + 1 : g[j] = h[j]
    BY <1>1
  <2>2. Split(s, g, k) = Split(s, h, k)
    <3> HIDE DEF h
    <3> QED
      BY <1>1, <2>1, SplitLooksOn
  <2>3. g[k] = Split(s, g, k)
    BY <1>6
  <2> QED
    BY <2>2, <2>3
<1>8. h = [k \in 1 .. n |-> h[k]]
  OBVIOUS
<1>9. h = [k \in 1 .. n |-> Split(s, h, k)]
  <2> HIDE DEF h
  <2> QED
    BY <1>7, <1>8
<1> HIDE DEF h
<1> QED
  BY <1>9

(* So WordsFrom takes one step at a time.                                  *)
LEMMA WordsFromIs ==
  ASSUME NEW s \in Text
  PROVE  \E g : /\ \A k \in 1 .. Len(s) + 1 : g[k] = Split(s, g, k)
                /\ \A k : Sh!WordsFrom(s, k) = g[k]
<1> DEFINE W == CHOOSE g : g = [k \in 1 .. Len(s) + 1 |-> Split(s, g, k)]
<1>1. \A k : Sh!WordsFrom(s, k) = W[k]
  BY Zenon DEF Sh!WordsFrom, Split
<1>2. W = [k \in 1 .. Len(s) + 1 |-> Split(s, W, k)]
  BY SplitExists, Zenon
<1> HIDE DEF W
<1>3. \A k \in 1 .. Len(s) + 1 : W[k] = Split(s, W, k)
  BY <1>2
<1> QED
  BY <1>1, <1>3

-----------------------------------------------------------------------------
(* Where the words from position k on begin.                               *)
Starts(s, k) == {i \in k .. Len(s) : s[i] # Sh!Space /\ (i = k \/ s[i - 1] = Sh!Space)}

(* ws are the words that begin at f[1], f[2] and so on.                    *)
Lists(s, k, ws, f) ==
  /\ ws \in Seq(Text)
  /\ f \in [1 .. Len(ws) -> Starts(s, k)]
  /\ \A i, j \in 1 .. Len(ws) : i < j => f[i] < f[j]
  /\ \A x \in Starts(s, k) : \E j \in 1 .. Len(ws) : f[j] = x
  /\ \A j \in 1 .. Len(ws) : ws[j] = SubSeq(s, f[j], Sh!SkipWord(s, f[j]) - 1)

(* Behind the last word none begins.                                       *)
LEMMA NoStarts ==
  ASSUME NEW s \in Text, NEW k \in 1 .. Len(s) + 1, Sh!AtEnd(s, Sh!SkipBlanks(s, k))
  PROVE  Starts(s, k) = {}
<1>1. PICK b \in k .. Len(s) + 1 :
         b = Sh!SkipBlanks(s, k) /\ \A j \in k .. b - 1 : s[j] = Sh!Space
  BY SkipBlanksIs
<1>2. Len(s) \in Nat
  BY DEF Text
<1>3. b = Len(s) + 1 /\ b - 1 = Len(s)
  BY <1>1, <1>2 DEF Sh!AtEnd
<1>4. \A j \in k .. Len(s) : s[j] = Sh!Space
  BY <1>1, <1>3
<1> QED
  BY <1>4 DEF Starts

(* A word begins behind the blanks, the others behind it.                  *)
LEMMA NextStart ==
  ASSUME NEW s \in Text, NEW k \in 1 .. Len(s) + 1,
         NEW b, b = Sh!SkipBlanks(s, k), ~Sh!AtEnd(s, b), NEW e, e = Sh!SkipWord(s, b)
  PROVE  /\ b \in k .. Len(s) /\ e \in b + 1 .. Len(s) + 1
         /\ SubSeq(s, b, e - 1) \in Text
         /\ Starts(s, k) = {b} \cup Starts(s, e)
         /\ \A x \in Starts(s, e) : b < x
<1>1. Len(s) \in Nat
  BY DEF Text
<1>2. /\ b \in k .. Len(s) + 1 /\ (b <= Len(s) => s[b] # Sh!Space)
      /\ \A j \in k .. b - 1 : s[j] = Sh!Space
  BY SkipBlanksIs
<1>3. b \in k .. Len(s) /\ b \in 1 .. Len(s) + 1 /\ s[b] # Sh!Space
  BY <1>1, <1>2 DEF Sh!AtEnd
<1>4. /\ e \in b .. Len(s) + 1 /\ (e <= Len(s) => s[e] = Sh!Space)
      /\ \A j \in b .. e - 1 : s[j] # Sh!Space
  BY <1>3, SkipWordIs
<1>5. e \in b + 1 .. Len(s) + 1
  <2>1. e # b
    BY <1>1, <1>3, <1>4
  <2> QED
    BY <1>1, <1>3, <1>4, <2>1
<1>6. SubSeq(s, b, e - 1) \in Text
  <2>1. b \in 1 .. Len(s) + 1 /\ e - 1 \in b - 1 .. Len(s)
    BY <1>1, <1>3, <1>5
  <2>2. \A i \in b .. e - 1 : i \in 1 .. Len(s)
    BY <1>1, <2>1
  <2>3. b \in Int /\ e - 1 \in Int
    BY <1>1, <2>1
  <2> HIDE DEF Sh!SkipWord
  <2> QED
    BY <2>2, <2>3, SubSeqProperties DEF Text
<1>7. ASSUME NEW x \in Starts(s, e) PROVE x \in Starts(s, k) /\ b < x
  <2>1. x \in e .. Len(s) /\ s[x] # Sh!Space /\ (x = e \/ s[x - 1] = Sh!Space)
    BY DEF Starts
  <2>2. x # e
    BY <1>1, <1>4, <1>5, <2>1
  <2>3. x \in k .. Len(s) /\ b < x
    BY <1>1, <1>3, <1>5, <2>1
  <2> QED
    BY <2>1, <2>2, <2>3 DEF Starts
<1>8. b \in Starts(s, k)
  <2>1. b = k \/ b - 1 \in k .. b - 1
    BY <1>1, <1>3
  <2> QED
    BY <1>2, <1>3, <2>1 DEF Starts
<1>9. ASSUME NEW x \in Starts(s, k), x # b PROVE x \in Starts(s, e)
  <2>1. x \in k .. Len(s) /\ s[x] # Sh!Space /\ (x = k \/ s[x - 1] = Sh!Space)
    BY DEF Starts
  <2>2. ~(x < b)
    <3>1. x < b => x \in k .. b - 1
      BY <1>1, <1>3, <2>1
    <3> QED
      BY <1>2, <2>1, <3>1
  <2>3. x # k /\ x - 1 >= b
    BY <1>1, <1>3, <1>9, <2>1, <2>2
  <2>4. ~(x - 1 < e)
    <3>1. x - 1 < e => x - 1 \in b .. e - 1
      BY <1>1, <1>3, <1>5, <2>1, <2>3
    <3> QED
      BY <1>4, <2>1, <2>3, <3>1
  <2>5. x \in e .. Len(s)
    BY <1>1, <1>5, <2>1, <2>4
  <2> QED
    BY <2>1, <2>3, <2>5 DEF Starts
<1> QED
  BY <1>3, <1>5, <1>6, <1>7, <1>8, <1>9

(* A word in front of the words that are listed.                           *)
LEMMA ListsMore ==
  ASSUME NEW s \in Text, NEW k \in 1 .. Len(s) + 1,
         NEW b, b = Sh!SkipBlanks(s, k), ~Sh!AtEnd(s, b), NEW e, e = Sh!SkipWord(s, b),
         NEW ws, NEW f, Lists(s, e, ws, f)
  PROVE  \E g : Lists(s, k, <<SubSeq(s, b, e - 1)>> \o ws, g)
<1>1. /\ b \in k .. Len(s) /\ e \in b + 1 .. Len(s) + 1
      /\ SubSeq(s, b, e - 1) \in Text
      /\ Starts(s, k) = {b} \cup Starts(s, e)
      /\ \A x \in Starts(s, e) : b < x
  BY NextStart
<1>2. /\ ws \in Seq(Text) /\ f \in [1 .. Len(ws) -> Starts(s, e)]
      /\ \A i, j \in 1 .. Len(ws) : i < j => f[i] < f[j]
      /\ \A x \in Starts(s, e) : \E j \in 1 .. Len(ws) : f[j] = x
      /\ \A j \in 1 .. Len(ws) : ws[j] = SubSeq(s, f[j], Sh!SkipWord(s, f[j]) - 1)
  BY DEF Lists
<1>3. PICK w \in Text : w = SubSeq(s, b, e - 1)
  BY <1>1
<1>4. PICK all : all = <<w>> \o ws
  OBVIOUS
<1>5. PICK n \in Nat : n = Len(ws)
  BY <1>2
<1>6. /\ all \in Seq(Text) /\ Len(all) = n + 1 /\ all[1] = w
      /\ \A j \in 2 .. n + 1 : all[j] = ws[j - 1]
  <2>1. <<w>> \in Seq(Text) /\ Len(<<w>>) = 1 /\ <<w>>[1] = w
    OBVIOUS
  <2>2. /\ all \in Seq(Text) /\ Len(all) = 1 + n
        /\ \A j \in 1 .. 1 + n : all[j] = IF j <= 1 THEN <<w>>[j] ELSE ws[j - 1]
    BY <1>2, <1>4, <1>5, <2>1, ConcatProperties
  <2>3. 1 \in 1 .. 1 + n /\ 1 <= 1 /\ \A j \in 2 .. n + 1 : j \in 1 .. 1 + n /\ ~(j <= 1)
    BY <1>5
  <2>4. 1 + n = n + 1
    BY <1>5
  <2>5. all[1] = w
    BY <2>1, <2>2, <2>3
  <2>6. \A j \in 2 .. n + 1 : all[j] = ws[j - 1]
    BY <2>2, <2>3
  <2> QED
    BY <2>2, <2>4, <2>5, <2>6
<1>7. PICK g : g = [j \in 1 .. n + 1 |-> IF j = 1 THEN b ELSE f[j - 1]]
  OBVIOUS
<1>8. ASSUME NEW j \in 1 .. n + 1
      PROVE  \/ j = 1 /\ g[j] = b
             \/ /\ j - 1 \in 1 .. Len(ws) /\ j \in 2 .. n + 1 /\ g[j] = f[j - 1]
                /\ g[j] \in Starts(s, e)
  <2>1. CASE j = 1
    BY <1>7, <2>1
  <2>2. CASE j # 1
    <3>1. j - 1 \in 1 .. Len(ws) /\ j \in 2 .. n + 1
      BY <1>5, <2>2
    <3> QED
      BY <1>2, <1>7, <2>2, <3>1
  <2> QED
    BY <2>1, <2>2
<1>9. g \in [1 .. n + 1 -> Starts(s, k)]
  BY <1>1, <1>7, <1>8
<1>10. ASSUME NEW i \in 1 .. n + 1, NEW j \in 1 .. n + 1, i < j PROVE g[i] < g[j]
  <2>1. j # 1
    BY <1>10
  <2>2. CASE i = 1
    BY <1>1, <1>8, <2>1, <2>2
  <2>3. CASE i # 1
    <3>1. /\ i - 1 \in 1 .. Len(ws) /\ g[i] = f[i - 1]
          /\ j - 1 \in 1 .. Len(ws) /\ g[j] = f[j - 1]
      BY <1>8, <2>1, <2>3
    <3>2. i - 1 < j - 1
      BY <1>10
    <3> QED
      BY <1>2, <3>1, <3>2
  <2> QED
    BY <2>2, <2>3
<1>11. ASSUME NEW x \in Starts(s, k) PROVE \E j \in 1 .. n + 1 : g[j] = x
  <2>1. CASE x = b
    <3>1. 1 \in 1 .. n + 1
      BY <1>5
    <3> QED
      BY <1>7, <2>1, <3>1
  <2>2. CASE x \in Starts(s, e)
    <3>1. PICK j \in 1 .. Len(ws) : f[j] = x
      BY <1>2, <2>2
    <3>2. j + 1 \in 1 .. n + 1 /\ j + 1 # 1 /\ (j + 1) - 1 = j
      BY <1>5
    <3>3. g[j + 1] = f[j]
      BY <1>7, <3>2
    <3> QED
      BY <3>1, <3>2, <3>3
  <2> QED
    BY <1>1, <2>1, <2>2
<1>12. ASSUME NEW j \in 1 .. n + 1
       PROVE  all[j] = SubSeq(s, g[j], Sh!SkipWord(s, g[j]) - 1)
  <2>1. CASE j = 1
    BY <1>3, <1>6, <1>8, <2>1
  <2>2. CASE j # 1
    <3>1. j - 1 \in 1 .. Len(ws) /\ j \in 2 .. n + 1 /\ g[j] = f[j - 1]
      BY <1>8, <2>2
    <3> QED
      BY <1>2, <1>6, <3>1
  <2> QED
    BY <2>1, <2>2
<1>13. Lists(s, k, all, g)
  BY <1>6, <1>9, <1>10, <1>11, <1>12 DEF Lists
<1> QED
  BY <1>3, <1>4, <1>13

(* WordsFrom lists the words from a position on.                           *)
LEMMA WordsFromLists ==
  ASSUME NEW s \in Text, NEW k \in 1 .. Len(s) + 1
  PROVE  \E f : Lists(s, k, Sh!WordsFrom(s, k), f)
<1>1. PICK n \in Nat : n = Len(s) + 1
  BY DEF Text
<1>2. PICK g : /\ \A i \in 1 .. Len(s) + 1 : g[i] = Split(s, g, i)
               /\ \A i : Sh!WordsFrom(s, i) = g[i]
  BY WordsFromIs
<1> DEFINE Bad == {m \in 0 .. n - 1 : ~\E f : Lists(s, n - m, g[n - m], f)}
<1>3. ASSUME Bad # {} PROVE FALSE
  <2>1. PICK m \in Bad : \A j \in Bad : m <= j
    <3>1. Bad \in SUBSET Nat
      BY <1>1
    <3> HIDE DEF Bad
    <3> QED
      BY <1>3, <3>1, FirstNumber
  <2>2. m \in 0 .. n - 1 /\ ~\E f : Lists(s, n - m, g[n - m], f)
    OBVIOUS
  <2>3. PICK i \in 1 .. Len(s) + 1 : i = n - m
    BY <1>1, <2>2
  <2>4. ~\E f : Lists(s, i, g[i], f)
    BY <2>2, <2>3
  <2>5. PICK b : b = Sh!SkipBlanks(s, i)
    OBVIOUS
  <2>6. CASE Sh!AtEnd(s, b)
    <3>1. g[i] = <<>>
      BY <1>2, <2>5, <2>6 DEF Split
    <3>2. Starts(s, i) = {}
      BY <2>5, <2>6, NoStarts
    <3>3. Lists(s, i, <<>>, [j \in 1 .. 0 |-> j])
      BY <3>2 DEF Lists
    <3> QED
      BY <2>4, <3>1, <3>3
  <2>7. CASE ~Sh!AtEnd(s, b)
    <3>1. PICK e : e = Sh!SkipWord(s, b)
      OBVIOUS
    <3>2. b \in i .. Len(s) /\ e \in b + 1 .. Len(s) + 1
      BY <2>5, <2>7, <3>1, NextStart
    <3>3. g[i] = <<SubSeq(s, b, e - 1)>> \o g[e]
      BY <1>2, <2>5, <2>7, <3>1 DEF Split
    <3>4. PICK f : Lists(s, e, g[e], f)
      <4>1. n - e \in 0 .. n - 1 /\ n - (n - e) = e /\ ~(m <= n - e)
        BY <1>1, <2>2, <2>3, <3>2
      <4>2. n - e \notin Bad
        <5> HIDE DEF Bad
        <5> QED
          BY <2>1, <4>1
      <4> QED
        BY <4>1, <4>2
    <3>5. \E h : Lists(s, i, <<SubSeq(s, b, e - 1)>> \o g[e], h)
      BY <2>5, <2>7, <3>1, <3>4, ListsMore
    <3> QED
      BY <2>4, <3>3, <3>5
  <2> QED
    BY <2>6, <2>7
<1>4. n - k \in 0 .. n - 1 /\ n - (n - k) = k
  BY <1>1
<1>5. n - k \notin Bad
  BY <1>3
<1>6. \E f : Lists(s, k, g[k], f)
  BY <1>4, <1>5
<1> QED
  BY <1>2, <1>6

-----------------------------------------------------------------------------
(* A set that is listed without repetition has as many members as entries. *)
LEMMA CountListed ==
  ASSUME NEW n \in Nat, NEW T, NEW f \in [1 .. n -> T],
         \A i, j \in 1 .. n : f[i] = f[j] => i = j,
         \A x \in T : \E j \in 1 .. n : f[j] = x
  PROVE  IsFiniteSet(T) /\ Cardinality(T) = n
<1>1. f \in Bijection(1 .. n, T)
  BY DEF Bijection, Injection, Surjection, IsInjective
<1>2. ExistsBijection(1 .. n, T)
  BY <1>1 DEF ExistsBijection
<1>3. IsFiniteSet(1 .. n) /\ Cardinality(1 .. n) = n
  BY FS_Interval
<1> QED
  BY <1>2, <1>3, FS_Bijection

(* The words of a list are counted by where they begin, and n - 1 of them  *)
(* begin before the n-th.                                                  *)
LEMMA StartsCounted ==
  ASSUME NEW s \in Text, NEW k \in 1 .. Len(s) + 1, NEW ws, NEW f, Lists(s, k, ws, f)
  PROVE  /\ IsFiniteSet(Starts(s, k)) /\ Cardinality(Starts(s, k)) = Len(ws)
         /\ \A n \in 1 .. Len(ws) : Cardinality({x \in Starts(s, k) : x < f[n]}) = n - 1
<1>1. /\ ws \in Seq(Text) /\ f \in [1 .. Len(ws) -> Starts(s, k)]
      /\ \A i, j \in 1 .. Len(ws) : i < j => f[i] < f[j]
      /\ \A x \in Starts(s, k) : \E j \in 1 .. Len(ws) : f[j] = x
  BY DEF Lists
<1>2. PICK m \in Nat : m = Len(ws)
  BY <1>1
<1>3. \A x \in Starts(s, k) : x \in Int
  BY DEF Starts
<1>4. ASSUME NEW i \in 1 .. m, NEW j \in 1 .. m, f[i] = f[j] PROVE i = j
  <2>1. f[i] \in Int /\ f[j] \in Int
    BY <1>1, <1>2, <1>3
  <2>2. ~(i < j) /\ ~(j < i)
    BY <1>1, <1>2, <1>4, <2>1
  <2> QED
    BY <1>2, <2>2
<1>5. IsFiniteSet(Starts(s, k)) /\ Cardinality(Starts(s, k)) = m
  BY <1>1, <1>2, <1>4, CountListed
<1>6. ASSUME NEW n \in 1 .. m
      PROVE  Cardinality({x \in Starts(s, k) : x < f[n]}) = n - 1
  <2>1. PICK T : T = {x \in Starts(s, k) : x < f[n]}
    OBVIOUS
  <2>2. PICK g : g = [j \in 1 .. n - 1 |-> f[j]]
    OBVIOUS
  <2>3. \A j \in 1 .. n - 1 : j \in 1 .. m /\ j < n
    BY <1>2
  <2>4. \A j \in 1 .. n - 1 : g[j] = f[j]
    BY <2>2
  <2>5. g \in [1 .. n - 1 -> T]
    BY <1>1, <1>2, <2>1, <2>2, <2>3
  <2>6. \A i, j \in 1 .. n - 1 : g[i] = g[j] => i = j
    BY <1>4, <2>3, <2>4
  <2>7. ASSUME NEW x \in T PROVE \E j \in 1 .. n - 1 : g[j] = x
    <3>1. PICK j \in 1 .. m : f[j] = x
      BY <1>1, <1>2, <2>1
    <3>2. f[j] \in Int /\ f[n] \in Int /\ f[j] < f[n]
      BY <1>1, <1>2, <1>3, <2>1, <3>1
    <3>3. j # n /\ ~(n < j)
      BY <1>1, <1>2, <3>2
    <3>4. j \in 1 .. n - 1
      BY <1>2, <3>3
    <3> QED
      BY <2>4, <3>1, <3>4
  <2>8. n - 1 \in Nat
    BY <1>2
  <2>9. Cardinality(T) = n - 1
    BY <2>5, <2>6, <2>7, <2>8, CountListed
  <2> QED
    BY <2>1, <2>9
<1> QED
  BY <1>2, <1>5, <1>6

(* A word goes on to the last character before a blank.                    *)
LEMMA EndOfWord ==
  ASSUME NEW s \in Text, NEW i \in 1 .. Len(s), s[i] # Sh!Space
  PROVE  Sh!Max({k \in i .. Len(s) : \A m \in i .. k : s[m] # Sh!Space}) = Sh!SkipWord(s, i) - 1
<1>1. Len(s) \in Nat /\ i \in 1 .. Len(s) + 1
  BY DEF Text
<1>2. PICK e \in i .. Len(s) + 1 :
         /\ e = Sh!SkipWord(s, i) /\ (e <= Len(s) => s[e] = Sh!Space)
         /\ \A j \in i .. e - 1 : s[j] # Sh!Space
  BY <1>1, SkipWordIs
<1>3. PICK T : T = {k \in i .. Len(s) : \A m \in i .. k : s[m] # Sh!Space}
  OBVIOUS
<1>4. e # i
  BY <1>1, <1>2
<1>5. e - 1 \in i .. Len(s)
  BY <1>1, <1>2, <1>4
<1>6. e - 1 \in T
  BY <1>2, <1>3, <1>5
<1>7. ASSUME NEW k \in T PROVE k \in Int /\ k <= e - 1
  <2>1. k \in i .. Len(s) /\ \A m \in i .. k : s[m] # Sh!Space
    BY <1>3
  <2>2. ~(k >= e)
    <3>1. k >= e => e \in i .. k /\ e <= Len(s)
      BY <1>1, <1>2, <2>1
    <3> QED
      BY <1>2, <2>1, <3>1
  <2> QED
    BY <1>1, <1>2, <2>1, <2>2
<1>8. Sh!Max(T) \in T /\ \A y \in T : Sh!Max(T) >= y
  <2>1. \E x \in T : \A y \in T : x >= y
    BY <1>2, <1>6, <1>7
  <2> QED
    BY <2>1 DEF Sh!Max
<1>9. Sh!Max(T) = e - 1
  BY <1>2, <1>6, <1>7, <1>8
<1> QED
  BY <1>2, <1>3, <1>9

(* The words a user sees are the ones that WordsFrom finds.                *)
LEMMA WordsAre ==
  ASSUME NEW s \in Text
  PROVE  Sh!Words(s) = Sh!WordsFrom(s, 1)
<1> DEFINE starts == {i \in DOMAIN s : s[i] # Sh!Space /\ (i = 1 \/ s[i - 1] = Sh!Space)}
           nth(n) == CHOOSE i \in starts :
                       Sh!Cardinality({k \in starts : k < i}) = n - 1
           end(i) == Sh!Max({k \in i .. Len(s) : \A m \in i .. k : s[m] # Sh!Space})
<1>1. Len(s) \in Nat /\ 1 \in 1 .. Len(s) + 1 /\ DOMAIN s = 1 .. Len(s)
  BY DEF Text
<1>2. PICK ws : ws = Sh!WordsFrom(s, 1)
  OBVIOUS
<1>3. PICK f : Lists(s, 1, ws, f)
  BY <1>1, <1>2, WordsFromLists
<1>4. starts = Starts(s, 1)
  BY <1>1 DEF Starts
<1>5. /\ Cardinality(starts) = Len(ws)
      /\ \A n \in 1 .. Len(ws) : Cardinality({x \in starts : x < f[n]}) = n - 1
  <2> HIDE DEF starts
  <2> QED
    BY <1>1, <1>3, <1>4, StartsCounted
<1>6. /\ ws \in Seq(Text) /\ f \in [1 .. Len(ws) -> starts]
      /\ \A x \in starts : \E j \in 1 .. Len(ws) : f[j] = x
      /\ \A j \in 1 .. Len(ws) : ws[j] = SubSeq(s, f[j], Sh!SkipWord(s, f[j]) - 1)
  <2> HIDE DEF starts
  <2> QED
    BY <1>3, <1>4 DEF Lists
<1>7. \A x \in starts : x \in 1 .. Len(s) /\ s[x] # Sh!Space
  BY <1>1
<1>8. Sh!Words(s) = [n \in 1 .. Sh!Cardinality(starts) |-> SubSeq(s, nth(n), end(nth(n)))]
  BY Zenon DEF Sh!Words
<1> HIDE DEF starts
<1>9. ASSUME NEW n \in 1 .. Len(ws) PROVE nth(n) = f[n]
  <2>1. Sh!Cardinality({x \in starts : x < f[n]}) = n - 1 /\ f[n] \in starts
    BY <1>5, <1>6, SameCardinality
  <2>2. nth(n) \in starts /\ Sh!Cardinality({k \in starts : k < nth(n)}) = n - 1
    BY <2>1
  <2> HIDE DEF nth
  <2>3. PICK j \in 1 .. Len(ws) : f[j] = nth(n)
    BY <1>6, <2>2
  <2>4. Cardinality({k \in starts : k < f[j]}) = n - 1
    BY <2>2, <2>3, SameCardinality
  <2>5. j - 1 = n - 1
    BY <1>5, <2>4
  <2>6. j = n
    BY <1>6, <2>5
  <2> QED
    BY <2>3, <2>6
<1>10. ASSUME NEW n \in 1 .. Len(ws) PROVE ws[n] = SubSeq(s, nth(n), end(nth(n)))
  <2>1. f[n] \in 1 .. Len(s) /\ s[f[n]] # Sh!Space
    BY <1>6, <1>7
  <2>2. end(f[n]) = Sh!SkipWord(s, f[n]) - 1
    BY <2>1, EndOfWord
  <2>3. nth(n) = f[n]
    BY <1>9
  <2> HIDE DEF end, nth
  <2> QED
    BY <1>6, <2>2, <2>3
<1>11. Sh!Cardinality(starts) = Len(ws)
  BY <1>5, SameCardinality
<1> HIDE DEF nth, end
<1>12. Sh!Words(s) = [n \in 1 .. Len(ws) |-> ws[n]]
  BY <1>8, <1>10, <1>11
<1>13. [n \in 1 .. Len(ws) |-> ws[n]] = ws
  BY <1>6
<1> QED
  BY <1>2, <1>12, <1>13

(* From a blank or the end of the line on, there are no more words than    *)
(* from further up.                                                        *)
LEMMA FewerBehind ==
  ASSUME NEW s \in Text, NEW j \in 1 .. Len(s) + 1, NEW k \in 1 .. Len(s) + 1, j <= k,
         k <= Len(s) => s[k] = Sh!Space
  PROVE  Len(Sh!WordsFrom(s, k)) <= Len(Sh!WordsFrom(s, j))
<1>1. PICK f : Lists(s, j, Sh!WordsFrom(s, j), f)
  BY WordsFromLists
<1>2. PICK g : Lists(s, k, Sh!WordsFrom(s, k), g)
  BY WordsFromLists
<1>3. IsFiniteSet(Starts(s, j)) /\ Cardinality(Starts(s, j)) = Len(Sh!WordsFrom(s, j))
  BY <1>1, StartsCounted
<1>4. Cardinality(Starts(s, k)) = Len(Sh!WordsFrom(s, k))
  BY <1>2, StartsCounted
<1>5. ASSUME NEW x \in Starts(s, k) PROVE x \in Starts(s, j)
  <2>1. x \in k .. Len(s) /\ s[x] # Sh!Space /\ (x = k \/ s[x - 1] = Sh!Space)
    BY DEF Starts
  <2>2. x # k
    BY <2>1
  <2>3. x \in j .. Len(s)
    BY <2>1
  <2> QED
    BY <2>1, <2>2, <2>3 DEF Starts
<1>6. Starts(s, k) \in SUBSET Starts(s, j)
  BY <1>5
<1>7. Cardinality(Starts(s, k)) <= Cardinality(Starts(s, j))
  BY <1>3, <1>6, FS_Subset
<1> QED
  BY <1>3, <1>4, <1>7

-----------------------------------------------------------------------------
(* The first word is the command.                                          *)
LEMMA CommandFirst ==
  ASSUME NEW s \in Text, ~Sh!AtEnd(s, Sh!SkipBlanks(s, 1))
  PROVE  Sh!WordsFrom(s, 1) = <<Sh!CommandOf(s)>> \o Sh!WordsFrom(s, Sh!CommandEnd(s))
<1>1. PICK g : /\ \A i \in 1 .. Len(s) + 1 : g[i] = Split(s, g, i)
               /\ \A i : Sh!WordsFrom(s, i) = g[i]
  BY WordsFromIs
<1>2. 1 \in 1 .. Len(s) + 1
  BY DEF Text
<1>3. g[1] = Split(s, g, 1)
  BY <1>1, <1>2
<1>4. Split(s, g, 1) = <<Sh!CommandOf(s)>> \o g[Sh!CommandEnd(s)]
  BY DEF Split, Sh!CommandOf, Sh!CommandEnd
<1> QED
  BY <1>1, <1>3, <1>4

(* Behind the end of a line there are no words.                            *)
LEMMA NothingBehind ==
  ASSUME NEW s \in Text
  PROVE  Sh!WordsFrom(s, Len(s) + 1) = <<>>
<1>1. PICK n \in 1 .. Len(s) + 1 : n = Len(s) + 1
  BY DEF Text
<1>2. PICK g : /\ \A i \in 1 .. Len(s) + 1 : g[i] = Split(s, g, i)
               /\ \A i : Sh!WordsFrom(s, i) = g[i]
  BY WordsFromIs
<1>3. Len(s) \in Nat /\ Sh!SkipBlanks(s, n) \in n .. Len(s) + 1
  BY SkipBlanksIs DEF Text
<1>4. Sh!AtEnd(s, Sh!SkipBlanks(s, n))
  BY <1>1, <1>3 DEF Sh!AtEnd
<1>5. g[n] = <<>>
  BY <1>2, <1>4 DEF Split
<1> QED
  BY <1>1, <1>2, <1>5

(* Where the command of a line ends, and where pars_input begins to copy.  *)
LEMMA CommandIs ==
  ASSUME NEW s \in Text
  PROVE  /\ Sh!SkipBlanks(s, 1) \in 1 .. Len(s) + 1
         /\ Sh!CommandEnd(s) \in Sh!SkipBlanks(s, 1) .. Len(s) + 1
         /\ Sh!CommandEnd(s) <= Len(s) => s[Sh!CommandEnd(s)] = Sh!Space
         /\ Sh!CommandOf(s) \in Text
         /\ Len(Sh!CommandOf(s)) = Sh!CommandEnd(s) - Sh!SkipBlanks(s, 1)
<1>1. Len(s) \in Nat /\ 1 \in 1 .. Len(s) + 1
  BY DEF Text
<1>2. PICK b \in 1 .. Len(s) + 1 : b = Sh!SkipBlanks(s, 1)
  BY <1>1, SkipBlanksIs
<1>3. PICK e \in b .. Len(s) + 1 : e = Sh!SkipWord(s, b) /\ (e <= Len(s) => s[e] = Sh!Space)
  BY SkipWordIs
<1>4. e = Sh!CommandEnd(s) /\ Sh!CommandOf(s) = SubSeq(s, b, e - 1)
  BY <1>2, <1>3 DEF Sh!CommandEnd, Sh!CommandOf
<1>5. \A i \in b .. e - 1 : s[i] \in DOMAIN Code
  <2>1. \A i \in b .. e - 1 : i \in 1 .. Len(s)
    BY <1>1
  <2> QED
    BY <2>1 DEF Text
<1>6. b \in Int /\ e - 1 \in Int
  BY <1>1
<1>7. /\ SubSeq(s, b, e - 1) \in Text
      /\ Len(SubSeq(s, b, e - 1)) = IF b <= e - 1 THEN (e - 1) - b + 1 ELSE 0
  BY <1>5, <1>6, SubSeqProperties DEF Text
<1>8. (IF b <= e - 1 THEN (e - 1) - b + 1 ELSE 0) = e - b
  BY <1>1
<1> QED
  BY <1>2, <1>3, <1>4, <1>7, <1>8

(* As many words are copied as were counted.                               *)
LEMMA CopiedIs ==
  ASSUME NEW s \in Text
  PROVE  /\ Sh!Counted(s) \in Seq(Text)
         /\ Sh!Copied(s) = SubSeq(Sh!WordsFrom(s, Sh!CopyStart(s)), 1, Len(Sh!Counted(s)))
         /\ Sh!Copied(s) \in Seq(Text) /\ Len(Sh!Copied(s)) = Len(Sh!Counted(s))
<1>1. Len(s) \in Nat
  BY DEF Text
<1>2. PICK e \in 1 .. Len(s) + 1 : e = Sh!CommandEnd(s) /\ (e <= Len(s) => s[e] = Sh!Space)
  <2>1. PICK b \in 1 .. Len(s) + 1 : b = Sh!SkipBlanks(s, 1)
    BY CommandIs
  <2>2. Sh!CommandEnd(s) \in b .. Len(s) + 1
    BY <2>1, CommandIs
  <2>3. Sh!CommandEnd(s) \in 1 .. Len(s) + 1
    BY <1>1, <2>2
  <2> QED
    BY <2>3, CommandIs
<1>3. PICK i \in 1 .. Len(s) + 1 : i = Sh!CopyStart(s) /\ i <= e
  <2>1. PICK b \in 1 .. Len(s) + 1 : b = Sh!SkipBlanks(s, 1)
    BY CommandIs
  <2>2. e \in b .. Len(s) + 1 /\ Sh!CopyStart(s) = e - b + 1
    BY <1>2, <2>1, CommandIs DEF Sh!CopyStart
  <2>3. e - b + 1 \in 1 .. Len(s) + 1 /\ e - b + 1 <= e
    BY <1>1, <2>2
  <2> QED
    BY <2>2, <2>3
<1>4. PICK counted : counted = Sh!WordsFrom(s, e)
  OBVIOUS
<1>5. PICK words : words = Sh!WordsFrom(s, i)
  OBVIOUS
<1>6. counted \in Seq(Text) /\ words \in Seq(Text)
  BY <1>4, <1>5, WordsFromLists DEF Lists
<1>7. Len(counted) <= Len(words)
  BY <1>2, <1>3, <1>4, <1>5, FewerBehind
<1>8. PICK m \in Nat : m = Len(counted)
  BY <1>6
<1>9. Sh!Counted(s) = counted
  BY <1>2, <1>4 DEF Sh!Counted
<1>10. Sh!Min({Len(words), Len(Sh!Counted(s))}) = m
  <2>1. {Len(words), m} \in SUBSET Nat /\ Len(words) \in Nat
    BY <1>6
  <2>2. Sh!Min({Len(words), m}) \in {Len(words), m} /\ Sh!Min({Len(words), m}) <= m
    BY <2>1, MinIs
  <2>3. Sh!Min({Len(words), m}) = m
    BY <1>7, <1>8, <2>1, <2>2
  <2> QED
    BY <1>8, <1>9, <2>3
<1>11. Sh!Copied(s) = SubSeq(words, 1, m)
  BY <1>3, <1>5, <1>10 DEF Sh!Copied
<1>12. \A j \in 1 .. m : words[j] \in Text
  BY <1>6, <1>7, <1>8
<1>13. /\ SubSeq(words, 1, m) \in Seq(Text)
       /\ Len(SubSeq(words, 1, m)) = IF 1 <= m THEN m - 1 + 1 ELSE 0
  BY <1>12, SubSeqProperties
<1>14. Len(SubSeq(words, 1, m)) = m
  BY <1>13
<1> QED
  BY <1>3, <1>5, <1>6, <1>8, <1>9, <1>11, <1>13, <1>14

(* A line that begins with its command is taken apart into its words.      *)
LEMMA PlainIsSplit ==
  ASSUME NEW s \in Text, Sh!Plain(s), ~Sh!IsBare(s)
  PROVE  /\ Sh!Copied(s) = Sh!Counted(s)
         /\ <<Sh!CommandOf(s)>> \o Sh!Copied(s) = Sh!Words(s)
         /\ Len(Sh!Counted(s)) = Len(Sh!Words(s)) - 1
<1>1. Len(s) \in Nat /\ 1 \in 1 .. Len(s) + 1
  BY DEF Text
<1>2. PICK b \in 1 .. Len(s) + 1 :
         b = Sh!SkipBlanks(s, 1) /\ \A j \in 1 .. b - 1 : s[j] = Sh!Space
  BY <1>1, SkipBlanksIs
<1>3. b = 1
  <2>1. CASE b # 1
    <3>1. 1 \in 1 .. b - 1 /\ 1 <= Len(s)
      BY <1>1, <2>1
    <3> QED
      BY <1>2, <3>1 DEF Sh!Plain, Sh!IsBlank
  <2> QED
    BY <2>1
<1>4. PICK e \in b .. Len(s) + 1 :
         e = Sh!CommandEnd(s) /\ Len(Sh!CommandOf(s)) = e - b
  BY <1>2, CommandIs
<1>5. ~Sh!AtEnd(s, b)
  BY <1>1, <1>3, <1>4 DEF Sh!IsBare, Sh!AtEnd
<1>6. Sh!CopyStart(s) = e
  BY <1>1, <1>3, <1>4 DEF Sh!CopyStart
<1>7. PICK counted \in Seq(Text) : counted = Sh!Counted(s)
  BY CopiedIs
<1>8. Sh!WordsFrom(s, e) = counted
  BY <1>4, <1>7 DEF Sh!Counted
<1>9. Sh!Copied(s) = SubSeq(counted, 1, Len(counted))
  BY <1>6, <1>7, <1>8, CopiedIs
<1>10. Sh!Copied(s) = counted
  BY <1>9, SubSeqFull
<1>11. Sh!Words(s) = <<Sh!CommandOf(s)>> \o counted
  BY <1>2, <1>4, <1>5, <1>8, CommandFirst, WordsAre
<1>12. <<Sh!CommandOf(s)>> \in Seq(Text) /\ Len(<<Sh!CommandOf(s)>>) = 1
  BY CommandIs
<1>13. Len(Sh!Words(s)) = 1 + Len(counted) /\ Len(counted) \in Nat
  BY <1>11, <1>12, ConcatProperties
<1> QED
  BY <1>7, <1>10, <1>11, <1>13

(* A command with nothing behind it is the only word of its line.          *)
LEMMA BareIsOneWord ==
  ASSUME NEW s \in Text, Sh!IsBare(s), Sh!CommandOf(s) # <<>>
  PROVE  Len(Sh!Words(s)) = 1
<1>1. Len(s) \in Nat
  BY DEF Text
<1>2. PICK b \in 1 .. Len(s) + 1 : b = Sh!SkipBlanks(s, 1)
  BY CommandIs
<1>3. PICK e \in b .. Len(s) + 1 :
        /\ e = Sh!CommandEnd(s) /\ Sh!CommandOf(s) \in Text
        /\ Len(Sh!CommandOf(s)) = e - b
  BY <1>2, CommandIs
<1>4. e = Len(s) + 1
  BY <1>1, <1>3 DEF Sh!IsBare, Sh!AtEnd
<1>5. e # b
  <2>1. CASE e = b
    <3>1. Len(Sh!CommandOf(s)) = 0
      BY <1>1, <1>3, <2>1
    <3> QED
      BY <1>3, <3>1, EmptySeq DEF Text
  <2> QED
    BY <2>1
<1>6. ~Sh!AtEnd(s, b)
  BY <1>1, <1>4, <1>5 DEF Sh!AtEnd
<1>7. Sh!Words(s) = <<Sh!CommandOf(s)>> \o <<>>
  BY <1>2, <1>3, <1>4, <1>6, CommandFirst, NothingBehind, WordsAre
<1>8. <<Sh!CommandOf(s)>> \in Seq(Text) /\ <<>> \in Seq(Text)
      /\ Len(<<Sh!CommandOf(s)>>) = 1 /\ Len(<<>>) = 0
  BY <1>3
<1>9. Len(<<Sh!CommandOf(s)>> \o <<>>) = 1 + 0
  BY <1>8, ConcatProperties
<1> QED
  BY <1>7, <1>9

-----------------------------------------------------------------------------
(* A set that holds 0 and the successor of each of its members up to n     *)
(* holds every number up to n.                                             *)
LEMMA Upwards ==
  ASSUME NEW n \in Nat, NEW T, 0 \in T, \A k \in 0 .. n - 1 : k \in T => k + 1 \in T
  PROVE  \A k \in 0 .. n : k \in T
<1> DEFINE Bad == {k \in 0 .. n : k \notin T}
<1>1. ASSUME Bad # {} PROVE FALSE
  <2>1. PICK m \in Bad : \A j \in Bad : m <= j
    <3>1. Bad \in SUBSET Nat
      OBVIOUS
    <3> HIDE DEF Bad
    <3> QED
      BY <1>1, <3>1, FirstNumber
  <2>2. m \in 0 .. n /\ m \notin T /\ m # 0
    OBVIOUS
  <2>3. m - 1 \in 0 .. n - 1 /\ m - 1 \in 0 .. n /\ (m - 1) + 1 = m /\ ~(m <= m - 1)
    BY <2>2
  <2>4. m - 1 \notin T
    BY <2>2, <2>3
  <2>5. m - 1 \in Bad
    BY <2>3, <2>4
  <2> HIDE DEF Bad
  <2> QED
    BY <2>1, <2>3, <2>5
<1> QED
  BY <1>1

(* What a recursion over the numbers up to n computes exists.              *)
LEMMA Recursion ==
  ASSUME NEW n \in Nat, NEW base \in Int, NEW step \in [1 .. n -> [Int -> Int]]
  PROVE  \E f \in [0 .. n -> Int] : f[0] = base /\ \A k \in 1 .. n : f[k] = step[k][f[k - 1]]
<1> DEFINE Rule(m, f) == /\ f \in [0 .. m -> Int] /\ f[0] = base
                         /\ \A k \in 1 .. m : f[k] = step[k][f[k - 1]]
           Done == {m \in 0 .. n : \E f : Rule(m, f)}
<1>1. 0 \in Done
  <2>1. Rule(0, [k \in 0 .. 0 |-> base])
    OBVIOUS
  <2> HIDE DEF Rule
  <2> QED
    BY <2>1
<1>2. ASSUME NEW m \in 0 .. n - 1, m \in Done PROVE m + 1 \in Done
  <2>1. PICK f : Rule(m, f)
    <3> HIDE DEF Rule
    <3> QED
      BY <1>2
  <2>2. m + 1 \in 0 .. n /\ m + 1 \in 1 .. n /\ m \in Nat
    OBVIOUS
  <2> DEFINE next == step[m + 1][f[m]]
             g == [k \in 0 .. m + 1 |-> IF k = m + 1 THEN next ELSE f[k]]
  <2>3. f[m] \in Int /\ step[m + 1] \in [Int -> Int]
    BY <2>1, <2>2
  <2>4. next \in Int
    BY <2>3
  <2>5. \A k \in 0 .. m : k \in 0 .. m + 1 /\ k # m + 1 /\ f[k] \in Int
    BY <2>1, <2>2
  <2> HIDE DEF next
  <2>6. \A k \in 0 .. m : g[k] = f[k]
    BY <2>5
  <2>7. g[m + 1] = next /\ m + 1 \in 0 .. m + 1
    BY <2>2
  <2>8. \A k \in 0 .. m + 1 : k = m + 1 \/ k \in 0 .. m
    BY <2>2
  <2>9. g \in [0 .. m + 1 -> Int]
    BY <2>4, <2>5, <2>8
  <2> HIDE DEF g
  <2>10. ASSUME NEW k \in 1 .. m + 1 PROVE g[k] = step[k][g[k - 1]]
    <3>1. k - 1 \in 0 .. m /\ (k = m + 1 \/ k \in 1 .. m) /\ (k \in 1 .. m => k \in 0 .. m)
      BY <2>2
    <3>2. CASE k = m + 1
      <4>1. k - 1 = m
        BY <2>2, <3>2
      <4> QED
        BY <2>6, <2>7, <3>1, <3>2, <4>1 DEF next
    <3>3. CASE k \in 1 .. m
      <4>1. f[k] = step[k][f[k - 1]]
        BY <2>1, <3>3
      <4> QED
        BY <2>6, <3>1, <3>3, <4>1
    <3> QED
      BY <3>1, <3>2, <3>3
  <2>11. g[0] = base
    <3>1. 0 \in 0 .. m /\ f[0] = base
      BY <2>1, <2>2
    <3> QED
      BY <2>6, <3>1
  <2>12. Rule(m + 1, g)
    BY <2>9, <2>10, <2>11
  <2> HIDE DEF Rule
  <2> QED
    BY <2>2, <2>12
<1>3. n \in 0 .. n
  OBVIOUS
<1>4. n \in Done
  <2> HIDE DEF Done
  <2> QED
    BY <1>1, <1>2, <1>3, Upwards
<1> QED
  BY <1>4

(* What follows such a rule consists of integers.                          *)
LEMMA RecursionIs ==
  ASSUME NEW n \in Nat, NEW base \in Int, NEW step \in [1 .. n -> [Int -> Int]],
         NEW g, g[0] = base, \A k \in 1 .. n : g[k - 1] \in Int => g[k] = step[k][g[k - 1]]
  PROVE  \A k \in 0 .. n : g[k] \in Int
<1> DEFINE Done == {m \in 0 .. n : g[m] \in Int}
<1>1. 0 \in Done
  OBVIOUS
<1>2. ASSUME NEW m \in 0 .. n - 1, m \in Done PROVE m + 1 \in Done
  <2>1. m + 1 \in 1 .. n /\ (m + 1) - 1 = m /\ m + 1 \in 0 .. n
    OBVIOUS
  <2>2. step[m + 1] \in [Int -> Int] /\ g[m] \in Int
    BY <1>2, <2>1
  <2>3. g[m + 1] = step[m + 1][g[m]]
    BY <1>2, <2>1
  <2> QED
    BY <2>1, <2>2, <2>3
<1>3. \A k \in 0 .. n : k \in Done
  <2> HIDE DEF Done
  <2> QED
    BY <1>1, <1>2, Upwards
<1> QED
  BY <1>3

-----------------------------------------------------------------------------
(* Power doubles.                                                          *)
LEMMA PowerIs ==
  ASSUME Sh!BitsMakeDigits
  PROVE  /\ Sh!Power[0] = 1
         /\ \A n \in 1 .. Bits : Sh!Power[n] = 2 * Sh!Power[n - 1]
         /\ \A n \in 0 .. Bits : Sh!Power[n] \in Nat \ {0}
<1>1. Bits \in Nat
  BY DEF Sh!BitsMakeDigits
<1> DEFINE Doubles(P) == P = [n \in 0 .. Bits |-> IF n = 0 THEN 1 ELSE 2 * P[n - 1]]
<1>2. PICK step \in [1 .. Bits -> [Int -> Int]] : step = [k \in 1 .. Bits |-> [x \in Int |-> 2 * x]]
  <2>1. [x \in Int |-> 2 * x] \in [Int -> Int]
    OBVIOUS
  <2> QED
    BY <2>1
<1>3. PICK f \in [0 .. Bits -> Int] :
         f[0] = 1 /\ \A k \in 1 .. Bits : f[k] = step[k][f[k - 1]]
  <2>1. 1 \in Int
    OBVIOUS
  <2>2. step \in [1 .. Bits -> [Int -> Int]]
    BY <1>2
  <2> QED
    BY <1>1, <2>1, <2>2, Recursion
<1>4. \A k \in 1 .. Bits : f[k] = 2 * f[k - 1]
  <2>1. \A k \in 1 .. Bits : k - 1 \in 0 .. Bits
    BY <1>1
  <2>2. \A k \in 1 .. Bits : f[k - 1] \in Int
    BY <2>1
  <2> QED
    BY <1>2, <1>3, <2>2
<1>5. \A n \in 0 .. Bits : n = 0 \/ n \in 1 .. Bits
  BY <1>1
<1>6. Doubles(f)
  BY <1>3, <1>4, <1>5
<1>7. Sh!Power = CHOOSE P : Doubles(P)
  BY DEF Sh!Power
<1>8. Doubles(Sh!Power)
  <2> HIDE DEF Doubles
  <2> QED
    BY <1>6, <1>7
<1>9. /\ Sh!Power[0] = 1
      /\ \A n \in 1 .. Bits : Sh!Power[n] = 2 * Sh!Power[n - 1]
  <2>1. 0 \in 0 .. Bits /\ \A n \in 1 .. Bits : n \in 0 .. Bits /\ n # 0
    BY <1>1
  <2> QED
    BY <1>8, <2>1
<1>10. \A k \in 1 .. Bits : Sh!Power[k - 1] \in Int => Sh!Power[k] = step[k][Sh!Power[k - 1]]
  BY <1>2, <1>9
<1>11. \A n \in 0 .. Bits : Sh!Power[n] \in Int
  <2>1. 1 \in Int
    OBVIOUS
  <2>2. step \in [1 .. Bits -> [Int -> Int]]
    BY <1>2
  <2>3. PICK g : g = Sh!Power
    OBVIOUS
  <2>4. g[0] = 1 /\ \A k \in 1 .. Bits : g[k - 1] \in Int => g[k] = step[k][g[k - 1]]
    BY <1>9, <1>10, <2>3
  <2>5. \A n \in 0 .. Bits : g[n] \in Int
    BY <1>1, <2>1, <2>2, <2>4, RecursionIs
  <2> QED
    BY <2>3, <2>5
<1>12. \A n \in 0 .. Bits : Sh!Power[n] \in Nat \ {0}
  <2> DEFINE Done == {n \in 0 .. Bits : Sh!Power[n] > 0}
  <2>1. 0 \in Done
    BY <1>1, <1>9
  <2>2. ASSUME NEW n \in 0 .. Bits - 1, n \in Done PROVE n + 1 \in Done
    <3>1. n + 1 \in 1 .. Bits /\ n + 1 \in 0 .. Bits /\ n \in 0 .. Bits /\ (n + 1) - 1 = n
      BY <1>1
    <3>2. Sh!Power[n + 1] = 2 * Sh!Power[n] /\ Sh!Power[n] \in Int /\ Sh!Power[n] > 0
      BY <1>9, <1>11, <2>2, <3>1
    <3>3. Sh!Power[n + 1] > 0
      BY <3>2
    <3> QED
      BY <3>1, <3>3
  <2>3. \A n \in 0 .. Bits : n \in Done
    <3> HIDE DEF Done
    <3> QED
      BY <1>1, <2>1, <2>2, Upwards
  <2> QED
    BY <1>11, <2>3
<1> QED
  BY <1>9, <1>12

(* What is stored is a number.                                             *)
LEMMA StoredType == ASSUME NEW ws \in Seq(Text) PROVE Sh!Stored(ws) \in Int
<1>1. PICK n \in Nat : n = Len(ws)
  OBVIOUS
<1>2. \A k \in 1 .. n : Len(ws[k]) \in Nat
  BY <1>1 DEF Text
<1> DEFINE Sums(P) == P = [k \in 0 .. Len(ws) |->
                             IF k = 0 THEN 0 ELSE P[k - 1] + Len(ws[k]) + 1]
           stored == CHOOSE P : Sums(P)
<1>3. PICK step \in [1 .. n -> [Int -> Int]] :
         step = [k \in 1 .. n |-> [x \in Int |-> x + Len(ws[k]) + 1]]
  <2>1. \A k \in 1 .. n : [x \in Int |-> x + Len(ws[k]) + 1] \in [Int -> Int]
    BY <1>2
  <2> QED
    BY <2>1
<1>4. PICK f \in [0 .. n -> Int] : f[0] = 0 /\ \A k \in 1 .. n : f[k] = step[k][f[k - 1]]
  <2>1. step \in [1 .. n -> [Int -> Int]]
    BY <1>3
  <2>2. n \in Nat /\ 0 \in Int
    BY <1>1
  <2> QED
    BY <2>1, <2>2, Recursion
<1>5. \A k \in 1 .. n : f[k] = f[k - 1] + Len(ws[k]) + 1
  <2>1. \A k \in 1 .. n : k - 1 \in 0 .. n
    BY <1>1
  <2>2. \A k \in 1 .. n : f[k - 1] \in Int
    BY <2>1
  <2> QED
    BY <1>3, <1>4, <2>2
<1>6. \A k \in 0 .. n : k = 0 \/ k \in 1 .. n
  BY <1>1
<1>7. Sums(f)
  BY <1>1, <1>4, <1>5, <1>6
<1>8. Sums(stored)
  <2> HIDE DEF Sums
  <2> QED
    BY <1>7
<1>9. Sh!Stored(ws) = stored[Len(ws)]
  BY DEF Sh!Stored
<1> HIDE DEF stored
<1>10. stored[0] = 0 /\ \A k \in 1 .. n : stored[k] = stored[k - 1] + Len(ws[k]) + 1
  <2>1. 0 \in 0 .. n /\ \A k \in 1 .. n : k \in 0 .. n /\ k # 0
    BY <1>1
  <2> QED
    BY <1>1, <1>8, <2>1
<1>11. \A k \in 1 .. n : stored[k - 1] \in Int => stored[k] = step[k][stored[k - 1]]
  BY <1>3, <1>10
<1>12. \A k \in 0 .. n : stored[k] \in Int
  <2>1. step \in [1 .. n -> [Int -> Int]]
    BY <1>3
  <2>2. n \in Nat /\ 0 \in Int
    BY <1>1
  <2> QED
    BY <2>1, <2>2, <1>10, <1>11, RecursionIs
<1> QED
  BY <1>1, <1>9, <1>12

(* A digit is a number, a hex digit one below 16.                          *)
LEMMA HexDigitIs == ASSUME NEW c \in Sh!HexDigit PROVE Sh!Digit(c) \in 0 .. 15
<1>1. DOMAIN Sh!Hex = 1 .. 16
  BY DEF Sh!Hex
<1>2. PICK v \in DOMAIN Sh!Hex : c \in Sh!Hex[v]
  BY DEF Sh!HexDigit
<1>3. (CHOOSE u \in DOMAIN Sh!Hex : c \in Sh!Hex[u]) \in DOMAIN Sh!Hex
  BY <1>2
<1>4. Sh!Digit(c) = (CHOOSE u \in DOMAIN Sh!Hex : c \in Sh!Hex[u]) - 1
  BY DEF Sh!Digit
<1> QED
  BY <1>1, <1>3, <1>4

(* Any other character counts as an integer too.                           *)
LEMMA DigitType ==
  ASSUME Sh!LinesAreText, NEW c \in DOMAIN Code
  PROVE  Sh!Digit(c) \in Int
<1>1. Code[c] \in Int
  BY DEF Sh!LinesAreText
<1>2. CASE c \in Sh!HexDigit
  BY <1>2, HexDigitIs
<1>3. CASE c \notin Sh!HexDigit
  BY <1>1, <1>3 DEF Sh!Digit, Sh!FromZero
<1> QED
  BY <1>2, <1>3

(* Neither an 'h' nor an 'x' is one.                                       *)
LEMMA NoHexDigit == "h" \notin Sh!HexDigit /\ "x" \notin Sh!HexDigit
BY DEF Sh!HexDigit, Sh!Hex

(* The remainder of a number by a number is a number below it, and a       *)
(* smaller one stays as it is.                                             *)
LEMMA Remainder ==
  ASSUME NEW m \in Nat \ {0}
  PROVE  /\ \A x \in Int : x % m \in 0 .. m - 1
         /\ \A x \in 0 .. m - 1 : x % m = x
OBVIOUS

(* Where the digits end.                                                   *)
LEMMA LastDigitIs ==
  ASSUME NEW w \in Text
  PROVE  /\ Sh!LastDigit(w) \in 0 .. Len(w)
         /\ Sh!LastDigit(w) < Len(w) => w[Sh!LastDigit(w) + 1] = "h"
         /\ \A j \in 1 .. Sh!LastDigit(w) : w[j] # "h"
<1> DEFINE Hits == {k \in 1 .. Len(w) + 1 : Sh!AtEnd(w, k) \/ w[k] = "h"}
<1>1. Len(w) \in Nat
  BY DEF Text
<1>2. Len(w) + 1 \in Hits /\ Hits \in SUBSET Nat
  BY <1>1 DEF Sh!AtEnd
<1>3. Sh!Min(Hits) \in Hits /\ \A j \in Hits : Sh!Min(Hits) <= j
  <2> HIDE DEF Hits
  <2> QED
    BY <1>2, MinIs
<1>4. Sh!LastDigit(w) = Sh!Min(Hits) - 1
  BY DEF Sh!LastDigit
<1> HIDE DEF Hits
<1>5. PICK e \in Hits : Sh!LastDigit(w) = e - 1 /\ \A j \in Hits : e <= j
  BY <1>3, <1>4
<1>6. e \in 1 .. Len(w) + 1 /\ (e <= Len(w) => w[e] = "h")
  BY <1>1 DEF Hits, Sh!AtEnd
<1>7. ASSUME NEW j \in 1 .. e - 1 PROVE w[j] # "h"
  <2>1. j \in 1 .. Len(w) + 1 /\ ~(e <= j)
    BY <1>1, <1>6
  <2>2. j \notin Hits
    BY <1>5, <2>1
  <2> QED
    BY <2>1, <2>2 DEF Hits
<1>8. e - 1 \in 0 .. Len(w) /\ (e - 1 < Len(w) => e <= Len(w)) /\ (e - 1) + 1 = e
  BY <1>1, <1>6
<1> QED
  BY <1>5, <1>6, <1>7, <1>8

(* The weight of a digit: 16^j.  Up to the width of an address it is a     *)
(* Power, and from there on no address reaches it.                         *)
LEMMA Weights ==
  ASSUME Sh!BitsMakeDigits, NEW n \in Nat
  PROVE  \E W \in [0 .. n -> Nat] :
           /\ W[0] = 1 /\ \A j \in 1 .. n : W[j] = 16 * W[j - 1]
           /\ \A j \in 0 .. n : 4 * j < Bits => W[j] = Sh!Power[4 * j]
           /\ \A j \in 0 .. n : 4 * j >= Bits => W[j] >= Sh!Power[Bits]
<1>1. Bits \in Nat \ {0} /\ Bits % 4 = 0
  BY DEF Sh!BitsMakeDigits
<1>2. PICK step \in [1 .. n -> [Int -> Int]] : step = [k \in 1 .. n |-> [x \in Int |-> 16 * x]]
  <2>1. [x \in Int |-> 16 * x] \in [Int -> Int]
    OBVIOUS
  <2> QED
    BY <2>1
<1>3. PICK W \in [0 .. n -> Int] : W[0] = 1 /\ \A k \in 1 .. n : W[k] = step[k][W[k - 1]]
  <2>1. 1 \in Int
    OBVIOUS
  <2>2. step \in [1 .. n -> [Int -> Int]]
    BY <1>2
  <2> QED
    BY <2>1, <2>2, Recursion
<1>4. \A k \in 1 .. n : W[k] = 16 * W[k - 1]
  <2>1. \A k \in 1 .. n : k - 1 \in 0 .. n
    OBVIOUS
  <2>2. \A k \in 1 .. n : W[k - 1] \in Int
    BY <1>3, <2>1
  <2> QED
    BY <1>2, <1>3, <2>2
<1>5. ASSUME NEW i \in 0 .. Bits - 4 PROVE Sh!Power[i + 4] = 16 * Sh!Power[i]
  <2>1. /\ i + 1 \in 1 .. Bits /\ i + 2 \in 1 .. Bits /\ i + 3 \in 1 .. Bits
        /\ i + 4 \in 1 .. Bits /\ i \in 0 .. Bits
        /\ (i + 1) - 1 = i /\ (i + 2) - 1 = i + 1 /\ (i + 3) - 1 = i + 2 /\ (i + 4) - 1 = i + 3
    BY <1>1
  <2>2. /\ Sh!Power[i + 1] = 2 * Sh!Power[i] /\ Sh!Power[i + 2] = 2 * Sh!Power[i + 1]
        /\ Sh!Power[i + 3] = 2 * Sh!Power[i + 2] /\ Sh!Power[i + 4] = 2 * Sh!Power[i + 3]
        /\ Sh!Power[i] \in Nat
    BY <2>1, PowerIs
  <2> QED
    BY <2>2
<1> DEFINE Good(j) == /\ W[j] \in Nat
                      /\ 4 * j <= Bits => W[j] = Sh!Power[4 * j]
                      /\ 4 * j >= Bits => W[j] >= Sh!Power[Bits]
           Done == {j \in 0 .. n : Good(j)}
<1>6. 0 \in Done
  BY <1>1, <1>3, PowerIs
<1>7. ASSUME NEW j \in 0 .. n - 1, j \in Done PROVE j + 1 \in Done
  <2>1. j + 1 \in 0 .. n /\ j + 1 \in 1 .. n /\ (j + 1) - 1 = j /\ j \in Nat /\ j \in 0 .. n
    OBVIOUS
  <2>2. W[j + 1] = 16 * W[j] /\ W[j] \in Nat /\ W[j + 1] \in Nat
    BY <1>4, <1>7, <2>1
  <2>3. Sh!Power[Bits] \in Nat
    <3>1. Bits \in 0 .. Bits
      BY <1>1
    <3> QED
      BY <3>1, PowerIs
  <2>4. CASE 4 * j < Bits
    <3>1. 4 * j \in 0 .. Bits - 4 /\ 4 * (j + 1) = 4 * j + 4 /\ 4 * (j + 1) <= Bits
      <4>1. PICK q \in Int : Bits = 4 * q
        BY <1>1
      <4> QED
        BY <1>1, <2>1, <2>4, <4>1
    <3>2. W[j] = Sh!Power[4 * j]
      BY <1>7, <2>1, <2>4, <1>1
    <3>3. Sh!Power[4 * j + 4] = 16 * Sh!Power[4 * j]
      BY <1>5, <3>1
    <3>4. W[j + 1] = Sh!Power[4 * (j + 1)]
      BY <2>2, <3>1, <3>2, <3>3
    <3>5. 4 * (j + 1) >= Bits => 4 * (j + 1) = Bits
      BY <1>1, <2>1, <3>1
    <3>6. 4 * (j + 1) >= Bits => W[j + 1] >= Sh!Power[Bits]
      BY <2>3, <3>4, <3>5
    <3> QED
      BY <2>1, <2>2, <3>4, <3>6
  <2>5. CASE 4 * j >= Bits
    <3>1. W[j] >= Sh!Power[Bits]
      BY <1>7, <2>5
    <3>2. W[j + 1] >= Sh!Power[Bits]
      <4>1. \A a, b \in Nat : a >= b => 16 * a >= b
        OBVIOUS
      <4> QED
        BY <2>2, <2>3, <3>1, <4>1
    <3>3. ~(4 * (j + 1) <= Bits)
      BY <1>1, <2>1, <2>5
    <3> QED
      BY <2>1, <2>2, <3>2, <3>3
  <2> QED
    BY <1>1, <2>1, <2>4, <2>5
<1>8. \A j \in 0 .. n : j \in Done
  <2> HIDE DEF Done
  <2> QED
    BY <1>6, <1>7, Upwards
<1>9. ASSUME NEW j \in 0 .. n
      PROVE  /\ W[j] \in Nat
             /\ 4 * j < Bits => W[j] = Sh!Power[4 * j]
             /\ 4 * j >= Bits => W[j] >= Sh!Power[Bits]
  <2>1. Good(j)
    BY <1>8
  <2>2. 4 * j < Bits => 4 * j <= Bits
    BY <1>1
  <2> QED
    BY <2>1, <2>2
<1>10. W \in [0 .. n -> Nat]
  BY <1>3, <1>9
<1> QED
  BY <1>3, <1>4, <1>9, <1>10

(* ParseAddress adds the digits up from the last one back.                 *)
LEMMA ParseAddressIs ==
  ASSUME Sh!LinesAreText, Sh!BitsMakeDigits, NEW w \in Text
  PROVE  \E sum : /\ Sh!ParseAddress(w) = sum[Sh!FirstDigit(w)]
                  /\ \A k \in 1 .. Len(w) + 1 : sum[k] \in 0 .. Sh!Power[Bits] - 1
                  /\ \A k \in Sh!LastDigit(w) + 1 .. Len(w) + 1 : sum[k] = 0
                  /\ \A k \in 1 .. Sh!LastDigit(w) :
                       sum[k] = (sum[k + 1] + Sh!Digit(w[k]) * Sh!Power[Sh!Shift(w, k)])
                                  % Sh!Power[Bits]
<1>1. PICK n \in Nat : n = Len(w)
  BY DEF Text
<1>2. PICK M \in Nat \ {0} : M = Sh!Power[Bits]
  <2>1. Bits \in 0 .. Bits
    BY DEF Sh!BitsMakeDigits
  <2> QED
    BY <2>1, PowerIs
<1>3. PICK last \in 0 .. n : last = Sh!LastDigit(w)
  BY <1>1, LastDigitIs
<1>4. ASSUME NEW k \in 1 .. n PROVE Sh!Digit(w[k]) * Sh!Power[Sh!Shift(w, k)] \in Int
  <2>1. Sh!Digit(w[k]) \in Int
    BY <1>1, DigitType DEF Text
  <2>2. Sh!Shift(w, k) \in 0 .. Bits
    <3>1. 4 * (last - k) \in Int /\ Bits \in Nat \ {0}
      BY <1>3 DEF Sh!BitsMakeDigits
    <3>2. (4 * (last - k)) % Bits \in 0 .. Bits - 1
      BY <3>1, Remainder
    <3> QED
      BY <1>3, <3>1, <3>2 DEF Sh!Shift
  <2>3. Sh!Power[Sh!Shift(w, k)] \in Int
    BY <2>2, PowerIs
  <2> QED
    BY <2>1, <2>3
<1>5. PICK part \in [1 .. n -> Int] :
        part = [k \in 1 .. n |-> Sh!Digit(w[k]) * Sh!Power[Sh!Shift(w, k)]]
  BY <1>4
<1> DEFINE Adds(P) == P = [k \in 1 .. Len(w) + 1 |->
              IF k > Sh!LastDigit(w) THEN 0
              ELSE (P[k + 1] + Sh!Digit(w[k]) * Sh!Power[Sh!Shift(w, k)]) % Sh!Power[Bits]]
(* The same recursion, counted from the end.                               *)
<1>6. PICK step \in [1 .. n -> [Int -> Int]] :
        step = [i \in 1 .. n |-> [x \in Int |->
                  IF n + 1 - i > last THEN 0 ELSE (x + part[n + 1 - i]) % M]]
  <2>1. ASSUME NEW i \in 1 .. n, NEW x \in Int
        PROVE  (IF n + 1 - i > last THEN 0 ELSE (x + part[n + 1 - i]) % M) \in Int
    <3>1. n + 1 - i \in 1 .. n
      BY <1>1
    <3>2. x + part[n + 1 - i] \in Int
      BY <1>5, <3>1
    <3>3. (x + part[n + 1 - i]) % M \in 0 .. M - 1
      BY <1>2, <3>2, Remainder
    <3> QED
      BY <1>2, <3>3
  <2>2. \A i \in 1 .. n : [x \in Int |->
          IF n + 1 - i > last THEN 0 ELSE (x + part[n + 1 - i]) % M] \in [Int -> Int]
    BY <2>1
  <2> QED
    BY <2>2
<1>7. PICK f \in [0 .. n -> Int] : f[0] = 0 /\ \A i \in 1 .. n : f[i] = step[i][f[i - 1]]
  <2>1. step \in [1 .. n -> [Int -> Int]] /\ n \in Nat
    BY <1>1, <1>6
  <2>2. 0 \in Int
    OBVIOUS
  <2> QED
    BY <2>1, <2>2, Recursion
<1>8. PICK g : g = [k \in 1 .. n + 1 |-> f[n + 1 - k]]
  OBVIOUS
<1>9. ASSUME NEW k \in 1 .. n + 1
      PROVE  g[k] = IF k > last THEN 0 ELSE (g[k + 1] + part[k]) % M
  <2>1. CASE k = n + 1
    <3>1. n + 1 - k = 0 /\ k > last
      BY <1>1, <1>3, <2>1
    <3> QED
      BY <1>7, <1>8, <3>1
  <2>2. CASE k # n + 1
    <3>0. n + 1 - k \in 1 .. n
      BY <1>1, <2>2
    <3>1. PICK i \in 1 .. n : i = n + 1 - k
      BY <3>0
    <3>2. n + 1 - i = k /\ i - 1 \in 0 .. n /\ k + 1 \in 1 .. n + 1 /\ n + 1 - (k + 1) = i - 1
      BY <1>1, <2>2, <3>1
    <3>3. g[k] = f[i] /\ g[k + 1] = f[i - 1] /\ f[i - 1] \in Int
      BY <1>7, <1>8, <3>1, <3>2
    <3>4. f[i] = step[i][f[i - 1]]
      BY <1>7
    <3>5. step[i][f[i - 1]] = IF n + 1 - i > last THEN 0 ELSE (f[i - 1] + part[n + 1 - i]) % M
      BY <1>6, <3>3
    <3> QED
      BY <3>2, <3>3, <3>4, <3>5
  <2> QED
    BY <2>1, <2>2
<1>10. Adds(g)
  <2>1. ASSUME NEW k \in 1 .. n + 1
        PROVE  g[k] = IF k > Sh!LastDigit(w) THEN 0
                      ELSE (g[k + 1] + Sh!Digit(w[k]) * Sh!Power[Sh!Shift(w, k)]) % Sh!Power[Bits]
    <3>1. CASE k > last
      BY <1>3, <1>9, <3>1
    <3>2. CASE ~(k > last)
      <4>1. k \in 1 .. n
        BY <1>1, <1>3, <3>2
      <4>2. part[k] = Sh!Digit(w[k]) * Sh!Power[Sh!Shift(w, k)]
        BY <1>5, <4>1
      <4>3. g[k] = (g[k + 1] + part[k]) % M
        BY <1>9, <3>2
      <4> QED
        BY <1>2, <1>3, <3>2, <4>2, <4>3
    <3> QED
      BY <3>1, <3>2
  <2> QED
    BY <1>1, <1>8, <2>1
<1>11. PICK sum : Adds(sum) /\ Sh!ParseAddress(w) = sum[Sh!FirstDigit(w)]
  <2> DEFINE chosen == CHOOSE P : Adds(P)
  <2>1. Adds(chosen)
    <3> HIDE DEF Adds
    <3> QED
      BY <1>10
  <2>2. Sh!ParseAddress(w) = chosen[Sh!FirstDigit(w)]
    BY Zenon DEF Sh!ParseAddress
  <2> HIDE DEF Adds, chosen
  <2> QED
    BY <2>1, <2>2
<1>13. ASSUME NEW k \in 1 .. n + 1
       PROVE  sum[k] = IF k > Sh!LastDigit(w) THEN 0
                       ELSE (sum[k + 1] + Sh!Digit(w[k]) * Sh!Power[Sh!Shift(w, k)])
                              % Sh!Power[Bits]
  BY <1>1, <1>11
<1> HIDE DEF Adds
<1>14. ASSUME NEW k \in last + 1 .. n + 1 PROVE sum[k] = 0
  <2>1. k \in 1 .. n + 1 /\ k > last
    BY <1>1, <1>3
  <2> QED
    BY <1>3, <1>13, <2>1
<1>15. ASSUME NEW k \in 1 .. last
       PROVE  sum[k] = (sum[k + 1] + part[k]) % M
  <2>1. k \in 1 .. n + 1 /\ ~(k > last) /\ k \in 1 .. n
    BY <1>1, <1>3
  <2> QED
    BY <1>2, <1>3, <1>5, <1>13, <2>1
<1>16. \A k \in 1 .. n + 1 : sum[k] \in 0 .. M - 1
  <2> DEFINE Done == {i \in 0 .. n : sum[n + 1 - i] \in 0 .. M - 1}
  <2>1. 0 \in Done
    <3>1. n + 1 - 0 \in last + 1 .. n + 1
      BY <1>1, <1>3
    <3>2. sum[n + 1 - 0] = 0
      BY <1>14, <3>1
    <3> QED
      BY <1>1, <1>2, <3>2
  <2>2. ASSUME NEW i \in 0 .. n - 1, i \in Done PROVE i + 1 \in Done
    <3>1. PICK k \in 1 .. n : k = n + 1 - (i + 1)
      BY <1>1
    <3>2. n + 1 - i = k + 1 /\ i + 1 \in 0 .. n
      BY <1>1, <3>1
    <3>3. sum[k + 1] \in Int
      <4>1. sum[n + 1 - i] \in 0 .. M - 1
        BY <2>2
      <4> QED
        BY <1>2, <3>1, <3>2, <4>1
    <3>4. CASE k > last
      <4>1. k \in last + 1 .. n + 1
        BY <1>1, <1>3, <3>4
      <4>2. sum[k] = 0
        BY <1>14, <4>1
      <4>3. 0 \in 0 .. M - 1
        BY <1>2
      <4>4. sum[k] \in 0 .. M - 1
        BY <4>2, <4>3
      <4> QED
        BY <3>1, <3>2, <4>4
    <3>5. CASE ~(k > last)
      <4>1. k \in 1 .. last
        BY <1>1, <1>3, <3>5
      <4>2. sum[k] = (sum[k + 1] + part[k]) % M
        BY <1>15, <4>1
      <4>3. sum[k + 1] + part[k] \in Int
        <5>1. part[k] \in Int
          BY <1>5
        <5>2. \A a, b \in Int : a + b \in Int
          OBVIOUS
        <5> QED
          BY <3>3, <5>1, <5>2
      <4>4. sum[k] \in 0 .. M - 1
        <5>1. \A x \in Int : x % M \in 0 .. M - 1
          BY <1>2, Remainder
        <5>2. (sum[k + 1] + part[k]) % M \in 0 .. M - 1
          BY <4>3, <5>1
        <5> QED
          BY <4>2, <5>2
      <4> QED
        BY <3>1, <3>2, <4>4
    <3> QED
      BY <3>4, <3>5
  <2>3. \A i \in 0 .. n : i \in Done
    <3>1. n \in Nat
      BY <1>1
    <3> HIDE DEF Done
    <3> QED
      BY <2>1, <2>2, <3>1, Upwards
  <2>4. \A k \in 1 .. n + 1 : n + 1 - k \in 0 .. n /\ n + 1 - (n + 1 - k) = k
    BY <1>1
  <2> QED
    BY <2>3, <2>4
<1>17. \A k \in 1 .. last :
         sum[k] = (sum[k + 1] + Sh!Digit(w[k]) * Sh!Power[Sh!Shift(w, k)]) % Sh!Power[Bits]
  <2>1. \A k \in 1 .. last : k \in 1 .. n
    BY <1>1, <1>3
  <2> QED
    BY <1>2, <1>5, <1>15, <2>1
<1> QED
  BY <1>1, <1>2, <1>3, <1>11, <1>14, <1>16, <1>17

(* The word of hex digits ends where LastDigit ends, and begins where      *)
(* FirstDigit begins.                                                      *)
LEMMA HexIsFound ==
  ASSUME NEW w \in Text, Sh!IsHex(w)
  PROVE  /\ Sh!HexFirst(w) = Sh!FirstDigit(w) /\ Sh!HexLast(w) = Sh!LastDigit(w)
         /\ Sh!FirstDigit(w) \in 1 .. Sh!LastDigit(w) /\ Sh!HasDigits(w)
         /\ \A k \in Sh!FirstDigit(w) .. Sh!LastDigit(w) : w[k] \in Sh!HexDigit
<1>1. PICK n \in Nat : n = Len(w)
  BY DEF Text
<1>2. PICK first : first = Sh!HexFirst(w) /\ first \in {1, 3}
  BY DEF Sh!HexFirst
<1>3. PICK last : last = Sh!HexLast(w) /\ last \in {n - 1, n} /\ (last = n - 1 <=> w[n] = "h")
  BY <1>1 DEF Sh!HexLast
<1>4. first <= last /\ \A k \in first .. last : w[k] \in Sh!HexDigit
  BY <1>2, <1>3 DEF Sh!IsHex
<1>5. /\ first = 3 => n > 2 /\ w[1] = "0" /\ w[2] = "x"
      /\ first = 1 => ~(n > 2 /\ w[1] = "0" /\ w[2] = "x")
  BY <1>1, <1>2 DEF Sh!HexFirst
<1>6. PICK e \in 0 .. n : /\ e = Sh!LastDigit(w) /\ (e < n => w[e + 1] = "h")
                          /\ \A j \in 1 .. e : w[j] # "h"
  BY <1>1, LastDigitIs
<1>7. \A k \in first .. last : w[k] # "h" /\ w[k] # "x"
  BY <1>4, NoHexDigit
<1>8. e = last
  <2>1. \A j \in 1 .. last : w[j] # "h"
    <3>1. ASSUME NEW j \in 1 .. last, w[j] = "h" PROVE FALSE
      <4>1. ~(j >= first)
        <5>1. j >= first => j \in first .. last
          BY <1>1, <1>2, <1>3
        <5> QED
          BY <1>7, <3>1, <5>1
      <4>2. first = 3 /\ (j = 1 \/ j = 2)
        BY <1>1, <1>2, <1>3, <4>1
      <4> QED
        BY <1>5, <3>1, <4>2
    <3> QED
      BY <3>1
  <2>2. ~(e < last)
    <3>1. e < last => e < n /\ e + 1 \in 1 .. last
      BY <1>1, <1>3, <1>6
    <3> QED
      BY <1>6, <2>1, <3>1
  <2>3. ~(last < e)
    <3>1. last < e => e = n /\ last = n - 1 /\ n \in 1 .. e
      BY <1>1, <1>2, <1>3, <1>4, <1>6
    <3> QED
      BY <1>3, <1>6, <3>1
  <2> QED
    BY <1>1, <1>3, <1>6, <2>2, <2>3
<1>9. Sh!FirstDigit(w) = first
  <2>1. CASE first = 3
    BY <1>1, <1>5, <2>1 DEF Sh!FirstDigit
  <2>2. CASE first = 1
    <3>1. ASSUME n > 1, w[2] = "x" PROVE FALSE
      <4>1. last >= 2
        <5>1. last = n - 1 => n # 2
          BY <1>3, <3>1
        <5> QED
          BY <1>1, <1>3, <3>1, <5>1
      <4>2. 2 \in first .. last
        BY <1>1, <1>3, <2>2, <4>1
      <4> QED
        BY <1>7, <3>1, <4>2
    <3> QED
      BY <1>1, <2>2, <3>1 DEF Sh!FirstDigit
  <2> QED
    BY <1>2, <2>1, <2>2
<1>10. first \in 1 .. last
  BY <1>1, <1>2, <1>3, <1>4
<1> QED
  BY <1>2, <1>3, <1>4, <1>6, <1>8, <1>9, <1>10 DEF Sh!HasDigits

(* HexValue reads the digits from the first one on.                        *)
LEMMA HexValueIs ==
  ASSUME Sh!LinesAreText, NEW w \in Text, Sh!IsHex(w)
  PROVE  \E number : /\ Sh!HexValue(w) = number[Sh!LastDigit(w)]
                     /\ number[Sh!FirstDigit(w) - 1] = 0
                     /\ \A k \in Sh!FirstDigit(w) .. Sh!LastDigit(w) :
                          number[k] = 16 * number[k - 1] + Sh!Digit(w[k])
                     /\ \A k \in Sh!FirstDigit(w) - 1 .. Sh!LastDigit(w) : number[k] \in Nat
<1>1. PICK n \in Nat : n = Len(w)
  BY DEF Text
<1>2. PICK last \in 0 .. n : last = Sh!LastDigit(w) /\ last = Sh!HexLast(w)
  BY <1>1, LastDigitIs, HexIsFound
<1>3. PICK first \in 1 .. last : first = Sh!FirstDigit(w) /\ first = Sh!HexFirst(w)
  BY <1>2, HexIsFound
<1>4. PICK digit \in [1 .. n -> Int] : digit = [k \in 1 .. n |-> Sh!Digit(w[k])]
  <2>1. \A k \in 1 .. n : Sh!Digit(w[k]) \in Int
    BY <1>1, DigitType DEF Text
  <2> QED
    BY <2>1
<1>5. PICK step \in [1 .. n -> [Int -> Int]] :
        step = [k \in 1 .. n |-> [x \in Int |-> IF k < first THEN 0 ELSE 16 * x + digit[k]]]
  <2>1. \A k \in 1 .. n : [x \in Int |-> IF k < first THEN 0 ELSE 16 * x + digit[k]] \in [Int -> Int]
    BY <1>4
  <2> QED
    BY <2>1
<1>6. PICK f \in [0 .. n -> Int] : f[0] = 0 /\ \A k \in 1 .. n : f[k] = step[k][f[k - 1]]
  <2>1. step \in [1 .. n -> [Int -> Int]] /\ n \in Nat
    BY <1>1, <1>5
  <2>2. 0 \in Int
    OBVIOUS
  <2> QED
    BY <2>1, <2>2, Recursion
<1> DEFINE Reads(P) == P = [k \in 0 .. Len(w) |->
                  IF k < Sh!HexFirst(w) THEN 0 ELSE 16 * P[k - 1] + Sh!Digit(w[k])]
<1>7. Reads(f)
  <2>1. ASSUME NEW k \in 0 .. n
        PROVE  f[k] = IF k < Sh!HexFirst(w) THEN 0 ELSE 16 * f[k - 1] + Sh!Digit(w[k])
    <3>1. CASE k = 0
      <4>1. k < first
        BY <1>3, <3>1
      <4> QED
        BY <1>3, <1>6, <3>1, <4>1
    <3>2. CASE k # 0
      <4>1. k \in 1 .. n /\ k - 1 \in 0 .. n
        BY <1>1, <3>2
      <4>2. f[k] = step[k][f[k - 1]] /\ f[k - 1] \in Int
        BY <1>6, <4>1
      <4>3. step[k][f[k - 1]] = IF k < first THEN 0 ELSE 16 * f[k - 1] + digit[k]
        BY <1>5, <4>1, <4>2
      <4>4. digit[k] = Sh!Digit(w[k])
        BY <1>4, <4>1
      <4> QED
        BY <1>3, <4>2, <4>3, <4>4
    <3> QED
      BY <3>1, <3>2
  <2> QED
    BY <1>1, <1>6, <2>1
<1>8. PICK number : Reads(number) /\ Sh!HexValue(w) = number[Sh!HexLast(w)]
  <2> DEFINE chosen == CHOOSE P : Reads(P)
  <2>1. Reads(chosen)
    <3> HIDE DEF Reads
    <3> QED
      BY <1>7
  <2>2. Sh!HexValue(w) = chosen[Sh!HexLast(w)]
    BY Zenon DEF Sh!HexValue
  <2> HIDE DEF Reads, chosen
  <2> QED
    BY <2>1, <2>2
<1>9. \A k \in 0 .. n :
        number[k] = IF k < first THEN 0 ELSE 16 * number[k - 1] + Sh!Digit(w[k])
  BY <1>1, <1>3, <1>8
<1> HIDE DEF Reads
<1>10. number[first - 1] = 0
  <2>1. first - 1 \in 0 .. n /\ first - 1 < first
    BY <1>1, <1>2, <1>3
  <2> QED
    BY <1>9, <2>1
<1>11. ASSUME NEW k \in first .. last
       PROVE  number[k] = 16 * number[k - 1] + Sh!Digit(w[k]) /\ Sh!Digit(w[k]) \in 0 .. 15
  <2>1. k \in 0 .. n /\ ~(k < first)
    BY <1>1, <1>2, <1>3
  <2>2. Sh!Digit(w[k]) \in 0 .. 15
    BY <1>2, <1>3, HexIsFound, HexDigitIs
  <2> QED
    BY <1>9, <2>1, <2>2
<1>12. first \in Nat /\ last \in Nat /\ first <= last
  BY <1>1, <1>2, <1>3
<1>13. \A k \in first - 1 .. last : number[k] \in Nat
  <2>1. PICK m \in Nat : m = last - first + 1
    BY <1>1, <1>2, <1>3
  <2> DEFINE Done == {i \in 0 .. m : number[first - 1 + i] \in Nat}
  <2>2. 0 \in Done
    <3>1. first - 1 + 0 = first - 1 /\ 0 \in 0 .. m
      BY <1>2, <1>3, <2>1
    <3> QED
      BY <1>10, <3>1
  <2>3. ASSUME NEW i \in 0 .. m - 1, i \in Done PROVE i + 1 \in Done
    <3>0. /\ first - 1 + (i + 1) \in first .. last
          /\ (first - 1 + (i + 1)) - 1 = first - 1 + i
      BY <1>12, <2>1
    <3>1. PICK k \in first .. last : k = first - 1 + (i + 1) /\ k - 1 = first - 1 + i
      BY <3>0
    <3>2. number[k - 1] \in Nat
      BY <2>3, <3>1
    <3>3. number[k] = 16 * number[k - 1] + Sh!Digit(w[k]) /\ Sh!Digit(w[k]) \in 0 .. 15
      BY <1>11, <3>1
    <3>4. \A a \in Nat, d \in 0 .. 15 : 16 * a + d \in Nat
      OBVIOUS
    <3>5. number[k] \in Nat
      BY <3>2, <3>3, <3>4
    <3>6. i + 1 \in 0 .. m
      BY <2>1
    <3> QED
      BY <3>1, <3>5, <3>6
  <2>4. \A i \in 0 .. m : i \in Done
    <3>1. m \in Nat
      BY <2>1
    <3> HIDE DEF Done
    <3> QED
      BY <2>2, <2>3, <3>1, Upwards
  <2>5. ASSUME NEW k \in first - 1 .. last PROVE number[k] \in Nat
    <3>1. k - (first - 1) \in 0 .. m /\ first - 1 + (k - (first - 1)) = k
      BY <1>12, <2>1
    <3> QED
      BY <2>4, <3>1
  <2> QED
    BY <2>5
<1> QED
  BY <1>2, <1>3, <1>8, <1>10, <1>11, <1>13

(* One digit more: the rest of the number v stays within the address, and  *)
(* a digit whose weight does not fit is 0.                                 *)
LEMMA OneDigit ==
  ASSUME NEW a \in Nat, NEW d \in Nat, NEW x \in Nat, NEW y \in Nat, NEW v \in Nat,
         NEW M \in Nat \ {0}, v < M, (16 * a + d) * x <= v, y = x \/ x >= M
  PROVE  /\ a * (16 * x) <= v
         /\ ((v - (16 * a + d) * x) + d * y) % M = v - a * (16 * x)
<1>1. PICK p \in Nat : p = a * (16 * x)
  OBVIOUS
<1>2. PICK q \in Nat : q = d * x
  OBVIOUS
<1>3. (16 * a + d) * x = p + q
  BY <1>1, <1>2
<1>4. p <= v /\ v - p \in 0 .. M - 1
  BY <1>1, <1>2, <1>3
<1>5. (v - p) % M = v - p
  BY <1>4, Remainder
<1>6. CASE y = x
  <2>1. (v - (16 * a + d) * x) + d * y = v - p
    BY <1>1, <1>2, <1>3, <1>6
  <2> QED
    BY <1>1, <1>4, <1>5, <2>1
<1>7. CASE x >= M
  <2>1. 16 * a + d = 0
    <3>1. PICK b \in Nat : b = 16 * a + d
      OBVIOUS
    <3>2. b * x <= v /\ v < x
      BY <1>7, <3>1
    <3>3. \A b1, x1 \in Nat : b1 >= 1 => b1 * x1 >= x1
      <4>1. ASSUME NEW b1 \in Nat, NEW x1 \in Nat, b1 >= 1 PROVE b1 * x1 >= x1
        <5>1. b1 * x1 = x1 + (b1 - 1) * x1
          OBVIOUS
        <5>2. (b1 - 1) * x1 >= 0 /\ (b1 - 1) * x1 \in Int
          BY <4>1
        <5> QED
          BY <5>1, <5>2
      <4> QED
        BY <4>1
    <3>4. ~(b >= 1)
      BY <3>1, <3>2, <3>3
    <3> QED
      BY <3>1, <3>4
  <2>2. a = 0 /\ d = 0
    BY <2>1
  <2>3. p = 0 /\ (16 * a + d) * x = 0 /\ d * y = 0
    BY <1>1, <2>2
  <2> QED
    BY <1>1, <1>4, <1>5, <2>3
<1> QED
  BY <1>6, <1>7

(* A number that fits into an address is the address ParseAddress makes.   *)
LEMMA NumberIsRead ==
  ASSUME Sh!LinesAreText, Sh!BitsMakeDigits, NEW w \in Text, Sh!IsHex(w),
         Sh!HexValue(w) < Sh!Power[Bits]
  PROVE  Sh!ParseAddress(w) = Sh!HexValue(w)
<1>1. PICK n \in Nat : n = Len(w)
  BY DEF Text
<1>2. PICK last \in 0 .. n : last = Sh!LastDigit(w)
  BY <1>1, LastDigitIs
<1>3. PICK first \in 1 .. last : first = Sh!FirstDigit(w)
  BY <1>2, HexIsFound
<1>4. PICK M \in Nat \ {0} : M = Sh!Power[Bits]
  <2>1. Bits \in 0 .. Bits
    BY DEF Sh!BitsMakeDigits
  <2> QED
    BY <2>1, PowerIs
<1>5. PICK number : /\ Sh!HexValue(w) = number[last] /\ number[first - 1] = 0
                    /\ \A k \in first .. last : number[k] = 16 * number[k - 1] + Sh!Digit(w[k])
                    /\ \A k \in first - 1 .. last : number[k] \in Nat
  BY <1>2, <1>3, HexValueIs
<1>6. PICK sum : /\ Sh!ParseAddress(w) = sum[first]
                 /\ \A k \in last + 1 .. n + 1 : sum[k] = 0
                 /\ \A k \in 1 .. last :
                      sum[k] = (sum[k + 1] + Sh!Digit(w[k]) * Sh!Power[Sh!Shift(w, k)]) % M
  BY <1>1, <1>2, <1>3, <1>4, ParseAddressIs
<1>7. PICK W \in [0 .. n -> Nat] :
         /\ W[0] = 1 /\ \A j \in 1 .. n : W[j] = 16 * W[j - 1]
         /\ \A j \in 0 .. n : 4 * j < Bits => W[j] = Sh!Power[4 * j]
         /\ \A j \in 0 .. n : 4 * j >= Bits => W[j] >= M
  BY <1>1, <1>4, Weights
<1>8. first \in Nat /\ last \in Nat /\ first <= last /\ 1 <= first /\ last <= n
  BY <1>1, <1>2, <1>3
<1>9. PICK v \in Nat : v = Sh!HexValue(w) /\ v = number[last] /\ v < M
  <2>1. last \in first - 1 .. last
    BY <1>8
  <2> QED
    BY <1>4, <1>5, <2>1
<1>10. PICK m \in Nat : m = last - first + 1
  BY <1>8
<1> DEFINE Good(i) == /\ number[last - i] * W[i] <= v
                      /\ sum[last + 1 - i] = v - number[last - i] * W[i]
           Done == {i \in 0 .. m : Good(i)}
<1>11. 0 \in Done
  <2>1. last - 0 = last /\ last + 1 - 0 = last + 1 /\ last + 1 \in last + 1 .. n + 1 /\ 0 \in 0 .. m
    BY <1>8, <1>10, <1>1
  <2>2. number[last] * W[0] = v
    BY <1>7, <1>9
  <2>3. sum[last + 1] = 0
    BY <1>6, <2>1
  <2>4. v <= v /\ 0 = v - v
    BY <1>9
  <2> QED
    BY <2>1, <2>2, <2>3, <2>4
<1>12. ASSUME NEW i \in 0 .. m - 1, i \in Done PROVE i + 1 \in Done
  <2>0. /\ last - i \in first .. last /\ last - i \in 1 .. last
        /\ (last - i) - 1 \in first - 1 .. last
        /\ i \in 0 .. n /\ i + 1 \in 1 .. n /\ (i + 1) - 1 = i /\ i + 1 \in 0 .. m
        /\ last + 1 - i = (last - i) + 1 /\ last + 1 - (i + 1) = last - i
        /\ last - (i + 1) = (last - i) - 1 /\ last - (last - i) = i
    BY <1>1, <1>8, <1>10
  <2>1. PICK k \in first .. last : k = last - i
    BY <2>0
  <2>2. PICK a \in Nat : a = number[k - 1]
    BY <1>5, <2>0, <2>1
  <2>3. PICK d \in Nat : d = Sh!Digit(w[k])
    <3>1. w[k] \in Sh!HexDigit
      BY <1>2, <1>3, <2>1, HexIsFound
    <3>2. Sh!Digit(w[k]) \in 0 .. 15
      BY <3>1, HexDigitIs
    <3> QED
      BY <3>2
  <2>4. PICK x \in Nat : x = W[i] /\ W[i + 1] = 16 * x
    BY <1>7, <2>0
  <2>5. PICK y \in Nat : y = Sh!Power[Sh!Shift(w, k)] /\ (y = x \/ x >= M)
    <3>1. Bits \in Nat \ {0}
      BY DEF Sh!BitsMakeDigits
    <3>2. Sh!Shift(w, k) = (4 * i) % Bits
      BY <1>2, <2>0, <2>1 DEF Sh!Shift
    <3>3. (4 * i) % Bits \in 0 .. Bits - 1 /\ 4 * i \in Nat
      <4>1. 4 * i \in Nat /\ 4 * i \in Int
        BY <1>1, <2>0
      <4> QED
        BY <3>1, <4>1, Remainder
    <3>4. Sh!Power[Sh!Shift(w, k)] \in Nat
      <4>1. Sh!Shift(w, k) \in 0 .. Bits
        BY <3>1, <3>2, <3>3
      <4> QED
        BY <4>1, PowerIs
    <3>5. CASE 4 * i < Bits
      <4>1. 4 * i \in 0 .. Bits - 1
        BY <3>1, <3>3, <3>5
      <4>2. Sh!Shift(w, k) = 4 * i
        BY <3>1, <3>2, <4>1, Remainder
      <4>3. x = Sh!Power[4 * i]
        BY <1>7, <2>0, <2>4, <3>5
      <4> QED
        BY <3>4, <4>2, <4>3
    <3>6. CASE 4 * i >= Bits
      <4>1. x >= M
        BY <1>7, <2>0, <2>4, <3>6
      <4> QED
        BY <3>4, <4>1
    <3> QED
      BY <3>1, <3>3, <3>5, <3>6
  <2>6. number[k] = 16 * a + d
    BY <1>5, <2>1, <2>2, <2>3
  <2>7. number[last - i] * W[i] <= v /\ sum[last + 1 - i] = v - number[last - i] * W[i]
    BY <1>12
  <2>8. (16 * a + d) * x <= v /\ sum[k + 1] = v - (16 * a + d) * x
    BY <2>0, <2>1, <2>4, <2>6, <2>7
  <2>9. sum[k] = (sum[k + 1] + d * y) % M
    BY <1>6, <2>0, <2>1, <2>3, <2>5
  <2>10. /\ a * (16 * x) <= v
         /\ ((v - (16 * a + d) * x) + d * y) % M = v - a * (16 * x)
    <3>1. /\ a \in Nat /\ d \in Nat /\ x \in Nat /\ y \in Nat /\ v \in Nat /\ M \in Nat \ {0}
          /\ v < M /\ (16 * a + d) * x <= v /\ (y = x \/ x >= M)
      BY <1>4, <1>9, <2>2, <2>3, <2>4, <2>5, <2>8
    <3> QED
      BY <3>1, OneDigit
  <2>11. sum[k] = v - a * (16 * x)
    BY <2>8, <2>9, <2>10
  <2>12. Good(i + 1)
    BY <2>0, <2>1, <2>2, <2>4, <2>10, <2>11
  <2> HIDE DEF Good
  <2> QED
    BY <2>0, <2>12
<1>13. \A i \in 0 .. m : i \in Done
  <2>1. m \in Nat
    BY <1>10
  <2> HIDE DEF Done
  <2> QED
    BY <1>11, <1>12, <2>1, Upwards
<1>14. Good(m)
  <2>1. m \in 0 .. m
    BY <1>10
  <2> HIDE DEF Good
  <2> QED
    BY <1>13, <2>1
<1>15. last - m = first - 1 /\ last + 1 - m = first /\ m \in 0 .. n
  BY <1>1, <1>8, <1>10
<1>16. sum[first] = v - 0 * W[m]
  BY <1>5, <1>14, <1>15
<1>17. W[m] \in Nat
  BY <1>7, <1>15
<1>18. sum[first] = v
  BY <1>9, <1>16, <1>17
<1> QED
  BY <1>6, <1>9, <1>18

-----------------------------------------------------------------------------
(* What pars_input leaves when it has read a line, and the invariant.      *)
Parsed ==
  /\ command = Sh!CommandOf(input)
  /\ argv_state = "live" <=> ~Sh!IsBare(input)
  /\ ~Sh!IsBare(input) =>
       /\ argc = Len(Sh!Counted(input)) /\ argv = Sh!Copied(input)
       /\ spilled = (Sh!Stored(Sh!Copied(input)) > Sh!Stored(Sh!Counted(input)))

Dumped ==
  /\ command \in {Sh!commands[2], Sh!commands[3]}
  /\ argv_state = "live" /\ Sh!HasDigits(argv[1]) => address = Sh!ParseAddress(argv[1])

ShellInv ==
  /\ Sh!TypeOK
  /\ argv_state = "wild" => argc = 0
  /\ did # "nothing" => pc \in {"release", "prompt"}
  /\ did = "dump" => argc = 1
  /\ pc \in {"prompt", "parse"} => argv_state # "live"
  /\ pc \in {"run", "release"} => Parsed
  /\ pc = "release" /\ did = "dump" => Dumped

(* A line, the empty one included, is a text.                              *)
LEMMA InputIsText ==
  ASSUME Sh!LinesAreText, NEW s \in Lines \cup {<<>>}
  PROVE  s \in Text
<1>1. <<>> \in Seq(DOMAIN Code)
  BY EmptySeq
<1> QED
  BY <1>1 DEF Sh!LinesAreText, Text

(* An address that is read from a word is one.                             *)
LEMMA AddressType ==
  ASSUME Sh!LinesAreText, Sh!BitsMakeDigits, NEW w \in Text, Sh!HasDigits(w)
  PROVE  Sh!ParseAddress(w) \in 0 .. Sh!Power[Bits] - 1
<1>1. Len(w) \in Nat /\ Sh!LastDigit(w) \in 0 .. Len(w)
  BY LastDigitIs DEF Text
<1>2. Sh!FirstDigit(w) \in {1, 3} /\ Sh!FirstDigit(w) <= Sh!LastDigit(w)
  BY DEF Sh!HasDigits, Sh!FirstDigit
<1>3. Sh!FirstDigit(w) \in 1 .. Len(w) + 1
  BY <1>1, <1>2
<1> QED
  BY <1>3, ParseAddressIs

(* The shell starts in the invariant.                                      *)
LEMMA ShellStart ==
  ASSUME Sh!LinesAreText, Sh!BitsMakeDigits
  PROVE  Sh!Init => ShellInv
<1> SUFFICES ASSUME Sh!Init PROVE ShellInv
  OBVIOUS
<1>1. Bits \in 0 .. Bits
  BY DEF Sh!BitsMakeDigits
<1>2. 0 \in 0 .. Sh!Power[Bits] - 1
  BY <1>1, PowerIs
<1>3. <<>> \in Sh!Word /\ <<>> \in Seq(Sh!Word) /\ 0 <= Len(<<>>)
  BY EmptySeq DEF Sh!Word
<1>4. Sh!TypeOK
  BY <1>2, <1>3 DEF Sh!Init, Sh!TypeOK
<1> QED
  BY <1>4 DEF Sh!Init, ShellInv

(* A new line keeps it: nothing is live at the prompt.                     *)
LEMMA ReadLineKeeps ==
  ASSUME Sh!LinesAreText, Sh!BitsMakeDigits, ShellInv, NEW l \in Lines, Sh!ReadLine(l)
  PROVE  ShellInv'
<1>1. Bits \in 0 .. Bits
  BY DEF Sh!BitsMakeDigits
<1>2. 0 \in 0 .. Sh!Power[Bits] - 1
  BY <1>1, PowerIs
<1>3. Sh!TypeOK'
  BY <1>2 DEF ShellInv, Sh!ReadLine, Sh!TypeOK
<1> QED
  BY <1>3 DEF ShellInv, Sh!ReadLine

(* The early return keeps it: argv stays freed or wild.                    *)
LEMMA ParseBareKeeps ==
  ASSUME Sh!LinesAreText, ShellInv, Sh!ParseBare
  PROVE  ShellInv'
<1>1. input \in Text
  BY InputIsText DEF ShellInv, Sh!TypeOK
<1>2. Sh!CommandOf(input) \in Sh!Word
  BY <1>1, CommandIs DEF Text, Sh!Word
<1>3. Sh!TypeOK'
  BY <1>2 DEF ShellInv, Sh!ParseBare, Sh!TypeOK
<1>4. Parsed'
  BY DEF ShellInv, Sh!ParseBare, Parsed
<1> QED
  BY <1>3, <1>4 DEF ShellInv, Sh!ParseBare

(* Splitting a line fills argv with as many words as argc says.            *)
LEMMA ParseArgsKeeps ==
  ASSUME Sh!LinesAreText, ShellInv, Sh!ParseArgs
  PROVE  ShellInv'
<1>1. input \in Text
  BY InputIsText DEF ShellInv, Sh!TypeOK
<1>2. Sh!CommandOf(input) \in Sh!Word
  BY <1>1, CommandIs DEF Text, Sh!Word
<1>3. /\ Sh!Copied(input) \in Seq(Sh!Word) /\ Sh!Counted(input) \in Seq(Sh!Word)
      /\ Len(Sh!Copied(input)) = Len(Sh!Counted(input))
  BY <1>1, CopiedIs DEF Text, Sh!Word
<1>4. Len(Sh!Counted(input)) \in Nat /\ Len(Sh!Counted(input)) <= Len(Sh!Copied(input))
  BY <1>3
<1>5. spilled' \in BOOLEAN
  BY DEF Sh!ParseArgs
<1>6. Sh!TypeOK'
  BY <1>2, <1>3, <1>4, <1>5 DEF ShellInv, Sh!ParseArgs, Sh!TypeOK
<1>7. Parsed'
  BY DEF ShellInv, Sh!ParseArgs, Parsed
<1> QED
  BY <1>6, <1>7 DEF ShellInv, Sh!ParseArgs

(* A command that only prints keeps it.                                    *)
LEMMA SaysKeeps ==
  ASSUME ShellInv, NEW what \in {"help", "invalid", "complain"}, Sh!Says(what)
  PROVE  ShellInv'
<1>1. Sh!TypeOK'
  BY DEF ShellInv, Sh!Says, Sh!TypeOK
<1>2. Parsed'
  BY DEF ShellInv, Sh!Says, Parsed
<1> QED
  BY <1>1, <1>2 DEF ShellInv, Sh!Says

(* A dump has one word, and its address is read from that word.            *)
LEMMA DumpsKeeps ==
  ASSUME Sh!LinesAreText, Sh!BitsMakeDigits, ShellInv, Sh!Dumps,
         command \in {Sh!commands[2], Sh!commands[3]}
  PROVE  ShellInv'
<1>1. argc = 1 /\ argv \in Seq(Text) /\ argc <= Len(argv)
  BY DEF ShellInv, Sh!TypeOK, Sh!Dumps, Sh!TakesOneValue, Text, Sh!Word
<1>2. argv[1] \in Text
  BY <1>1
<1>3. address' \in (0 .. Sh!Power[Bits] - 1) \cup {Garbage}
  <2>1. CASE argv_state = "live" /\ Sh!HasDigits(argv[1])
    BY <1>2, <2>1, AddressType DEF Sh!Dumps
  <2>2. CASE ~(argv_state = "live" /\ Sh!HasDigits(argv[1]))
    BY <2>2 DEF Sh!Dumps
  <2> QED
    BY <2>1, <2>2
<1>4. Sh!TypeOK'
  BY <1>3 DEF ShellInv, Sh!Dumps, Sh!TypeOK
<1>5. Parsed'
  BY DEF ShellInv, Sh!Dumps, Parsed
<1>6. Dumped'
  BY DEF Sh!Dumps, Dumped
<1> QED
  BY <1>1, <1>4, <1>5, <1>6 DEF ShellInv, Sh!Dumps

(* Behind the release nothing is live.                                     *)
LEMMA ReleaseKeeps ==
  ASSUME ShellInv, Sh!Release
  PROVE  ShellInv'
<1>1. Sh!TypeOK'
  BY DEF ShellInv, Sh!Release, Sh!TypeOK
<1> QED
  BY <1>1 DEF ShellInv, Sh!Release, Sh!TypeOK

(* Every step keeps the invariant.                                         *)
LEMMA ShellStep ==
  ASSUME Sh!LinesAreText, Sh!BitsMakeDigits
  PROVE  ShellInv /\ [Sh!Next]_(Sh!vars) => ShellInv'
<1> SUFFICES ASSUME ShellInv, [Sh!Next]_(Sh!vars) PROVE ShellInv'
  OBVIOUS
<1>1. CASE Sh!Help \/ Sh!Invalid
  BY <1>1, SaysKeeps DEF Sh!Help, Sh!Invalid
<1>2. CASE Sh!physdump \/ Sh!virtdump
  <2>1. command \in {Sh!commands[2], Sh!commands[3]} /\ (Sh!Complains \/ Sh!Dumps)
    BY <1>2 DEF Sh!physdump, Sh!virtdump
  <2> QED
    BY <2>1, SaysKeeps, DumpsKeeps DEF Sh!Complains
<1>3. CASE UNCHANGED Sh!vars
  <2>1. Sh!TypeOK'
    BY <1>3 DEF ShellInv, Sh!vars, Sh!TypeOK
  <2>2. Parsed' = Parsed /\ Dumped' = Dumped
    BY <1>3 DEF Sh!vars, Parsed, Dumped
  <2> QED
    BY <1>3, <2>1, <2>2 DEF ShellInv, Sh!vars
<1> QED
  BY <1>1, <1>2, <1>3, ReadLineKeeps, ParseBareKeeps, ParseArgsKeeps, ReleaseKeeps
     DEF Sh!Next, Sh!do_command

(* What the invariant says of a dump.                                      *)
LEMMA StaleFollows ==
  ASSUME Sh!LinesAreText, ShellInv
  PROVE  Sh!StaleOnlyWhenBare
<1> SUFFICES ASSUME did = "dump"
             PROVE  /\ argv_state # "wild"
                    /\ pc = "release" /\ argv_state = "freed" => Len(Sh!Words(input)) = 1
  BY DEF Sh!StaleOnlyWhenBare
<1>1. argv_state # "wild"
  BY DEF ShellInv
<1>2. ASSUME pc = "release", argv_state = "freed" PROVE Len(Sh!Words(input)) = 1
  <2>1. Parsed /\ Dumped /\ input \in Text
    BY <1>2, InputIsText DEF ShellInv, Sh!TypeOK
  <2>2. Sh!IsBare(input) /\ command = Sh!CommandOf(input)
    BY <1>2, <2>1 DEF Parsed
  <2>3. command # <<>>
    <3>1. Len(Sh!commands[2]) = 2 /\ Len(Sh!commands[3]) = 2
      BY DEF Sh!commands
    <3>2. Len(command) = 2
      BY <2>1, <3>1 DEF Dumped
    <3>3. Len(<<>>) = 0
      OBVIOUS
    <3> QED
      BY <3>2, <3>3
  <2> QED
    BY <2>1, <2>2, <2>3, BareIsOneWord
<1> QED
  BY <1>1, <1>2

(* What it says of a line that begins with its command.                    *)
LEMMA TypedFollows ==
  ASSUME Sh!LinesAreText, Sh!BitsMakeDigits, ShellInv
  PROVE  Sh!RunsWhatWasTyped
<1>1. Sh!TypeOK
  BY DEF ShellInv
<1>2. ASSUME pc = "release", Sh!Plain(input), ~Sh!IsBare(input)
      PROVE  /\ <<command>> \o argv = Sh!Words(input)
             /\ argc = Len(Sh!Words(input)) - 1
             /\ ~spilled
             /\ did = "dump" /\ Sh!IsHex(argv[1]) /\ Sh!HexValue(argv[1]) < Sh!Power[Bits] =>
                  address = Sh!HexValue(argv[1])
  <2>1. Parsed /\ input \in Text
    BY <1>2, InputIsText DEF ShellInv, Sh!TypeOK
  <2>2. /\ command = Sh!CommandOf(input) /\ argv_state = "live"
        /\ argc = Len(Sh!Counted(input)) /\ argv = Sh!Copied(input)
        /\ spilled = (Sh!Stored(Sh!Copied(input)) > Sh!Stored(Sh!Counted(input)))
    BY <1>2, <2>1 DEF Parsed
  <2>3. /\ Sh!Copied(input) = Sh!Counted(input)
        /\ <<Sh!CommandOf(input)>> \o Sh!Copied(input) = Sh!Words(input)
        /\ Len(Sh!Counted(input)) = Len(Sh!Words(input)) - 1
    BY <1>2, <2>1, PlainIsSplit
  <2>4. ~spilled
    <3>1. Sh!Stored(Sh!Counted(input)) \in Int
      BY <2>1, CopiedIs, StoredType
    <3>2. ~(Sh!Stored(Sh!Counted(input)) > Sh!Stored(Sh!Counted(input)))
      BY <3>1
    <3> QED
      BY <2>2, <2>3, <3>2
  <2>5. ASSUME did = "dump", Sh!IsHex(argv[1]), Sh!HexValue(argv[1]) < Sh!Power[Bits]
        PROVE  address = Sh!HexValue(argv[1])
    <3>1. argc = 1 /\ argv \in Seq(Text) /\ argc <= Len(argv) /\ Dumped
      BY <1>2, <2>5 DEF ShellInv, Sh!TypeOK, Text, Sh!Word
    <3>2. argv[1] \in Text
      BY <3>1
    <3>3. address = Sh!ParseAddress(argv[1])
      BY <2>2, <2>5, <3>1, <3>2, HexIsFound DEF Dumped
    <3> QED
      BY <2>5, <3>2, <3>3, NumberIsRead
  <2> QED
    BY <2>2, <2>3, <2>4, <2>5
<1> QED
  BY <1>1, <1>2 DEF Sh!RunsWhatWasTyped

(* However lines follow each other, argv is read only when some line has   *)
(* set it, and from freed memory only for a line without arguments         *)
(* (shell.c:204 and 249-250).                                              *)
THEOREM ShellStaleOnlyWhenBare == ShellSpec => []StaleOnlyWhenBare
<1>1. Sh!Init => ShellInv
  BY ShellStart, LinesAssumption, BitsAssumption
<1>2. ShellInv /\ [Sh!Next]_(Sh!vars) => ShellInv'
  BY ShellStep, LinesAssumption, BitsAssumption
<1>3. ShellInv => StaleOnlyWhenBare
  BY StaleFollows, LinesAssumption DEF StaleOnlyWhenBare
<1> QED
  BY <1>1, <1>2, <1>3, PTL DEF ShellSpec, Sh!Spec

(* For a line that begins with its command and has something behind it,    *)
(* do_command gets the words that were typed, the block of argv takes them *)
(* in, and a dump starts at the number that was typed (shell.c:24-64,      *)
(* 104-144 and 195-231).                                                   *)
THEOREM ShellRunsWhatWasTyped == ShellSpec => []RunsWhatWasTyped
<1>1. Sh!Init => ShellInv
  BY ShellStart, LinesAssumption, BitsAssumption
<1>2. ShellInv /\ [Sh!Next]_(Sh!vars) => ShellInv'
  BY ShellStep, LinesAssumption, BitsAssumption
<1>3. ShellInv => RunsWhatWasTyped
  BY TypedFollows, LinesAssumption, BitsAssumption DEF RunsWhatWasTyped
<1> QED
  BY <1>1, <1>2, <1>3, PTL DEF ShellSpec, Sh!Spec

=============================================================================
