------------------------------ MODULE Console -------------------------------
(***************************************************************************)
(* The text console of kernel/tty.c: the screen (out_char, move_cursor,    *)
(* clear_screen) and the line editor in_string that draws on it.           *)
(*                                                                         *)
(* A cell holds a character; its colour is left out.  One iteration of     *)
(* in_string, from a key to the next, is one action.  kmalloc is taken to  *)
(* succeed: in_string does not look.                                       *)
(***************************************************************************)
EXTENDS Integers, Sequences

CONSTANTS
  tty_width, tty_height,
  FirstSize,    \* size of the first line buffer, 16 in the code
  UIntRange,    \* number of unsigned ints, 2^32 in the code
  Glyph,        \* printable characters
  Blank,        \* ' '
  Zero,         \* the character 0, which ends a string and is drawn by erasing
  Junk,         \* what a fresh heap block happens to hold
  MaxLine       \* bound: the longest line typed

Size == tty_width * tty_height
LastRow == (tty_height - 1) * tty_width
Cell == 0 .. Size - 1

ASSUME ScreenAssumption ==
  /\ tty_width \in Nat \ {0}
  /\ tty_height \in Nat \ {0}
  /\ UIntRange \in Nat
  /\ Size < UIntRange
ASSUME FirstSizeAssumption == FirstSize \in Nat \ {0}
ASSUME MaxLineAssumption == MaxLine \in Nat
ASSUME CharAssumption == {Blank, Zero, Junk} \cap Glyph = {} /\ Zero # Junk

VARIABLES
  tty,           \* the screen: its cells (tty_buffer) and the cursor
  reading,       \* in_string is running
  buffer,        \* its heap block: offsets 0 .. buffer_size - 1
  buffer_size,
  position,
  lost           \* history: erasing this line stepped back from cell 0

vars == <<tty, reading, buffer, buffer_size, position, lost>>

-----------------------------------------------------------------------------
(* The screen                                                              *)

(* All rows move up by one and the last is blank.  The copy also reads one *)
(* row behind the screen (tty.c:85), which the blanks replace.             *)
Scrolled(cell) ==
  [p \in Cell |-> IF p < LastRow THEN cell[p + tty_width] ELSE Blank]

move_cursor(t, pos) ==
  IF pos >= Size
  THEN [cell |-> Scrolled(t.cell), cursor |-> LastRow]
  ELSE [t EXCEPT !.cursor = pos]

(* The cursor is unsigned: one less than 0 is the largest number.          *)
StepBack(t) == move_cursor(t, (t.cursor - 1) % UIntRange)

out_newline(t) == move_cursor(t, (t.cursor \div tty_width + 1) * tty_width)
out_char(t, c) == move_cursor([t EXCEPT !.cell[t.cursor] = c], t.cursor + 1)

clear_screen(t) == move_cursor([t EXCEPT !.cell = [p \in Cell |-> Blank]], 0)

-----------------------------------------------------------------------------

(* kernel_main clears the screen once the console is initialised.          *)
Init ==
  /\ tty = [cell |-> [p \in Cell |-> Blank], cursor |-> 0]
  /\ reading = FALSE
  /\ buffer = [p \in {0} |-> Zero] /\ buffer_size = 1
  /\ position = 0
  /\ lost = FALSE

(* Between lines the shell prints, and clears the screen when it starts.   *)
Prints ==
  /\ ~reading
  /\ \/ \E c \in Glyph : tty' = out_char(tty, c)
     \/ tty' = out_newline(tty)
     \/ tty' = clear_screen(tty)
  /\ UNCHANGED <<reading, buffer, buffer_size, position, lost>>

(* in_string                                                               *)

StartLine ==
  /\ ~reading
  /\ reading' = TRUE
  /\ buffer_size' = FirstSize
  /\ buffer' = [p \in 0 .. FirstSize - 1 |-> Junk]
  /\ position' = 0
  /\ lost' = FALSE
  /\ UNCHANGED tty

(* Mutant of IsFull: off by one.                                           *)
IsOverfull == position = buffer_size

(* Only the place of the final 0 is left: the line moves to a block twice  *)
(* as large.                                                               *)
IsFull == position = buffer_size - 1
GrownSize == IF IsFull THEN 2 * buffer_size ELSE buffer_size

(* Mutant of Grown: the last copied word is missed.                        *)
GrownShort ==
  [p \in 0 .. GrownSize - 1 |->
     IF p < buffer_size /\ (IsFull => p < position - 1) THEN buffer[p] ELSE Junk]

Grown ==
  [p \in 0 .. GrownSize - 1 |-> IF p < buffer_size THEN buffer[p] ELSE Junk]

TypeChar(c) ==
  /\ reading
  /\ position < MaxLine
  /\ buffer_size' = GrownSize
  /\ buffer' = [Grown EXCEPT ![position] = c]
  /\ position' = position + 1
  /\ tty' = out_char(tty, c)
  /\ UNCHANGED <<reading, lost>>

(* Mutant of Erased: drawing over the character moves the cursor again.    *)
ErasedAhead(t) == out_char(StepBack(t), Zero)

Erased(t) == StepBack(out_char(StepBack(t), Zero))

Backspace ==
  /\ reading
  /\ IF position > 0
     THEN /\ position' = position - 1
          /\ tty' = Erased(tty)
          /\ lost' = (lost \/ tty.cursor = 0)
     ELSE UNCHANGED <<position, tty, lost>>
  /\ UNCHANGED <<reading, buffer, buffer_size>>

Enter ==
  /\ reading
  /\ tty' = out_newline(tty)
  /\ buffer' = [buffer EXCEPT ![position] = Zero]
  /\ reading' = FALSE
  /\ UNCHANGED <<buffer_size, position, lost>>

in_string == StartLine \/ (\E c \in Glyph : TypeChar(c)) \/ Backspace \/ Enter

Next == Prints \/ in_string

Spec == Init /\ [][Next]_vars

-----------------------------------------------------------------------------
(* Properties                                                              *)

(* The cursor stays on the screen, and the position inside the block with  *)
(* room for the final 0, so that in_string never stores behind its block   *)
(* (tty.c:81-92 and 228-241).                                              *)
TypeOK ==
  /\ tty \in [cell : [Cell -> Glyph \cup {Blank, Zero}], cursor : Cell]
  /\ reading \in BOOLEAN
  /\ buffer_size \in Nat \ {0}
  /\ buffer \in [0 .. buffer_size - 1 -> Glyph \cup {Zero, Junk}]
  /\ position \in 0 .. buffer_size - 1
  /\ lost \in BOOLEAN

(* What stands before the cursor is what the caller will get: through      *)
(* scrolling, erasing over the start of a row and moving to a larger       *)
(* block, the cells before the cursor and the end of the buffer agree.     *)
(* Only when the start of the line has scrolled off the top and all that   *)
(* is left of it on the screen has been erased does the cursor wrap below  *)
(* 0 (tty.c:52-92 and 208-240).                                            *)
OnScreen ==
  reading /\ ~lost =>
    \A i \in 1 .. position :
      i <= tty.cursor => tty.cell[tty.cursor - i] = buffer[position - i]

(* The string a caller sees in the block: up to the first 0.               *)
CString ==
  LET n == CHOOSE n \in 0 .. buffer_size - 1 :
             buffer[n] = Zero /\ \A m \in 0 .. n - 1 : buffer[m] # Zero
  IN [i \in 1 .. n |-> buffer[i - 1]]

(* in_string is a line editor: it returns what was typed less what was     *)
(* erased, whatever erased characters and junk its block holds behind the  *)
(* end, and however often it grew (tty.c:202-243).                         *)
Editor == INSTANCE LineEditor WITH
  line <- IF reading THEN [i \in 1 .. position |-> buffer[i - 1]] ELSE <<>>,
  answer <- IF reading THEN <<>> ELSE CString

IsLineEditor == Editor!Spec

=============================================================================
