----------------------------- MODULE LineEditor -----------------------------
(***************************************************************************)
(* What in_string of kernel/tty.c promises its caller: the line that comes *)
(* back is what was typed, less what was erased.                           *)
(***************************************************************************)
EXTENDS Integers, Sequences

CONSTANTS Glyph      \* printable characters

VARIABLES line,      \* the line so far
          reading,   \* a call is in progress
          answer     \* the line the last call returned, until the next call

vars == <<line, reading, answer>>

Init == line = <<>> /\ reading = FALSE /\ answer = <<>>

Start ==
  /\ ~reading
  /\ reading' = TRUE
  /\ line' = <<>>
  /\ answer' = <<>>

Type(c) ==
  /\ reading
  /\ line' = Append(line, c)
  /\ UNCHANGED <<reading, answer>>

Erase ==
  /\ reading
  /\ line # <<>>
  /\ line' = SubSeq(line, 1, Len(line) - 1)
  /\ UNCHANGED <<reading, answer>>

Submit ==
  /\ reading
  /\ reading' = FALSE
  /\ answer' = line
  /\ line' = <<>>

Next == Start \/ (\E c \in Glyph : Type(c)) \/ Erase \/ Submit

Spec == Init /\ [][Next]_vars

=============================================================================
