------------------------------ MODULE KeyInput ------------------------------
(***************************************************************************)
(* in_char of kernel/tty.c: scancodes, taken from the keyboard buffer,     *)
(* become characters.                                                      *)
(*                                                                         *)
(* The buffer is KeyQueue, which KeyBuffer implements.  A scancode is a    *)
(* key and whether it goes up (bit 0x80).  The tables of scancodes.h map a *)
(* letter to one of two characters, and every other key, and the code 0,   *)
(* to no character.                                                        *)
(***************************************************************************)
EXTENDS Integers, Sequences

CONSTANTS Size,            \* slots of the buffer
          Letter, Other,   \* keys with and without a character
          LeftShift, RightShift,
          NoCode           \* 0: no scancode, no character

Shift == {LeftShift, RightShift}
Key == Letter \cup Other \cup Shift
Code == [key : Key, up : BOOLEAN]

VARIABLES queue, out,      \* of KeyQueue
          down,            \* keys that are held down
          expected,        \* history: letters pressed and not yet read
          lost,            \* history: the buffer has overrun
          reading, wait, shift, chr,
          meant            \* history: what the typist meant by chr

Buffer == INSTANCE KeyQueue

in == <<reading, wait, shift, chr, meant>>
vars == <<queue, out, down, expected, lost, in>>

Init ==
  /\ Buffer!Init
  /\ down = {} /\ expected = <<>> /\ lost = FALSE
  /\ reading = FALSE /\ wait = FALSE /\ shift = FALSE
  /\ chr = NoCode /\ meant = NoCode

-----------------------------------------------------------------------------
(* The typist.  A key that is held down repeats its code.                  *)

Sends(code) ==
  \/ Buffer!Press(code) /\ UNCHANGED lost
  \/ Buffer!Overrun(code) /\ lost' = TRUE

Press(k) ==
  /\ Sends([key |-> k, up |-> FALSE])
  /\ down' = down \cup {k}
  /\ expected' = IF k \in Letter
                 THEN Append(expected, [key |-> k, shifted |-> down \cap Shift # {}])
                 ELSE expected
  /\ UNCHANGED in

Release(k) ==
  /\ k \in down
  /\ Sends([key |-> k, up |-> TRUE])
  /\ down' = down \ {k}
  /\ UNCHANGED <<expected, in>>

-----------------------------------------------------------------------------
(* in_char                                                                 *)

(* shift is a local variable: every call begins without it.                *)
Call(w) ==
  /\ ~reading
  /\ reading' = TRUE /\ wait' = w
  /\ shift' = FALSE
  /\ UNCHANGED <<queue, out, down, expected, lost, chr, meant>>

(* Mutant of ShiftAfter: the codes of a shift key going up are not seen.   *)
ShiftSticks(code) == shift \/ (code # NoCode /\ code.key \in Shift)

ShiftAfter(code) ==
  IF code # NoCode /\ code.key \in Shift THEN ~code.up ELSE shift

Translated(code, shifted) ==
  IF code # NoCode /\ code.key \in Letter /\ ~code.up
  THEN [key |-> code.key, shifted |-> shifted] ELSE NoCode

(* One iteration of the loop.                                              *)
Iterate ==
  /\ reading
  /\ Buffer!Take \/ Buffer!FindNone
  /\ shift' = ShiftAfter(out')
  /\ chr' = Translated(out', shift')
  /\ reading' = (wait /\ chr' = NoCode)
  /\ IF chr' = NoCode \/ expected = <<>>
     THEN meant' = NoCode /\ UNCHANGED expected
     ELSE meant' = Head(expected) /\ expected' = Tail(expected)
  /\ UNCHANGED <<down, lost, wait>>

Next ==
  \/ ~lost /\ \E k \in Key : Press(k) \/ Release(k)
  \/ \E w \in BOOLEAN : Call(w)
  \/ Iterate

Spec == Init /\ [][Next]_vars

-----------------------------------------------------------------------------
(* Properties                                                              *)

(* Until the buffer overruns, in_char returns the letters in the order     *)
(* they were pressed, each once for each press, and nothing else, whether  *)
(* it waits or not.  A letter is shifted only when a shift key was held as *)
(* it was pressed, with either key, in any order of going down and up; the *)
(* converse does not hold, since shift is forgotten between calls          *)
(* (tty.c:176-199).                                                        *)
LettersAsTyped ==
  ~lost /\ chr # NoCode =>
    meant # NoCode /\ chr.key = meant.key /\ (chr.shifted => meant.shifted)

=============================================================================
