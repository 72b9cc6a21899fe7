----------------------------- MODULE MCConsole -----------------------------
(***************************************************************************)
(* The two halves of tty.c in one run: Console, whose in_string takes      *)
(* characters, and KeyInput, whose in_char makes them from the codes of    *)
(* the keyboard.  They share no state, so a behaviour is one of the one    *)
(* or of the other.                                                        *)
(***************************************************************************)
EXTENDS Console

CONSTANTS KEY_BUFFER_SIZE, Letter, Other, LeftShift, RightShift, NoCode

VARIABLES half,    \* which of the two runs
          queue, out, down, expected, overrun, in_call, wait, shift, chr, meant

typing == <<queue, out, down, expected, overrun, in_call, wait, shift, chr, meant>>

Typing ==
  INSTANCE KeyInput WITH Size <- KEY_BUFFER_SIZE, lost <- overrun, reading <- in_call

(* A key has a character or none, the code 0 is no key's and the character *)
(* 0 no letter's.                                                          *)
ASSUME KeyAssumption ==
  /\ KEY_BUFFER_SIZE \in Nat \ {0, 1}
  /\ Letter \cap (Other \cup {LeftShift, RightShift}) = {}
  /\ NoCode \notin Typing!Code \cup [key : Letter, shifted : BOOLEAN]

MCInit == half \in {"in_string", "in_char"} /\ Init /\ Typing!Init

MCNext ==
  \/ half = "in_string" /\ Next /\ UNCHANGED <<half, typing>>
  \/ half = "in_char" /\ Typing!Next /\ UNCHANGED <<half, vars>>

MCSpec == MCInit /\ [][MCNext]_<<half, vars, typing>>

(* As in KeyInput: in_char returns the letters in the order of the presses *)
(* and shifts only those typed with a shift key down, until the buffer     *)
(* overruns (tty.c:176-199).                                               *)
LettersAsTyped == Typing!LettersAsTyped

=============================================================================
