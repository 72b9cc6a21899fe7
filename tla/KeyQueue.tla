------------------------------ MODULE KeyQueue ------------------------------
(***************************************************************************)
(* What the keyboard buffer of kernel/tty.c promises: scancodes come out   *)
(* in the order they went in, each at most once, and none is lost before   *)
(* Size - 1 of them are waiting.  When more come, all that wait are lost   *)
(* at once.                                                                *)
(***************************************************************************)
EXTENDS Integers, Sequences

CONSTANTS Size,    \* slots of the buffer
          Code,    \* scancodes
          NoCode   \* the answer "no key"

VARIABLES queue,   \* scancodes waiting, the oldest first
          out      \* the last answer to a reader

vars == <<queue, out>>

Init == queue = <<>> /\ out = NoCode

Press(k) ==
  /\ Len(queue) < Size
  /\ queue' = Append(queue, k)
  /\ UNCHANGED out

(* One code too many: only the new one may survive.                        *)
Overrun(k) ==
  /\ Len(queue) >= Size - 1
  /\ queue' \in {<<>>, <<k>>}
  /\ UNCHANGED out

Take ==
  /\ queue # <<>>
  /\ out' = Head(queue)
  /\ queue' = Tail(queue)

FindNone ==
  /\ queue = <<>>
  /\ out' = NoCode
  /\ UNCHANGED queue

Next == (\E k \in Code : Press(k) \/ Overrun(k)) \/ Take \/ FindNone

(* A reader that keeps asking gets what is waiting.                        *)
Spec == Init /\ [][Next]_vars /\ WF_vars(Take)

=============================================================================
