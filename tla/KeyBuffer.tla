----------------------------- MODULE KeyBuffer ------------------------------
(***************************************************************************)
(* The keyboard ring buffer of kernel/tty.c, shared by the interrupt       *)
(* handler keyboard_int_handler and the reader in_scancode.                *)
(*                                                                         *)
(* The handler enters through an interrupt gate and runs to its end; it    *)
(* can come between any two accesses of the reader, which takes no lock    *)
(* and does not mask interrupts.  So a reader's call is four actions.      *)
(***************************************************************************)
EXTENDS Integers, Sequences

CONSTANTS KEY_BUFFER_SIZE,
          Code,     \* scancodes the keyboard sends
          NoCode    \* 0, the answer "no key"

ASSUME SizeAssumption == KEY_BUFFER_SIZE \in Nat \ {0, 1}
ASSUME CodeAssumption == NoCode \notin Code

VARIABLES
  key_buffer,
  key_buffer_head,   \* slots the reader has taken, 0 .. KEY_BUFFER_SIZE
  key_buffer_tail,   \* slots the handler has filled, 0 .. KEY_BUFFER_SIZE
  pc,                \* where in_scancode is
  result             \* its result

vars == <<key_buffer, key_buffer_head, key_buffer_tail, pc, result>>

Slot == 0 .. KEY_BUFFER_SIZE - 1

(* The buffer is static storage; init_tty resets both counters.            *)
Init ==
  /\ key_buffer = [s \in Slot |-> NoCode]
  /\ key_buffer_head = 0
  /\ key_buffer_tail = 0
  /\ pc = "idle"
  /\ result = NoCode

(* A counter that has reached the end starts over before it is used.       *)
Wrapped(counter) == IF counter >= KEY_BUFFER_SIZE THEN 0 ELSE counter

-----------------------------------------------------------------------------

(* Mutant of keyboard_int_handler: the counter wraps after the store       *)
(* instead of before it.                                                   *)
handler_wraps_after(k) ==
  /\ key_buffer' = [key_buffer EXCEPT ![key_buffer_tail] = k]
  /\ key_buffer_tail' = Wrapped(key_buffer_tail + 1)
  /\ UNCHANGED <<key_buffer_head, pc, result>>

keyboard_int_handler(k) ==
  /\ key_buffer' = [key_buffer EXCEPT ![Wrapped(key_buffer_tail)] = k]
  /\ key_buffer_tail' = Wrapped(key_buffer_tail) + 1
  /\ UNCHANGED <<key_buffer_head, pc, result>>

(* in_scancode                                                             *)

IsEmpty == key_buffer_head = key_buffer_tail

FindsNone ==
  /\ pc = "idle"
  /\ IsEmpty
  /\ result' = NoCode
  /\ UNCHANGED <<key_buffer, key_buffer_head, key_buffer_tail, pc>>

FindsSome ==
  /\ pc = "idle"
  /\ ~IsEmpty
  /\ pc' = "wrap"
  /\ UNCHANGED <<key_buffer, key_buffer_head, key_buffer_tail, result>>

WrapsHead ==
  /\ pc = "wrap"
  /\ key_buffer_head' = Wrapped(key_buffer_head)
  /\ pc' = "load"
  /\ UNCHANGED <<key_buffer, key_buffer_tail, result>>

Loads ==
  /\ pc = "load"
  /\ result' = key_buffer[key_buffer_head]
  /\ pc' = "advance"
  /\ UNCHANGED <<key_buffer, key_buffer_head, key_buffer_tail>>

Advances ==
  /\ pc = "advance"
  /\ key_buffer_head' = key_buffer_head + 1
  /\ pc' = "idle"
  /\ UNCHANGED <<key_buffer, key_buffer_tail, result>>

in_scancode == FindsNone \/ FindsSome \/ WrapsHead \/ Loads \/ Advances

Next == (\E k \in Code : keyboard_int_handler(k)) \/ in_scancode

(* in_char(true) calls in_scancode over and over, and an interrupt only    *)
(* suspends it; nothing obliges anybody to press a key.                    *)
Spec == Init /\ [][Next]_vars /\ WF_vars(in_scancode)

-----------------------------------------------------------------------------
(* Properties                                                              *)

(* The counters stay in range, and the slot the reader loads is one of the *)
(* ring (tty.c:150-153 and 165-169).                                       *)
TypeOK ==
  /\ key_buffer \in [Slot -> Code \cup {NoCode}]
  /\ key_buffer_head \in 0 .. KEY_BUFFER_SIZE
  /\ key_buffer_tail \in 0 .. KEY_BUFFER_SIZE
  /\ pc \in {"idle", "wrap", "load", "advance"}
  /\ pc \in {"load", "advance"} => key_buffer_head \in Slot
  /\ result \in Code \cup {NoCode}

(* The codes that wait: from the first one the reader has not taken up to  *)
(* the tail.  Equal counters mean an empty buffer, but to a reader that    *)
(* has already seen a code they mean a full one.                           *)
Taken == IF pc = "advance" THEN key_buffer_head + 1 ELSE key_buffer_head
Committed == pc \in {"wrap", "load"}

Waiting ==
  LET n == (key_buffer_tail - Taken) % KEY_BUFFER_SIZE IN
  IF n # 0 THEN n
  ELSE IF Taken = key_buffer_tail /\ ~Committed THEN 0 ELSE KEY_BUFFER_SIZE

WaitingCodes == [i \in 1 .. Waiting |-> key_buffer[(Taken + i - 1) % KEY_BUFFER_SIZE]]

(* Wherever in in_scancode interrupts come, and however many, the buffer   *)
(* behaves as the queue of KeyQueue: no code is reordered, duplicated or   *)
(* made up, none is lost before the buffer is full, and what waits is      *)
(* delivered (tty.c:146-174).                                              *)
Queue == INSTANCE KeyQueue WITH
           Size <- KEY_BUFFER_SIZE, queue <- WaitingCodes, out <- result

IsQueue == Queue!Spec

=============================================================================
