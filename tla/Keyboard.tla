------------------------------ MODULE Keyboard ------------------------------
(***************************************************************************)
(* The keyboard buffer of tty.c filled by way of the interrupt table:      *)
(* KeyBuffer and Interrupts composed.                                      *)
(*                                                                         *)
(* KeyBuffer takes keyboard_int_handler to run to its end between two      *)
(* accesses of in_scancode.  Here it runs when the gate of the keyboard    *)
(* has been entered and its wrapper calls it, and the user program reads   *)
(* the buffer whenever no interrupt is being handled.                      *)
(***************************************************************************)
EXTENDS KeyBuffer

VARIABLES idtr, idt, wrapper, iflag, statement, step,
          mask, pending, in_service, stack, wanted   \* of Interrupts

I == INSTANCE Interrupts WITH pc <- statement

processor == <<idtr, idt, wrapper, iflag, statement, step,
               mask, pending, in_service, stack, wanted>>

KeyboardInit == Init /\ I!Init

(* The wrapper's call: the handler reads a code from the keyboard's port.  *)
(* The timer's handler and the default one leave the buffer alone.         *)
RunHandler ==
  /\ I!Handler
  /\ IF I!Reached(stack[1].vector) = "keyboard"
     THEN \E k \in Code : keyboard_int_handler(k)
     ELSE UNCHANGED vars

(* The user program, which calls in_scancode, is not run by an interrupt.  *)
Reader == I!Kernel("run") /\ in_scancode /\ UNCHANGED processor

KeyboardNext ==
  \/ RunHandler \/ Reader
  \/ /\ \/ I!Boot \/ I!EndOfInterrupt \/ I!Iret \/ I!gen_interrupt
        \/ \E v \in I!Irq : I!enable(v) \/ I!Raise(v) \/ I!Take(v)
     /\ UNCHANGED vars

(* Handlers are shorter than the time between two interrupts, so that the  *)
(* reader runs again and again; it calls in_scancode in a loop.            *)
KeyboardSpec ==
  /\ KeyboardInit /\ [][KeyboardNext]_<<vars, processor>>
  /\ I!Fairness /\ SF_vars(Reader)

-----------------------------------------------------------------------------
(* Properties, besides those of KeyBuffer                                  *)

(* The types of both parts: the reader's slot is one of the ring, and      *)
(* handlers do not nest, the keyboard's being called with the flag cleared *)
(* (tty.c:41, 150-153, 165-169, interrupts.c:20).                          *)
TypesOK == TypeOK /\ I!TypeOK

(* As in Interrupts: an interrupt that can be taken finds a complete gate  *)
(* and the handler last set for it (interrupts.c:11-41).                   *)
GateIsComplete == I!GateIsComplete

(* As in Interrupts: no end of interrupt ends the service of another one,  *)
(* whatever runs in between (interrupts.asm:18-20).                        *)
EndsOwnService == I!EndsOwnService

(* As in Interrupts: what waits at an open line is taken, although the     *)
(* user program goes on reading (interrupts.asm:11-23, task.c:16).         *)
InterruptsAreTaken == I!InterruptsAreTaken

=============================================================================
