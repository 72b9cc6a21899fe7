----------------------------- MODULE Interrupts -----------------------------
(***************************************************************************)
(* The interrupt table and the interrupt controller: init_interrupts and   *)
(* set_int_handler of kernel/interrupts.c, the wrapper of interrupts.asm,  *)
(* PIC.c, PIT.c, enable_keyboard of tty.c, and enter_usermode of task.c.   *)
(*                                                                         *)
(* The kernel runs the boot program below, one store at a time, while the  *)
(* devices raise their lines.  Vectors stand for the timer's, the          *)
(* keyboard's and one that only software uses; a handler has the name of   *)
(* its vector or is the default one.  A gate holds the two halves of its   *)
(* wrapper's address and whether its type has been set; a wrapper, the     *)
(* target of its call.  The lines of the slave controller stay behind the  *)
(* masked line 2 of the master.                                            *)
(***************************************************************************)
EXTENDS Integers, Sequences

Irq == {"timer", "keyboard"}
Vector == Irq \cup {"other"}
None == "none"

(* kernel_main, as far as interrupts go: init_interrupts with its loop     *)
(* over all vectors, init_PIC and init_PIT, then init_tty, and the entry   *)
(* to user mode.                                                           *)
Set(v, h) == [op |-> "set", vector |-> v, handler |-> h]
Program ==
  << [op |-> "lidt"],
     Set("other", "default"), Set("timer", "default"), Set("keyboard", "default"),
     [op |-> "init_PIC"], Set("timer", "timer"), Set("keyboard", "keyboard"),
     [op |-> "enter_usermode"], [op |-> "run"] >>

VARIABLES
  idtr,            \* the table is installed
  idt,             \* the gates
  wrapper,         \* the wrappers on the heap: the target of each one's call
  iflag,           \* the interrupt flag
  pc, step,        \* position in Program and in set_int_handler
  mask, pending, in_service,   \* registers of the master controller
  stack,           \* the interrupt that is being handled, if any
  wanted           \* history: the last handler set for each vector

kernel == <<idtr, idt, wrapper, pc, step, wanted>>
vars == <<kernel, iflag, mask, pending, in_service, stack>>

Gate == [type : BOOLEAN, low : Nat, high : Nat]

(* Mutant of StartupFlag: startup.asm without its cli.                     *)
StartupFlagKept == TRUE

StartupFlag == FALSE

Init ==
  /\ idtr = FALSE
  /\ idt = [v \in Vector |-> [type |-> FALSE, low |-> 0, high |-> 0]]
  /\ wrapper = <<>>
  /\ iflag = StartupFlag
  /\ pc = 1 /\ step = "cli"
  /\ mask \in SUBSET Irq
  /\ pending = {} /\ in_service = {}
  /\ stack = <<>>
  /\ wanted = [v \in Vector |-> None]

Current == Program[pc]

(* The kernel's next statement, which an interrupt delays.                 *)
Kernel(op) == stack = <<>> /\ Current.op = op

NextStatement == pc' = pc + 1 /\ step' = "cli"

lidt ==
  /\ Kernel("lidt")
  /\ idtr' = TRUE
  /\ NextStatement
  /\ UNCHANGED <<idt, wrapper, wanted, iflag, mask, pending, in_service, stack>>

-----------------------------------------------------------------------------
(* set_int_handler: the gate has its type before it has its address, and   *)
(* the wrapper is a copy of the template, which calls itself, until its    *)
(* call is patched.                                                        *)

New == Len(wrapper)

Goto(s) == step' = s /\ UNCHANGED pc

SetStep ==
  LET v == Current.vector IN
  /\ Kernel("set")
  /\ \/ /\ step = "cli" /\ Goto("type")
        /\ iflag' = FALSE
        /\ wanted' = [wanted EXCEPT ![v] = Current.handler]
        /\ UNCHANGED <<idt, wrapper>>
     \/ /\ step = "type" /\ Goto("copy")
        /\ idt' = [idt EXCEPT ![v].type = TRUE]
        /\ UNCHANGED <<wrapper, iflag, wanted>>
     \/ /\ step = "copy" /\ Goto("patch")
        /\ wrapper' = Append(wrapper, "template")
        /\ UNCHANGED <<idt, iflag, wanted>>
     \/ /\ step = "patch" /\ Goto("low")
        /\ wrapper' = [wrapper EXCEPT ![New] = Current.handler]
        /\ UNCHANGED <<idt, iflag, wanted>>
     \/ /\ step = "low" /\ Goto("high")
        /\ idt' = [idt EXCEPT ![v].low = New]
        /\ UNCHANGED <<wrapper, iflag, wanted>>
     \/ /\ step = "high" /\ NextStatement
        /\ idt' = [idt EXCEPT ![v].high = New]
        /\ UNCHANGED <<wrapper, iflag, wanted>>
  /\ UNCHANGED <<idtr, mask, pending, in_service, stack>>

-----------------------------------------------------------------------------
(* The controller and the flag                                             *)

(* ICW1 clears the registers; then every line is masked.                   *)
init_PIC ==
  /\ Kernel("init_PIC")
  /\ mask' = Irq /\ pending' = {} /\ in_service' = {}
  /\ NextStatement
  /\ UNCHANGED <<idtr, idt, wrapper, wanted, iflag, stack>>

(* The only place that sets the flag.                                      *)
enter_usermode ==
  /\ Kernel("enter_usermode")
  /\ iflag' = TRUE
  /\ NextStatement
  /\ UNCHANGED <<idtr, idt, wrapper, wanted, mask, pending, in_service, stack>>

(* enable_PIT and enable_keyboard clear a bit of the mask.                 *)
enable(v) ==
  /\ Kernel("run")
  /\ mask' = mask \ {v}
  /\ UNCHANGED <<kernel, iflag, pending, in_service, stack>>

(* A device raises its line.                                               *)
Raise(v) ==
  /\ v \notin pending
  /\ pending' = pending \cup {v}
  /\ UNCHANGED <<kernel, iflag, mask, in_service, stack>>

-----------------------------------------------------------------------------
(* An interrupt is taken, handled by way of the wrapper, and ended         *)

Deliverable(v) == iflag /\ v \in pending \ mask /\ in_service = {}

(* Mutant of FlagInside: the gates are trap gates.                         *)
FlagInsideTrap(f) == f

(* Both types of gate, 0x8E and 0xEE, are interrupt gates.                 *)
FlagInside(f) == FALSE

Enter(v) ==
  /\ stack' = <<[vector |-> v, flag |-> iflag, at |-> "handler"]>> \o stack
  /\ iflag' = FlagInside(iflag)

Take(v) ==
  /\ Deliverable(v)
  /\ pending' = pending \ {v} /\ in_service' = {v}
  /\ Enter(v)
  /\ UNCHANGED <<kernel, mask>>

(* int of a vector that no device uses.                                    *)
gen_interrupt ==
  /\ Kernel("run")
  /\ Enter("other")
  /\ UNCHANGED <<kernel, mask, pending, in_service>>

(* The handler returns to the wrapper, which signals its end to both       *)
(* controllers whatever the vector was, and returns.                       *)
Handler ==
  /\ stack # <<>> /\ stack[1].at = "handler"
  /\ stack' = [stack EXCEPT ![1].at = "eoi"]
  /\ UNCHANGED <<kernel, iflag, mask, pending, in_service>>

(* Mutant of AfterEoi: the wrapper sends no end of interrupt.              *)
NoEoi == in_service

AfterEoi == {}

EndOfInterrupt ==
  /\ stack # <<>> /\ stack[1].at = "eoi"
  /\ in_service' = AfterEoi
  /\ stack' = [stack EXCEPT ![1].at = "iret"]
  /\ UNCHANGED <<kernel, iflag, mask, pending>>

(* Mutant of FlagAfter: the wrapper returns without its flags.             *)
FlagAfterRet == iflag

FlagAfter == stack[1].flag

Iret ==
  /\ stack # <<>> /\ stack[1].at = "iret"
  /\ iflag' = FlagAfter
  /\ stack' = Tail(stack)
  /\ UNCHANGED <<kernel, mask, pending, in_service>>

Boot == lidt \/ SetStep \/ init_PIC \/ enter_usermode
Wrapper == Handler \/ EndOfInterrupt \/ Iret

Next ==
  \/ Boot \/ Wrapper \/ gen_interrupt
  \/ \E v \in Irq : enable(v) \/ Raise(v) \/ Take(v)

Fairness == WF_vars(Boot) /\ WF_vars(Wrapper) /\ \A v \in Irq : SF_vars(Take(v))

Spec == Init /\ [][Next]_vars /\ Fairness

-----------------------------------------------------------------------------
(* Properties                                                              *)

(* Every variable has its type, and interrupts do not nest: a gate clears  *)
(* the flag (interrupts.c:20, PIT.c:10 and tty.c:41 give the types).       *)
TypeOK ==
  /\ idt \in [Vector -> Gate]
  /\ \A w \in 1 .. Len(wrapper) : wrapper[w] \in {"template", "default"} \cup Irq
  /\ iflag \in BOOLEAN
  /\ mask \subseteq Irq /\ pending \subseteq Irq /\ in_service \subseteq Irq
  /\ Len(stack) <= 1

(* The handler that vector v leads to.                                     *)
Reached(v) ==
  LET g == idt[v] IN
  IF idtr /\ g.type /\ g.low = g.high /\ g.low \in 1 .. Len(wrapper)
  THEN wrapper[g.low] ELSE None

(* Whenever an interrupt can be taken, its gate is complete and leads to   *)
(* the handler that was last set for it: none is taken between the stores  *)
(* of set_int_handler, where the gate is half new, nor before the table is *)
(* there (interrupts.c:11-41, startup.asm:89, task.c:6-22).                *)
GateIsComplete ==
  \A v \in Irq : Deliverable(v) => Reached(v) = wanted[v] /\ wanted[v] = v

(* The end of interrupt that every wrapper sends, also that of a software  *)
(* interrupt, never ends the service of another interrupt: what is in      *)
(* service is what the running wrapper was entered for                     *)
(* (interrupts.asm:18-20).                                                 *)
EndsOwnService ==
  in_service # {} => stack # <<>> /\ in_service = {stack[1].vector}

(* An interrupt that waits at an open line is taken in the end: the kernel *)
(* comes to enter_usermode and every wrapper ends what it began            *)
(* (interrupts.asm:11-23, task.c:16).                                      *)
InterruptsAreTaken ==
  \A v \in Irq : (pc = Len(Program) /\ v \in pending \ mask) ~> v \notin pending

=============================================================================
