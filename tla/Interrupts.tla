----------------------------- MODULE Interrupts -----------------------------
(***************************************************************************)
(* The kernel with interrupts: interrupts.c, timer.c and their two system  *)
(* calls.  kernel_interrupts_init, which enables them, is in a comment of  *)
(* cherios_main at this commit; these handlers are what it would enable.   *)
(* An interrupt is taken between two instructions of the running           *)
(* activation, never in the kernel, and is one action.  kernel_interrupt   *)
(* handles the timer first and then each pending line: several at once are *)
(* several of these actions, one after the other.                          *)
(***************************************************************************)
EXTENDS Kernel

CONSTANTS
  Irq,   \* the interrupts but the timer's
  INT    \* what the message of an interrupt carries: v0 = -3

ASSUME IrqAssumption == Irq \subseteq 0 .. 6 /\ INT \in Arg

VARIABLES
  int_child,   \* the activation each interrupt goes to, 0 if none
  im           \* the processor's mask: the interrupts that are enabled

ivars == <<int_child, im>>

IrqTypeOK == int_child \in [Irq -> Aid] /\ im \in SUBSET Irq

(* The mask is clear when user code starts.                                *)
interrupts_init == int_child = [i \in Irq |-> 0] /\ im = {}

(* An interrupt belongs to the first that asks for it; a refused request   *)
(* changes nothing.                                                        *)
kernel_interrupt_register(i) ==
  /\ int_child[i] = 0
  /\ int_child' = [int_child EXCEPT ![i] = kernel_curr_act]
  /\ UNCHANGED <<kvars, im>>

(* A plausible bug: it is not checked who asks.                            *)
kernel_interrupt_enable_any(i) ==
  /\ im' = im \cup {i}
  /\ UNCHANGED <<kvars, int_child>>

kernel_interrupt_enable(i) ==
  /\ int_child[i] = kernel_curr_act
  /\ im' = im \cup {i}
  /\ UNCHANGED <<kvars, int_child>>

(* "Forced context switch of user process": whoever is next.               *)
kernel_timer ==
  /\ sched_reschedule(Now, 0)
  /\ UNCHANGED <<status, expected_reply, kernel_next_act, unique, ivars>>

(* The registers of activation 0, the kernel's, carry the message.         *)
Interrupted == [st |-> sched_status, rq |-> rq, mq |-> msg_queues,
                fr |-> [frame EXCEPT ![0] = [v0 |-> INT, c1 |-> frame[0].c1]]]

(* Interrupt i is masked and becomes a message to its activation, whatever *)
(* that is doing; the interrupted one runs on.                             *)
kernel_interrupt_others(i) ==
  /\ i \in im /\ int_child[i] # 0
  /\ im' = im \ {i}
  /\ IF full(msg_queues[int_child[i]])
       THEN kernel_panic("queue full (int)")
       ELSE Resume(msg_push(Interrupted, int_child[i], [v0 |-> INT, c1 |-> NULL]))
  /\ UNCHANGED <<status, expected_reply, kernel_next_act, unique, int_child>>
=============================================================================
