---------------------------- MODULE Activations ----------------------------
(***************************************************************************)
(* The kernel with arbitrary activations on top of it.  The running        *)
(* activation enters the kernel in any order it likes, with any registered *)
(* activation as callee.  What is assumed of it is what libuser gives      *)
(* every program: it answers each synchronous call at most once, now       *)
(* (msg.S) or, like virtio-blk, after it has handled other messages; and,  *)
(* unless ForeignCtrl, it terminates nobody but itself, as no program of   *)
(* the tree does (libuser/src/init.S is the only caller of syscall 26).    *)
(* Interrupts, the timer's among them, come at any time.                   *)
(***************************************************************************)
EXTENDS Interrupts

CONSTANTS
  ForeignCtrl,  \* does an activation terminate another, by its control reference?
  Revocable,    \* activations whose control reference is used to revoke them
  Drivers,      \* activations that register for interrupts
  MaxCalls      \* bound: synchronous calls in a behaviour

ASSUME UserAssumption == /\ ForeignCtrl \in BOOLEAN /\ Revocable \subseteq Aid
                         /\ Drivers \subseteq Aid
                         /\ MaxCalls \in 0 .. UNIQUE_MOD - 1

VARIABLE held   \* per activation, the tokens it moved from c1 to its memory

vars == <<kvars, ivars, held>>

curr == kernel_curr_act

Registered == 1 .. kernel_next_act - 1

(* The tokens the running activation can still return.                     *)
mine == held[curr] \cup ({frame[curr].c1} \ {NULL})

Running == panic = "no"

Keeps(tokens) == held' = [held EXCEPT ![curr] = tokens] /\ UNCHANGED ivars

Init == act_init /\ interrupts_init /\ held = [a \in Aid |-> {}]

Refused(cb, store, arg) == Running /\ ccall_refused(cb, store, arg) /\ Keeps(mine)
Send(cb, store, arg)    == Running /\ ccall_send(cb, store, arg) /\ Keeps(mine)
Switch(cb, store, arg)  == Running /\ ccall_switch(cb, store, arg) /\ Keeps(mine)
Call(cb, store, arg)    == /\ Running /\ unique < MaxCalls
                           /\ ccall_sync(cb, store, arg) /\ Keeps(mine)

(* Nothing to answer: wait for the next message.                           *)
Wait(arg) == Running /\ creturn_null(arg) /\ Keeps(mine)

Return(token, arg) == Running /\ creturn_sync(token, arg) /\ Keeps(mine \ {token})

Sleep          == Running /\ syscall_sleep /\ UNCHANGED <<ivars, held>>
Register       == Running /\ act_register /\ UNCHANGED <<ivars, held>>
Revoke(act)    == Running /\ act_revoke(act) /\ UNCHANGED <<ivars, held>>
Terminate(act) == Running /\ act_terminate(act) /\ UNCHANGED <<ivars, held>>
Fault          == Running /\ user_fault /\ UNCHANGED <<ivars, held>>

(* The system calls of drivers, and interrupts.                            *)
InterruptRegister(i) ==
  Running /\ curr \in Drivers /\ kernel_interrupt_register(i) /\ UNCHANGED held
InterruptEnable(i) == Running /\ kernel_interrupt_enable(i) /\ UNCHANGED held
Interrupt(i)       == Running /\ kernel_interrupt_others(i) /\ UNCHANGED held
Tick               == Running /\ kernel_timer /\ UNCHANGED held

(* hw_reboot loops for ever.                                               *)
Frozen == ~Running /\ UNCHANGED vars

Next ==
  \/ \E cb \in Registered, store \in BOOLEAN, arg \in Arg :
        \/ Refused(cb, store, arg)
        \/ Send(cb, store, arg)
        \/ Switch(cb, store, arg)
        \/ Call(cb, store, arg)
  \/ \E arg \in Arg : Wait(arg)
  \/ \E token \in mine, arg \in Arg : Return(token, arg)
  \/ Sleep
  \/ Register
  \/ \E act \in Registered \cap Revocable : Revoke(act)
  \/ \E act \in (IF ForeignCtrl THEN Registered ELSE {curr}) : Terminate(act)
  \/ Fault
  \/ \E i \in Irq : InterruptRegister(i) \/ InterruptEnable(i) \/ Interrupt(i)
  \/ Tick
  \/ Frozen

Spec == Init /\ [][Next]_vars

----------------------------------------------------------------------------
(* Every variable has its type.                                            *)
TypeOK == KTypeOK /\ IrqTypeOK /\ held \in [Aid -> SUBSET Token]

(* No kernel_assert of act.c, sched.c, msg.c or ccall.c fails, kernel_     *)
(* creturn never meets an answer it does not expect, sched_reschedule      *)
(* never loops and QDEL never runs squeue_a_end below 0: whatever the      *)
(* activations do, only the stops the code provides for happen.            *)
NoKernelFault == panic \notin Faults

(* The run queue lists each runnable or schedulable activation once and    *)
(* nothing else: QADD and QDEL, spread over msg_push, act_wait, ccall,     *)
(* creturn and terminate, neither lose an activation nor queue it twice.   *)
RunQueueExact == Lists(rq, {a \in Aid : sched_status[a] \in {"runnable", "schedulable"}})

(* A waiting activation has no undelivered message (no lost wake-up), and  *)
(* a schedulable one has a message for msg_pop to deliver.                 *)
NoLostWakeup ==
  \A a \in Aid : /\ sched_status[a] = "waiting" => empty(msg_queues[a])
                 /\ sched_status[a] = "schedulable" => ~empty(msg_queues[a])

(* The kernel returns only to an activation that may run.                  *)
CurrRunnable == Running => sched_status[curr] = "runnable"

(* Only a terminated activation is out of the scheduler for good.          *)
TerminatedStays ==
  Running => \A a \in Aid : sched_status[a] = "terminated" <=> status[a] = "terminated"

(* token is the one its blocked caller waits for.                          *)
Owed(token) == /\ sched_status[token.aid] = "sync_block"
               /\ expected_reply[token.aid] = token.unique

(* Where a token may be: in an undelivered message, in c1 of the           *)
(* activation it was delivered to, or in that activation's memory.         *)
InQueue(a, token) == \E i \in Pending(msg_queues[a]) : msg_queues[a].msg[i].c1 = token
InReg(a, token)   == frame[a].c1 = token
InMem(a, token)   == token \in held[a]

(* Each token that can still be returned is owed to a caller blocked on    *)
(* that very call: get_sync_token's numbers and the blocking of the caller *)
(* never leave an answer that kernel_creturn would refuse.                 *)
TokensOwed ==
  Running => \A a \in Aid :
    /\ \A i \in Pending(msg_queues[a]) :
          msg_queues[a].msg[i].c1 # NULL => Owed(msg_queues[a].msg[i].c1)
    /\ frame[a].c1 # NULL => Owed(frame[a].c1)
    /\ \A t \in held[a] : Owed(t)

(* The answer is unique: no token is in two places, so no caller can be    *)
(* answered twice.                                                         *)
TokensUnique ==
  Running => \A a, b \in Aid :
    /\ \A i \in Pending(msg_queues[a]), j \in Pending(msg_queues[b]) :
          LET t == msg_queues[a].msg[i].c1
          IN  t # NULL /\ t = msg_queues[b].msg[j].c1 => a = b /\ i = j
    /\ \A i \in Pending(msg_queues[a]) :
          LET t == msg_queues[a].msg[i].c1
          IN  t # NULL => t # frame[b].c1 /\ t \notin held[b]
    /\ frame[a].c1 # NULL => /\ frame[a].c1 \notin held[b]
                             /\ frame[a].c1 = frame[b].c1 => a = b
    /\ a # b => held[a] \cap held[b] = {}

(* No answer is lost: while a caller is blocked its token is somewhere.    *)
BlockedHasToken ==
  Running => \A c \in Aid : sched_status[c] = "sync_block" =>
    LET t == [aid |-> c, unique |-> expected_reply[c]]
    IN  \E a \in Aid : InQueue(a, t) \/ InReg(a, t) \/ InMem(a, t)

(* An enabled interrupt has somebody to go to, who exists:                 *)
(* kernel_interrupt_others never meets an "unknown interrupt", which it    *)
(* would leave enabled and pending, to be interrupted by it for ever.      *)
IrqOwned == \A i \in Irq : /\ i \in im => int_child[i] # 0
                           /\ int_child[i] < kernel_next_act

----------------------------------------------------------------------------
(* The refinement mapping to Ipc.                                          *)
ModeOf(st) == CASE st \in {"waiting", "schedulable"} -> "idle"
                [] st = "runnable"   -> "busy"
                [] st = "sync_block" -> "blocked"
                [] st = "terminated" -> "dead"

Abstract == INSTANCE Ipc WITH
  Acts <- Aid, First <- 1, Capacity <- MAX_MSG - 1, Args <- Arg, Tokens <- Token,
  None <- NULL, Zero <- ZERO,
  mode <- [a \in Aid |-> ModeOf(sched_status[a])],
  mbox <- [a \in Aid |-> Contents(msg_queues[a])],
  val  <- [a \in Aid |-> IF sched_status[a] = "runnable" THEN frame[a].v0 ELSE ZERO],
  owes <- [a \in Aid |-> held[a] \cup ({frame[a].c1} \ {NULL})],
  run  <- kernel_curr_act

(* The kernel implements Ipc: through ring wrap-around, wake-ups and       *)
(* switches, messages reach their receiver once and in order, and a call   *)
(* is answered by the activation it was delivered to.                      *)
RefinesIpc == Abstract!Spec
=============================================================================
