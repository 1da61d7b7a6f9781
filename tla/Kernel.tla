------------------------------- MODULE Kernel -------------------------------
(***************************************************************************)
(* The CheriOS microkernel: activations (act.c), the scheduler (sched.c),  *)
(* message queues (msg.c), CCall/CReturn (ccall.c) and the system calls    *)
(* (syscalls.c).  The kernel is entered by the running activation, or by   *)
(* an interrupt while that runs (Interrupts), and is not preemptive, so    *)
(* each handler is one action.  Its inputs, the      *)
(* registers the activation loads before it traps, are parameters: the     *)
(* modules that compose the kernel with user code choose them.             *)
(*                                                                         *)
(* Within a handler the C functions are operators on a record s of the     *)
(* state they pass on: st (sched_status), rq (the run queue), mq (the      *)
(* message queues) and fr (the saved registers).  sched_reschedule or      *)
(* Resume, always last, assign it to the variables.                        *)
(***************************************************************************)
EXTENDS Naturals, Sequences, RunQueue, MsgRing

CONSTANTS
  Arg,          \* what a message or a reply carries (v0, a0-a2, c3-c5, idc)
  ZERO,         \* those registers with v0 = 0
  NULL,         \* the NULL capability in place of a sync token
  UNIQUE_MOD,   \* get_sync_token counts modulo this (2^32 in the code)
  REPLY_MOD     \* kernel_creturn keeps the token modulo this (2^28, 0xFFFFFFF)

ASSUME ModAssumption == /\ UNIQUE_MOD \in Nat /\ REPLY_MOD \in Nat
                        /\ 0 < REPLY_MOD /\ REPLY_MOD <= UNIQUE_MOD

Token == [aid : Aid, unique : 0 .. UNIQUE_MOD - 1]

ASSUME NullAssumption == NULL \notin Token
ASSUME ArgAssumption == ZERO \notin Arg

(* The register c1 and the registers that carry arguments and results;     *)
(* ZERO is what an asynchronous send into a full queue leaves.             *)
Msg == [v0 : Arg \cup {ZERO}, c1 : Token \cup {NULL}]

Status == {"alive", "revoked", "terminated"}
SchedStatus == {"waiting", "schedulable", "runnable", "sync_block", "terminated"}

(* Why the kernel stopped.  Stops are the ends the code provides for;      *)
(* Faults are the kernel's assertions and checks of its own consistency.   *)
Stops  == {"queue full (csync)", "queue full (int)", "no act slot",
           "No activation to schedule", "user fault"}
Faults == {"assertion", "bad sync creturn", "reschedule loop", "squeue_a underflow"}

VARIABLES
  status,           \* kernel_acts[].status
  sched_status,     \* kernel_acts[].sched_status
  expected_reply,   \* kernel_acts[].sync_token.expected_reply
  msg_queues,       \* the ring of each activation
  frame,            \* kernel_exception_framep, the registers of Msg
  rq,               \* aqueue, squeue_a, squeue_a_idx, squeue_a_end
  kernel_curr_act,  \* the running activation
  kernel_next_act,  \* the next free slot of kernel_acts
  unique,           \* get_sync_token's counter
  panic             \* "no", or why the kernel stopped

kvars == <<status, sched_status, expected_reply, msg_queues, frame, rq,
           kernel_curr_act, kernel_next_act, unique, panic>>

NoMsg == [v0 |-> ZERO, c1 |-> NULL]

KTypeOK ==
  /\ status \in [Aid -> Status]
  /\ sched_status \in [Aid -> SchedStatus]
  /\ expected_reply \in [Aid -> 0 .. UNIQUE_MOD - 1]
  /\ msg_queues \in [Aid -> Rings(Msg)]
  /\ frame \in [Aid -> Msg]
  /\ rq \in RunQueues
  /\ kernel_curr_act \in Aid
  /\ kernel_next_act \in 0 .. MAX_ACTIVATIONS
  /\ unique \in 0 .. UNIQUE_MOD - 1
  /\ panic \in {"no"} \cup Stops \cup Faults

(* act_init: slot 0 is the kernel's, slot 1 is init, running.  The other   *)
(* slots are zero-initialised, which reads as alive and waiting.           *)
act_init ==
  /\ status = [a \in Aid |-> IF a = 0 THEN "terminated" ELSE "alive"]
  /\ sched_status = [a \in Aid |-> IF a = 0 THEN "terminated"
                                   ELSE IF a = 1 THEN "runnable" ELSE "waiting"]
  /\ expected_reply = [a \in Aid |-> 0]
  /\ msg_queues = [a \in Aid |->
                    [start |-> 0, end |-> 0, msg |-> [i \in Slot |-> NoMsg]]]
  /\ frame = [a \in Aid |-> NoMsg]
  /\ rq = QADD(EmptyRunQueue, 1)
  /\ kernel_curr_act = 1
  /\ kernel_next_act = 2
  /\ unique = 0
  /\ panic = "no"

----------------------------------------------------------------------------
(* The state a handler works on, and the end of one that does not switch.  *)

Now == [st |-> sched_status, rq |-> rq, mq |-> msg_queues, fr |-> frame]

(* The running activation's registers as it enters the kernel.             *)
Enter(arg) == [st |-> sched_status, rq |-> rq, mq |-> msg_queues,
               fr |-> [frame EXCEPT ![kernel_curr_act] = [v0 |-> arg, c1 |-> NULL]]]

Resume(s) ==
  /\ sched_status' = s.st
  /\ rq' = s.rq
  /\ msg_queues' = s.mq
  /\ frame' = s.fr
  /\ UNCHANGED <<kernel_curr_act, panic>>

(* kernel_panic, kernel_freeze and a failed kernel_assert never return; no *)
(* one reads the memory the handler leaves half updated.                   *)
kernel_panic(why) ==
  /\ panic' = why
  /\ UNCHANGED <<sched_status, rq, msg_queues, frame, kernel_curr_act>>

----------------------------------------------------------------------------
(* sched.c and msg.c                                                       *)

sched_d2a(s, act, stat) ==
  [st |-> [s.st EXCEPT ![act] = stat], rq |-> QADD(s.rq, act), mq |-> s.mq, fr |-> s.fr]

(* A plausible bug: an activation blocked in a call is marked as one that  *)
(* waits for a message.                                                    *)
sched_a2d_waiting(s, act, stat) ==
  [st |-> [s.st EXCEPT ![act] = "waiting"], rq |-> QDEL(s.rq, act), mq |-> s.mq, fr |-> s.fr]

sched_a2d(s, act, stat) ==
  [st |-> [s.st EXCEPT ![act] = stat], rq |-> QDEL(s.rq, act), mq |-> s.mq, fr |-> s.fr]

(* msg_push into a queue that is not full; the receiver is woken.          *)
msg_push(s, dest, m) ==
  LET pushed == [st |-> s.st, rq |-> s.rq, fr |-> s.fr,
                 mq |-> [s.mq EXCEPT ![dest] = enqueue(s.mq[dest], m)]]
  IN  IF s.st[dest] = "waiting" THEN sched_d2a(pushed, dest, "schedulable") ELSE pushed

(* A plausible bug: msg_pop does not load c1.                              *)
sched_schedule_no_token(s, act) ==
  [st |-> [s.st EXCEPT ![act] = "runnable"],
   rq |-> s.rq,
   mq |-> [s.mq EXCEPT ![act] = dequeue(s.mq[act])],
   fr |-> [s.fr EXCEPT ![act].v0 = front(s.mq[act]).v0]]

(* sched_schedule with msg_pop: the oldest message goes to the registers.  *)
sched_schedule(s, act) ==
  [st |-> [s.st EXCEPT ![act] = "runnable"],
   rq |-> s.rq,
   mq |-> [s.mq EXCEPT ![act] = dequeue(s.mq[act])],
   fr |-> [s.fr EXCEPT ![act] = front(s.mq[act])]]

(* A plausible bug: a hint blocked in a call is taken.                     *)
Ready_blocked(s, act) == s.st[act] \notin {"waiting", "terminated"}

Ready(s, act) == s.st[act] \in {"schedulable", "runnable"}

(* The rounds of sched_picknext after which sched_reschedule leaves its    *)
(* loop; it takes the first.                                               *)
PickRounds(s) == {k \in 1 .. s.rq.end : Ready(s, s.rq.squeue_a[PickIndex(s.rq, k)])}

FirstPick(s) == PickIndex(s.rq, CHOOSE k \in PickRounds(s) :
                                  \A j \in PickRounds(s) : k <= j)

(* The end of sched_reschedule: hint has been settled.                     *)
SwitchTo(s, act) ==
  IF s.st[act] = "schedulable"
    THEN IF empty(s.mq[act])
           THEN kernel_panic("assertion")
           ELSE /\ kernel_curr_act' = act
                /\ sched_status' = sched_schedule(s, act).st
                /\ rq' = s.rq
                /\ msg_queues' = sched_schedule(s, act).mq
                /\ frame' = sched_schedule(s, act).fr
                /\ UNCHANGED panic
    ELSE /\ kernel_curr_act' = act
         /\ sched_status' = s.st
         /\ rq' = s.rq
         /\ msg_queues' = s.mq
         /\ frame' = s.fr
         /\ UNCHANGED panic

(* A hint that may run is taken; otherwise the round-robin loop decides.   *)
sched_reschedule(s, hint) ==
  IF hint # 0 /\ Ready(s, hint)
    THEN SwitchTo(s, hint)
    ELSE IF s.rq.end = 0
           THEN kernel_panic("No activation to schedule")
           ELSE IF PickRounds(s) = {}
                  THEN kernel_panic("reschedule loop")
                  ELSE SwitchTo([st |-> s.st, rq |-> [s.rq EXCEPT !.idx = FirstPick(s)],
                                 mq |-> s.mq, fr |-> s.fr],
                                s.rq.squeue_a[FirstPick(s)])

(* A plausible bug: the queue is not looked at before going to wait.       *)
act_wait_blind(s, act, next_hint) ==
  sched_reschedule(sched_a2d(s, act, "waiting"), next_hint)

act_wait(s, act, next_hint) ==
  IF s.st[act] # "runnable" \/ (empty(s.mq[act]) /\ ~QDEL_assert(s.rq, act))
    THEN kernel_panic("assertion")
    ELSE IF empty(s.mq[act])
           THEN sched_reschedule(sched_a2d(s, act, "waiting"), next_hint)
           ELSE sched_reschedule([st |-> [s.st EXCEPT ![act] = "schedulable"],
                                  rq |-> s.rq, mq |-> s.mq, fr |-> s.fr], next_hint)

----------------------------------------------------------------------------
(* ccall.c.  cb is the callee, store whether the identifier passed with it *)
(* has the store permission.                                               *)

Callable(cb, store) == store /\ status[cb] = "alive"

(* The call is refused: it returns with the registers as they were.        *)
ccall_refused(cb, store, arg) ==
  /\ ~Callable(cb, store)
  /\ Resume(Enter(arg))
  /\ UNCHANGED <<status, expected_reply, kernel_next_act, unique>>

(* The push of the two asynchronous calls; a full queue only zeroes v0.    *)
async_push(cb, arg) ==
  IF full(msg_queues[cb])
    THEN Enter(ZERO)
    ELSE msg_push(Enter(arg), cb, [v0 |-> arg, c1 |-> NULL])

(* ccall 1: send.                                                          *)
ccall_send(cb, store, arg) ==
  /\ Callable(cb, store)
  /\ Resume(async_push(cb, arg))
  /\ UNCHANGED <<status, expected_reply, kernel_next_act, unique>>

(* ccall 2: send and switch.                                               *)
ccall_switch(cb, store, arg) ==
  /\ Callable(cb, store)
  /\ act_wait(async_push(cb, arg), kernel_curr_act, cb)
  /\ UNCHANGED <<status, expected_reply, kernel_next_act, unique>>

next_unique == (unique + 1) % UNIQUE_MOD

(* ccall 4: synchronous call.  The token names the caller and the call.    *)
ccall_sync(cb, store, arg) ==
  LET token  == [aid |-> kernel_curr_act, unique |-> next_unique]
      pushed == msg_push(Enter(arg), cb, [v0 |-> arg, c1 |-> token])
  IN  /\ Callable(cb, store)
      /\ unique' = next_unique
      /\ expected_reply' = [expected_reply EXCEPT ![kernel_curr_act] = next_unique]
      /\ IF full(msg_queues[cb])
           THEN kernel_panic("queue full (csync)")
           ELSE IF ~QDEL_assert(pushed.rq, kernel_curr_act)
                  THEN kernel_panic("assertion")
                  ELSE sched_reschedule(
                         sched_a2d(pushed, kernel_curr_act, "sync_block"), cb)
      /\ UNCHANGED <<status, kernel_next_act>>

(* A plausible bug: the expected answer is not compared.                   *)
Expected_any(token) == expected_reply[token.aid] >= 0

(* A plausible bug: the mask is too narrow.                                *)
Expected_narrow(token) == expected_reply[token.aid] = token.unique % (REPLY_MOD \div 2)

(* The check of kernel_creturn, on the part of the offset its mask keeps.  *)
Expected(token) == expected_reply[token.aid] = token.unique % REPLY_MOD

(* A plausible bug: the results are not copied to the caller.              *)
reply_no_results(token, arg) == sched_d2a(Enter(arg), token.aid, "runnable")

(* The caller becomes runnable, with the results in its registers.         *)
reply(token, arg) ==
  LET woken == sched_d2a(Enter(arg), token.aid, "runnable")
  IN  [st |-> woken.st, rq |-> woken.rq, mq |-> woken.mq,
       fr |-> [woken.fr EXCEPT ![token.aid] = [v0 |-> arg, c1 |-> woken.fr[token.aid].c1]]]

(* creturn with NULL: wait for the next message.                           *)
creturn_null(arg) ==
  /\ act_wait(Enter(arg), kernel_curr_act, kernel_curr_act)
  /\ UNCHANGED <<status, expected_reply, kernel_next_act, unique>>

(* creturn with a token: reply to its caller, and switch to it.            *)
creturn_sync(token, arg) ==
  /\ IF ~Expected(token)
       THEN kernel_panic("bad sync creturn")
       ELSE IF sched_status[token.aid] # "sync_block"
              THEN kernel_panic("assertion")
              ELSE act_wait(reply(token, arg), kernel_curr_act, token.aid)
  /\ UNCHANGED <<status, expected_reply, kernel_next_act, unique>>

----------------------------------------------------------------------------
(* syscalls.c and act.c                                                    *)

(* sleep(0) yields; any other time is refused and changes nothing.         *)
syscall_sleep ==
  /\ sched_reschedule(Now, 0)
  /\ UNCHANGED <<status, expected_reply, kernel_next_act, unique>>

(* A plausible bug: the check for a free slot is off by one.               *)
act_register_off_by_one ==
  /\ kernel_next_act <= MAX_ACTIVATIONS
  /\ kernel_next_act' = kernel_next_act + 1
  /\ UNCHANGED <<status, sched_status, expected_reply, msg_queues, frame, rq,
                 kernel_curr_act, unique, panic>>

act_register ==
  /\ IF kernel_next_act >= MAX_ACTIVATIONS
       THEN /\ kernel_panic("no act slot")
            /\ UNCHANGED <<status, kernel_next_act>>
       ELSE /\ status' = [status EXCEPT ![kernel_next_act] = "alive"]
            /\ sched_status' = [sched_status EXCEPT ![kernel_next_act] = "waiting"]
            /\ msg_queues' = [msg_queues EXCEPT ![kernel_next_act] = msg_queue_init(@)]
            /\ frame' = [frame EXCEPT ![kernel_next_act] = NoMsg]
            /\ kernel_next_act' = kernel_next_act + 1
            /\ UNCHANGED <<rq, kernel_curr_act, panic>>
  /\ UNCHANGED <<expected_reply, unique>>

(* A plausible bug: a terminated activation can be revoked.                *)
act_revoke_terminated(act) ==
  /\ status' = [status EXCEPT ![act] = "revoked"]
  /\ UNCHANGED <<sched_status, expected_reply, msg_queues, frame, rq,
                 kernel_curr_act, kernel_next_act, unique, panic>>

(* A terminated activation stays so: act_revoke returns -1.                *)
act_revoke(act) ==
  /\ status[act] # "terminated"
  /\ status' = [status EXCEPT ![act] = "revoked"]
  /\ UNCHANGED <<sched_status, expected_reply, msg_queues, frame, rq,
                 kernel_curr_act, kernel_next_act, unique, panic>>

(* sched_delete removes act from the run queue if the slot act was last    *)
(* given still names it, whether or not act is queued.                     *)
sched_delete(s, act) ==
  [st |-> [s.st EXCEPT ![act] = "terminated"],
   rq |-> IF s.rq.squeue_a[s.rq.aqueue[act]] = act THEN QDEL(s.rq, act) ELSE s.rq,
   mq |-> s.mq, fr |-> s.fr]

act_terminate(act) ==
  /\ status' = [status EXCEPT ![act] = "terminated"]
  /\ IF rq.squeue_a[rq.aqueue[act]] = act /\ rq.end = 0
       THEN kernel_panic("squeue_a underflow")
       ELSE IF act = kernel_curr_act
              THEN sched_reschedule(sched_delete(Now, act), 0)
              ELSE Resume(sched_delete(Now, act))
  /\ UNCHANGED <<expected_reply, kernel_next_act, unique>>

(* syscall 42, an unknown syscall, a capability or data abort, any other   *)
(* exception: the kernel freezes.                                          *)
user_fault ==
  /\ kernel_panic("user fault")
  /\ UNCHANGED <<status, expected_reply, kernel_next_act, unique>>
=============================================================================
