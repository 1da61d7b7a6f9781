------------------------- MODULE ActivationsProofs -------------------------
(***************************************************************************)
(* Theorems about Activations.  The scheduler's invariant SchedInv is      *)
(* inductive as long as an activation terminates nobody but itself; with   *)
(* interrupts it needs IrqInv, that they go to an activation that exists.  *)
(*                                                                         *)
(* That kernel_creturn never meets an answer it does not expect and that   *)
(* no answer is lost is proved by following each reply token from          *)
(* get_sync_token through the callee's queue, c1 and memory back to        *)
(* kernel_creturn.  From that invariant the kernel implements Ipc: each of *)
(* its handlers is a step of Ipc under the mapping of Activations, or      *)
(* changes nothing that Ipc sees.                                          *)
(***************************************************************************)
EXTENDS Activations, KernelProofs

CoreType == KTypeOK /\ held \in [Aid -> SUBSET Token]

SchedInv ==
  /\ CoreType
  /\ SchedOK(Now)
  /\ CurrRunnable
  /\ TerminatedStays
  /\ kernel_next_act > 1
  /\ \A a \in Aid : a >= kernel_next_act => sched_status[a] = "waiting"

IrqInv == IrqTypeOK /\ IrqOwned

(* The parts of TypeOK that only some handlers assign.                     *)
UserType == /\ status \in [Aid -> Status]
            /\ expected_reply \in [Aid -> 0 .. UNIQUE_MOD - 1]
            /\ unique \in 0 .. UNIQUE_MOD - 1
            /\ held \in [Aid -> SUBSET Token]

(* What a handler leaves of status matches the statuses st.                *)
Matches(st) ==
  /\ \A a \in Aid : st[a] = "terminated" <=> status'[a] = "terminated"
  /\ \A a \in Aid : a >= kernel_next_act' => st[a] = "waiting"
  /\ kernel_next_act' = kernel_next_act

LEMMA InvFacts ==
  ASSUME SchedInv, Running
  PROVE  /\ UserType /\ SchedOK(Now) /\ SchedType(Now) /\ panic = "no"
         /\ curr \in Aid /\ curr # 0 /\ sched_status[curr] = "runnable"
         /\ kernel_next_act \in 2 .. MAX_ACTIVATIONS
         /\ \A a \in Aid : sched_status[a] = "terminated" <=> status[a] = "terminated"
         /\ \A a \in Registered : a \in Aid /\ a # 0 /\ a < kernel_next_act
<1>1. /\ UserType /\ SchedOK(Now) /\ panic = "no" /\ curr \in Aid
      /\ sched_status[curr] = "runnable" /\ kernel_next_act \in 2 .. MAX_ACTIVATIONS
      /\ \A a \in Aid : sched_status[a] = "terminated" <=> status[a] = "terminated"
  BY MaxActivationsAssumption
     DEF SchedInv, CoreType, KTypeOK, UserType, Running, CurrRunnable, TerminatedStays, curr
<1>2. SchedType(Now) /\ curr # 0
  BY <1>1 DEF SchedOK, Now
<1>3. \A a \in Registered : a \in Aid /\ a # 0 /\ a < kernel_next_act
  BY <1>1, MaxActivationsAssumption DEF Registered, Aid
<1> QED BY <1>1, <1>2, <1>3

(* A step that lets the scheduler decide keeps the invariant.              *)
LEMMA SettledInv ==
  ASSUME SchedInv, Running, NEW st, Settled(st), Matches(st), UserType'
  PROVE  SchedInv'
<1>1. CASE panic' \in Stops /\ UNCHANGED <<sched_status, rq, msg_queues, frame, kernel_curr_act>>
  BY <1>1
     DEF SchedInv, CoreType, KTypeOK, UserType, SchedOK, SchedType, Now, CurrRunnable,
         TerminatedStays, Running, Stops, Matches, Mail
<1>2. CASE /\ panic' = "no" /\ SchedOK(Next_s)
           /\ kernel_curr_act' \in Aid /\ sched_status'[kernel_curr_act'] = "runnable"
           /\ \A a \in Aid : /\ sched_status'[a] = "terminated" <=> st[a] = "terminated"
                             /\ st[a] = "waiting" => sched_status'[a] = "waiting"
  <2>1. SchedOK(Now)'
    BY <1>2 DEF SchedOK, SchedType, Now, Next_s, Mail
  <2>2. CoreType'
    BY <1>2 DEF SchedInv, CoreType, KTypeOK, UserType, SchedOK, SchedType, Next_s, Matches
  <2>3. CurrRunnable' /\ TerminatedStays'
    BY <1>2 DEF CurrRunnable, TerminatedStays, Matches, curr
  <2>4. kernel_next_act' > 1 /\ \A a \in Aid : a >= kernel_next_act' => sched_status'[a] = "waiting"
    BY <1>2 DEF Matches, SchedInv
  <2> QED BY <2>1, <2>2, <2>3, <2>4 DEF SchedInv
<1> QED BY <1>1, <1>2 DEF Settled

(* So does one that returns to the activation that entered the kernel.     *)
LEMMA ResumedInv ==
  ASSUME SchedInv, Running, NEW s, SchedOK(s), Resume(s), s.st[curr] = "runnable",
         Matches(s.st), UserType'
  PROVE  SchedInv'
<1>1. panic = "no" /\ curr \in Aid
  BY InvFacts
<1>2. /\ panic' = "no" /\ SchedOK(Next_s) /\ kernel_curr_act' \in Aid
      /\ sched_status' = s.st /\ kernel_curr_act' = curr
  BY <1>1 DEF Resume, Next_s, SchedOK, SchedType, Mail, curr
<1>3. Settled(s.st)
  BY <1>2 DEF Settled
<1> QED BY <1>3, SettledInv

(* Entering the kernel changes only registers.                             *)
LEMMA EnterOK ==
  ASSUME SchedInv, Running, NEW arg \in Arg \cup {ZERO}
  PROVE  SchedOK(Enter(arg)) /\ Enter(arg).st = sched_status /\ Enter(arg).mq = msg_queues
BY InvFacts DEF SchedOK, SchedType, Now, Enter, Msg, Mail, curr

(* The statuses of a push: the receiver may become schedulable.            *)
LEMMA PushStatus ==
  ASSUME NEW s, s.st \in [Aid -> SchedStatus], NEW dest \in Aid, NEW m
  PROVE  LET t == msg_push(s, dest, m)
         IN  /\ \A a \in Aid : a # dest => t.st[a] = s.st[a]
             /\ t.st[dest] \in {s.st[dest], "schedulable"}
             /\ s.st[dest] # "waiting" => t.st[dest] = s.st[dest]
             /\ t.st[dest] = "terminated" <=> s.st[dest] = "terminated"
BY DEF msg_push, sched_d2a

(* The push of an asynchronous call.                                       *)
LEMMA AsyncPushOK ==
  ASSUME SchedInv, Running, NEW cb \in Registered, NEW arg \in Arg
  PROVE  /\ SchedOK(async_push(cb, arg))
         /\ async_push(cb, arg).st[curr] = "runnable"
         /\ \A a \in Aid : /\ a >= kernel_next_act => async_push(cb, arg).st[a] = "waiting"
                           /\ async_push(cb, arg).st[a] = "terminated"
                                <=> sched_status[a] = "terminated"
<1> DEFINE m == [v0 |-> arg, c1 |-> NULL]
<1>1. SchedOK(Enter(arg)) /\ Enter(arg).st = sched_status /\ Enter(arg).mq = msg_queues
  BY EnterOK
<1>2. SchedOK(Enter(ZERO)) /\ Enter(ZERO).st = sched_status
  BY EnterOK
<1>3. /\ cb \in Aid /\ cb # 0 /\ cb < kernel_next_act /\ kernel_next_act \in Nat
      /\ curr \in Aid /\ sched_status[curr] = "runnable"
      /\ sched_status \in [Aid -> SchedStatus]
      /\ \A a \in Aid : a >= kernel_next_act => sched_status[a] = "waiting"
  BY InvFacts DEF SchedInv, SchedType, Now
<1>4. m \in Msg
  BY DEF Msg
<1>5. CASE full(msg_queues[cb])
  BY <1>2, <1>3, <1>5 DEF async_push
<1>6. CASE ~full(msg_queues[cb])
  <2>1. async_push(cb, arg) = msg_push(Enter(arg), cb, m)
    BY <1>6 DEF async_push
  <2>2. SchedOK(msg_push(Enter(arg), cb, m))
    BY <1>1, <1>3, <1>4, <1>6, PushOK
  <2>3. \A a \in Aid : a >= kernel_next_act => a # cb
    BY <1>3, MaxActivationsAssumption DEF Aid
  <2> QED BY <2>1, <2>2, <2>3, <1>1, <1>3, PushStatus
<1> QED BY <1>5, <1>6

(* Tokens are tokens wherever they are kept.                               *)
LEMMA MineTyped ==
  ASSUME SchedInv, Running, NEW tokens \in SUBSET mine, Keeps(tokens)
  PROVE  mine \in SUBSET Token /\ held' \in [Aid -> SUBSET Token]
<1>1. /\ held \in [Aid -> SUBSET Token] /\ curr \in Aid
      /\ frame \in [Aid -> Msg]
  BY InvFacts DEF UserType, SchedType, Now
<1>2. frame[curr].c1 \in Token \cup {NULL}
  BY <1>1 DEF Msg
<1>3. mine \in SUBSET Token
  BY <1>1, <1>2 DEF mine
<1> QED BY <1>1, <1>3 DEF Keeps

(* A refused call.                                                         *)
LEMMA RefusedInv ==
  ASSUME SchedInv, NEW cb \in Registered, NEW store, NEW arg \in Arg,
         Refused(cb, store, arg)
  PROVE  SchedInv'
<1>1. Running /\ Resume(Enter(arg)) /\ Keeps(mine)
      /\ UNCHANGED <<status, expected_reply, kernel_next_act, unique>>
  BY DEF Refused, ccall_refused
<1>2. UserType'
  BY <1>1, InvFacts, MineTyped DEF UserType
<1>3. SchedOK(Enter(arg)) /\ Enter(arg).st = sched_status
  BY <1>1, EnterOK
<1>4. Matches(Enter(arg).st)
  BY <1>1, <1>3, InvFacts DEF Matches, SchedInv
<1> QED BY <1>1, <1>2, <1>3, <1>4, InvFacts, ResumedInv

(* An asynchronous call.                                                   *)
LEMMA SendInv ==
  ASSUME SchedInv, NEW cb \in Registered, NEW store, NEW arg \in Arg,
         Send(cb, store, arg)
  PROVE  SchedInv'
<1>1. Running /\ Resume(async_push(cb, arg)) /\ Keeps(mine)
      /\ UNCHANGED <<status, expected_reply, kernel_next_act, unique>>
  BY DEF Send, ccall_send
<1>2. UserType'
  BY <1>1, InvFacts, MineTyped DEF UserType
<1>3. Matches(async_push(cb, arg).st)
  BY <1>1, InvFacts, AsyncPushOK DEF Matches
<1> QED BY <1>1, <1>2, <1>3, AsyncPushOK, ResumedInv

(* An asynchronous call that also gives up the processor.                  *)
LEMMA SwitchInv ==
  ASSUME SchedInv, NEW cb \in Registered, NEW store, NEW arg \in Arg,
         Switch(cb, store, arg)
  PROVE  SchedInv'
<1>1. Running /\ act_wait(async_push(cb, arg), curr, cb) /\ Keeps(mine)
      /\ UNCHANGED <<status, expected_reply, kernel_next_act, unique>>
  BY DEF Switch, ccall_switch, curr
<1>2. UserType'
  BY <1>1, InvFacts, MineTyped DEF UserType
<1>3. Matches(async_push(cb, arg).st)
  BY <1>1, InvFacts, AsyncPushOK DEF Matches
<1>4. Settled(async_push(cb, arg).st)
  <2>1. cb \in Aid /\ curr \in Aid /\ panic = "no"
    BY <1>1, InvFacts
  <2>2. SchedOK(async_push(cb, arg)) /\ async_push(cb, arg).st[curr] = "runnable"
    BY <1>1, AsyncPushOK
  <2> QED BY <1>1, <2>1, <2>2, WaitSettles
<1> QED BY <1>1, <1>2, <1>3, <1>4, SettledInv

(* A synchronous call.                                                     *)
LEMMA CallInv ==
  ASSUME SchedInv, NEW cb \in Registered, NEW store, NEW arg \in Arg,
         Call(cb, store, arg)
  PROVE  SchedInv'
<1> DEFINE token == [aid |-> curr, unique |-> next_unique]
           m == [v0 |-> arg, c1 |-> token]
           pushed == msg_push(Enter(arg), cb, m)
           t == sched_a2d(pushed, curr, "sync_block")
<1>1. /\ Running /\ Keeps(mine)
      /\ unique' = next_unique
      /\ expected_reply' = [expected_reply EXCEPT ![curr] = next_unique]
      /\ UNCHANGED <<status, kernel_next_act>>
      /\ IF full(msg_queues[cb])
           THEN kernel_panic("queue full (csync)")
           ELSE IF ~QDEL_assert(pushed.rq, curr)
                  THEN kernel_panic("assertion")
                  ELSE sched_reschedule(t, cb)
  BY DEF Call, ccall_sync, curr
<1>2. /\ cb \in Aid /\ cb # 0 /\ cb < kernel_next_act /\ kernel_next_act \in Nat
      /\ curr \in Aid /\ sched_status[curr] = "runnable" /\ panic = "no" /\ UserType
      /\ sched_status \in [Aid -> SchedStatus]
      /\ \A a \in Aid : a >= kernel_next_act => sched_status[a] = "waiting"
      /\ \A a \in Aid : sched_status[a] = "terminated" <=> status[a] = "terminated"
  <2>1. Running
    BY <1>1
  <2> HIDE DEF token, m, pushed, t
  <2> QED BY <2>1, InvFacts DEF SchedInv, SchedType, Now
<1>3. next_unique \in 0 .. UNIQUE_MOD - 1
  BY <1>2, ModAssumption DEF UserType, next_unique
<1>4. UserType'
  BY <1>1, <1>2, <1>3, MineTyped DEF UserType
<1>5. CASE full(msg_queues[cb])
  <2>1. Settled(sched_status)
    BY <1>1, <1>5 DEF Settled, kernel_panic, Stops
  <2>2. Matches(sched_status)
    BY <1>1, <1>2 DEF Matches
  <2> QED BY <1>1, <1>4, <2>1, <2>2, SettledInv
<1>6. CASE ~full(msg_queues[cb])
  <2>1. m \in Msg
    BY <1>2, <1>3 DEF Msg, Token
  <2>2. SchedOK(Enter(arg)) /\ Enter(arg).st = sched_status /\ Enter(arg).mq = msg_queues
    BY <1>1, EnterOK
  <2>3. SchedOK(pushed)
    BY <1>2, <1>6, <2>1, <2>2, PushOK
  <2>4. /\ \A a \in Aid : a # cb => pushed.st[a] = sched_status[a]
        /\ sched_status[cb] # "waiting" => pushed.st[cb] = sched_status[cb]
        /\ pushed.st[cb] = "terminated" <=> sched_status[cb] = "terminated"
    BY <1>2, <2>2, PushStatus
  <2>5. pushed.st[curr] = "runnable" /\ pushed.st \in [Aid -> SchedStatus]
    BY <1>2, <2>3, <2>4 DEF SchedOK, SchedType
  <2>6. curr \in Active(pushed.st)
    BY <1>2, <2>5 DEF Active
  <2>7. SchedOK(t) /\ QDEL_assert(pushed.rq, curr)
    BY <2>3, <2>6, A2DOK
  <2>8. Settled(t.st)
    <3>1. sched_reschedule(t, cb)
      BY <1>1, <1>6, <2>7
    <3> QED BY <1>2, <2>7, <3>1, RescheduleSettles
  <2>9. Matches(t.st)
    <3>1. t.st = [pushed.st EXCEPT ![curr] = "sync_block"]
      BY DEF sched_a2d
    <3>2. \A a \in Aid : a >= kernel_next_act => a # cb
      BY <1>2, MaxActivationsAssumption DEF Aid
    <3> QED BY <1>1, <1>2, <2>4, <2>5, <3>1, <3>2 DEF Matches
  <2> QED BY <1>1, <1>4, <2>8, <2>9, SettledInv
<1> QED BY <1>5, <1>6

(* Waiting for the next message.                                           *)
LEMMA WaitInv ==
  ASSUME SchedInv, NEW arg \in Arg, Wait(arg)
  PROVE  SchedInv'
<1>1. Running /\ act_wait(Enter(arg), curr, curr) /\ Keeps(mine)
      /\ UNCHANGED <<status, expected_reply, kernel_next_act, unique>>
  BY DEF Wait, creturn_null, curr
<1>2. UserType'
  BY <1>1, InvFacts, MineTyped DEF UserType
<1>3. SchedOK(Enter(arg)) /\ Enter(arg).st = sched_status
  BY <1>1, EnterOK
<1>4. Matches(Enter(arg).st)
  BY <1>1, <1>3, InvFacts DEF Matches, SchedInv
<1>5. Settled(Enter(arg).st)
  BY <1>1, <1>3, InvFacts, WaitSettles
<1> QED BY <1>1, <1>2, <1>4, <1>5, SettledInv

(* Yielding.                                                               *)
LEMMA SleepInv ==
  ASSUME SchedInv, Sleep
  PROVE  SchedInv'
<1>1. Running /\ sched_reschedule(Now, 0)
      /\ UNCHANGED <<status, expected_reply, kernel_next_act, unique, held>>
  BY DEF Sleep, syscall_sleep
<1>2. UserType' /\ Matches(sched_status)
  BY <1>1, InvFacts DEF UserType, Matches, SchedInv
<1>3. Settled(sched_status)
  <2>1. 0 \in Aid
    BY MaxActivationsAssumption DEF Aid
  <2>2. Settled(Now.st)
    BY <1>1, <2>1, InvFacts, RescheduleSettles
  <2> QED BY <2>2 DEF Now
<1> QED BY <1>1, <1>2, <1>3, SettledInv

(* Registration: the slot was waiting, with nothing in the run queue.      *)
LEMMA RegisterInv ==
  ASSUME SchedInv, Register
  PROVE  SchedInv'
<1> DEFINE new == kernel_next_act
<1>1. Running /\ act_register /\ UNCHANGED held
  BY DEF Register
<1>2. /\ new \in 2 .. MAX_ACTIVATIONS /\ SchedOK(Now) /\ UserType /\ panic = "no"
      /\ curr \in Aid /\ sched_status[curr] = "runnable"
      /\ \A a \in Aid : sched_status[a] = "terminated" <=> status[a] = "terminated"
  BY <1>1, InvFacts
<1>3. /\ sched_status \in [Aid -> SchedStatus] /\ rq \in RunQueues
      /\ sched_status[0] = "terminated" /\ Lists(rq, Active(sched_status))
      /\ msg_queues \in [Aid -> Rings(Msg)] /\ frame \in [Aid -> Msg]
      /\ \A a \in Aid : Mail(Now, a)
  BY <1>2 DEF SchedOK, SchedType, Now
<1>4. CASE new >= MAX_ACTIVATIONS
  <2>1. Settled(sched_status)
    BY <1>1, <1>4 DEF act_register, Settled, kernel_panic, Stops
  <2>2. Matches(sched_status) /\ UserType'
    BY <1>1, <1>2, <1>4 DEF act_register, Matches, SchedInv, UserType
  <2> QED BY <1>1, <2>1, <2>2, SettledInv
<1>5. CASE ~(new >= MAX_ACTIVATIONS)
  <2> DEFINE s == [st |-> [sched_status EXCEPT ![new] = "waiting"], rq |-> rq,
                   mq |-> [msg_queues EXCEPT ![new] = msg_queue_init(msg_queues[new])],
                   fr |-> [frame EXCEPT ![new] = NoMsg]]
  <2>1. /\ status' = [status EXCEPT ![new] = "alive"]
        /\ sched_status' = s.st /\ rq' = s.rq /\ msg_queues' = s.mq /\ frame' = s.fr
        /\ kernel_next_act' = new + 1
        /\ UNCHANGED <<kernel_curr_act, panic, expected_reply, unique, held>>
    BY <1>1, <1>5 DEF act_register
  <2>2. new \in Aid /\ new # 0
    BY <1>2, <1>5, MaxActivationsAssumption DEF Aid
  <2>3. sched_status[new] = "waiting"
    BY <2>2, <1>2 DEF SchedInv
  <2>4. s.st = sched_status
    BY <2>3, <2>2, <1>3
  <2>5. msg_queue_init(msg_queues[new]) \in Rings(Msg) /\ empty(msg_queue_init(msg_queues[new]))
    BY <2>2, <1>3, MaxMsgAssumption DEF msg_queue_init, Rings, empty, Slot
  <2>6. NoMsg \in Msg
    BY DEF NoMsg, Msg
  <2>7. s.mq \in [Aid -> Rings(Msg)] /\ s.fr \in [Aid -> Msg]
    BY <1>3, <2>2, <2>5, <2>6
  <2>8. \A a \in Aid : Mail(s, a)
    BY <1>3, <2>2, <2>3, <2>4, <2>5 DEF Mail, Now
  <2>9. SchedOK(s)
    BY <1>3, <2>4, <2>7, <2>8 DEF SchedOK, SchedType
  <2>10. SchedOK(Now)'
    BY <2>1, <2>9 DEF SchedOK, SchedType, Now, Mail
  <2>11. UserType'
    BY <1>2, <2>1, <2>2 DEF UserType, Status
  <2>12. CoreType'
    <3>1. new + 1 \in 0 .. MAX_ACTIVATIONS
      BY <1>2, <1>5, MaxActivationsAssumption
    <3> QED BY <2>1, <2>10, <2>11, <3>1, <1>2
        DEF CoreType, KTypeOK, UserType, SchedOK, SchedType, Now, curr
  <2>13. CurrRunnable' /\ TerminatedStays'
    <3>1. \A a \in Aid : status'[a] = "terminated" <=> status[a] = "terminated"
      BY <1>2, <2>1, <2>2, <2>3 DEF UserType
    <3> QED BY <3>1, <1>2, <2>1, <2>4 DEF CurrRunnable, TerminatedStays, curr
  <2>14. /\ kernel_next_act' > 1
         /\ \A a \in Aid : a >= kernel_next_act' => sched_status'[a] = "waiting"
    <3>1. \A a \in Aid : a >= new + 1 => a >= new
      BY <1>2, MaxActivationsAssumption DEF Aid
    <3> QED BY <3>1, <1>2, <2>1, <2>4 DEF SchedInv
  <2> QED BY <2>10, <2>12, <2>13, <2>14 DEF SchedInv
<1> QED BY <1>4, <1>5

(* Revocation only changes status, of an activation not terminated.        *)
LEMMA RevokeInv ==
  ASSUME SchedInv, NEW act \in Registered, Revoke(act)
  PROVE  SchedInv'
<1>1. Running /\ status[act] # "terminated" /\ status' = [status EXCEPT ![act] = "revoked"]
      /\ UNCHANGED <<sched_status, expected_reply, msg_queues, frame, rq,
                     kernel_curr_act, kernel_next_act, unique, panic, held>>
  BY DEF Revoke, act_revoke
<1>2. UserType /\ act \in Aid
  BY <1>1, InvFacts
<1>3. status' \in [Aid -> Status]
      /\ \A a \in Aid : status'[a] = "terminated" <=> status[a] = "terminated"
  BY <1>1, <1>2 DEF UserType, Status
<1>4. SchedOK(Now)'
  BY <1>1 DEF SchedInv, SchedOK, SchedType, Now, Mail
<1> QED BY <1>1, <1>3, <1>4
    DEF SchedInv, CoreType, KTypeOK, CurrRunnable, TerminatedStays, Running, curr

(* An activation that terminates itself leaves the run queue.              *)
LEMMA DeleteOK ==
  ASSUME SchedInv, Terminate(curr)
  PROVE  LET t == sched_delete(Now, curr)
         IN  /\ SchedOK(t) /\ sched_reschedule(t, 0)
             /\ t.st = [sched_status EXCEPT ![curr] = "terminated"]
             /\ status' = [status EXCEPT ![curr] = "terminated"]
             /\ UNCHANGED <<expected_reply, kernel_next_act, unique>>
<1> DEFINE t == sched_delete(Now, curr)
<1>1. Running /\ act_terminate(curr) /\ UNCHANGED held
  BY DEF Terminate
<1>2. /\ SchedOK(Now) /\ UserType /\ panic = "no" /\ curr \in Aid /\ curr # 0
      /\ sched_status[curr] = "runnable" /\ kernel_next_act \in Nat
      /\ \A a \in Aid : sched_status[a] = "terminated" <=> status[a] = "terminated"
      /\ sched_status \in [Aid -> SchedStatus] /\ rq \in RunQueues
      /\ sched_status[0] = "terminated" /\ Lists(rq, Active(sched_status))
      /\ msg_queues \in [Aid -> Rings(Msg)] /\ frame \in [Aid -> Msg]
      /\ \A a \in Aid : Mail(Now, a)
  BY <1>1, InvFacts DEF SchedOK, SchedType, Now
<1>3. curr \in Active(sched_status) /\ Active(sched_status) \in SUBSET Aid
  BY <1>2 DEF Active
<1>4. rq.squeue_a[rq.aqueue[curr]] = curr /\ rq.end > 0
  BY <1>2, <1>3, ListedSlot
<1>5. /\ t.st = [sched_status EXCEPT ![curr] = "terminated"] /\ t.rq = QDEL(rq, curr)
      /\ t.mq = msg_queues /\ t.fr = frame
  BY <1>4 DEF sched_delete, Now
<1>6. QDEL(rq, curr) \in RunQueues /\ Lists(QDEL(rq, curr), Active(sched_status) \ {curr})
  BY <1>2, <1>3, QDelLists
<1>7. Active(t.st) = Active(sched_status) \ {curr}
  <2>1. "terminated" \in {"waiting", "sync_block", "terminated"}
    OBVIOUS
  <2>2. Active([sched_status EXCEPT ![curr] = "terminated"]) = Active(sched_status) \ {curr}
    BY <2>1, <1>2, ActiveRemove, Zenon
  <2> QED BY <2>2, <1>5, Zenon
<1>8. t.st \in [Aid -> SchedStatus] /\ t.st[0] = "terminated"
  BY <1>2, <1>5 DEF SchedStatus
<1>9. \A a \in Aid : Mail(t, a)
  BY <1>2, <1>5 DEF Mail, Now
<1>10. SchedOK(t)
  BY <1>2, <1>5, <1>6, <1>7, <1>8, <1>9 DEF SchedOK, SchedType
<1>11. /\ sched_reschedule(t, 0) /\ status' = [status EXCEPT ![curr] = "terminated"]
       /\ UNCHANGED <<expected_reply, kernel_next_act, unique>>
  <2>1. ~(rq.squeue_a[rq.aqueue[curr]] = curr /\ rq.end = 0)
    BY <1>4
  <2>2. curr = kernel_curr_act
    BY DEF curr
  <2> QED BY <1>1, <2>1, <2>2, Zenon DEF act_terminate
<1> QED BY <1>5, <1>10, <1>11

LEMMA TerminateInv ==
  ASSUME SchedInv, Terminate(curr)
  PROVE  SchedInv'
<1> DEFINE t == sched_delete(Now, curr)
<1>1. Running /\ UNCHANGED held
  BY DEF Terminate
<1>2. /\ SchedOK(t) /\ sched_reschedule(t, 0)
      /\ t.st = [sched_status EXCEPT ![curr] = "terminated"]
      /\ status' = [status EXCEPT ![curr] = "terminated"]
      /\ UNCHANGED <<expected_reply, kernel_next_act, unique>>
  BY DeleteOK
<1>3. /\ UserType /\ panic = "no" /\ curr \in Aid /\ sched_status[curr] = "runnable"
      /\ \A a \in Aid : sched_status[a] = "terminated" <=> status[a] = "terminated"
      /\ sched_status \in [Aid -> SchedStatus]
  BY <1>1, InvFacts DEF SchedType, Now
<1> HIDE DEF t
<1>4. Settled(t.st)
  <2>1. 0 \in Aid
    BY MaxActivationsAssumption DEF Aid
  <2> QED BY <2>1, <1>2, <1>3, RescheduleSettles
<1>5. UserType'
  BY <1>1, <1>2, <1>3 DEF UserType, Status
<1>6. Matches(t.st)
  BY <1>2, <1>3 DEF Matches, SchedInv, UserType
<1> QED BY <1>1, <1>4, <1>5, <1>6, SettledInv

(* An answer puts its caller back in the run queue.                        *)
LEMMA ReplyOK ==
  ASSUME SchedInv, Running, NEW token, token.aid \in Aid, NEW arg \in Arg,
         sched_status[token.aid] = "sync_block"
  PROVE  LET r == reply(token, arg)
         IN  /\ SchedOK(r) /\ r.st[curr] = "runnable"
             /\ \A a \in Aid : r.st[a] = IF a = token.aid THEN "runnable" ELSE sched_status[a]
<1> DEFINE e == Enter(arg)
           w == sched_d2a(e, token.aid, "runnable")
           r == reply(token, arg)
<1>1. /\ curr \in Aid /\ sched_status[curr] = "runnable"
      /\ sched_status \in [Aid -> SchedStatus] /\ sched_status[0] = "terminated"
  BY InvFacts DEF SchedOK, SchedType, Now
<1>2. SchedOK(e) /\ e.st = sched_status /\ e.mq = msg_queues
  BY EnterOK
<1>3. token.aid # 0 /\ token.aid # curr /\ token.aid \notin Active(e.st)
  BY <1>1, <1>2 DEF Active
<1>4. SchedType(w) /\ w.st[0] = "terminated" /\ Lists(w.rq, Active(w.st))
  <2>1. SchedType(e) /\ e.st[0] = "terminated" /\ Lists(e.rq, Active(e.st))
    BY <1>2 DEF SchedOK
  <2>2. "runnable" \in {"runnable", "schedulable"} /\ token.aid \in Aid \ {0}
    BY <1>3
  <2> QED BY <1>3, <2>1, <2>2, D2ALists, Zenon
<1>5. /\ w.st = [sched_status EXCEPT ![token.aid] = "runnable"] /\ w.mq = msg_queues
      /\ w.fr = e.fr
  BY <1>2 DEF sched_d2a
<1>6. /\ r.st = w.st /\ r.rq = w.rq /\ r.mq = w.mq
      /\ r.fr = [w.fr EXCEPT ![token.aid] = [v0 |-> arg, c1 |-> w.fr[token.aid].c1]]
  BY DEF reply
<1>7. r.fr \in [Aid -> Msg]
  BY <1>4, <1>6 DEF SchedType, Msg
<1>8. /\ r.mq = msg_queues
      /\ \A a \in Aid : r.st[a] = IF a = token.aid THEN "runnable" ELSE sched_status[a]
  <2>1. r.st = [sched_status EXCEPT ![token.aid] = "runnable"] /\ r.mq = msg_queues
    BY <1>5, <1>6, Zenon
  <2> HIDE DEF r
  <2> QED BY <2>1, <1>1
<1>9. \A a \in Aid : Mail(r, a)
  <2>1. \A a \in Aid : Mail(e, a)
    BY <1>2 DEF SchedOK
  <2> HIDE DEF r, e
  <2> QED BY <1>8, <2>1, <1>2 DEF Mail
<1>10. SchedOK(r)
  BY <1>4, <1>6, <1>7, <1>9 DEF SchedOK, SchedType
<1> QED BY <1>1, <1>3, <1>8, <1>10

(* An answer, expected or not.                                             *)
LEMMA ReturnInv ==
  ASSUME SchedInv, NEW token \in mine, NEW arg \in Arg, Return(token, arg)
  PROVE  SchedInv'
<1> DEFINE r == reply(token, arg)
<1>1. /\ Running /\ Keeps(mine \ {token})
      /\ UNCHANGED <<status, expected_reply, kernel_next_act, unique>>
      /\ IF ~Expected(token)
           THEN kernel_panic("bad sync creturn")
           ELSE IF sched_status[token.aid] # "sync_block"
                  THEN kernel_panic("assertion")
                  ELSE act_wait(r, curr, token.aid)
  BY DEF Return, creturn_sync, curr
<1> HIDE DEF r
<1>2. /\ UserType /\ panic = "no" /\ curr \in Aid /\ sched_status[curr] = "runnable"
      /\ \A a \in Aid : sched_status[a] = "terminated" <=> status[a] = "terminated"
      /\ \A a \in Aid : a >= kernel_next_act => sched_status[a] = "waiting"
  BY <1>1, InvFacts DEF SchedInv
<1>3. token.aid \in Aid /\ held' \in [Aid -> SUBSET Token]
  <2>1. mine \ {token} \in SUBSET mine
    OBVIOUS
  <2> QED BY <1>1, <2>1, MineTyped DEF Token
<1>4. UserType'
  BY <1>1, <1>2, <1>3 DEF UserType
<1>5. CASE ~Expected(token) \/ sched_status[token.aid] # "sync_block"
  <2>1. /\ panic' \in {"bad sync creturn", "assertion"}
        /\ UNCHANGED <<sched_status, rq, msg_queues, frame, kernel_curr_act>>
    BY <1>1, <1>5 DEF kernel_panic
  <2> QED BY <1>1, <1>4, <2>1
      DEF SchedInv, CoreType, KTypeOK, UserType, SchedOK, SchedType, Now, CurrRunnable,
          TerminatedStays, Running, Faults, Mail
<1>6. CASE Expected(token) /\ sched_status[token.aid] = "sync_block"
  <2>1. /\ SchedOK(r) /\ r.st[curr] = "runnable"
        /\ \A a \in Aid : r.st[a] = IF a = token.aid THEN "runnable" ELSE sched_status[a]
    BY <1>1, <1>3, <1>6, ReplyOK DEF r
  <2>2. Settled(r.st)
    BY <1>1, <1>2, <1>3, <1>6, <2>1, WaitSettles
  <2>3. Matches(r.st)
    BY <1>1, <1>2, <1>6, <2>1 DEF Matches
  <2> QED BY <1>1, <1>4, <2>2, <2>3, SettledInv
<1> QED BY <1>5, <1>6

(* A fault of user code stops the kernel.                                  *)
LEMMA FaultInv ==
  ASSUME SchedInv, Fault
  PROVE  SchedInv'
<1>1. Running /\ panic' = "user fault"
      /\ UNCHANGED <<sched_status, rq, msg_queues, frame, kernel_curr_act>>
      /\ UNCHANGED <<status, expected_reply, kernel_next_act, unique, held>>
  BY DEF Fault, user_fault, kernel_panic
<1>2. UserType' /\ Matches(sched_status)
  BY <1>1, InvFacts DEF UserType, Matches, SchedInv
<1>3. Settled(sched_status)
  BY <1>1 DEF Settled, Stops
<1> QED BY <1>1, <1>2, <1>3, SettledInv

(* A tick of the timer lets the scheduler decide, as a yield does.         *)
LEMMA TickInv ==
  ASSUME SchedInv, Tick
  PROVE  SchedInv'
<1>1. Running /\ sched_reschedule(Now, 0)
      /\ UNCHANGED <<status, expected_reply, kernel_next_act, unique, held>>
  BY DEF Tick, kernel_timer
<1>2. UserType' /\ Matches(sched_status)
  BY <1>1, InvFacts DEF UserType, Matches, SchedInv
<1>3. Settled(sched_status)
  <2>1. 0 \in Aid
    BY MaxActivationsAssumption DEF Aid
  <2>2. Settled(Now.st)
    BY <1>1, <2>1, InvFacts, RescheduleSettles
  <2> QED BY <2>2 DEF Now
<1> QED BY <1>1, <1>2, <1>3, SettledInv

(* The push of an interrupt's message, from the kernel's own registers.    *)
LEMMA InterruptOK ==
  ASSUME SchedInv, Running, IrqInv, NEW i \in Irq, Interrupt(i)
  PROVE  LET child == int_child[i]
             m == [v0 |-> INT, c1 |-> NULL]
         IN  /\ child \in Aid /\ child # 0 /\ child < kernel_next_act /\ m \in Msg
             /\ SchedOK(Interrupted) /\ Interrupted.st = sched_status
             /\ Interrupted.mq = msg_queues
             /\ ~full(msg_queues[child]) => SchedOK(msg_push(Interrupted, child, m))
<1> DEFINE child == int_child[i]
           m == [v0 |-> INT, c1 |-> NULL]
<1>1. child \in Aid /\ child # 0 /\ child < kernel_next_act
  BY DEF IrqInv, IrqTypeOK, IrqOwned, Interrupt, kernel_interrupt_others
<1>2. m \in Msg /\ INT \in Arg
  BY IrqAssumption DEF Msg
<1>3. /\ sched_status \in [Aid -> SchedStatus] /\ rq \in RunQueues
      /\ sched_status[0] = "terminated" /\ Lists(rq, Active(sched_status))
      /\ msg_queues \in [Aid -> Rings(Msg)] /\ frame \in [Aid -> Msg]
      /\ \A a \in Aid : Mail(Now, a)
  BY InvFacts DEF SchedOK, SchedType, Now
<1>4. [frame EXCEPT ![0] = [v0 |-> INT, c1 |-> frame[0].c1]] \in [Aid -> Msg]
  <2>1. 0 \in Aid
    BY MaxActivationsAssumption DEF Aid
  <2>2. [v0 |-> INT, c1 |-> frame[0].c1] \in Msg
    BY <1>2, <1>3, <2>1 DEF Msg
  <2> QED BY <1>3, <2>2
<1>5. SchedOK(Interrupted) /\ Interrupted.st = sched_status /\ Interrupted.mq = msg_queues
  BY <1>3, <1>4 DEF Interrupted, SchedOK, SchedType, Mail, Now
<1>6. ~full(msg_queues[child]) => SchedOK(msg_push(Interrupted, child, m))
  <2> HIDE DEF m, child
  <2> QED BY <1>1, <1>2, <1>5, PushOK
<1> QED BY <1>1, <1>2, <1>5, <1>6

(* An interrupt keeps the scheduler in order, whatever the activation it   *)
(* goes to is doing.                                                       *)
LEMMA InterruptInv ==
  ASSUME SchedInv, IrqInv, NEW i \in Irq, Interrupt(i)
  PROVE  SchedInv'
<1> DEFINE child == int_child[i]
           m == [v0 |-> INT, c1 |-> NULL]
           s == msg_push(Interrupted, child, m)
<1>1. /\ Running
      /\ UNCHANGED <<status, expected_reply, kernel_next_act, unique, held>>
      /\ IF full(msg_queues[child]) THEN kernel_panic("queue full (int)") ELSE Resume(s)
  BY DEF Interrupt, kernel_interrupt_others
<1>2. /\ child \in Aid /\ child < kernel_next_act
      /\ SchedOK(Interrupted) /\ Interrupted.st = sched_status
      /\ ~full(msg_queues[child]) => SchedOK(s)
  BY <1>1, InterruptOK
<1>3. UserType' /\ Matches(sched_status)
  BY <1>1, InvFacts DEF UserType, Matches, SchedInv
<1>4. CASE full(msg_queues[child])
  <2>1. Settled(sched_status)
    BY <1>1, <1>4 DEF Settled, kernel_panic, Stops
  <2> QED BY <1>1, <1>3, <2>1, SettledInv
<1>5. CASE ~full(msg_queues[child])
  <2>1. /\ sched_status \in [Aid -> SchedStatus] /\ curr \in Aid
        /\ sched_status[curr] = "runnable" /\ kernel_next_act \in Nat
        /\ \A a \in Aid : sched_status[a] = "terminated" <=> status[a] = "terminated"
        /\ \A a \in Aid : a >= kernel_next_act => sched_status[a] = "waiting"
    <3>1. Running
      BY <1>1
    <3> HIDE DEF child, m, s
    <3> QED BY <3>1, InvFacts DEF SchedType, Now, SchedInv
  <2>2. /\ \A a \in Aid : a # child => s.st[a] = sched_status[a]
        /\ sched_status[child] # "waiting" => s.st[child] = sched_status[child]
        /\ s.st[child] = "terminated" <=> sched_status[child] = "terminated"
    <3> HIDE DEF m, child
    <3> QED BY <1>2, <2>1, PushStatus
  <2>3. s.st[curr] = "runnable"
    BY <2>1, <2>2
  <2>4. \A a \in Aid : a >= kernel_next_act => a # child
    BY <1>2, <2>1, MaxActivationsAssumption DEF Aid
  <2> HIDE DEF s, child
  <2>5. Matches(s.st)
    BY <1>1, <1>2, <2>1, <2>2, <2>4 DEF Matches
  <2> QED BY <1>1, <1>2, <1>3, <1>5, <2>3, <2>5, ResumedInv
<1> QED BY <1>4, <1>5

(* act_init starts in order.                                               *)
LEMMA SchedInit == Init => SchedInv
<1> SUFFICES ASSUME Init PROVE SchedInv
  OBVIOUS
<1>1. act_init /\ held = [a \in Aid |-> {}]
  BY DEF Init
<1>2. 0 \in Aid /\ 1 \in Aid /\ 0 \in Slot
  BY MaxActivationsAssumption, MaxMsgAssumption DEF Aid, Slot
<1>3. /\ KTypeOK /\ SchedOK(Now) /\ kernel_curr_act = 1 /\ kernel_next_act = 2
      /\ held \in [Aid -> SUBSET Token] /\ panic = "no"
  BY <1>1, KernelInit DEF act_init
<1>4. CoreType
  BY <1>2, <1>3 DEF CoreType
<1>5. CurrRunnable /\ TerminatedStays
  BY <1>1, <1>2, <1>3 DEF act_init, CurrRunnable, TerminatedStays, curr
<1>6. \A a \in Aid : a >= kernel_next_act => sched_status[a] = "waiting"
  BY <1>1, <1>3, MaxActivationsAssumption DEF act_init, Aid
<1> QED BY <1>3, <1>4, <1>5, <1>6 DEF SchedInv

(* Every step keeps the scheduler's invariant.                             *)
LEMMA SchedStep ==
  ASSUME ForeignCtrl = FALSE, SchedInv, IrqInv, [Next]_vars
  PROVE  SchedInv'
<1>1. ASSUME NEW cb \in Registered, NEW store \in BOOLEAN, NEW arg \in Arg,
             \/ Refused(cb, store, arg) \/ Send(cb, store, arg)
             \/ Switch(cb, store, arg) \/ Call(cb, store, arg)
      PROVE  SchedInv'
  BY <1>1, RefusedInv, SendInv, SwitchInv, CallInv
<1>2. ASSUME NEW arg \in Arg, Wait(arg) PROVE SchedInv'
  BY <1>2, WaitInv
<1>3. ASSUME NEW token \in mine, NEW arg \in Arg, Return(token, arg) PROVE SchedInv'
  BY <1>3, ReturnInv
<1>4. ASSUME Sleep \/ Register \/ Fault \/ Tick PROVE SchedInv'
  BY <1>4, SleepInv, RegisterInv, FaultInv, TickInv
<1>5. ASSUME NEW act \in Registered, Revoke(act) PROVE SchedInv'
  BY <1>5, RevokeInv
<1>6. ASSUME Terminate(curr) PROVE SchedInv'
  BY <1>6, TerminateInv
<1>7. ASSUME UNCHANGED vars PROVE SchedInv'
  BY <1>7
     DEF vars, kvars, SchedInv, CoreType, KTypeOK, SchedOK, SchedType, Now, Mail, CurrRunnable,
         TerminatedStays, Running, curr
<1>8. ASSUME NEW i \in Irq, InterruptRegister(i) \/ InterruptEnable(i) PROVE SchedInv'
  <2>1. UNCHANGED <<kvars, held>>
    BY <1>8 DEF InterruptRegister, InterruptEnable, kernel_interrupt_register,
                kernel_interrupt_enable
  <2> QED BY <2>1
      DEF kvars, SchedInv, CoreType, KTypeOK, SchedOK, SchedType, Now, Mail, CurrRunnable,
          TerminatedStays, Running, curr
<1>9. ASSUME NEW i \in Irq, Interrupt(i) PROVE SchedInv'
  BY <1>9, InterruptInv
<1> QED BY <1>1, <1>2, <1>3, <1>4, <1>5, <1>6, <1>7, <1>8, <1>9 DEF Next, Frozen

(* Only registering an interrupt, and enabling or taking one, matter to    *)
(* IrqInv; every other step leaves them alone and registers activations.   *)
LEMMA IrqInit == Init => IrqInv
BY MaxActivationsAssumption
   DEF Init, act_init, interrupts_init, IrqInv, IrqTypeOK, IrqOwned, Aid

LEMMA IrqFrame ==
  ASSUME SchedInv, IrqInv, [Next]_vars,
         ~ \E i \in Irq : InterruptRegister(i) \/ InterruptEnable(i) \/ Interrupt(i)
  PROVE  UNCHANGED ivars /\ kernel_next_act' \in {kernel_next_act, kernel_next_act + 1}
<1>1. ASSUME NEW cb \in Registered, NEW store \in BOOLEAN, NEW arg \in Arg,
             \/ Refused(cb, store, arg) \/ Send(cb, store, arg)
             \/ Switch(cb, store, arg) \/ Call(cb, store, arg)
      PROVE  UNCHANGED <<ivars, kernel_next_act>>
  BY <1>1 DEF Refused, Send, Switch, Call, Keeps, ccall_refused, ccall_send, ccall_switch,
              ccall_sync
<1>2. ASSUME NEW arg \in Arg, Wait(arg) PROVE UNCHANGED <<ivars, kernel_next_act>>
  BY <1>2 DEF Wait, Keeps, creturn_null
<1>3. ASSUME NEW token \in mine, NEW arg \in Arg, Return(token, arg)
      PROVE  UNCHANGED <<ivars, kernel_next_act>>
  BY <1>3 DEF Return, Keeps, creturn_sync
<1>4. ASSUME Sleep \/ Fault \/ Tick PROVE UNCHANGED <<ivars, kernel_next_act>>
  BY <1>4 DEF Sleep, Fault, Tick, syscall_sleep, user_fault, kernel_timer
<1>5. ASSUME Register
      PROVE  /\ UNCHANGED ivars
             /\ kernel_next_act' \in {kernel_next_act, kernel_next_act + 1}
  BY <1>5 DEF Register, act_register
<1>6. ASSUME NEW act \in Registered, Revoke(act) PROVE UNCHANGED <<ivars, kernel_next_act>>
  BY <1>6 DEF Revoke, act_revoke
<1>7. ASSUME NEW act, Terminate(act) PROVE UNCHANGED <<ivars, kernel_next_act>>
  BY <1>7 DEF Terminate, act_terminate
<1>8. ASSUME UNCHANGED vars PROVE UNCHANGED <<ivars, kernel_next_act>>
  BY <1>8 DEF vars, kvars
<1> QED BY <1>1, <1>2, <1>3, <1>4, <1>5, <1>6, <1>7, <1>8 DEF Next, Frozen

LEMMA IrqStep ==
  ASSUME SchedInv, IrqInv, [Next]_vars
  PROVE  IrqInv'
<1>1. /\ int_child \in [Irq -> Aid] /\ im \in SUBSET Irq /\ kernel_next_act \in Nat
      /\ \A i \in Irq : (i \in im => int_child[i] # 0) /\ int_child[i] < kernel_next_act
  BY MaxActivationsAssumption DEF IrqInv, IrqTypeOK, IrqOwned, SchedInv, CoreType, KTypeOK
<1>2. ASSUME NEW i \in Irq, InterruptRegister(i) PROVE IrqInv'
  <2>1. Running /\ int_child' = [int_child EXCEPT ![i] = curr]
        /\ UNCHANGED <<im, kernel_next_act>>
    BY <1>2 DEF InterruptRegister, kernel_interrupt_register, curr, kvars
  <2>2. curr \in Aid /\ curr # 0 /\ curr < kernel_next_act
    <3>1. curr \in Aid /\ curr # 0 /\ sched_status[curr] = "runnable"
      BY <2>1, InvFacts
    <3>2. ~(curr >= kernel_next_act)
      BY <3>1 DEF SchedInv
    <3>3. curr \in Nat
      BY <3>1, MaxActivationsAssumption DEF Aid
    <3> QED BY <1>1, <3>1, <3>2, <3>3
  <2> QED BY <1>1, <2>1, <2>2 DEF IrqInv, IrqTypeOK, IrqOwned
<1>3. ASSUME NEW i \in Irq, InterruptEnable(i) PROVE IrqInv'
  <2>1. Running /\ int_child[i] = curr /\ im' = im \cup {i}
        /\ UNCHANGED <<int_child, kernel_next_act>>
    BY <1>3 DEF InterruptEnable, kernel_interrupt_enable, curr, kvars
  <2>2. curr # 0
    BY <2>1, InvFacts
  <2> QED BY <1>1, <2>1, <2>2 DEF IrqInv, IrqTypeOK, IrqOwned
<1>4. ASSUME NEW i \in Irq, Interrupt(i) PROVE IrqInv'
  <2>1. im' = im \ {i} /\ UNCHANGED <<int_child, kernel_next_act>>
    BY <1>4 DEF Interrupt, kernel_interrupt_others
  <2> QED BY <1>1, <2>1 DEF IrqInv, IrqTypeOK, IrqOwned
<1>5. ASSUME UNCHANGED ivars, kernel_next_act' \in {kernel_next_act, kernel_next_act + 1}
      PROVE  IrqInv'
  <2>1. \A i \in Irq : int_child[i] \in Nat
    BY <1>1, MaxActivationsAssumption DEF Aid
  <2> QED BY <1>1, <1>5, <2>1 DEF ivars, IrqInv, IrqTypeOK, IrqOwned
<1> QED BY <1>2, <1>3, <1>4, <1>5, IrqFrame

----------------------------------------------------------------------------
(* As long as an activation terminates nobody but itself, for any number   *)
(* of activations, queue length and width of the token counters:           *)

(* the scheduler's invariant holds always, with any interrupts;            *)
THEOREM SchedInvariant ==
  ASSUME ForeignCtrl = FALSE PROVE Spec => [](SchedInv /\ IrqInv)
<1>1. Init => SchedInv /\ IrqInv
  BY SchedInit, IrqInit
<1>2. SchedInv /\ IrqInv /\ [Next]_vars => (SchedInv /\ IrqInv)'
  BY SchedStep, IrqStep
<1> QED BY <1>1, <1>2, PTL DEF Spec

(* every variable keeps its type, so that no index leaves kernel_acts, the *)
(* run queue or a ring;                                                    *)
THEOREM TypeCorrect ==
  ASSUME ForeignCtrl = FALSE PROVE Spec => []TypeOK
<1>1. SchedInv /\ IrqInv => TypeOK
  BY DEF SchedInv, IrqInv, CoreType, TypeOK
<1> QED BY <1>1, SchedInvariant, PTL

(* the run queue lists exactly the activations that may run;               *)
THEOREM QueueExact ==
  ASSUME ForeignCtrl = FALSE PROVE Spec => []RunQueueExact
<1>1. SchedInv => RunQueueExact
  BY DEF SchedInv, SchedOK, Now, RunQueueExact, Active
<1> QED BY <1>1, SchedInvariant, PTL

(* no wake-up is lost;                                                     *)
THEOREM WakeUps ==
  ASSUME ForeignCtrl = FALSE PROVE Spec => []NoLostWakeup
<1>1. SchedInv => NoLostWakeup
  BY DEF SchedInv, SchedOK, Now, NoLostWakeup, Mail
<1> QED BY <1>1, SchedInvariant, PTL

(* only a terminated activation is out of the scheduler for good;          *)
THEOREM TerminatedForGood ==
  ASSUME ForeignCtrl = FALSE PROVE Spec => []TerminatedStays
<1>1. SchedInv => TerminatedStays
  BY DEF SchedInv
<1> QED BY <1>1, SchedInvariant, PTL

(* and the kernel returns only to an activation that may run.              *)
THEOREM ReturnsToRunnable ==
  ASSUME ForeignCtrl = FALSE PROVE Spec => []CurrRunnable
<1>1. SchedInv => CurrRunnable
  BY DEF SchedInv
<1> QED BY <1>1, SchedInvariant, PTL

(* An interrupt that is enabled has an activation to go to, which exists.  *)
THEOREM InterruptsOwned ==
  ASSUME ForeignCtrl = FALSE PROVE Spec => []IrqOwned
<1>1. IrqInv => IrqOwned
  BY DEF IrqInv
<1> QED BY <1>1, SchedInvariant, PTL

----------------------------------------------------------------------------
(* Reply tokens.                                                           *)

(* The places a token can be in.                                           *)
Place == [k : {"queue", "reg", "mem"}, a : Aid, i : Slot]

InSlot(a, i) == [k |-> "queue", a |-> a, i |-> i]
InC1(a)      == [k |-> "reg", a |-> a, i |-> 0]
InHeld(a)    == [k |-> "mem", a |-> a, i |-> 0]

(* Token t is in place p, of the handler's state s and the memories h.     *)
At(s, h, p, t) ==
  \/ /\ p.k = "queue"
     /\ p.i \in Pending(s.mq[p.a]) /\ s.mq[p.a].msg[p.i].c1 = t
  \/ p = InC1(p.a) /\ s.fr[p.a].c1 = t
  \/ p = InHeld(p.a) /\ t \in h[p.a]

(* Each token is owed to its blocked caller, whose expected reply is in er, *)
(* and is in one place only; each blocked caller has one.  An activation   *)
(* between two messages has none in c1, where the next would overwrite it. *)
AllOwed(s, h, er) ==
  \A t \in Token, p \in Place :
    At(s, h, p, t) => s.st[t.aid] = "sync_block" /\ er[t.aid] = t.unique

InOnePlace(s, h) ==
  \A t \in Token, p, q \in Place : At(s, h, p, t) /\ At(s, h, q, t) => p = q

NoneLost(s, h) ==
  \A c \in Aid : s.st[c] = "sync_block" =>
    \E t \in Token, p \in Place : t.aid = c /\ At(s, h, p, t)

Idle(stat) == stat \in {"waiting", "schedulable"}

IdleEmpty(s) == \A a \in Aid : Idle(s.st[a]) => s.fr[a].c1 = NULL

Good(s, h, er) ==
  AllOwed(s, h, er) /\ InOnePlace(s, h) /\ NoneLost(s, h) /\ IdleEmpty(s)

(* A handler's step ends well.                                             *)
Kept == /\ panic' \notin Faults
        /\ panic' = "no" => Good(Next_s, held', expected_reply')

(* A token may move from one place to another.                             *)
LEMMA MoveGood ==
  ASSUME NEW s, NEW s2, NEW h, NEW h2, NEW er, Good(s, h, er),
         \A a \in Aid : s.st[a] = "sync_block" <=> s2.st[a] = "sync_block",
         \A a \in Aid : Idle(s2.st[a]) => s2.fr[a].c1 = NULL,
         NEW from \in Place, NEW to \in Place,
         \A t \in Token, p \in Place :
            At(s2, h2, p, t) => At(s, h, p, t) \/ (p = to /\ At(s, h, from, t)),
         from # to => \A t \in Token : ~At(s2, h2, from, t),
         \A t \in Token, p \in Place :
            At(s, h, p, t) => At(s2, h2, p, t) \/ (p = from /\ At(s2, h2, to, t))
  PROVE  Good(s2, h2, er)
<1>1. \A t \in Token : t.aid \in Aid
  BY DEF Token
<1>2. AllOwed(s2, h2, er)
  BY <1>1 DEF AllOwed, Good
<1>3. InOnePlace(s2, h2)
  BY DEF InOnePlace, Good
<1>4. NoneLost(s2, h2)
  BY DEF NoneLost, Good
<1> QED BY <1>2, <1>3, <1>4 DEF Good, IdleEmpty

(* What the three kinds of place are.                                     *)
LEMMA PlaceFacts ==
  /\ \A a \in Aid : InC1(a) \in Place /\ InHeld(a) \in Place
  /\ \A a \in Aid, i \in Slot : InSlot(a, i) \in Place
BY MaxMsgAssumption DEF Place, InC1, InHeld, InSlot, Slot

(* Delivery moves a token from the receiver's queue to its c1.             *)
LEMMA DeliverGood ==
  ASSUME NEW s, SchedOK(s), NEW h, NEW er, Good(s, h, er), NEW act \in Aid,
         ~empty(s.mq[act]), s.st[act] = "schedulable"
  PROVE  Good(sched_schedule(s, act), h, er)
<1> DEFINE s2 == sched_schedule(s, act)
           from == InSlot(act, s.mq[act].start)
           to == InC1(act)
<1>1. /\ s.st \in [Aid -> SchedStatus] /\ s.mq \in [Aid -> Rings(Msg)]
      /\ s.fr \in [Aid -> Msg] /\ s.mq[act] \in Rings(Msg)
  BY DEF SchedOK, SchedType
<1>2. /\ s2.mq = [s.mq EXCEPT ![act] = dequeue(s.mq[act])]
      /\ s2.fr = [s.fr EXCEPT ![act] = front(s.mq[act])]
      /\ s2.st = [s.st EXCEPT ![act] = "runnable"]
  BY DEF sched_schedule
<1>3. /\ s.mq[act].start \in Slot /\ s.mq[act].start \in Pending(s.mq[act])
      /\ Pending(dequeue(s.mq[act])) = Pending(s.mq[act]) \ {s.mq[act].start}
      /\ dequeue(s.mq[act]).msg = s.mq[act].msg
      /\ front(s.mq[act]) = s.mq[act].msg[s.mq[act].start]
  BY <1>1, DequeueRing DEF Rings, dequeue, front
<1>4. from \in Place /\ to \in Place /\ from # to
  BY <1>3, PlaceFacts DEF InSlot, InC1
<1>5. ASSUME NEW t \in Token, NEW p \in Place, At(s2, h, p, t)
      PROVE  At(s, h, p, t) \/ (p = to /\ At(s, h, from, t))
  <2>1. p.a \in Aid
    BY DEF Place
  <2>2. CASE p.a = act
    BY <1>1, <1>2, <1>3, <1>5, <2>1, <2>2 DEF At, InSlot, InC1, InHeld
  <2>3. CASE p.a # act
    BY <1>1, <1>2, <1>5, <2>1, <2>3 DEF At
  <2> QED BY <2>2, <2>3
<1>6. \A t \in Token : ~At(s2, h, from, t)
  BY <1>1, <1>2, <1>3 DEF At, InSlot, InC1, InHeld
<1>7. \A a \in Aid : s.st[a] = "sync_block" <=> s2.st[a] = "sync_block"
  BY <1>1, <1>2
<1>8. IdleEmpty(s) /\ s.fr[act].c1 = NULL
  BY DEF Good, IdleEmpty, Idle
<1>9. \A a \in Aid : Idle(s2.st[a]) => s2.fr[a].c1 = NULL
  BY <1>1, <1>2, <1>8 DEF IdleEmpty, Idle
<1>10. ASSUME NEW t \in Token, NEW p \in Place, At(s, h, p, t)
       PROVE  At(s2, h, p, t) \/ (p = from /\ At(s2, h, to, t))
  <2>1. p.a \in Aid /\ t # NULL
    BY NullAssumption DEF Place
  <2>2. CASE p.a = act
    <3>1. CASE p.k = "queue" /\ p.i \in Pending(s.mq[act]) /\ s.mq[act].msg[p.i].c1 = t
      <4>1. CASE p.i = s.mq[act].start
        <5>1. p = from
          BY <2>2, <3>1, <4>1 DEF Place, InSlot
        <5>2. s2.fr[act].c1 = t /\ to = InC1(to.a) /\ to.a = act
          BY <1>1, <1>2, <1>3, <3>1, <4>1 DEF InC1
        <5> QED BY <5>1, <5>2 DEF At
      <4>2. CASE p.i # s.mq[act].start
        <5>1. p.i \in Pending(s2.mq[p.a]) /\ s2.mq[p.a].msg[p.i].c1 = t
          BY <1>1, <1>2, <1>3, <2>2, <3>1, <4>2
        <5> QED BY <3>1, <5>1 DEF At
      <4> QED BY <4>1, <4>2
    <3>2. CASE p = InHeld(p.a) /\ t \in h[p.a]
      BY <3>2 DEF At
    <3> QED BY <1>8, <1>10, <2>1, <2>2, <3>1, <3>2 DEF At
  <2>3. CASE p.a # act
    BY <1>1, <1>2, <1>10, <2>1, <2>3 DEF At
  <2> QED BY <2>2, <2>3
<1> HIDE DEF s2, from, to
<1>11. Good(s2, h, er)
  BY <1>4, <1>5, <1>6, <1>7, <1>9, <1>10, MoveGood
<1> QED BY <1>11 DEF s2

(* Only the rings, c1 and who is blocked or idle matter.                   *)
LEMMA SameGood ==
  ASSUME NEW s, NEW s2, NEW h, NEW er, Good(s, h, er), s2.mq = s.mq, s2.fr = s.fr,
         \A a \in Aid : s.st[a] = "sync_block" <=> s2.st[a] = "sync_block",
         \A a \in Aid : Idle(s2.st[a]) => Idle(s.st[a]) \/ s.fr[a].c1 = NULL
  PROVE  Good(s2, h, er)
<1>1. \A t \in Token : t.aid \in Aid
  BY DEF Token
<1>2. \A t \in Token, p \in Place : At(s2, h, p, t) <=> At(s, h, p, t)
  BY DEF At
<1>3. AllOwed(s2, h, er) /\ InOnePlace(s2, h)
  BY <1>1, <1>2 DEF Good, AllOwed, InOnePlace
<1>4. NoneLost(s2, h)
  BY <1>2 DEF Good, NoneLost
<1>5. IdleEmpty(s2)
  BY DEF Good, IdleEmpty
<1> QED BY <1>3, <1>4, <1>5 DEF Good

(* SwitchTo ...                                                            *)
LEMMA SwitchGood ==
  ASSUME NEW s, SchedOK(s), NEW act \in Aid, Ready(s, act), SwitchTo(s, act),
         panic = "no", Good(s, held', expected_reply')
  PROVE  Kept
<1>1. s.st \in [Aid -> SchedStatus] /\ Mail(s, act)
  BY DEF SchedOK, SchedType
<1>2. CASE s.st[act] = "schedulable"
  <2>1. ~empty(s.mq[act])
    BY <1>1, <1>2 DEF Mail
  <2>2. /\ panic' = "no"
        /\ sched_status' = sched_schedule(s, act).st
        /\ msg_queues' = sched_schedule(s, act).mq
        /\ frame' = sched_schedule(s, act).fr
    BY <1>2, <2>1 DEF SwitchTo
  <2>3. Good(sched_schedule(s, act), held', expected_reply')
    BY <1>2, <2>1, DeliverGood
  <2>4. /\ Next_s.mq = sched_schedule(s, act).mq /\ Next_s.fr = sched_schedule(s, act).fr
        /\ Next_s.st = sched_schedule(s, act).st
    BY <2>2 DEF Next_s
  <2>5. Good(Next_s, held', expected_reply')
    BY <2>3, <2>4, SameGood
  <2> QED BY <2>2, <2>5 DEF Kept, Faults
<1>3. CASE s.st[act] # "schedulable"
  <2>1. panic' = "no" /\ Next_s.mq = s.mq /\ Next_s.fr = s.fr /\ Next_s.st = s.st
    BY <1>3 DEF SwitchTo, Next_s
  <2>2. Good(Next_s, held', expected_reply')
    BY <2>1, SameGood
  <2> QED BY <2>1, <2>2 DEF Kept, Faults
<1> QED BY <1>2, <1>3

(* ... sched_reschedule ...                                                *)
LEMMA RescheduleGood ==
  ASSUME NEW s, SchedOK(s), NEW hint \in Aid, sched_reschedule(s, hint), panic = "no",
         Good(s, held', expected_reply')
  PROVE  Kept
<1>1. CASE hint # 0 /\ Ready(s, hint)
  BY <1>1, SwitchGood DEF sched_reschedule
<1>2. CASE ~(hint # 0 /\ Ready(s, hint)) /\ s.rq.end = 0
  BY <1>2 DEF sched_reschedule, kernel_panic, Kept, Faults
<1>3. CASE ~(hint # 0 /\ Ready(s, hint)) /\ s.rq.end # 0
  <2> DEFINE t == [st |-> s.st, rq |-> [s.rq EXCEPT !.idx = FirstPick(s)],
                   mq |-> s.mq, fr |-> s.fr]
             act == s.rq.squeue_a[FirstPick(s)]
  <2>1. PickRounds(s) # {} /\ FirstPick(s) \in Aid /\ act \in Active(s.st)
    BY <1>3, FirstPickReady
  <2>2. SwitchTo(t, act)
    BY <1>3, <2>1 DEF sched_reschedule
  <2>3. s.rq \in RunQueues
    BY DEF SchedOK, SchedType
  <2>4. SchedOK(t)
    BY <2>1, <2>3 DEF SchedOK, SchedType, Mail, RunQueues, Lists
  <2>5. act \in Aid /\ Ready(t, act)
    BY <2>1 DEF Active, Ready
  <2>6. Good(t, held', expected_reply')
    BY SameGood
  <2> QED BY <2>2, <2>4, <2>5, <2>6, SwitchGood
<1> QED BY <1>1, <1>2, <1>3

(* ... and act_wait keep the tokens.                                       *)
LEMMA WaitGood ==
  ASSUME NEW s, SchedOK(s), NEW act \in Aid, s.st[act] = "runnable",
         NEW hint \in Aid, act_wait(s, act, hint), panic = "no",
         Good(s, held', expected_reply'), s.fr[act].c1 = NULL
  PROVE  Kept
<1>1. s.st \in [Aid -> SchedStatus] /\ act \in Active(s.st)
  BY DEF SchedOK, SchedType, Active
<1>2. CASE empty(s.mq[act])
  <2> DEFINE t == sched_a2d(s, act, "waiting")
  <2>1. SchedOK(t) /\ QDEL_assert(s.rq, act)
    BY <1>1, <1>2, A2DOK
  <2>2. sched_reschedule(t, hint)
    BY <1>2, <2>1 DEF act_wait
  <2>3. t.st = [s.st EXCEPT ![act] = "waiting"] /\ t.mq = s.mq /\ t.fr = s.fr
    BY DEF sched_a2d
  <2>4. Good(t, held', expected_reply')
    <3>1. \A a \in Aid : /\ s.st[a] = "sync_block" <=> t.st[a] = "sync_block"
                         /\ a # act => t.st[a] = s.st[a]
      BY <1>1, <2>3
    <3>2. \A a \in Aid : Idle(t.st[a]) => Idle(s.st[a]) \/ s.fr[a].c1 = NULL
      BY <3>1
    <3> HIDE DEF t
    <3> QED BY <2>3, <3>1, <3>2, SameGood
  <2> QED BY <2>1, <2>2, <2>4, RescheduleGood
<1>3. CASE ~empty(s.mq[act])
  <2> DEFINE t == [st |-> [s.st EXCEPT ![act] = "schedulable"], rq |-> s.rq,
                   mq |-> s.mq, fr |-> s.fr]
  <2>1. sched_reschedule(t, hint)
    BY <1>3 DEF act_wait
  <2>2. SchedOK(t)
    <3>1. Active(t.st) = Active(s.st)
      BY <1>1 DEF Active
    <3> QED BY <1>1, <1>3, <3>1 DEF SchedOK, SchedType, Mail, SchedStatus
  <2>3. Good(t, held', expected_reply')
    <3>1. \A a \in Aid : /\ s.st[a] = "sync_block" <=> t.st[a] = "sync_block"
                         /\ a # act => t.st[a] = s.st[a]
      BY <1>1
    <3>2. \A a \in Aid : Idle(t.st[a]) => Idle(s.st[a]) \/ s.fr[a].c1 = NULL
      BY <3>1
    <3>3. t.mq = s.mq /\ t.fr = s.fr
      OBVIOUS
    <3> HIDE DEF t
    <3> QED BY <3>1, <3>2, <3>3, SameGood
  <2> QED BY <2>1, <2>2, <2>3, RescheduleGood
<1> QED BY <1>2, <1>3

(* Entering the kernel, the token in c1 goes to the activation's memory.   *)
LEMMA EnterGood ==
  ASSUME SchedInv, Running, Good(Now, held, expected_reply), NEW arg
  PROVE  /\ Good(Enter(arg), [held EXCEPT ![curr] = mine], expected_reply)
         /\ Enter(arg).fr[curr].c1 = NULL
<1> DEFINE s2 == Enter(arg)
           h2 == [held EXCEPT ![curr] = mine]
           from == InC1(curr)
           to == InHeld(curr)
<1>1. /\ curr \in Aid /\ frame \in [Aid -> Msg] /\ held \in [Aid -> SUBSET Token]
      /\ s2.st = sched_status /\ s2.mq = msg_queues
      /\ s2.fr = [frame EXCEPT ![curr] = [v0 |-> arg, c1 |-> NULL]]
      /\ h2 = [held EXCEPT ![curr] = held[curr] \cup ({frame[curr].c1} \ {NULL})]
      /\ Now.st = sched_status /\ Now.mq = msg_queues /\ Now.fr = frame
  BY InvFacts DEF UserType, SchedType, Now, Enter, mine, curr
<1>2. from \in Place /\ to \in Place /\ from # to /\ from.a = curr /\ to.a = curr
      /\ to # InC1(curr) /\ from # InHeld(curr)
      /\ \A a, b \in Aid : InC1(a) # InHeld(b)
  BY <1>1, PlaceFacts DEF InC1, InHeld
<1> HIDE DEF h2
<1>3. ASSUME NEW t \in Token, NEW p \in Place, At(s2, h2, p, t)
      PROVE  At(Now, held, p, t) \/ (p = to /\ At(Now, held, from, t))
  <2>1. p.a \in Aid /\ t # NULL
    BY NullAssumption DEF Place
  <2>2. CASE p.a = curr
    BY <1>1, <1>2, <1>3, <2>1, <2>2 DEF At
  <2>3. CASE p.a # curr
    BY <1>1, <1>3, <2>1, <2>3 DEF At
  <2> QED BY <2>2, <2>3
<1>4. \A t \in Token : ~At(s2, h2, from, t)
  BY <1>1, <1>2, NullAssumption DEF At, InC1, InHeld
<1>5. \A a \in Aid : Now.st[a] = "sync_block" <=> s2.st[a] = "sync_block"
  BY <1>1
<1>6. s2.fr[curr].c1 = NULL /\ \A a \in Aid : Idle(s2.st[a]) => s2.fr[a].c1 = NULL
  BY <1>1 DEF Good, IdleEmpty
<1>7. ASSUME NEW t \in Token, NEW p \in Place, At(Now, held, p, t)
      PROVE  At(s2, h2, p, t) \/ (p = from /\ At(s2, h2, to, t))
  <2>1. p.a \in Aid /\ t # NULL
    BY NullAssumption DEF Place
  <2>2. CASE p.a = curr
    <3>1. CASE p = InC1(p.a) /\ frame[p.a].c1 = t
      <4>1. t \in h2[to.a] /\ to = InHeld(to.a)
        BY <1>1, <1>2, <2>1, <2>2, <3>1
      <4> QED BY <2>2, <3>1, <4>1 DEF At
    <3>2. CASE p = InHeld(p.a) /\ t \in held[p.a]
      BY <1>1, <2>2, <3>2 DEF At
    <3>3. CASE p.k = "queue" /\ p.i \in Pending(msg_queues[p.a])
               /\ msg_queues[p.a].msg[p.i].c1 = t
      BY <1>1, <3>3 DEF At
    <3> QED BY <1>1, <1>7, <3>1, <3>2, <3>3 DEF At
  <2>3. CASE p.a # curr
    BY <1>1, <1>7, <2>1, <2>3 DEF At
  <2> QED BY <2>2, <2>3
<1> HIDE DEF s2, from, to
<1>8. Good(s2, h2, expected_reply)
  <2>1. from \in Place /\ to \in Place
    BY <1>2
  <2> QED BY <2>1, <1>3, <1>4, <1>5, <1>6, <1>7, MoveGood
<1> QED BY <1>6, <1>8 DEF s2, h2

(* A push puts the token of its message in the slot that was the end, and  *)
(* no other anywhere.                                                      *)
LEMMA PushAt ==
  ASSUME NEW s, SchedOK(s), NEW dest \in Aid, NEW m \in Msg, ~full(s.mq[dest]),
         NEW h, NEW t \in Token, NEW p \in Place, At(msg_push(s, dest, m), h, p, t)
  PROVE  At(s, h, p, t) \/ (p = InSlot(dest, s.mq[dest].end) /\ t = m.c1)
<1> DEFINE s2 == msg_push(s, dest, m)
<1>1. /\ s.mq \in [Aid -> Rings(Msg)] /\ s.mq[dest] \in Rings(Msg) /\ p.a \in Aid
  BY DEF SchedOK, SchedType, Place
<1>2. /\ s2.mq = [s.mq EXCEPT ![dest] = enqueue(s.mq[dest], m)] /\ s2.fr = s.fr
  BY DEF msg_push, sched_d2a
<1>3. /\ Pending(enqueue(s.mq[dest], m)) = Pending(s.mq[dest]) \cup {s.mq[dest].end}
      /\ s.mq[dest].end \in Slot /\ s.mq[dest].msg \in [Slot -> Msg]
      /\ enqueue(s.mq[dest], m).msg = [s.mq[dest].msg EXCEPT ![s.mq[dest].end] = m]
  <2>1. Pending(enqueue(s.mq[dest], m)) = Pending(s.mq[dest]) \cup {s.mq[dest].end}
    BY <1>1, EnqueueRing
  <2> QED BY <1>1, <2>1 DEF Rings, enqueue
<1> HIDE DEF s2
<1>4. At(s2, h, p, t)
  BY DEF s2
<1>5. CASE p.a = dest /\ p.k = "queue" /\ p.i \in Pending(s2.mq[p.a])
           /\ s2.mq[p.a].msg[p.i].c1 = t
  <2>1. p.i \in Slot /\ p.i \in Pending(s.mq[dest]) \cup {s.mq[dest].end}
    BY <1>1, <1>2, <1>3, <1>5 DEF Place
  <2>2. CASE p.i = s.mq[dest].end
    BY <1>1, <1>2, <1>3, <1>5, <2>2 DEF InSlot, Place
  <2>3. CASE p.i # s.mq[dest].end
    BY <1>1, <1>2, <1>3, <1>5, <2>1, <2>3 DEF At
  <2> QED BY <2>2, <2>3
<1>6. CASE ~(p.a = dest /\ p.k = "queue" /\ p.i \in Pending(s2.mq[p.a])
             /\ s2.mq[p.a].msg[p.i].c1 = t)
  BY <1>1, <1>2, <1>4, <1>6 DEF At
<1> QED BY <1>5, <1>6

(* A push moves no token, and finds the slot for that of its message.      *)
LEMMA PushKeeps ==
  ASSUME NEW s, SchedOK(s), NEW dest \in Aid, NEW m \in Msg, ~full(s.mq[dest]), NEW h
  PROVE  LET s2 == msg_push(s, dest, m)
             new == InSlot(dest, s.mq[dest].end)
         IN  /\ \A t \in Token, p \in Place : At(s, h, p, t) => At(s2, h, p, t)
             /\ new \in Place /\ At(s2, h, new, m.c1)
             /\ s2.fr = s.fr
             /\ \A a \in Aid : /\ Idle(s2.st[a]) <=> Idle(s.st[a])
                               /\ s.st[a] = "sync_block" <=> s2.st[a] = "sync_block"
<1> DEFINE s2 == msg_push(s, dest, m)
           new == InSlot(dest, s.mq[dest].end)
<1>1. /\ s.mq \in [Aid -> Rings(Msg)] /\ s.mq[dest] \in Rings(Msg)
      /\ s.st \in [Aid -> SchedStatus]
  BY DEF SchedOK, SchedType
<1>2. /\ s2.mq = [s.mq EXCEPT ![dest] = enqueue(s.mq[dest], m)] /\ s2.fr = s.fr
  BY DEF msg_push, sched_d2a
<1>3. /\ Pending(enqueue(s.mq[dest], m)) = Pending(s.mq[dest]) \cup {s.mq[dest].end}
      /\ s.mq[dest].end \notin Pending(s.mq[dest])
  BY <1>1, EnqueueRing
<1>4. /\ s.mq[dest].end \in Slot /\ s.mq[dest].msg \in [Slot -> Msg]
      /\ enqueue(s.mq[dest], m).msg = [s.mq[dest].msg EXCEPT ![s.mq[dest].end] = m]
  BY <1>1 DEF Rings, enqueue
<1>5. new \in Place /\ new.k = "queue" /\ new.a = dest /\ new.i = s.mq[dest].end
  BY <1>4, PlaceFacts DEF InSlot
<1>6. /\ s2.mq[dest].msg[s.mq[dest].end] = m
      /\ s2.mq[dest].msg = [s.mq[dest].msg EXCEPT ![s.mq[dest].end] = m]
      /\ Pending(s2.mq[dest]) = Pending(s.mq[dest]) \cup {s.mq[dest].end}
      /\ \A a \in Aid : a # dest => s2.mq[a] = s.mq[a]
  <2> HIDE DEF s2
  <2> QED BY <1>1, <1>2, <1>3, <1>4
<1>7. /\ \A a \in Aid : a # dest => s2.st[a] = s.st[a]
      /\ s2.st[dest] \in {s.st[dest], "schedulable"}
      /\ s.st[dest] # "waiting" => s2.st[dest] = s.st[dest]
  BY <1>1, PushStatus
<1> HIDE DEF s2, new
<1>8. At(s2, h, new, m.c1)
  BY <1>5, <1>6 DEF At
<1>9. ASSUME NEW t \in Token, NEW p \in Place, At(s, h, p, t)
      PROVE  At(s2, h, p, t)
  <2>1. p.a \in Aid
    BY DEF Place
  <2>2. CASE p.k = "queue" /\ p.i \in Pending(s.mq[p.a]) /\ s.mq[p.a].msg[p.i].c1 = t
    <3>1. CASE p.a = dest
      <4>1. p.i \in Slot /\ p.i # s.mq[dest].end
        BY <1>3, <2>2, <3>1 DEF Place
      <4>2. p.i \in Pending(s2.mq[p.a]) /\ s2.mq[p.a].msg[p.i].c1 = t
        BY <1>4, <1>6, <2>2, <3>1, <4>1
      <4> QED BY <2>2, <4>2 DEF At
    <3>2. CASE p.a # dest
      BY <1>6, <2>1, <2>2, <3>2 DEF At
    <3> QED BY <3>1, <3>2
  <2>3. CASE ~(p.k = "queue" /\ p.i \in Pending(s.mq[p.a]) /\ s.mq[p.a].msg[p.i].c1 = t)
    BY <1>2, <1>9, <2>3 DEF At, s2
  <2> QED BY <2>2, <2>3
<1>10. \A a \in Aid : /\ Idle(s2.st[a]) <=> Idle(s.st[a])
                      /\ s.st[a] = "sync_block" <=> s2.st[a] = "sync_block"
  BY <1>7 DEF Idle
<1> QED BY <1>2, <1>5, <1>8, <1>9, <1>10 DEF s2, new

(* The push of an asynchronous call carries no token.                      *)
LEMMA AsyncGood ==
  ASSUME SchedInv, Running, Good(Now, held, expected_reply),
         NEW cb \in Registered, NEW arg \in Arg
  PROVE  /\ Good(async_push(cb, arg), [held EXCEPT ![curr] = mine], expected_reply)
         /\ async_push(cb, arg).fr[curr].c1 = NULL
<1> DEFINE m == [v0 |-> arg, c1 |-> NULL]
           e == Enter(arg)
           h2 == [held EXCEPT ![curr] = mine]
<1>1. cb \in Aid /\ cb # 0
  BY InvFacts
<1>2. CASE full(msg_queues[cb])
  BY <1>2, EnterGood DEF async_push
<1>3. CASE ~full(msg_queues[cb])
  <2>1. async_push(cb, arg) = msg_push(e, cb, m)
    BY <1>3 DEF async_push
  <2>2. m \in Msg
    BY DEF Msg
  <2>3. SchedOK(e) /\ e.mq = msg_queues /\ ~full(e.mq[cb])
    BY <1>3, EnterOK
  <2>4. Good(e, h2, expected_reply) /\ e.fr[curr].c1 = NULL
    BY EnterGood
  <2>5. \A t \in Token, p \in Place :
           At(msg_push(e, cb, m), h2, p, t) => At(e, h2, p, t)
    <3> SUFFICES ASSUME NEW t \in Token, NEW p \in Place,
                        At(msg_push(e, cb, m), h2, p, t)
                 PROVE  At(e, h2, p, t)
      OBVIOUS
    <3>1. t # m.c1
      BY NullAssumption
    <3> HIDE DEF m, e, h2
    <3> QED BY <1>1, <2>2, <2>3, <3>1, PushAt
  <2>6. /\ \A t \in Token, p \in Place : At(e, h2, p, t) => At(msg_push(e, cb, m), h2, p, t)
        /\ msg_push(e, cb, m).fr = e.fr
        /\ \A a \in Aid : /\ Idle(msg_push(e, cb, m).st[a]) <=> Idle(e.st[a])
                          /\ e.st[a] = "sync_block" <=> msg_push(e, cb, m).st[a] = "sync_block"
    <3> HIDE DEF m, e, h2
    <3> QED BY <1>1, <2>2, <2>3, PushKeeps
  <2>7. InC1(curr) \in Place
    BY InvFacts, PlaceFacts
  <2> DEFINE p2 == msg_push(e, cb, m)
  <2>10. /\ \A t \in Token, p \in Place : At(p2, h2, p, t) => At(e, h2, p, t)
         /\ \A t \in Token, p \in Place : At(e, h2, p, t) => At(p2, h2, p, t)
         /\ \A a \in Aid : e.st[a] = "sync_block" <=> p2.st[a] = "sync_block"
    BY <2>5, <2>6
  <2>8. \A a \in Aid : Idle(p2.st[a]) => p2.fr[a].c1 = NULL
    <3> SUFFICES ASSUME NEW a \in Aid, Idle(p2.st[a]) PROVE p2.fr[a].c1 = NULL
      OBVIOUS
    <3>1. Idle(e.st[a]) /\ p2.fr = e.fr
      BY <2>6
    <3> HIDE DEF p2, e
    <3> QED BY <2>4, <3>1 DEF Good, IdleEmpty
  <2>11. p2.fr = e.fr
    BY <2>6
  <2> HIDE DEF m, e, h2, p2
  <2>9. Good(p2, h2, expected_reply)
    BY <2>4, <2>7, <2>8, <2>10, MoveGood
  <2> QED BY <2>1, <2>4, <2>11, <2>9 DEF h2, p2
<1> QED BY <1>2, <1>3

(* A synchronous call: its token is new, for no answer is owed to the      *)
(* running activation, and is owed from now on.                            *)
LEMMA CallGood ==
  ASSUME SchedInv, Running, Good(Now, held, expected_reply),
         NEW cb \in Registered, NEW arg \in Arg, ~full(msg_queues[cb]),
         NEW u \in 0 .. UNIQUE_MOD - 1
  PROVE  LET m == [v0 |-> arg, c1 |-> [aid |-> curr, unique |-> u]]
         IN  Good(sched_a2d(msg_push(Enter(arg), cb, m), curr, "sync_block"),
                  [held EXCEPT ![curr] = mine], [expected_reply EXCEPT ![curr] = u])
<1> DEFINE token == [aid |-> curr, unique |-> u]
           m == [v0 |-> arg, c1 |-> token]
           e == Enter(arg)
           h2 == [held EXCEPT ![curr] = mine]
           er2 == [expected_reply EXCEPT ![curr] = u]
           p2 == msg_push(e, cb, m)
           s2 == sched_a2d(p2, curr, "sync_block")
           new == InSlot(cb, msg_queues[cb].end)
<1>1. /\ cb \in Aid /\ cb # 0 /\ curr \in Aid /\ sched_status[curr] = "runnable"
      /\ expected_reply \in [Aid -> 0 .. UNIQUE_MOD - 1]
  BY InvFacts DEF UserType
<1>2. token \in Token /\ m \in Msg /\ m.c1 = token
  BY <1>1 DEF Token, Msg
<1>3. SchedOK(e) /\ e.st = sched_status /\ e.mq = msg_queues
  BY EnterOK
<1>4. Good(e, h2, expected_reply)
  BY EnterGood
<1>5. \A t \in Token, p \in Place : At(e, h2, p, t) => t.aid # curr
  BY <1>1, <1>3, <1>4 DEF Good, AllOwed
<1>6. SchedOK(p2) /\ p2.st \in [Aid -> SchedStatus]
  <2>1. SchedOK(p2)
    BY <1>1, <1>2, <1>3, PushOK
  <2> QED BY <2>1 DEF SchedOK, SchedType
<1>7. s2.st = [p2.st EXCEPT ![curr] = "sync_block"] /\ s2.mq = p2.mq /\ s2.fr = p2.fr
  BY DEF sched_a2d
<1>8. \A t \in Token, p \in Place : At(s2, h2, p, t) = At(p2, h2, p, t)
  BY <1>7 DEF At
<1>9. ASSUME NEW t \in Token, NEW p \in Place, At(s2, h2, p, t)
      PROVE  At(e, h2, p, t) \/ (p = new /\ t = token)
  <2>1. At(p2, h2, p, t)
    BY <1>8, <1>9
  <2>2. ~full(e.mq[cb])
    BY <1>3
  <2> HIDE DEF e, h2
  <2> QED BY <2>1, <2>2, <1>1, <1>2, <1>3, PushAt
<1>10. /\ \A t \in Token, p \in Place : At(e, h2, p, t) => At(p2, h2, p, t)
       /\ new \in Place /\ At(p2, h2, new, token) /\ p2.fr = e.fr
       /\ \A a \in Aid : /\ Idle(p2.st[a]) <=> Idle(e.st[a])
                         /\ e.st[a] = "sync_block" <=> p2.st[a] = "sync_block"
  <2>1. ~full(e.mq[cb])
    BY <1>3
  <2> HIDE DEF e, h2
  <2> QED BY <2>1, <1>1, <1>2, <1>3, PushKeeps
<1>17. \A a \in Aid : a # curr => /\ Idle(s2.st[a]) <=> Idle(e.st[a])
                                  /\ e.st[a] = "sync_block" <=> s2.st[a] = "sync_block"
  BY <1>1, <1>6, <1>7, <1>10
<1>11. s2.st[curr] = "sync_block"
  BY <1>1, <1>6, <1>7
<1>12. er2[curr] = u /\ \A a \in Aid : a # curr => er2[a] = expected_reply[a]
  BY <1>1
<1>13. \A t \in Token : t.aid \in Aid
  BY DEF Token
<1>14. token.aid = curr /\ token.unique = u
  OBVIOUS
<1> HIDE DEF s2, p2, h2, er2, e, token, new
<1>15. AllOwed(s2, h2, er2)
  <2> SUFFICES ASSUME NEW t \in Token, NEW p \in Place, At(s2, h2, p, t)
               PROVE  s2.st[t.aid] = "sync_block" /\ er2[t.aid] = t.unique
    BY DEF AllOwed
  <2>1. CASE At(e, h2, p, t)
    <3>1. e.st[t.aid] = "sync_block" /\ expected_reply[t.aid] = t.unique
      BY <1>4, <2>1 DEF Good, AllOwed
    <3>2. t.aid # curr /\ t.aid \in Aid
      BY <1>5, <1>13, <2>1
    <3> QED BY <1>12, <1>17, <3>1, <3>2
  <2>2. CASE p = new /\ t = token
    BY <1>11, <1>12, <1>14, <2>2
  <2> QED BY <1>9, <2>1, <2>2
<1>16. InOnePlace(s2, h2)
  BY <1>4, <1>5, <1>9, <1>13, <1>14 DEF InOnePlace, Good
<1>18. NoneLost(s2, h2)
  <2> SUFFICES ASSUME NEW c \in Aid, s2.st[c] = "sync_block"
               PROVE  \E t \in Token, p \in Place : t.aid = c /\ At(s2, h2, p, t)
    BY DEF NoneLost
  <2>1. CASE c = curr
    BY <1>2, <1>8, <1>10, <1>14, <2>1
  <2>2. CASE c # curr
    <3>1. PICK t \in Token, p \in Place : t.aid = c /\ At(e, h2, p, t)
      BY <1>4, <1>17, <2>2 DEF Good, NoneLost
    <3> QED BY <1>8, <1>10, <3>1
  <2> QED BY <2>1, <2>2
<1>19. IdleEmpty(s2)
  <2> SUFFICES ASSUME NEW a \in Aid, Idle(s2.st[a]) PROVE s2.fr[a].c1 = NULL
    BY DEF IdleEmpty
  <2>1. a # curr
    BY <1>11 DEF Idle
  <2>2. Idle(e.st[a])
    BY <1>17, <2>1
  <2>3. e.fr[a].c1 = NULL
    BY <1>4, <2>2 DEF Good, IdleEmpty
  <2> QED BY <1>7, <1>10, <2>3
<1> QED BY <1>15, <1>16, <1>18, <1>19 DEF Good, s2, p2, h2, er2, e, token

(* An answer: its token is nowhere any more, and every other one is owed   *)
(* to another activation.                                                  *)
LEMMA ReplyGood ==
  ASSUME SchedInv, Running, Good(Now, held, expected_reply),
         NEW token \in mine, NEW arg \in Arg
  PROVE  /\ sched_status[token.aid] = "sync_block"
         /\ expected_reply[token.aid] = token.unique
         /\ Good(reply(token, arg), [held EXCEPT ![curr] = mine \ {token}], expected_reply)
         /\ reply(token, arg).fr[curr].c1 = NULL
<1> DEFINE e == Enter(arg)
           h1 == [held EXCEPT ![curr] = mine]
           h2 == [held EXCEPT ![curr] = mine \ {token}]
           r == reply(token, arg)
<1>1. /\ curr \in Aid /\ held \in [Aid -> SUBSET Token] /\ frame \in [Aid -> Msg]
      /\ sched_status \in [Aid -> SchedStatus]
  BY InvFacts DEF UserType, SchedType, Now
<1>2. token \in Token /\ token.aid \in Aid
  BY <1>1 DEF mine, Msg, Token
<1>3. SchedOK(e) /\ e.st = sched_status /\ e.mq = msg_queues /\ e.fr \in [Aid -> Msg]
  <2>1. SchedOK(e) /\ e.st = sched_status /\ e.mq = msg_queues
    BY EnterOK
  <2> QED BY <2>1 DEF SchedOK, SchedType
<1>4. Good(e, h1, expected_reply) /\ e.fr[curr].c1 = NULL
  BY EnterGood
<1>5. InHeld(curr) \in Place /\ InHeld(curr).a = curr
  BY <1>1, PlaceFacts DEF InHeld
<1>6. At(e, h1, InHeld(curr), token)
  BY <1>1, <1>5 DEF At
<1>7. sched_status[token.aid] = "sync_block" /\ expected_reply[token.aid] = token.unique
  BY <1>2, <1>3, <1>4, <1>5, <1>6 DEF Good, AllOwed
<1>8. /\ r.st = [sched_status EXCEPT ![token.aid] = "runnable"] /\ r.mq = msg_queues
      /\ r.fr = [e.fr EXCEPT ![token.aid] = [v0 |-> arg, c1 |-> e.fr[token.aid].c1]]
  BY <1>3 DEF reply, sched_d2a
<1>9. \A a \in Aid : r.fr[a].c1 = e.fr[a].c1
  <2> HIDE DEF r, e
  <2> QED BY <1>2, <1>3, <1>8
<1>10. ASSUME NEW t \in Token, NEW p \in Place, At(r, h2, p, t)
       PROVE  At(e, h1, p, t) /\ t # token
  <2>1. p.a \in Aid
    BY DEF Place
  <2>2. h2[p.a] \subseteq h1[p.a]
    BY <1>1, <2>1
  <2>3. At(e, h1, p, t)
    <3> HIDE DEF r, e, h1, h2
    <3> QED BY <1>3, <1>8, <1>9, <1>10, <2>1, <2>2 DEF At
  <2>4. t = token => p = InHeld(curr)
    BY <1>2, <1>4, <1>5, <1>6, <2>3 DEF Good, InOnePlace
  <2>5. ~At(r, h2, InHeld(curr), token)
    BY <1>1 DEF At, InHeld, InC1
  <2> QED BY <1>10, <2>3, <2>4, <2>5
<1>11. \A t \in Token : t.aid \in Aid
           /\ (t.aid = token.aid /\ t.unique = token.unique => t = token)
  BY <1>2 DEF Token
<1>15. ASSUME NEW t \in Token, NEW p \in Place, At(e, h1, p, t), t # token
       PROVE  At(r, h2, p, t)
  <2>1. p.a \in Aid
    BY DEF Place
  <2>2. t \in h1[p.a] => t \in h2[p.a]
    BY <1>1, <1>15, <2>1
  <2> HIDE DEF r, e, h1, h2
  <2> QED BY <1>3, <1>8, <1>9, <1>15, <2>1, <2>2 DEF At
<1>12. r.st[token.aid] = "runnable" /\ \A a \in Aid : a # token.aid => r.st[a] = e.st[a]
  <2> HIDE DEF r, e
  <2> QED BY <1>1, <1>2, <1>3, <1>8
<1> HIDE DEF r, e, h1, h2
<1>13. AllOwed(r, h2, expected_reply)
  BY <1>4, <1>7, <1>10, <1>11, <1>12 DEF Good, AllOwed
<1>14. InOnePlace(r, h2)
  BY <1>4, <1>10 DEF Good, InOnePlace
<1>16. NoneLost(r, h2)
  BY <1>4, <1>12, <1>15 DEF Good, NoneLost
<1>17. IdleEmpty(r)
  BY <1>4, <1>9, <1>12 DEF Good, IdleEmpty, Idle
<1> QED BY <1>1, <1>4, <1>7, <1>9, <1>13, <1>14, <1>16, <1>17 DEF Good, r, h2

----------------------------------------------------------------------------
(* The inductive invariant: the scheduler is in order, every token is owed *)
(* and in one place, and the counter has not passed the bound.             *)
TokInv ==
  /\ SchedInv /\ IrqInv
  /\ NoKernelFault
  /\ Running => Good(Now, held, expected_reply)
  /\ \A a \in Aid : expected_reply[a] <= unique
  /\ unique <= MaxCalls

(* A step that ends well keeps the invariant.                              *)
LEMMA KeptInv ==
  ASSUME SchedInv', IrqInv', Kept, unique' <= MaxCalls,
         \A a \in Aid : expected_reply'[a] <= unique'
  PROVE  TokInv'
<1>1. NoKernelFault'
  BY DEF Kept, NoKernelFault
<1>2. ASSUME panic' = "no" PROVE Good(Now, held, expected_reply)'
  <2>1. Good(Next_s, held', expected_reply')
    BY <1>2 DEF Kept
  <2> QED BY <2>1 DEF Good, AllOwed, InOnePlace, NoneLost, IdleEmpty, At, Next_s, Now
<1> QED BY <1>1, <1>2 DEF TokInv, Running

(* The scheduler's variables as an activation without a switch leaves them. *)
LEMMA ResumeKept ==
  ASSUME NEW s, Resume(s), panic = "no", Good(s, held', expected_reply')
  PROVE  Kept
<1>1. panic' = "no" /\ Next_s.st = s.st /\ Next_s.mq = s.mq /\ Next_s.fr = s.fr
  BY DEF Resume, Next_s
<1>2. Good(Next_s, held', expected_reply')
  BY <1>1, SameGood
<1> QED BY <1>1, <1>2 DEF Kept, Faults

(* What the invariant says of a step's first state.                        *)
LEMMA TokFacts ==
  ASSUME TokInv, Running
  PROVE  /\ SchedInv /\ Good(Now, held, expected_reply) /\ panic = "no"
         /\ curr \in Aid /\ sched_status[curr] = "runnable"
         /\ expected_reply \in [Aid -> 0 .. UNIQUE_MOD - 1] /\ unique \in 0 .. UNIQUE_MOD - 1
         /\ unique <= MaxCalls /\ \A a \in Aid : expected_reply[a] <= unique
BY InvFacts DEF TokInv, UserType

(* The three calls that make no token, and waiting.                        *)
LEMMA AsyncTok ==
  ASSUME TokInv, SchedInv', IrqInv', NEW cb \in Registered, NEW store, NEW arg \in Arg,
         \/ Refused(cb, store, arg) \/ Send(cb, store, arg) \/ Switch(cb, store, arg)
         \/ Wait(arg)
  PROVE  TokInv'
<1>1. /\ Running /\ Keeps(mine)
      /\ UNCHANGED <<status, expected_reply, kernel_next_act, unique>>
  BY DEF Refused, Send, Switch, Wait, ccall_refused, ccall_send, ccall_switch, creturn_null
<1>2. /\ SchedInv /\ Good(Now, held, expected_reply) /\ panic = "no" /\ curr \in Aid
      /\ unique <= MaxCalls /\ \A a \in Aid : expected_reply[a] <= unique
      /\ cb \in Aid
  BY <1>1, TokFacts, InvFacts
<1>3. /\ Good(Enter(arg), held', expected_reply')
      /\ Good(async_push(cb, arg), held', expected_reply')
      /\ Enter(arg).fr[curr].c1 = NULL /\ async_push(cb, arg).fr[curr].c1 = NULL
  BY <1>1, <1>2, EnterGood, AsyncGood DEF Keeps
<1>4. Kept
  <2>1. CASE Refused(cb, store, arg)
    BY <2>1, <1>2, <1>3, ResumeKept DEF Refused, ccall_refused
  <2>2. CASE Send(cb, store, arg)
    BY <2>2, <1>2, <1>3, ResumeKept DEF Send, ccall_send
  <2>3. CASE Switch(cb, store, arg)
    <3>1. act_wait(async_push(cb, arg), curr, cb)
      BY <2>3 DEF Switch, ccall_switch, curr
    <3> QED BY <3>1, <1>1, <1>2, <1>3, AsyncPushOK, WaitGood
  <2>4. CASE Wait(arg)
    <3>1. act_wait(Enter(arg), curr, curr)
      BY <2>4 DEF Wait, creturn_null, curr
    <3>2. SchedOK(Enter(arg)) /\ Enter(arg).st[curr] = "runnable"
      BY <1>1, <1>2, EnterOK, TokFacts
    <3> QED BY <3>1, <3>2, <1>2, <1>3, WaitGood
  <2> QED BY <2>1, <2>2, <2>3, <2>4
<1> QED BY <1>1, <1>2, <1>4, KeptInv

(* A synchronous call.                                                     *)
LEMMA CallTok ==
  ASSUME TokInv, SchedInv', IrqInv', NEW cb \in Registered, NEW store, NEW arg \in Arg,
         Call(cb, store, arg)
  PROVE  TokInv'
<1> DEFINE m == [v0 |-> arg, c1 |-> [aid |-> curr, unique |-> next_unique]]
           pushed == msg_push(Enter(arg), cb, m)
           t == sched_a2d(pushed, curr, "sync_block")
<1>1. /\ Running /\ Keeps(mine) /\ unique < MaxCalls
      /\ unique' = next_unique
      /\ expected_reply' = [expected_reply EXCEPT ![curr] = next_unique]
      /\ IF full(msg_queues[cb])
           THEN kernel_panic("queue full (csync)")
           ELSE IF ~QDEL_assert(pushed.rq, curr)
                  THEN kernel_panic("assertion")
                  ELSE sched_reschedule(t, cb)
  BY DEF Call, ccall_sync, curr
<1> HIDE DEF m, pushed, t
<1>2. /\ SchedInv /\ Good(Now, held, expected_reply) /\ panic = "no" /\ curr \in Aid
      /\ sched_status[curr] = "runnable" /\ cb \in Aid /\ cb # 0
      /\ expected_reply \in [Aid -> 0 .. UNIQUE_MOD - 1] /\ unique \in 0 .. UNIQUE_MOD - 1
      /\ \A a \in Aid : expected_reply[a] <= unique
  BY <1>1, TokFacts, InvFacts
<1>3. next_unique = unique + 1 /\ next_unique \in 0 .. UNIQUE_MOD - 1
      /\ next_unique <= MaxCalls
  <2>1. unique < MaxCalls
    BY <1>1
  <2>2. /\ MaxCalls \in Nat /\ UNIQUE_MOD \in Nat /\ MaxCalls < UNIQUE_MOD /\ unique \in Nat
    BY <1>2, UserAssumption, ModAssumption
  <2>3. (unique + 1) % UNIQUE_MOD = unique + 1
    BY <2>1, <2>2
  <2> QED BY <2>1, <2>2, <2>3 DEF next_unique
<1>4. \A a \in Aid : expected_reply'[a] <= unique'
  <2> SUFFICES ASSUME NEW a \in Aid PROVE expected_reply'[a] <= unique'
    OBVIOUS
  <2>1. /\ unique' = next_unique
        /\ expected_reply' = [expected_reply EXCEPT ![curr] = next_unique]
    BY <1>1
  <2>2. /\ unique' = unique + 1 /\ expected_reply'[a] \in {unique + 1, expected_reply[a]}
        /\ expected_reply[a] \in Nat /\ expected_reply[a] <= unique /\ unique \in Nat
    BY <2>1, <1>2, <1>3
  <2> QED BY <2>2
<1>5. Kept
  <2>1. CASE full(msg_queues[cb])
    BY <1>1, <2>1 DEF kernel_panic, Kept, Faults
  <2>2. CASE ~full(msg_queues[cb])
    <3>1. Good(t, held', expected_reply')
      BY <1>1, <1>2, <1>3, <2>2, CallGood DEF Keeps, t, pushed, m
    <3>2. m \in Msg
      BY <1>2, <1>3 DEF m, Msg, Token
    <3>3. SchedOK(Enter(arg)) /\ Enter(arg).st = sched_status /\ Enter(arg).mq = msg_queues
      BY <1>1, <1>2, EnterOK
    <3>4. SchedOK(pushed)
      BY <1>2, <2>2, <3>2, <3>3, PushOK DEF pushed
    <3>5. curr \in Active(pushed.st)
      <4>1. pushed.st[curr] = "runnable"
        <5>1. Enter(arg).st \in [Aid -> SchedStatus]
          BY <3>3 DEF SchedOK, SchedType
        <5> QED BY <5>1, <1>2, <3>3, PushStatus DEF pushed
      <4> QED BY <4>1, <1>2 DEF Active
    <3>6. SchedOK(t) /\ QDEL_assert(pushed.rq, curr)
      BY <3>4, <3>5, A2DOK DEF t
    <3>7. sched_reschedule(t, cb)
      BY <1>1, <2>2, <3>6
    <3> QED BY <1>2, <3>1, <3>6, <3>7, RescheduleGood
  <2> QED BY <2>1, <2>2
<1> QED BY <1>1, <1>3, <1>4, <1>5, KeptInv

(* An answer is expected, if the counter has not passed the reply mask.    *)
LEMMA ReturnTok ==
  ASSUME MaxCalls < REPLY_MOD, TokInv, SchedInv', IrqInv',
         NEW token \in mine, NEW arg \in Arg, Return(token, arg)
  PROVE  TokInv'
<1> DEFINE r == reply(token, arg)
<1>1. /\ Running /\ Keeps(mine \ {token})
      /\ UNCHANGED <<status, expected_reply, kernel_next_act, unique>>
      /\ IF ~Expected(token)
           THEN kernel_panic("bad sync creturn")
           ELSE IF sched_status[token.aid] # "sync_block"
                  THEN kernel_panic("assertion")
                  ELSE act_wait(r, curr, token.aid)
  BY DEF Return, creturn_sync, curr
<1> HIDE DEF r
<1>2. /\ SchedInv /\ Good(Now, held, expected_reply) /\ panic = "no" /\ curr \in Aid
      /\ sched_status[curr] = "runnable"
      /\ expected_reply \in [Aid -> 0 .. UNIQUE_MOD - 1] /\ unique \in 0 .. UNIQUE_MOD - 1
      /\ unique <= MaxCalls /\ \A a \in Aid : expected_reply[a] <= unique
  BY <1>1, TokFacts
<1>3. /\ sched_status[token.aid] = "sync_block"
      /\ expected_reply[token.aid] = token.unique
      /\ Good(r, held', expected_reply') /\ r.fr[curr].c1 = NULL
  BY <1>1, <1>2, ReplyGood DEF Keeps, r
<1>4. token.aid \in Aid
  <2>1. frame \in [Aid -> Msg] /\ held \in [Aid -> SUBSET Token]
    BY <1>1, <1>2, InvFacts DEF UserType, SchedType, Now
  <2> QED BY <1>2, <2>1 DEF mine, Msg, Token
<1>5. Expected(token)
  <2>1. /\ token.unique \in Nat /\ token.unique <= unique /\ unique \in Nat
        /\ MaxCalls \in Nat /\ REPLY_MOD \in Nat
    BY <1>2, <1>3, <1>4, UserAssumption, ModAssumption
  <2>2. token.unique < REPLY_MOD
    BY <1>2, <2>1
  <2>3. token.unique % REPLY_MOD = token.unique
    BY <2>1, <2>2
  <2> QED BY <1>3, <2>3 DEF Expected
<1>6. act_wait(r, curr, token.aid)
  BY <1>1, <1>3, <1>5
<1>7. SchedOK(r) /\ r.st[curr] = "runnable"
  BY <1>1, <1>2, <1>3, <1>4, ReplyOK DEF r
<1>8. Kept
  BY <1>2, <1>3, <1>4, <1>6, <1>7, WaitGood
<1> QED BY <1>1, <1>2, <1>8, KeptInv

(* Yielding, registering, revoking, terminating, a fault, the timer.       *)
LEMMA OtherTok ==
  ASSUME TokInv, SchedInv', IrqInv', NEW act \in Registered,
         Sleep \/ Register \/ Revoke(act) \/ Terminate(curr) \/ Fault \/ Tick
  PROVE  TokInv'
<1>1. Running /\ UNCHANGED <<expected_reply, unique, held>>
  BY DEF Sleep, Register, Revoke, Terminate, Fault, Tick, syscall_sleep, act_register,
         act_revoke, act_terminate, user_fault, kernel_timer
<1>2. /\ SchedInv /\ Good(Now, held', expected_reply') /\ panic = "no" /\ curr \in Aid
      /\ sched_status[curr] = "runnable" /\ SchedOK(Now)
      /\ unique' <= MaxCalls /\ \A a \in Aid : expected_reply'[a] <= unique'
  BY <1>1, TokFacts, InvFacts
<1>3. 0 \in Aid
  BY MaxActivationsAssumption DEF Aid
<1>4. CASE Sleep \/ Tick
  <2>1. sched_reschedule(Now, 0)
    BY <1>4 DEF Sleep, Tick, syscall_sleep, kernel_timer
  <2>2. Kept
    BY <1>2, <1>3, <2>1, RescheduleGood
  <2> QED BY <1>2, <2>2, KeptInv
<1>5. CASE Fault
  <2>1. panic' = "user fault"
    BY <1>5 DEF Fault, user_fault, kernel_panic
  <2>2. Kept
    BY <2>1 DEF Kept, Faults
  <2> QED BY <1>2, <2>2, KeptInv
<1>6. CASE Revoke(act)
  <2>1. panic' = panic /\ UNCHANGED <<sched_status, rq, msg_queues, frame>>
    BY <1>6 DEF Revoke, act_revoke
  <2>2. Next_s.st = Now.st /\ Next_s.mq = Now.mq /\ Next_s.fr = Now.fr
    BY <2>1 DEF Next_s, Now
  <2>3. Good(Next_s, held', expected_reply')
    BY <1>2, <2>2, SameGood
  <2>4. Kept
    BY <1>2, <2>1, <2>3 DEF Kept, Faults
  <2> QED BY <1>2, <2>4, KeptInv
<1>7. CASE Terminate(curr)
  <2> DEFINE t == sched_delete(Now, curr)
  <2>1. SchedOK(t) /\ sched_reschedule(t, 0)
    BY <1>2, <1>7, DeleteOK
  <2>2. t.st = [sched_status EXCEPT ![curr] = "terminated"]
        /\ t.mq = msg_queues /\ t.fr = frame
    BY DEF sched_delete, Now
  <2>3. Good(t, held', expected_reply')
    <3>1. \A a \in Aid : /\ Now.st[a] = "sync_block" <=> t.st[a] = "sync_block"
                         /\ Idle(t.st[a]) => Idle(Now.st[a])
      BY <1>2, <2>2 DEF SchedOK, SchedType, Now, Idle
    <3>2. t.mq = Now.mq /\ t.fr = Now.fr
      BY <2>2 DEF Now
    <3> HIDE DEF t
    <3> QED BY <1>2, <3>1, <3>2, SameGood
  <2>4. Kept
    BY <1>2, <1>3, <2>1, <2>3, RescheduleGood
  <2> QED BY <1>2, <2>4, KeptInv
<1>8. CASE Register
  <2>1. CASE kernel_next_act >= MAX_ACTIVATIONS
    <3>1. panic' = "no act slot"
      BY <1>8, <2>1 DEF Register, act_register, kernel_panic
    <3>2. Kept
      BY <3>1 DEF Kept, Faults
    <3> QED BY <1>2, <3>2, KeptInv
  <2>2. CASE ~(kernel_next_act >= MAX_ACTIVATIONS)
    <3> DEFINE new == kernel_next_act
    <3>1. /\ sched_status' = [sched_status EXCEPT ![new] = "waiting"]
          /\ msg_queues' = [msg_queues EXCEPT ![new] = msg_queue_init(msg_queues[new])]
          /\ frame' = [frame EXCEPT ![new] = NoMsg] /\ panic' = panic
      BY <1>8, <2>2 DEF Register, act_register
    <3>2. /\ sched_status \in [Aid -> SchedStatus] /\ msg_queues \in [Aid -> Rings(Msg)]
          /\ frame \in [Aid -> Msg]
          /\ \A a \in Aid : a >= new => sched_status[a] = "waiting"
      BY <1>2 DEF SchedOK, SchedType, Now, SchedInv
    <3>3. \A a \in Aid : Now.st[a] = "sync_block" <=> Next_s.st[a] = "sync_block"
      <4>1. kernel_next_act >= kernel_next_act
        BY <1>1, <1>2, InvFacts
      <4> QED BY <3>1, <3>2, <4>1 DEF Now, Next_s
    <3>4. Pending(msg_queue_init(msg_queues[new])) = {}
      BY DEF Pending, msg_queue_init, Slot
    <3>5. ASSUME NEW t \in Token, NEW p \in Place, At(Next_s, held', p, t)
          PROVE  At(Now, held', p, t)
      <4>1. p.a \in Aid /\ t # NULL
        BY NullAssumption DEF Place
      <4>2. CASE p.a = new
        BY <3>1, <3>2, <3>4, <3>5, <4>1, <4>2 DEF At, Next_s, Now, NoMsg
      <4>3. CASE p.a # new
        BY <3>1, <3>2, <3>5, <4>1, <4>3 DEF At, Next_s, Now
      <4> QED BY <4>2, <4>3
    <3>8. \A a \in Aid : Idle(Next_s.st[a]) => Next_s.fr[a].c1 = NULL
      <4>1. \A a \in Aid : Idle(sched_status[a]) => frame[a].c1 = NULL
        BY <1>2 DEF Good, IdleEmpty, Now
      <4> QED BY <3>1, <3>2, <4>1 DEF Next_s, NoMsg
    <3>9. ASSUME NEW t \in Token, NEW p \in Place, At(Now, held', p, t)
          PROVE  At(Next_s, held', p, t)
      <4>1. p.a \in Aid /\ t # NULL
        BY NullAssumption DEF Place
      <4>2. CASE p.a = new
        <5>1. sched_status[new] = "waiting"
          BY <3>2, <4>1, <4>2, InvFacts, <1>1, <1>2
        <5>2. frame[new].c1 = NULL
          BY <1>2, <4>1, <4>2, <5>1 DEF Good, IdleEmpty, Idle, Now
        <5>3. Pending(msg_queues[new]) = {}
          <6>1. empty(msg_queues[new])
            BY <1>2, <4>1, <4>2, <5>1 DEF SchedOK, Mail, Now
          <6> QED BY <3>2, <4>1, <4>2, <6>1 DEF empty, Pending, Slot, Rings
        <5>4. p = InHeld(p.a) /\ t \in held'[p.a]
          BY <3>9, <4>1, <4>2, <5>2, <5>3 DEF At, Now
        <5> QED BY <5>4 DEF At
      <4>3. CASE p.a # new
        BY <3>1, <3>2, <3>9, <4>1, <4>3 DEF At, Next_s, Now
      <4> QED BY <4>2, <4>3
    <3>6. Good(Next_s, held', expected_reply')
      <4>1. InC1(curr) \in Place
        BY <1>2, PlaceFacts
      <4> QED BY <1>2, <3>3, <3>5, <3>8, <3>9, <4>1, MoveGood
    <3>7. Kept
      BY <1>2, <3>1, <3>6 DEF Kept, Faults
    <3> QED BY <1>2, <3>7, KeptInv
  <2> QED BY <2>1, <2>2
<1> QED BY <1>4, <1>5, <1>6, <1>7, <1>8

(* An interrupt's message wants no answer.                                 *)
LEMMA InterruptTok ==
  ASSUME TokInv, SchedInv', IrqInv', NEW i \in Irq, Interrupt(i)
  PROVE  TokInv'
<1> DEFINE child == int_child[i]
           m == [v0 |-> INT, c1 |-> NULL]
           s == msg_push(Interrupted, child, m)
<1>1. /\ Running /\ UNCHANGED <<status, expected_reply, kernel_next_act, unique, held>>
      /\ IF full(msg_queues[child]) THEN kernel_panic("queue full (int)") ELSE Resume(s)
  BY DEF Interrupt, kernel_interrupt_others
<1> HIDE DEF child, m, s
<1>2. /\ SchedInv /\ IrqInv /\ Good(Now, held', expected_reply') /\ panic = "no"
      /\ curr \in Aid /\ unique' <= MaxCalls /\ \A a \in Aid : expected_reply'[a] <= unique'
  BY <1>1, TokFacts DEF TokInv
<1>3. /\ child \in Aid /\ m \in Msg /\ SchedOK(Interrupted)
      /\ Interrupted.st = sched_status /\ Interrupted.mq = msg_queues
  BY <1>1, <1>2, InterruptOK DEF child, m
<1>4. CASE full(msg_queues[child])
  <2>1. panic' = "queue full (int)"
    BY <1>1, <1>4 DEF kernel_panic
  <2>2. Kept
    BY <2>1 DEF Kept, Faults
  <2> QED BY <1>2, <2>2, KeptInv
<1>5. CASE ~full(msg_queues[child])
  <2>1. sched_status \in [Aid -> SchedStatus] /\ frame \in [Aid -> Msg]
    BY <1>1, <1>2, InvFacts DEF SchedType, Now
  <2>2. \A a \in Aid : Interrupted.fr[a].c1 = frame[a].c1
    BY <2>1 DEF Interrupted
  <2>3. ASSUME NEW t \in Token, NEW p \in Place, At(s, held', p, t)
        PROVE  At(Now, held', p, t)
    <3>1. m.c1 # t
      BY NullAssumption DEF m
    <3>2. At(Interrupted, held', p, t)
      BY <1>3, <1>5, <2>3, <3>1, PushAt DEF s
    <3>3. p.a \in Aid
      BY DEF Place
    <3> QED BY <1>3, <2>2, <3>2, <3>3 DEF At, Now
  <2>4. /\ \A t \in Token, p \in Place : At(Interrupted, held', p, t) => At(s, held', p, t)
        /\ s.fr = Interrupted.fr
        /\ \A a \in Aid : /\ Idle(s.st[a]) <=> Idle(Interrupted.st[a])
                          /\ Interrupted.st[a] = "sync_block" <=> s.st[a] = "sync_block"
    BY <1>3, <1>5, PushKeeps DEF s
  <2>8. \A t \in Token, p \in Place : At(Now, held', p, t) => At(s, held', p, t)
    <3> SUFFICES ASSUME NEW t \in Token, NEW p \in Place, At(Now, held', p, t)
                 PROVE  At(Interrupted, held', p, t)
      BY <2>4
    <3>1. p.a \in Aid
      BY DEF Place
    <3> QED BY <1>3, <2>2, <3>1 DEF At, Now
  <2>9. \A a \in Aid : /\ Now.st[a] = "sync_block" <=> s.st[a] = "sync_block"
                       /\ Idle(s.st[a]) => s.fr[a].c1 = NULL
    <3>1. \A a \in Aid : Idle(sched_status[a]) => frame[a].c1 = NULL
      BY <1>2 DEF Good, IdleEmpty, Now
    <3>2. \A a \in Aid : Interrupted.st[a] = sched_status[a]
      BY <1>3
    <3>3. ASSUME NEW a \in Aid, Idle(s.st[a])
          PROVE  s.fr[a].c1 = NULL
      <4>1. Idle(sched_status[a])
        BY <2>4, <3>2, <3>3
      <4> QED BY <2>2, <2>4, <3>1, <4>1
    <3>4. \A a \in Aid : sched_status[a] = "sync_block" <=> s.st[a] = "sync_block"
      BY <2>4, <3>2
    <3> QED BY <3>3, <3>4 DEF Now
  <2>5. InC1(curr) \in Place
    BY <1>2, PlaceFacts
  <2>6. Good(s, held', expected_reply')
    BY <1>2, <2>3, <2>5, <2>8, <2>9, MoveGood
  <2>7. Kept
    BY <1>1, <1>2, <1>5, <2>6, ResumeKept
  <2> QED BY <1>2, <2>7, KeptInv
<1> QED BY <1>4, <1>5

(* Before the first call there is no token.                                *)
LEMMA TokInit == Init => TokInv
<1> SUFFICES ASSUME Init PROVE TokInv
  OBVIOUS
<1>1. act_init /\ held = [a \in Aid |-> {}]
  BY DEF Init
<1>2. SchedInv /\ IrqInv
  BY SchedInit, IrqInit
<1>3. \A t \in Token, p \in Place : ~At(Now, held, p, t)
  <2>1. ASSUME NEW a \in Aid
        PROVE  Pending(msg_queues[a]) = {} /\ frame[a].c1 = NULL /\ held[a] = {}
    BY <1>1 DEF act_init, Pending, NoMsg, Slot
  <2> QED BY <2>1, NullAssumption DEF At, Now, Place
<1>4. Good(Now, held, expected_reply)
  <2>1. \A a \in Aid : sched_status[a] # "sync_block" /\ frame[a].c1 = NULL
    BY <1>1 DEF act_init, NoMsg
  <2> QED BY <1>3, <2>1 DEF Good, AllOwed, InOnePlace, NoneLost, IdleEmpty, Now
<1>5. unique <= MaxCalls /\ \A a \in Aid : expected_reply[a] <= unique
  BY <1>1, UserAssumption DEF act_init
<1>6. NoKernelFault
  BY <1>1 DEF act_init, NoKernelFault, Faults
<1> QED BY <1>2, <1>4, <1>5, <1>6 DEF TokInv

(* Every step keeps it, if no more calls are made than kernel_creturn's    *)
(* mask can tell apart.                                                    *)
LEMMA TokStep ==
  ASSUME ForeignCtrl = FALSE, MaxCalls < REPLY_MOD, TokInv, [Next]_vars
  PROVE  TokInv'
<1>1. SchedInv /\ IrqInv /\ SchedInv' /\ IrqInv'
  BY SchedStep, IrqStep DEF TokInv
<1>2. ASSUME NEW cb \in Registered, NEW store \in BOOLEAN, NEW arg \in Arg,
             \/ Refused(cb, store, arg) \/ Send(cb, store, arg)
             \/ Switch(cb, store, arg) \/ Call(cb, store, arg)
      PROVE  TokInv'
  BY <1>1, <1>2, AsyncTok, CallTok
<1>3. ASSUME Running PROVE 1 \in Registered
  BY <1>1, <1>3, InvFacts, MaxActivationsAssumption DEF Registered
<1>4. ASSUME NEW arg \in Arg, Wait(arg) PROVE TokInv'
  BY <1>1, <1>3, <1>4, AsyncTok DEF Wait
<1>5. ASSUME NEW token \in mine, NEW arg \in Arg, Return(token, arg) PROVE TokInv'
  BY <1>1, <1>5, ReturnTok
<1>6. ASSUME NEW act \in Registered,
             Sleep \/ Register \/ Revoke(act) \/ Terminate(curr) \/ Fault \/ Tick
      PROVE  TokInv'
  BY <1>1, <1>6, OtherTok
<1>7. Sleep \/ Register \/ Terminate(curr) \/ Fault \/ Tick => Running
  BY DEF Sleep, Register, Terminate, Fault, Tick
<1>8. ASSUME UNCHANGED vars PROVE TokInv'
  BY <1>1, <1>8
     DEF vars, kvars, TokInv, NoKernelFault, Running, Good, AllOwed, InOnePlace, NoneLost,
         IdleEmpty, At, Now
<1>9. ASSUME NEW i \in Irq, InterruptRegister(i) \/ InterruptEnable(i) PROVE TokInv'
  <2>1. UNCHANGED <<kvars, held>>
    BY <1>9 DEF InterruptRegister, InterruptEnable, kernel_interrupt_register,
                kernel_interrupt_enable
  <2> QED BY <1>1, <2>1
      DEF kvars, TokInv, NoKernelFault, Running, Good, AllOwed, InOnePlace, NoneLost,
         IdleEmpty, At, Now
<1>10. ASSUME NEW i \in Irq, Interrupt(i) PROVE TokInv'
  BY <1>1, <1>10, InterruptTok
<1> QED BY <1>2, <1>3, <1>4, <1>5, <1>6, <1>7, <1>8, <1>9, <1>10 DEF Next, Frozen

(* Every reply token is owed to a caller blocked on it, and in one place.  *)
THEOREM TokInvariant ==
  ASSUME ForeignCtrl = FALSE, MaxCalls < REPLY_MOD PROVE Spec => []TokInv
<1>1. Init => TokInv
  BY TokInit
<1>2. TokInv /\ [Next]_vars => TokInv'
  BY TokStep
<1> QED BY <1>1, <1>2, PTL DEF Spec

(* No assertion of the kernel fails and every answer is expected: with any *)
(* number of activations and any queue size, as long as an activation      *)
(* terminates nobody but itself and fewer than 2^28 calls are made.        *)
THEOREM KernelNeverFaults ==
  ASSUME ForeignCtrl = FALSE, MaxCalls < REPLY_MOD PROVE Spec => []NoKernelFault
<1>1. TokInv => NoKernelFault
  BY DEF TokInv
<1> QED BY <1>1, TokInvariant, PTL

(* The places of the tokens that TokensOwed and TokensUnique speak of.     *)
LEMMA Places ==
  ASSUME TokInv, NEW a \in Aid
  PROVE  /\ \A i \in Pending(msg_queues[a]) :
              /\ InSlot(a, i) \in Place /\ InSlot(a, i).a = a /\ InSlot(a, i).i = i
              /\ msg_queues[a].msg[i].c1 # NULL =>
                    /\ msg_queues[a].msg[i].c1 \in Token
                    /\ At(Now, held, InSlot(a, i), msg_queues[a].msg[i].c1)
         /\ InC1(a) \in Place /\ InC1(a).a = a
         /\ frame[a].c1 # NULL => frame[a].c1 \in Token /\ At(Now, held, InC1(a), frame[a].c1)
         /\ InHeld(a) \in Place /\ InHeld(a).a = a
         /\ \A t \in held[a] : t \in Token /\ At(Now, held, InHeld(a), t)
         /\ \A b \in Aid, i \in Slot : /\ InSlot(a, i) # InC1(b) /\ InSlot(a, i) # InHeld(b)
                                       /\ InC1(a) # InHeld(b)
<1>1. /\ held[a] \in SUBSET Token /\ frame[a].c1 \in Token \cup {NULL}
      /\ msg_queues[a] \in Rings(Msg)
  BY DEF TokInv, SchedInv, CoreType, KTypeOK, Msg
<1>2. /\ InC1(a) \in Place /\ InHeld(a) \in Place /\ InC1(a).a = a /\ InHeld(a).a = a
      /\ \A i \in Slot : /\ InSlot(a, i) \in Place /\ InSlot(a, i).k = "queue"
                          /\ InSlot(a, i).a = a /\ InSlot(a, i).i = i
  BY PlaceFacts DEF InC1, InHeld, InSlot
<1>3. \A i \in Pending(msg_queues[a]) :
         i \in Slot /\ msg_queues[a].msg[i].c1 \in Token \cup {NULL}
  BY <1>1 DEF Pending, Rings, Msg
<1>4. \A i \in Pending(msg_queues[a]) :
         At(Now, held, InSlot(a, i), msg_queues[a].msg[i].c1)
  BY <1>2, <1>3 DEF At, Now
<1>5. At(Now, held, InC1(a), frame[a].c1) /\ \A t \in held[a] : At(Now, held, InHeld(a), t)
  BY <1>2 DEF At, Now
<1>6. \A b \in Aid, i \in Slot : /\ InSlot(a, i) # InC1(b) /\ InSlot(a, i) # InHeld(b)
                                /\ InC1(a) # InHeld(b)
  BY DEF InSlot, InC1, InHeld
<1> QED BY <1>1, <1>2, <1>3, <1>4, <1>5, <1>6

(* Each token that can still be returned is owed to a caller that waits.   *)
THEOREM TokensAreOwed ==
  ASSUME ForeignCtrl = FALSE, MaxCalls < REPLY_MOD PROVE Spec => []TokensOwed
<1>1. TokInv => TokensOwed
  <2> SUFFICES ASSUME TokInv, Running PROVE TokensOwed
    BY DEF TokensOwed
  <2>1. \A t \in Token, p \in Place : At(Now, held, p, t) => Owed(t)
    BY DEF TokInv, Good, AllOwed, Now, Owed
  <2> QED BY <2>1, Places DEF TokensOwed
<1> QED BY <1>1, TokInvariant, PTL

(* No token is in two places, so that no caller can be answered twice.     *)
THEOREM TokensAreUnique ==
  ASSUME ForeignCtrl = FALSE, MaxCalls < REPLY_MOD PROVE Spec => []TokensUnique
<1>1. TokInv => TokensUnique
  <2> SUFFICES ASSUME TokInv, Running, NEW a \in Aid, NEW b \in Aid
               PROVE
    /\ \A i \in Pending(msg_queues[a]), j \in Pending(msg_queues[b]) :
          LET t == msg_queues[a].msg[i].c1
          IN  t # NULL /\ t = msg_queues[b].msg[j].c1 => a = b /\ i = j
    /\ \A i \in Pending(msg_queues[a]) :
          LET t == msg_queues[a].msg[i].c1
          IN  t # NULL => t # frame[b].c1 /\ t \notin held[b]
    /\ frame[a].c1 # NULL => /\ frame[a].c1 \notin held[b]
                             /\ frame[a].c1 = frame[b].c1 => a = b
    /\ a # b => held[a] \cap held[b] = {}
    BY Zenon DEF TokensUnique
  <2>1. \A t \in Token, p, q \in Place : At(Now, held, p, t) /\ At(Now, held, q, t) => p = q
    BY DEF TokInv, Good, InOnePlace
  <2>2. \A i \in Pending(msg_queues[a]) : i \in Slot
    BY DEF Pending
  <2>3. ASSUME NEW i \in Pending(msg_queues[a]), NEW j \in Pending(msg_queues[b]),
               msg_queues[a].msg[i].c1 # NULL,
               msg_queues[a].msg[i].c1 = msg_queues[b].msg[j].c1
        PROVE  a = b /\ i = j
    BY <2>1, <2>3, Places
  <2>4. ASSUME NEW i \in Pending(msg_queues[a]), msg_queues[a].msg[i].c1 # NULL
        PROVE  msg_queues[a].msg[i].c1 # frame[b].c1 /\ msg_queues[a].msg[i].c1 \notin held[b]
    BY <2>1, <2>2, <2>4, Places
  <2>5. ASSUME frame[a].c1 # NULL
        PROVE  frame[a].c1 \notin held[b] /\ (frame[a].c1 = frame[b].c1 => a = b)
    BY <2>1, <2>5, Places, MaxMsgAssumption DEF Slot
  <2>6. a # b => held[a] \cap held[b] = {}
    BY <2>1, Places
  <2> QED BY <2>3, <2>4, <2>5, <2>6
<1> QED BY <1>1, TokInvariant, PTL

(* No answer is lost: the token of a blocked caller is in the queue, the   *)
(* register or the memory of some activation, so that it can be returned.  *)
THEOREM BlockedHaveTokens ==
  ASSUME ForeignCtrl = FALSE, MaxCalls < REPLY_MOD PROVE Spec => []BlockedHasToken
<1>1. TokInv => BlockedHasToken
  <2> SUFFICES ASSUME TokInv, Running, NEW c \in Aid, sched_status[c] = "sync_block"
               PROVE  \E a \in Aid : LET t == [aid |-> c, unique |-> expected_reply[c]]
                                    IN  InQueue(a, t) \/ InReg(a, t) \/ InMem(a, t)
    BY Zenon DEF BlockedHasToken
  <2>1. PICK t \in Token, p \in Place : t.aid = c /\ At(Now, held, p, t)
    BY DEF TokInv, Good, NoneLost, Now
  <2>2. expected_reply[c] = t.unique
    BY <2>1 DEF TokInv, Good, AllOwed
  <2>3. t = [aid |-> c, unique |-> expected_reply[c]]
    BY <2>1, <2>2 DEF Token
  <2>4. p.a \in Aid
    BY DEF Place
  <2>5. InQueue(p.a, t) \/ InReg(p.a, t) \/ InMem(p.a, t)
    BY <2>1 DEF At, InQueue, InReg, InMem, Now
  <2> QED BY <2>3, <2>4, <2>5
<1> QED BY <1>1, TokInvariant, PTL

----------------------------------------------------------------------------
(* The refinement.                                                         *)

(* The mapping of Activations, of a handler's state s and the memories h.  *)
Modes(s) == [a \in Aid |-> ModeOf(s.st[a])]
Boxes(s) == [a \in Aid |-> Contents(s.mq[a])]
Vals(s)  == [a \in Aid |-> IF s.st[a] = "runnable" THEN s.fr[a].v0 ELSE ZERO]
Owes(s, h) == [a \in Aid |-> h[a] \cup ({s.fr[a].c1} \ {NULL})]

(* The variables of Ipc under it, and Dispatch of Ipc as it reads there.    *)
IpcMode == [a \in Aid |-> ModeOf(sched_status[a])]
IpcMbox == [a \in Aid |-> Contents(msg_queues[a])]
IpcVal  == [a \in Aid |-> IF sched_status[a] = "runnable" THEN frame[a].v0 ELSE ZERO]
IpcOwes == [a \in Aid |-> held[a] \cup ({frame[a].c1} \ {NULL})]

Dispatches(md, mb, vl, ow) ==
  \E n \in Aid :
    /\ kernel_curr_act' = n
    /\ \/ /\ md[n] = "busy"
          /\ IpcMode' = md /\ IpcMbox' = mb /\ IpcVal' = vl /\ IpcOwes' = ow
       \/ /\ md[n] = "idle" /\ mb[n] # <<>>
          /\ IpcMode' = [md EXCEPT ![n] = "busy"]
          /\ IpcMbox' = [a \in Aid |-> IF a = n THEN Tail(mb[a]) ELSE mb[a]]
          /\ IpcVal' = [vl EXCEPT ![n] = Head(mb[n]).v0]
          /\ IpcOwes' = [ow EXCEPT ![n] = @ \cup ({Head(mb[n]).c1} \ {NULL})]

Put(f, a, v)  == [f EXCEPT ![a] = v]
Post(b, d, m) == [b EXCEPT ![d] = Append(@, m)]

(* Somebody is chosen...                                                   *)
Chooses(s, h) == Dispatches(Modes(s), Boxes(s), Vals(s), Owes(s, h))

(* ... after act went to wait.                                             *)
Rests(s, h, act) ==
  Dispatches(Put(Modes(s), act, "idle"), Boxes(s),
             Put(Vals(s), act, ZERO), Owes(s, h))

(* What Ipc tells apart of the status of an activation.                    *)
LEMMA ModeFacts ==
  /\ ModeOf("waiting") = "idle" /\ ModeOf("schedulable") = "idle"
  /\ ModeOf("runnable") = "busy" /\ ModeOf("sync_block") = "blocked"
  /\ ModeOf("terminated") = "dead"
BY DEF ModeOf

(* An empty ring holds nothing.                                            *)
LEMMA EmptyContents ==
  ASSUME NEW q \in Rings(Msg), empty(q)
  PROVE  Contents(q) = <<>>
<1>1. Contents(q) \in Seq(Msg) /\ Len(Contents(q)) = Count(q) /\ Count(q) = 0
  BY RingFacts, ContentsFacts
<1> QED BY <1>1

(* The kernel has stopped where it was.                                    *)
Stopped == /\ panic' # "no"
           /\ UNCHANGED <<sched_status, rq, msg_queues, frame, kernel_curr_act>>

(* SwitchTo delivers the oldest message to an idle activation, or returns  *)
(* to a busy one.                                                          *)
LEMMA SwitchDispatches ==
  ASSUME NEW s, SchedOK(s), IdleEmpty(s), NEW act \in Aid, Ready(s, act), SwitchTo(s, act),
         held' \in [Aid -> SUBSET Token]
  PROVE  Chooses(s, held')
<1>1. /\ s.st \in [Aid -> SchedStatus] /\ s.mq \in [Aid -> Rings(Msg)] /\ s.fr \in [Aid -> Msg]
      /\ Mail(s, act) /\ s.mq[act] \in Rings(Msg)
  BY DEF SchedOK, SchedType
<1>2. CASE s.st[act] = "schedulable"
  <2>1. ~empty(s.mq[act])
    BY <1>1, <1>2 DEF Mail
  <2>2. /\ kernel_curr_act' = act
        /\ sched_status' = [s.st EXCEPT ![act] = "runnable"]
        /\ msg_queues' = [s.mq EXCEPT ![act] = dequeue(s.mq[act])]
        /\ frame' = [s.fr EXCEPT ![act] = front(s.mq[act])]
    BY <1>2, <2>1 DEF SwitchTo, sched_schedule
  <2>3. /\ Contents(s.mq[act]) # <<>> /\ front(s.mq[act]) = Head(Contents(s.mq[act]))
        /\ Contents(dequeue(s.mq[act])) = Tail(Contents(s.mq[act]))
    BY <1>1, <2>1, DequeueTakes
  <2>4. Modes(s)[act] = "idle" /\ Boxes(s)[act] = Contents(s.mq[act])
    BY <1>2 DEF Modes, Boxes, ModeOf
  <2>5. [a \in Aid |-> ModeOf(sched_status'[a])] = [Modes(s) EXCEPT ![act] = "busy"]
    <3>1. \A a \in Aid : ModeOf(sched_status'[a]) = IF a = act THEN "busy" ELSE Modes(s)[a]
      BY <1>1, <2>2, ModeFacts DEF Modes
    <3> QED BY <3>1 DEF Modes
  <2>6. [a \in Aid |-> Contents(msg_queues'[a])]
           = [a \in Aid |-> IF a = act THEN Tail(Boxes(s)[a]) ELSE Boxes(s)[a]]
    <3>1. \A a \in Aid : Contents(msg_queues'[a])
                           = IF a = act THEN Tail(Boxes(s)[a]) ELSE Boxes(s)[a]
      BY <1>1, <2>2, <2>3 DEF Boxes
    <3> QED BY <3>1
  <2>7. [a \in Aid |-> IF sched_status'[a] = "runnable" THEN frame'[a].v0 ELSE ZERO]
           = [Vals(s) EXCEPT ![act] = Head(Boxes(s)[act]).v0]
    <3>1. \A a \in Aid : (IF sched_status'[a] = "runnable" THEN frame'[a].v0 ELSE ZERO)
                           = IF a = act THEN Head(Boxes(s)[act]).v0 ELSE Vals(s)[a]
      BY <1>1, <2>2, <2>3, <2>4 DEF Vals
    <3> QED BY <3>1 DEF Vals
  <2>8. [a \in Aid |-> held'[a] \cup ({frame'[a].c1} \ {NULL})]
           = [Owes(s, held') EXCEPT ![act] = @ \cup ({Head(Boxes(s)[act]).c1} \ {NULL})]
    <3>1. s.fr[act].c1 = NULL
      BY <1>2 DEF IdleEmpty, Idle
    <3>2. \A a \in Aid : held'[a] \cup ({frame'[a].c1} \ {NULL})
                           = IF a = act THEN Owes(s, held')[act] \cup ({Head(Boxes(s)[act]).c1} \ {NULL})
                                        ELSE Owes(s, held')[a]
      BY <1>1, <2>2, <2>3, <2>4, <3>1 DEF Owes
    <3> QED BY <3>2 DEF Owes
  <2> QED BY <2>2, <2>3, <2>4, <2>5, <2>6, <2>7, <2>8
          DEF Chooses, Dispatches, IpcMode, IpcMbox, IpcVal, IpcOwes
<1>3. CASE s.st[act] # "schedulable"
  <2>1. /\ kernel_curr_act' = act /\ sched_status' = s.st /\ msg_queues' = s.mq /\ frame' = s.fr
        /\ s.st[act] = "runnable"
    BY <1>3 DEF SwitchTo, Ready
  <2>2. Modes(s)[act] = "busy"
    BY <2>1 DEF Modes, ModeOf
  <2> QED BY <2>1, <2>2
          DEF Chooses, Dispatches, IpcMode, IpcMbox, IpcVal, IpcOwes, Modes, Boxes, Vals, Owes
<1> QED BY <1>2, <1>3

(* The scheduler chooses somebody with work to do.  If hint may run the    *)
(* kernel does not stop.                                                   *)
LEMMA RescheduleDispatches ==
  ASSUME NEW s, SchedOK(s), IdleEmpty(s), NEW hint \in Aid, sched_reschedule(s, hint),
         held' \in [Aid -> SUBSET Token]
  PROVE  \/ Chooses(s, held')
         \/ Stopped /\ ~(hint # 0 /\ Ready(s, hint))
<1>1. CASE hint # 0 /\ Ready(s, hint)
  BY <1>1, SwitchDispatches DEF sched_reschedule
<1>2. CASE ~(hint # 0 /\ Ready(s, hint)) /\ s.rq.end = 0
  BY <1>2 DEF sched_reschedule, kernel_panic, Stopped
<1>3. CASE ~(hint # 0 /\ Ready(s, hint)) /\ s.rq.end # 0
  <2> DEFINE t == [st |-> s.st, rq |-> [s.rq EXCEPT !.idx = FirstPick(s)],
                   mq |-> s.mq, fr |-> s.fr]
             act == s.rq.squeue_a[FirstPick(s)]
  <2>1. PickRounds(s) # {} /\ FirstPick(s) \in Aid /\ act \in Active(s.st)
    BY <1>3, FirstPickReady
  <2>2. SwitchTo(t, act)
    BY <1>3, <2>1 DEF sched_reschedule
  <2>3. t.rq \in RunQueues /\ Lists(t.rq, Active(t.st))
    BY <2>1 DEF SchedOK, SchedType, RunQueues, Lists
  <2>4. SchedOK(t) /\ IdleEmpty(t)
    BY <2>3 DEF SchedOK, SchedType, Mail, IdleEmpty
  <2>5. act \in Aid /\ Ready(t, act)
    BY <2>1 DEF Active, Ready
  <2>6. /\ Modes(t) = Modes(s) /\ Boxes(t) = Boxes(s) /\ Vals(t) = Vals(s)
        /\ Owes(t, held') = Owes(s, held')
    BY DEF Modes, Boxes, Vals, Owes
  <2> HIDE DEF t, act
  <2>7. Chooses(t, held')
    BY <2>2, <2>4, <2>5, SwitchDispatches
  <2> QED BY <2>6, <2>7 DEF Chooses
<1> QED BY <1>1, <1>2, <1>3

(* The running activation goes to wait: it is idle, whether or not a       *)
(* message is there.                                                       *)
LEMMA WaitDispatches ==
  ASSUME NEW s, SchedOK(s), IdleEmpty(s), NEW act \in Aid, s.st[act] = "runnable",
         s.fr[act].c1 = NULL, NEW hint \in Aid, act_wait(s, act, hint),
         held' \in [Aid -> SUBSET Token]
  PROVE  \/ Rests(s, held', act)
         \/ Stopped /\ ~(hint # 0 /\ hint # act /\ Ready(s, hint))
<1>1. /\ s.st \in [Aid -> SchedStatus] /\ act \in Active(s.st) /\ s.st[0] = "terminated"
      /\ \A a \in Aid : Mail(s, a)
  BY DEF SchedOK, SchedType, Active
<1>2. ASSUME NEW t, SchedOK(t), NEW stat \in {"waiting", "schedulable"},
             t.st = [s.st EXCEPT ![act] = stat], t.mq = s.mq, t.fr = s.fr,
             sched_reschedule(t, hint)
      PROVE  \/ Rests(s, held', act)
             \/ Stopped /\ ~(hint # 0 /\ hint # act /\ Ready(s, hint))
  <2>1. IdleEmpty(t)
    BY <1>1, <1>2 DEF IdleEmpty, Idle
  <2>2. Modes(t) = Put(Modes(s), act, "idle")
    <3>1. \A a \in Aid : ModeOf(t.st[a]) = IF a = act THEN "idle" ELSE Modes(s)[a]
      BY <1>1, <1>2, ModeFacts DEF Modes
    <3> QED BY <3>1 DEF Modes, Put
  <2>3. Vals(t) = Put(Vals(s), act, ZERO)
    <3>1. \A a \in Aid : Vals(t)[a] = IF a = act THEN ZERO ELSE Vals(s)[a]
      BY <1>1, <1>2 DEF Vals
    <3> QED BY <3>1 DEF Vals, Put
  <2>4. Boxes(t) = Boxes(s) /\ Owes(t, held') = Owes(s, held')
    BY <1>2 DEF Boxes, Owes
  <2>5. hint # act => (Ready(t, hint) <=> Ready(s, hint))
    BY <1>1, <1>2 DEF Ready
  <2>6. Chooses(t, held') => Rests(s, held', act)
    BY <2>2, <2>3, <2>4 DEF Chooses, Rests
  <2> QED BY <1>2, <2>1, <2>5, <2>6, RescheduleDispatches
<1>3. CASE empty(s.mq[act])
  <2> DEFINE t == sched_a2d(s, act, "waiting")
  <2>1. SchedOK(t) /\ QDEL_assert(s.rq, act)
    BY <1>1, <1>3, A2DOK
  <2>2. sched_reschedule(t, hint)
    BY <1>3, <2>1 DEF act_wait
  <2>3. t.st = [s.st EXCEPT ![act] = "waiting"] /\ t.mq = s.mq /\ t.fr = s.fr
    BY DEF sched_a2d
  <2> HIDE DEF t
  <2> QED BY <1>2, <2>1, <2>2, <2>3
<1>4. CASE ~empty(s.mq[act])
  <2> DEFINE t == [st |-> [s.st EXCEPT ![act] = "schedulable"], rq |-> s.rq,
                   mq |-> s.mq, fr |-> s.fr]
  <2>1. sched_reschedule(t, hint)
    BY <1>4 DEF act_wait
  <2>2. Active(t.st) = Active(s.st)
    BY <1>1 DEF Active
  <2>3. t.st \in [Aid -> SchedStatus] /\ t.st[0] = "terminated"
    BY <1>1 DEF SchedStatus
  <2>4. \A a \in Aid : Mail(t, a)
    BY <1>1, <1>4 DEF Mail
  <2>5. SchedOK(t)
    BY <2>2, <2>3, <2>4 DEF SchedOK, SchedType
  <2>6. t.st = [s.st EXCEPT ![act] = "schedulable"] /\ t.mq = s.mq /\ t.fr = s.fr
    OBVIOUS
  <2> HIDE DEF t
  <2> QED BY <1>2, <2>1, <2>5, <2>6
<1> QED BY <1>3, <1>4

(* A push appends to the mailbox, and changes nothing else that Ipc sees.  *)
LEMMA PushMaps ==
  ASSUME NEW s, SchedOK(s), NEW dest \in Aid, dest # 0, NEW m \in Msg, ~full(s.mq[dest]),
         NEW h
  PROVE  LET t == msg_push(s, dest, m)
         IN  /\ SchedOK(t) /\ t.fr = s.fr /\ (IdleEmpty(s) => IdleEmpty(t))
             /\ Modes(t) = Modes(s) /\ Vals(t) = Vals(s) /\ Owes(t, h) = Owes(s, h)
             /\ Boxes(t) = Post(Boxes(s), dest, m)
             /\ Len(Boxes(s)[dest]) < MAX_MSG - 1
<1> DEFINE t == msg_push(s, dest, m)
<1>1. /\ s.st \in [Aid -> SchedStatus] /\ s.mq \in [Aid -> Rings(Msg)]
      /\ s.mq[dest] \in Rings(Msg)
  BY DEF SchedOK, SchedType
<1>2. /\ t.st = IF s.st[dest] = "waiting" THEN [s.st EXCEPT ![dest] = "schedulable"] ELSE s.st
      /\ t.mq = [s.mq EXCEPT ![dest] = enqueue(s.mq[dest], m)] /\ t.fr = s.fr
  BY DEF msg_push, sched_d2a
<1>3. SchedOK(t)
  BY PushOK
<1> HIDE DEF t
<1>4. IdleEmpty(s) => IdleEmpty(t)
  BY <1>1, <1>2 DEF IdleEmpty, Idle
<1>5. \A a \in Aid : ModeOf(t.st[a]) = ModeOf(s.st[a])
  BY <1>1, <1>2 DEF ModeOf
<1>6. \A a \in Aid : t.st[a] = "runnable" <=> s.st[a] = "runnable"
  BY <1>1, <1>2
<1>7. Modes(t) = Modes(s) /\ Vals(t) = Vals(s) /\ Owes(t, h) = Owes(s, h)
  BY <1>2, <1>5, <1>6 DEF Modes, Vals, Owes
<1>8. Contents(enqueue(s.mq[dest], m)) = Append(Contents(s.mq[dest]), m)
  BY <1>1, EnqueueAppends
<1>9. Boxes(t) = Post(Boxes(s), dest, m)
  <2>1. \A a \in Aid : Contents(t.mq[a]) = IF a = dest THEN Append(Boxes(s)[dest], m) ELSE Boxes(s)[a]
    BY <1>1, <1>2, <1>8 DEF Boxes
  <2> QED BY <2>1 DEF Boxes, Post
<1>10. Len(Contents(s.mq[dest])) < MAX_MSG - 1
  <2>1. /\ Count(s.mq[dest]) \in 0 .. MAX_MSG - 1 /\ Count(s.mq[dest]) # MAX_MSG - 1
        /\ Len(Contents(s.mq[dest])) = Count(s.mq[dest]) /\ MAX_MSG \in Nat
    BY <1>1, RingFacts, ContentsFacts, MaxMsgAssumption
  <2> QED BY <2>1
<1>11. Len(Boxes(s)[dest]) < MAX_MSG - 1
  BY <1>10 DEF Boxes
<1> QED BY <1>2, <1>3, <1>4, <1>7, <1>9, <1>11 DEF t

----------------------------------------------------------------------------
(* The mapping of the kernel's own state, and Ipc's actions under it.      *)
LEMMA NowMapped ==
  /\ Modes(Now) = IpcMode /\ Boxes(Now) = IpcMbox /\ Vals(Now) = IpcVal
  /\ Owes(Now, held) = IpcOwes
BY DEF Modes, Boxes, Vals, Owes, Now, IpcMode, IpcMbox, IpcVal, IpcOwes

LEMMA RestIs ==
  Abstract!Rest <=> Dispatches(Put(IpcMode, curr, "idle"), IpcMbox,
                               Put(IpcVal, curr, ZERO), IpcOwes)
BY Zenon DEF Abstract!Dispatch, Abstract!Rest, Abstract!Took, Dispatches, IpcMode, IpcMbox, IpcVal, IpcOwes,
             Put, curr

LEMMA SendRestIs ==
  ASSUME NEW d, NEW arg
  PROVE  Abstract!SendRest(d, arg) <=>
           /\ Len(IpcMbox[d]) < MAX_MSG - 1
           /\ Dispatches(Put(IpcMode, curr, "idle"), Post(IpcMbox, d, [v0 |-> arg, c1 |-> NULL]),
                         Put(IpcVal, curr, ZERO), IpcOwes)
BY Zenon DEF Abstract!Dispatch, Abstract!SendRest, Abstract!HasRoom, Abstract!Posted, Abstract!Took, Dispatches,
             IpcMode, IpcMbox, IpcVal, IpcOwes, Put, Post, curr

LEMMA CallIs ==
  ASSUME NEW d, NEW arg, NEW t
  PROVE  Abstract!Call(d, arg, t) <=>
           /\ Len(IpcMbox[d]) < MAX_MSG - 1 /\ t.aid = curr
           /\ Dispatches(Put(IpcMode, curr, "blocked"), Post(IpcMbox, d, [v0 |-> arg, c1 |-> t]),
                         Put(IpcVal, curr, ZERO), IpcOwes)
BY Zenon DEF Abstract!Dispatch, Abstract!Call, Abstract!HasRoom, Abstract!Posted, Abstract!Took, Dispatches,
             IpcMode, IpcMbox, IpcVal, IpcOwes, Put, Post, curr

LEMMA AnswerIs ==
  ASSUME NEW t, NEW arg
  PROVE  Abstract!Answer(t, arg) <=>
           /\ t \in IpcOwes[curr] /\ IpcMode[t.aid] = "blocked"
           /\ Dispatches(Put(Put(IpcMode, curr, "idle"), t.aid, "busy"), IpcMbox,
                         Put(Put(IpcVal, curr, ZERO), t.aid, arg),
                         [IpcOwes EXCEPT ![curr] = @ \ {t}])
BY Zenon DEF Abstract!Dispatch, Abstract!Answer, Abstract!Took, Dispatches,
             IpcMode, IpcMbox, IpcVal, IpcOwes, Put, curr

LEMMA YieldIs == Abstract!Yield <=> Dispatches(IpcMode, IpcMbox, IpcVal, IpcOwes)
BY Zenon DEF Abstract!Dispatch, Abstract!Yield, Dispatches,
             IpcMode, IpcMbox, IpcVal, IpcOwes

LEMMA ExitIs ==
  Abstract!Exit <=> Dispatches(Put(IpcMode, curr, "dead"), IpcMbox,
                               Put(IpcVal, curr, ZERO), IpcOwes)
BY Zenon DEF Abstract!Dispatch, Abstract!Exit, Abstract!Took, Dispatches,
             IpcMode, IpcMbox, IpcVal, IpcOwes, Put, curr

(* What the invariant says of it.                                          *)
LEMMA IpcFacts ==
  ASSUME TokInv, Running
  PROVE  /\ SchedInv /\ SchedOK(Now) /\ IdleEmpty(Now)
         /\ curr \in Aid /\ sched_status[curr] = "runnable"
         /\ sched_status \in [Aid -> SchedStatus] /\ msg_queues \in [Aid -> Rings(Msg)]
         /\ frame \in [Aid -> Msg] /\ held \in [Aid -> SUBSET Token]
         /\ Modes(Now)[curr] = "busy" /\ Owes(Now, held)[curr] = mine
<1>1. /\ SchedInv /\ SchedOK(Now) /\ IdleEmpty(Now) /\ curr \in Aid
      /\ sched_status[curr] = "runnable" /\ UserType /\ SchedType(Now)
  BY TokFacts, InvFacts DEF Good
<1>2. /\ sched_status \in [Aid -> SchedStatus] /\ msg_queues \in [Aid -> Rings(Msg)]
      /\ frame \in [Aid -> Msg] /\ held \in [Aid -> SUBSET Token]
  BY <1>1 DEF SchedType, UserType, Now
<1>3. Modes(Now)[curr] = "busy" /\ Owes(Now, held)[curr] = mine
  BY <1>1, ModeFacts DEF Modes, Owes, Now, mine
<1> QED BY <1>1, <1>2, <1>3

(* Entering the kernel moves the reply token to memory and loads what is   *)
(* sent.                                                                   *)
LEMMA EnterMaps ==
  ASSUME TokInv, Running, NEW arg \in Arg \cup {ZERO}
  PROVE  LET e == Enter(arg)
             h == [held EXCEPT ![curr] = mine]
         IN  /\ SchedOK(e) /\ IdleEmpty(e) /\ e.st = sched_status /\ e.mq = msg_queues
             /\ e.fr[curr].c1 = NULL
             /\ Modes(e) = Modes(Now) /\ Boxes(e) = Boxes(Now)
             /\ Vals(e) = Put(Vals(Now), curr, arg)
             /\ Owes(e, h) = Owes(Now, held)
<1> DEFINE e == Enter(arg)
           h == [held EXCEPT ![curr] = mine]
<1>1. /\ SchedInv /\ curr \in Aid /\ sched_status[curr] = "runnable"
      /\ sched_status \in [Aid -> SchedStatus] /\ frame \in [Aid -> Msg]
      /\ held \in [Aid -> SUBSET Token] /\ IdleEmpty(Now)
  BY IpcFacts
<1>2. SchedOK(e) /\ e.st = sched_status /\ e.mq = msg_queues
  BY <1>1, EnterOK
<1>3. e.fr = [frame EXCEPT ![curr] = [v0 |-> arg, c1 |-> NULL]]
  BY DEF Enter, curr
<1> HIDE DEF e
<1>4. \A a \in Aid : Idle(e.st[a]) => e.fr[a].c1 = NULL
  BY <1>1, <1>2, <1>3 DEF IdleEmpty, Idle, Now
<1>5. Modes(e) = Modes(Now) /\ Boxes(e) = Boxes(Now)
  BY <1>2 DEF Modes, Boxes, Now
<1>6. Vals(e) = Put(Vals(Now), curr, arg)
  <2>1. \A a \in Aid : (IF e.st[a] = "runnable" THEN e.fr[a].v0 ELSE ZERO)
                         = IF a = curr THEN arg ELSE Vals(Now)[a]
    BY <1>1, <1>2, <1>3 DEF Vals, Now
  <2> QED BY <2>1 DEF Vals, Put
<1>7. Owes(e, h) = Owes(Now, held)
  <2>1. \A a \in Aid : h[a] \cup ({e.fr[a].c1} \ {NULL})
                         = held[a] \cup ({frame[a].c1} \ {NULL})
    BY <1>1, <1>3 DEF mine
  <2> QED BY <2>1 DEF Owes, Now
<1> QED BY <1>1, <1>2, <1>3, <1>4, <1>5, <1>6, <1>7 DEF IdleEmpty, e

(* An activation that goes to wait forgets what it was given.              *)
LEMMA PutTwice ==
  ASSUME NEW f \in [Aid -> Arg \cup {ZERO}], NEW a \in Aid, NEW x, NEW y
  PROVE  Put(Put(f, a, x), a, y) = Put(f, a, y)
BY DEF Put

(* Ipc sees nothing of a kernel that stops, but for the token that went    *)
(* from c1 to memory on the way in.                                        *)
LEMMA StopStutters ==
  ASSUME TokInv, Running, Stopped, Keeps(mine) \/ UNCHANGED held
  PROVE  UNCHANGED Abstract!pvars
<1>1. /\ sched_status' = sched_status /\ msg_queues' = msg_queues /\ frame' = frame
      /\ kernel_curr_act' = kernel_curr_act
  BY DEF Stopped
<1>2. \A a \in Aid : held'[a] \cup ({frame'[a].c1} \ {NULL})
                       = held[a] \cup ({frame[a].c1} \ {NULL})
  BY <1>1, IpcFacts DEF Keeps, mine
<1>3. [a \in Aid |-> held'[a] \cup ({frame'[a].c1} \ {NULL})]
        = [a \in Aid |-> held[a] \cup ({frame[a].c1} \ {NULL})]
  BY <1>2
<1> QED BY <1>1, <1>3 DEF Abstract!pvars

(* A handler that returns to its caller.                                   *)
LEMMA ResumeMaps ==
  ASSUME NEW s, Resume(s)
  PROVE  /\ [a \in Aid |-> ModeOf(sched_status[a])]' = Modes(s)
         /\ [a \in Aid |-> Contents(msg_queues[a])]' = Boxes(s)
         /\ [a \in Aid |-> IF sched_status[a] = "runnable" THEN frame[a].v0 ELSE ZERO]' = Vals(s)
         /\ [a \in Aid |-> held[a] \cup ({frame[a].c1} \ {NULL})]' = Owes(s, held')
         /\ kernel_curr_act' = kernel_curr_act
BY DEF Resume, Modes, Boxes, Vals, Owes

(* A refused call: the registers are as they were loaded.                  *)
LEMMA RefusedLoads ==
  ASSUME TokInv, NEW cb, NEW store, NEW arg \in Arg, Refused(cb, store, arg)
  PROVE  Abstract!Load(arg)
<1>1. Running /\ Resume(Enter(arg)) /\ held' = [held EXCEPT ![curr] = mine]
  BY DEF Refused, ccall_refused, Keeps
<1>2. /\ Modes(Enter(arg)) = Modes(Now) /\ Boxes(Enter(arg)) = Boxes(Now)
      /\ Vals(Enter(arg)) = Put(Vals(Now), curr, arg)
      /\ Owes(Enter(arg), held') = Owes(Now, held)
  BY <1>1, EnterMaps
<1> QED BY <1>1, <1>2, ResumeMaps, NowMapped
   DEF Abstract!Load, Abstract!Took, Put, IpcMode, IpcMbox, IpcVal, IpcOwes, curr

(* The push of an asynchronous call: the message is in the mailbox, or     *)
(* dropped.                                                                *)
LEMMA AsyncMaps ==
  ASSUME TokInv, Running, NEW cb \in Registered, NEW arg \in Arg
  PROVE  LET s == async_push(cb, arg)
             h == [held EXCEPT ![curr] = mine]
             v == IF full(msg_queues[cb]) THEN ZERO ELSE arg
         IN  /\ SchedOK(s) /\ IdleEmpty(s) /\ s.st[curr] = "runnable" /\ s.fr[curr].c1 = NULL
             /\ Modes(s) = Modes(Now)
             /\ Vals(s) = Put(Vals(Now), curr, v)
             /\ Owes(s, h) = Owes(Now, held)
             /\ full(msg_queues[cb]) => Boxes(s) = Boxes(Now)
             /\ ~full(msg_queues[cb]) =>
                  /\ Boxes(s) = Post(Boxes(Now), cb, [v0 |-> arg, c1 |-> NULL])
                  /\ Len(Boxes(Now)[cb]) < MAX_MSG - 1
<1> DEFINE h == [held EXCEPT ![curr] = mine]
           m == [v0 |-> arg, c1 |-> NULL]
<1>1. /\ SchedInv /\ curr \in Aid /\ sched_status[curr] = "runnable" /\ cb \in Aid /\ cb # 0
  BY IpcFacts, InvFacts
<1>2. SchedOK(async_push(cb, arg)) /\ async_push(cb, arg).st[curr] = "runnable"
  BY <1>1, AsyncPushOK
<1>3. CASE full(msg_queues[cb])
  <2>1. async_push(cb, arg) = Enter(ZERO)
    BY <1>3 DEF async_push
  <2>2. /\ IdleEmpty(Enter(ZERO)) /\ Enter(ZERO).fr[curr].c1 = NULL
        /\ Modes(Enter(ZERO)) = Modes(Now) /\ Boxes(Enter(ZERO)) = Boxes(Now)
        /\ Vals(Enter(ZERO)) = Put(Vals(Now), curr, ZERO)
        /\ Owes(Enter(ZERO), h) = Owes(Now, held)
    <3>1. ZERO \in Arg \cup {ZERO}
      OBVIOUS
    <3> QED BY <3>1, EnterMaps
  <2> QED BY <1>2, <1>3, <2>1, <2>2
<1>4. CASE ~full(msg_queues[cb])
  <2>1. async_push(cb, arg) = msg_push(Enter(arg), cb, m)
    BY <1>4 DEF async_push
  <2>2. m \in Msg
    BY DEF Msg
  <2>3. /\ SchedOK(Enter(arg)) /\ IdleEmpty(Enter(arg)) /\ Enter(arg).mq = msg_queues
        /\ Enter(arg).fr[curr].c1 = NULL
        /\ Modes(Enter(arg)) = Modes(Now) /\ Boxes(Enter(arg)) = Boxes(Now)
        /\ Vals(Enter(arg)) = Put(Vals(Now), curr, arg)
        /\ Owes(Enter(arg), h) = Owes(Now, held)
    BY EnterMaps
  <2> HIDE DEF m, h
  <2>4. LET t == msg_push(Enter(arg), cb, m)
        IN  /\ t.fr = Enter(arg).fr /\ IdleEmpty(t)
            /\ Modes(t) = Modes(Enter(arg)) /\ Vals(t) = Vals(Enter(arg))
            /\ Owes(t, h) = Owes(Enter(arg), h)
            /\ Boxes(t) = Post(Boxes(Enter(arg)), cb, m)
            /\ Len(Boxes(Enter(arg))[cb]) < MAX_MSG - 1
    BY <1>1, <1>4, <2>2, <2>3, PushMaps
  <2> QED BY <1>2, <1>4, <2>1, <2>3, <2>4 DEF m, h
<1> QED BY <1>3, <1>4

LEMMA SendSends ==
  ASSUME TokInv, NEW cb \in Registered, NEW store, NEW arg \in Arg, Send(cb, store, arg)
  PROVE  Abstract!Load(ZERO) \/ Abstract!Send(cb, arg)
<1> DEFINE s == async_push(cb, arg)
<1>1. Running /\ Resume(s) /\ held' = [held EXCEPT ![curr] = mine]
  BY DEF Send, ccall_send, Keeps
<1> HIDE DEF s
<1>2. /\ Modes(s) = Modes(Now) /\ Owes(s, held') = Owes(Now, held)
      /\ full(msg_queues[cb]) => /\ Boxes(s) = Boxes(Now)
                                 /\ Vals(s) = Put(Vals(Now), curr, ZERO)
      /\ ~full(msg_queues[cb]) =>
           /\ Vals(s) = Put(Vals(Now), curr, arg)
           /\ Boxes(s) = Post(Boxes(Now), cb, [v0 |-> arg, c1 |-> NULL])
           /\ Len(Boxes(Now)[cb]) < MAX_MSG - 1
  BY <1>1, AsyncMaps DEF s
<1>3. CASE full(msg_queues[cb])
  BY <1>1, <1>2, <1>3, ResumeMaps, NowMapped
   DEF Abstract!Load, Abstract!Took, Put, IpcMode, IpcMbox, IpcVal, IpcOwes, curr
<1>4. CASE ~full(msg_queues[cb])
  BY <1>1, <1>2, <1>4, ResumeMaps, NowMapped
     DEF Abstract!Send, Abstract!HasRoom, Abstract!Posted, Abstract!Took, Put, Post,
         IpcMode, IpcMbox, IpcVal, IpcOwes, curr
<1> QED BY <1>3, <1>4

(* A handler that sent the running activation to wait: what it was given   *)
(* on the way does not matter.                                             *)
LEMMA RestMaps ==
  ASSUME TokInv, Running, NEW s, NEW x, Modes(s) = Modes(Now),
         Vals(s) = Put(Vals(Now), curr, x),
         Owes(s, held') = Owes(Now, held), Rests(s, held', curr)
  PROVE  Dispatches(Put(IpcMode, curr, "idle"), Boxes(s), Put(IpcVal, curr, ZERO), IpcOwes)
<1>1. curr \in Aid /\ Vals(Now) \in [Aid -> Arg \cup {ZERO}]
  BY IpcFacts DEF Vals, Now, Msg
<1>2. Put(Vals(s), curr, ZERO) = Put(Vals(Now), curr, ZERO)
  BY <1>1, PutTwice
<1>3. Put(Modes(s), curr, "idle") = Put(IpcMode, curr, "idle")
  BY NowMapped
<1>4. Put(Vals(s), curr, ZERO) = Put(IpcVal, curr, ZERO)
  BY <1>2, NowMapped
<1>5. Owes(s, held') = IpcOwes
  BY NowMapped
<1>6. Dispatches(Put(Modes(s), curr, "idle"), Boxes(s), Put(Vals(s), curr, ZERO), Owes(s, held'))
  BY DEF Rests
<1> QED BY <1>3, <1>4, <1>5, <1>6

LEMMA SwitchRests ==
  ASSUME TokInv, NEW cb \in Registered, NEW store, NEW arg \in Arg, Switch(cb, store, arg)
  PROVE  Abstract!Rest \/ Abstract!SendRest(cb, arg) \/ UNCHANGED Abstract!pvars
<1> DEFINE s == async_push(cb, arg)
           v == IF full(msg_queues[cb]) THEN ZERO ELSE arg
<1>1. /\ Running /\ act_wait(s, curr, cb) /\ held' = [held EXCEPT ![curr] = mine]
      /\ Keeps(mine)
  BY DEF Switch, ccall_switch, Keeps, curr
<1>2. /\ SchedInv /\ curr \in Aid /\ mine \in SUBSET mine /\ cb \in Aid
  BY <1>1, IpcFacts, InvFacts
<1>3. held' \in [Aid -> SUBSET Token]
  BY <1>1, <1>2, MineTyped
<1>4. /\ SchedOK(s) /\ IdleEmpty(s) /\ s.st[curr] = "runnable" /\ s.fr[curr].c1 = NULL
      /\ Modes(s) = Modes(Now) /\ Owes(s, held') = Owes(Now, held)
      /\ Vals(s) = Put(Vals(Now), curr, v)
      /\ full(msg_queues[cb]) => Boxes(s) = Boxes(Now)
      /\ ~full(msg_queues[cb]) =>
           /\ Boxes(s) = Post(Boxes(Now), cb, [v0 |-> arg, c1 |-> NULL])
           /\ Len(Boxes(Now)[cb]) < MAX_MSG - 1
  BY <1>1, AsyncMaps
<1> HIDE DEF s, v
<1>5. Rests(s, held', curr) \/ Stopped
  BY <1>1, <1>2, <1>3, <1>4, WaitDispatches
<1>6. CASE Stopped
  BY <1>1, <1>6, StopStutters
<1>7. CASE Rests(s, held', curr)
  <2>1. Dispatches(Put(IpcMode, curr, "idle"), Boxes(s), Put(IpcVal, curr, ZERO), IpcOwes)
    BY <1>1, <1>4, <1>7, RestMaps
  <2>2. CASE full(msg_queues[cb])
    <3>1. Boxes(s) = Boxes(Now)
      BY <1>4, <2>2
    <3> QED BY <2>1, <3>1, NowMapped, RestIs
  <2>3. CASE ~full(msg_queues[cb])
    <3>1. /\ Boxes(s) = Post(Boxes(Now), cb, [v0 |-> arg, c1 |-> NULL])
          /\ Len(Boxes(Now)[cb]) < MAX_MSG - 1
      BY <1>4, <2>3
    <3> QED BY <2>1, <3>1, NowMapped, SendRestIs
  <2> QED BY <2>2, <2>3
<1> QED BY <1>5, <1>6, <1>7

LEMMA WaitRests ==
  ASSUME TokInv, NEW arg \in Arg, Wait(arg)
  PROVE  Abstract!Rest \/ UNCHANGED Abstract!pvars
<1> DEFINE s == Enter(arg)
<1>1. /\ Running /\ act_wait(s, curr, curr) /\ held' = [held EXCEPT ![curr] = mine]
      /\ Keeps(mine)
  BY DEF Wait, creturn_null, Keeps, curr
<1>2. /\ SchedInv /\ curr \in Aid /\ mine \in SUBSET mine /\ sched_status[curr] = "runnable"
  BY <1>1, IpcFacts
<1>3. held' \in [Aid -> SUBSET Token]
  BY <1>1, <1>2, MineTyped
<1>4. /\ SchedOK(s) /\ IdleEmpty(s) /\ s.st[curr] = "runnable" /\ s.fr[curr].c1 = NULL
      /\ Modes(s) = Modes(Now) /\ Boxes(s) = Boxes(Now) /\ Owes(s, held') = Owes(Now, held)
      /\ Vals(s) = Put(Vals(Now), curr, arg)
  BY <1>1, <1>2, EnterMaps
<1> HIDE DEF s
<1>5. Rests(s, held', curr) \/ Stopped
  BY <1>1, <1>2, <1>3, <1>4, WaitDispatches
<1>6. CASE Stopped
  BY <1>1, <1>6, StopStutters
<1>7. CASE Rests(s, held', curr)
  <2>1. Dispatches(Put(IpcMode, curr, "idle"), Boxes(s), Put(IpcVal, curr, ZERO), IpcOwes)
    BY <1>1, <1>4, <1>7, RestMaps
  <2> QED BY <1>4, <2>1, NowMapped, RestIs
<1> QED BY <1>5, <1>6, <1>7

(* A synchronous call: its message, with the token, is in the mailbox and  *)
(* the caller blocked; a full queue stops the kernel.                      *)
LEMMA CallCalls ==
  ASSUME TokInv, NEW cb \in Registered, NEW store, NEW arg \in Arg, Call(cb, store, arg)
  PROVE  \/ \E t \in Token : Abstract!Call(cb, arg, t)
         \/ UNCHANGED Abstract!pvars
<1> DEFINE token == [aid |-> curr, unique |-> next_unique]
           m == [v0 |-> arg, c1 |-> token]
           e == Enter(arg)
           pushed == msg_push(e, cb, m)
           t == sched_a2d(pushed, curr, "sync_block")
           h == [held EXCEPT ![curr] = mine]
<1>1. /\ Running /\ Keeps(mine) /\ held' = h /\ unique < MaxCalls
      /\ IF full(msg_queues[cb])
           THEN kernel_panic("queue full (csync)")
           ELSE IF ~QDEL_assert(pushed.rq, curr)
                  THEN kernel_panic("assertion")
                  ELSE sched_reschedule(t, cb)
  BY DEF Call, ccall_sync, Keeps, curr
<1>2. /\ SchedInv /\ curr \in Aid /\ sched_status[curr] = "runnable" /\ cb \in Aid /\ cb # 0
      /\ mine \in SUBSET mine /\ sched_status \in [Aid -> SchedStatus]
      /\ msg_queues \in [Aid -> Rings(Msg)]
  BY <1>1, IpcFacts, InvFacts
<1>3. held' \in [Aid -> SUBSET Token]
  BY <1>1, <1>2, MineTyped
<1>4. token \in Token /\ token.aid = curr /\ m \in Msg
  <2>1. next_unique \in 0 .. UNIQUE_MOD - 1
    <3>1. unique \in 0 .. UNIQUE_MOD - 1
      BY <1>1, TokFacts
    <3> QED BY <3>1, ModAssumption DEF next_unique
  <2> QED BY <1>2, <2>1 DEF Token, Msg
<1>5. /\ SchedOK(e) /\ IdleEmpty(e) /\ e.st = sched_status /\ e.mq = msg_queues
      /\ e.fr[curr].c1 = NULL
      /\ Modes(e) = Modes(Now) /\ Boxes(e) = Boxes(Now)
      /\ Vals(e) = Put(Vals(Now), curr, arg)
      /\ Owes(e, h) = Owes(Now, held)
  BY <1>1, EnterMaps
<1> HIDE DEF m, e, token, h
<1>6. CASE full(msg_queues[cb])
  <2>1. Stopped
    BY <1>1, <1>6 DEF kernel_panic, Stopped
  <2> QED BY <1>1, <2>1, StopStutters
<1>7. CASE ~full(msg_queues[cb])
  <2>1. /\ SchedOK(pushed) /\ pushed.fr = e.fr /\ IdleEmpty(pushed)
        /\ Modes(pushed) = Modes(e) /\ Vals(pushed) = Vals(e) /\ Owes(pushed, h) = Owes(e, h)
        /\ Boxes(pushed) = Post(Boxes(e), cb, m)
        /\ Len(Boxes(e)[cb]) < MAX_MSG - 1
    BY <1>2, <1>4, <1>5, <1>7, PushMaps
  <2>2. pushed.st[curr] = "runnable" /\ curr \in Active(pushed.st)
    BY <1>2, <1>5, PushStatus DEF Active
  <2>3. pushed.st \in [Aid -> SchedStatus] /\ pushed.fr \in [Aid -> Msg]
    BY <2>1 DEF SchedOK, SchedType
  <2> HIDE DEF pushed
  <2>4. SchedOK(t) /\ QDEL_assert(pushed.rq, curr)
    BY <2>1, <2>2, A2DOK
  <2>5. sched_reschedule(t, cb)
    BY <1>1, <1>7, <2>4
  <2>6. t.st = [pushed.st EXCEPT ![curr] = "sync_block"] /\ t.mq = pushed.mq /\ t.fr = pushed.fr
    BY DEF sched_a2d
  <2> HIDE DEF t
  <2>7. IdleEmpty(t)
    BY <1>2, <2>1, <2>3, <2>6 DEF IdleEmpty, Idle
  <2>8. Modes(t) = Put(Modes(Now), curr, "blocked")
    <3>1. \A a \in Aid : ModeOf(t.st[a]) = IF a = curr THEN "blocked" ELSE Modes(pushed)[a]
      BY <1>2, <2>3, <2>6, ModeFacts DEF Modes
    <3>2. Modes(t) = Put(Modes(pushed), curr, "blocked")
      BY <3>1 DEF Modes, Put
    <3> QED BY <3>2, <2>1, <1>5
  <2>9. Vals(t) = Put(Vals(Now), curr, ZERO)
    <3>1. \A a \in Aid : (IF t.st[a] = "runnable" THEN t.fr[a].v0 ELSE ZERO)
                           = IF a = curr THEN ZERO ELSE Vals(pushed)[a]
      BY <1>2, <2>3, <2>6 DEF Vals
    <3>2. \A a \in Aid : a # curr => Vals(pushed)[a] = Vals(Now)[a]
      BY <2>1, <1>5 DEF Vals, Put
    <3> QED BY <3>1, <3>2 DEF Vals, Put
  <2>10. Boxes(t) = Post(Boxes(Now), cb, m) /\ Owes(t, held') = Owes(Now, held)
    <3>1. Boxes(t) = Boxes(pushed) /\ Owes(t, held') = Owes(pushed, held')
      BY <2>6 DEF Boxes, Owes
    <3> QED BY <3>1, <1>1, <1>5, <2>1
  <2>11. Chooses(t, held') \/ Stopped
    BY <1>2, <1>3, <2>4, <2>5, <2>7, RescheduleDispatches
  <2>12. CASE Stopped
    BY <1>1, <2>12, StopStutters
  <2>13. CASE Chooses(t, held')
    <3>1. Dispatches(Put(IpcMode, curr, "blocked"), Post(IpcMbox, cb, m),
                     Put(IpcVal, curr, ZERO), IpcOwes)
      BY <2>8, <2>9, <2>10, <2>13, NowMapped DEF Chooses
    <3>2. Len(Boxes(Now)[cb]) < MAX_MSG - 1 /\ m = [v0 |-> arg, c1 |-> token]
      BY <1>5, <2>1 DEF m
    <3>3. Abstract!Call(cb, arg, token)
      BY <1>4, <3>1, <3>2, NowMapped, CallIs
    <3> QED BY <1>4, <3>3
  <2> QED BY <2>11, <2>12, <2>13
<1> QED BY <1>6, <1>7

(* An answer to the call the token names: its caller is blocked, gets what *)
(* is answered, and may run, so that the kernel does not stop.             *)
LEMMA ReturnAnswers ==
  ASSUME MaxCalls < REPLY_MOD, TokInv,
         NEW token \in mine, NEW arg \in Arg, Return(token, arg)
  PROVE  Abstract!Answer(token, arg)
<1> DEFINE r == reply(token, arg)
           e == Enter(arg)
           h == [held EXCEPT ![curr] = mine]
           c == token.aid
<1>1. /\ Running /\ Keeps(mine \ {token}) /\ held' = [held EXCEPT ![curr] = mine \ {token}]
      /\ IF ~Expected(token)
           THEN kernel_panic("bad sync creturn")
           ELSE IF sched_status[token.aid] # "sync_block"
                  THEN kernel_panic("assertion")
                  ELSE act_wait(r, curr, c)
  BY DEF Return, creturn_sync, Keeps, curr
<1> HIDE DEF r
<1>2. /\ SchedInv /\ curr \in Aid /\ sched_status[curr] = "runnable"
      /\ sched_status \in [Aid -> SchedStatus] /\ frame \in [Aid -> Msg]
      /\ held \in [Aid -> SUBSET Token] /\ Good(Now, held, expected_reply)
      /\ sched_status[0] = "terminated" /\ Owes(Now, held)[curr] = mine
      /\ mine \ {token} \in SUBSET mine
  BY <1>1, IpcFacts, TokFacts DEF SchedOK, Now
<1>3. held' \in [Aid -> SUBSET Token]
  BY <1>1, <1>2, MineTyped
<1>4. /\ sched_status[c] = "sync_block" /\ expected_reply[c] = token.unique
      /\ IdleEmpty(r) /\ r.fr[curr].c1 = NULL
  BY <1>1, <1>2, ReplyGood DEF Good, r
<1>5. token \in Token /\ c \in Aid /\ c # curr /\ c # 0
  BY <1>2, <1>4 DEF mine, Msg, Token
<1>6. Expected(token)
  <2>1. /\ token.unique \in Nat /\ token.unique <= unique /\ unique \in Nat
        /\ unique <= MaxCalls /\ MaxCalls \in Nat /\ REPLY_MOD \in Nat
    <3>1. /\ expected_reply \in [Aid -> 0 .. UNIQUE_MOD - 1] /\ unique \in 0 .. UNIQUE_MOD - 1
          /\ unique <= MaxCalls /\ \A a \in Aid : expected_reply[a] <= unique
      BY <1>1, TokFacts
    <3> QED BY <3>1, <1>4, <1>5, UserAssumption, ModAssumption
  <2>2. token.unique % REPLY_MOD = token.unique
    BY <2>1
  <2> QED BY <1>4, <2>2 DEF Expected
<1>7. act_wait(r, curr, c)
  BY <1>1, <1>4, <1>6
<1>8. SchedOK(r) /\ r.st[curr] = "runnable"
      /\ \A a \in Aid : r.st[a] = IF a = c THEN "runnable" ELSE sched_status[a]
  BY <1>1, <1>2, <1>4, <1>5, ReplyOK DEF r
<1>9. Rests(r, held', curr)
  <2>1. Ready(r, c)
    BY <1>5, <1>8 DEF Ready
  <2> HIDE DEF c
  <2> QED BY <1>2, <1>3, <1>4, <1>5, <1>7, <1>8, <2>1, WaitDispatches
<1>10. /\ e.st = sched_status /\ e.mq = msg_queues /\ SchedOK(e)
       /\ Vals(e) = Put(Vals(Now), curr, arg) /\ Owes(e, h) = Owes(Now, held)
  BY <1>1, EnterMaps
<1>11. e.fr \in [Aid -> Msg]
  BY <1>10 DEF SchedOK, SchedType
<1>12. /\ r.mq = msg_queues
       /\ r.fr = [e.fr EXCEPT ![c] = [v0 |-> arg, c1 |-> e.fr[c].c1]]
  BY <1>10 DEF reply, sched_d2a, r
<1> HIDE DEF e, h, c
<1>13. Put(Modes(r), curr, "idle") = Put(Put(IpcMode, curr, "idle"), c, "busy")
  <2>1. \A a \in Aid : ModeOf(r.st[a]) = IF a = c THEN "busy" ELSE IpcMode[a]
    BY <1>8, ModeFacts DEF IpcMode
  <2>2. Modes(r) = [a \in Aid |-> IF a = c THEN "busy" ELSE IpcMode[a]]
    BY <2>1 DEF Modes
  <2>3. DOMAIN IpcMode = Aid
    BY DEF IpcMode
  <2> QED BY <1>2, <1>5, <2>2, <2>3 DEF Put, IpcMode
<1>14. Put(Vals(r), curr, ZERO) = Put(Put(IpcVal, curr, ZERO), c, arg)
  <2>1. \A a \in Aid : Vals(r)[a] = IF a = c THEN arg ELSE Vals(e)[a]
    BY <1>5, <1>8, <1>10, <1>11, <1>12 DEF Vals
  <2>2. \A a \in Aid : a # curr => Vals(e)[a] = IpcVal[a]
    BY <1>2, <1>10, NowMapped DEF Put, IpcVal
  <2>3. \A a \in Aid : Put(Vals(r), curr, ZERO)[a] = Put(Put(IpcVal, curr, ZERO), c, arg)[a]
    BY <1>2, <1>5, <2>1, <2>2 DEF Put, IpcVal, Vals
  <2> QED BY <2>3 DEF Put, Vals, IpcVal
<1>15. Owes(r, held') = [IpcOwes EXCEPT ![curr] = @ \ {token}]
  <2>1. \A a \in Aid : r.fr[a].c1 = e.fr[a].c1
    BY <1>5, <1>11, <1>12
  <2>2. \A a \in Aid : a # curr => Owes(e, h)[a] = held[a] \cup ({e.fr[a].c1} \ {NULL})
    BY <1>2 DEF Owes, h
  <2>3. \A a \in Aid : held'[a] \cup ({r.fr[a].c1} \ {NULL})
                         = IF a = curr THEN IpcOwes[a] \ {token} ELSE IpcOwes[a]
    BY <1>1, <1>2, <1>4, <1>10, <2>1, <2>2, NowMapped
  <2> QED BY <2>3 DEF Owes, IpcOwes
<1>16. Boxes(r) = IpcMbox
  BY <1>12 DEF Boxes, IpcMbox
<1>17. Dispatches(Put(Put(IpcMode, curr, "idle"), c, "busy"), IpcMbox,
                  Put(Put(IpcVal, curr, ZERO), c, arg),
                  [IpcOwes EXCEPT ![curr] = @ \ {token}])
  BY <1>9, <1>13, <1>14, <1>15, <1>16 DEF Rests
<1>18. token \in IpcOwes[curr] /\ IpcMode[c] = "blocked"
  BY <1>2, <1>4, <1>5, NowMapped, ModeFacts DEF IpcMode
<1> QED BY <1>17, <1>18, AnswerIs DEF c

(* Yielding, and the timer.                                                *)
LEMMA YieldYields ==
  ASSUME TokInv, Sleep \/ Tick
  PROVE  Abstract!Yield \/ UNCHANGED Abstract!pvars
<1>1. Running /\ sched_reschedule(Now, 0) /\ held' = held
  BY DEF Sleep, Tick, syscall_sleep, kernel_timer
<1>2. /\ SchedOK(Now) /\ IdleEmpty(Now) /\ held' \in [Aid -> SUBSET Token] /\ 0 \in Aid
  BY <1>1, IpcFacts, MaxActivationsAssumption DEF Aid
<1>3. Chooses(Now, held') \/ Stopped
  BY <1>1, <1>2, RescheduleDispatches
<1>4. CASE Stopped
  BY <1>1, <1>4, StopStutters
<1>5. CASE Chooses(Now, held')
  <2>1. Owes(Now, held') = IpcOwes
    BY <1>1, NowMapped
  <2> QED BY <1>5, <2>1, NowMapped, YieldIs DEF Chooses
<1> QED BY <1>3, <1>4, <1>5

LEMMA TerminateExits ==
  ASSUME TokInv, Terminate(curr)
  PROVE  Abstract!Exit \/ UNCHANGED Abstract!pvars
<1> DEFINE t == sched_delete(Now, curr)
<1>1. Running /\ held' = held
  BY DEF Terminate
<1>2. /\ SchedInv /\ SchedOK(Now) /\ IdleEmpty(Now) /\ held' \in [Aid -> SUBSET Token]
      /\ 0 \in Aid /\ curr \in Aid /\ sched_status \in [Aid -> SchedStatus]
  BY <1>1, IpcFacts, MaxActivationsAssumption DEF Aid
<1>3. /\ SchedOK(t) /\ sched_reschedule(t, 0)
      /\ t.st = [sched_status EXCEPT ![curr] = "terminated"]
  BY <1>2, DeleteOK
<1>4. t.mq = msg_queues /\ t.fr = frame
  BY DEF sched_delete, Now
<1> HIDE DEF t
<1>5. IdleEmpty(t)
  BY <1>2, <1>3, <1>4 DEF IdleEmpty, Idle, Now
<1>6. Chooses(t, held') \/ Stopped
  BY <1>2, <1>3, <1>5, RescheduleDispatches
<1>7. CASE Stopped
  BY <1>1, <1>7, StopStutters
<1>8. CASE Chooses(t, held')
  <2>1. Modes(t) = Put(IpcMode, curr, "dead")
    <3>1. \A a \in Aid : ModeOf(t.st[a]) = IF a = curr THEN "dead" ELSE IpcMode[a]
      BY <1>2, <1>3, ModeFacts DEF IpcMode
    <3> QED BY <3>1 DEF Modes, Put, IpcMode
  <2>2. Vals(t) = Put(IpcVal, curr, ZERO)
    <3>1. \A a \in Aid : (IF t.st[a] = "runnable" THEN t.fr[a].v0 ELSE ZERO)
                           = IF a = curr THEN ZERO ELSE IpcVal[a]
      BY <1>2, <1>3, <1>4 DEF IpcVal
    <3> QED BY <3>1 DEF Vals, Put, IpcVal
  <2>3. Boxes(t) = IpcMbox /\ Owes(t, held') = IpcOwes
    BY <1>1, <1>4 DEF Boxes, Owes, IpcMbox, IpcOwes
  <2> QED BY <1>8, <2>1, <2>2, <2>3, ExitIs DEF Chooses
<1> QED BY <1>6, <1>7, <1>8

(* An interrupt is a message from outside; to a full queue it stops the    *)
(* kernel.                                                                 *)
LEMMA InterruptIsEvent ==
  ASSUME TokInv, NEW i \in Irq, Interrupt(i)
  PROVE  \/ int_child[i] \in Aid /\ Abstract!Event(int_child[i], INT)
         \/ UNCHANGED Abstract!pvars
<1> DEFINE child == int_child[i]
           m == [v0 |-> INT, c1 |-> NULL]
           s == msg_push(Interrupted, child, m)
<1>1. /\ Running /\ held' = held
      /\ IF full(msg_queues[child]) THEN kernel_panic("queue full (int)") ELSE Resume(s)
  BY DEF Interrupt, kernel_interrupt_others
<1> HIDE DEF child, m, s
<1>2. /\ SchedInv /\ IrqInv /\ SchedOK(Now) /\ sched_status \in [Aid -> SchedStatus]
      /\ frame \in [Aid -> Msg] /\ sched_status[0] = "terminated" /\ 0 \in Aid
  <2>1. 0 \in Aid
    BY MaxActivationsAssumption DEF Aid
  <2>2. SchedInv /\ IrqInv /\ SchedOK(Now) /\ sched_status \in [Aid -> SchedStatus]
        /\ frame \in [Aid -> Msg]
    BY <1>1, IpcFacts DEF TokInv
  <2> QED BY <2>1, <2>2 DEF SchedOK, Now
<1>3. /\ child \in Aid /\ child # 0 /\ m \in Msg /\ SchedOK(Interrupted)
      /\ Interrupted.st = sched_status /\ Interrupted.mq = msg_queues
  BY <1>1, <1>2, InterruptOK DEF child, m
<1>4. CASE full(msg_queues[child])
  <2>1. Stopped
    BY <1>1, <1>4 DEF kernel_panic, Stopped
  <2> QED BY <1>1, <2>1, StopStutters
<1>5. CASE ~full(msg_queues[child])
  <2>1. /\ s.fr = Interrupted.fr /\ Modes(s) = Modes(Interrupted)
        /\ Vals(s) = Vals(Interrupted) /\ Owes(s, held') = Owes(Interrupted, held')
        /\ Boxes(s) = Post(Boxes(Interrupted), child, m)
        /\ Len(Boxes(Interrupted)[child]) < MAX_MSG - 1
    BY <1>3, <1>5, PushMaps DEF s
  <2>2. Interrupted.fr = [frame EXCEPT ![0] = [v0 |-> INT, c1 |-> frame[0].c1]]
    BY DEF Interrupted
  <2>3. Modes(Interrupted) = IpcMode /\ Boxes(Interrupted) = IpcMbox
    BY <1>3 DEF Modes, Boxes, IpcMode, IpcMbox
  <2>4. Vals(Interrupted) = IpcVal
    <3>1. \A a \in Aid : sched_status[a] = "runnable" => Interrupted.fr[a] = frame[a]
      BY <1>2, <2>2
    <3>2. \A a \in Aid : (IF sched_status[a] = "runnable" THEN Interrupted.fr[a].v0 ELSE ZERO)
                           = IF sched_status[a] = "runnable" THEN frame[a].v0 ELSE ZERO
      BY <3>1
    <3> QED BY <1>3, <3>2 DEF Vals, IpcVal
  <2>5. Owes(Interrupted, held') = IpcOwes
    <3>1. \A a \in Aid : Interrupted.fr[a].c1 = frame[a].c1
      BY <1>2, <2>2
    <3> QED BY <1>1, <3>1 DEF Owes, IpcOwes
  <2>6. Resume(s)
    BY <1>1, <1>5
  <2>7. /\ IpcMode' = IpcMode /\ IpcVal' = IpcVal /\ IpcOwes' = IpcOwes
        /\ IpcMbox' = Post(IpcMbox, child, m) /\ Len(IpcMbox[child]) < MAX_MSG - 1
        /\ kernel_curr_act' = kernel_curr_act
    BY <2>1, <2>3, <2>4, <2>5, <2>6, ResumeMaps DEF IpcMode, IpcMbox, IpcVal, IpcOwes
  <2>8. Abstract!Event(child, INT)
    BY <2>7 DEF Abstract!Event, Abstract!HasRoom, Abstract!Posted, IpcMode, IpcMbox, IpcVal,
                IpcOwes, Post, m
  <2> QED BY <1>3, <2>8 DEF child
<1> QED BY <1>4, <1>5

(* Ipc sees neither a registration, nor a revocation, nor what drivers ask *)
(* for, nor a fault.                                                       *)
LEMMA RegisterStutters ==
  ASSUME TokInv, Register
  PROVE  UNCHANGED Abstract!pvars
<1> DEFINE new == kernel_next_act
<1>1. Running /\ held' = held
  BY DEF Register
<1>2. CASE kernel_next_act >= MAX_ACTIVATIONS
  <2>1. Stopped
    BY <1>2 DEF Register, act_register, kernel_panic, Stopped
  <2> QED BY <1>1, <2>1, StopStutters
<1>3. CASE ~(kernel_next_act >= MAX_ACTIVATIONS)
  <2>1. /\ sched_status' = [sched_status EXCEPT ![new] = "waiting"]
        /\ msg_queues' = [msg_queues EXCEPT ![new] = msg_queue_init(msg_queues[new])]
        /\ frame' = [frame EXCEPT ![new] = NoMsg] /\ kernel_curr_act' = kernel_curr_act
    BY <1>3 DEF Register, act_register
  <2>2. /\ SchedOK(Now) /\ IdleEmpty(Now) /\ sched_status \in [Aid -> SchedStatus]
        /\ msg_queues \in [Aid -> Rings(Msg)] /\ frame \in [Aid -> Msg]
        /\ \A a \in Aid : a >= new => sched_status[a] = "waiting"
        /\ new >= new
    BY <1>1, IpcFacts, InvFacts DEF SchedInv
  <2>3. new \in Aid => /\ sched_status[new] = "waiting" /\ frame[new].c1 = NULL
                       /\ empty(msg_queues[new]) /\ msg_queues[new] \in Rings(Msg)
    BY <2>2 DEF SchedOK, Mail, IdleEmpty, Idle, Now
  <2>4. new \in Aid => Contents(msg_queue_init(msg_queues[new])) = Contents(msg_queues[new])
    <3> SUFFICES ASSUME new \in Aid
                 PROVE  Contents(msg_queue_init(msg_queues[new])) = Contents(msg_queues[new])
      OBVIOUS
    <3>1. /\ msg_queues[new] \in Rings(Msg) /\ msg_queue_init(msg_queues[new]) \in Rings(Msg)
          /\ empty(msg_queues[new]) /\ empty(msg_queue_init(msg_queues[new]))
      BY <2>3, MaxMsgAssumption DEF msg_queue_init, Rings, empty, Slot
    <3> QED BY <3>1, EmptyContents
  <2> HIDE DEF new
  <2>5. \A a \in Aid : ModeOf(sched_status'[a]) = ModeOf(sched_status[a])
    BY <2>1, <2>2, <2>3
  <2>6. \A a \in Aid : Contents(msg_queues'[a]) = Contents(msg_queues[a])
    BY <2>1, <2>2, <2>4
  <2>7. \A a \in Aid : (IF sched_status'[a] = "runnable" THEN frame'[a].v0 ELSE ZERO)
                         = IF sched_status[a] = "runnable" THEN frame[a].v0 ELSE ZERO
    BY <2>1, <2>2, <2>3
  <2>8. \A a \in Aid : held'[a] \cup ({frame'[a].c1} \ {NULL})
                         = held[a] \cup ({frame[a].c1} \ {NULL})
    BY <1>1, <2>1, <2>2, <2>3 DEF NoMsg
  <2>9. IpcMode' = IpcMode /\ IpcMbox' = IpcMbox /\ IpcVal' = IpcVal /\ IpcOwes' = IpcOwes
    BY <2>5, <2>6, <2>7, <2>8 DEF IpcMode, IpcMbox, IpcVal, IpcOwes
  <2> QED BY <2>1, <2>9 DEF Abstract!pvars, IpcMode, IpcMbox, IpcVal, IpcOwes
<1> QED BY <1>2, <1>3

LEMMA OtherStutters ==
  ASSUME TokInv, NEW act, NEW i,
         \/ Revoke(act) \/ Fault \/ InterruptRegister(i) \/ InterruptEnable(i)
         \/ Frozen \/ UNCHANGED vars
  PROVE  UNCHANGED Abstract!pvars
<1>1. UNCHANGED <<sched_status, msg_queues, frame, held, kernel_curr_act>>
  BY DEF Revoke, act_revoke, Fault, user_fault, kernel_panic, InterruptRegister,
         kernel_interrupt_register, InterruptEnable, kernel_interrupt_enable, Frozen, vars, kvars
<1> QED BY <1>1 DEF Abstract!pvars

----------------------------------------------------------------------------
LEMMA IpcInit == Init => Abstract!Init
<1> SUFFICES ASSUME Init PROVE Abstract!Init
  OBVIOUS
<1>1. act_init /\ held = [a \in Aid |-> {}] /\ kernel_curr_act = 1
  BY DEF Init, act_init
<1>2. 0 \in Slot /\ 1 \in Aid
  BY MaxMsgAssumption, MaxActivationsAssumption DEF Slot, Aid
<1>3. \A a \in Aid : sched_status[a] = IF a = 0 THEN "terminated"
                                       ELSE IF a = 1 THEN "runnable" ELSE "waiting"
  BY <1>1 DEF act_init
<1>4. /\ IpcMode \in [Aid -> {"idle", "busy", "dead"}]
      /\ \A a \in Aid : IpcMode[a] = "busy" <=> a = 1
  <2>1. \A a \in Aid : ModeOf(sched_status[a]) = IF a = 0 THEN "dead"
                                                 ELSE IF a = 1 THEN "busy" ELSE "idle"
    BY <1>3, ModeFacts
  <2> QED BY <2>1 DEF IpcMode
<1>5. IpcMbox = [a \in Aid |-> <<>>]
  <2>1. \A a \in Aid : Contents(msg_queues[a]) = <<>>
    <3> SUFFICES ASSUME NEW a \in Aid PROVE Contents(msg_queues[a]) = <<>>
      OBVIOUS
    <3>1. msg_queues[a] = [start |-> 0, end |-> 0, msg |-> [i \in Slot |-> NoMsg]]
      BY <1>1 DEF act_init
    <3>2. msg_queues[a] \in Rings(Msg) /\ empty(msg_queues[a])
      BY <1>2, <3>1 DEF Rings, empty, NoMsg, Msg
    <3> QED BY <3>2, EmptyContents
  <2> QED BY <2>1 DEF IpcMbox
<1>6. IpcVal = [a \in Aid |-> ZERO] /\ IpcOwes = [a \in Aid |-> {}]
  <2>1. \A a \in Aid : frame[a] = NoMsg /\ held[a] = {}
    BY <1>1 DEF act_init
  <2>2. \A a \in Aid : /\ (IF sched_status[a] = "runnable" THEN frame[a].v0 ELSE ZERO) = ZERO
                       /\ held[a] \cup ({frame[a].c1} \ {NULL}) = {}
    BY <2>1 DEF NoMsg
  <2> QED BY <2>2 DEF IpcVal, IpcOwes
<1> QED BY <1>1, <1>4, <1>5, <1>6 DEF Abstract!Init, IpcMode, IpcMbox, IpcVal, IpcOwes

LEMMA IpcStep ==
  ASSUME ForeignCtrl = FALSE, MaxCalls < REPLY_MOD, TokInv, [Next]_vars
  PROVE  Abstract!Next \/ UNCHANGED Abstract!pvars
<1>1. ASSUME NEW cb \in Registered, NEW store \in BOOLEAN, NEW arg \in Arg,
             \/ Refused(cb, store, arg) \/ Send(cb, store, arg)
             \/ Switch(cb, store, arg) \/ Call(cb, store, arg)
      PROVE  Abstract!Next \/ UNCHANGED Abstract!pvars
  <2>1. cb \in Aid /\ arg \in Arg \cup {ZERO} /\ ZERO \in Arg \cup {ZERO}
    <3>1. Running
      BY <1>1 DEF Refused, Send, Switch, Call
    <3> QED BY <3>1, IpcFacts, InvFacts
  <2>2. CASE Refused(cb, store, arg)
    BY <2>1, <2>2, RefusedLoads DEF Abstract!Next
  <2>3. CASE Send(cb, store, arg)
    BY <2>1, <2>3, SendSends DEF Abstract!Next
  <2>4. CASE Switch(cb, store, arg)
    BY <2>1, <2>4, SwitchRests DEF Abstract!Next
  <2>5. CASE Call(cb, store, arg)
    BY <2>1, <2>5, CallCalls DEF Abstract!Next
  <2> QED BY <1>1, <2>2, <2>3, <2>4, <2>5
<1>2. ASSUME NEW arg \in Arg, Wait(arg)
      PROVE  Abstract!Next \/ UNCHANGED Abstract!pvars
  BY <1>2, WaitRests DEF Abstract!Next
<1>3. ASSUME NEW token \in mine, NEW arg \in Arg, Return(token, arg)
      PROVE  Abstract!Next \/ UNCHANGED Abstract!pvars
  <2>1. Abstract!Answer(token, arg)
    BY <1>3, ReturnAnswers
  <2>2. token \in IpcOwes[kernel_curr_act]
    BY <2>1, AnswerIs DEF curr
  <2> QED BY <2>1, <2>2 DEF Abstract!Next, IpcOwes
<1>4. ASSUME Sleep \/ Tick
      PROVE  Abstract!Next \/ UNCHANGED Abstract!pvars
  BY <1>4, YieldYields DEF Abstract!Next
<1>5. ASSUME NEW act \in IF ForeignCtrl THEN Registered ELSE {curr}, Terminate(act)
      PROVE  Abstract!Next \/ UNCHANGED Abstract!pvars
  <2>1. Terminate(curr)
    BY <1>5
  <2> QED BY <2>1, TerminateExits DEF Abstract!Next
<1>6. ASSUME NEW i \in Irq, InterruptRegister(i) \/ InterruptEnable(i) \/ Interrupt(i)
      PROVE  Abstract!Next \/ UNCHANGED Abstract!pvars
  <2>1. CASE Interrupt(i)
    <3>1. INT \in Arg
      BY IrqAssumption
    <3> QED BY <2>1, <3>1, InterruptIsEvent DEF Abstract!Next
  <2> QED BY <1>6, <2>1, OtherStutters
<1> QED BY <1>1, <1>2, <1>3, <1>4, <1>5, <1>6, RegisterStutters, OtherStutters DEF Next

(* The kernel implements Ipc, for any number of activations, any size of   *)
(* the message queues and any contents.                                    *)
THEOREM KernelImplementsIpc ==
  ASSUME ForeignCtrl = FALSE, MaxCalls < REPLY_MOD PROVE Spec => RefinesIpc
<1>1. Init => Abstract!Init
  BY IpcInit
<1>2. TokInv /\ [Next]_vars => [Abstract!Next]_(Abstract!pvars)
  BY IpcStep
<1> QED BY <1>1, <1>2, TokInvariant, PTL DEF Spec, RefinesIpc, Abstract!Spec
=============================================================================
