---------------------------- MODULE SystemProofs ----------------------------
(***************************************************************************)
(* Theorems about System: the kernel never stops, every answer is the one  *)
(* that was asked for, and memmgt keeps the token of its caller.  The      *)
(* inductive invariant, SystemInv, says who may run, and for whom: a       *)
(* program runs on its own while all others are at rest (Own), a service   *)
(* runs for one caller (Called), namespace for memmgt while that owes init *)
(* an answer (Nested), and memmgt once namespace has answered (Back).  The *)
(* order of the run queue while programs start (Order) is why each has     *)
(* registered by the time another one looks it up, and counting the calls  *)
(* (Counted) is why no sync token is used twice.                           *)
(***************************************************************************)
EXTENDS System, KernelProofs

----------------------------------------------------------------------------
(* The handlers.  Between two steps the only message that waits in a       *)
(* queue is the one that starts a program.                                 *)

StartMsg == [v0 |-> M("start", 0), c1 |-> NULL]

Box(s, a) == IF s.st[a] = "schedulable"
               THEN front(s.mq[a]) = StartMsg /\ empty(dequeue(s.mq[a]))
               ELSE empty(s.mq[a])

KernelOK(s) == SchedOK(s) /\ \A a \in Aid : Box(s, a)

(* The identifiers are distinct activations.                               *)
LEMMA Ids ==
  /\ MAX_ACTIVATIONS \in Nat /\ Daemons \in Nat /\ Daemons > 0
  /\ 4 + Daemons < MAX_ACTIVATIONS /\ MaxOps \in Nat
  /\ Aid = 0 .. MAX_ACTIVATIONS - 1 /\ init = 1 /\ memmgt = 2 /\ namespace = 3
  /\ init \in Aid /\ memmgt \in Aid /\ namespace \in Aid /\ 0 \in Aid
  /\ \A d \in DaemonIds : d \in Aid /\ d \in Nat /\ d > 3
  /\ \A u \in UserIds : u \in Aid /\ u \in Nat /\ u >= 4 + Daemons
BY ProgramAssumption, MaxActivationsAssumption
   DEF Aid, init, memmgt, namespace, DaemonIds, UserIds

(* A queue that is empty has room, and then holds what was put into it.    *)
LEMMA PushEmpty ==
  ASSUME NEW q \in Rings(Msg), empty(q), NEW m \in Msg
  PROVE  /\ ~full(q) /\ enqueue(q, m) \in Rings(Msg) /\ ~empty(enqueue(q, m))
         /\ front(enqueue(q, m)) = m /\ empty(dequeue(enqueue(q, m)))
<1>1. q.start \in Slot /\ q.end \in Slot /\ q.msg \in [Slot -> Msg] /\ q.start = q.end
  BY DEF Rings, empty
<1>2. safe(q.end + 1) # q.end
  BY <1>1, SafeNext, MaxMsgAssumption DEF Slot
<1>3. ~full(q)
  BY <1>1, <1>2 DEF full
<1>4. front(enqueue(q, m)) = m /\ empty(dequeue(enqueue(q, m)))
  BY <1>1 DEF front, enqueue, dequeue, empty
<1> QED BY <1>3, <1>4, EnqueueRing

(* When act wakes up another one and then leaves the run queue, that one   *)
(* takes its place.                                                        *)
LEMMA TakesPlace ==
  ASSUME NEW q \in RunQueues, NEW S \in SUBSET (Aid \ {0}), Lists(q, S),
         NEW act \in S, NEW woken \in Aid \ {0}, woken \notin S
  PROVE  LET r == QDEL(QADD(q, woken), act)
         IN  /\ r.end = q.end /\ r.idx = q.idx
             /\ r.squeue_a[q.aqueue[act]] = woken
             /\ \A i \in 0 .. q.end - 1 : i # q.aqueue[act] => r.squeue_a[i] = q.squeue_a[i]
<1> DEFINE p == QADD(q, woken)
           r == QDEL(p, act)
           slot == q.aqueue[act]
<1>1. q.end \in Aid
  BY RunQueueHasRoom
<1>2. q.squeue_a \in [Aid -> Aid] /\ q.aqueue \in [Aid -> Aid] /\ act \in Aid /\ act # woken
  BY DEF RunQueues
<1>3. slot \in Aid /\ slot \in 0 .. q.end - 1
  BY ListedSlot
<1>4. q.end \in Nat /\ \A i \in 0 .. q.end - 1 : i \in Aid /\ i # q.end
  BY <1>1, MaxActivationsAssumption DEF Aid
<1>5. /\ p.end = q.end + 1 /\ p.idx = q.idx /\ p.aqueue[act] = slot
      /\ p.squeue_a[q.end] = woken /\ p.squeue_a \in [Aid -> Aid]
      /\ \A i \in 0 .. q.end - 1 : p.squeue_a[i] = q.squeue_a[i]
  BY <1>1, <1>2, <1>4 DEF QADD
<1>6. p.end - 1 = q.end
  BY <1>4, <1>5
<1>7. r.end = q.end /\ r.idx = q.idx /\ r.squeue_a = [p.squeue_a EXCEPT ![slot] = woken]
  BY <1>5, <1>6 DEF QDEL
<1> QED BY <1>3, <1>4, <1>5, <1>7

(* The registers of the running activation do not matter to the scheduler. *)
LEMMA EnterKeeps ==
  ASSUME KernelOK(Now), kernel_curr_act \in Aid, NEW arg \in Arg \cup {ZERO}
  PROVE  KernelOK(Enter(arg))
<1>1. frame \in [Aid -> Msg]
  BY DEF KernelOK, SchedOK, SchedType, Now
<1>2. [frame EXCEPT ![kernel_curr_act] = [v0 |-> arg, c1 |-> NULL]] \in [Aid -> Msg]
  BY <1>1 DEF Msg
<1> QED BY <1>2 DEF KernelOK, SchedOK, SchedType, Now, Enter, Mail, Box

(* What the variables of the scheduler are in a state that is in order.    *)
LEMMA KernelFacts ==
  ASSUME NEW s, KernelOK(s)
  PROVE  /\ s.st \in [Aid -> SchedStatus] /\ s.rq \in RunQueues
         /\ s.mq \in [Aid -> Rings(Msg)] /\ s.fr \in [Aid -> Msg]
         /\ s.st[0] = "terminated" /\ Lists(s.rq, Active(s.st))
         /\ Active(s.st) \in SUBSET (Aid \ {0})
         /\ \A a \in Aid : Mail(s, a) /\ Box(s, a)
BY ActiveNotKernel DEF KernelOK, SchedOK, SchedType

(* A synchronous call of an activation that waits: it runs next, with the  *)
(* request in its registers, and in its caller's place in the run queue.   *)
LEMMA CallSwitches ==
  ASSUME KernelOK(Now), panic = "no", kernel_curr_act \in Aid,
         sched_status[kernel_curr_act] = "runnable",
         NEW cb \in Aid \ {0}, sched_status[cb] = "waiting",
         NEW m \in Arg, next_unique \in 0 .. UNIQUE_MOD - 1, ccall_sync(cb, TRUE, m)
  PROVE  LET token == [aid |-> kernel_curr_act, unique |-> next_unique]
         IN  /\ panic' = "no" /\ kernel_curr_act' = cb
             /\ sched_status' = [sched_status EXCEPT ![kernel_curr_act] = "sync_block",
                                                     ![cb] = "runnable"]
             /\ frame' = [frame EXCEPT ![kernel_curr_act] = [v0 |-> m, c1 |-> NULL],
                                       ![cb] = [v0 |-> m, c1 |-> token]]
             /\ KernelOK(Next_s)
             /\ rq'.end = rq.end /\ rq'.idx = rq.idx
             /\ rq'.squeue_a[rq.aqueue[kernel_curr_act]] = cb
             /\ \A i \in 0 .. rq.end - 1 :
                  i # rq.aqueue[kernel_curr_act] => rq'.squeue_a[i] = rq.squeue_a[i]
             /\ unique' = next_unique
             /\ expected_reply' = [expected_reply EXCEPT ![kernel_curr_act] = next_unique]
             /\ UNCHANGED <<status, kernel_next_act>>
<1> DEFINE c == kernel_curr_act
           token == [aid |-> c, unique |-> next_unique]
           msg == [v0 |-> m, c1 |-> token]
           e == Enter(m)
           p == msg_push(e, cb, msg)
           t == sched_a2d(p, c, "sync_block")
<1>1. /\ KernelOK(e) /\ e.st = sched_status /\ e.rq = rq /\ e.mq = msg_queues
      /\ e.fr = [frame EXCEPT ![c] = [v0 |-> m, c1 |-> NULL]]
  BY EnterKeeps DEF Enter
<1>2. /\ sched_status \in [Aid -> SchedStatus] /\ rq \in RunQueues
      /\ msg_queues \in [Aid -> Rings(Msg)] /\ e.fr \in [Aid -> Msg] /\ frame \in [Aid -> Msg]
      /\ sched_status[0] = "terminated" /\ Lists(rq, Active(sched_status))
      /\ Active(sched_status) \in SUBSET (Aid \ {0})
      /\ \A a \in Aid : Mail(e, a) /\ Box(e, a)
  BY <1>1, KernelFacts DEF Now, KernelOK, SchedOK, SchedType
<1>3. msg \in Msg
  BY DEF Msg, Token
<1> HIDE DEF msg, e
<1>4. /\ msg_queues[cb] \in Rings(Msg) /\ empty(msg_queues[cb]) /\ ~full(msg_queues[cb])
      /\ enqueue(msg_queues[cb], msg) \in Rings(Msg)
      /\ ~empty(enqueue(msg_queues[cb], msg)) /\ front(enqueue(msg_queues[cb], msg)) = msg
      /\ empty(dequeue(enqueue(msg_queues[cb], msg)))
  <2>1. msg_queues[cb] \in Rings(Msg) /\ empty(msg_queues[cb])
    BY <1>1, <1>2 DEF Mail
  <2> QED BY <2>1, <1>3, PushEmpty
<1>5. /\ p.st = [sched_status EXCEPT ![cb] = "schedulable"] /\ p.rq = QADD(rq, cb)
      /\ p.mq = [msg_queues EXCEPT ![cb] = enqueue(msg_queues[cb], msg)] /\ p.fr = e.fr
  BY <1>1 DEF msg_push, sched_d2a
<1>6. SchedOK(p)
  BY <1>1, <1>3, <1>4, PushOK DEF KernelOK
<1>7. cb # c /\ c \in Active(sched_status) /\ c \in Active(p.st) /\ cb \notin Active(sched_status)
  BY <1>2, <1>5 DEF Active
<1> HIDE DEF p
<1>8. SchedOK(t) /\ QDEL_assert(p.rq, c)
  BY <1>6, <1>7, A2DOK
<1>9. /\ t.st = [p.st EXCEPT ![c] = "sync_block"] /\ t.rq = QDEL(p.rq, c)
      /\ t.mq = p.mq /\ t.fr = p.fr
  BY DEF sched_a2d
<1>10. /\ sched_reschedule(t, cb) /\ unique' = next_unique
       /\ expected_reply' = [expected_reply EXCEPT ![c] = next_unique]
       /\ UNCHANGED <<status, kernel_next_act>>
  <2>1. ccall_sync(cb, TRUE, m) =>
          /\ unique' = next_unique
          /\ expected_reply' = [expected_reply EXCEPT ![c] = next_unique]
          /\ ~full(msg_queues[cb]) /\ QDEL_assert(p.rq, c) => sched_reschedule(t, cb)
          /\ UNCHANGED <<status, kernel_next_act>>
    BY DEF ccall_sync, p, e, msg
  <2> QED BY <2>1, <1>4, <1>8
<1> HIDE DEF t
<1>11. t.st[cb] = "schedulable" /\ Ready(t, cb) /\ ~empty(t.mq[cb])
  BY <1>2, <1>4, <1>5, <1>7, <1>9 DEF Ready
<1>12. SwitchTo(t, cb)
  BY <1>10, <1>11 DEF sched_reschedule
<1>13. /\ kernel_curr_act' = cb /\ panic' = "no" /\ rq' = t.rq
       /\ sched_status' = [t.st EXCEPT ![cb] = "runnable"]
       /\ msg_queues' = [t.mq EXCEPT ![cb] = dequeue(t.mq[cb])]
       /\ frame' = [t.fr EXCEPT ![cb] = front(t.mq[cb])]
  BY <1>11, <1>12 DEF SwitchTo, sched_schedule
<1>14. SchedOK(Next_s)
  <2>1. Settled(t.st)
    BY <1>8, <1>11, <1>12, SwitchSettles
  <2> QED BY <2>1, <1>13 DEF Settled, Stops
<1>15. t.mq[cb] = enqueue(msg_queues[cb], msg)
  BY <1>2, <1>5, <1>9
<1>16. sched_status' = [sched_status EXCEPT ![c] = "sync_block", ![cb] = "runnable"]
  BY <1>2, <1>5, <1>7, <1>9, <1>13
<1>17. frame' = [frame EXCEPT ![c] = [v0 |-> m, c1 |-> NULL], ![cb] = msg]
  BY <1>1, <1>2, <1>4, <1>5, <1>9, <1>13, <1>15
<1>18. ASSUME NEW a \in Aid PROVE Box(Next_s, a)
  <2>1. CASE a = cb
    <3>1. msg_queues'[cb] = dequeue(t.mq[cb]) /\ sched_status'[cb] = "runnable"
      BY <1>2, <1>5, <1>7, <1>9, <1>13
    <3> QED BY <2>1, <3>1, <1>4, <1>15 DEF Box, Next_s
  <2>2. CASE a # cb
    <3>1. msg_queues'[a] = msg_queues[a]
      BY <2>2, <1>2, <1>5, <1>9, <1>13
    <3>2. sched_status'[a] = IF a = c THEN "sync_block" ELSE sched_status[a]
      BY <2>2, <1>2, <1>16
    <3>3. Box(e, a)
      BY <1>2
    <3> QED BY <3>1, <3>2, <3>3, <1>1 DEF Box, Next_s
  <2> QED BY <2>1, <2>2
<1>19. /\ rq'.end = rq.end /\ rq'.idx = rq.idx
       /\ rq'.squeue_a[rq.aqueue[c]] = cb
       /\ \A i \in 0 .. rq.end - 1 : i # rq.aqueue[c] => rq'.squeue_a[i] = rq.squeue_a[i]
  <2>1. rq' = QDEL(QADD(rq, cb), c)
    BY <1>5, <1>9, <1>13
  <2> QED BY <2>1, <1>2, <1>7, TakesPlace
<1> QED BY <1>10, <1>13, <1>14, <1>16, <1>17, <1>18, <1>19 DEF KernelOK, msg

(* An answer to an activation blocked in its call: that one runs next,     *)
(* with the answer in its registers, and in the service's place in the run *)
(* queue.                                                                  *)
LEMMA ReturnSwitches ==
  ASSUME KernelOK(Now), panic = "no", kernel_curr_act \in Aid,
         sched_status[kernel_curr_act] = "runnable",
         NEW token \in Token, Expected(token), sched_status[token.aid] = "sync_block",
         NEW ans \in Arg, creturn_sync(token, ans)
  PROVE  LET x == token.aid
         IN  /\ panic' = "no" /\ kernel_curr_act' = x /\ x # kernel_curr_act
             /\ sched_status' = [sched_status EXCEPT ![x] = "runnable",
                                                     ![kernel_curr_act] = "waiting"]
             /\ frame'[x].v0 = ans
             /\ \A a \in Aid \ {x, kernel_curr_act} : frame'[a] = frame[a]
             /\ KernelOK(Next_s)
             /\ rq'.end = rq.end /\ rq'.idx = rq.idx
             /\ rq'.squeue_a[rq.aqueue[kernel_curr_act]] = x
             /\ \A i \in 0 .. rq.end - 1 :
                  i # rq.aqueue[kernel_curr_act] => rq'.squeue_a[i] = rq.squeue_a[i]
             /\ UNCHANGED <<status, expected_reply, kernel_next_act, unique>>
<1> DEFINE c == kernel_curr_act
           x == token.aid
           e == Enter(ans)
           w == sched_d2a(e, x, "runnable")
           r == reply(token, ans)
           t == sched_a2d(r, c, "waiting")
<1>1. /\ KernelOK(e) /\ e.st = sched_status /\ e.rq = rq /\ e.mq = msg_queues
      /\ e.fr = [frame EXCEPT ![c] = [v0 |-> ans, c1 |-> NULL]]
  BY EnterKeeps DEF Enter
<1>2. /\ sched_status \in [Aid -> SchedStatus] /\ rq \in RunQueues
      /\ msg_queues \in [Aid -> Rings(Msg)] /\ e.fr \in [Aid -> Msg] /\ frame \in [Aid -> Msg]
      /\ sched_status[0] = "terminated" /\ Lists(rq, Active(sched_status))
      /\ Active(sched_status) \in SUBSET (Aid \ {0})
      /\ \A a \in Aid : Mail(e, a) /\ Box(e, a)
  BY <1>1, KernelFacts DEF Now, KernelOK, SchedOK, SchedType
<1>3. /\ x \in Aid /\ x # 0 /\ x # c /\ x \notin Active(sched_status)
      /\ c \in Active(sched_status) /\ c # 0
  BY <1>2 DEF Token, Active
<1>4. SchedType(w) /\ w.st[0] = "terminated" /\ Lists(w.rq, Active(w.st))
  <2>1. SchedType(e) /\ e.st[0] = "terminated" /\ Lists(e.rq, Active(e.st))
    BY <1>1 DEF KernelOK, SchedOK
  <2>2. "runnable" \in {"runnable", "schedulable"} /\ x \in Aid \ {0} /\ x \notin Active(e.st)
    BY <1>1, <1>3
  <2> HIDE DEF e
  <2> QED BY <2>1, <2>2, D2ALists, Zenon
<1>5. /\ w.st = [sched_status EXCEPT ![x] = "runnable"] /\ w.rq = QADD(rq, x)
      /\ w.mq = msg_queues /\ w.fr = e.fr
  BY <1>1 DEF sched_d2a
<1>6. /\ r.st = w.st /\ r.rq = w.rq /\ r.mq = w.mq
      /\ r.fr = [w.fr EXCEPT ![x] = [v0 |-> ans, c1 |-> w.fr[x].c1]]
  BY DEF reply
<1> HIDE DEF w, e, r
<1>7. r.fr \in [Aid -> Msg]
  BY <1>3, <1>4, <1>6 DEF SchedType, Msg
<1>8. \A a \in Aid : Mail(r, a)
  BY <1>1, <1>2, <1>5, <1>6 DEF Mail
<1>9. SchedOK(r)
  BY <1>4, <1>6, <1>7, <1>8 DEF SchedOK, SchedType
<1>10. r.st[c] = "runnable" /\ r.st[x] = "runnable" /\ c \in Active(r.st)
  BY <1>2, <1>3, <1>5, <1>6 DEF Active
<1>11. empty(r.mq[c])
  BY <1>1, <1>2, <1>3, <1>5, <1>6 DEF Box
<1>12. SchedOK(t) /\ QDEL_assert(r.rq, c)
  BY <1>9, <1>10, <1>11, A2DOK
<1>13. act_wait(r, c, x) /\ UNCHANGED <<status, expected_reply, kernel_next_act, unique>>
  BY DEF creturn_sync, r
<1>14. sched_reschedule(t, x)
  BY <1>10, <1>11, <1>12, <1>13 DEF act_wait
<1>15. /\ t.st = [r.st EXCEPT ![c] = "waiting"] /\ t.rq = QDEL(r.rq, c)
       /\ t.mq = r.mq /\ t.fr = r.fr
  BY DEF sched_a2d
<1> HIDE DEF t
<1>16. t.st[x] = "runnable" /\ Ready(t, x)
  BY <1>2, <1>3, <1>5, <1>6, <1>15 DEF Ready
<1>17. SwitchTo(t, x)
  BY <1>3, <1>14, <1>16 DEF sched_reschedule
<1>18. /\ kernel_curr_act' = x /\ panic' = "no" /\ rq' = t.rq
       /\ sched_status' = t.st /\ msg_queues' = t.mq /\ frame' = t.fr
  BY <1>16, <1>17 DEF SwitchTo
<1>19. SchedOK(Next_s)
  BY <1>12, <1>18 DEF SchedOK, SchedType, Next_s, Mail
<1>20. sched_status' = [sched_status EXCEPT ![x] = "runnable", ![c] = "waiting"]
  BY <1>5, <1>6, <1>15, <1>18
<1>21. \A a \in Aid : Box(Next_s, a)
  BY <1>1, <1>2, <1>3, <1>5, <1>6, <1>11, <1>15, <1>18, <1>20 DEF Box, Next_s
<1>22. frame'[x].v0 = ans /\ \A a \in Aid \ {x, c} : frame'[a] = frame[a]
  BY <1>1, <1>2, <1>3, <1>5, <1>6, <1>15, <1>18
<1>23. /\ rq'.end = rq.end /\ rq'.idx = rq.idx
       /\ rq'.squeue_a[rq.aqueue[c]] = x
       /\ \A i \in 0 .. rq.end - 1 : i # rq.aqueue[c] => rq'.squeue_a[i] = rq.squeue_a[i]
  <2>1. rq' = QDEL(QADD(rq, x), c)
    BY <1>5, <1>6, <1>15, <1>18
  <2> QED BY <2>1, <1>2, <1>3, TakesPlace
<1> QED BY <1>3, <1>13, <1>18, <1>19, <1>20, <1>21, <1>22, <1>23 DEF KernelOK

(* sched_reschedule without a hint it can follow, from the handler's state *)
(* t: the next slot of the run queue decides, and a program picked for the *)
(* first time finds the message that starts it.                            *)
Picked(t) ==
  \E act \in Active(t.st) :
    /\ kernel_curr_act' = act /\ panic' = "no"
    /\ t.rq.end > 0
    /\ rq' = [t.rq EXCEPT !.idx = (t.rq.idx + 1) % t.rq.end]
    /\ t.rq.squeue_a[(t.rq.idx + 1) % t.rq.end] = act
    /\ sched_status' = [t.st EXCEPT ![act] = "runnable"]
    /\ frame' = IF t.st[act] = "schedulable" THEN [t.fr EXCEPT ![act] = StartMsg] ELSE t.fr
    /\ KernelOK(Next_s)

(* sched_reschedule in a state in order lets the next in the queue run.    *)
LEMMA PicksNext ==
  ASSUME NEW t, KernelOK(t), NEW hint \in Aid, hint = 0 \/ ~Ready(t, hint),
         sched_reschedule(t, hint), Active(t.st) # {}, panic = "no"
  PROVE  Picked(t)
<1> DEFINE p == PickIndex(t.rq, 1)
           q == [t.rq EXCEPT !.idx = p]
           u == [st |-> t.st, rq |-> q, mq |-> t.mq, fr |-> t.fr]
           act == t.rq.squeue_a[p]
<1>1. /\ t.st \in [Aid -> SchedStatus] /\ t.rq \in RunQueues
      /\ t.mq \in [Aid -> Rings(Msg)] /\ t.fr \in [Aid -> Msg]
      /\ t.st[0] = "terminated" /\ Lists(t.rq, Active(t.st)) /\ SchedOK(t)
      /\ Active(t.st) \in SUBSET (Aid \ {0})
      /\ \A a \in Aid : Mail(t, a) /\ Box(t, a)
  BY KernelFacts DEF KernelOK
<1>2. t.rq.end > 0 /\ t.rq.end \in Nat /\ t.rq.idx \in Nat /\ t.rq.end <= MAX_ACTIVATIONS
  <2>1. PICK a \in Active(t.st) : TRUE
    OBVIOUS
  <2>2. Active(t.st) \in SUBSET Aid /\ t.rq.end \in 0 .. MAX_ACTIVATIONS /\ t.rq.idx \in Aid
    BY <1>1 DEF RunQueues
  <2>3. t.rq.end > 0
    BY <1>1, <2>1, <2>2, ListedSlot
  <2> QED BY <2>2, <2>3, MaxActivationsAssumption DEF Aid
<1>3. p \in 0 .. t.rq.end - 1 /\ p \in Aid /\ p = (t.rq.idx + 1) % t.rq.end
  BY <1>2, MaxActivationsAssumption DEF PickIndex, Aid
<1>4. act \in Active(t.st) /\ Ready(t, act) /\ act \in Aid
  BY <1>1, <1>3 DEF Lists, Active, Ready
<1>5. 1 \in PickRounds(t) /\ \A k \in PickRounds(t) : 1 <= k
  BY <1>2, <1>4 DEF PickRounds
<1>6. FirstPick(t) = p
  <2>1. \A k \in PickRounds(t) : (\A j \in PickRounds(t) : k <= j) => k = 1
    BY <1>2, <1>5 DEF PickRounds
  <2>2. (CHOOSE k \in PickRounds(t) : \A j \in PickRounds(t) : k <= j) = 1
    BY <1>5, <2>1
  <2> QED BY <2>2 DEF FirstPick
<1>7. SwitchTo(u, act)
  <2>1. ~(hint # 0 /\ Ready(t, hint)) /\ t.rq.end # 0 /\ PickRounds(t) # {}
    BY <1>2, <1>5
  <2> QED BY <2>1, <1>6 DEF sched_reschedule
<1>8. q \in RunQueues /\ Lists(q, Active(t.st))
  BY <1>1, <1>3 DEF RunQueues, Lists
<1> HIDE DEF p, q, act
<1>9. SchedOK(u)
  BY <1>1, <1>8 DEF SchedOK, SchedType, Mail
<1>10. Ready(u, act)
  BY <1>4 DEF Ready
<1>11. Settled(t.st)
  <2>1. Settled(u.st)
    BY <1>4, <1>7, <1>9, <1>10, SwitchSettles
  <2> QED BY <2>1
<1>12. CASE t.st[act] = "schedulable"
  <2>1. ~empty(t.mq[act]) /\ front(t.mq[act]) = StartMsg /\ empty(dequeue(t.mq[act]))
    BY <1>1, <1>4, <1>12 DEF Mail, Box
  <2>2. /\ kernel_curr_act' = act /\ panic' = "no" /\ rq' = q
        /\ sched_status' = [t.st EXCEPT ![act] = "runnable"]
        /\ msg_queues' = [t.mq EXCEPT ![act] = dequeue(t.mq[act])]
        /\ frame' = [t.fr EXCEPT ![act] = StartMsg]
    BY <1>7, <1>12, <2>1 DEF SwitchTo, sched_schedule
  <2>3. SchedOK(Next_s)
    BY <1>11, <2>2 DEF Settled, Stops
  <2>4. ASSUME NEW a \in Aid PROVE Box(Next_s, a)
    BY <1>1, <1>4, <1>12, <2>1, <2>2 DEF Box, Next_s
  <2> QED BY <1>2, <1>3, <1>4, <1>12, <2>2, <2>3, <2>4 DEF Picked, KernelOK, q, act
<1>13. CASE t.st[act] = "runnable"
  <2>1. /\ kernel_curr_act' = act /\ panic' = "no" /\ rq' = q
        /\ sched_status' = t.st /\ msg_queues' = t.mq /\ frame' = t.fr
    BY <1>7, <1>13 DEF SwitchTo
  <2>2. sched_status' = [t.st EXCEPT ![act] = "runnable"]
    BY <1>1, <1>4, <1>13, <2>1
  <2>3. SchedOK(Next_s)
    BY <1>11, <2>1 DEF Settled, Stops
  <2>4. \A a \in Aid : Box(Next_s, a)
    BY <1>1, <2>1 DEF Box, Next_s
  <2> QED BY <1>2, <1>3, <1>4, <1>13, <2>1, <2>2, <2>3, <2>4 DEF Picked, KernelOK, q, act
<1> QED BY <1>4, <1>12, <1>13 DEF Ready

(* An activation leaves the run queue: to wait for a message, or to end.   *)
Left(s, act, stat) ==
  [st |-> [s.st EXCEPT ![act] = stat], rq |-> QDEL(s.rq, act), mq |-> s.mq, fr |-> s.fr]

(* An activation that waits or ends leaves the kernel in order.            *)
LEMMA LeftOK ==
  ASSUME NEW s, KernelOK(s), NEW act \in Aid, s.st[act] = "runnable",
         NEW stat \in {"waiting", "terminated"}
  PROVE  /\ KernelOK(Left(s, act, stat)) /\ QDEL_assert(s.rq, act)
         /\ Active(Left(s, act, stat).st) = Active(s.st) \ {act}
<1> DEFINE t == Left(s, act, stat)
<1>1. /\ s.st \in [Aid -> SchedStatus] /\ s.rq \in RunQueues
      /\ s.mq \in [Aid -> Rings(Msg)] /\ s.fr \in [Aid -> Msg]
      /\ s.st[0] = "terminated" /\ Lists(s.rq, Active(s.st))
      /\ Active(s.st) \in SUBSET (Aid \ {0})
      /\ \A a \in Aid : Mail(s, a) /\ Box(s, a)
  BY KernelFacts
<1>2. act \in Active(s.st) /\ act # 0 /\ Active(s.st) \in SUBSET Aid
  BY <1>1 DEF Active
<1>3. /\ t.st = [s.st EXCEPT ![act] = stat] /\ t.rq = QDEL(s.rq, act)
      /\ t.mq = s.mq /\ t.fr = s.fr
  BY DEF Left
<1> HIDE DEF t
<1>4. /\ QDEL(s.rq, act) \in RunQueues /\ Lists(QDEL(s.rq, act), Active(s.st) \ {act})
      /\ QDEL_assert(s.rq, act)
  BY <1>1, <1>2, QDelLists, QDelAssert
<1>5. Active(t.st) = Active(s.st) \ {act}
  <2>1. stat \in {"waiting", "sync_block", "terminated"}
    OBVIOUS
  <2>2. Active([s.st EXCEPT ![act] = stat]) = Active(s.st) \ {act}
    BY <2>1, <1>1, ActiveRemove, Zenon
  <2> QED BY <2>2, <1>3, Zenon
<1>6. t.st \in [Aid -> SchedStatus] /\ t.st[0] = "terminated"
  BY <1>1, <1>2, <1>3 DEF SchedStatus
<1>7. \A a \in Aid : Mail(t, a) /\ Box(t, a)
  BY <1>1, <1>2, <1>3 DEF Mail, Box
<1>8. KernelOK(t)
  BY <1>1, <1>3, <1>4, <1>5, <1>6, <1>7 DEF KernelOK, SchedOK, SchedType
<1> QED BY <1>4, <1>5, <1>8 DEF t

(* A service waits for a message, when another one can run.                *)
LEMMA WaitPicks ==
  ASSUME KernelOK(Now), panic = "no", kernel_curr_act \in Aid,
         sched_status[kernel_curr_act] = "runnable",
         NEW other \in Active(sched_status), other # kernel_curr_act,
         NEW ans \in Arg, creturn_null(ans)
  PROVE  /\ Picked(Left(Enter(ans), kernel_curr_act, "waiting"))
         /\ UNCHANGED <<status, expected_reply, kernel_next_act, unique>>
<1> DEFINE c == kernel_curr_act
           e == Enter(ans)
           t == Left(e, c, "waiting")
<1>1. KernelOK(e) /\ e.st = sched_status /\ e.mq = msg_queues
  BY EnterKeeps DEF Enter
<1>2. Box(e, c) /\ e.st \in [Aid -> SchedStatus]
  BY <1>1, KernelFacts
<1>3. empty(e.mq[c]) /\ e.st[c] = "runnable"
  BY <1>1, <1>2 DEF Box
<1>4. act_wait(e, c, c) /\ UNCHANGED <<status, expected_reply, kernel_next_act, unique>>
  BY DEF creturn_null
<1>5. t = sched_a2d(e, c, "waiting")
  BY DEF Left, sched_a2d
<1>6. t.st[c] = "waiting"
  BY <1>2 DEF Left
<1> HIDE DEF e
<1>7. KernelOK(t) /\ QDEL_assert(e.rq, c) /\ Active(t.st) = Active(e.st) \ {c}
  BY <1>1, <1>3, LeftOK
<1>8. sched_reschedule(t, c)
  BY <1>3, <1>4, <1>5, <1>7 DEF act_wait
<1> HIDE DEF t
<1>9. ~Ready(t, c)
  BY <1>6 DEF Ready
<1>10. Picked(t)
  BY <1>1, <1>7, <1>8, <1>9, PicksNext
<1> QED BY <1>4, <1>10 DEF t, e

(* A program exits, when another one can run.                              *)
LEMMA ExitPicks ==
  ASSUME KernelOK(Now), panic = "no", kernel_curr_act \in Aid,
         sched_status[kernel_curr_act] = "runnable",
         NEW other \in Active(sched_status), other # kernel_curr_act,
         act_terminate(kernel_curr_act)
  PROVE  /\ Picked(Left(Now, kernel_curr_act, "terminated"))
         /\ status' = [status EXCEPT ![kernel_curr_act] = "terminated"]
         /\ UNCHANGED <<expected_reply, kernel_next_act, unique>>
<1> DEFINE c == kernel_curr_act
           t == Left(Now, c, "terminated")
<1>1. Now.st = sched_status /\ Now.rq = rq /\ Now.mq = msg_queues /\ Now.fr = frame
  BY DEF Now
<1>2. /\ KernelOK(t) /\ QDEL_assert(rq, c) /\ Active(t.st) = Active(sched_status) \ {c}
  BY <1>1, LeftOK
<1>3. rq.squeue_a[rq.aqueue[c]] = c /\ rq.end # 0
  BY <1>2 DEF QDEL_assert
<1>4. t = sched_delete(Now, c)
  BY <1>1, <1>3 DEF Left, sched_delete
<1>5. /\ sched_reschedule(t, 0) /\ status' = [status EXCEPT ![c] = "terminated"]
      /\ UNCHANGED <<expected_reply, kernel_next_act, unique>>
  BY <1>3, <1>4 DEF act_terminate
<1> HIDE DEF t
<1>6. Picked(t)
  BY <1>2, <1>5, PicksNext, Ids
<1> QED BY <1>5, <1>6 DEF t

(* init starts the activation b, which has waited for that.                *)
LEMMA SendStarts ==
  ASSUME KernelOK(Now), kernel_curr_act \in Aid, kernel_curr_act # 0,
         sched_status[kernel_curr_act] = "runnable",
         NEW b \in Aid \ {0}, sched_status[b] = "waiting", ccall_send(b, TRUE, M("start", 0))
  PROVE  /\ UNCHANGED <<kernel_curr_act, panic, status, expected_reply, kernel_next_act, unique>>
         /\ sched_status' = [sched_status EXCEPT ![b] = "schedulable"]
         /\ rq' = QADD(rq, b)
         /\ frame' = [frame EXCEPT ![kernel_curr_act] = [v0 |-> M("start", 0), c1 |-> NULL]]
         /\ KernelOK(Next_s)
<1> DEFINE c == kernel_curr_act
           m == M("start", 0)
           e == Enter(m)
           p == msg_push(e, b, StartMsg)
<1>1. m \in Arg /\ StartMsg \in Msg
  BY PayloadAssumption, Ids DEF Payload, M, Requests, Answers, StartMsg, Msg
<1>2. /\ KernelOK(e) /\ e.st = sched_status /\ e.rq = rq /\ e.mq = msg_queues
      /\ e.fr = [frame EXCEPT ![c] = [v0 |-> m, c1 |-> NULL]]
  <2> HIDE DEF m
  <2> QED BY <1>1, EnterKeeps DEF Enter
<1> HIDE DEF e
<1>3. /\ sched_status \in [Aid -> SchedStatus] /\ rq \in RunQueues
      /\ msg_queues \in [Aid -> Rings(Msg)] /\ e.fr \in [Aid -> Msg]
      /\ sched_status[0] = "terminated" /\ Lists(rq, Active(sched_status))
      /\ \A a \in Aid : Mail(e, a) /\ Box(e, a)
  BY <1>2, KernelFacts
<1>4. msg_queues[b] \in Rings(Msg) /\ empty(msg_queues[b])
  BY <1>2, <1>3 DEF Mail
<1>5. /\ ~full(msg_queues[b]) /\ front(enqueue(msg_queues[b], StartMsg)) = StartMsg
      /\ empty(dequeue(enqueue(msg_queues[b], StartMsg)))
  BY <1>1, <1>4, PushEmpty
<1>6. SchedOK(p)
  <2>1. SchedOK(e) /\ ~full(e.mq[b])
    BY <1>2, <1>5 DEF KernelOK
  <2> QED BY <2>1, <1>1, PushOK
<1>7. /\ p.st = [sched_status EXCEPT ![b] = "schedulable"] /\ p.rq = QADD(rq, b)
      /\ p.mq = [msg_queues EXCEPT ![b] = enqueue(msg_queues[b], StartMsg)] /\ p.fr = e.fr
  BY <1>2 DEF msg_push, sched_d2a
<1>8. /\ Resume(p) /\ UNCHANGED <<status, expected_reply, kernel_next_act, unique>>
  BY <1>5 DEF ccall_send, async_push, e, StartMsg
<1> HIDE DEF p
<1>9. /\ sched_status' = p.st /\ rq' = p.rq /\ msg_queues' = p.mq /\ frame' = p.fr
      /\ UNCHANGED <<kernel_curr_act, panic>>
  BY <1>8 DEF Resume
<1>10. SchedOK(Next_s)
  BY <1>6, <1>9 DEF SchedOK, SchedType, Next_s, Mail
<1>11. \A a \in Aid : Box(Next_s, a)
  BY <1>2, <1>3, <1>5, <1>7, <1>9 DEF Box, Next_s
<1> QED BY <1>2, <1>7, <1>8, <1>9, <1>10, <1>11 DEF KernelOK, m

(* init registers an activation, in the slot of one that never ran.        *)
LEMMA Registers ==
  ASSUME KernelOK(Now), kernel_next_act \in Aid, kernel_next_act < MAX_ACTIVATIONS,
         kernel_next_act # 0, sched_status[kernel_next_act] = "waiting", act_register
  PROVE  /\ UNCHANGED <<kernel_curr_act, panic, expected_reply, unique, rq, sched_status>>
         /\ status' = [status EXCEPT ![kernel_next_act] = "alive"]
         /\ frame' = [frame EXCEPT ![kernel_next_act] = NoMsg]
         /\ kernel_next_act' = kernel_next_act + 1
         /\ KernelOK(Next_s)
<1> DEFINE n == kernel_next_act
<1>1. /\ sched_status \in [Aid -> SchedStatus] /\ rq \in RunQueues
      /\ msg_queues \in [Aid -> Rings(Msg)] /\ frame \in [Aid -> Msg]
      /\ sched_status[0] = "terminated" /\ Lists(rq, Active(sched_status))
      /\ \A a \in Aid : Mail(Now, a) /\ Box(Now, a)
  BY KernelFacts DEF Now
<1>2. /\ status' = [status EXCEPT ![n] = "alive"]
      /\ sched_status' = [sched_status EXCEPT ![n] = "waiting"]
      /\ msg_queues' = [msg_queues EXCEPT ![n] = msg_queue_init(msg_queues[n])]
      /\ frame' = [frame EXCEPT ![n] = NoMsg]
      /\ kernel_next_act' = n + 1
      /\ UNCHANGED <<rq, kernel_curr_act, panic, expected_reply, unique>>
  <2>1. ~(n >= MAX_ACTIVATIONS)
    BY MaxActivationsAssumption DEF Aid
  <2> QED BY <2>1 DEF act_register
<1>3. sched_status' = sched_status
  BY <1>1, <1>2
<1>4. msg_queue_init(msg_queues[n]) \in Rings(Msg) /\ empty(msg_queue_init(msg_queues[n]))
  BY <1>1, MaxMsgAssumption DEF msg_queue_init, Rings, empty, Slot
<1>5. msg_queues' \in [Aid -> Rings(Msg)] /\ frame' \in [Aid -> Msg]
  BY <1>1, <1>2, <1>4 DEF NoMsg, Msg
<1>6. ASSUME NEW a \in Aid PROVE Mail(Next_s, a) /\ Box(Next_s, a)
  BY <1>1, <1>2, <1>3, <1>4 DEF Mail, Box, Next_s, Now
<1> QED BY <1>1, <1>2, <1>3, <1>5, <1>6 DEF KernelOK, SchedOK, SchedType, Next_s

----------------------------------------------------------------------------
(* The inductive invariant.                                                *)

Services == {memmgt, namespace} \cup DaemonIds

(* The token of the call that an activation made last.                     *)
tok(a) == [aid |-> a, unique |-> expected_reply[a]]

(* init has sent the message that starts it.                               *)
Started(a) == a < be \/ (a = be /\ pc[init] \in {"nssleep", "glue"})

(* An activation a that is out of the way of whoever runs: what it is, by  *)
(* its scheduling status s, its place p, its request q, and whether it is  *)
(* started.  A user program that called an unknown method may wait for     *)
(* ever.                                                                   *)
Rests(a, s, p, q, started) ==
  \/ a = init /\ s = "runnable"
  \/ a > init /\ p = "new" /\ q = ZERO /\ s = IF started THEN "schedulable" ELSE "waiting"
  \/ a \in Services /\ p = "msg_entry" /\ s = "waiting" /\ q = ZERO
  \/ a \in UserIds /\ p = "main" /\ started
       /\ (s = "runnable" \/ (s = "sync_block" /\ q = M("unknown", 0)))
  \/ a \in UserIds /\ p = "exited" /\ s = "terminated"

Resting(a) == Rests(a, sched_status[a], pc[a], asked[a], Started(a))

Calm(S) == \A a \in Aid \ ({0} \cup S) : Resting(a)

(* One that runs, in its main and not for a caller.                        *)
Top(a, p, q, started) ==
  \/ a = init
  \/ a \in Services /\ started /\ p = "new" /\ q = ZERO
  \/ a \in DaemonIds /\ started /\ p = "registered" /\ q = M("ns_register", a)
  \/ a \in UserIds /\ started /\ p \in {"new", "main", "_mmap ref", "_mmap id", "ref", "id"}

AtTop(a) == Top(a, pc[a], asked[a], Started(a))

(* The requests of x to the service s.                                     *)
Asks(x, s) ==
  \/ x = init /\ s = memmgt /\ asked[x] = M("mmap", 0)
  \/ x = init /\ s = memmgt /\ asked[x] = M("register_ns", 0) /\ be > namespace
  \/ x \in DaemonIds /\ s = namespace /\ asked[x] = M("ns_register", x) /\ pc[x] = "registered"
  \/ x \in UserIds /\ s = namespace /\ pc[x] \in {"_mmap ref", "_mmap id", "ref", "id"}
       /\ \E n \in {memmgt} \cup DaemonIds :
            asked[x] \in {M("ns_get_reference", n), M("ns_get_identifier", n)}
  \/ x \in UserIds /\ s = memmgt /\ pc[x] = "main" /\ asked[x] = M("mmap", 0)
  \/ x \in UserIds /\ s \in DaemonIds /\ pc[x] = "main"
       /\ asked[x] \in {M("serve", 0), M("unknown", 0)}

(* The service s runs with the request of x in its registers.              *)
Delivered(x, s) ==
  /\ sched_status[x] = "sync_block"
  /\ curr = s /\ pc[s] = "msg_entry" /\ asked[s] = ZERO
  /\ frame[s] = [v0 |-> asked[x], c1 |-> tok(x)]

(* memmgt is in register_ns, which init called.                            *)
Owes == /\ pc[memmgt] = "register_ns" /\ sync_token[memmgt] = tok(init)
        /\ asked[memmgt] = M("ns_register", memmgt)
        /\ sched_status[init] = "sync_block" /\ asked[init] = M("register_ns", 0)
        /\ be > namespace
        /\ Calm({init, memmgt, namespace})

(* The phases: a program runs on its own; a service runs for x; namespace  *)
(* runs for memmgt, which owes init an answer; memmgt has got its answer.  *)
Own == AtTop(curr) /\ Calm({curr})

Called(x) == x # 0 /\ AtTop(x) /\ Asks(x, curr) /\ Delivered(x, curr) /\ Calm({x, curr})

Nested == Owes /\ Delivered(memmgt, namespace)

Back == Owes /\ curr = memmgt /\ Resting(namespace)

(* Every daemon has registered.                                            *)
AllUp == \A d \in DaemonIds : pc[d] = "msg_entry"

(* The run queue while programs are starting.  b is the activation that    *)
(* runs on its own, or whose call is being served.  While it is init, the  *)
(* others in the queue are few enough for the naps that are left to let    *)
(* all of them run; while it is another one, so are those behind it.       *)
pow == [n \in 0 .. 3 |-> IF n = 0 THEN 1 ELSE IF n = 1 THEN 2 ELSE IF n = 2 THEN 4 ELSE 8]

Room == IF pc[init] = "nssleep"
          THEN IF be > namespace THEN pow[naps] ELSE IF naps = 3 THEN 2 ELSE 1
          ELSE IF be <= 4 THEN 1 ELSE be - 3

InitFirst == /\ rq.idx = 0 /\ rq.squeue_a[0] = curr /\ rq.end <= Room
             /\ be <= 3 + Daemons

OtherFirst(b) ==
  /\ rq.idx \in 1 .. rq.end - 1 /\ rq.squeue_a[0] = init /\ rq.squeue_a[rq.idx] = curr
  /\ \/ be <= namespace /\ b = be /\ pc[init] = "nssleep" /\ naps = 2 /\ rq.end = 2
     \/ /\ b \in DaemonIds /\ rq.end + rq.idx <= 2 * pow[naps] + 1
        /\ \/ be = 3 + Daemons /\ pc[init] = "nssleep"
           \/ be = 4 + Daemons /\ naps = 0 /\ pc[init] = "load_module"

Order(b) == be <= 3 + Daemons \/ ~AllUp => IF b = init THEN InitFirst ELSE OtherFirst(b)

Phase == \/ Own /\ Order(curr)
         \/ \E x \in Aid : Called(x) /\ Order(x)
         \/ Nested /\ Order(init)
         \/ Back /\ Order(init)

(* Where init is in the list of modules.                                   *)
LoadOK ==
  /\ \/ /\ pc[init] \in {"load_module", "stack"} /\ be \in 3 .. MAX_ACTIVATIONS - 1
        /\ kernel_next_act = be /\ naps = 0
     \/ pc[init] = "register" /\ be < MAX_ACTIVATIONS /\ kernel_next_act = be /\ naps = 0
     \/ pc[init] = "start" /\ be < MAX_ACTIVATIONS /\ kernel_next_act = be + 1 /\ naps = 0
     \/ pc[init] = "nssleep" /\ Fenced(be) /\ kernel_next_act = be + 1 /\ naps \in 1 .. 3
     \/ pc[init] = "glue" /\ be = namespace /\ kernel_next_act = be + 1 /\ naps = 0
     \/ pc[init] \in {"acts_alive", "hw_reboot"} /\ be = MAX_ACTIVATIONS /\ naps = 0
  /\ \A a \in Aid : a > init /\ pc[a] # "new" => Started(a)
  /\ pc[memmgt] = "new" => be = memmgt
  /\ pc[namespace] = "new" => be <= namespace
  /\ be > 4 + Daemons => AllUp

(* What namespace knows.                                                   *)
Unbound == \/ be <= namespace
           \/ /\ sched_status[init] = "sync_block" /\ asked[init] = M("register_ns", 0)
              /\ pc[memmgt] = "msg_entry"
           \/ sched_status[memmgt] = "sync_block"

Bound == /\ bind[memmgt] = IF Unbound THEN 0 ELSE memmgt
         /\ \A d \in DaemonIds :
              bind[d] = IF pc[d] = "new" \/ (pc[d] = "registered" /\ sched_status[d] = "sync_block")
                        THEN 0 ELSE d

(* What a user program has looked up.                                      *)
UserOK == \A u \in UserIds :
  /\ pc[u] = "_mmap ref" => asked[u] = M("ns_get_reference", memmgt)
  /\ pc[u] = "_mmap id" => memmgt_ref[u] = memmgt
  /\ pc[u] = "ref" => \E d \in DaemonIds : asked[u] = M("ns_get_reference", d)
  /\ pc[u] = "id" => peer[u] \in DaemonIds

Alive == \A a \in Aid : status[a] = IF a = 0 \/ pc[a] = "exited" THEN "terminated" ELSE "alive"

(* Only memmgt holds the token of a call that has still to be answered.    *)
Tokens ==
  /\ \A a \in Aid : expected_reply[a] <= unique
  /\ \A s \in Aid : sync_token[s] # NULL =>
       /\ sync_token[s].unique <= unique
       /\ sched_status[sync_token[s].aid] = "sync_block" /\ sync_token[s] = tok(sync_token[s].aid)
            => s = memmgt /\ pc[memmgt] = "register_ns"

(* The calls that have been made.  init makes up to three for a module,    *)
(* memmgt and each daemon one, a user program up to three for an operation.*)
Stage(p) == IF p = "load_module" THEN 0
            ELSE IF p \in {"stack", "_mmap ref", "ref"} THEN 1
            ELSE IF p \in {"register", "start", "nssleep", "glue", "_mmap id", "id"} THEN 2
            ELSE 3

Rows == 0 .. MAX_ACTIVATIONS + MaxOps
CallIds == Aid \X (Rows \X (1 .. 3))

Did(a, row, k) ==
  \/ a = init /\ (row < be \/ (row = be /\ k <= Stage(pc[init])))
  \/ a = memmgt /\ row = 0 /\ k = 1 /\ (pc[memmgt] = "register_ns" \/ bind[memmgt] # 0)
  \/ a \in DaemonIds /\ row = 0 /\ k = 1 /\ pc[a] # "new"
  \/ a \in UserIds /\ (row > ops[a] + 1 \/ (row = ops[a] + 1 /\ k <= Stage(pc[a])))

Made == {c \in CallIds : Did(c[1], c[2][1], c[2][2])}

Counted == unique <= Cardinality(Made)

(* More than all of them.                                                  *)
CallBound == MAX_ACTIVATIONS * ((MAX_ACTIVATIONS + MaxOps + 1) * 3) + 1

(* The kernel is in order, and an activation other than its own slot runs. *)
KSide == /\ KTypeOK /\ panic = "no" /\ KernelOK(Now)
         /\ curr # 0 /\ sched_status[curr] = "runnable"

Places == {"register", "start", "load_module", "stack", "nssleep", "glue", "acts_alive",
           "hw_reboot", "new", "registered", "msg_entry", "register_ns", "main",
           "_mmap ref", "_mmap id", "ref", "id", "exited"}

UType ==
  /\ pc \in [Aid -> Places]
  /\ sync_token \in [Aid -> Token \cup {NULL}]
  /\ be \in 2 .. MAX_ACTIVATIONS /\ naps \in 0 .. 3
  /\ bind \in [Aid -> Aid] /\ memmgt_ref \in [Aid -> {0, memmgt}]
  /\ peer \in [Aid -> Aid] /\ ops \in [Aid -> 0 .. MaxOps]
  /\ asked \in [Aid -> Arg \cup {ZERO}]

Live == /\ KSide /\ UType /\ LoadOK /\ Phase /\ Bound /\ UserOK /\ Alive /\ Tokens /\ Counted
        /\ AnswersMatch

(* The end of a run in which a method was called that the service does not *)
(* have: libuser returned to a token of an earlier call.                   *)
Dead == panic # "no" /\ TypeOK /\ AnswersMatch /\ AwaitsOverflow /\ pc[memmgt] # "register_ns"

SystemInv == Live \/ Dead

----------------------------------------------------------------------------
(* Facts about messages, places and types.                                 *)

(* A request is its operation and its argument.                            *)
LEMMA MFacts ==
  /\ \A o, n : M(o, n).op = o /\ M(o, n).n = n
  /\ \A o, p, n, k : M(o, n) = M(p, k) <=> o = p /\ n = k
BY DEF M

(* Requests and answers are among what a message carries.                  *)
LEMMA MArg ==
  ASSUME NEW o \in Requests \cup Answers, NEW n \in Aid
  PROVE  M(o, n) \in Arg /\ M(o, n) # ZERO
<1>1. M(o, n) \in Payload
  BY DEF Payload, M
<1> QED BY <1>1, PayloadAssumption, ArgAssumption

(* What the kernel in order gives.                                         *)
LEMMA KSideFacts ==
  ASSUME KSide
  PROVE  /\ panic = "no" /\ KernelOK(Now) /\ curr \in Aid /\ curr # 0
         /\ sched_status[curr] = "runnable"
         /\ status \in [Aid -> Status] /\ sched_status \in [Aid -> SchedStatus]
         /\ expected_reply \in [Aid -> 0 .. UNIQUE_MOD - 1] /\ frame \in [Aid -> Msg]
         /\ rq \in RunQueues /\ kernel_next_act \in 0 .. MAX_ACTIVATIONS
         /\ unique \in 0 .. UNIQUE_MOD - 1 /\ unique \in Nat
         /\ sched_status[0] = "terminated" /\ Lists(rq, Active(sched_status))
         /\ Active(sched_status) \in SUBSET (Aid \ {0})
<1>1. KTypeOK /\ KernelOK(Now) /\ panic = "no" /\ curr # 0 /\ sched_status[curr] = "runnable"
  BY DEF KSide
<1>2. /\ Now.st[0] = "terminated" /\ Lists(Now.rq, Active(Now.st))
      /\ Active(Now.st) \in SUBSET (Aid \ {0})
  BY <1>1, KernelFacts
<1> QED BY <1>1, <1>2, ModAssumption DEF KTypeOK, curr, Now

(* A handler that ends in order, with an activation that runs.             *)
LEMMA KSideNext ==
  ASSUME KernelOK(Next_s), panic' = "no", NEW a \in Aid, a # 0, kernel_curr_act' = a,
         sched_status'[a] = "runnable",
         status' \in [Aid -> Status], expected_reply' \in [Aid -> 0 .. UNIQUE_MOD - 1],
         unique' \in 0 .. UNIQUE_MOD - 1, kernel_next_act' \in 0 .. MAX_ACTIVATIONS
  PROVE  KSide'
<1>1. SchedType(Next_s) /\ KernelOK(Next_s)
  BY DEF KernelOK, SchedOK
<1>2. KTypeOK'
  BY <1>1 DEF SchedType, Next_s, KTypeOK
<1>3. KernelOK(Now)'
  BY <1>1 DEF Next_s, KernelOK, Now, SchedOK, SchedType, Mail, Box
<1> QED BY <1>2, <1>3 DEF KSide, curr

(* An activation at rest that can run, can run on its own.                 *)
LEMMA RestTop ==
  ASSUME NEW a \in Aid, NEW s \in {"runnable", "schedulable"}, NEW p, NEW q, NEW g \in BOOLEAN,
         Rests(a, s, p, q, g)
  PROVE  Top(a, p, q, g) /\ (s = "schedulable" => q = ZERO)
<1>1. a > init => a \in Services \/ a \in UserIds
  BY ProgramAssumption, MaxActivationsAssumption
     DEF Aid, Services, DaemonIds, UserIds, init, memmgt, namespace
<1> QED BY <1>1 DEF Rests, Top

(* Every activation is init, a service or a user program.                  *)
LEMMA Kinds ==
  /\ \A a \in Aid \ {0} : a = init \/ a \in Services \/ a \in UserIds
  /\ init \notin Services /\ init \notin UserIds /\ memmgt \in Services /\ namespace \in Services
  /\ memmgt \notin DaemonIds /\ namespace \notin DaemonIds /\ memmgt # namespace
  /\ \A s \in Services : s \in Aid /\ s # 0 /\ s > init /\ s \notin UserIds
  /\ \A u \in UserIds : u \in Aid /\ u # 0 /\ u > init /\ u \notin DaemonIds
  /\ \A d \in DaemonIds : d \in Services /\ d \in Aid /\ d # 0
  /\ init # memmgt /\ init # namespace /\ init # 0 /\ memmgt # 0 /\ namespace # 0
BY Ids, ProgramAssumption, MaxActivationsAssumption
   DEF Services, DaemonIds, UserIds, init, memmgt, namespace, Aid

----------------------------------------------------------------------------
(* The calls that have been made are not too many.                         *)

(* There are CallBound - 1 call identifiers.                               *)
LEMMA CallIdsFinite ==
  /\ IsFiniteSet(CallIds) /\ CallBound \in Nat
  /\ Cardinality(CallIds) + 1 = CallBound
<1>1. MAX_ACTIVATIONS \in Nat /\ MAX_ACTIVATIONS > 1 /\ MaxOps \in Nat
  BY ProgramAssumption, MaxActivationsAssumption
<1>2. IsFiniteSet(Aid) /\ Cardinality(Aid) = MAX_ACTIVATIONS
  BY <1>1, FS_Interval DEF Aid
<1>3. IsFiniteSet(Rows) /\ Cardinality(Rows) = MAX_ACTIVATIONS + MaxOps + 1
  BY <1>1, FS_Interval DEF Rows
<1>4. IsFiniteSet(1 .. 3) /\ Cardinality(1 .. 3) = 3
  <2>1. ASSUME NEW n \in Nat
        PROVE  IsFiniteSet(1 .. n) /\ Cardinality(1 .. n) = n
    BY FS_Interval
  <2> QED BY <2>1
<1>5. /\ IsFiniteSet(Rows \X (1 .. 3))
      /\ Cardinality(Rows \X (1 .. 3)) = (MAX_ACTIVATIONS + MaxOps + 1) * 3
  BY <1>3, <1>4, FS_Product
<1>6. /\ IsFiniteSet(CallIds)
      /\ Cardinality(CallIds) = MAX_ACTIVATIONS * ((MAX_ACTIVATIONS + MaxOps + 1) * 3)
  BY <1>2, <1>5, FS_Product DEF CallIds
<1> QED BY <1>1, <1>6 DEF CallBound

(* The calls made are fewer than CallBound.                                *)
LEMMA MadeFinite ==
  IsFiniteSet(Made) /\ Cardinality(Made) \in Nat /\ Cardinality(Made) + 1 <= CallBound
<1>1. Made \in SUBSET CallIds
  BY DEF Made
<1>2. IsFiniteSet(Made) /\ Cardinality(Made) <= Cardinality(CallIds)
  BY <1>1, CallIdsFinite, FS_Subset
<1>3. Cardinality(Made) \in Nat /\ Cardinality(CallIds) \in Nat
  BY <1>2, CallIdsFinite, FS_CardinalityType
<1> QED BY <1>2, <1>3, CallIdsFinite

(* No call number is used twice.                                           *)
LEMMA NoWrap ==
  ASSUME KSide, Counted, CallBound < REPLY_MOD
  PROVE  /\ next_unique = unique + 1 /\ unique + 1 \in 0 .. UNIQUE_MOD - 1
         /\ unique < REPLY_MOD /\ REPLY_MOD \in Nat
<1>1. unique \in Nat /\ unique + 1 <= CallBound /\ CallBound \in Nat
  BY KSideFacts, MadeFinite, CallIdsFinite DEF Counted
<1> QED BY <1>1, ModAssumption DEF next_unique

(* A step without a call keeps the count.                                  *)
LEMMA CountSame ==
  ASSUME Counted, unique' = unique, unique \in Nat,
         \A a \in Aid, row \in Rows, k \in 1 .. 3 : Did(a, row, k) => Did(a, row, k)'
  PROVE  Counted'
<1>1. IsFiniteSet(Made) /\ IsFiniteSet(Made)' /\ Cardinality(Made) \in Nat
      /\ Cardinality(Made)' \in Nat
  <2>1. IsFiniteSet(Made) /\ Cardinality(Made) \in Nat
    BY MadeFinite
  <2>2. (IsFiniteSet(Made) /\ Cardinality(Made) \in Nat)'
    BY MadeFinite, PTL
  <2> QED BY <2>1, <2>2
<1>2. Made \subseteq Made'
  BY DEF Made, CallIds
<1>3. Cardinality(Made) <= Cardinality(Made')
  BY <1>1, <1>2, FS_Subset
<1> QED BY <1>1, <1>3 DEF Counted

(* A step with a call, that was not made before, keeps the count.          *)
LEMMA CountCall ==
  ASSUME Counted, unique' = unique + 1, unique \in Nat,
         NEW c \in Aid, NEW r \in Rows, NEW n \in 1 .. 3, ~Did(c, r, n), Did(c, r, n)',
         \A a \in Aid, row \in Rows, k \in 1 .. 3 : Did(a, row, k) => Did(a, row, k)'
  PROVE  Counted'
<1> DEFINE id == <<c, <<r, n>>>>
<1>1. IsFiniteSet(Made) /\ IsFiniteSet(Made)' /\ Cardinality(Made) \in Nat
      /\ Cardinality(Made)' \in Nat
  <2>1. IsFiniteSet(Made) /\ Cardinality(Made) \in Nat
    BY MadeFinite
  <2>2. (IsFiniteSet(Made) /\ Cardinality(Made) \in Nat)'
    BY MadeFinite, PTL
  <2> QED BY <2>1, <2>2
<1>2. Made \cup {id} \subseteq Made' /\ id \notin Made
  BY DEF Made, CallIds
<1>3. /\ Cardinality(Made \cup {id}) = Cardinality(Made) + 1 /\ IsFiniteSet(Made \cup {id})
  BY <1>1, <1>2, FS_AddElement
<1>4. Cardinality(Made \cup {id}) <= Cardinality(Made')
  BY <1>1, <1>2, FS_Subset
<1> QED BY <1>1, <1>3, <1>4 DEF Counted

----------------------------------------------------------------------------
(* What a switch does to the programs.                                     *)

(* The answer that a request is due.                                       *)
Due(q) == CASE q.op = "ns_get_reference"  -> M("reference", q.n)
            [] q.op = "ns_get_identifier" -> M("identifier", q.n)
            [] q.op = "mmap"              -> M("addr", 0)
            [] OTHER                      -> M("done", 0)

(* AnswersMatch is about the answers that are due.                         *)
LEMMA Matching ==
  AnswersMatch <=> \A a \in Aid : asked[a] # ZERO /\ sched_status[a] = "runnable" =>
                                    frame[a].v0 = Due(asked[a])
BY DEF AnswersMatch, Due

(* b takes the place of c in the run queue.                                *)
TakesSlot(c, b) ==
  /\ rq'.end = rq.end /\ rq'.idx = rq.idx
  /\ rq'.squeue_a[rq.aqueue[c]] = b
  /\ \A i \in 0 .. rq.end - 1 : i # rq.aqueue[c] => rq'.squeue_a[i] = rq.squeue_a[i]

(* A call or a return moves the turn in the run queue with it.             *)
LEMMA OrderMoves ==
  ASSUME KSide, NEW c \in Aid, c = curr, NEW s \in Aid, curr' = s, TakesSlot(c, s),
         NEW b \in Aid, Order(b),
         be' <= 3 + Daemons \/ ~AllUp' =>
           /\ be <= 3 + Daemons \/ ~AllUp
           /\ b = init => Room' = Room /\ (be <= 3 + Daemons => be' <= 3 + Daemons)
           /\ b # init => UNCHANGED <<be, naps>> /\ pc'[init] = pc[init]
  PROVE  Order(b)'
<1> SUFFICES ASSUME be' <= 3 + Daemons \/ ~AllUp'
             PROVE  (IF b = init THEN InitFirst ELSE OtherFirst(b))'
  BY DEF Order
<1>1. /\ IF b = init THEN InitFirst ELSE OtherFirst(b)
      /\ b = init => Room' = Room /\ (be <= 3 + Daemons => be' <= 3 + Daemons)
      /\ b # init => UNCHANGED <<be, naps>> /\ pc'[init] = pc[init]
  BY DEF Order
<1>2. /\ c \in Active(sched_status) /\ Lists(rq, Active(sched_status)) /\ rq \in RunQueues
      /\ Active(sched_status) \in SUBSET Aid
  BY KSideFacts DEF Active
<1>3. rq.aqueue[c] \in 0 .. rq.end - 1 /\ rq.squeue_a[rq.aqueue[c]] = c /\ rq.end > 0
      /\ rq.end \in Nat
  <2>1. rq.end \in 0 .. MAX_ACTIVATIONS
    BY <1>2 DEF RunQueues
  <2>2. rq.aqueue[c] \in 0 .. rq.end - 1 /\ rq.squeue_a[rq.aqueue[c]] = c /\ rq.end > 0
    BY <1>2, ListedSlot
  <2> QED BY <2>1, <2>2, MaxActivationsAssumption
<1>4. \A i \in 0 .. rq.end - 1 : rq.squeue_a[i] = c => rq.aqueue[c] = i
  BY <1>2 DEF Lists
<1>5. CASE b = init
  <2>1. rq.idx = 0 /\ rq.squeue_a[0] = c /\ rq.end <= Room /\ be <= 3 + Daemons
    BY <1>1, <1>5 DEF InitFirst
  <2>2. rq.aqueue[c] = 0
    BY <2>1, <1>3, <1>4
  <2>3. rq'.idx = 0 /\ rq'.squeue_a[0] = s /\ rq'.end <= Room' /\ be' <= 3 + Daemons
    BY <2>1, <2>2, <1>1, <1>5 DEF TakesSlot
  <2> QED BY <2>3, <1>5 DEF InitFirst
<1>6. CASE b # init
  <2>1. rq.idx \in 1 .. rq.end - 1 /\ rq.squeue_a[0] = init /\ rq.squeue_a[rq.idx] = c
    BY <1>1, <1>6 DEF OtherFirst
  <2>2. rq.aqueue[c] = rq.idx /\ 0 \in 0 .. rq.end - 1 /\ 0 # rq.idx
    BY <2>1, <1>3, <1>4
  <2>3. rq'.end = rq.end /\ rq'.idx = rq.idx /\ rq'.squeue_a[0] = init /\ rq'.squeue_a[rq.idx] = s
    BY <2>1, <2>2 DEF TakesSlot
  <2> QED BY <2>1, <2>3, <1>1, <1>6 DEF OtherFirst, Fenced
<1> QED BY <1>5, <1>6

(* A call of a service that waits for one.                                 *)
LEMMA CallLive ==
  ASSUME KSide, UType, Alive, Tokens, AnswersMatch, Counted, CallBound < REPLY_MOD,
         NEW c \in Aid, c = curr, Calm({c}), pc[c] # "exited", pc[memmgt] # "register_ns",
         NEW s \in Services, s # c, pc[s] = "msg_entry",
         NEW m \in Arg, CallTo(s, m),
         NEW w \in Places \ {"exited"}, pc' = [pc EXCEPT ![c] = w],
         UNCHANGED sync_token, \A a \in Aid : Started(a)' <=> Started(a)
  PROVE  /\ KSide' /\ Alive' /\ Tokens' /\ AnswersMatch'
         /\ unique' = unique + 1 /\ UNCHANGED <<kernel_next_act, status>>
         /\ curr' = s /\ asked' = [asked EXCEPT ![c] = m]
         /\ sched_status' = [sched_status EXCEPT ![c] = "sync_block", ![s] = "runnable"]
         /\ Calm({c, s})' /\ Delivered(c, s)' /\ TakesSlot(c, s)
<1>1. /\ panic = "no" /\ KernelOK(Now) /\ c # 0 /\ sched_status[c] = "runnable"
      /\ kernel_curr_act = c
      /\ status \in [Aid -> Status] /\ sched_status \in [Aid -> SchedStatus]
      /\ expected_reply \in [Aid -> 0 .. UNIQUE_MOD - 1] /\ frame \in [Aid -> Msg]
      /\ rq \in RunQueues /\ kernel_next_act \in 0 .. MAX_ACTIVATIONS /\ unique \in Nat
  BY KSideFacts DEF curr
<1>2. /\ pc \in [Aid -> Places] /\ sync_token \in [Aid -> Token \cup {NULL}]
      /\ asked \in [Aid -> Arg \cup {ZERO}]
  BY DEF UType
<1>3. next_unique = unique + 1 /\ unique + 1 \in 0 .. UNIQUE_MOD - 1
  BY NoWrap
<1>4. s \in Aid /\ s # 0 /\ s # init /\ s \notin UserIds
  BY Kinds
<1>5. sched_status[s] = "waiting" /\ asked[s] = ZERO
  <2>1. Resting(s)
    BY <1>4 DEF Calm
  <2> QED BY <2>1, <1>4 DEF Resting, Rests
<1>6. ccall_sync(s, TRUE, m) /\ asked' = [asked EXCEPT ![c] = m]
  BY <1>4 DEF CallTo, curr
<1>7. /\ panic' = "no" /\ kernel_curr_act' = s /\ KernelOK(Next_s)
      /\ sched_status' = [sched_status EXCEPT ![c] = "sync_block", ![s] = "runnable"]
      /\ frame' = [frame EXCEPT ![c] = [v0 |-> m, c1 |-> NULL],
                                ![s] = [v0 |-> m, c1 |-> [aid |-> c, unique |-> unique + 1]]]
      /\ unique' = unique + 1
      /\ expected_reply' = [expected_reply EXCEPT ![c] = unique + 1]
      /\ UNCHANGED <<status, kernel_next_act>> /\ TakesSlot(c, s)
  <2>1. s \in Aid \ {0} /\ next_unique \in 0 .. UNIQUE_MOD - 1
    BY <1>3, <1>4
  <2>2. /\ panic' = "no" /\ kernel_curr_act' = s /\ KernelOK(Next_s)
        /\ sched_status' = [sched_status EXCEPT ![kernel_curr_act] = "sync_block",
                                                ![s] = "runnable"]
        /\ frame' = [frame EXCEPT ![kernel_curr_act] = [v0 |-> m, c1 |-> NULL],
               ![s] = [v0 |-> m, c1 |-> [aid |-> kernel_curr_act, unique |-> next_unique]]]
        /\ unique' = next_unique
        /\ expected_reply' = [expected_reply EXCEPT ![kernel_curr_act] = next_unique]
        /\ UNCHANGED <<status, kernel_next_act>>
        /\ rq'.end = rq.end /\ rq'.idx = rq.idx
        /\ rq'.squeue_a[rq.aqueue[kernel_curr_act]] = s
        /\ \A i \in 0 .. rq.end - 1 :
             i # rq.aqueue[kernel_curr_act] => rq'.squeue_a[i] = rq.squeue_a[i]
    <3>1. KernelOK(Now) /\ panic = "no" /\ kernel_curr_act \in Aid
          /\ sched_status[kernel_curr_act] = "runnable" /\ sched_status[s] = "waiting"
          /\ ccall_sync(s, TRUE, m)
      BY <1>1, <1>5, <1>6
    <3> QED BY <2>1, <3>1, CallSwitches
  <2> QED BY <2>2, <1>1, <1>3 DEF TakesSlot
<1>8. KSide'
  <2>1. expected_reply' \in [Aid -> 0 .. UNIQUE_MOD - 1] /\ sched_status'[s] = "runnable"
    BY <1>1, <1>3, <1>4, <1>7
  <2> QED BY <2>1, <1>1, <1>3, <1>4, <1>7, KSideNext
<1>9. Alive'
  <2>1. \A a \in Aid : pc'[a] = "exited" <=> pc[a] = "exited"
    BY <1>2
  <2> QED BY <2>1, <1>7 DEF Alive
<1>10. \A a \in Aid \ {c, s} :
         /\ sched_status'[a] = sched_status[a] /\ pc'[a] = pc[a] /\ asked'[a] = asked[a]
         /\ frame'[a] = frame[a] /\ expected_reply'[a] = expected_reply[a]
  BY <1>1, <1>2, <1>6, <1>7
<1>11. /\ sched_status'[c] = "sync_block" /\ sched_status'[s] = "runnable"
       /\ pc'[s] = pc[s] /\ asked'[s] = ZERO /\ asked'[c] = m
       /\ frame'[s] = [v0 |-> m, c1 |-> [aid |-> c, unique |-> unique + 1]]
       /\ expected_reply'[c] = unique + 1 /\ expected_reply'[s] = expected_reply[s]
  BY <1>1, <1>2, <1>4, <1>5, <1>6, <1>7
<1>12. Tokens'
  <2>1. \A a \in Aid : expected_reply[a] \in Nat /\ expected_reply[a] <= unique
    BY <1>1, ModAssumption DEF Tokens
  <2>2. \A a \in Aid : expected_reply'[a] <= unique'
    BY <2>1, <1>1, <1>7, <1>10, <1>11
  <2>3. ASSUME NEW r \in Aid, sync_token[r] # NULL
        PROVE  /\ sync_token[r].unique <= unique'
               /\ ~(sched_status'[sync_token[r].aid] = "sync_block"
                      /\ sync_token[r] = tok(sync_token[r].aid)')
    <3>1. sync_token[r] \in Token
      BY <2>3, <1>2
    <3>2. /\ sync_token[r].aid \in Aid /\ sync_token[r].unique \in Nat
          /\ sync_token[r].unique <= unique
          /\ ~(sched_status[sync_token[r].aid] = "sync_block"
                 /\ sync_token[r] = tok(sync_token[r].aid))
      BY <2>3, <3>1, ModAssumption DEF Token, Tokens
    <3>3. CASE sync_token[r].aid = c
      <4>1. sync_token[r].unique # unique + 1
        BY <3>2, <1>1
      <4> QED BY <4>1, <3>2, <3>3, <1>1, <1>7, <1>11 DEF tok
    <3>4. CASE sync_token[r].aid = s
      BY <3>2, <3>4, <1>1, <1>7, <1>11
    <3>5. CASE sync_token[r].aid \notin {c, s}
      BY <3>2, <3>5, <1>1, <1>7, <1>10 DEF tok
    <3> QED BY <3>3, <3>4, <3>5
  <2>4. sync_token' = sync_token
    OBVIOUS
  <2> QED BY <2>2, <2>3, <2>4 DEF Tokens, tok
<1>13. AnswersMatch'
  <2>1. ASSUME NEW a \in Aid, asked'[a] # ZERO, sched_status'[a] = "runnable"
        PROVE  frame'[a].v0 = Due(asked'[a])
    <3>1. a \notin {c, s}
      BY <2>1, <1>11
    <3> QED BY <2>1, <3>1, <1>10, Matching
  <2> QED BY <2>1 DEF AnswersMatch, Due
<1>14. Calm({c, s})'
  <2>1. ASSUME NEW a \in Aid \ {0, c, s} PROVE Resting(a)'
    <3>1. Resting(a)
      BY DEF Calm
    <3> QED BY <3>1, <1>10 DEF Resting, Rests
  <2> QED BY <2>1 DEF Calm
<1>15. Delivered(c, s)'
  BY <1>7, <1>11 DEF Delivered, tok, curr
<1> QED BY <1>6, <1>7, <1>8, <1>9, <1>12, <1>13, <1>14, <1>15 DEF curr

(* An answer to the caller x of the running service s.                     *)
LEMMA ReturnLive ==
  ASSUME KSide, UType, Alive, Tokens, AnswersMatch, Counted, CallBound < REPLY_MOD,
         NEW s \in Services, s = curr, pc[s] # "exited",
         s = memmgt \/ pc[memmgt] # "register_ns",
         NEW x \in Aid \ {0}, sched_status[x] = "sync_block", AtTop(x), Calm({x, s}),
         NEW ans \in Arg, ans = Due(asked[x]), CReturn(tok(x), ans),
         pc' = [pc EXCEPT ![s] = "msg_entry"], \A a \in Aid : Started(a)' <=> Started(a)
  PROVE  /\ KSide' /\ Alive' /\ Tokens' /\ AnswersMatch'
         /\ UNCHANGED <<unique, kernel_next_act>>
         /\ curr' = x /\ x # s /\ asked' = [asked EXCEPT ![s] = ZERO]
         /\ sched_status' = [sched_status EXCEPT ![x] = "runnable", ![s] = "waiting"]
         /\ sync_token' = [sync_token EXCEPT ![s] = tok(x)]
         /\ Own' /\ TakesSlot(s, x)
<1>1. /\ panic = "no" /\ KernelOK(Now) /\ s # 0 /\ sched_status[s] = "runnable"
      /\ kernel_curr_act = s /\ s \in Aid /\ x \in Aid /\ x # 0
      /\ status \in [Aid -> Status] /\ sched_status \in [Aid -> SchedStatus]
      /\ expected_reply \in [Aid -> 0 .. UNIQUE_MOD - 1] /\ frame \in [Aid -> Msg]
      /\ rq \in RunQueues /\ kernel_next_act \in 0 .. MAX_ACTIVATIONS /\ unique \in Nat
      /\ unique \in 0 .. UNIQUE_MOD - 1
  BY KSideFacts DEF curr
<1>2. /\ pc \in [Aid -> Places] /\ sync_token \in [Aid -> Token \cup {NULL}]
      /\ asked \in [Aid -> Arg \cup {ZERO}]
  BY DEF UType
<1>3. tok(x) \in Token /\ tok(x) # NULL /\ tok(x).aid = x /\ tok(x).unique <= unique
  BY <1>1, NullAssumption DEF tok, Token, Tokens
<1>4. Expected(tok(x))
  <2>1. expected_reply[x] \in Nat /\ expected_reply[x] < REPLY_MOD /\ REPLY_MOD \in Nat
    <3>1. unique < REPLY_MOD /\ REPLY_MOD \in Nat
      BY NoWrap
    <3>2. expected_reply[x] \in Nat /\ expected_reply[x] <= unique
      BY <1>1, ModAssumption DEF Tokens
    <3> QED BY <3>1, <3>2, <1>1
  <2>2. expected_reply[x] % REPLY_MOD = expected_reply[x]
    BY <2>1
  <2> QED BY <2>2 DEF Expected, tok
<1>5. /\ sync_token' = [sync_token EXCEPT ![s] = tok(x)] /\ creturn_sync(tok(x), ans)
      /\ asked' = [asked EXCEPT ![s] = ZERO]
  BY <1>1, <1>3 DEF CReturn, curr
<1>6. /\ panic' = "no" /\ kernel_curr_act' = x /\ x # s /\ KernelOK(Next_s)
      /\ sched_status' = [sched_status EXCEPT ![x] = "runnable", ![s] = "waiting"]
      /\ frame'[x].v0 = ans /\ \A a \in Aid \ {x, s} : frame'[a] = frame[a]
      /\ UNCHANGED <<status, expected_reply, kernel_next_act, unique>> /\ TakesSlot(s, x)
  BY <1>1, <1>3, <1>4, <1>5, ReturnSwitches DEF TakesSlot
<1>7. KSide'
  <2>1. sched_status'[x] = "runnable"
    BY <1>1, <1>6
  <2> QED BY <2>1, <1>1, <1>6, KSideNext
<1>8. Alive'
  <2>1. \A a \in Aid : pc'[a] = "exited" <=> pc[a] = "exited"
    BY <1>1, <1>2
  <2> QED BY <2>1, <1>6 DEF Alive
<1>9. \A a \in Aid \ {x, s} :
        /\ sched_status'[a] = sched_status[a] /\ pc'[a] = pc[a] /\ asked'[a] = asked[a]
  BY <1>1, <1>2, <1>5, <1>6
<1>10. /\ sched_status'[x] = "runnable" /\ sched_status'[s] = "waiting"
       /\ pc'[s] = "msg_entry" /\ pc'[x] = pc[x] /\ asked'[s] = ZERO /\ asked'[x] = asked[x]
  BY <1>1, <1>2, <1>5, <1>6
<1>11. Tokens'
  <2>1. \A a \in Aid : expected_reply'[a] <= unique'
    BY <1>6 DEF Tokens
  <2>2. ASSUME NEW r \in Aid, sync_token'[r] # NULL
        PROVE  /\ sync_token'[r].unique <= unique
               /\ ~(sched_status'[sync_token'[r].aid] = "sync_block"
                      /\ sync_token'[r] = tok(sync_token'[r].aid))
    <3>1. CASE r = s
      BY <3>1, <1>1, <1>2, <1>3, <1>5, <1>10
    <3>2. CASE r # s
      <4>1. sync_token'[r] = sync_token[r] /\ sync_token[r] \in Token
        BY <2>2, <3>2, <1>1, <1>2, <1>5
      <4>2. /\ sync_token[r].aid \in Aid /\ sync_token[r].unique <= unique
            /\ ~(sched_status[sync_token[r].aid] = "sync_block"
                   /\ sync_token[r] = tok(sync_token[r].aid))
        BY <2>2, <3>2, <4>1, Kinds DEF Token, Tokens
      <4> QED BY <4>1, <4>2, <1>9, <1>10
    <3> QED BY <3>1, <3>2
  <2> QED BY <2>1, <2>2, <1>6 DEF Tokens, tok
<1>12. AnswersMatch'
  <2>1. ASSUME NEW a \in Aid, asked'[a] # ZERO, sched_status'[a] = "runnable"
        PROVE  frame'[a].v0 = Due(asked'[a])
    <3>1. CASE a = x
      BY <3>1, <1>6, <1>10
    <3>2. CASE a # x
      <4>1. a # s
        BY <2>1, <1>10
      <4> QED BY <2>1, <3>2, <4>1, <1>6, <1>9, Matching
    <3> QED BY <3>1, <3>2
  <2> QED BY <2>1 DEF AnswersMatch, Due
<1>13. Own'
  <2>1. ASSUME NEW a \in Aid \ {0, x} PROVE Resting(a)'
    <3>1. CASE a = s
      BY <3>1, <1>10 DEF Resting, Rests
    <3>2. CASE a # s
      <4>1. Resting(a)
        BY <3>2 DEF Calm
      <4> QED BY <4>1, <3>2, <1>9 DEF Resting, Rests
    <3> QED BY <3>1, <3>2
  <2>2. Calm({x})'
    BY <2>1 DEF Calm
  <2>3. AtTop(x)'
    BY <1>10 DEF AtTop, Top
  <2> QED BY <2>2, <2>3, <1>6 DEF Own, curr
<1> QED BY <1>5, <1>6, <1>7, <1>8, <1>11, <1>12, <1>13 DEF curr

(* The next slot of the run queue q decides.                               *)
NextSlot(q) == /\ q.end > 0
               /\ rq' = [q EXCEPT !.idx = (q.idx + 1) % q.end]
               /\ kernel_curr_act' = q.squeue_a[(q.idx + 1) % q.end]

(* A step that saves no token and calls nobody keeps Tokens.               *)
LEMMA TokensKeep ==
  ASSUME Tokens, UType, UType', UNCHANGED <<expected_reply, unique>>,
         \A a \in Aid : sched_status'[a] = "sync_block" => sched_status[a] = "sync_block",
         \A s \in Aid : sync_token'[s] \in {sync_token[s], NULL},
         pc[memmgt] = "register_ns" => pc'[memmgt] = "register_ns"
  PROVE  Tokens'
<1>1. \A a \in Aid : expected_reply'[a] <= unique'
  BY DEF Tokens
<1>2. ASSUME NEW r \in Aid, sync_token'[r] # NULL
      PROVE  /\ sync_token'[r].unique <= unique'
             /\ sched_status'[sync_token'[r].aid] = "sync_block"
                  /\ sync_token'[r] = [aid |-> sync_token'[r].aid,
                                       unique |-> expected_reply'[sync_token'[r].aid]]
                => r = memmgt /\ pc'[memmgt] = "register_ns"
  <2>1. sync_token'[r] = sync_token[r] /\ sync_token[r] # NULL /\ sync_token[r] \in Token
    BY <1>2 DEF UType
  <2>2. sync_token[r].aid \in Aid
    BY <2>1 DEF Token
  <2> QED BY <2>1, <2>2 DEF Tokens, tok
<1> QED BY <1>1, <1>2 DEF Tokens, tok

(* When everyone is at rest in the handler's state t, the one picked runs  *)
(* on its own.                                                             *)
LEMMA PickLive ==
  ASSUME KSide, NEW t, t.st \in [Aid -> SchedStatus], t.fr \in [Aid -> Msg], Picked(t),
         t.st[0] = "terminated",
         \A a \in Aid \ {0} : Rests(a, t.st[a], pc'[a], asked'[a], Started(a)'),
         \A a \in Aid : asked'[a] # ZERO /\ t.st[a] = "runnable" => t.fr[a].v0 = Due(asked'[a]),
         status' \in [Aid -> Status], UNCHANGED <<expected_reply, kernel_next_act, unique>>
  PROVE  /\ KSide' /\ Own' /\ AnswersMatch' /\ NextSlot(t.rq) /\ curr' \in Aid \ {0}
         /\ t.st[curr'] \in {"runnable", "schedulable"}
         /\ sched_status' = [t.st EXCEPT ![curr'] = "runnable"]
<1>1. PICK act \in Active(t.st) :
         /\ kernel_curr_act' = act /\ panic' = "no"
         /\ t.rq.end > 0
         /\ rq' = [t.rq EXCEPT !.idx = (t.rq.idx + 1) % t.rq.end]
         /\ t.rq.squeue_a[(t.rq.idx + 1) % t.rq.end] = act
         /\ sched_status' = [t.st EXCEPT ![act] = "runnable"]
         /\ frame' = IF t.st[act] = "schedulable" THEN [t.fr EXCEPT ![act] = StartMsg] ELSE t.fr
         /\ KernelOK(Next_s)
  BY DEF Picked
<1>2. act \in Aid /\ act # 0 /\ t.st[act] \in {"runnable", "schedulable"}
  BY DEF Active
<1>3. \A a \in Aid \ {act} : sched_status'[a] = t.st[a]
  BY <1>1
<1>4. sched_status'[act] = "runnable" /\ sched_status' = [t.st EXCEPT ![curr'] = "runnable"]
  BY <1>1, <1>2 DEF curr
<1>5. KSide'
  <2>1. /\ expected_reply' \in [Aid -> 0 .. UNIQUE_MOD - 1] /\ unique' \in 0 .. UNIQUE_MOD - 1
        /\ kernel_next_act' \in 0 .. MAX_ACTIVATIONS
    BY KSideFacts
  <2> QED BY <1>1, <1>2, <1>4, <2>1, KSideNext
<1>6. Top(act, pc'[act], asked'[act], Started(act)')
      /\ (t.st[act] = "schedulable" => asked'[act] = ZERO)
  <2>1. Rests(act, t.st[act], pc'[act], asked'[act], Started(act)')
    BY <1>2
  <2>2. act > init => act \in Services \/ act \in UserIds
    BY <1>2, Kinds, Ids
  <2> QED BY <1>2, <2>1, <2>2 DEF Rests, Top
<1>7. Own'
  <2>1. AtTop(act)'
    BY <1>6 DEF AtTop, Top
  <2>2. ASSUME NEW a \in Aid \ {0, act} PROVE Resting(a)'
    <3>1. Rests(a, t.st[a], pc'[a], asked'[a], Started(a)') /\ sched_status'[a] = t.st[a]
      BY <1>3
    <3> QED BY <3>1 DEF Resting, Rests
  <2> QED BY <1>1, <2>1, <2>2 DEF Own, Calm, curr
<1>8. AnswersMatch'
  <2>1. ASSUME NEW a \in Aid, asked'[a] # ZERO, sched_status'[a] = "runnable"
        PROVE  frame'[a].v0 = Due(asked'[a])
    <3>1. t.st[a] = "runnable"
      BY <2>1, <1>2, <1>3, <1>6
    <3>2. frame'[a] = t.fr[a]
      BY <3>1, <1>1
    <3> QED BY <2>1, <3>1, <3>2
  <2> QED BY <2>1 DEF AnswersMatch, Due
<1> QED BY <1>1, <1>2, <1>4, <1>5, <1>7, <1>8 DEF NextSlot, curr

(* A service goes to wait for a message, and owes nobody an answer.        *)
LEMMA WaitLive ==
  ASSUME KSide, UType, UType', Alive, Tokens, AnswersMatch,
         NEW s \in Services, s = curr, Calm({s}), pc[s] # "exited", pc[memmgt] # "register_ns",
         NEW ans \in Arg, creturn_null(ans), asked' = [asked EXCEPT ![s] = ZERO],
         pc' = [pc EXCEPT ![s] = "msg_entry"],
         \A r \in Aid : sync_token'[r] \in {sync_token[r], NULL},
         \A a \in Aid : Started(a)' <=> Started(a)
  PROVE  /\ KSide' /\ Own' /\ AnswersMatch' /\ Alive' /\ Tokens'
         /\ NextSlot(QDEL(rq, s)) /\ curr' \in Aid \ {0, s}
         /\ sched_status[curr'] \in {"runnable", "schedulable"}
         /\ sched_status' = [sched_status EXCEPT ![s] = "waiting", ![curr'] = "runnable"]
         /\ UNCHANGED <<unique, kernel_next_act>>
<1> DEFINE t == Left(Enter(ans), s, "waiting")
<1>1. /\ panic = "no" /\ KernelOK(Now) /\ s # 0 /\ sched_status[s] = "runnable"
      /\ kernel_curr_act = s /\ s \in Aid
      /\ status \in [Aid -> Status] /\ sched_status \in [Aid -> SchedStatus]
      /\ frame \in [Aid -> Msg] /\ rq \in RunQueues /\ sched_status[0] = "terminated"
  BY KSideFacts, Kinds DEF curr
<1>2. pc \in [Aid -> Places] /\ asked \in [Aid -> Arg \cup {ZERO}]
  BY DEF UType
<1>3. init \in Active(sched_status) /\ init # s
  <2>1. Resting(init) /\ init # s /\ init \in Aid
    BY Kinds, Ids DEF Calm
  <2>2. sched_status[init] = "runnable"
    BY <2>1, Kinds, Ids DEF Resting, Rests
  <2> QED BY <2>1, <2>2 DEF Active
<1>4. Picked(t) /\ UNCHANGED <<status, expected_reply, kernel_next_act, unique>>
  BY <1>1, <1>3, WaitPicks
<1>5. /\ t.st = [sched_status EXCEPT ![s] = "waiting"] /\ t.rq = QDEL(rq, s)
      /\ t.fr = [frame EXCEPT ![s] = [v0 |-> ans, c1 |-> NULL]]
  BY <1>1 DEF Left, Enter
<1> HIDE DEF t
<1>6. \A a \in Aid \ {s} :
        /\ t.st[a] = sched_status[a] /\ pc'[a] = pc[a] /\ asked'[a] = asked[a] /\ t.fr[a] = frame[a]
  BY <1>1, <1>2, <1>5
<1>7. t.st[s] = "waiting" /\ pc'[s] = "msg_entry" /\ asked'[s] = ZERO
  BY <1>1, <1>2, <1>5
<1>8. t.st \in [Aid -> SchedStatus] /\ t.fr \in [Aid -> Msg] /\ t.st[0] = "terminated"
  BY <1>1, <1>5 DEF SchedStatus, Msg
<1>9. ASSUME NEW a \in Aid \ {0} PROVE Rests(a, t.st[a], pc'[a], asked'[a], Started(a)')
  <2>1. CASE a = s
    BY <2>1, <1>7 DEF Rests
  <2>2. CASE a # s
    <3>1. Resting(a)
      BY <2>2 DEF Calm
    <3> QED BY <2>2, <3>1, <1>6 DEF Resting, Rests
  <2> QED BY <2>1, <2>2
<1>10. \A a \in Aid : asked'[a] # ZERO /\ t.st[a] = "runnable" => t.fr[a].v0 = Due(asked'[a])
  BY <1>6, <1>7, Matching
<1>11. /\ KSide' /\ Own' /\ AnswersMatch' /\ NextSlot(t.rq) /\ curr' \in Aid \ {0}
       /\ t.st[curr'] \in {"runnable", "schedulable"}
       /\ sched_status' = [t.st EXCEPT ![curr'] = "runnable"]
  BY <1>1, <1>4, <1>8, <1>9, <1>10, PickLive
<1>12. curr' # s
  <2>1. AtTop(curr)' /\ s \in Services /\ s # init /\ s \notin UserIds
    BY <1>11, Kinds DEF Own
  <2> QED BY <2>1, <1>7 DEF AtTop, Top, Services
<1>13. sched_status' = [sched_status EXCEPT ![s] = "waiting", ![curr'] = "runnable"]
  BY <1>5, <1>11
<1>16. sched_status[curr'] \in {"runnable", "schedulable"}
  BY <1>1, <1>5, <1>11, <1>12
<1>14. Alive'
  <2>1. \A a \in Aid : pc'[a] = "exited" <=> pc[a] = "exited"
    BY <1>1, <1>2
  <2> QED BY <2>1, <1>4 DEF Alive
<1>15. Tokens'
  <2>1. \A a \in Aid : sched_status'[a] = "sync_block" => sched_status[a] = "sync_block"
    BY <1>1, <1>11, <1>13
  <2> QED BY <2>1, <1>4, TokensKeep
<1> QED BY <1>4, <1>5, <1>11, <1>12, <1>13, <1>14, <1>15, <1>16

(* init or a user program yields.                                          *)
LEMMA SleepLive ==
  ASSUME KSide, UType, UType', Alive, Tokens, AnswersMatch,
         NEW c \in Aid, c = curr, Calm({c}), pc[c] # "exited", pc[memmgt] # "register_ns",
         syscall_sleep, UNCHANGED <<asked, sync_token>>,
         NEW w \in Places \ {"exited", "register_ns"}, pc' = [pc EXCEPT ![c] = w],
         c = init \/ (c \in UserIds /\ w = "main" /\ Started(c)),
         \A a \in Aid : Started(a)' <=> Started(a)
  PROVE  /\ KSide' /\ Own' /\ AnswersMatch' /\ Alive' /\ Tokens'
         /\ NextSlot(rq) /\ curr' \in Aid \ {0}
         /\ sched_status[curr'] \in {"runnable", "schedulable"}
         /\ sched_status' = [sched_status EXCEPT ![curr'] = "runnable"]
         /\ UNCHANGED <<unique, kernel_next_act>>
<1>1. /\ panic = "no" /\ KernelOK(Now) /\ c # 0 /\ sched_status[c] = "runnable"
      /\ status \in [Aid -> Status] /\ sched_status \in [Aid -> SchedStatus]
      /\ frame \in [Aid -> Msg] /\ rq \in RunQueues /\ sched_status[0] = "terminated"
  BY KSideFacts
<1>2. pc \in [Aid -> Places] /\ asked \in [Aid -> Arg \cup {ZERO}]
  BY DEF UType
<1>3. Now.st = sched_status /\ Now.rq = rq /\ Now.fr = frame
  BY DEF Now
<1>4. Picked(Now) /\ UNCHANGED <<status, expected_reply, kernel_next_act, unique>>
  <2>1. Active(Now.st) # {}
    BY <1>1, <1>3 DEF Active
  <2> QED BY <2>1, <1>1, PicksNext, Ids DEF syscall_sleep
<1>5. ASSUME NEW a \in Aid \ {0}
      PROVE  Rests(a, sched_status[a], pc'[a], asked'[a], Started(a)')
  <2>1. CASE a = c
    BY <2>1, <1>1, <1>2 DEF Rests
  <2>2. CASE a # c
    <3>1. Resting(a)
      BY <2>2 DEF Calm
    <3> QED BY <2>2, <3>1, <1>2 DEF Resting, Rests
  <2> QED BY <2>1, <2>2
<1>6. \A a \in Aid : asked'[a] # ZERO /\ sched_status[a] = "runnable"
                       => frame[a].v0 = Due(asked'[a])
  BY Matching
<1>7. /\ KSide' /\ Own' /\ AnswersMatch' /\ NextSlot(rq) /\ curr' \in Aid \ {0}
      /\ sched_status[curr'] \in {"runnable", "schedulable"}
      /\ sched_status' = [sched_status EXCEPT ![curr'] = "runnable"]
  <2>1. /\ KSide' /\ Own' /\ AnswersMatch' /\ NextSlot(Now.rq) /\ curr' \in Aid \ {0}
        /\ sched_status[curr'] \in {"runnable", "schedulable"}
        /\ sched_status' = [Now.st EXCEPT ![curr'] = "runnable"]
    BY <1>1, <1>3, <1>4, <1>5, <1>6, PickLive
  <2> QED BY <2>1, <1>3
<1>8. Alive'
  <2>1. \A a \in Aid : pc'[a] = "exited" <=> pc[a] = "exited"
    BY <1>1, <1>2
  <2> QED BY <2>1, <1>4 DEF Alive
<1>9. Tokens'
  <2>1. \A a \in Aid : sched_status'[a] = "sync_block" => sched_status[a] = "sync_block"
    BY <1>1, <1>7
  <2>2. \A s \in Aid : sync_token'[s] \in {sync_token[s], NULL}
    OBVIOUS
  <2> QED BY <2>1, <2>2, <1>4, TokensKeep
<1> QED BY <1>4, <1>7, <1>8, <1>9

(* A user program exits.                                                   *)
LEMMA ExitLive ==
  ASSUME KSide, UType, UType', Alive, Tokens, AnswersMatch,
         NEW c \in UserIds, c = curr, Calm({c}), pc[memmgt] # "register_ns",
         act_terminate(c), UNCHANGED <<asked, sync_token>>,
         pc' = [pc EXCEPT ![c] = "exited"],
         \A a \in Aid : Started(a)' <=> Started(a)
  PROVE  /\ KSide' /\ Own' /\ AnswersMatch' /\ Alive' /\ Tokens'
         /\ curr' \in Aid \ {0, c}
         /\ sched_status[curr'] \in {"runnable", "schedulable"}
         /\ sched_status' = [sched_status EXCEPT ![c] = "terminated", ![curr'] = "runnable"]
         /\ UNCHANGED <<unique, kernel_next_act>>
<1> DEFINE t == Left(Now, c, "terminated")
<1>1. /\ panic = "no" /\ KernelOK(Now) /\ c # 0 /\ sched_status[c] = "runnable"
      /\ kernel_curr_act = c /\ c \in Aid
      /\ status \in [Aid -> Status] /\ sched_status \in [Aid -> SchedStatus]
      /\ frame \in [Aid -> Msg] /\ rq \in RunQueues /\ sched_status[0] = "terminated"
  BY KSideFacts, Kinds DEF curr
<1>2. pc \in [Aid -> Places] /\ asked \in [Aid -> Arg \cup {ZERO}]
  BY DEF UType
<1>3. init \in Active(sched_status) /\ init # c
  <2>1. Resting(init) /\ init # c /\ init \in Aid
    BY Kinds, Ids DEF Calm
  <2>2. sched_status[init] = "runnable"
    BY <2>1, Kinds, Ids DEF Resting, Rests
  <2> QED BY <2>1, <2>2 DEF Active
<1>4. /\ Picked(t) /\ status' = [status EXCEPT ![c] = "terminated"]
      /\ UNCHANGED <<expected_reply, kernel_next_act, unique>>
  BY <1>1, <1>3, ExitPicks
<1>5. t.st = [sched_status EXCEPT ![c] = "terminated"] /\ t.rq = QDEL(rq, c) /\ t.fr = frame
  BY DEF Left, Now
<1> HIDE DEF t
<1>6. \A a \in Aid \ {c} : t.st[a] = sched_status[a] /\ pc'[a] = pc[a]
  BY <1>1, <1>2, <1>5
<1>7. t.st[c] = "terminated" /\ pc'[c] = "exited"
  BY <1>1, <1>2, <1>5
<1>8. t.st \in [Aid -> SchedStatus] /\ t.fr \in [Aid -> Msg] /\ t.st[0] = "terminated"
      /\ status' \in [Aid -> Status]
  BY <1>1, <1>4, <1>5 DEF SchedStatus, Status
<1>9. ASSUME NEW a \in Aid \ {0} PROVE Rests(a, t.st[a], pc'[a], asked'[a], Started(a)')
  <2>1. CASE a = c
    BY <2>1, <1>7 DEF Rests
  <2>2. CASE a # c
    <3>1. Resting(a)
      BY <2>2 DEF Calm
    <3> QED BY <2>2, <3>1, <1>6 DEF Resting, Rests
  <2> QED BY <2>1, <2>2
<1>10. \A a \in Aid : asked'[a] # ZERO /\ t.st[a] = "runnable" => t.fr[a].v0 = Due(asked'[a])
  BY <1>5, <1>6, <1>7, Matching
<1>11. /\ KSide' /\ Own' /\ AnswersMatch' /\ curr' \in Aid \ {0}
       /\ t.st[curr'] \in {"runnable", "schedulable"}
       /\ sched_status' = [t.st EXCEPT ![curr'] = "runnable"]
  BY <1>1, <1>4, <1>8, <1>9, <1>10, PickLive
<1>12. curr' # c
  <2>1. AtTop(curr)' /\ c \notin Services /\ c # init
    BY <1>11, Kinds DEF Own
  <2> QED BY <2>1, <1>7 DEF AtTop, Top, Services
<1>13. sched_status' = [sched_status EXCEPT ![c] = "terminated", ![curr'] = "runnable"]
  BY <1>5, <1>11
<1>16. sched_status[curr'] \in {"runnable", "schedulable"}
  BY <1>1, <1>5, <1>11, <1>12
<1>14. Alive'
  <2>1. \A a \in Aid : pc'[a] = "exited" <=> (a = c \/ pc[a] = "exited")
    BY <1>1, <1>2
  <2> QED BY <2>1, <1>1, <1>4 DEF Alive
<1>15. Tokens'
  <2>1. \A a \in Aid : sched_status'[a] = "sync_block" => sched_status[a] = "sync_block"
    BY <1>1, <1>11, <1>13
  <2>2. memmgt # c
    BY Kinds
  <2>3. \A s \in Aid : sync_token'[s] \in {sync_token[s], NULL}
    OBVIOUS
  <2> QED BY <2>1, <2>2, <2>3, <1>4, TokensKeep
<1> QED BY <1>4, <1>11, <1>12, <1>13, <1>14, <1>15, <1>16

----------------------------------------------------------------------------
(* The run queue while programs start.                                     *)

(* When init is alone in it, every program that was started is waiting for *)
(* requests, or done.                                                      *)
InitAlone == KSide /\ Own /\ curr = init /\ rq.end = 1

StartedWait == \A s \in Services : Started(s) => pc[s] = "msg_entry"

(* When init is alone in the run queue every service it started waits.     *)
LEMMA Alone == InitAlone => StartedWait
<1> SUFFICES ASSUME KSide, Own, curr = init, rq.end = 1, NEW s \in Services, Started(s)
             PROVE  pc[s] = "msg_entry"
  BY DEF InitAlone, StartedWait
<1>1. /\ rq \in RunQueues /\ Lists(rq, Active(sched_status)) /\ init \in Active(sched_status)
      /\ sched_status \in [Aid -> SchedStatus] /\ s \in Aid /\ s # init /\ s # 0
  BY KSideFacts, Kinds DEF Active
<1>2. ASSUME NEW a \in Active(sched_status) PROVE rq.aqueue[a] = 0 /\ rq.squeue_a[0] = a
  <2>1. rq.aqueue[a] \in 0 .. rq.end - 1 /\ rq.squeue_a[rq.aqueue[a]] = a
    <3>1. Active(sched_status) \in SUBSET Aid
      BY DEF Active
    <3> QED BY <1>1, <3>1, ListedSlot
  <2> QED BY <2>1
<1>3. s \notin Active(sched_status)
  BY <1>1, <1>2
<1>4. Resting(s) /\ s \notin UserIds
  BY <1>1, Kinds DEF Own, Calm
<1>5. sched_status[s] # "schedulable"
  BY <1>1, <1>3 DEF Active
<1> QED BY <1>1, <1>4, <1>5 DEF Resting, Rests

(* The round-robin position, one past an end.                              *)
LEMMA ModFacts ==
  ASSUME NEW n \in Nat, NEW k \in Nat, k > 0
  PROVE  /\ n < k => n % k = n
         /\ n = k => n % k = 0
         /\ n = k + 1 => n % k = IF k = 1 THEN 0 ELSE 1
<1>1. n < k => n % k = n
  OBVIOUS
<1>2. k % k = 0
  <2>1. k = 1 * k + 0
    OBVIOUS
  <2> QED BY <2>1
<1>3. k > 1 => (k + 1) % k = 1
  OBVIOUS
<1>4. k = 1 => (k + 1) % k = 0
  OBVIOUS
<1> QED BY <1>1, <1>2, <1>3, <1>4

(* A program that was started goes to wait for requests: the next one that *)
(* was started gets its turn, or, after the last, init.                    *)
LEMMA OrderWaits ==
  ASSUME KSide, KSide', Own', UType, LoadOK, LoadOK', NEW s \in Services, s = curr, Order(s),
         NextSlot(QDEL(rq, s)), pc' = [pc EXCEPT ![s] = "msg_entry"], UNCHANGED <<be, naps>>
  PROVE  Order(curr)'
<1>1. /\ s \in Active(sched_status) /\ Lists(rq, Active(sched_status)) /\ rq \in RunQueues
      /\ Active(sched_status) \in SUBSET Aid /\ s \in Aid /\ s # init
      /\ pc \in [Aid -> Places] /\ be \in Nat /\ naps \in 0 .. 3 /\ Daemons \in Nat
  <2>1. pc \in [Aid -> Places] /\ be \in Nat /\ naps \in 0 .. 3 /\ Daemons \in Nat
    BY Ids DEF UType
  <2> QED BY <2>1, KSideFacts, Kinds DEF Active
<1>2. pc'[init] = pc[init] /\ pc'[s] = "msg_entry" /\ \A a \in Aid \ {s} : pc'[a] = pc[a]
  BY <1>1, Ids
<1>3. AllUp => AllUp'
  BY <1>1, <1>2, Kinds DEF AllUp
<1> SUFFICES ASSUME be <= 3 + Daemons \/ ~AllUp'
             PROVE  (IF curr = init THEN InitFirst ELSE OtherFirst(curr))'
  BY DEF Order
<1>4. OtherFirst(s)
  BY <1>1, <1>3 DEF Order
<1> DEFINE e == rq.end
           i == rq.idx
           q == QDEL(rq, s)
           j == (i + 1) % (e - 1)
<1>5. e \in Nat /\ i \in Nat /\ i >= 1 /\ i <= e - 1 /\ e <= MAX_ACTIVATIONS
  <2>1. e \in 0 .. MAX_ACTIVATIONS /\ i \in 1 .. e - 1
    BY <1>1, <1>4 DEF RunQueues, OtherFirst
  <2> QED BY <2>1, MaxActivationsAssumption
<1>6. /\ rq.squeue_a[0] = init /\ rq.squeue_a[i] = s /\ rq.aqueue[s] = i
      /\ rq.aqueue[init] = 0
  <2>1. rq.squeue_a[0] = init /\ rq.squeue_a[i] = s
    BY <1>4 DEF OtherFirst, curr
  <2>2. 0 \in 0 .. e - 1 /\ i \in 0 .. e - 1
    BY <1>5
  <2> QED BY <1>1, <2>1, <2>2 DEF Lists
<1>7. /\ q.end = e - 1 /\ q.idx = i
      /\ q.squeue_a = [rq.squeue_a EXCEPT ![i] = rq.squeue_a[e - 1]]
  BY <1>6 DEF QDEL
<1>8. \A k \in 0 .. e - 1 : k # i => q.squeue_a[k] = rq.squeue_a[k]
  BY <1>7
<1>9. rq' = [q EXCEPT !.idx = j] /\ kernel_curr_act' = q.squeue_a[j]
  BY <1>7 DEF NextSlot
<1>10. rq'.end = e - 1 /\ rq'.idx = j /\ rq'.squeue_a = q.squeue_a /\ rq'.squeue_a[0] = init
  <2>1. rq'.end = q.end /\ rq'.idx = j /\ rq'.squeue_a = q.squeue_a
    BY <1>9 DEF QDEL
  <2> QED BY <2>1, <1>5, <1>6, <1>7, <1>8
<1>11. \/ i + 1 < e - 1 /\ j = i + 1
       \/ i + 1 = e - 1 /\ j = 0
       \/ i = e - 1 /\ i > 1 /\ j = 1
       \/ i = 1 /\ e = 2 /\ j = 0
  <2>1. i + 1 \in Nat /\ e - 1 \in Nat /\ e - 1 > 0
    BY <1>5
  <2>2. /\ i + 1 < e - 1 => j = i + 1
        /\ i + 1 = e - 1 => j = 0
        /\ i + 1 = (e - 1) + 1 => j = IF e - 1 = 1 THEN 0 ELSE 1
    BY <2>1, ModFacts
  <2> HIDE DEF j
  <2> QED BY <2>1, <2>2, <1>5
<1> HIDE DEF q, j
<1>12. pow[0] = 1 /\ pow[1] = 2 /\ pow[2] = 4 /\ pow[3] = 8 /\ pow[naps] \in Nat /\ pow[naps] >= 1
  BY <1>1 DEF pow
<1>13. \/ be <= namespace /\ pc[init] = "nssleep" /\ naps = 2 /\ e = 2
       \/ /\ e + i <= 2 * pow[naps] + 1
          /\ \/ be = 3 + Daemons /\ pc[init] = "nssleep"
             \/ be = 4 + Daemons /\ naps = 0 /\ pc[init] = "load_module"
  BY <1>4 DEF OtherFirst
<1>14. CASE j = 0
  <2>1. kernel_curr_act' = init
    BY <1>9, <1>10, <1>14
  <2>2. e - 1 <= Room'
    <3>1. CASE be <= namespace /\ pc[init] = "nssleep" /\ naps = 2 /\ e = 2
      BY <3>1, <1>1, <1>2, Ids DEF Room
    <3>2. CASE e + i <= 2 * pow[naps] + 1 /\ be = 3 + Daemons /\ pc[init] = "nssleep"
      <4>1. e - 1 <= pow[naps]
        BY <3>2, <1>5, <1>11, <1>12, <1>14
      <4>2. Room' = IF be > namespace THEN pow[naps] ELSE IF naps = 3 THEN 2 ELSE 1
        BY <3>2, <1>2 DEF Room
      <4>3. be > namespace
        BY <3>2, Ids
      <4> QED BY <4>1, <4>2, <4>3
    <3>3. CASE e + i <= 2 * pow[naps] + 1 /\ be = 4 + Daemons /\ naps = 0 /\ pc[init] = "load_module"
      <4>1. e = 2 /\ i = 1
        BY <3>3, <1>5, <1>12
      <4>2. Room' = be - 3 /\ be > 4
        BY <3>3, <1>2, Ids DEF Room
      <4> QED BY <4>1, <4>2, <1>1
    <3> QED BY <1>13, <3>1, <3>2, <3>3
  <2>3. be <= 3 + Daemons
    <3>1. CASE be = 4 + Daemons /\ naps = 0 /\ e + i <= 2 * pow[naps] + 1
      <4>1. e = 2
        BY <3>1, <1>5, <1>12
      <4>2. InitAlone'
        BY <2>1, <4>1, <1>10 DEF curr, InitAlone
      <4>3. StartedWait'
        BY <4>2, Alone, PTL
      <4>4. \A d \in DaemonIds : Started(d)' /\ d \in Services
        BY <3>1, Kinds, ProgramAssumption DEF Started, DaemonIds
      <4>5. AllUp'
        BY <4>3, <4>4 DEF AllUp, StartedWait
      <4> QED BY <4>5
    <3> QED BY <3>1, <1>1, <1>13, Ids
  <2> QED BY <2>1, <2>2, <2>3, <1>10, <1>14 DEF InitFirst, curr
<1>15. CASE j # 0
  <2>1. j \in 1 .. (e - 1) - 1 /\ j # i /\ j \in 0 .. e - 1 /\ (e - 1) + j <= e + i
    BY <1>5, <1>11, <1>15
  <2>2. kernel_curr_act' = rq.squeue_a[j] /\ rq'.squeue_a[j] = kernel_curr_act'
    BY <2>1, <1>8, <1>9, <1>10
  <2>3. kernel_curr_act' # init
    <3>1. rq.aqueue[rq.squeue_a[j]] = j
      BY <2>1, <1>1 DEF Lists
    <3> QED BY <3>1, <2>2, <1>6, <1>15
  <2>4. /\ e + i <= 2 * pow[naps] + 1
        /\ \/ be = 3 + Daemons /\ pc[init] = "nssleep"
           \/ be = 4 + Daemons /\ naps = 0 /\ pc[init] = "load_module"
    <3>1. e # 2
      BY <2>1, <1>5
    <3> QED BY <3>1, <1>13
  <2>5. kernel_curr_act' \in DaemonIds
    <3>1. KSide' /\ AtTop(curr)' /\ curr' = kernel_curr_act'
      BY DEF Own, curr
    <3>2. curr' \in Aid /\ curr' # 0
      <4>1. (curr \in Aid /\ curr # 0)'
        BY KSideFacts, PTL
      <4> QED BY <4>1
    <3>3. curr' \notin UserIds
      <4>1. \A u \in UserIds : ~Started(u)'
        BY <2>4, <1>2, ProgramAssumption, MaxActivationsAssumption DEF Started, UserIds
      <4> QED BY <4>1, <3>1, <2>3, Kinds DEF AtTop, Top
    <3>4. curr' \notin {memmgt, namespace}
      <4>1. pc'[curr'] \notin {"new"} \/ curr' \notin {memmgt, namespace}
        BY <2>4, Ids, ProgramAssumption DEF LoadOK
      <4>2. curr' \in {memmgt, namespace} => pc'[curr'] = "new"
        BY <3>1, <2>3, Kinds DEF AtTop, Top
      <4> QED BY <4>1, <4>2
    <3> QED BY <3>1, <3>2, <3>3, <3>4, <2>3, Kinds DEF Services
  <2>6. (e - 1) + j <= 2 * pow[naps] + 1
    <3>1. j \in Nat
      BY <2>1
    <3> QED BY <2>1, <2>4, <3>1, <1>5, <1>12
  <2>7. OtherFirst(curr)'
    BY <2>1, <2>2, <2>4, <2>5, <2>6, <1>2, <1>10 DEF OtherFirst, curr
  <2> QED BY <2>3, <2>7 DEF curr
<1> QED BY <1>14, <1>15

----------------------------------------------------------------------------
(* What may run in which phase.                                            *)

(* What a live state gives.                                                *)
LEMMA TypeFacts ==
  ASSUME Live
  PROVE  /\ KSide /\ UType /\ LoadOK /\ Phase /\ Bound /\ UserOK /\ Alive /\ Tokens /\ Counted
         /\ AnswersMatch /\ curr \in Aid /\ curr # 0 /\ sched_status[curr] = "runnable"
         /\ pc \in [Aid -> Places] /\ asked \in [Aid -> Arg \cup {ZERO}]
         /\ be \in Nat /\ naps \in 0 .. 3 /\ be <= MAX_ACTIVATIONS
         /\ unique \in Nat /\ frame \in [Aid -> Msg] /\ sched_status \in [Aid -> SchedStatus]
<1>1. KSide /\ UType
  BY DEF Live
<1>2. be \in Nat /\ be <= MAX_ACTIVATIONS
  BY <1>1, MaxActivationsAssumption DEF UType
<1> QED BY <1>1, <1>2, KSideFacts DEF Live, UType

(* While init runs nobody is served.                                       *)
LEMMA InitPhase ==
  ASSUME Live, curr = init
  PROVE  Own /\ Order(init) /\ pc[memmgt] # "register_ns" /\ Calm({init})
<1>1. Phase
  BY DEF Live
<1>2. ASSUME NEW x \in Aid, Called(x) PROVE FALSE
  BY <1>2, Kinds DEF Called, Asks
<1>3. ~Nested /\ ~Back
  BY Kinds DEF Nested, Back, Delivered
<1>4. Own /\ Order(init)
  BY <1>1, <1>2, <1>3 DEF Phase
<1>5. Resting(memmgt)
  BY <1>4, Kinds, Ids DEF Own, Calm
<1> QED BY <1>4, <1>5, Kinds DEF Resting, Rests, Own

(* A user program is started after every daemon has registered.            *)
LEMMA UserStarted ==
  ASSUME LoadOK, be \in Nat, NEW x \in UserIds, Started(x)
  PROVE  be > 4 + Daemons /\ AllUp
<1>1. x \in Nat /\ x >= 4 + Daemons /\ Daemons \in Nat
  BY Ids
<1>2. CASE x < be
  BY <1>1, <1>2 DEF LoadOK
<1>3. CASE x = be /\ pc[init] \in {"nssleep", "glue"}
  <2>1. be \in {memmgt, namespace, 3 + Daemons}
    BY <1>3 DEF LoadOK, Fenced
  <2> QED BY <1>1, <1>3, <2>1, Ids
<1> QED BY <1>2, <1>3 DEF Started

(* While a user program runs every service waits.                          *)
LEMMA UserPhase ==
  ASSUME Live, curr \in UserIds
  PROVE  /\ Own /\ pc[memmgt] # "register_ns" /\ Started(curr) /\ be > 4 + Daemons /\ AllUp
         /\ pc[curr] \in {"new", "main", "_mmap ref", "_mmap id", "ref", "id"}
         /\ \A s \in Services : s # curr /\ Resting(s) /\ pc[s] = "msg_entry"
                                /\ sched_status[s] = "waiting"
         /\ Resting(init) /\ sched_status[init] = "runnable"
<1>1. Phase /\ LoadOK /\ be \in Nat
  BY TypeFacts
<1>2. ASSUME NEW x \in Aid, Called(x) PROVE FALSE
  BY <1>2, Kinds DEF Called, Asks
<1>3. ~Nested /\ ~Back
  BY Kinds DEF Nested, Back, Delivered
<1>4. Own /\ AtTop(curr)
  BY <1>1, <1>2, <1>3 DEF Phase, Own
<1>5. Started(curr) /\ pc[curr] \in {"new", "main", "_mmap ref", "_mmap id", "ref", "id"}
  BY <1>4, Kinds DEF AtTop, Top, Services
<1>6. be > 4 + Daemons
  BY <1>1, <1>5, UserStarted
<1>7. AllUp /\ pc[memmgt] # "new" /\ pc[namespace] # "new"
  BY <1>1, <1>6, Ids DEF LoadOK
<1>8. ASSUME NEW s \in Services
      PROVE  s # curr /\ Resting(s) /\ pc[s] = "msg_entry" /\ sched_status[s] = "waiting"
  <2>1. s # curr /\ s # init /\ s \notin UserIds /\ s \in Aid \ {0, curr}
    BY Kinds
  <2>2. Resting(s)
    BY <1>4, <2>1 DEF Own, Calm
  <2>3. pc[s] # "new"
    BY <1>7 DEF Services, AllUp
  <2> QED BY <2>1, <2>2, <2>3 DEF Resting, Rests
<1>9. Resting(init) /\ sched_status[init] = "runnable"
  <2>1. Resting(init)
    BY <1>4, Kinds, Ids DEF Own, Calm
  <2> QED BY <2>1, Kinds, Ids DEF Resting, Rests
<1>10. pc[memmgt] # "register_ns"
  BY <1>8, Kinds
<1> QED BY <1>4, <1>5, <1>6, <1>7, <1>8, <1>9, <1>10

(* What init has started depends on where init is.                         *)
LEMMA StartedSame ==
  ASSUME be' = be, pc'[init] = pc[init]
  PROVE  \A a \in Aid : Started(a)' <=> Started(a)
BY DEF Started

(* A step that init does not make, and that unregisters no daemon.         *)
LEMMA LoadKeeps ==
  ASSUME LoadOK, UNCHANGED <<be, naps, kernel_next_act>>, pc'[init] = pc[init],
         \A a \in Aid : pc'[a] # "new" /\ a > init => pc[a] # "new" \/ Started(a),
         pc'[memmgt] = "new" => pc[memmgt] = "new",
         pc'[namespace] = "new" => pc[namespace] = "new",
         \A d \in DaemonIds : pc[d] = "msg_entry" => pc'[d] = "msg_entry"
  PROVE  LoadOK'
<1>1. \A a \in Aid : Started(a)' <=> Started(a)
  BY StartedSame
<1>2. \A a \in Aid : a > init /\ pc'[a] # "new" => Started(a)'
  BY <1>1 DEF LoadOK
<1>3. be' > 4 + Daemons => AllUp'
  BY DEF LoadOK, AllUp
<1> QED BY <1>2, <1>3 DEF LoadOK, Fenced

----------------------------------------------------------------------------
(* User programs.                                                          *)

(* Past the last daemon init is not before it.                             *)
LEMMA LoadedBound == \A b, d \in Nat : b > 4 + d => ~(b <= 3 + d)
OBVIOUS

(* Where a user program waits for an answer.                               *)
Waits == {"main", "_mmap ref", "_mmap id", "ref", "id"}

(* A call of a user program.                                               *)
LEMMA UserCall ==
  ASSUME Live, CallBound < REPLY_MOD, NEW c \in UserIds, c = curr,
         NEW s \in Services, NEW m \in Arg, CallTo(s, m),
         NEW w \in Waits, pc' = [pc EXCEPT ![c] = w],
         UNCHANGED <<sync_token, be, naps, bind>>, UType', UserOK', Asks(c, s)',
         (unique' = unique + 1) => Counted'
  PROVE  Live'
<1>1. /\ KSide /\ UType /\ LoadOK /\ Phase /\ Bound /\ UserOK /\ Alive /\ Tokens /\ Counted
      /\ AnswersMatch /\ pc \in [Aid -> Places] /\ sched_status \in [Aid -> SchedStatus]
  BY TypeFacts
<1>2. /\ Own /\ pc[memmgt] # "register_ns" /\ Started(c) /\ be > 4 + Daemons /\ AllUp
      /\ pc[c] # "exited" /\ \A r \in Services : pc[r] = "msg_entry" /\ sched_status[r] = "waiting"
      /\ sched_status[init] = "runnable" /\ Calm({c})
  BY UserPhase DEF Own
<1>3. c \in Aid /\ c # 0 /\ c \notin Services /\ c # init /\ s # c /\ s \in Aid /\ s # init /\ c > init
  BY Kinds
<1>4. pc'[init] = pc[init] /\ pc'[c] = w /\ \A a \in Aid \ {c} : pc'[a] = pc[a]
  BY <1>1, <1>3, Ids
<1>5. \A a \in Aid : Started(a)' <=> Started(a)
  BY <1>4, StartedSame
<1>6. /\ KSide' /\ Alive' /\ Tokens' /\ AnswersMatch'
      /\ unique' = unique + 1 /\ UNCHANGED <<kernel_next_act, status>>
      /\ curr' = s
      /\ sched_status' = [sched_status EXCEPT ![c] = "sync_block", ![s] = "runnable"]
      /\ Calm({c, s})' /\ Delivered(c, s)' /\ TakesSlot(c, s)
  <2>1. w \in Places \ {"exited"}
    BY DEF Places, Waits
  <2> QED BY <2>1, <1>1, <1>2, <1>3, <1>5, CallLive
<1>7. LoadOK'
  BY <1>1, <1>2, <1>3, <1>4, <1>6, Kinds, LoadKeeps
<1>8. Phase'
  <2>1. AtTop(c)'
    BY <1>2, <1>3, <1>4, <1>5 DEF AtTop, Top, Waits
  <2>2. Called(c)'
    BY <2>1, <1>3, <1>6 DEF Called
  <2>3. Order(c)'
    <3>1. AllUp' /\ ~(be' <= 3 + Daemons)
      <4>1. be \in Nat /\ Daemons \in Nat
        BY TypeFacts, Ids
      <4>2. \A d \in DaemonIds : pc'[d] = pc[d]
        BY <1>3, <1>4, Kinds
      <4>3. AllUp /\ be' > 4 + Daemons
        BY <1>2
      <4>4. AllUp'
        BY <4>2, <4>3 DEF AllUp
      <4>5. be' \in Nat /\ be' = be
        BY <4>1
      <4>6. ~(be' <= 3 + Daemons)
        <5>1. be \in Nat /\ Daemons \in Nat /\ be > 4 + Daemons
          BY <4>1, <1>2
        <5>2. ~(be <= 3 + Daemons)
          BY <5>1, LoadedBound
        <5> QED BY <5>2
      <4> QED BY <4>4, <4>6
    <3> SUFFICES ASSUME be' <= 3 + Daemons \/ ~AllUp'
                 PROVE  (IF c = init THEN InitFirst ELSE OtherFirst(c))'
      BY DEF Order
    <3> QED BY <3>1
  <2> QED BY <2>2, <2>3, <1>3 DEF Phase
<1>9. Bound'
  <2>1. \A a \in Services : sched_status'[a] # "sync_block" /\ sched_status[a] # "sync_block"
    BY <1>1, <1>2, <1>3, <1>6, Kinds
  <2>2. sched_status'[init] = sched_status[init]
    BY <1>1, <1>3, <1>6, Ids
  <2>3. Unbound' <=> Unbound
    BY <2>1, <2>2, <1>2, Kinds DEF Unbound
  <2>4. \A d \in DaemonIds : pc'[d] = pc[d]
    BY <1>3, <1>4, Kinds
  <2> QED BY <2>1, <2>3, <2>4, <1>1, Kinds DEF Bound
<1> QED BY <1>6, <1>7, <1>8, <1>9 DEF Live

(* An operation is at most three calls.                                    *)
LEMMA StageRange == \A p : Stage(p) \in 0 .. 3
BY DEF Stage

(* The row of an operation, and what of it has been done.                  *)
LEMMA UserCount ==
  ASSUME Live, NEW c \in UserIds, NEW w \in Places, pc' = [pc EXCEPT ![c] = w],
         UNCHANGED <<be, bind>>, unique' = unique + 1,
         \/ ops[c] > 0 /\ ops' = [ops EXCEPT ![c] = @ - 1] /\ Stage(w) > 0
         \/ ops' = ops /\ Stage(w) = Stage(pc[c]) + 1
  PROVE  Counted'
<1>1. /\ Counted /\ unique \in Nat /\ pc \in [Aid -> Places] /\ ops \in [Aid -> 0 .. MaxOps]
      /\ c \in Aid /\ c # init /\ c # memmgt /\ c \notin DaemonIds /\ ops[c] \in 0 .. MaxOps
      /\ memmgt \in Aid /\ init \in Aid /\ MaxOps \in Nat /\ MAX_ACTIVATIONS \in Nat
      /\ \A u \in UserIds : u \in Aid
  BY TypeFacts, Kinds, Ids DEF UType
<1>2. \A a \in Aid \ {c} : pc'[a] = pc[a] /\ ops'[a] = ops[a]
  BY <1>1
<1>3. pc'[c] = w
  BY <1>1
<1>4. Stage(w) \in 0 .. 3 /\ Stage(pc[c]) \in 0 .. 3
  BY StageRange
<1>5. ASSUME NEW a \in Aid, NEW row \in Rows, NEW k \in 1 .. 3, Did(a, row, k)
      PROVE  Did(a, row, k)'
  <2>1. CASE a # c
    <3>1. a \in UserIds => Stage(pc'[a]) = Stage(pc[a]) /\ ops'[a] = ops[a]
      BY <2>1, <1>2
    <3>2. pc'[init] = pc[init] /\ pc'[memmgt] = pc[memmgt] /\ pc'[a] = pc[a]
      BY <2>1, <1>1, <1>2
    <3> QED BY <1>5, <3>1, <3>2 DEF Did
  <2>2. CASE a = c
    <3>1. row > ops[c] + 1 \/ (row = ops[c] + 1 /\ k <= Stage(pc[c]))
      BY <1>1, <1>5, <2>2 DEF Did
    <3>2. row > ops'[c] + 1 \/ (row = ops'[c] + 1 /\ k <= Stage(w))
      BY <3>1, <1>1, <1>4 DEF Rows
    <3> QED BY <2>2, <3>2, <1>3 DEF Did
  <2> QED BY <2>1, <2>2
<1>6. CASE ops[c] > 0 /\ ops' = [ops EXCEPT ![c] = @ - 1] /\ Stage(w) > 0
  <2>1. ops[c] \in Rows /\ 1 \in 1 .. 3
    BY <1>1 DEF Rows
  <2>2. ~Did(c, ops[c], 1)
    BY <1>1 DEF Did
  <2>3. ops'[c] + 1 = ops[c] /\ 1 <= Stage(w)
    BY <1>1, <1>4, <1>6
  <2>4. ASSUME NEW row, row = ops[c] PROVE Did(c, row, 1)'
    BY <2>3, <2>4, <1>3 DEF Did
  <2>5. PICK row \in Rows : row = ops[c]
    BY <2>1
  <2>6. Did(c, row, 1)' /\ ~Did(c, row, 1)
    BY <2>2, <2>4, <2>5
  <2> QED BY <2>1, <2>6, <1>1, <1>5, CountCall
<1>7. CASE ops' = ops /\ Stage(w) = Stage(pc[c]) + 1
  <2>1. PICK row \in Rows, k \in 1 .. 3 : row = ops[c] + 1 /\ k = Stage(w)
    <3>1. ops[c] + 1 \in Rows /\ Stage(w) \in 1 .. 3
      BY <1>1, <1>4, <1>7, MaxActivationsAssumption DEF Rows
    <3> QED BY <3>1
  <2>2. ~(row > ops[c] + 1) /\ ~(k <= Stage(pc[c]))
    BY <2>1, <1>1, <1>4, <1>7 DEF Rows
  <2>3. ~Did(c, row, k)
    BY <2>2, <1>1 DEF Did
  <2>4. Did(c, row, k)'
    BY <2>1, <1>3, <1>4, <1>7 DEF Did
  <2> QED BY <2>3, <2>4, <1>1, <1>5, CountCall
<1> QED BY <1>6, <1>7

(* Every module is loaded, and every daemon has registered.                *)
Loaded == be > 4 + Daemons /\ be \in Nat /\ AllUp

LoadedOrders == \A b \in Aid : Order(b)

(* With every daemon up the order of the run queue does not matter.        *)
LEMMA OrderLoaded == Loaded => LoadedOrders
<1> SUFFICES ASSUME Loaded, NEW b \in Aid PROVE Order(b)
  BY DEF LoadedOrders
<1>1. AllUp /\ ~(be <= 3 + Daemons)
  BY LoadedBound, Ids DEF Loaded
<1> SUFFICES ASSUME be <= 3 + Daemons \/ ~AllUp
             PROVE  IF b = init THEN InitFirst ELSE OtherFirst(b)
  BY DEF Order
<1> QED BY <1>1

(* A user program yields or exits.                                         *)
LEMMA UserRests ==
  ASSUME Live, NEW c \in UserIds, c = curr,
         KSide', Own', AnswersMatch', Alive', Tokens', UType', curr' \in Aid,
         \A a \in Aid : sched_status'[a] = "sync_block" <=> sched_status[a] = "sync_block",
         NEW w \in {"main", "exited"}, pc' = [pc EXCEPT ![c] = w],
         UNCHANGED <<unique, kernel_next_act, be, naps, bind, asked, memmgt_ref, peer>>,
         ops' = ops \/ (ops[c] > 0 /\ ops' = [ops EXCEPT ![c] = @ - 1])
  PROVE  Live'
<1>1. /\ LoadOK /\ Bound /\ UserOK /\ Counted /\ unique \in Nat /\ be \in Nat
      /\ pc \in [Aid -> Places] /\ ops \in [Aid -> 0 .. MaxOps]
      /\ MAX_ACTIVATIONS \in Nat /\ MaxOps \in Nat /\ Daemons \in Nat
  BY TypeFacts, Ids DEF UType
<1>2. Started(c) /\ be > 4 + Daemons /\ AllUp
  BY UserPhase
<1>3. c \in Aid /\ c \notin Services /\ c # init /\ c # memmgt /\ c # namespace
      /\ c \notin DaemonIds /\ \A u \in UserIds : u \in Aid
  BY Kinds
<1>4. pc'[c] = w /\ \A a \in Aid \ {c} : pc'[a] = pc[a] /\ ops'[a] = ops[a]
  BY <1>1, <1>3
<1>5. /\ pc'[init] = pc[init] /\ pc'[memmgt] = pc[memmgt] /\ pc'[namespace] = pc[namespace]
      /\ \A d \in DaemonIds : pc'[d] = pc[d]
  BY <1>3, <1>4, Kinds, Ids
<1>6. LoadOK'
  <2>1. \A a \in Aid : pc'[a] # "new" /\ a > init => pc[a] # "new" \/ Started(a)
    BY <1>2, <1>4
  <2> QED BY <2>1, <1>1, <1>5, LoadKeeps
<1>7. Phase'
  <2>1. Loaded'
    <3>1. AllUp'
      BY <1>2, <1>5 DEF AllUp
    <3> QED BY <3>1, <1>1, <1>2 DEF Loaded
  <2>2. LoadedOrders'
    BY <2>1, OrderLoaded, PTL
  <2>3. Order(curr)'
    BY <2>2 DEF LoadedOrders, Order, OtherFirst
  <2> QED BY <2>3 DEF Phase
<1>8. Bound'
  <2>1. Unbound' <=> Unbound
    BY <1>5, Kinds, Ids DEF Unbound
  <2> QED BY <2>1, <1>1, <1>5, Kinds DEF Bound
<1>9. UserOK'
  <2> SUFFICES ASSUME NEW u \in UserIds
               PROVE  /\ pc'[u] = "_mmap ref" => asked'[u] = M("ns_get_reference", memmgt)
                      /\ pc'[u] = "_mmap id" => memmgt_ref'[u] = memmgt
                      /\ pc'[u] = "ref" => \E d \in DaemonIds : asked'[u] = M("ns_get_reference", d)
                      /\ pc'[u] = "id" => peer'[u] \in DaemonIds
    BY DEF UserOK
  <2> QED BY <1>1, <1>3, <1>4 DEF UserOK
<1>10. Counted'
  <2>1. Stage(w) = 3 /\ Stage(pc[c]) \in 0 .. 3
    BY StageRange DEF Stage
  <2>2. ASSUME NEW a \in Aid, NEW row \in Rows, NEW k \in 1 .. 3, Did(a, row, k)
        PROVE  Did(a, row, k)'
    <3>1. CASE a # c
      <4>1. pc'[a] = pc[a] /\ ops'[a] = ops[a]
        BY <3>1, <1>4
      <4> QED BY <4>1, <1>5, <2>2 DEF Did
    <3>2. CASE a = c
      <4>1. row > ops[c] + 1 \/ (row = ops[c] + 1 /\ k <= Stage(pc[c]))
        BY <1>3, <3>2, <2>2 DEF Did
      <4>2. ops[c] \in Nat /\ ops'[c] \in {ops[c], ops[c] - 1}
        BY <1>1, <1>3
      <4>3. row > ops'[c] + 1 \/ (row = ops'[c] + 1 /\ k <= 3)
        BY <4>1, <4>2, <1>1 DEF Rows
      <4> QED BY <4>3, <3>2, <2>1, <1>4 DEF Did
    <3> QED BY <3>1, <3>2
  <2> QED BY <2>2, <1>1, CountSame
<1> QED BY <1>6, <1>7, <1>8, <1>9, <1>10 DEF Live

(* A user program exits.                                                   *)
LEMMA UserExits ==
  ASSUME Live, NEW c \in UserIds, c = curr, UserExit, UNCHANGED <<sync_token, be, naps, bind>>
  PROVE  Live'
<1>1. /\ act_terminate(c) /\ pc' = [pc EXCEPT ![c] = "exited"]
      /\ UNCHANGED <<asked, ops, memmgt_ref, peer>>
  BY DEF UserExit, Exit, Goto
<1>2. KSide /\ UType /\ Alive /\ Tokens /\ AnswersMatch /\ Calm({c}) /\ c # init /\ c \in Aid
      /\ pc \in [Aid -> Places] /\ sched_status \in [Aid -> SchedStatus] /\ init \in Aid
      /\ sched_status[c] = "runnable"
  BY TypeFacts, UserPhase, Kinds, Ids DEF Own
<1>3. pc[memmgt] # "register_ns"
  BY UserPhase
<1>4. pc'[init] = pc[init] /\ \A a \in Aid : Started(a)' <=> Started(a)
  BY <1>1, <1>2, StartedSame
<1>5. UType'
  BY <1>1, <1>2 DEF UType, Places
<1>6. /\ KSide' /\ Own' /\ AnswersMatch' /\ Alive' /\ Tokens'
      /\ curr' \in Aid \ {0, c} /\ sched_status[curr'] \in {"runnable", "schedulable"}
      /\ sched_status' = [sched_status EXCEPT ![c] = "terminated", ![curr'] = "runnable"]
      /\ UNCHANGED <<unique, kernel_next_act>>
  BY <1>1, <1>2, <1>3, <1>4, <1>5, ExitLive
<1>7. \A a \in Aid : sched_status'[a] = "sync_block" <=> sched_status[a] = "sync_block"
  <2>1. sched_status[curr'] # "sync_block"
    BY <1>6
  <2> QED BY <2>1, <1>2, <1>6
<1> QED BY <1>1, <1>5, <1>6, <1>7, UserRests

(* A user program sleeps.                                                  *)
LEMMA UserSleeps ==
  ASSUME Live, NEW c \in UserIds, c = curr, UserSleep, UNCHANGED <<sync_token, be, naps, bind>>
  PROVE  Live'
<1>1. /\ syscall_sleep /\ pc' = [pc EXCEPT ![c] = "main"]
      /\ UNCHANGED <<asked, memmgt_ref, peer>>
      /\ ops[c] > 0 /\ ops' = [ops EXCEPT ![c] = @ - 1]
  BY DEF UserSleep, Spend, Goto
<1>2. KSide /\ UType /\ Alive /\ Tokens /\ AnswersMatch /\ Calm({c}) /\ c # init /\ c \in Aid
      /\ pc \in [Aid -> Places] /\ sched_status \in [Aid -> SchedStatus] /\ init \in Aid
      /\ sched_status[c] = "runnable" /\ MaxOps \in Nat /\ ops \in [Aid -> 0 .. MaxOps]
  BY TypeFacts, UserPhase, Kinds, Ids DEF Own, UType
<1>3. pc[memmgt] # "register_ns" /\ Started(c) /\ pc[c] # "exited"
  BY UserPhase
<1>4. pc'[init] = pc[init] /\ \A a \in Aid : Started(a)' <=> Started(a)
  BY <1>1, <1>2, StartedSame
<1>5. UType'
  <2>1. ops' \in [Aid -> 0 .. MaxOps]
    BY <1>1, <1>2
  <2> QED BY <2>1, <1>1, <1>2 DEF UType, Places
<1>6. /\ KSide' /\ Own' /\ AnswersMatch' /\ Alive' /\ Tokens'
      /\ curr' \in Aid \ {0} /\ sched_status[curr'] \in {"runnable", "schedulable"}
      /\ sched_status' = [sched_status EXCEPT ![curr'] = "runnable"]
      /\ UNCHANGED <<unique, kernel_next_act>>
  <2>1. "main" \in Places \ {"exited", "register_ns"}
    BY DEF Places
  <2> QED BY <2>1, <1>1, <1>2, <1>3, <1>4, <1>5, SleepLive
<1>7. \A a \in Aid : sched_status'[a] = "sync_block" <=> sched_status[a] = "sync_block"
  <2>1. sched_status[curr'] # "sync_block"
    BY <1>6
  <2> QED BY <2>1, <1>2, <1>6
<1> QED BY <1>1, <1>5, <1>6, <1>7, UserRests

(* A budget that is spent stays one.                                       *)
LEMMA OneLess == \A n \in Nat : \A k \in 0 .. n : k > 0 => k - 1 \in 0 .. n
OBVIOUS

(* A call of a user program c: what it keeps of the answer before, and     *)
(* that the call is one more, or the first, of an operation.               *)
Looked(c) ==
  /\ memmgt_ref' = [memmgt_ref EXCEPT ![c] = memmgt_ref'[c]] /\ memmgt_ref'[c] \in {0, memmgt}
  /\ peer' = [peer EXCEPT ![c] = peer'[c]] /\ peer'[c] \in Aid

CanMake(c, w) ==
  \/ ops[c] > 0 /\ ops' = [ops EXCEPT ![c] = @ - 1] /\ Stage(w) > 0
  \/ ops' = ops /\ Stage(w) = Stage(pc[c]) + 1

(* A call of a user program, with what it keeps of the answer before.      *)
LEMMA UserCallLive ==
  ASSUME Live, CallBound < REPLY_MOD, NEW c \in UserIds, c = curr,
         NEW s \in Services, NEW m \in Arg, CallTo(s, m),
         NEW w \in Waits, pc' = [pc EXCEPT ![c] = w],
         UNCHANGED <<sync_token, be, naps, bind>>, Asks(c, s)',
         Looked(c), CanMake(c, w),
         w = "_mmap ref" => m = M("ns_get_reference", memmgt),
         w = "_mmap id" => memmgt_ref'[c] = memmgt,
         w = "ref" => \E d \in DaemonIds : m = M("ns_get_reference", d),
         w = "id" => peer'[c] \in DaemonIds
  PROVE  Live'
<1>1. /\ UType /\ UserOK /\ c \in Aid /\ s # 0 /\ MaxOps \in Nat
      /\ \A u \in UserIds : u \in Aid
  BY TypeFacts, Kinds, Ids
<1>2. asked' = [asked EXCEPT ![c] = m]
  BY <1>1 DEF CallTo, curr
<1>3. w \in Places
  BY DEF Places, Waits
<1>4. UType'
  <2>1. ops' \in [Aid -> 0 .. MaxOps]
    <3>1. ops \in [Aid -> 0 .. MaxOps] /\ ops[c] \in 0 .. MaxOps
      BY <1>1 DEF UType
    <3>2. ops[c] > 0 => ops[c] - 1 \in 0 .. MaxOps
      BY <1>1, <3>1, OneLess
    <3> QED BY <3>1, <3>2 DEF CanMake
  <2>2. /\ pc' \in [Aid -> Places] /\ memmgt_ref' \in [Aid -> {0, memmgt}]
        /\ peer' \in [Aid -> Aid] /\ asked' \in [Aid -> Arg \cup {ZERO}]
    BY <1>1, <1>2, <1>3 DEF UType, Looked
  <2> QED BY <1>1, <2>1, <2>2 DEF UType
<1>5. UserOK'
  <2> SUFFICES ASSUME NEW u \in UserIds
               PROVE  /\ pc'[u] = "_mmap ref" => asked'[u] = M("ns_get_reference", memmgt)
                      /\ pc'[u] = "_mmap id" => memmgt_ref'[u] = memmgt
                      /\ pc'[u] = "ref" => \E d \in DaemonIds : asked'[u] = M("ns_get_reference", d)
                      /\ pc'[u] = "id" => peer'[u] \in DaemonIds
    BY DEF UserOK
  <2>1. CASE u = c
    <3>1. pc'[u] = w /\ asked'[u] = m
      BY <2>1, <1>1, <1>2 DEF UType
    <3> QED BY <2>1, <3>1
  <2>2. CASE u # c
    <3>1. /\ pc'[u] = pc[u] /\ asked'[u] = asked[u] /\ memmgt_ref'[u] = memmgt_ref[u]
          /\ peer'[u] = peer[u]
      BY <2>2, <1>1, <1>2 DEF UType, Looked
    <3> QED BY <3>1, <1>1 DEF UserOK
  <2> QED BY <2>1, <2>2
<1>6. (unique' = unique + 1) => Counted'
  BY <1>3, UserCount DEF CanMake
<1> QED BY <1>4, <1>5, <1>6, UserCall

(* The answer to a request for a reference, in the caller's registers.     *)
LEMMA GotReference ==
  ASSUME Live, NEW c \in Aid, c = curr, NEW n \in Aid, asked[c] = M("ns_get_reference", n)
  PROVE  frame[c].v0.n = n
<1>1. AnswersMatch /\ sched_status[c] = "runnable"
  BY TypeFacts
<1>2. asked[c] # ZERO
  <2>1. "ns_get_reference" \in Requests \cup Answers
    BY DEF Requests
  <2> QED BY <2>1, MArg
<1>3. frame[c].v0 = Due(asked[c])
  BY <1>1, <1>2, Matching
<1>4. Due(asked[c]) = M("reference", n)
  BY MFacts DEF Due
<1> QED BY <1>3, <1>4, MFacts

(* What the actions of a user program have in common.                      *)
LEMMA UserFacts ==
  ASSUME Live, NEW c \in UserIds, c = curr
  PROVE  /\ c \in Aid /\ UserOK /\ memmgt_ref[c] \in {0, memmgt} /\ peer[c] \in Aid
         /\ memmgt_ref = [memmgt_ref EXCEPT ![c] = memmgt_ref[c]]
         /\ peer = [peer EXCEPT ![c] = peer[c]]
         /\ memmgt_ref \in [Aid -> {0, memmgt}] /\ peer \in [Aid -> Aid]
         /\ pc \in [Aid -> Places] /\ asked \in [Aid -> Arg \cup {ZERO}]
      /\ memmgt_ref \in [Aid -> {0, memmgt}] /\ peer \in [Aid -> Aid]
         /\ Stage("main") > 0 /\ Stage("_mmap ref") > 0 /\ Stage("ref") > 0
         /\ Stage("_mmap id") = Stage("_mmap ref") + 1 /\ Stage("main") = Stage("_mmap id") + 1
         /\ Stage("id") = Stage("ref") + 1 /\ Stage("main") = Stage("id") + 1
         /\ Waits = {"main", "_mmap ref", "_mmap id", "ref", "id"}
         /\ \A d \in {memmgt} \cup DaemonIds : d \in Aid /\ d # 0
         /\ memmgt \in Services /\ namespace \in Services /\ 0 \in Aid
         /\ c \notin DaemonIds /\ c # init
<1>1. UType /\ UserOK /\ c \in Aid
  BY TypeFacts, Kinds
<1>2. /\ Stage("main") > 0 /\ Stage("_mmap ref") > 0 /\ Stage("ref") > 0
      /\ Stage("_mmap id") = Stage("_mmap ref") + 1 /\ Stage("main") = Stage("_mmap id") + 1
      /\ Stage("id") = Stage("ref") + 1 /\ Stage("main") = Stage("id") + 1
  BY DEF Stage
<1>3. /\ memmgt_ref[c] \in {0, memmgt} /\ peer[c] \in Aid
      /\ memmgt_ref = [memmgt_ref EXCEPT ![c] = memmgt_ref[c]]
      /\ peer = [peer EXCEPT ![c] = peer[c]]
      /\ memmgt_ref \in [Aid -> {0, memmgt}] /\ peer \in [Aid -> Aid]
  BY <1>1 DEF UType
<1>4. pc \in [Aid -> Places] /\ asked \in [Aid -> Arg \cup {ZERO}]
  BY <1>1 DEF UType
<1> QED BY <1>1, <1>2, <1>3, <1>4, Kinds, Ids DEF Waits

(* The first call of mmap: memmgt itself, or namespace for it.             *)
LEMMA UserAllocates ==
  ASSUME Live, CallBound < REPLY_MOD, NEW c \in UserIds, c = curr, Mmap,
         UNCHANGED <<sync_token, be, naps, bind>>
  PROVE  Live'
<1>1. /\ ops[c] > 0 /\ ops' = [ops EXCEPT ![c] = @ - 1] /\ UNCHANGED <<memmgt_ref, peer>>
  BY DEF Mmap, Spend
<1>2. /\ c \in Aid /\ memmgt_ref[c] \in {0, memmgt} /\ peer[c] \in Aid
      /\ memmgt_ref' = [memmgt_ref EXCEPT ![c] = memmgt_ref[c]]
      /\ peer' = [peer EXCEPT ![c] = peer[c]]
      /\ pc \in [Aid -> Places] /\ asked \in [Aid -> Arg \cup {ZERO}]
      /\ memmgt_ref \in [Aid -> {0, memmgt}] /\ peer \in [Aid -> Aid]
      /\ Stage("main") > 0 /\ Stage("_mmap ref") > 0
      /\ "main" \in Waits /\ "_mmap ref" \in Waits
      /\ memmgt \in Services /\ namespace \in Services /\ memmgt # 0 /\ namespace # 0
      /\ 0 \in Aid /\ memmgt \in Aid
  BY <1>1, UserFacts, Kinds, Ids
<1>3. CASE memmgt_ref[c] = 0
  <2> DEFINE m == M("ns_get_reference", memmgt)
  <2>1. pc' = [pc EXCEPT ![c] = "_mmap ref"] /\ CallTo(namespace, m)
    BY <1>3 DEF Mmap, Goto
  <2>2. m \in Arg
    BY <1>2, MArg DEF Requests
  <2>3. asked'[c] = m /\ pc'[c] = "_mmap ref"
    BY <1>2, <2>1 DEF CallTo, curr
  <2>4. Asks(c, namespace)'
    BY <2>3 DEF Asks
  <2> HIDE DEF m
  <2>5. m = M("ns_get_reference", memmgt)
    BY DEF m
  <2>6. Looked(c) /\ CanMake(c, "_mmap ref")
    BY <1>1, <1>2 DEF Looked, CanMake
  <2> QED BY <2>1, <2>2, <2>4, <2>5, <2>6, <1>2, UserCallLive
<1>4. CASE memmgt_ref[c] = memmgt
  <2> DEFINE m == M("mmap", 0)
  <2>1. pc' = [pc EXCEPT ![c] = "main"] /\ CallTo(memmgt, m)
    BY <1>2, <1>4 DEF Mmap, Goto
  <2>2. m \in Arg
    BY <1>2, MArg DEF Requests
  <2>3. asked'[c] = m /\ pc'[c] = "main"
    BY <1>2, <2>1 DEF CallTo, curr
  <2>4. Asks(c, memmgt)'
    BY <2>3 DEF Asks
  <2> HIDE DEF m
  <2>5. Looked(c) /\ CanMake(c, "main")
    BY <1>1, <1>2 DEF Looked, CanMake
  <2> QED BY <2>1, <2>2, <2>4, <2>5, <1>2, UserCallLive
<1> QED BY <1>2, <1>3, <1>4

(* namespace answered with the reference to memmgt.                        *)
LEMMA UserMmapRef ==
  ASSUME Live, CallBound < REPLY_MOD, NEW c \in UserIds, c = curr, MmapRef,
         UNCHANGED <<sync_token, be, naps, bind>>
  PROVE  Live'
<1>1. /\ c \in Aid /\ peer[c] \in Aid /\ peer = [peer EXCEPT ![c] = peer[c]]
      /\ pc \in [Aid -> Places] /\ asked \in [Aid -> Arg \cup {ZERO}]
      /\ memmgt_ref \in [Aid -> {0, memmgt}] /\ peer \in [Aid -> Aid]
      /\ Stage("_mmap id") = Stage("_mmap ref") + 1 /\ "_mmap id" \in Waits
      /\ namespace \in Services /\ namespace # 0 /\ memmgt \in Aid
  BY UserFacts, Kinds, Ids
<1> DEFINE m == M("ns_get_identifier", memmgt)
<1>2. /\ pc[c] = "_mmap ref" /\ pc' = [pc EXCEPT ![c] = "_mmap id"]
      /\ memmgt_ref' = [memmgt_ref EXCEPT ![c] = frame[c].v0.n]
      /\ CallTo(namespace, m) /\ UNCHANGED <<ops, peer>>
  BY DEF MmapRef, Goto
<1>3. frame[c].v0.n = memmgt
  <2>1. asked[c] = M("ns_get_reference", memmgt)
    BY <1>2, UserFacts DEF UserOK
  <2> QED BY <1>1, <2>1, GotReference
<1>4. m \in Arg
  BY <1>1, MArg DEF Requests
<1>5. asked'[c] = m /\ pc'[c] = "_mmap id"
  BY <1>1, <1>2 DEF CallTo, curr
<1>6. Asks(c, namespace)'
  BY <1>5 DEF Asks
<1> HIDE DEF m
<1>7. peer' = [peer EXCEPT ![c] = peer[c]] /\ memmgt_ref' = [memmgt_ref EXCEPT ![c] = memmgt]
  BY <1>1, <1>2, <1>3
<1>8. Stage("_mmap id") = Stage(pc[c]) + 1
  BY <1>1, <1>2
<1>9. Looked(c) /\ CanMake(c, "_mmap id")
  BY <1>1, <1>2, <1>7, <1>8 DEF Looked, CanMake
<1> QED BY <1>9, <1>1, <1>2, <1>3, <1>4, <1>6, UserCallLive

(* namespace answered with its identifier: mmap is called.                 *)
LEMMA UserMmapId ==
  ASSUME Live, CallBound < REPLY_MOD, NEW c \in UserIds, c = curr, MmapId,
         UNCHANGED <<sync_token, be, naps, bind>>
  PROVE  Live'
<1>1. /\ c \in Aid /\ peer[c] \in Aid /\ peer = [peer EXCEPT ![c] = peer[c]]
      /\ memmgt_ref = [memmgt_ref EXCEPT ![c] = memmgt_ref[c]]
      /\ pc \in [Aid -> Places] /\ asked \in [Aid -> Arg \cup {ZERO}]
      /\ memmgt_ref \in [Aid -> {0, memmgt}] /\ peer \in [Aid -> Aid]
      /\ Stage("main") = Stage("_mmap id") + 1 /\ "main" \in Waits
      /\ memmgt \in Services /\ memmgt # 0 /\ 0 \in Aid
  BY UserFacts, Kinds, Ids
<1> DEFINE m == M("mmap", 0)
<1>2. /\ pc[c] = "_mmap id" /\ pc' = [pc EXCEPT ![c] = "main"]
      /\ CallTo(memmgt_ref[c], m) /\ UNCHANGED <<ops, peer, memmgt_ref>>
  BY DEF MmapId, Goto
<1>3. memmgt_ref[c] = memmgt
  BY <1>2, UserFacts DEF UserOK
<1>4. m \in Arg
  BY <1>1, MArg DEF Requests
<1>5. CallTo(memmgt, m)
  BY <1>2, <1>3
<1>6. asked'[c] = m /\ pc'[c] = "main"
  BY <1>1, <1>2, <1>5 DEF CallTo, curr
<1>7. Asks(c, memmgt)'
  BY <1>6 DEF Asks
<1> HIDE DEF m
<1>8. peer' = [peer EXCEPT ![c] = peer[c]] /\ memmgt_ref' = [memmgt_ref EXCEPT ![c] = memmgt]
  BY <1>1, <1>2, <1>3
<1>9. Stage("main") = Stage(pc[c]) + 1
  BY <1>1, <1>2
<1>10. Looked(c) /\ CanMake(c, "main")
  BY <1>1, <1>2, <1>8, <1>9 DEF Looked, CanMake
<1> QED BY <1>10, <1>1, <1>2, <1>4, <1>5, <1>7, UserCallLive

(* A user program looks a daemon up.                                       *)
LEMMA UserLooksUp ==
  ASSUME Live, CallBound < REPLY_MOD, NEW c \in UserIds, c = curr, NEW d \in DaemonIds, Lookup(d),
         UNCHANGED <<sync_token, be, naps, bind>>
  PROVE  Live'
<1> DEFINE m == M("ns_get_reference", d)
<1>1. /\ ops[c] > 0 /\ ops' = [ops EXCEPT ![c] = @ - 1] /\ UNCHANGED <<memmgt_ref, peer>>
      /\ pc' = [pc EXCEPT ![c] = "ref"] /\ CallTo(namespace, m)
  BY DEF Lookup, Spend, Goto
<1>2. /\ c \in Aid /\ memmgt_ref[c] \in {0, memmgt} /\ peer[c] \in Aid
      /\ memmgt_ref' = [memmgt_ref EXCEPT ![c] = memmgt_ref[c]]
      /\ peer' = [peer EXCEPT ![c] = peer[c]]
      /\ pc \in [Aid -> Places] /\ asked \in [Aid -> Arg \cup {ZERO}]
      /\ memmgt_ref \in [Aid -> {0, memmgt}] /\ peer \in [Aid -> Aid]
      /\ Stage("ref") > 0 /\ "ref" \in Waits /\ namespace \in Services /\ namespace # 0 /\ d \in Aid
  BY <1>1, UserFacts, Kinds, Ids
<1>3. m \in Arg
  BY <1>2, MArg DEF Requests
<1>4. asked'[c] = m /\ pc'[c] = "ref"
  BY <1>1, <1>2 DEF CallTo, curr
<1>5. Asks(c, namespace)'
  BY <1>4 DEF Asks
<1>6. \E k \in DaemonIds : m = M("ns_get_reference", k)
  OBVIOUS
<1> HIDE DEF m
<1>7. Looked(c) /\ CanMake(c, "ref")
  BY <1>1, <1>2 DEF Looked, CanMake
<1> QED BY <1>7, <1>1, <1>2, <1>3, <1>5, <1>6, UserCallLive

(* namespace answered with the reference to the daemon.                    *)
LEMMA UserLookupRef ==
  ASSUME Live, CallBound < REPLY_MOD, NEW c \in UserIds, c = curr, LookupRef,
         UNCHANGED <<sync_token, be, naps, bind>>
  PROVE  Live'
<1>1. /\ c \in Aid /\ memmgt_ref[c] \in {0, memmgt}
      /\ memmgt_ref = [memmgt_ref EXCEPT ![c] = memmgt_ref[c]]
      /\ pc \in [Aid -> Places] /\ asked \in [Aid -> Arg \cup {ZERO}]
      /\ memmgt_ref \in [Aid -> {0, memmgt}] /\ peer \in [Aid -> Aid]
      /\ Stage("id") = Stage("ref") + 1 /\ "id" \in Waits /\ namespace \in Services /\ namespace # 0
  BY UserFacts, Kinds
<1>2. pc[c] = "ref"
  BY DEF LookupRef
<1>3. PICK d \in DaemonIds : asked[c] = M("ns_get_reference", d)
  BY <1>2, UserFacts DEF UserOK
<1>4. d \in Aid /\ d # 0 /\ d \in {memmgt} \cup DaemonIds
  BY Kinds
<1> DEFINE m == M("ns_get_identifier", d)
<1>5. frame[c].v0.n = d
  BY <1>1, <1>3, <1>4, GotReference
<1>6. /\ pc' = [pc EXCEPT ![c] = "id"] /\ peer' = [peer EXCEPT ![c] = d]
      /\ CallTo(namespace, m) /\ UNCHANGED <<ops, memmgt_ref>>
  BY <1>4, <1>5 DEF LookupRef, Goto
<1>7. m \in Arg
  BY <1>4, MArg DEF Requests
<1>8. asked'[c] = m /\ pc'[c] = "id"
  BY <1>1, <1>6 DEF CallTo, curr
<1>9. Asks(c, namespace)'
  BY <1>4, <1>8 DEF Asks
<1> HIDE DEF m
<1>10. memmgt_ref' = [memmgt_ref EXCEPT ![c] = memmgt_ref[c]]
  BY <1>1, <1>6
<1>11. Stage("id") = Stage(pc[c]) + 1
  BY <1>1, <1>2
<1>12. Looked(c) /\ CanMake(c, "id")
  BY <1>1, <1>4, <1>6, <1>10, <1>11 DEF Looked, CanMake
<1> QED BY <1>12, <1>1, <1>4, <1>6, <1>7, <1>9, UserCallLive

(* The daemon that was looked up is called.                                *)
LEMMA UserCallsService ==
  ASSUME Live, CallBound < REPLY_MOD, NEW c \in UserIds, c = curr,
         NEW op \in {"serve", "unknown"}, CallService(op),
         UNCHANGED <<sync_token, be, naps, bind>>
  PROVE  Live'
<1>1. /\ c \in Aid /\ memmgt_ref[c] \in {0, memmgt} /\ peer[c] \in Aid
      /\ memmgt_ref = [memmgt_ref EXCEPT ![c] = memmgt_ref[c]]
      /\ peer = [peer EXCEPT ![c] = peer[c]]
      /\ pc \in [Aid -> Places] /\ asked \in [Aid -> Arg \cup {ZERO}]
      /\ memmgt_ref \in [Aid -> {0, memmgt}] /\ peer \in [Aid -> Aid]
      /\ Stage("main") = Stage("id") + 1 /\ "main" \in Waits /\ 0 \in Aid
  BY UserFacts
<1> DEFINE m == M(op, 0)
           s == peer[c]
<1>2. /\ pc[c] = "id" /\ pc' = [pc EXCEPT ![c] = "main"]
      /\ CallTo(s, m) /\ UNCHANGED <<ops, peer, memmgt_ref>>
  BY DEF CallService, Goto
<1>3. s \in DaemonIds /\ s \in Services /\ s # 0
  BY <1>2, UserFacts, Kinds DEF UserOK
<1>4. m \in Arg
  BY <1>1, MArg DEF Requests
<1>5. asked'[c] = m /\ pc'[c] = "main"
  BY <1>1, <1>2, <1>3 DEF CallTo, curr
<1>6. Asks(c, s)'
  BY <1>3, <1>5, <1>2 DEF Asks
<1> HIDE DEF m
<1>7. /\ peer' = [peer EXCEPT ![c] = peer[c]]
      /\ memmgt_ref' = [memmgt_ref EXCEPT ![c] = memmgt_ref[c]]
  BY <1>1, <1>2
<1>8. Stage("main") = Stage(pc[c]) + 1
  BY <1>1, <1>2
<1>9. Looked(c) /\ CanMake(c, "main")
  BY <1>1, <1>2, <1>7, <1>8 DEF Looked, CanMake
<1> QED BY <1>9, <1>1, <1>2, <1>3, <1>4, <1>6, UserCallLive

(* Every step of a user program.                                           *)
LEMMA UserLive ==
  ASSUME Live, CallBound < REPLY_MOD, UserStep
  PROVE  Live'
<1>1. PICK c \in UserIds : c = curr
  BY DEF UserStep
<1>2. UNCHANGED <<sync_token, be, naps, bind>>
  BY DEF UserStep
<1>3. CASE UserExit
  BY <1>1, <1>2, <1>3, UserExits
<1>4. CASE UserSleep
  BY <1>1, <1>2, <1>4, UserSleeps
<1>5. CASE Mmap
  BY <1>1, <1>2, <1>5, UserAllocates
<1>6. CASE MmapRef
  BY <1>1, <1>2, <1>6, UserMmapRef
<1>7. CASE MmapId
  BY <1>1, <1>2, <1>7, UserMmapId
<1>8. CASE \E d \in DaemonIds : Lookup(d)
  BY <1>1, <1>2, <1>8, UserLooksUp
<1>9. CASE LookupRef
  BY <1>1, <1>2, <1>9, UserLookupRef
<1>10. ASSUME NEW op \in {"serve", "unknown"}, CallService(op) PROVE Live'
  BY <1>1, <1>2, <1>10, UserCallsService
<1> QED BY <1>3, <1>4, <1>5, <1>6, <1>7, <1>8, <1>9, <1>10 DEF UserStep

----------------------------------------------------------------------------
(* init.                                                                   *)

(* What a step of init leaves as it is.                                    *)
LEMMA InitKeeps ==
  ASSUME Live, NEW w \in Places, pc' = [pc EXCEPT ![init] = w],
         UNCHANGED <<bind, memmgt_ref, peer, ops>>,
         \A a \in Aid \ {init} :
           /\ asked'[a] = asked[a]
           /\ sched_status'[a] = "sync_block" <=> sched_status[a] = "sync_block",
         (be' = be /\ Stage(pc[init]) <= Stage(w)) \/ be' = be + 1, Unbound' <=> Unbound
  PROVE  /\ UserOK' /\ Bound'
         /\ \A a \in Aid, row \in Rows, k \in 1 .. 3 : Did(a, row, k) => Did(a, row, k)'
<1>1. /\ UserOK /\ Bound /\ be \in Nat /\ pc \in [Aid -> Places]
  BY TypeFacts
<1>2. pc'[init] = w /\ \A a \in Aid \ {init} : pc'[a] = pc[a]
  BY <1>1, Ids
<1>3. UserOK'
  <2> SUFFICES ASSUME NEW u \in UserIds
               PROVE  /\ pc'[u] = "_mmap ref" => asked'[u] = M("ns_get_reference", memmgt)
                      /\ pc'[u] = "_mmap id" => memmgt_ref'[u] = memmgt
                      /\ pc'[u] = "ref" => \E d \in DaemonIds : asked'[u] = M("ns_get_reference", d)
                      /\ pc'[u] = "id" => peer'[u] \in DaemonIds
    BY DEF UserOK
  <2>1. u \in Aid \ {init}
    BY Kinds
  <2>2. /\ pc'[u] = pc[u] /\ asked'[u] = asked[u] /\ memmgt_ref'[u] = memmgt_ref[u]
        /\ peer'[u] = peer[u]
    BY <2>1, <1>2
  <2> QED BY <2>2, <1>1 DEF UserOK
<1>4. Bound'
  <2>1. \A d \in DaemonIds : d \in Aid \ {init}
    BY Kinds
  <2>2. bind'[memmgt] = IF Unbound' THEN 0 ELSE memmgt
    BY <1>1 DEF Bound
  <2>3. ASSUME NEW d \in DaemonIds
        PROVE  bind'[d] = IF pc'[d] = "new" \/ (pc'[d] = "registered" /\ sched_status'[d] = "sync_block")
                            THEN 0 ELSE d
    <3>1. pc'[d] = pc[d] /\ (sched_status'[d] = "sync_block" <=> sched_status[d] = "sync_block")
      BY <2>1, <1>2
    <3> QED BY <3>1, <1>1 DEF Bound
  <2> QED BY <2>2, <2>3 DEF Bound
<1>5. ASSUME NEW a \in Aid, NEW row \in Rows, NEW k \in 1 .. 3, Did(a, row, k)
      PROVE  Did(a, row, k)'
  <2>1. CASE a = init
    <3>1. row < be \/ (row = be /\ k <= Stage(pc[init]))
      BY <1>5, <2>1, Kinds DEF Did
    <3>2. row \in Nat /\ k \in Nat /\ Stage(pc[init]) \in Nat /\ Stage(w) \in Nat
      BY StageRange, MaxActivationsAssumption, Ids DEF Rows
    <3>3. row < be' \/ (row = be' /\ k <= Stage(w))
      BY <3>1, <3>2, <1>1
    <3> QED BY <2>1, <3>3, <1>2 DEF Did
  <2>2. CASE a # init
    <3>1. pc'[a] = pc[a] /\ pc'[memmgt] = pc[memmgt]
      BY <2>2, <1>2, Kinds, Ids
    <3> QED BY <2>2, <3>1, <1>5 DEF Did
  <2> QED BY <2>1, <2>2
<1> QED BY <1>3, <1>4, <1>5

(* The case of init itself in LoadOK.                                      *)
Loading == \/ /\ pc[init] \in {"load_module", "stack"} /\ be \in 3 .. MAX_ACTIVATIONS - 1
              /\ kernel_next_act = be /\ naps = 0
           \/ pc[init] = "register" /\ be < MAX_ACTIVATIONS /\ kernel_next_act = be /\ naps = 0
           \/ pc[init] = "start" /\ be < MAX_ACTIVATIONS /\ kernel_next_act = be + 1 /\ naps = 0
           \/ pc[init] = "nssleep" /\ Fenced(be) /\ kernel_next_act = be + 1 /\ naps \in 1 .. 3
           \/ pc[init] = "glue" /\ be = namespace /\ kernel_next_act = be + 1 /\ naps = 0
           \/ pc[init] \in {"acts_alive", "hw_reboot"} /\ be = MAX_ACTIVATIONS /\ naps = 0

(* What a live state gives while init runs.                                *)
LEMMA InitFacts ==
  ASSUME Live, curr = init
  PROVE  /\ KSide /\ UType /\ Alive /\ Tokens /\ AnswersMatch /\ Counted /\ Own /\ Order(init)
         /\ pc[memmgt] # "register_ns" /\ Calm({init}) /\ LoadOK /\ Loading
         /\ pc \in [Aid -> Places] /\ asked \in [Aid -> Arg \cup {ZERO}]
         /\ be \in Nat /\ be >= 2 /\ be <= MAX_ACTIVATIONS /\ naps \in 0 .. 3
         /\ sched_status \in [Aid -> SchedStatus] /\ sched_status[init] = "runnable"
         /\ sched_status[memmgt] # "sync_block"
         /\ rq \in RunQueues /\ Lists(rq, Active(sched_status)) /\ rq.end \in Nat /\ rq.end > 0
         /\ init \in Active(sched_status) /\ init \in Aid /\ memmgt \in Aid /\ Daemons \in Nat
         /\ Daemons > 0 /\ MAX_ACTIVATIONS \in Nat /\ 4 + Daemons < MAX_ACTIVATIONS
         /\ be <= 3 + Daemons \/ ~AllUp => InitFirst
         /\ unique \in Nat
<1>1. /\ KSide /\ UType /\ Alive /\ Tokens /\ AnswersMatch /\ Counted /\ Own /\ Order(init)
      /\ pc[memmgt] # "register_ns" /\ Calm({init}) /\ LoadOK
      /\ sched_status[init] = "runnable" /\ sched_status \in [Aid -> SchedStatus]
      /\ be \in Nat /\ be <= MAX_ACTIVATIONS /\ naps \in 0 .. 3 /\ unique \in Nat
  BY TypeFacts, InitPhase
<1>2. Loading
  BY <1>1 DEF LoadOK, Loading
<1>3. /\ pc \in [Aid -> Places] /\ asked \in [Aid -> Arg \cup {ZERO}] /\ be >= 2
  BY <1>1, MaxActivationsAssumption DEF UType
<1>4. sched_status[memmgt] # "sync_block"
  <2>1. Resting(memmgt)
    BY <1>1, Kinds, Ids DEF Calm
  <2> QED BY <2>1, Kinds DEF Resting, Rests
<1>5. rq \in RunQueues /\ Lists(rq, Active(sched_status)) /\ init \in Active(sched_status)
  BY <1>1, KSideFacts, Ids DEF Active
<1>6. rq.end \in Nat /\ rq.end > 0
  <2>1. rq.end \in 0 .. MAX_ACTIVATIONS
    BY <1>5 DEF RunQueues
  <2>2. Active(sched_status) \in SUBSET Aid
    BY DEF Active
  <2>3. rq.end > 0
    BY <1>5, <2>2, ListedSlot
  <2> QED BY <2>1, <2>3, MaxActivationsAssumption
<1>7. be <= 3 + Daemons \/ ~AllUp => InitFirst
  BY <1>1 DEF Order
<1> QED BY <1>1, <1>2, <1>3, <1>4, <1>5, <1>6, <1>7, Ids

(* The activation that init is about to start has not run.                 *)
LEMMA NotStarted ==
  ASSUME Live, curr = init, pc[init] \in {"register", "start"}
  PROVE  /\ be \in Aid \ {0, init} /\ pc[be] = "new" /\ asked[be] = ZERO
         /\ sched_status[be] = "waiting" /\ be > init
<1>1. /\ Loading /\ LoadOK /\ Calm({init}) /\ be \in Nat /\ be >= 2 /\ MAX_ACTIVATIONS \in Nat
  BY InitFacts
<1>2. be < MAX_ACTIVATIONS
  BY <1>1 DEF Loading
<1>3. be \in Aid \ {0, init} /\ be > init
  BY <1>1, <1>2, Ids
<1>4. ~Started(be)
  BY <1>1 DEF Started
<1>5. pc[be] = "new"
  BY <1>1, <1>3, <1>4 DEF LoadOK
<1>6. Resting(be)
  BY <1>1, <1>3 DEF Calm
<1> QED BY <1>3, <1>4, <1>5, <1>6 DEF Resting, Rests

(* A call of memmgt by init: for a module, or to tell it of namespace.     *)
LEMMA InitCalls ==
  ASSUME Live, CallBound < REPLY_MOD, curr = init, NEW m \in Arg, CallTo(memmgt, m),
         NEW w \in Places \ {"exited"}, pc' = [pc EXCEPT ![init] = w],
         UNCHANGED <<sync_token, bind, memmgt_ref, peer, ops, naps>>,
         \/ /\ m = M("mmap", 0) /\ be' = be /\ be > memmgt
            /\ Stage(w) = Stage(pc[init]) + 1
         \/ m = M("register_ns", 0) /\ be = namespace /\ be' = be + 1 /\ w = "load_module" /\ pc[init] = "glue",
         pc[init] # "nssleep" /\ w # "nssleep", \A a \in Aid : Started(a)' <=> Started(a),
         kernel_next_act' = kernel_next_act => LoadOK'
  PROVE  Live'
<1>1. /\ KSide /\ UType /\ Alive /\ Tokens /\ AnswersMatch /\ Counted /\ Order(init)
      /\ pc[memmgt] # "register_ns" /\ Calm({init}) /\ LoadOK
      /\ pc \in [Aid -> Places] /\ asked \in [Aid -> Arg \cup {ZERO}]
      /\ be \in Nat /\ sched_status \in [Aid -> SchedStatus]
      /\ sched_status[init] = "runnable" /\ sched_status[memmgt] # "sync_block"
      /\ Daemons \in Nat /\ Daemons > 0 /\ MAX_ACTIVATIONS \in Nat
      /\ 4 + Daemons < MAX_ACTIVATIONS /\ init \in Aid /\ memmgt \in Aid /\ unique \in Nat
  BY InitFacts
<1>2. be > memmgt /\ pc[init] # "exited" /\ memmgt \in Services /\ memmgt # init
  <2>1. pc[init] # "exited"
    BY InitFacts DEF Loading
  <2> QED BY <2>1, Kinds, Ids
<1>3. pc[memmgt] = "msg_entry"
  <2>1. Resting(memmgt) /\ pc[memmgt] # "new"
    BY <1>1, <1>2, Kinds DEF Calm, LoadOK
  <2> QED BY <2>1, Kinds DEF Resting, Rests
<1>4. /\ KSide' /\ Alive' /\ Tokens' /\ AnswersMatch'
      /\ unique' = unique + 1 /\ UNCHANGED <<kernel_next_act, status>>
      /\ curr' = memmgt /\ asked' = [asked EXCEPT ![init] = m]
      /\ sched_status' = [sched_status EXCEPT ![init] = "sync_block", ![memmgt] = "runnable"]
      /\ Calm({init, memmgt})' /\ Delivered(init, memmgt)' /\ TakesSlot(init, memmgt)
  BY <1>1, <1>2, <1>3, CallLive
<1>5. pc'[init] = w /\ \A a \in Aid \ {init} : pc'[a] = pc[a]
  BY <1>1
<1>6. UType'
  <2>1. be' \in 2 .. MAX_ACTIVATIONS
    <3>1. be \in 2 .. MAX_ACTIVATIONS
      BY <1>1 DEF UType
    <3>2. be = namespace => be = 3
      BY Ids
    <3> QED BY <3>1, <3>2, <1>1
  <2> QED BY <2>1, <1>1, <1>4 DEF UType
<1>7. LoadOK'
  BY <1>4
<1>8. Phase'
  <2>1. AtTop(init)'
    BY DEF AtTop, Top
  <2>2. Asks(init, memmgt)'
    <3>1. asked'[init] = m
      BY <1>1, <1>4
    <3>2. CASE m = M("mmap", 0)
      BY <3>1, <3>2 DEF Asks
    <3>3. CASE m = M("register_ns", 0) /\ be = namespace /\ be' = be + 1
      <4>1. be' > namespace
        BY <3>3, <1>1
      <4> QED BY <3>1, <3>3, <4>1 DEF Asks
    <3> QED BY <3>2, <3>3
  <2>3. Called(init)'
    BY <2>1, <2>2, <1>4, Kinds DEF Called
  <2>4. AllUp' <=> AllUp
    BY <1>5, Kinds DEF AllUp
  <2>5. be' <= 3 + Daemons => be <= 3 + Daemons
    BY <1>1
  <2>6. Room' = Room /\ (be <= 3 + Daemons => be' <= 3 + Daemons)
    <3>1. CASE be' = be
      BY <3>1, <1>5 DEF Room
    <3>2. CASE be = namespace /\ be' = be + 1
      <4>1. be = 3 /\ be' = 4
        BY <3>2, Ids
      <4> QED BY <4>1, <1>1, <1>5 DEF Room
    <3> QED BY <3>1, <3>2
  <2>7. Order(init)'
    BY <2>4, <2>5, <2>6, <1>1, <1>4, OrderMoves
  <2> QED BY <2>3, <2>7, <1>1 DEF Phase
<1>9. Unbound' <=> Unbound
  <2>1. sched_status'[memmgt] # "sync_block" /\ sched_status'[init] = "sync_block"
        /\ asked'[init] = m /\ pc'[memmgt] = "msg_entry"
    BY <1>1, <1>2, <1>3, <1>4, <1>5
  <2>2. CASE m = M("mmap", 0) /\ be' = be
    BY <2>1, <2>2, <1>1, MFacts DEF Unbound
  <2>3. CASE m = M("register_ns", 0) /\ be = namespace
    BY <2>1, <2>3, Ids DEF Unbound
  <2> QED BY <2>2, <2>3
<1>10. /\ UserOK' /\ Bound'
       /\ \A a \in Aid, row \in Rows, k \in 1 .. 3 : Did(a, row, k) => Did(a, row, k)'
  <2>1. \A a \in Aid \ {init} :
          /\ asked'[a] = asked[a]
          /\ sched_status'[a] = "sync_block" <=> sched_status[a] = "sync_block"
    BY <1>1, <1>4
  <2>2. (be' = be /\ Stage(pc[init]) <= Stage(w)) \/ be' = be + 1
    BY StageRange
  <2> QED BY <2>1, <2>2, <1>9, InitKeeps
<1>11. Counted'
  <2>1. CASE be' = be /\ Stage(w) = Stage(pc[init]) + 1
    <3>1. PICK r \in Rows, n \in 1 .. 3 : r = be /\ n = Stage(w)
      <4>1. Stage(w) \in 1 .. 3
        BY <2>1, StageRange
      <4>2. be \in Rows
        BY InitFacts, Ids DEF Rows
      <4> QED BY <4>1, <4>2
    <3>2. ~Did(init, r, n)
      BY <3>1, <2>1, <1>1, StageRange, Kinds DEF Did
    <3>3. Did(init, r, n)'
      BY <3>1, <2>1, <1>1, <1>5, StageRange DEF Did
    <3> QED BY <3>2, <3>3, <1>1, <1>4, <1>10, CountCall
  <2>2. CASE be = namespace /\ be' = be + 1 /\ pc[init] = "glue"
    <3>1. PICK r \in Rows : r = be
      BY <1>1, InitFacts, Ids DEF Rows
    <3>2. Stage(pc[init]) = 2
      BY <2>2 DEF Stage
    <3>3. ~Did(init, r, 3)
      BY <3>1, <3>2, <1>1, Kinds DEF Did
    <3>4. Did(init, r, 3)'
      BY <3>1, <2>2, <1>1, Kinds DEF Did
    <3>5. 3 \in 1 .. 3
      OBVIOUS
    <3> QED BY <3>3, <3>4, <3>5, <1>1, <1>4, <1>10, CountCall
  <2> QED BY <2>1, <2>2
<1> QED BY <1>4, <1>6, <1>7, <1>8, <1>10, <1>11 DEF Live

(* A step of init through the list of modules.                             *)
LEMMA InitLoads ==
  ASSUME LoadOK, Loading', pc \in [Aid -> Places], NEW w, pc' = [pc EXCEPT ![init] = w],
         \A a \in Aid : Started(a) => Started(a)',
         pc[memmgt] = "new" => be' = memmgt, pc[namespace] = "new" => be' <= namespace,
         be' > 4 + Daemons => AllUp
  PROVE  LoadOK'
<1>1. \A a \in Aid \ {init} : pc'[a] = pc[a]
  OBVIOUS
<1>2. pc'[memmgt] = pc[memmgt] /\ pc'[namespace] = pc[namespace]
  BY <1>1, Kinds, Ids
<1>3. \A a \in Aid : a > init /\ pc'[a] # "new" => Started(a)'
  BY <1>1, Ids DEF LoadOK
<1>4. be' > 4 + Daemons => AllUp'
  BY <1>1, Kinds DEF AllUp
<1> QED BY <1>2, <1>3, <1>4 DEF LoadOK, Loading

(* Memory for a program.                                                   *)
LEMMA InitLoadsElf ==
  ASSUME Live, CallBound < REPLY_MOD, curr = init, LoadElf,
         UNCHANGED <<sync_token, bind, memmgt_ref, peer, ops>>
  PROVE  Live'
<1> DEFINE m == M("mmap", 0)
<1>1. /\ pc[init] = "load_module" /\ pc' = [pc EXCEPT ![init] = "stack"]
      /\ CallTo(memmgt, m) /\ UNCHANGED <<be, naps>>
  BY DEF LoadElf, Goto, curr
<1>2. /\ LoadOK /\ Loading /\ pc \in [Aid -> Places] /\ init \in Aid /\ be \in Nat
  BY InitFacts
<1>3. pc'[init] = "stack"
  BY <1>1, <1>2
<1>4. \A a \in Aid : Started(a)' <=> Started(a)
  BY <1>1, <1>3 DEF Started
<1>5. (kernel_next_act' = kernel_next_act) => LoadOK'
  <2> SUFFICES ASSUME kernel_next_act' = kernel_next_act PROVE LoadOK'
    OBVIOUS
  <2>1. Loading'
    BY <1>1, <1>2, <1>3 DEF Loading
  <2>2. /\ pc[memmgt] = "new" => be' = memmgt
        /\ pc[namespace] = "new" => be' <= namespace
        /\ be' > 4 + Daemons => AllUp
    BY <1>1, <1>2 DEF LoadOK
  <2> QED BY <2>1, <2>2, <1>1, <1>2, <1>4, InitLoads
<1>6. be > memmgt
  BY <1>1, <1>2, Ids DEF Loading
<1>7. Stage("stack") = Stage(pc[init]) + 1
  BY <1>1 DEF Stage
<1>8. m \in Arg
  BY MArg, Ids DEF Requests
<1> HIDE DEF m
<1>9. "stack" \in Places \ {"exited"}
  BY DEF Places
<1>10. m = M("mmap", 0)
  BY DEF m
<1> QED BY <1>1, <1>4, <1>5, <1>6, <1>7, <1>8, <1>9, <1>10, InitCalls

(* Memory for its stack.                                                   *)
LEMMA InitLoadsStack ==
  ASSUME Live, CallBound < REPLY_MOD, curr = init, LoadStack,
         UNCHANGED <<sync_token, bind, memmgt_ref, peer, ops>>
  PROVE  Live'
<1> DEFINE m == M("mmap", 0)
<1>1. /\ pc[init] = "stack" /\ pc' = [pc EXCEPT ![init] = "register"]
      /\ CallTo(memmgt, m) /\ UNCHANGED <<be, naps>>
  BY DEF LoadStack, Goto, curr
<1>2. /\ LoadOK /\ Loading /\ pc \in [Aid -> Places] /\ init \in Aid /\ be \in Nat
      /\ MAX_ACTIVATIONS \in Nat
  BY InitFacts
<1>3. pc'[init] = "register"
  BY <1>1, <1>2
<1>4. \A a \in Aid : Started(a)' <=> Started(a)
  BY <1>1, <1>3 DEF Started
<1>5. (kernel_next_act' = kernel_next_act) => LoadOK'
  <2> SUFFICES ASSUME kernel_next_act' = kernel_next_act PROVE LoadOK'
    OBVIOUS
  <2>1. Loading'
    BY <1>1, <1>2, <1>3 DEF Loading
  <2>2. /\ pc[memmgt] = "new" => be' = memmgt
        /\ pc[namespace] = "new" => be' <= namespace
        /\ be' > 4 + Daemons => AllUp
    BY <1>1, <1>2 DEF LoadOK
  <2> QED BY <2>1, <2>2, <1>1, <1>2, <1>4, InitLoads
<1>6. be > memmgt
  BY <1>1, <1>2, Ids DEF Loading
<1>7. Stage("register") = Stage(pc[init]) + 1
  BY <1>1 DEF Stage
<1>8. m \in Arg
  BY MArg, Ids DEF Requests
<1> HIDE DEF m
<1>9. "register" \in Places \ {"exited"}
  BY DEF Places
<1>10. m = M("mmap", 0)
  BY DEF m
<1> QED BY <1>1, <1>4, <1>5, <1>6, <1>7, <1>8, <1>9, <1>10, InitCalls

(* While init is in glue_memmgt, namespace waits for requests.             *)
LEMMA GlueUp ==
  ASSUME Live, curr = init, pc[init] = "glue"
  PROVE  be = namespace /\ pc[memmgt] # "new" /\ pc[namespace] # "new"
<1>1. /\ KSide /\ Own /\ LoadOK /\ Loading /\ rq.end \in Nat /\ rq.end > 0
      /\ Daemons \in Nat /\ Daemons > 0 /\ be \in Nat
      /\ be <= 3 + Daemons \/ ~AllUp => InitFirst
  BY InitFacts
<1>2. be = namespace /\ be = 3
  BY <1>1, Ids DEF Loading
<1>3. InitFirst
  BY <1>1, <1>2
<1>4. rq.end = 1
  BY <1>1, <1>2, <1>3 DEF InitFirst, Room
<1>5. StartedWait
  BY <1>1, <1>4, Alone DEF InitAlone
<1>6. Started(memmgt) /\ Started(namespace)
  BY <1>2, Ids DEF Started
<1> QED BY <1>2, <1>5, <1>6, Kinds DEF StartedWait

(* init tells memmgt about namespace.                                      *)
LEMMA InitGlues ==
  ASSUME Live, CallBound < REPLY_MOD, curr = init, Glue,
         UNCHANGED <<sync_token, bind, memmgt_ref, peer, ops>>
  PROVE  Live'
<1> DEFINE m == M("register_ns", 0)
<1>1. pc[init] = "glue" /\ CallTo(memmgt, m) /\ naps' = naps /\ be' = be + 1
  BY DEF Glue, NextModule
<1>2. /\ LoadOK /\ Loading /\ pc \in [Aid -> Places] /\ init \in Aid /\ be \in Nat
      /\ MAX_ACTIVATIONS \in Nat /\ Daemons \in Nat /\ Daemons > 0 /\ 4 + Daemons < MAX_ACTIVATIONS
  BY InitFacts
<1>3. be = namespace /\ be = 3 /\ be' = 4 /\ pc[memmgt] # "new" /\ pc[namespace] # "new"
  BY <1>1, GlueUp, Ids
<1>4. pc' = [pc EXCEPT ![init] = "load_module"]
  <2>1. be + 1 # MAX_ACTIVATIONS
    BY <1>2, <1>3
  <2> QED BY <2>1 DEF Glue, NextModule, Goto, curr
<1>5. pc'[init] = "load_module"
  BY <1>2, <1>4
<1>6. \A a \in Aid : Started(a)' <=> Started(a)
  <2>1. \A a \in Aid : a < 3 \/ a = 3 <=> a < 4
    BY Ids
  <2> QED BY <2>1, <1>1, <1>3, <1>5 DEF Started
<1>7. (kernel_next_act' = kernel_next_act) => LoadOK'
  <2> SUFFICES ASSUME kernel_next_act' = kernel_next_act PROVE LoadOK'
    OBVIOUS
  <2>1. Loading'
    <3>1. kernel_next_act = be + 1 /\ naps = 0
      BY <1>1, <1>2 DEF Loading
    <3>2. 4 \in 3 .. MAX_ACTIVATIONS - 1
      BY <1>2
    <3> QED BY <3>1, <3>2, <1>1, <1>3, <1>5 DEF Loading
  <2>2. ~(be' > 4 + Daemons)
    BY <1>2, <1>3
  <2> QED BY <2>1, <2>2, <1>2, <1>3, <1>4, <1>6, InitLoads
<1>8. m \in Arg
  BY MArg, Ids DEF Requests
<1> HIDE DEF m
<1>9. "load_module" \in Places \ {"exited"}
  BY DEF Places
<1>10. m = M("register_ns", 0)
  BY DEF m
<1> QED BY <1>1, <1>3, <1>4, <1>6, <1>7, <1>8, <1>9, <1>10, InitCalls

(* A module is registered.                                                 *)
LEMMA InitRegisters ==
  ASSUME Live, curr = init, RegisterModule,
         UNCHANGED <<sync_token, bind, memmgt_ref, peer, ops>>
  PROVE  Live'
<1>1. /\ pc[init] = "register" /\ pc' = [pc EXCEPT ![init] = "start"]
      /\ act_register /\ UNCHANGED <<be, naps, asked>>
  BY DEF RegisterModule, Goto, curr
<1>2. /\ KSide /\ UType /\ Alive /\ Tokens /\ AnswersMatch /\ Counted /\ Order(init)
      /\ Calm({init}) /\ LoadOK /\ Loading /\ pc \in [Aid -> Places] /\ be \in Nat
      /\ sched_status[init] = "runnable" /\ sched_status[memmgt] # "sync_block"
      /\ init \in Aid /\ MAX_ACTIVATIONS \in Nat /\ unique \in Nat
  BY InitFacts
<1>3. /\ be \in Aid \ {0, init} /\ pc[be] = "new" /\ asked[be] = ZERO
      /\ sched_status[be] = "waiting"
  BY <1>1, NotStarted
<1>4. kernel_next_act = be /\ naps = 0 /\ be < MAX_ACTIVATIONS
  BY <1>1, <1>2 DEF Loading
<1>5. /\ UNCHANGED <<kernel_curr_act, panic, expected_reply, unique, rq, sched_status>>
      /\ status' = [status EXCEPT ![be] = "alive"] /\ frame' = [frame EXCEPT ![be] = NoMsg]
      /\ kernel_next_act' = be + 1 /\ KernelOK(Next_s)
  <2>1. KernelOK(Now)
    BY <1>2, KSideFacts
  <2>2. /\ UNCHANGED <<kernel_curr_act, panic, expected_reply, unique, rq, sched_status>>
        /\ status' = [status EXCEPT ![kernel_next_act] = "alive"]
        /\ frame' = [frame EXCEPT ![kernel_next_act] = NoMsg]
        /\ kernel_next_act' = kernel_next_act + 1 /\ KernelOK(Next_s)
    BY <2>1, <1>1, <1>3, <1>4, Registers
  <2> QED BY <2>2, <1>4
<1>6. pc'[init] = "start" /\ \A a \in Aid \ {init} : pc'[a] = pc[a]
  BY <1>1, <1>2
<1>7. \A a \in Aid : Started(a)' <=> Started(a)
  BY <1>1, <1>6 DEF Started
<1>8. /\ panic = "no" /\ status \in [Aid -> Status] /\ frame \in [Aid -> Msg]
      /\ expected_reply \in [Aid -> 0 .. UNIQUE_MOD - 1] /\ unique \in 0 .. UNIQUE_MOD - 1
      /\ kernel_curr_act = init /\ status[be] = "alive"
  <2>1. status[be] = "alive"
    BY <1>2, <1>3 DEF Alive
  <2> QED BY <2>1, <1>2, KSideFacts DEF curr
<1>9. status' = status
  BY <1>5, <1>8
<1>10. KSide'
  <2>1. kernel_next_act' \in 0 .. MAX_ACTIVATIONS
    BY <1>2, <1>4, <1>5
  <2>2. sched_status'[init] = "runnable" /\ kernel_curr_act' = init /\ init # 0 /\ panic' = "no"
    BY <1>2, <1>5, <1>8, Kinds
  <2> QED BY <2>1, <2>2, <1>2, <1>5, <1>8, <1>9, KSideNext
<1>11. UType'
  <2>1. "start" \in Places
    BY DEF Places
  <2> QED BY <2>1, <1>1, <1>2 DEF UType
<1>12. LoadOK'
  <2>1. Loading'
    BY <1>1, <1>4, <1>5, <1>6 DEF Loading
  <2>2. /\ pc[memmgt] = "new" => be' = memmgt
        /\ pc[namespace] = "new" => be' <= namespace
        /\ be' > 4 + Daemons => AllUp
    BY <1>1, <1>2 DEF LoadOK
  <2> QED BY <2>1, <2>2, <1>1, <1>2, <1>7, InitLoads
<1>13. Phase'
  <2>1. Calm({init})'
    <3> SUFFICES ASSUME NEW a \in Aid \ {0, init} PROVE Resting(a)'
      BY DEF Calm
    <3>1. Resting(a) /\ pc'[a] = pc[a]
      BY <1>2, <1>6 DEF Calm
    <3> QED BY <3>1, <1>1, <1>5, <1>7 DEF Resting, Rests
  <2>2. AtTop(init)'
    BY DEF AtTop, Top
  <2>3. curr' = init
    BY <1>5, <1>8 DEF curr
  <2>4. Order(init)'
    <3>1. AllUp' <=> AllUp
      BY <1>6, Kinds DEF AllUp
    <3>2. Room' = Room
      BY <1>1, <1>6 DEF Room
    <3>3. be <= 3 + Daemons \/ ~AllUp => InitFirst
      BY InitFacts
    <3> SUFFICES ASSUME be <= 3 + Daemons \/ ~AllUp PROVE InitFirst'
      BY <3>1, <1>1 DEF Order
    <3> QED BY <3>2, <3>3, <1>1, <1>5, <2>3 DEF InitFirst
  <2>5. Own'
    BY <2>1, <2>2, <2>3 DEF Own, curr
  <2>6. Order(curr)'
    BY <2>3, <2>4 DEF Order, OtherFirst, curr
  <2> QED BY <2>5, <2>6 DEF Phase
<1>14. /\ UserOK' /\ Bound'
       /\ \A a \in Aid, row \in Rows, k \in 1 .. 3 : Did(a, row, k) => Did(a, row, k)'
  <2>1. Unbound' <=> Unbound
    BY <1>1, <1>5, <1>6, Kinds, Ids DEF Unbound
  <2>2. Stage("start") = Stage(pc[init]) /\ "start" \in Places
    BY <1>1 DEF Stage, Places
  <2>3. be' = be /\ Stage(pc[init]) <= Stage("start")
    BY <1>1, <2>2, StageRange
  <2> QED BY <2>1, <2>2, <2>3, <1>1, <1>5, InitKeeps
<1>15. Counted'
  BY <1>2, <1>5, <1>14, CountSame
<1>16. Alive'
  BY <1>2, <1>6, <1>9, <1>1 DEF Alive
<1>17. Tokens'
  BY <1>2, <1>5, <1>6, Kinds, Ids DEF Tokens, tok
<1>18. AnswersMatch'
  <2>1. \A a \in Aid : asked'[a] = asked[a] /\ sched_status'[a] = sched_status[a]
                       /\ (a = be \/ frame'[a] = frame[a])
    BY <1>1, <1>5, <1>8
  <2> QED BY <2>1, <1>2, <1>3, <1>1 DEF AnswersMatch
<1> QED BY <1>10, <1>11, <1>12, <1>13, <1>14, <1>15, <1>16, <1>17, <1>18 DEF Live

(* A program is put behind the others in the run queue.                    *)
LEMMA QAddEnd ==
  ASSUME NEW q, q.end \in Nat, q.end > 0, q.end \in Aid, q.squeue_a \in [Aid -> Aid],
         NEW b \in Aid
  PROVE  /\ QADD(q, b).end = q.end + 1 /\ QADD(q, b).idx = q.idx
         /\ QADD(q, b).squeue_a[0] = q.squeue_a[0]
BY Ids DEF QADD

(* What init and the one that it starts do to the run queue.               *)
LEMMA InitStartsOrder ==
  ASSUME Live, Daemons <= 7, curr = init, pc[init] = "start", curr' = init, rq' = QADD(rq, be),
         \A d \in DaemonIds : pc'[d] = pc[d],
         \/ Fenced(be) /\ naps' = 3 /\ pc'[init] = "nssleep" /\ be' = be
         \/ ~Fenced(be) /\ be' = be + 1 /\ pc'[init] # "nssleep"
  PROVE  Order(init)' /\ (be' > 4 + Daemons => AllUp)
<1>1. /\ KSide /\ be \in Nat /\ be >= 2 /\ rq \in RunQueues /\ rq.end \in Nat /\ rq.end > 0
      /\ Daemons \in Nat /\ Daemons > 0 /\ LoadOK
      /\ Lists(rq, Active(sched_status)) /\ Active(sched_status) \in SUBSET (Aid \ {0})
      /\ be <= 3 + Daemons \/ ~AllUp => InitFirst
  BY InitFacts, KSideFacts
<1>2. be \in Aid /\ sched_status[be] = "waiting"
  BY NotStarted
<1>3. rq.end \in Aid
  <2>1. be \in Aid \ {0} /\ be \notin Active(sched_status)
    BY <1>2, NotStarted DEF Active
  <2> QED BY <2>1, <1>1, RunQueueHasRoom
<1>4. rq'.end = rq.end + 1 /\ rq'.idx = rq.idx /\ rq'.squeue_a[0] = rq.squeue_a[0]
  BY <1>1, <1>2, <1>3, QAddEnd DEF RunQueues
<1>5. be > 3 + Daemons => AllUp
  <2>1. be > 3 + Daemons => ~(be <= 3 + Daemons)
    BY <1>1
  <2> QED BY <2>1, <1>1 DEF InitFirst
<1>6. AllUp' <=> AllUp
  BY DEF AllUp
<1>7. be' > 4 + Daemons => AllUp
  <2>1. be' > 4 + Daemons => be > 3 + Daemons
    BY <1>1
  <2> QED BY <2>1, <1>5
<1>8. Order(init)'
  <2> SUFFICES ASSUME be' <= 3 + Daemons \/ ~AllUp PROVE InitFirst'
    BY <1>6 DEF Order
  <2>1. be <= 3 + Daemons
    <3>1. be' <= 3 + Daemons => be <= 3 + Daemons
      BY <1>1
    <3> QED BY <3>1, <1>1, <1>5
  <2>2. rq.idx = 0 /\ rq.squeue_a[0] = curr /\ rq.end <= Room
    BY <2>1, <1>1 DEF InitFirst
  <2>3. Room = IF be <= 4 THEN 1 ELSE be - 3
    BY DEF Room
  <2>4. CASE Fenced(be) /\ naps' = 3 /\ pc'[init] = "nssleep" /\ be' = be
    <3>1. pow[3] = 8
      BY DEF pow
    <3>2. Room' = IF be > namespace THEN 8 ELSE 2
      BY <2>4, <3>1 DEF Room
    <3>3. be = 2 \/ be = 3 \/ be = 3 + Daemons
      BY <2>4, Ids DEF Fenced
    <3>4. Room <= 7
      BY <2>1, <2>3, <1>1
    <3>5. rq.end + 1 <= Room'
      <4>1. CASE be > namespace
        BY <4>1, <3>2, <3>4, <2>2, <2>3, <1>1
      <4>2. CASE ~(be > namespace)
        <5>1. be <= 4 /\ Room = 1
          BY <4>2, <2>3, <1>1, Ids
        <5> QED BY <4>2, <5>1, <3>2, <2>2, <1>1
      <4> QED BY <4>1, <4>2
    <3> QED BY <2>1, <2>2, <2>4, <3>5, <1>4 DEF InitFirst
  <2>5. CASE ~Fenced(be) /\ be' = be + 1 /\ pc'[init] # "nssleep"
    <3>1. be # 2 /\ be # 3 /\ be # 3 + Daemons
      BY <2>5, Ids DEF Fenced
    <3>2. be >= 4 /\ be' <= 3 + Daemons
      BY <3>1, <2>1, <2>5, <1>1
    <3>3. Room' = be' - 3
      <4>1. Room' = IF be' <= 4 THEN 1 ELSE be' - 3
        BY <2>5 DEF Room
      <4> QED BY <4>1, <3>2, <2>5, <1>1
    <3>4. rq.end + 1 <= Room'
      BY <3>2, <3>3, <2>2, <2>3, <2>5, <1>1
    <3> QED BY <2>2, <3>2, <3>4, <1>4 DEF InitFirst
  <2> QED BY <2>4, <2>5
<1> QED BY <1>7, <1>8

(* A module is sent the message that starts it.                            *)
LEMMA InitStarts ==
  ASSUME Live, Daemons <= 7, curr = init, StartModule,
         UNCHANGED <<sync_token, bind, memmgt_ref, peer, ops>>
  PROVE  Live'
<1>1. /\ pc[init] = "start" /\ ccall_send(be, TRUE, M("start", 0))
      /\ asked' = [asked EXCEPT ![init] = ZERO]
  BY DEF StartModule
<1>2. /\ KSide /\ UType /\ Alive /\ Tokens /\ AnswersMatch /\ Counted
      /\ Calm({init}) /\ LoadOK /\ Loading /\ pc \in [Aid -> Places] /\ be \in Nat
      /\ asked \in [Aid -> Arg \cup {ZERO}] /\ sched_status \in [Aid -> SchedStatus]
      /\ sched_status[init] = "runnable" /\ sched_status[memmgt] # "sync_block"
      /\ init \in Aid /\ MAX_ACTIVATIONS \in Nat /\ unique \in Nat /\ be >= 2
      /\ Daemons \in Nat /\ Daemons > 0 /\ 4 + Daemons < MAX_ACTIVATIONS /\ pc[memmgt] # "register_ns"
  BY InitFacts
<1>3. /\ be \in Aid \ {0, init} /\ pc[be] = "new" /\ asked[be] = ZERO
      /\ sched_status[be] = "waiting" /\ be > init
  BY <1>1, NotStarted
<1>4. kernel_next_act = be + 1 /\ naps = 0 /\ be < MAX_ACTIVATIONS
  BY <1>1, <1>2 DEF Loading
<1>5. /\ kernel_curr_act = init /\ panic = "no" /\ KernelOK(Now) /\ init # 0
      /\ status \in [Aid -> Status] /\ frame \in [Aid -> Msg]
      /\ expected_reply \in [Aid -> 0 .. UNIQUE_MOD - 1] /\ unique \in 0 .. UNIQUE_MOD - 1
      /\ kernel_next_act \in 0 .. MAX_ACTIVATIONS
  BY <1>2, KSideFacts, Kinds DEF curr
<1>6. /\ UNCHANGED <<kernel_curr_act, panic, status, expected_reply, kernel_next_act, unique>>
      /\ sched_status' = [sched_status EXCEPT ![be] = "schedulable"] /\ rq' = QADD(rq, be)
      /\ frame' = [frame EXCEPT ![init] = [v0 |-> M("start", 0), c1 |-> NULL]]
      /\ KernelOK(Next_s)
  <2>1. /\ UNCHANGED <<kernel_curr_act, panic, status, expected_reply, kernel_next_act, unique>>
        /\ sched_status' = [sched_status EXCEPT ![be] = "schedulable"] /\ rq' = QADD(rq, be)
        /\ frame' = [frame EXCEPT ![kernel_curr_act] = [v0 |-> M("start", 0), c1 |-> NULL]]
        /\ KernelOK(Next_s)
    BY <1>1, <1>2, <1>3, <1>5, SendStarts
  <2> QED BY <2>1, <1>5
<1>7. PICK w \in {"nssleep", "load_module", "acts_alive"} :
        /\ pc' = [pc EXCEPT ![init] = w]
        /\ \/ Fenced(be) /\ w = "nssleep" /\ naps' = 3 /\ be' = be
           \/ /\ ~Fenced(be) /\ be' = be + 1 /\ naps' = naps
              /\ w = IF be + 1 = MAX_ACTIVATIONS THEN "acts_alive" ELSE "load_module"
  BY DEF StartModule, NextModule, Goto, curr
<1>8. pc'[init] = w /\ \A a \in Aid \ {init} : pc'[a] = pc[a] /\ asked'[a] = asked[a]
  BY <1>2, <1>7, <1>1
<1>9. \A a \in Aid : Started(a)' <=> (Started(a) \/ a = be)
  <2>1. CASE Fenced(be) /\ w = "nssleep" /\ be' = be
    BY <2>1, <1>1, <1>8 DEF Started
  <2>2. CASE be' = be + 1
    <3>1. \A a \in Aid : a < be + 1 <=> (a < be \/ a = be)
      BY <1>2, Ids
    <3>2. w = "nssleep" => be' = be
      BY <1>7
    <3>3. \A a \in Aid : Started(a)' <=> a < be + 1
      BY <2>2, <1>2, <1>7, <1>8 DEF Started
    <3>4. \A a \in Aid : Started(a) <=> a < be
      BY <1>1 DEF Started
    <3> QED BY <3>1, <3>3, <3>4
  <2> QED BY <2>1, <2>2, <1>7
<1>10. KSide'
  <2>1. sched_status'[init] = "runnable" /\ kernel_curr_act' = init /\ panic' = "no"
    BY <1>2, <1>3, <1>5, <1>6
  <2> QED BY <2>1, <1>2, <1>5, <1>6, KSideNext
<1>11. UType'
  <2>1. w \in Places
    BY DEF Places
  <2>2. be' \in 2 .. MAX_ACTIVATIONS /\ naps' \in 0 .. 3
    BY <1>2, <1>4, <1>7
  <2> QED BY <2>1, <2>2, <1>1, <1>2, <1>7 DEF UType
<1>12. Order(init)' /\ (be' > 4 + Daemons => AllUp)
  <2>1. curr' = init
    BY <1>5, <1>6 DEF curr
  <2>2. \A d \in DaemonIds : pc'[d] = pc[d]
    BY <1>8, Kinds
  <2>3. \/ Fenced(be) /\ naps' = 3 /\ pc'[init] = "nssleep" /\ be' = be
        \/ ~Fenced(be) /\ be' = be + 1 /\ pc'[init] # "nssleep"
    BY <1>7, <1>8
  <2> QED BY <2>1, <2>2, <2>3, <1>1, <1>6, InitStartsOrder
<1>13. LoadOK'
  <2>1. Loading'
    <3>1. CASE Fenced(be) /\ w = "nssleep" /\ naps' = 3 /\ be' = be
      BY <3>1, <1>4, <1>6, <1>8 DEF Loading, Fenced
    <3>2. CASE be' = be + 1 /\ naps' = naps /\ be + 1 = MAX_ACTIVATIONS /\ w = "acts_alive"
      BY <3>2, <1>4, <1>8 DEF Loading
    <3>3. CASE be' = be + 1 /\ naps' = naps /\ be + 1 # MAX_ACTIVATIONS /\ w = "load_module"
      <4>1. be + 1 \in 3 .. MAX_ACTIVATIONS - 1
        BY <3>3, <1>2, <1>4
      <4> QED BY <4>1, <3>3, <1>4, <1>6, <1>8 DEF Loading
    <3> QED BY <3>1, <3>2, <3>3, <1>7
  <2>2. ~Fenced(be) => be # memmgt /\ be # namespace /\ ~(be <= namespace)
    BY <1>2, Ids DEF Fenced
  <2>3. /\ pc[memmgt] = "new" => be' = memmgt
        /\ pc[namespace] = "new" => be' <= namespace
    <3>1. (pc[memmgt] = "new" => be = memmgt) /\ (pc[namespace] = "new" => be <= namespace)
      BY <1>2 DEF LoadOK
    <3>2. be' = be \/ ~Fenced(be)
      BY <1>7
    <3> QED BY <2>2, <3>1, <3>2
  <2>4. \A a \in Aid : Started(a) => Started(a)'
    BY <1>9
  <2>5. pc' = [pc EXCEPT ![init] = w] /\ LoadOK /\ pc \in [Aid -> Places]
    BY <1>2, <1>7
  <2> QED BY <2>1, <2>3, <2>4, <2>5, <1>12, InitLoads
<1>14. \A a \in Aid \ {be} : sched_status'[a] = sched_status[a]
  BY <1>2, <1>6
<1>15. sched_status'[be] = "schedulable"
  BY <1>2, <1>3, <1>6
<1>16. Phase'
  <2>1. Calm({init})'
    <3> SUFFICES ASSUME NEW a \in Aid \ {0, init} PROVE Resting(a)'
      BY DEF Calm
    <3>1. CASE a = be
      <4>1. pc'[a] = "new" /\ asked'[a] = ZERO /\ sched_status'[a] = "schedulable" /\ a > init
        BY <3>1, <1>3, <1>8, <1>15
      <4>2. Started(a)'
        BY <3>1, <1>9
      <4> QED BY <4>1, <4>2 DEF Resting, Rests
    <3>2. CASE a # be
      <4>1. Resting(a) /\ pc'[a] = pc[a] /\ asked'[a] = asked[a] /\ sched_status'[a] = sched_status[a]
            /\ (Started(a)' <=> Started(a))
        BY <3>2, <1>2, <1>8, <1>9, <1>14 DEF Calm
      <4> QED BY <4>1 DEF Resting, Rests
    <3> QED BY <3>1, <3>2
  <2>2. AtTop(init)'
    BY DEF AtTop, Top
  <2>3. curr' = init
    BY <1>5, <1>6 DEF curr
  <2>4. Own'
    BY <2>1, <2>2, <2>3 DEF Own, curr
  <2>5. Order(curr)'
    BY <1>12, <2>3 DEF Order, OtherFirst, curr
  <2> QED BY <2>4, <2>5 DEF Phase
<1>17. /\ UserOK' /\ Bound'
       /\ \A a \in Aid, row \in Rows, k \in 1 .. 3 : Did(a, row, k) => Did(a, row, k)'
  <2>1. be' <= namespace <=> be <= namespace
    <3>1. ~Fenced(be) => ~(be <= namespace) /\ ~(be + 1 <= namespace)
      BY <1>2, Ids DEF Fenced
    <3> QED BY <3>1, <1>7
  <2>2. sched_status'[init] # "sync_block" /\ sched_status'[memmgt] # "sync_block"
    BY <1>2, <1>3, <1>14, <1>15, Ids
  <2>3. Unbound' <=> Unbound
    BY <2>1, <2>2, <1>2 DEF Unbound
  <2>4. Stage("nssleep") = Stage(pc[init])
    BY <1>1 DEF Stage
  <2>5. (be' = be /\ Stage(pc[init]) <= Stage(w)) \/ be' = be + 1
    BY <2>4, <1>7, StageRange
  <2>6. \A a \in Aid \ {init} :
          /\ asked'[a] = asked[a]
          /\ sched_status'[a] = "sync_block" <=> sched_status[a] = "sync_block"
    BY <1>3, <1>8, <1>14, <1>15
  <2>7. w \in Places
    BY DEF Places
  <2> QED BY <2>3, <2>5, <2>6, <2>7, <1>7, InitKeeps
<1>18. Counted'
  BY <1>2, <1>6, <1>17, CountSame
<1>19. Alive'
  <2>1. pc'[init] # "exited" /\ pc[init] # "exited"
    BY <1>1, <1>8
  <2> QED BY <2>1, <1>2, <1>6, <1>8 DEF Alive
<1>20. Tokens'
  <2>1. \A a \in Aid : sched_status'[a] = "sync_block" => sched_status[a] = "sync_block"
    BY <1>14, <1>15
  <2>2. \A s \in Aid : sync_token'[s] \in {sync_token[s], NULL}
    OBVIOUS
  <2> QED BY <2>1, <2>2, <1>2, <1>6, <1>11, TokensKeep
<1>21. AnswersMatch'
  <2>1. ASSUME NEW a \in Aid, asked'[a] # ZERO, sched_status'[a] = "runnable"
        PROVE  frame'[a].v0 = Due(asked'[a])
    <3>1. a # init
      BY <2>1, <1>1, <1>2
    <3>2. a # be
      BY <2>1, <1>15
    <3> QED BY <2>1, <3>1, <3>2, <1>2, <1>5, <1>6, <1>8, <1>14, Matching
  <2> QED BY <2>1 DEF AnswersMatch, Due
<1> QED BY <1>10, <1>11, <1>13, <1>16, <1>17, <1>18, <1>19, <1>20, <1>21 DEF Live

(* A nap of init ends, or one of nssleep(3), or nssleep itself.            *)
Napped == \/ naps > 1 /\ pc'[init] = "nssleep" /\ be' = be
          \/ naps = 1 /\ be = namespace /\ pc'[init] = "glue" /\ be' = be
          \/ naps = 1 /\ be # namespace /\ pc'[init] = "load_module" /\ be' = be + 1

(* Before the last nap memmgt, or namespace, waits for requests.           *)
LEMMA NapUp ==
  ASSUME Live, curr = init, pc[init] = "nssleep", naps = 1, be = memmgt
  PROVE  pc[memmgt] # "new"
<1>1. /\ KSide /\ Own /\ rq.end \in Nat /\ rq.end > 0 /\ be = 2 /\ Daemons \in Nat
      /\ be <= 3 + Daemons \/ ~AllUp => InitFirst
  BY InitFacts, Ids
<1>2. rq.end = 1
  <2>1. InitFirst
    BY <1>1
  <2>2. Room = 1
    BY <1>1, Ids DEF Room
  <2> QED BY <1>1, <2>1, <2>2 DEF InitFirst
<1>3. StartedWait
  BY <1>1, <1>2, Alone DEF InitAlone
<1>4. Started(memmgt)
  BY DEF Started
<1> QED BY <1>3, <1>4, Kinds DEF StartedWait

(* There is always room for init.                                          *)
LEMMA OneAtLeast == \A n \in Nat : (IF n <= 4 THEN 1 ELSE n - 3) >= 1
OBVIOUS

(* A nap lets the others run in the order that Order describes.            *)
LEMMA NapOrder ==
  ASSUME Live, curr = init, pc[init] = "nssleep", naps > 0, naps' = naps - 1, Napped,
         KSide', Own', LoadOK', NextSlot(rq), curr' \in Aid \ {0},
         \A a \in Aid \ {init} : pc'[a] = pc[a]
  PROVE  Order(curr)'
<1>1. /\ KSide /\ be \in Nat /\ rq \in RunQueues /\ rq.end \in Nat /\ rq.end > 0
      /\ Daemons \in Nat /\ Daemons > 0 /\ Loading /\ Lists(rq, Active(sched_status))
      /\ be <= 3 + Daemons \/ ~AllUp => InitFirst
      /\ naps \in 1 .. 3 /\ naps' \in 0 .. 2
  BY InitFacts
<1>2. be = 2 \/ be = 3 \/ be = 3 + Daemons
  BY <1>1, Ids DEF Loading, Fenced
<1>3. rq.idx = 0 /\ rq.squeue_a[0] = init /\ rq.end <= Room
  BY <1>1, <1>2 DEF InitFirst
<1>4. Room = IF be > 3 THEN pow[naps] ELSE IF naps = 3 THEN 2 ELSE 1
  BY Ids DEF Room
<1>5. pow[0] = 1 /\ pow[1] = 2 /\ pow[2] = 4 /\ pow[3] = 8
  BY DEF pow
<1>6. /\ rq'.end = rq.end /\ rq'.squeue_a = rq.squeue_a /\ rq'.idx = (0 + 1) % rq.end
      /\ kernel_curr_act' = rq.squeue_a[(0 + 1) % rq.end]
  BY <1>1, <1>3 DEF NextSlot, RunQueues
<1> SUFFICES ASSUME be' <= 3 + Daemons \/ ~AllUp'
             PROVE  (IF curr = init THEN InitFirst ELSE OtherFirst(curr))'
  BY DEF Order
<1>7. CASE rq.end = 1
  <2>1. (0 + 1) % rq.end = 0
    BY <1>7
  <2>2. rq'.idx = 0 /\ kernel_curr_act' = init /\ rq'.end = 1 /\ rq'.squeue_a[0] = init
    BY <2>1, <1>3, <1>6, <1>7
  <2>3. be' <= 3 + Daemons
    <3> SUFFICES ASSUME ~(be' <= 3 + Daemons) PROVE FALSE
      OBVIOUS
    <3>1. be' = 4 + Daemons
      BY <1>1, <1>2 DEF Napped
    <3>2. InitAlone'
      BY <2>2 DEF InitAlone, curr
    <3>3. StartedWait'
      BY <3>2, Alone, PTL
    <3>4. \A d \in DaemonIds : Started(d)' /\ d \in Services
      BY <3>1, Kinds, ProgramAssumption DEF Started, DaemonIds
    <3>5. AllUp'
      BY <3>3, <3>4 DEF AllUp, StartedWait
    <3> QED BY <3>5
  <2>4. rq'.end <= Room'
    <3>1. be' \in Nat
      BY <1>1 DEF Napped
    <3>2. Room' >= 1
      <4>1. CASE pc'[init] = "nssleep"
        <5>1. Room' = IF be' > 3 THEN pow[naps'] ELSE IF naps' = 3 THEN 2 ELSE 1
          BY <4>1, Ids DEF Room
        <5>2. naps' = 0 \/ naps' = 1 \/ naps' = 2
          BY <1>1
        <5>3. pow[naps'] \in {1, 2, 4}
          BY <5>2, <1>5
        <5> QED BY <5>1, <5>3
      <4>2. CASE pc'[init] # "nssleep"
        <5>1. Room' = IF be' <= 4 THEN 1 ELSE be' - 3
          BY <4>2 DEF Room
        <5> QED BY <5>1, <3>1, OneAtLeast
      <4> QED BY <4>1, <4>2
    <3> QED BY <3>2, <2>2
  <2>5. InitFirst'
    BY <2>2, <2>3, <2>4 DEF InitFirst, curr
  <2> QED BY <2>2, <2>5 DEF curr
<1>8. CASE rq.end # 1
  <2>1. rq.end \in Nat /\ rq.end > 1
    BY <1>1, <1>8
  <2>2. (0 + 1) % rq.end = 1
    BY <2>1
  <2>3. rq'.idx = 1 /\ kernel_curr_act' = rq.squeue_a[1] /\ rq'.squeue_a = rq.squeue_a
        /\ rq'.end = rq.end
    BY <2>2, <1>6
  <2>4. kernel_curr_act' # init
    <3>1. 0 \in 0 .. rq.end - 1 /\ 1 \in 0 .. rq.end - 1
      BY <2>1
    <3>2. rq.aqueue[rq.squeue_a[0]] = 0 /\ rq.aqueue[rq.squeue_a[1]] = 1
      BY <3>1, <1>1 DEF Lists
    <3> QED BY <3>2, <2>3, <1>3
  <2>5. AtTop(curr)' /\ curr' \in Aid \ {0, init}
    BY <2>4 DEF Own, curr
  <2>6. CASE be <= 3
    <3>1. naps = 3 /\ rq.end = 2
      BY <2>1, <2>6, <1>1, <1>3, <1>4
    <3>2. naps' = 2 /\ be' = be /\ pc'[init] = "nssleep"
      BY <3>1 DEF Napped
    <3>3. be \in {2, 3}
      BY <2>6, <1>1, <1>2
    <3>4. curr' \in UserIds => ~Started(curr)'
      <4>1. \A u \in UserIds : u > 3
        BY Ids
      <4>2. \A u \in UserIds : ~Started(u)'
        BY <3>2, <3>3, <4>1, Ids DEF Started
      <4> QED BY <4>2 DEF Started
    <3>5. curr' \in Services /\ Started(curr)'
      BY <2>5, <3>4, Kinds DEF AtTop, Top
    <3>6. curr' <= be
      BY <3>5, <3>2, <2>5, <1>1, Ids DEF Started
    <3>7. curr' = be
      <4>1. curr' = 2 \/ curr' = 3
        BY <3>3, <3>6, <2>5, Ids
      <4>2. CASE curr' = 2 /\ be = 3
        <5>1. pc'[memmgt] # "new"
          BY <3>2, <4>2, Ids DEF LoadOK
        <5>2. pc'[curr'] = "new"
          BY <2>5, <4>2, Kinds, Ids DEF AtTop, Top
        <5> QED BY <5>1, <5>2, <4>2, Ids
      <4> QED BY <4>1, <4>2, <3>3, <3>6
    <3>8. OtherFirst(curr)'
      <4>1. 1 \in 1 .. 2 - 1
        OBVIOUS
      <4> QED BY <4>1, <3>1, <3>2, <3>3, <3>7, <2>3, <1>3, Ids DEF OtherFirst, curr
    <3> QED BY <2>4, <3>8 DEF curr
  <2>7. CASE be > 3
    <3>1. be = 3 + Daemons /\ rq.end <= pow[naps]
      BY <2>7, <1>1, <1>2, <1>3, <1>4
    <3>2. rq.end + 1 <= 2 * pow[naps'] + 1
      <4>1. naps = 1 \/ naps = 2 \/ naps = 3
        BY <1>1
      <4>2. pow[naps] = 2 * pow[naps']
        BY <4>1, <1>5
      <4> QED BY <3>1, <4>2, <2>1, <1>1, <1>5
    <3>3. \/ be' = 3 + Daemons /\ pc'[init] = "nssleep"
          \/ be' = 4 + Daemons /\ naps' = 0 /\ pc'[init] = "load_module"
      BY <3>1, <2>7, <1>1, Ids DEF Napped
    <3>4. curr' \in DaemonIds
      <4>1. curr' \notin UserIds
        <5>1. \A u \in UserIds : ~Started(u)'
          BY <3>3, ProgramAssumption, MaxActivationsAssumption DEF Started, UserIds
        <5> QED BY <5>1, <2>5, Kinds DEF AtTop, Top
      <4>2. curr' \notin {memmgt, namespace}
        <5>1. curr' \in {memmgt, namespace} => pc'[curr'] # "new"
          BY <3>3, <1>1, Ids DEF LoadOK
        <5>2. curr' \in {memmgt, namespace} => pc'[curr'] = "new"
          BY <2>5, Kinds DEF AtTop, Top
        <5> QED BY <5>1, <5>2
      <4> QED BY <4>1, <4>2, <2>5, Kinds DEF Services
    <3>5. OtherFirst(curr)'
      <4>1. 1 \in 1 .. rq.end - 1
        BY <2>1
      <4> QED BY <4>1, <3>2, <3>3, <3>4, <2>3, <1>3 DEF OtherFirst, curr
    <3> QED BY <2>4, <3>5 DEF curr
  <2> QED BY <2>6, <2>7, <1>1
<1> QED BY <1>7, <1>8

(* init sleeps.                                                            *)
LEMMA InitNaps ==
  ASSUME Live, curr = init, Nap, UNCHANGED <<sync_token, bind, memmgt_ref, peer, ops>>
  PROVE  Live'
<1>1. /\ pc[init] = "nssleep" /\ naps > 0 /\ syscall_sleep /\ naps' = naps - 1
      /\ UNCHANGED asked
  BY DEF Nap
<1>2. /\ KSide /\ UType /\ Alive /\ Tokens /\ AnswersMatch /\ Counted
      /\ Calm({init}) /\ LoadOK /\ Loading /\ pc \in [Aid -> Places] /\ be \in Nat
      /\ sched_status \in [Aid -> SchedStatus] /\ naps \in 0 .. 3
      /\ sched_status[init] = "runnable" /\ sched_status[memmgt] # "sync_block"
      /\ init \in Aid /\ memmgt \in Aid /\ MAX_ACTIVATIONS \in Nat /\ unique \in Nat /\ be >= 2
      /\ Daemons \in Nat /\ Daemons > 0 /\ 4 + Daemons < MAX_ACTIVATIONS /\ pc[memmgt] # "register_ns"
  BY InitFacts
<1>3. Fenced(be) /\ kernel_next_act = be + 1 /\ (be = 2 \/ be = 3 \/ be = 3 + Daemons)
  BY <1>1, <1>2, Ids DEF Loading, Fenced
<1>4. PICK w \in {"nssleep", "glue", "load_module"} : pc' = [pc EXCEPT ![init] = w]
  <2>1. CASE naps > 1
    <3>1. pc' = [pc EXCEPT ![init] = "nssleep"]
      BY <2>1, <1>1, <1>2 DEF Nap
    <3> QED BY <3>1
  <2>2. CASE naps = 1 /\ be = namespace
    BY <2>2 DEF Nap, Goto, curr
  <2>3. CASE naps = 1 /\ be # namespace
    <3>1. be + 1 # MAX_ACTIVATIONS
      BY <1>2, <1>3
    <3> QED BY <2>3, <3>1 DEF Nap, NextModule, Goto, curr
  <2> QED BY <2>1, <2>2, <2>3, <1>1, <1>2
<1>5. pc'[init] = w /\ \A a \in Aid \ {init} : pc'[a] = pc[a]
  BY <1>2, <1>4
<1>6. Napped
  <2>1. CASE naps > 1
    BY <2>1, <1>1, <1>2 DEF Nap, Napped
  <2>2. CASE naps = 1 /\ be = namespace
    BY <2>2, <1>2 DEF Nap, Goto, curr, Napped
  <2>3. CASE naps = 1 /\ be # namespace
    <3>1. be + 1 # MAX_ACTIVATIONS
      BY <1>2, <1>3
    <3> QED BY <2>3, <3>1, <1>2 DEF Nap, NextModule, Goto, curr, Napped
  <2> QED BY <2>1, <2>2, <2>3, <1>1, <1>2
<1>7. \A a \in Aid : Started(a)' <=> Started(a)
  <2>1. CASE be' = be /\ pc'[init] \in {"nssleep", "glue"}
    BY <2>1, <1>1 DEF Started
  <2>2. CASE be' = be + 1 /\ pc'[init] = "load_module"
    <3>1. \A a \in Aid : a < be + 1 <=> (a < be \/ a = be)
      BY <1>2, Ids
    <3>2. \A a \in Aid : Started(a)' <=> a < be + 1
      BY <2>2 DEF Started
    <3>3. \A a \in Aid : Started(a) <=> (a < be \/ a = be)
      BY <1>1 DEF Started
    <3> QED BY <3>1, <3>2, <3>3
  <2> QED BY <2>1, <2>2, <1>6 DEF Napped
<1>8. UType'
  <2>1. w \in Places
    BY DEF Places
  <2>2. be' \in 2 .. MAX_ACTIVATIONS /\ naps' \in 0 .. 3
    BY <1>1, <1>2, <1>3, <1>6 DEF Napped
  <2> QED BY <2>1, <2>2, <1>1, <1>2, <1>4 DEF UType
<1>9. /\ KSide' /\ Own' /\ AnswersMatch' /\ Alive' /\ Tokens'
      /\ NextSlot(rq) /\ curr' \in Aid \ {0}
      /\ sched_status[curr'] \in {"runnable", "schedulable"}
      /\ sched_status' = [sched_status EXCEPT ![curr'] = "runnable"]
      /\ UNCHANGED <<unique, kernel_next_act>>
  <2>1. w \in Places \ {"exited", "register_ns"}
    BY DEF Places
  <2> QED BY <2>1, <1>1, <1>2, <1>4, <1>7, <1>8, SleepLive
<1>10. LoadOK'
  <2>1. Loading'
    <3>1. CASE naps > 1 /\ pc'[init] = "nssleep" /\ be' = be
      <4>1. naps' \in 1 .. 3
        BY <3>1, <1>1, <1>2
      <4> QED BY <3>1, <4>1, <1>3, <1>9 DEF Loading, Fenced
    <3>2. CASE naps = 1 /\ be = namespace /\ pc'[init] = "glue" /\ be' = be
      <4>1. naps' = 0
        BY <3>2, <1>1
      <4> QED BY <3>2, <4>1, <1>3, <1>9 DEF Loading
    <3>3. CASE naps = 1 /\ be # namespace /\ pc'[init] = "load_module" /\ be' = be + 1
      <4>1. naps' = 0 /\ be + 1 \in 3 .. MAX_ACTIVATIONS - 1
        BY <3>3, <1>1, <1>2, <1>3
      <4> QED BY <3>3, <4>1, <1>3, <1>9 DEF Loading
    <3> QED BY <3>1, <3>2, <3>3, <1>6 DEF Napped
  <2>2. (pc[memmgt] = "new" => be = memmgt) /\ (pc[namespace] = "new" => be <= namespace)
    BY <1>2 DEF LoadOK
  <2>3. pc[memmgt] = "new" => be' = memmgt
    <3>1. CASE be' = be
      BY <3>1, <2>2
    <3>2. CASE naps = 1 /\ be' = be + 1
      BY <3>2, <2>2, <1>1, NapUp
    <3> QED BY <3>1, <3>2, <1>6 DEF Napped
  <2>4. pc[namespace] = "new" => be' <= namespace
    <3>1. be' = be \/ (be # 3 /\ be' = be + 1)
      BY <1>6, Ids DEF Napped
    <3> QED BY <3>1, <2>2, <1>2, Ids
  <2>5. ~(be' > 4 + Daemons)
    BY <1>2, <1>3, <1>6 DEF Napped
  <2> QED BY <2>1, <2>3, <2>4, <2>5, <1>2, <1>4, <1>7, InitLoads
<1>11. Phase'
  <2>1. Order(curr)'
    BY <1>1, <1>5, <1>6, <1>9, <1>10, NapOrder
  <2> QED BY <2>1, <1>9 DEF Phase
<1>12. \A a \in Aid : sched_status'[a] = "sync_block" <=> sched_status[a] = "sync_block"
  <2>1. sched_status[curr'] # "sync_block"
    BY <1>9
  <2> QED BY <2>1, <1>2, <1>9
<1>13. /\ UserOK' /\ Bound'
       /\ \A a \in Aid, row \in Rows, k \in 1 .. 3 : Did(a, row, k) => Did(a, row, k)'
  <2>1. be' <= namespace <=> be <= namespace
    <3>1. be = 2 \/ be = 3 \/ be > 3
      BY <1>2, <1>3
    <3> QED BY <3>1, <1>2, <1>6, Ids DEF Napped
  <2>2. Unbound' <=> Unbound
    BY <2>1, <1>2, <1>12 DEF Unbound
  <2>3. (be' = be /\ Stage(pc[init]) <= Stage(w)) \/ be' = be + 1
    <3>1. Stage("nssleep") = 2 /\ Stage("glue") = 2
      BY DEF Stage
    <3>2. be' = be => w \in {"nssleep", "glue"}
      BY <1>2, <1>5, <1>6 DEF Napped
    <3>3. be' = be => Stage(w) = 2 /\ Stage(pc[init]) = 2
      BY <3>1, <3>2, <1>1
    <3>4. be' = be \/ be' = be + 1
      BY <1>6 DEF Napped
    <3> QED BY <3>3, <3>4
  <2>4. w \in Places
    BY DEF Places
  <2> QED BY <2>2, <2>3, <2>4, <1>1, <1>4, <1>12, InitKeeps
<1>14. Counted'
  BY <1>2, <1>9, <1>13, CountSame
<1> QED BY <1>8, <1>9, <1>10, <1>11, <1>13, <1>14 DEF Live

(* init waits for the user programs, or halts the machine.                 *)
LEMMA InitEnds ==
  ASSUME Live, curr = init, ActsAlive, UNCHANGED <<sync_token, bind, memmgt_ref, peer, ops>>
  PROVE  Live'
<1>1. pc[init] = "acts_alive" /\ UNCHANGED <<be, naps, asked>>
  BY DEF ActsAlive
<1>2. /\ KSide /\ UType /\ Alive /\ Tokens /\ AnswersMatch /\ Counted /\ Own
      /\ Calm({init}) /\ LoadOK /\ Loading /\ pc \in [Aid -> Places] /\ be \in Nat
      /\ sched_status \in [Aid -> SchedStatus] /\ pc[memmgt] # "register_ns"
      /\ sched_status[init] = "runnable" /\ sched_status[memmgt] # "sync_block"
      /\ init \in Aid /\ memmgt \in Aid /\ MAX_ACTIVATIONS \in Nat /\ unique \in Nat
      /\ Daemons \in Nat /\ 4 + Daemons < MAX_ACTIVATIONS
  BY InitFacts
<1>3. be = MAX_ACTIVATIONS /\ AllUp
  <2>1. be = MAX_ACTIVATIONS
    BY <1>1, <1>2 DEF Loading
  <2> QED BY <2>1, <1>2 DEF LoadOK
<1>4. PICK w \in {"acts_alive", "hw_reboot"} :
        /\ pc' = [pc EXCEPT ![init] = w]
        /\ \/ w = "acts_alive" /\ syscall_sleep
           \/ w = "hw_reboot" /\ UNCHANGED kvars
  <2>1. CASE acts_alive
    <3>1. pc' = [pc EXCEPT ![init] = "acts_alive"]
      BY <2>1, <1>1, <1>2 DEF ActsAlive
    <3>2. syscall_sleep
      BY <2>1 DEF ActsAlive
    <3> WITNESS "acts_alive" \in {"acts_alive", "hw_reboot"}
    <3> QED BY <3>1, <3>2
  <2>2. CASE ~acts_alive
    BY <2>2 DEF ActsAlive, Goto, curr
  <2> QED BY <2>1, <2>2
<1>5. pc'[init] = w /\ \A a \in Aid \ {init} : pc'[a] = pc[a]
  BY <1>2, <1>4
<1>6. \A a \in Aid : Started(a)' <=> Started(a)
  BY <1>1, <1>5 DEF Started
<1>7. UType'
  <2>1. w \in Places
    BY DEF Places
  <2> QED BY <2>1, <1>1, <1>2, <1>4 DEF UType
<1>8. /\ KSide' /\ Own' /\ AnswersMatch' /\ Alive' /\ Tokens' /\ curr' \in Aid
      /\ \A a \in Aid : sched_status'[a] = "sync_block" <=> sched_status[a] = "sync_block"
      /\ UNCHANGED <<unique, kernel_next_act>>
  <2>1. CASE w = "acts_alive" /\ syscall_sleep
    <3>1. "acts_alive" \in Places \ {"exited", "register_ns"}
      BY DEF Places
    <3>2. /\ KSide' /\ Own' /\ AnswersMatch' /\ Alive' /\ Tokens' /\ curr' \in Aid \ {0}
          /\ sched_status[curr'] \in {"runnable", "schedulable"}
          /\ sched_status' = [sched_status EXCEPT ![curr'] = "runnable"]
          /\ UNCHANGED <<unique, kernel_next_act>>
      BY <2>1, <3>1, <1>1, <1>2, <1>4, <1>6, <1>7, SleepLive
    <3>3. \A a \in Aid : sched_status'[a] = "sync_block" <=> sched_status[a] = "sync_block"
      <4>1. sched_status[curr'] # "sync_block"
        BY <3>2
      <4> QED BY <4>1, <3>2, <1>2
    <3> QED BY <3>2, <3>3
  <2>2. CASE UNCHANGED kvars
    <3>1. UNCHANGED <<status, sched_status, expected_reply, msg_queues, frame, rq,
                      kernel_curr_act, kernel_next_act, unique, panic>>
      BY <2>2 DEF kvars
    <3>2. KSide'
      BY <3>1, <1>2 DEF KSide, curr, KTypeOK, KernelOK, SchedOK, SchedType, Now, Mail, Box
    <3>3. Calm({init})'
      <4> SUFFICES ASSUME NEW a \in Aid \ {0, init} PROVE Resting(a)'
        BY DEF Calm
      <4>1. Resting(a) /\ pc'[a] = pc[a]
        BY <1>2, <1>5 DEF Calm
      <4> QED BY <4>1, <3>1, <1>1, <1>6 DEF Resting, Rests
    <3>4. Own'
      <4>1. AtTop(init)' /\ curr' = init
        BY <3>1 DEF AtTop, Top, curr
      <4> QED BY <3>3, <4>1 DEF Own, curr
    <3>5. AnswersMatch'
      BY <3>1, <1>1, <1>2 DEF AnswersMatch
    <3>6. Alive'
      <4>1. pc'[init] # "exited" /\ pc[init] # "exited"
        BY <1>1, <1>5
      <4> QED BY <3>1, <4>1, <1>2, <1>5 DEF Alive
    <3>7. Tokens'
      BY <3>1, <1>2, <1>5, <1>7, TokensKeep
    <3> QED BY <3>1, <3>2, <3>4, <3>5, <3>6, <3>7, <1>2 DEF curr
  <2> QED BY <2>1, <2>2, <1>4
<1>9. LoadOK'
  <2>1. Loading'
    BY <1>1, <1>2, <1>3, <1>5 DEF Loading
  <2>2. /\ pc[memmgt] = "new" => be' = memmgt
        /\ pc[namespace] = "new" => be' <= namespace
    BY <1>1, <1>2 DEF LoadOK
  <2> QED BY <2>1, <2>2, <1>2, <1>3, <1>4, <1>6, InitLoads
<1>10. Phase'
  <2>1. Loaded'
    <3>1. AllUp'
      BY <1>3, <1>5, Kinds DEF AllUp
    <3> QED BY <3>1, <1>1, <1>2, <1>3 DEF Loaded
  <2>2. LoadedOrders'
    BY <2>1, OrderLoaded, PTL
  <2>3. Order(curr)'
    BY <2>2, <1>8 DEF LoadedOrders, Order, OtherFirst
  <2> QED BY <2>3, <1>8 DEF Phase
<1>11. /\ UserOK' /\ Bound'
       /\ \A a \in Aid, row \in Rows, k \in 1 .. 3 : Did(a, row, k) => Did(a, row, k)'
  <2>1. Unbound' <=> Unbound
    <3>1. ~(be <= namespace)
      BY <1>2, <1>3, Ids
    <3> QED BY <3>1, <1>1, <1>2, <1>8 DEF Unbound
  <2>2. be' = be /\ Stage(pc[init]) <= Stage(w)
    <3>1. Stage("acts_alive") = 3 /\ Stage("hw_reboot") = 3
      BY DEF Stage
    <3>2. Stage(w) = 3 /\ Stage(pc[init]) = 3
      BY <3>1, <1>1
    <3> QED BY <3>2, <1>1
  <2>3. w \in Places
    BY DEF Places
  <2> QED BY <2>1, <2>2, <2>3, <1>1, <1>4, <1>8, InitKeeps
<1>12. Counted'
  BY <1>2, <1>8, <1>11, CountSame
<1> QED BY <1>7, <1>8, <1>9, <1>10, <1>11, <1>12 DEF Live

(* Every step of init.                                                     *)
LEMMA InitLive ==
  ASSUME Live, Daemons <= 7, CallBound < REPLY_MOD, InitStep
  PROVE  Live'
<1>1. curr = init /\ UNCHANGED <<sync_token, bind, memmgt_ref, peer, ops>>
  BY DEF InitStep
<1>2. CASE LoadElf
  BY <1>1, <1>2, InitLoadsElf
<1>3. CASE LoadStack
  BY <1>1, <1>3, InitLoadsStack
<1>4. CASE RegisterModule
  BY <1>1, <1>4, InitRegisters
<1>5. CASE StartModule
  BY <1>1, <1>5, InitStarts
<1>6. CASE Nap
  BY <1>1, <1>6, InitNaps
<1>7. CASE Glue
  BY <1>1, <1>7, InitGlues
<1>8. CASE ActsAlive
  BY <1>1, <1>8, InitEnds
<1> QED BY <1>2, <1>3, <1>4, <1>5, <1>6, <1>7, <1>8 DEF InitStep

----------------------------------------------------------------------------
(* Services.                                                               *)

(* What a service runs for.                                                *)
LEMMA ServicePhase ==
  ASSUME Live, NEW s \in Services, s = curr
  PROVE  \/ /\ Own /\ Order(s) /\ Calm({s}) /\ AtTop(s) /\ pc[s] \in {"new", "registered"}
            /\ pc[memmgt] # "register_ns"
         \/ pc[s] = "msg_entry" /\ pc[memmgt] # "register_ns" /\ \E x \in Aid : Called(x) /\ Order(x)
         \/ s = namespace /\ pc[s] = "msg_entry" /\ Nested /\ Order(init)
         \/ s = memmgt /\ pc[s] = "register_ns" /\ Back /\ Order(init)
<1>1. Phase
  BY DEF Live
<1>2. CASE Own /\ Order(curr)
  <2>1. Calm({s}) /\ AtTop(s) /\ s # init /\ s \notin UserIds
    BY <1>2, Kinds DEF Own
  <2>2. pc[s] \in {"new", "registered"}
    BY <2>1 DEF AtTop, Top
  <2>3. pc[memmgt] # "register_ns"
    <3>1. CASE s = memmgt
      BY <3>1, <2>2
    <3>2. CASE s # memmgt
      <4>1. Resting(memmgt)
        BY <3>2, <2>1, Kinds, Ids DEF Calm
      <4> QED BY <4>1, Kinds DEF Resting, Rests
    <3> QED BY <3>1, <3>2
  <2> QED BY <2>1, <2>2, <2>3, <1>2
<1>3. ASSUME NEW x \in Aid, Called(x), Order(x)
      PROVE  pc[s] = "msg_entry" /\ pc[memmgt] # "register_ns"
  <2>1. pc[s] = "msg_entry" /\ Calm({x, s}) /\ Asks(x, s)
    BY <1>3 DEF Called, Delivered
  <2>2. x # memmgt
    BY <2>1, Kinds DEF Asks
  <2>3. CASE s # memmgt
    <3>1. Resting(memmgt)
      BY <2>1, <2>2, <2>3, Kinds, Ids DEF Calm
    <3> QED BY <3>1, <2>1, Kinds DEF Resting, Rests
  <2> QED BY <2>1, <2>3
<1>4. CASE Nested /\ Order(init)
  BY <1>4 DEF Nested, Delivered
<1>5. CASE Back /\ Order(init)
  BY <1>5 DEF Back, Owes
<1> QED BY <1>1, <1>2, <1>3, <1>4, <1>5 DEF Phase

(* What the others do does not change what a user program has looked up.   *)
LEMMA UserKeeps ==
  ASSUME UserOK, \A u \in UserIds : pc'[u] = pc[u] /\ asked'[u] = asked[u],
         UNCHANGED <<memmgt_ref, peer>>
  PROVE  UserOK'
<1> DEFINE OK(u, p, q) == /\ p = "_mmap ref" => q = M("ns_get_reference", memmgt)
                          /\ p = "_mmap id" => memmgt_ref[u] = memmgt
                          /\ p = "ref" => \E d \in DaemonIds : q = M("ns_get_reference", d)
                          /\ p = "id" => peer[u] \in DaemonIds
<1>1. \A u \in UserIds : OK(u, pc[u], asked[u])
  BY DEF UserOK
<1> HIDE DEF OK
<1>2. \A u \in UserIds : OK(u, pc'[u], asked'[u])
  BY <1>1
<1> QED BY <1>2 DEF UserOK, OK

(* The service s, which owes no answer, goes to wait for requests.         *)
LEMMA ServiceWaits ==
  ASSUME Live, NEW s \in Services, s = curr, Calm({s}), Order(s) \/ Loaded,
         pc[memmgt] # "register_ns", pc[s] # "exited", pc[s] # "new" \/ Started(s),
         s \in DaemonIds => pc[s] # "new",
         NEW ans \in Arg, creturn_null(ans), asked' = [asked EXCEPT ![s] = ZERO],
         pc' = [pc EXCEPT ![s] = "msg_entry"],
         NEW t \in {sync_token[s], NULL}, sync_token' = [sync_token EXCEPT ![s] = t],
         UNCHANGED <<be, naps, bind, memmgt_ref, peer, ops>>
  PROVE  Live'
<1>1. /\ KSide /\ UType /\ LoadOK /\ Bound /\ UserOK /\ Alive /\ Tokens /\ Counted
      /\ AnswersMatch /\ pc \in [Aid -> Places] /\ sched_status \in [Aid -> SchedStatus]
      /\ unique \in Nat /\ asked \in [Aid -> Arg \cup {ZERO}]
  BY TypeFacts
<1>2. s \in Aid /\ s # 0 /\ s # init /\ s \notin UserIds
  BY Kinds
<1>3. pc'[init] = pc[init] /\ pc'[s] = "msg_entry" /\ \A a \in Aid \ {s} : pc'[a] = pc[a]
  BY <1>1, <1>2, Ids
<1>4. \A a \in Aid : Started(a)' <=> Started(a)
  BY <1>3, StartedSame
<1>5. UType'
  <2>1. "msg_entry" \in Places
    BY DEF Places
  <2>2. pc' \in [Aid -> Places] /\ asked' \in [Aid -> Arg \cup {ZERO}]
    BY <2>1, <1>1, <1>2
  <2>3. sync_token' \in [Aid -> Token \cup {NULL}]
    BY <1>1, <1>2 DEF UType
  <2> QED BY <2>2, <2>3, <1>1 DEF UType
<1>6. \A r \in Aid : sync_token'[r] \in {sync_token[r], NULL}
  <2>1. sync_token \in [Aid -> Token \cup {NULL}]
    BY <1>1 DEF UType
  <2> QED BY <2>1, <1>2
<1>7. /\ KSide' /\ Own' /\ AnswersMatch' /\ Alive' /\ Tokens'
      /\ NextSlot(QDEL(rq, s)) /\ curr' \in Aid \ {0, s}
      /\ sched_status[curr'] \in {"runnable", "schedulable"}
      /\ sched_status' = [sched_status EXCEPT ![s] = "waiting", ![curr'] = "runnable"]
      /\ UNCHANGED <<unique, kernel_next_act>>
  BY <1>1, <1>4, <1>5, <1>6, WaitLive
<1>8. \A a \in Aid : sched_status'[a] = "sync_block" <=> sched_status[a] = "sync_block"
  <2>1. sched_status[s] = "runnable"
    BY TypeFacts
  <2> QED BY <2>1, <1>1, <1>7
<1>9. LoadOK'
  BY <1>1, <1>2, <1>3, <1>7, Kinds, LoadKeeps
<1>10. Phase'
  <2>1. CASE Order(s)
    <3>1. Order(curr)'
      BY <2>1, <1>1, <1>7, <1>9, OrderWaits
    <3> QED BY <3>1, <1>7 DEF Phase
  <2>2. CASE Loaded
    <3>1. AllUp'
      BY <2>2, <1>3, Kinds DEF AllUp, Loaded
    <3>2. Loaded'
      BY <2>2, <3>1 DEF Loaded
    <3>3. LoadedOrders'
      BY <3>2, OrderLoaded, PTL
    <3>4. Order(curr)'
      BY <3>3, <1>7 DEF LoadedOrders, Order, OtherFirst
    <3> QED BY <3>4, <1>7 DEF Phase
  <2> QED BY <2>1, <2>2
<1>11. Bound'
  <2>1. sched_status[init] # "sync_block" /\ sched_status[memmgt] # "sync_block"
    <3>1. Resting(init)
      BY <1>2, Ids, Kinds DEF Calm
    <3>2. sched_status[memmgt] # "sync_block"
      <4>1. CASE s = memmgt
        BY <4>1, TypeFacts
      <4>2. CASE s # memmgt
        <5>1. Resting(memmgt)
          BY <4>2, Kinds, Ids DEF Calm
        <5> QED BY <5>1, Kinds DEF Resting, Rests
      <4> QED BY <4>1, <4>2
    <3> QED BY <3>1, <3>2, Kinds DEF Resting, Rests
  <2>2. Unbound' <=> Unbound
    BY <2>1, <1>8, Ids DEF Unbound
  <2>3. ASSUME NEW d \in DaemonIds
        PROVE  bind'[d] = IF pc'[d] = "new" \/ (pc'[d] = "registered" /\ sched_status'[d] = "sync_block")
                            THEN 0 ELSE d
    <3>1. d \in Aid
      BY Kinds
    <3>2. sched_status[s] # "sync_block"
      BY TypeFacts
    <3>3. bind[d] = IF pc[d] = "new" \/ (pc[d] = "registered" /\ sched_status[d] = "sync_block")
                      THEN 0 ELSE d
      BY <1>1 DEF Bound
    <3>4. CASE d = s
      BY <3>2, <3>3, <3>4, <1>3
    <3>5. CASE d # s
      BY <3>1, <3>3, <3>5, <1>3, <1>8
    <3> QED BY <3>4, <3>5
  <2> QED BY <2>2, <2>3, <1>1 DEF Bound
<1>12. UserOK'
  <2>1. \A u \in UserIds : u \in Aid /\ u # s
    BY <1>2, Kinds
  <2>2. \A u \in UserIds : pc'[u] = pc[u] /\ asked'[u] = asked[u]
    BY <2>1, <1>1, <1>3
  <2> QED BY <2>2, <1>1, UserKeeps
<1>13. Counted'
  <2>1. \A a \in Aid, row \in Rows, k \in 1 .. 3 : Did(a, row, k) => Did(a, row, k)'
    <3>1. \A d \in DaemonIds : pc[d] # "new" => pc'[d] # "new"
      BY <1>3, Kinds
    <3>2. \A u \in UserIds : pc'[u] = pc[u]
      BY <1>2, <1>3, Kinds
    <3> QED BY <3>1, <3>2, <1>3 DEF Did
  <2> QED BY <2>1, <1>1, <1>7, CountSame
<1> QED BY <1>5, <1>7, <1>9, <1>10, <1>11, <1>12, <1>13 DEF Live

(* The answer of a service that starts to wait.                            *)
LEMMA DoneArg == M("done", 0) \in Arg
BY MArg, Ids DEF Answers

(* memmgt and namespace start to wait for requests.                        *)
LEMMA ServiceMains ==
  ASSUME Live, NEW s \in Services, s = curr, ServiceMain,
         UNCHANGED <<be, naps, memmgt_ref, peer, ops>>
  PROVE  Live'
<1>1. /\ s \in {memmgt, namespace} /\ pc[s] = "new" /\ UNCHANGED <<bind, sync_token>>
      /\ creturn_null(M("done", 0)) /\ asked' = [asked EXCEPT ![s] = ZERO]
      /\ pc' = [pc EXCEPT ![s] = "msg_entry"]
  BY DEF ServiceMain, ToMsg, Goto
<1>2. Calm({s}) /\ AtTop(s) /\ Order(s) /\ pc[memmgt] # "register_ns"
  BY <1>1, ServicePhase
<1>3. Started(s)
  BY <1>1, <1>2, Kinds DEF AtTop, Top
<1>4. sync_token' = [sync_token EXCEPT ![s] = sync_token[s]]
  <2>1. sync_token \in [Aid -> Token \cup {NULL}]
    BY TypeFacts DEF UType
  <2> QED BY <2>1, <1>1
<1>5. s \notin DaemonIds
  BY <1>1, Kinds
<1>6. pc[s] # "exited"
  BY <1>1
<1> QED BY <1>1, <1>2, <1>3, <1>4, <1>5, <1>6, DoneArg, ServiceWaits

(* A daemon that has registered starts to wait for requests.               *)
LEMMA DaemonsRegistered ==
  ASSUME Live, NEW s \in Services, s = curr, DaemonRegistered,
         UNCHANGED <<be, naps, memmgt_ref, peer, ops>>
  PROVE  Live'
<1>1. s \in DaemonIds /\ pc[s] = "registered" /\ UNCHANGED bind
  BY DEF DaemonRegistered
<1>2. Calm({s}) /\ AtTop(s) /\ Order(s) /\ pc[memmgt] # "register_ns"
  BY <1>1, Kinds, ServicePhase
<1>3. asked[s] = M("ns_register", s) /\ s \in Aid
  BY <1>1, <1>2, Kinds DEF AtTop, Top
<1>4. frame[s].v0 = M("done", 0)
  <2>1. AnswersMatch /\ sched_status[s] = "runnable"
    BY TypeFacts
  <2>2. M("ns_register", s) # ZERO /\ M("ns_register", s).op = "ns_register"
    BY <1>3, MArg, MFacts DEF Requests
  <2> QED BY <2>1, <2>2, <1>3, Matching DEF Due
<1>5. /\ creturn_null(M("done", 0)) /\ asked' = [asked EXCEPT ![s] = ZERO]
      /\ pc' = [pc EXCEPT ![s] = "msg_entry"] /\ UNCHANGED sync_token
  <2>1. frame[s].v0.op = "done"
    BY <1>4, MFacts
  <2> QED BY <2>1 DEF DaemonRegistered, ToMsg, Goto
<1>6. sync_token' = [sync_token EXCEPT ![s] = sync_token[s]]
  <2>1. sync_token \in [Aid -> Token \cup {NULL}]
    BY TypeFacts DEF UType
  <2> QED BY <2>1, <1>3, <1>5
<1>7. pc[s] # "exited" /\ pc[s] # "new"
  BY <1>1
<1> QED BY <1>1, <1>2, <1>5, <1>6, <1>7, DoneArg, ServiceWaits

(* A caller being served, and the service that serves it.                  *)
LEMMA CalledFacts ==
  ASSUME Live, NEW s \in Services, s = curr, NEW x \in Aid, Called(x)
  PROVE  /\ x # 0 /\ x # s /\ x # memmgt /\ x # namespace /\ AtTop(x) /\ Asks(x, s)
         /\ Calm({x, s}) /\ sched_status[x] = "sync_block" /\ asked[s] = ZERO
         /\ frame[s].v0 = asked[x] /\ frame[s].c1 = tok(x)
<1>1. x # 0 /\ AtTop(x) /\ Asks(x, s) /\ Calm({x, s}) /\ Delivered(x, s)
  BY DEF Called
<1>2. x # memmgt /\ x # namespace
  BY <1>1, Kinds DEF Asks
<1>3. x # s
  <2>1. sched_status[s] = "runnable"
    BY TypeFacts
  <2> QED BY <1>1, <2>1 DEF Delivered
<1> QED BY <1>1, <1>2, <1>3 DEF Delivered

(* A token that is not that of a call which still waits stops the kernel.  *)
LEMMA StaleStops ==
  ASSUME Live, CallBound < REPLY_MOD, NEW s \in Services, s = curr, s # memmgt,
         NEW t \in Token, sync_token[s] = t, NEW ans \in Arg, creturn_sync(t, ans)
  PROVE  /\ panic' \in Faults
         /\ UNCHANGED <<sched_status, rq, msg_queues, frame, kernel_curr_act,
                        status, expected_reply, kernel_next_act, unique>>
<1>1. KSide /\ UType /\ Tokens /\ Counted /\ s \in Aid
  BY TypeFacts, Kinds
<1>2. t.aid \in Aid /\ t.unique \in 0 .. UNIQUE_MOD - 1 /\ t # NULL
      /\ t = [aid |-> t.aid, unique |-> t.unique]
  BY NullAssumption DEF Token
<1>3. t.unique <= unique /\ ~(sched_status[t.aid] = "sync_block" /\ t = tok(t.aid))
  BY <1>1, <1>2 DEF Tokens
<1>4. Expected(t) => t = tok(t.aid)
  <2>1. unique < REPLY_MOD /\ REPLY_MOD \in Nat /\ unique \in Nat /\ t.unique \in Nat
    BY <1>1, <1>2, NoWrap, KSideFacts, ModAssumption
  <2>2. t.unique % REPLY_MOD = t.unique
    <3>1. \A n, u, k \in Nat : n <= u /\ u < k => n % k = n
      OBVIOUS
    <3> QED BY <3>1, <2>1, <1>3
  <2> QED BY <2>2, <1>2 DEF Expected, tok
<1>5. CASE Expected(t)
  <2>1. sched_status[t.aid] # "sync_block"
    BY <1>3, <1>4, <1>5
  <2> QED BY <2>1, <1>5 DEF creturn_sync, kernel_panic, Faults
<1>6. CASE ~Expected(t)
  BY <1>6 DEF creturn_sync, kernel_panic, Faults
<1> QED BY <1>5, <1>6

(* A method the service does not have: with no token the service waits,    *)
(* and its caller for ever; with one of an earlier call the kernel stops.  *)
LEMMA OverflowEnds ==
  ASSUME Live, CallBound < REPLY_MOD, NEW s \in Services, s = curr, Overflow,
         UNCHANGED <<be, naps, memmgt_ref, peer, ops>>
  PROVE  SystemInv'
<1>1. /\ pc[s] = "msg_entry" /\ frame[s].v0.op \notin Methods(s)
      /\ CReturn(sync_token[s], M("overflow", 0)) /\ UNCHANGED <<pc, bind>>
  BY DEF Overflow
<1>2. /\ KSide /\ UType /\ LoadOK /\ AnswersMatch /\ pc \in [Aid -> Places]
      /\ sched_status \in [Aid -> SchedStatus] /\ asked \in [Aid -> Arg \cup {ZERO}]
      /\ be \in Nat /\ s \in Aid /\ sync_token \in [Aid -> Token \cup {NULL}]
  BY TypeFacts, Kinds DEF UType
<1>3. pc[memmgt] # "register_ns" /\ \E x \in Aid : Called(x)
  <2>1. ~Nested
    <3> SUFFICES ASSUME Nested, s = namespace PROVE FALSE
      BY DEF Nested, Delivered
    <3>1. frame[s].v0.op = "ns_register"
      BY MFacts DEF Nested, Delivered, Owes
    <3> QED BY <3>1, <1>1, Kinds DEF Methods
  <2> QED BY <2>1, <1>1, ServicePhase
<1>4. PICK x \in Aid : Called(x)
  BY <1>3
<1>5. /\ x # 0 /\ x # s /\ AtTop(x) /\ Asks(x, s) /\ Calm({x, s}) /\ sched_status[x] = "sync_block"
      /\ frame[s].v0 = asked[x]
  BY <1>4, CalledFacts
<1>6. x \in UserIds /\ s \in DaemonIds /\ pc[x] = "main" /\ asked[x] = M("unknown", 0)
  <2>1. asked[x].op \notin Methods(s)
    BY <1>1, <1>5
  <2>2. /\ s = memmgt => Methods(s) = {"mmap", "register_ns"}
        /\ s = namespace => Methods(s) = {"ns_register", "ns_get_reference", "ns_get_identifier"}
        /\ s \in DaemonIds => Methods(s) = {"serve"}
    BY Kinds DEF Methods
  <2>3. /\ asked[x] # M("mmap", 0) \/ s # memmgt
        /\ asked[x] # M("register_ns", 0) \/ s # memmgt
        /\ asked[x] # M("ns_register", x) \/ s # namespace
        /\ asked[x] # M("serve", 0) \/ s \notin DaemonIds
        /\ \A n : asked[x] \notin {M("ns_get_reference", n), M("ns_get_identifier", n)} \/ s # namespace
    BY <2>1, <2>2, MFacts
  <2> QED BY <2>3, <1>5 DEF Asks
<1>7. Started(x) /\ x # init
  BY <1>5, <1>6, Kinds DEF AtTop, Top, Services
<1>8. be > 4 + Daemons /\ Loaded
  <2>1. be > 4 + Daemons /\ AllUp
    BY <1>2, <1>6, <1>7, UserStarted
  <2> QED BY <2>1, <1>2 DEF Loaded
<1>9. M("overflow", 0) \in Arg
  BY MArg, Ids DEF Answers
<1>10. /\ sync_token' = [sync_token EXCEPT ![s] = sync_token[s]] /\ sync_token' = sync_token
       /\ asked' = [asked EXCEPT ![s] = ZERO]
       /\ IF sync_token[s] = NULL THEN creturn_null(M("overflow", 0))
          ELSE creturn_sync(sync_token[s], M("overflow", 0))
  BY <1>1, <1>2 DEF CReturn
<1>11. CASE sync_token[s] = NULL
  <2>1. Calm({s})
    <3> SUFFICES ASSUME NEW a \in Aid \ {0, s} PROVE Resting(a)
      BY DEF Calm
    <3>1. CASE a = x
      BY <3>1, <1>5, <1>6, <1>7 DEF Resting, Rests
    <3>2. CASE a # x
      BY <3>2, <1>5 DEF Calm
    <3> QED BY <3>1, <3>2
  <2>2. pc' = [pc EXCEPT ![s] = "msg_entry"]
    BY <1>1, <1>2
  <2>3. creturn_null(M("overflow", 0)) /\ sync_token[s] \in {sync_token[s], NULL}
    BY <1>10, <1>11
  <2>4. pc[s] # "exited" /\ pc[s] # "new" /\ UNCHANGED <<be, naps, bind, memmgt_ref, peer, ops>>
    BY <1>1
  <2>5. Live'
    BY <2>1, <2>2, <2>3, <2>4, <1>3, <1>8, <1>9, <1>10, ServiceWaits
  <2> QED BY <2>5 DEF SystemInv
<1>12. CASE sync_token[s] # NULL
  <2>1. sync_token[s] \in Token /\ s # memmgt /\ creturn_sync(sync_token[s], M("overflow", 0))
    BY <1>2, <1>6, <1>10, <1>12, Kinds
  <2>2. /\ panic' \in Faults
        /\ UNCHANGED <<sched_status, rq, msg_queues, frame, kernel_curr_act,
                       status, expected_reply, kernel_next_act, unique>>
    BY <2>1, <1>9, StaleStops
  <2>3. panic' # "no" /\ KTypeOK'
    <3>1. KTypeOK
      BY <1>2 DEF KSide
    <3> QED BY <3>1, <2>2 DEF KTypeOK, Faults
  <2>4. asked' \in [Aid -> Arg \cup {ZERO}] /\ asked'[x] = asked[x] /\ asked'[s] = ZERO
        /\ \A a \in Aid \ {s} : asked'[a] = asked[a]
    BY <1>2, <1>5, <1>10
  <2>5. TypeOK'
    BY <2>3, <2>4, <1>2, <1>10, <1>1 DEF TypeOK, UType
  <2>6. AnswersMatch'
    BY <2>2, <2>4, <1>2 DEF AnswersMatch
  <2>7. AwaitsOverflow'
    BY <2>2, <2>4, <1>5, <1>6 DEF AwaitsOverflow
  <2>8. pc'[memmgt] # "register_ns"
    BY <1>1, <1>3
  <2> QED BY <2>3, <2>5, <2>6, <2>7, <2>8 DEF SystemInv, Dead
<1> QED BY <1>11, <1>12

(* The service s returns its answer to x.                                  *)
LEMMA ServiceReturns ==
  ASSUME Live, CallBound < REPLY_MOD, NEW s \in Services, s = curr,
         pc[s] \in {"msg_entry", "register_ns"}, s = memmgt \/ pc[memmgt] # "register_ns",
         pc[s] = "register_ns" => bind[memmgt] # 0,
         NEW x \in Aid \ {0}, sched_status[x] = "sync_block", AtTop(x), Calm({x, s}), Order(x),
         NEW ans \in Arg, ans = Due(asked[x]), CReturn(tok(x), ans),
         pc' = [pc EXCEPT ![s] = "msg_entry"], UNCHANGED <<be, naps, memmgt_ref, peer, ops>>,
         bind' \in [Aid -> Aid], bind'[memmgt] = bind[memmgt],
         sched_status' = [sched_status EXCEPT ![x] = "runnable", ![s] = "waiting"] => Bound'
  PROVE  Live'
<1>1. /\ KSide /\ UType /\ LoadOK /\ UserOK /\ Alive /\ Tokens /\ Counted
      /\ AnswersMatch /\ pc \in [Aid -> Places] /\ sched_status \in [Aid -> SchedStatus]
      /\ unique \in Nat /\ asked \in [Aid -> Arg \cup {ZERO}]
  BY TypeFacts
<1>2. s \in Aid /\ s # 0 /\ s # init /\ s \notin UserIds
  BY Kinds
<1>3. pc'[init] = pc[init] /\ pc'[s] = "msg_entry" /\ \A a \in Aid \ {s} : pc'[a] = pc[a]
  BY <1>1, <1>2, Ids
<1>4. \A a \in Aid : Started(a)' <=> Started(a)
  BY <1>3, StartedSame
<1>5. /\ KSide' /\ Alive' /\ Tokens' /\ AnswersMatch'
      /\ UNCHANGED <<unique, kernel_next_act>>
      /\ curr' = x /\ x # s /\ asked' = [asked EXCEPT ![s] = ZERO]
      /\ sched_status' = [sched_status EXCEPT ![x] = "runnable", ![s] = "waiting"]
      /\ sync_token' = [sync_token EXCEPT ![s] = tok(x)]
      /\ Own' /\ TakesSlot(s, x)
  <2>1. pc[s] # "exited"
    OBVIOUS
  <2> QED BY <2>1, <1>1, <1>4, ReturnLive
<1>6. UType'
  <2>1. "msg_entry" \in Places
    BY DEF Places
  <2>2. pc' \in [Aid -> Places] /\ asked' \in [Aid -> Arg \cup {ZERO}]
    BY <2>1, <1>1, <1>2, <1>5
  <2>3. tok(x) \in Token
    <3>1. expected_reply \in [Aid -> 0 .. UNIQUE_MOD - 1]
      BY <1>1, KSideFacts
    <3> QED BY <3>1 DEF tok, Token
  <2>4. sync_token' \in [Aid -> Token \cup {NULL}]
    BY <2>3, <1>1, <1>5 DEF UType
  <2> QED BY <2>2, <2>4, <1>1 DEF UType
<1>7. LoadOK'
  <2>1. pc[s] # "new"
    OBVIOUS
  <2> QED BY <2>1, <1>1, <1>2, <1>3, <1>5, Kinds, LoadKeeps
<1>8. Phase'
  <2>1. AllUp => AllUp'
    BY <1>3, Kinds DEF AllUp
  <2>2. Room' = Room
    BY <1>3 DEF Room
  <2>3. Order(x)'
    BY <2>1, <2>2, <1>1, <1>2, <1>3, <1>5, OrderMoves
  <2>4. Order(curr)'
    BY <2>3, <1>5 DEF Order, OtherFirst, curr
  <2> QED BY <2>4, <1>5 DEF Phase
<1>9. UserOK'
  <2>1. \A u \in UserIds : u \in Aid /\ u # s
    BY <1>2, Kinds
  <2>2. \A u \in UserIds : pc'[u] = pc[u] /\ asked'[u] = asked[u]
    BY <2>1, <1>1, <1>3, <1>5
  <2> QED BY <2>2, <1>1, UserKeeps
<1>10. Counted'
  <2>1. \A a \in Aid, row \in Rows, k \in 1 .. 3 : Did(a, row, k) => Did(a, row, k)'
    <3>1. \A d \in DaemonIds : pc[d] # "new" => pc'[d] # "new"
      BY <1>3, Kinds
    <3>2. \A u \in UserIds : pc'[u] = pc[u]
      BY <1>2, <1>3, Kinds
    <3>3. pc[memmgt] = "register_ns" => pc'[memmgt] = "register_ns" \/ bind'[memmgt] # 0
      BY <1>3, Kinds
    <3> QED BY <3>1, <3>2, <3>3, <1>3 DEF Did
  <2> QED BY <2>1, <1>1, <1>5, CountSame
<1> QED BY <1>5, <1>6, <1>7, <1>8, <1>9, <1>10 DEF Live

(* namespace has registered n by the time a user program looks it up.      *)
LEMMA KnowsAll ==
  ASSUME Live, NEW x \in UserIds, Called(x), curr = namespace, NEW n \in {memmgt} \cup DaemonIds
  PROVE  bind[n] = n
<1>1. Bound /\ LoadOK /\ be \in Nat /\ sched_status[namespace] = "runnable"
  BY TypeFacts
<1>2. /\ x # init /\ x # memmgt /\ AtTop(x) /\ Calm({x, namespace})
  BY CalledFacts, Kinds
<1>3. Started(x)
  BY <1>2, Kinds DEF AtTop, Top, Services
<1>4. be > 4 + Daemons /\ AllUp
  BY <1>1, <1>3, UserStarted
<1>5. AllUp /\ ~(be <= namespace)
  <2>1. Daemons \in Nat /\ namespace = 3
    BY Ids
  <2> QED BY <2>1, <1>1, <1>4
<1>6. Resting(init) /\ Resting(memmgt)
  BY <1>2, Kinds, Ids DEF Calm
<1>7. ~Unbound
  BY <1>5, <1>6, Kinds DEF Unbound, Resting, Rests
<1> QED BY <1>1, <1>5, <1>7 DEF Bound, AllUp

(* A service answers the call of x.                                        *)
LEMMA AnswersDue ==
  ASSUME Live, NEW s \in Services, s = curr, NEW x \in Aid, Called(x),
         asked[x].op # "register_ns"
  PROVE  /\ Answer(asked[x]) = Due(asked[x]) /\ Due(asked[x]) \in Arg
         /\ asked[x].op = "ns_register" => x \in DaemonIds /\ asked[x].n = x /\ bind[x] = 0
<1>1. Asks(x, s) /\ sched_status[x] = "sync_block"
  BY CalledFacts
<1>2. Bound
  BY TypeFacts
<1>3. /\ M("addr", 0) \in Arg /\ M("done", 0) \in Arg
      /\ \A n \in Aid : M("reference", n) \in Arg /\ M("identifier", n) \in Arg
  BY MArg, Ids DEF Answers
<1> DEFINE q == asked[x]
<1>4. CASE q.op \in {"mmap", "serve", "unknown"}
  BY <1>3, <1>4 DEF Answer, Due
<1>5. CASE x \in DaemonIds /\ q.op = "ns_register" /\ q.n = x /\ pc[x] = "registered"
  <2>1. bind[x] = 0
    BY <1>1, <1>2, <1>5 DEF Bound
  <2> QED BY <2>1, <1>3, <1>5 DEF Answer, Due
<1>6. CASE /\ x \in UserIds /\ s = namespace /\ q.op \in {"ns_get_reference", "ns_get_identifier"}
           /\ q.n \in {memmgt} \cup DaemonIds
  <2>1. bind[q.n] = q.n /\ q.n \in Aid
    BY <1>6, KnowsAll, Kinds, Ids
  <2> QED BY <2>1, <1>3, <1>6 DEF Answer, Due
<1>7. \/ q.op \in {"mmap", "serve", "unknown"}
      \/ x \in DaemonIds /\ q.op = "ns_register" /\ q.n = x /\ pc[x] = "registered"
      \/ /\ x \in UserIds /\ s = namespace /\ q.op \in {"ns_get_reference", "ns_get_identifier"}
         /\ q.n \in {memmgt} \cup DaemonIds
  <2>1. CASE \E o \in {"mmap", "serve", "unknown", "register_ns"} : q = M(o, 0)
    <3>1. q.op \in {"mmap", "serve", "unknown", "register_ns"}
      BY <2>1, MFacts
    <3> QED BY <3>1
  <2>2. CASE x \in DaemonIds /\ q = M("ns_register", x) /\ pc[x] = "registered"
    BY <2>2, MFacts
  <2>3. CASE x \in UserIds /\ s = namespace /\ \E n \in {memmgt} \cup DaemonIds :
               q \in {M("ns_get_reference", n), M("ns_get_identifier", n)}
    <3>1. PICK n \in {memmgt} \cup DaemonIds :
            q \in {M("ns_get_reference", n), M("ns_get_identifier", n)}
      BY <2>3
    <3>2. q.op \in {"ns_get_reference", "ns_get_identifier"} /\ q.n = n
      BY <3>1, MFacts
    <3> QED BY <3>2, <2>3
  <2> QED BY <2>1, <2>2, <2>3, <1>1 DEF Asks
<1> QED BY <1>4, <1>5, <1>6, <1>7

(* A service answers the program that called it.                           *)
LEMMA CalledDispatch ==
  ASSUME Live, CallBound < REPLY_MOD, NEW s \in Services, s = curr, pc[memmgt] # "register_ns",
         NEW x \in Aid, Called(x), Order(x), Dispatch,
         UNCHANGED <<be, naps, memmgt_ref, peer, ops>>
  PROVE  Live'
<1> DEFINE q == asked[x]
<1>1. /\ x # 0 /\ x # s /\ x # memmgt /\ x # namespace /\ AtTop(x) /\ Asks(x, s)
      /\ Calm({x, s}) /\ sched_status[x] = "sync_block" /\ asked[s] = ZERO
      /\ frame[s].v0 = q /\ frame[s].c1 = tok(x)
  BY CalledFacts
<1>2. /\ pc[s] = "msg_entry" /\ q.op # "register_ns" /\ CReturn(tok(x), Answer(q)) /\ pc' = pc
      /\ bind' = IF q.op = "ns_register" /\ bind[q.n] = 0 THEN [bind EXCEPT ![q.n] = q.n] ELSE bind
  BY <1>1 DEF Dispatch
<1>3. /\ Answer(q) = Due(q) /\ Due(q) \in Arg
      /\ q.op = "ns_register" => x \in DaemonIds /\ q.n = x /\ bind[x] = 0
  BY <1>1, <1>2, AnswersDue
<1>4. /\ Bound /\ pc \in [Aid -> Places] /\ sched_status \in [Aid -> SchedStatus]
      /\ bind \in [Aid -> Aid] /\ asked \in [Aid -> Arg \cup {ZERO}]
      /\ sched_status[s] = "runnable" /\ s \in Aid
  BY TypeFacts, Kinds DEF UType
<1>5. bind' = IF q.op = "ns_register" THEN [bind EXCEPT ![x] = x] ELSE bind
  BY <1>2, <1>3
<1>6. bind' \in [Aid -> Aid] /\ bind'[memmgt] = bind[memmgt]
      /\ \A d \in DaemonIds \ {x} : bind'[d] = bind[d]
  BY <1>1, <1>4, <1>5, Ids
<1>7. pc' = [pc EXCEPT ![s] = "msg_entry"]
  BY <1>2, <1>4
<1>8. ASSUME sched_status' = [sched_status EXCEPT ![x] = "runnable", ![s] = "waiting"]
      PROVE  Bound'
  <2>1. /\ sched_status'[x] = "runnable" /\ sched_status'[s] = "waiting"
        /\ \A a \in Aid \ {x, s} : sched_status'[a] = sched_status[a]
    BY <1>1, <1>4, <1>8
  <2>2. asked' = [asked EXCEPT ![s] = ZERO]
    BY <1>2, <1>4 DEF CReturn
  <2>3. Unbound' <=> Unbound
    <3>1. sched_status'[memmgt] = "sync_block" <=> sched_status[memmgt] = "sync_block"
      BY <1>1, <1>4, <2>1, Ids
    <3>2. asked'[init] = asked[init] /\ init # s
      BY <1>4, <2>2, Kinds, Ids
    <3>3. CASE x = init
      <4>1. sched_status'[init] # "sync_block" /\ asked[init] # M("register_ns", 0)
        BY <3>3, <2>1, <1>2, MFacts
      <4> QED BY <4>1, <3>1, <1>2 DEF Unbound
    <3>4. CASE x # init
      <4>1. sched_status'[init] = sched_status[init]
        BY <3>2, <3>4, <2>1, Ids
      <4> QED BY <4>1, <3>1, <3>2, <1>2 DEF Unbound
    <3> QED BY <3>3, <3>4
  <2>4. ASSUME NEW d \in DaemonIds
        PROVE  bind'[d] = IF pc'[d] = "new" \/ (pc'[d] = "registered" /\ sched_status'[d] = "sync_block")
                            THEN 0 ELSE d
    <3>1. d \in Aid
      BY Kinds
    <3>2. bind[d] = IF pc[d] = "new" \/ (pc[d] = "registered" /\ sched_status[d] = "sync_block")
                      THEN 0 ELSE d
      BY <1>4 DEF Bound
    <3>3. CASE d = x
      <4>1. pc[x] = "registered" /\ q = M("ns_register", x)
        BY <3>3, <1>1, Kinds DEF Asks
      <4>2. bind'[x] = x
        BY <4>1, <3>1, <3>3, <1>4, <1>5, MFacts
      <4> QED BY <4>1, <4>2, <3>3, <2>1, <1>2
    <3>4. CASE d = s
      BY <3>1, <3>2, <3>4, <1>1, <1>2, <1>6
    <3>5. CASE d # x /\ d # s
      BY <3>1, <3>2, <3>5, <2>1, <1>2, <1>6
    <3> QED BY <3>3, <3>4, <3>5
  <2> QED BY <2>3, <2>4, <1>4, <1>6 DEF Bound
<1>9. CReturn(tok(x), Due(q))
  BY <1>2, <1>3
<1> DEFINE ans == Due(q)
<1>10. ans = Due(asked[x]) /\ ans \in Arg /\ CReturn(tok(x), ans)
  BY <1>3, <1>9
<1> HIDE DEF ans
<1>11. pc[s] \in {"msg_entry", "register_ns"} /\ (pc[s] = "register_ns" => bind[memmgt] # 0)
  BY <1>2
<1>12. x \in Aid \ {0}
  BY <1>1
<1> QED BY <1>1, <1>6, <1>7, <1>8, <1>10, <1>11, <1>12, ServiceReturns

(* A daemon registers with namespace.                                      *)
LEMMA DaemonMains ==
  ASSUME Live, CallBound < REPLY_MOD, NEW s \in Services, s = curr, DaemonMain,
         UNCHANGED <<be, naps, memmgt_ref, peer, ops>>
  PROVE  Live'
<1> DEFINE m == M("ns_register", s)
<1>1. /\ s \in DaemonIds /\ pc[s] = "new" /\ pc' = [pc EXCEPT ![s] = "registered"]
      /\ CallTo(namespace, m) /\ UNCHANGED <<bind, sync_token>>
  BY DEF DaemonMain, Goto
<1>2. Calm({s}) /\ AtTop(s) /\ Order(s) /\ pc[memmgt] # "register_ns"
  BY <1>1, ServicePhase
<1>3. /\ KSide /\ UType /\ LoadOK /\ Bound /\ UserOK /\ Alive /\ Tokens /\ Counted
      /\ AnswersMatch /\ pc \in [Aid -> Places] /\ sched_status \in [Aid -> SchedStatus]
      /\ unique \in Nat /\ asked \in [Aid -> Arg \cup {ZERO}] /\ be \in Nat
      /\ sched_status[s] = "runnable"
  BY TypeFacts
<1>4. /\ s \in Aid /\ s # 0 /\ s # init /\ s \notin UserIds /\ s # namespace /\ s # memmgt
      /\ s > init /\ namespace \in Services /\ namespace \in Aid /\ namespace # init
      /\ namespace \notin UserIds
  BY <1>1, Kinds, Ids
<1>5. m \in Arg
  BY <1>4, MArg DEF Requests
<1> HIDE DEF m
<1>6. Started(s) /\ be > namespace
  <2>1. Started(s)
    BY <1>1, <1>2, <1>4 DEF AtTop, Top
  <2>2. s > namespace /\ s \in Nat
    BY <1>1, Ids
  <2> QED BY <2>1, <2>2, <1>3, Ids DEF Started
<1>7. pc[namespace] = "msg_entry"
  <2>1. Resting(namespace)
    BY <1>2, <1>4, Kinds DEF Calm
  <2>2. pc[namespace] # "new"
    BY <1>3, <1>6, Ids DEF LoadOK
  <2> QED BY <2>1, <2>2, <1>4 DEF Resting, Rests
<1>8. pc'[init] = pc[init] /\ pc'[s] = "registered" /\ \A a \in Aid \ {s} : pc'[a] = pc[a]
  BY <1>1, <1>3, <1>4, Ids
<1>9. \A a \in Aid : Started(a)' <=> Started(a)
  BY <1>8, StartedSame
<1>10. "registered" \in Places \ {"exited"} /\ pc[s] # "exited"
  BY <1>1 DEF Places
<1>11. /\ KSide' /\ Alive' /\ Tokens' /\ AnswersMatch'
       /\ unique' = unique + 1 /\ UNCHANGED <<kernel_next_act, status>>
       /\ curr' = namespace /\ asked' = [asked EXCEPT ![s] = m]
       /\ sched_status' = [sched_status EXCEPT ![s] = "sync_block", ![namespace] = "runnable"]
       /\ Calm({s, namespace})' /\ Delivered(s, namespace)' /\ TakesSlot(s, namespace)
  <2>1. namespace # s /\ UNCHANGED sync_token /\ CallTo(namespace, m)
        /\ pc' = [pc EXCEPT ![s] = "registered"]
    BY <1>1, <1>4
  <2>2. KSide /\ UType /\ Alive /\ Tokens /\ AnswersMatch /\ Counted
    BY <1>3
  <2>3. s \in Aid /\ namespace \in Services
    BY <1>4
  <2> QED BY <2>1, <2>2, <2>3, <1>2, <1>5, <1>7, <1>9, <1>10, CallLive
<1>12. UType'
  <2>1. pc' \in [Aid -> Places] /\ asked' \in [Aid -> Arg \cup {ZERO}]
    BY <1>1, <1>3, <1>5, <1>10, <1>11
  <2> QED BY <2>1, <1>1, <1>3 DEF UType
<1>13. LoadOK'
  <2>1. /\ \A a \in Aid : pc'[a] # "new" /\ a > init => pc[a] # "new" \/ Started(a)
        /\ pc'[memmgt] = "new" => pc[memmgt] = "new"
        /\ pc'[namespace] = "new" => pc[namespace] = "new"
        /\ \A d \in DaemonIds : pc[d] = "msg_entry" => pc'[d] = "msg_entry"
    BY <1>1, <1>4, <1>6, <1>8, Kinds
  <2> QED BY <2>1, <1>3, <1>8, <1>11, LoadKeeps
<1>14. Phase'
  <2>1. ~AllUp
    BY <1>1 DEF AllUp
  <2>2. Order(s)'
    BY <2>1, <1>2, <1>3, <1>4, <1>8, <1>11, OrderMoves
  <2>3. AtTop(s)'
    BY <1>1, <1>4, <1>6, <1>8, <1>9, <1>11, <1>3 DEF AtTop, Top, m
  <2>4. Asks(s, namespace)'
    BY <1>1, <1>4, <1>8, <1>11, <1>3 DEF Asks, m
  <2>5. Called(s)'
    BY <2>3, <2>4, <1>4, <1>11 DEF Called, curr
  <2> QED BY <2>2, <2>5, <1>4 DEF Phase
<1>15. Bound'
  <2>1. /\ sched_status'[s] = "sync_block" /\ sched_status'[namespace] = "runnable"
        /\ \A a \in Aid \ {s, namespace} : sched_status'[a] = sched_status[a]
    BY <1>3, <1>4, <1>11
  <2>2. Unbound' <=> Unbound
    <3>1. /\ sched_status'[init] = sched_status[init] /\ asked'[init] = asked[init]
          /\ sched_status'[memmgt] = sched_status[memmgt] /\ pc'[memmgt] = pc[memmgt]
      BY <2>1, <1>3, <1>4, <1>8, <1>11, Ids, Kinds
    <3> QED BY <3>1 DEF Unbound
  <2>3. ASSUME NEW d \in DaemonIds
        PROVE  bind'[d] = IF pc'[d] = "new" \/ (pc'[d] = "registered" /\ sched_status'[d] = "sync_block")
                            THEN 0 ELSE d
    <3>1. d \in Aid /\ d # namespace
      BY Kinds
    <3>2. bind[d] = IF pc[d] = "new" \/ (pc[d] = "registered" /\ sched_status[d] = "sync_block")
                      THEN 0 ELSE d
      BY <1>3 DEF Bound
    <3>3. CASE d = s
      BY <3>2, <3>3, <2>1, <1>1, <1>8
    <3>4. CASE d # s
      BY <3>1, <3>2, <3>4, <2>1, <1>1, <1>8
    <3> QED BY <3>3, <3>4
  <2> QED BY <2>2, <2>3, <1>1, <1>3 DEF Bound
<1>16. UserOK'
  <2>1. \A u \in UserIds : u \in Aid /\ u # s
    BY <1>4, Kinds
  <2>2. \A u \in UserIds : pc'[u] = pc[u] /\ asked'[u] = asked[u]
    BY <2>1, <1>3, <1>8, <1>11
  <2> QED BY <2>2, <1>3, UserKeeps
<1>17. Counted'
  <2>1. \A a \in Aid, row \in Rows, k \in 1 .. 3 : Did(a, row, k) => Did(a, row, k)'
    <3>1. \A d \in DaemonIds : pc[d] # "new" => pc'[d] # "new"
      BY <1>8, Kinds
    <3>2. \A u \in UserIds : pc'[u] = pc[u]
      BY <1>4, <1>8, Kinds
    <3>3. pc'[memmgt] = pc[memmgt]
      BY <1>4, <1>8, Kinds
    <3> QED BY <3>1, <3>2, <3>3, <1>1, <1>8 DEF Did
  <2>2. 0 \in Rows /\ 1 \in 1 .. 3
    BY Ids DEF Rows
  <2>3. ~Did(s, 0, 1)
    BY <1>1, <1>4 DEF Did
  <2>4. Did(s, 0, 1)'
    BY <1>1, <1>8 DEF Did
  <2> QED BY <2>1, <2>2, <2>3, <2>4, <1>3, <1>4, <1>11, CountCall
<1> QED BY <1>11, <1>12, <1>13, <1>14, <1>15, <1>16, <1>17 DEF Live

(* memmgt's call has been answered: it answers init.                       *)
LEMMA RegisteredAnswers ==
  ASSUME Live, CallBound < REPLY_MOD, NEW s \in Services, s = curr, RegisteredNs,
         UNCHANGED <<be, naps, memmgt_ref, peer, ops>>
  PROVE  Live'
<1> DEFINE ans == M("done", 0)
<1>1. /\ pc[s] = "register_ns" /\ pc' = [pc EXCEPT ![s] = "msg_entry"]
      /\ CReturn(sync_token[s], ans) /\ UNCHANGED bind
  BY DEF RegisteredNs, Goto
<1>2. s = memmgt /\ Back /\ Order(init)
  BY <1>1, ServicePhase
<1>3. /\ sync_token[s] = tok(init) /\ sched_status[init] = "sync_block"
      /\ asked[init] = M("register_ns", 0) /\ be > namespace
      /\ Calm({init, memmgt, namespace}) /\ Resting(namespace)
  BY <1>2 DEF Back, Owes
<1>4. Calm({init, s})
  BY <1>2, <1>3 DEF Calm
<1>5. /\ Bound /\ bind \in [Aid -> Aid] /\ sched_status \in [Aid -> SchedStatus]
      /\ asked \in [Aid -> Arg \cup {ZERO}] /\ be \in Nat /\ sched_status[s] = "runnable"
      /\ pc \in [Aid -> Places]
  BY TypeFacts DEF UType
<1>6. bind[memmgt] = memmgt
  <2>1. ~Unbound
    <3>1. ~(be <= namespace)
      BY <1>3, <1>5, Ids
    <3> QED BY <3>1, <1>1, <1>2, <1>5 DEF Unbound
  <2> QED BY <2>1, <1>5 DEF Bound
<1>7. ASSUME sched_status' = [sched_status EXCEPT ![init] = "runnable", ![s] = "waiting"]
      PROVE  Bound'
  <2>1. /\ sched_status'[init] = "runnable" /\ sched_status'[s] = "waiting" /\ pc'[s] = "msg_entry"
        /\ \A d \in DaemonIds : sched_status'[d] = sched_status[d] /\ pc'[d] = pc[d]
    BY <1>1, <1>2, <1>5, <1>7, Kinds, Ids
  <2>2. ~Unbound'
    <3>1. ~(be' <= namespace)
      BY <1>3, <1>5, Ids
    <3> QED BY <3>1, <2>1, <1>2 DEF Unbound
  <2> QED BY <2>1, <2>2, <1>1, <1>5, <1>6 DEF Bound
<1>8. AtTop(init) /\ init \in Aid \ {0} /\ bind[memmgt] # 0
  BY <1>6, Kinds, Ids DEF AtTop, Top
<1>9. ans = Due(asked[init]) /\ ans \in Arg
  BY <1>3, MFacts, DoneArg DEF Due
<1> HIDE DEF ans
<1>10. CReturn(tok(init), ans) /\ pc[s] \in {"msg_entry", "register_ns"}
  BY <1>1, <1>3
<1> QED BY <1>1, <1>2, <1>3, <1>4, <1>5, <1>7, <1>8, <1>9, <1>10, ServiceReturns

(* memmgt calls namespace while it owes init an answer.                    *)
LEMMA RegisterCalls ==
  ASSUME Live, CallBound < REPLY_MOD, NEW s \in Services, s = curr, RegisterNs,
         UNCHANGED <<be, naps, memmgt_ref, peer, ops>>
  PROVE  Live'
<1> DEFINE m == M("ns_register", memmgt)
           n == unique + 1
<1>1. /\ s = memmgt /\ pc[s] = "msg_entry" /\ frame[s].v0.op = "register_ns"
      /\ pc' = [pc EXCEPT ![memmgt] = "register_ns"]
      /\ sync_token' = [sync_token EXCEPT ![memmgt] = frame[s].c1]
      /\ CallTo(namespace, m) /\ UNCHANGED bind
  BY DEF RegisterNs, Goto
<1>2. Called(init) /\ Order(init) /\ asked[init] = M("register_ns", 0) /\ be > namespace
  <2>1. PICK x \in Aid : Called(x) /\ Order(x)
    BY <1>1, Kinds, ServicePhase
  <2>2. Asks(x, memmgt) /\ asked[x].op = "register_ns"
    BY <2>1, <1>1, CalledFacts
  <2>3. /\ \A k : asked[x] # M("mmap", k) /\ asked[x] # M("ns_register", k)
        /\ \A k : asked[x] # M("ns_get_reference", k) /\ asked[x] # M("ns_get_identifier", k)
        /\ \A k : asked[x] # M("serve", k) /\ asked[x] # M("unknown", k)
    BY <2>2, MFacts
  <2> QED BY <2>1, <2>2, <2>3, Kinds DEF Asks
<1>3. /\ Calm({init, memmgt}) /\ sched_status[init] = "sync_block" /\ asked[memmgt] = ZERO
      /\ frame[s].c1 = tok(init)
  BY <1>1, <1>2, Ids, CalledFacts
<1>4. /\ KSide /\ UType /\ LoadOK /\ Bound /\ UserOK /\ Alive /\ Tokens /\ Counted
      /\ AnswersMatch /\ pc \in [Aid -> Places] /\ sched_status \in [Aid -> SchedStatus]
      /\ unique \in Nat /\ asked \in [Aid -> Arg \cup {ZERO}] /\ be \in Nat
      /\ sched_status[memmgt] = "runnable" /\ curr = memmgt /\ frame \in [Aid -> Msg]
  BY <1>1, TypeFacts
<1>5. /\ panic = "no" /\ KernelOK(Now) /\ kernel_curr_act = memmgt
      /\ status \in [Aid -> Status] /\ expected_reply \in [Aid -> 0 .. UNIQUE_MOD - 1]
      /\ kernel_next_act \in 0 .. MAX_ACTIVATIONS /\ sync_token \in [Aid -> Token \cup {NULL}]
  BY <1>4, KSideFacts DEF curr, UType
<1>6. init \in Aid /\ memmgt \in Aid /\ namespace \in Aid
  BY Ids
<1>7. m \in Arg /\ m # ZERO
  BY <1>6, MArg DEF Requests
<1>8. Resting(namespace) /\ pc[namespace] = "msg_entry" /\ sched_status[namespace] = "waiting"
      /\ asked[namespace] = ZERO
  <2>1. Resting(namespace)
    BY <1>3, <1>6, Kinds DEF Calm
  <2>2. pc[namespace] # "new"
    BY <1>2, <1>4, Ids DEF LoadOK
  <2> QED BY <2>1, <2>2, Kinds DEF Resting, Rests
<1>9. next_unique = n /\ n \in 0 .. UNIQUE_MOD - 1
  BY <1>4, NoWrap
<1>10. ccall_sync(namespace, TRUE, m) /\ asked' = [asked EXCEPT ![memmgt] = m]
  BY <1>1, <1>4, Kinds DEF CallTo, curr
<1> DEFINE t == [aid |-> memmgt, unique |-> n]
<1>11. /\ panic' = "no" /\ kernel_curr_act' = namespace /\ KernelOK(Next_s)
       /\ sched_status' = [sched_status EXCEPT ![memmgt] = "sync_block", ![namespace] = "runnable"]
       /\ frame' = [frame EXCEPT ![memmgt] = [v0 |-> m, c1 |-> NULL],
                                 ![namespace] = [v0 |-> m, c1 |-> t]]
       /\ unique' = n
       /\ expected_reply' = [expected_reply EXCEPT ![memmgt] = n]
       /\ UNCHANGED <<status, kernel_next_act>> /\ TakesSlot(memmgt, namespace)
  <2> HIDE DEF m
  <2>1. namespace \in Aid \ {0} /\ next_unique \in 0 .. UNIQUE_MOD - 1
    BY <1>6, <1>9, Kinds
  <2>2. /\ panic' = "no" /\ kernel_curr_act' = namespace /\ KernelOK(Next_s)
        /\ sched_status' = [sched_status EXCEPT ![kernel_curr_act] = "sync_block",
                                                ![namespace] = "runnable"]
        /\ frame' = [frame EXCEPT ![kernel_curr_act] = [v0 |-> m, c1 |-> NULL],
               ![namespace] = [v0 |-> m, c1 |-> [aid |-> kernel_curr_act, unique |-> next_unique]]]
        /\ unique' = next_unique
        /\ expected_reply' = [expected_reply EXCEPT ![kernel_curr_act] = next_unique]
        /\ UNCHANGED <<status, kernel_next_act>>
        /\ rq'.end = rq.end /\ rq'.idx = rq.idx
        /\ rq'.squeue_a[rq.aqueue[kernel_curr_act]] = namespace
        /\ \A i \in 0 .. rq.end - 1 :
             i # rq.aqueue[kernel_curr_act] => rq'.squeue_a[i] = rq.squeue_a[i]
    <3>1. KernelOK(Now) /\ panic = "no" /\ kernel_curr_act \in Aid
          /\ sched_status[kernel_curr_act] = "runnable" /\ sched_status[namespace] = "waiting"
          /\ ccall_sync(namespace, TRUE, m)
      BY <1>4, <1>5, <1>6, <1>8, <1>10
    <3> QED BY <2>1, <3>1, <1>7, CallSwitches
  <2> QED BY <2>2, <1>5, <1>9 DEF TakesSlot
<1> HIDE DEF t
<1>12. /\ pc'[memmgt] = "register_ns" /\ \A a \in Aid \ {memmgt} : pc'[a] = pc[a]
       /\ pc'[init] = pc[init]
       /\ asked'[memmgt] = m /\ \A a \in Aid \ {memmgt} : asked'[a] = asked[a]
       /\ sched_status'[memmgt] = "sync_block" /\ sched_status'[namespace] = "runnable"
       /\ \A a \in Aid \ {memmgt, namespace} : sched_status'[a] = sched_status[a]
       /\ frame'[namespace] = [v0 |-> m, c1 |-> t]
       /\ \A a \in Aid \ {memmgt, namespace} : frame'[a] = frame[a]
       /\ expected_reply'[memmgt] = n
       /\ \A a \in Aid \ {memmgt} : expected_reply'[a] = expected_reply[a]
       /\ sync_token'[memmgt] = tok(init)
       /\ \A a \in Aid \ {memmgt} : sync_token'[a] = sync_token[a]
  BY <1>1, <1>3, <1>4, <1>5, <1>6, <1>10, <1>11, Kinds
<1>13. \A a \in Aid : Started(a)' <=> Started(a)
  BY <1>12, StartedSame
<1>14. KSide'
  <2>1. expected_reply' \in [Aid -> 0 .. UNIQUE_MOD - 1]
    BY <1>5, <1>9, <1>11
  <2> QED BY <2>1, <1>5, <1>6, <1>9, <1>11, <1>12, Kinds, KSideNext
<1>15. UType'
  <2>1. "register_ns" \in Places
    BY DEF Places
  <2>2. pc' \in [Aid -> Places] /\ asked' \in [Aid -> Arg \cup {ZERO}]
    BY <2>1, <1>1, <1>4, <1>7, <1>10
  <2>3. tok(init) \in Token
    BY <1>5, <1>6 DEF tok, Token
  <2>4. sync_token' \in [Aid -> Token \cup {NULL}]
    BY <2>3, <1>1, <1>3, <1>5
  <2> QED BY <2>2, <2>4, <1>1, <1>4 DEF UType
<1>16. LoadOK'
  <2>1. /\ \A a \in Aid : pc'[a] # "new" /\ a > init => pc[a] # "new" \/ Started(a)
        /\ pc'[memmgt] = "new" => pc[memmgt] = "new"
        /\ pc'[namespace] = "new" => pc[namespace] = "new"
        /\ \A d \in DaemonIds : pc[d] = "msg_entry" => pc'[d] = "msg_entry"
    BY <1>1, <1>6, <1>12, Kinds
  <2> QED BY <2>1, <1>4, <1>11, <1>12, LoadKeeps
<1>17. Phase'
  <2>1. Delivered(memmgt, namespace)'
    <3>1. tok(memmgt)' = t
      BY <1>12 DEF tok, t
    <3>2. namespace # memmgt
      BY Kinds
    <3> QED BY <3>1, <3>2, <1>6, <1>8, <1>11, <1>12 DEF Delivered, curr
  <2>2. Calm({init, memmgt, namespace})'
    <3> SUFFICES ASSUME NEW a \in Aid \ {0, init, memmgt, namespace} PROVE Resting(a)'
      BY DEF Calm
    <3>1. Resting(a)
      BY <1>3 DEF Calm
    <3> QED BY <3>1, <1>12, <1>13 DEF Resting, Rests
  <2>3. tok(init)' = tok(init) /\ init # memmgt /\ init # namespace
    BY <1>6, <1>12, Kinds DEF tok
  <2>4. Owes'
    BY <2>2, <2>3, <1>2, <1>3, <1>6, <1>12 DEF Owes
  <2>5. Order(init)'
    <3>1. AllUp => AllUp'
      BY <1>12, Kinds DEF AllUp
    <3>2. Room' = Room
      BY <1>12 DEF Room
    <3>3. curr' = namespace
      BY <1>11 DEF curr
    <3> QED BY <3>1, <3>2, <3>3, <1>2, <1>4, <1>6, <1>11, OrderMoves
  <2> QED BY <2>1, <2>4, <2>5 DEF Phase, Nested
<1>18. Bound' /\ bind[memmgt] = 0
  <2>1. Unbound /\ Unbound'
    BY <1>1, <1>2, <1>3, <1>12 DEF Unbound
  <2>2. ASSUME NEW d \in DaemonIds
        PROVE  pc'[d] = pc[d] /\ sched_status'[d] = sched_status[d]
    BY <1>12, Kinds
  <2> QED BY <2>1, <2>2, <1>1, <1>4 DEF Bound
<1>19. UserOK'
  <2>1. \A u \in UserIds : pc'[u] = pc[u] /\ asked'[u] = asked[u]
    BY <1>12, Kinds
  <2> QED BY <2>1, <1>4, UserKeeps
<1>20. Alive'
  <2>1. \A a \in Aid : pc'[a] = "exited" <=> pc[a] = "exited"
    BY <1>1, <1>12
  <2> QED BY <2>1, <1>11, <1>4 DEF Alive
<1>21. Tokens'
  <2>1. /\ \A a \in Aid : expected_reply[a] \in Nat /\ expected_reply[a] <= unique
        /\ unique' = unique + 1
    BY <1>4, <1>5, <1>11, ModAssumption DEF Tokens
  <2>2. \A a \in Aid : expected_reply'[a] <= unique'
    <3>1. \A a \in Aid : expected_reply[a] <= unique + 1
      BY <2>1, <1>4
    <3> QED BY <3>1, <2>1, <1>4, <1>12
  <2>3. ASSUME NEW r \in Aid, sync_token'[r] # NULL
        PROVE  /\ sync_token'[r].unique <= unique'
               /\ sched_status'[sync_token'[r].aid] = "sync_block"
                    /\ sync_token'[r] = [aid |-> sync_token'[r].aid,
                                         unique |-> expected_reply'[sync_token'[r].aid]]
                  => r = memmgt /\ pc'[memmgt] = "register_ns"
    <3>1. CASE r = memmgt
      <4>1. tok(init).unique <= unique + 1
        BY <2>1, <1>4, <1>6 DEF tok
      <4> QED BY <4>1, <2>1, <3>1, <1>12
    <3>2. CASE r # memmgt
      <4> DEFINE k == sync_token[r]
      <4>1. sync_token'[r] = k /\ k \in Token /\ k.aid \in Aid /\ k.unique \in Nat
        <5>1. sync_token'[r] = k /\ k \in Token
          BY <2>3, <3>2, <1>5, <1>12
        <5> QED BY <5>1, ModAssumption DEF Token
      <4>2. k.unique <= unique
            /\ ~(sched_status[k.aid] = "sync_block" /\ k = [aid |-> k.aid, unique |-> expected_reply[k.aid]])
        BY <2>3, <3>2, <4>1, <1>4 DEF Tokens, tok
      <4> HIDE DEF k
      <4>3. k.unique # n /\ k.unique <= unique + 1
        BY <4>1, <4>2, <1>4
      <4>4. ~(sched_status'[k.aid] = "sync_block" /\ k = [aid |-> k.aid, unique |-> expected_reply'[k.aid]])
        <5>1. CASE k.aid = memmgt
          <6>1. SUFFICES ASSUME k = [aid |-> memmgt, unique |-> n] PROVE FALSE
            BY <5>1, <1>12
          <6>2. k.unique = n
            BY <6>1
          <6> QED BY <6>2, <4>3
        <5>2. CASE k.aid = namespace
          BY <5>2, <1>12
        <5>3. CASE k.aid \notin {memmgt, namespace}
          BY <5>3, <4>1, <4>2, <1>12
        <5> QED BY <5>1, <5>2, <5>3
      <4> QED BY <4>1, <4>3, <4>4, <2>1
    <3> QED BY <3>1, <3>2
  <2> QED BY <2>2, <2>3 DEF Tokens, tok
<1>22. AnswersMatch'
  <2>1. ASSUME NEW a \in Aid, asked'[a] # ZERO, sched_status'[a] = "runnable"
        PROVE  frame'[a].v0 = Due(asked'[a])
    <3>1. a # memmgt
      BY <2>1, <1>12
    <3>2. a # namespace
      BY <2>1, <3>1, <1>8, <1>12
    <3> QED BY <2>1, <3>1, <3>2, <1>4, <1>12, Matching
  <2> QED BY <2>1 DEF AnswersMatch, Due
<1>23. Counted'
  <2>1. \A a \in Aid, row \in Rows, k \in 1 .. 3 : Did(a, row, k) => Did(a, row, k)'
    <3>1. \A d \in DaemonIds \cup UserIds : pc'[d] = pc[d]
      BY <1>12, Kinds
    <3> QED BY <3>1, <1>1, <1>12 DEF Did
  <2>2. 0 \in Rows /\ 1 \in 1 .. 3
    BY Ids DEF Rows
  <2>3. ~Did(memmgt, 0, 1)
    BY <1>1, <1>18, Kinds DEF Did
  <2>4. Did(memmgt, 0, 1)'
    BY <1>12 DEF Did
  <2> QED BY <2>1, <2>2, <2>3, <2>4, <1>4, <1>6, <1>11, CountCall
<1> QED BY <1>14, <1>15, <1>16, <1>17, <1>18, <1>19, <1>20, <1>21, <1>22, <1>23 DEF Live

(* namespace registers memmgt, and answers it.                             *)
LEMMA NestedDispatch ==
  ASSUME Live, CallBound < REPLY_MOD, curr = namespace, Nested, Order(init), Dispatch,
         UNCHANGED <<be, naps, memmgt_ref, peer, ops>>
  PROVE  Live'
<1> DEFINE m == M("ns_register", memmgt)
           ans == M("done", 0)
<1>1. /\ pc[memmgt] = "register_ns" /\ sync_token[memmgt] = tok(init) /\ asked[memmgt] = m
      /\ sched_status[init] = "sync_block" /\ asked[init] = M("register_ns", 0)
      /\ be > namespace /\ Calm({init, memmgt, namespace})
      /\ sched_status[memmgt] = "sync_block"
      /\ pc[namespace] = "msg_entry" /\ asked[namespace] = ZERO
      /\ frame[namespace].v0 = m /\ frame[namespace].c1 = tok(memmgt)
  BY DEF Nested, Owes, Delivered
<1>2. /\ KSide /\ UType /\ LoadOK /\ Bound /\ UserOK /\ Alive /\ Tokens /\ Counted
      /\ AnswersMatch /\ pc \in [Aid -> Places] /\ sched_status \in [Aid -> SchedStatus]
      /\ unique \in Nat /\ asked \in [Aid -> Arg \cup {ZERO}] /\ be \in Nat
      /\ sched_status[namespace] = "runnable" /\ frame \in [Aid -> Msg]
  BY TypeFacts
<1>3. /\ panic = "no" /\ KernelOK(Now) /\ kernel_curr_act = namespace
      /\ status \in [Aid -> Status] /\ expected_reply \in [Aid -> 0 .. UNIQUE_MOD - 1]
      /\ kernel_next_act \in 0 .. MAX_ACTIVATIONS /\ unique \in 0 .. UNIQUE_MOD - 1
      /\ sync_token \in [Aid -> Token \cup {NULL}] /\ bind \in [Aid -> Aid]
  BY <1>2, KSideFacts DEF curr, UType
<1>4. init \in Aid /\ memmgt \in Aid /\ namespace \in Aid
  BY Ids
<1>5. bind[memmgt] = 0
  BY <1>1, <1>2 DEF Unbound, Bound
<1>6. /\ CReturn(tok(memmgt), ans) /\ pc' = pc /\ bind' = [bind EXCEPT ![memmgt] = memmgt]
  <2>1. m.op = "ns_register" /\ m.n = memmgt
    BY MFacts
  <2>2. Answer(m) = ans
    BY <2>1, <1>5 DEF Answer
  <2> HIDE DEF m, ans
  <2> QED BY <2>1, <2>2, <1>1, <1>5 DEF Dispatch
<1>7. ans \in Arg /\ ans = Due(m) /\ m # ZERO
  <2>1. m.op = "ns_register" /\ ans \in Arg
    BY DoneArg, MFacts
  <2>2. m # ZERO
    BY <1>4, MArg DEF Requests
  <2>3. ans = Due(m)
    <3> HIDE DEF m
    <3> QED BY <2>1 DEF Due
  <2> QED BY <2>1, <2>2, <2>3
<1> HIDE DEF m, ans
<1>8. tok(memmgt) \in Token /\ tok(memmgt) # NULL /\ tok(memmgt).aid = memmgt
      /\ tok(memmgt).unique <= unique
  BY <1>2, <1>3, <1>4, NullAssumption DEF tok, Token, Tokens
<1>9. Expected(tok(memmgt))
  <2>1. expected_reply[memmgt] \in Nat /\ expected_reply[memmgt] < REPLY_MOD /\ REPLY_MOD \in Nat
    <3>1. unique < REPLY_MOD /\ REPLY_MOD \in Nat
      BY <1>2, NoWrap
    <3>2. expected_reply[memmgt] \in Nat /\ expected_reply[memmgt] <= unique
      BY <1>2, <1>3, <1>4, ModAssumption DEF Tokens
    <3> QED BY <3>1, <3>2, <1>2
  <2>2. expected_reply[memmgt] % REPLY_MOD = expected_reply[memmgt]
    BY <2>1
  <2> QED BY <2>2 DEF Expected, tok
<1>10. /\ sync_token' = [sync_token EXCEPT ![namespace] = tok(memmgt)]
       /\ creturn_sync(tok(memmgt), ans) /\ asked' = [asked EXCEPT ![namespace] = ZERO]
  BY <1>6, <1>8 DEF CReturn
<1>11. /\ panic' = "no" /\ kernel_curr_act' = memmgt /\ KernelOK(Next_s)
       /\ sched_status' = [sched_status EXCEPT ![memmgt] = "runnable", ![namespace] = "waiting"]
       /\ frame'[memmgt].v0 = ans /\ \A a \in Aid \ {memmgt, namespace} : frame'[a] = frame[a]
       /\ UNCHANGED <<status, expected_reply, kernel_next_act, unique>>
       /\ TakesSlot(namespace, memmgt)
  <2>1. kernel_curr_act \in Aid /\ sched_status[kernel_curr_act] = "runnable"
    BY <1>2, <1>3, <1>4
  <2>2. sched_status[tok(memmgt).aid] = "sync_block"
    BY <1>1, <1>8
  <2> QED BY <2>1, <2>2, <1>3, <1>7, <1>8, <1>9, <1>10, ReturnSwitches DEF TakesSlot
<1>12. /\ sched_status'[memmgt] = "runnable" /\ sched_status'[namespace] = "waiting"
       /\ \A a \in Aid \ {memmgt, namespace} : sched_status'[a] = sched_status[a]
       /\ asked'[namespace] = ZERO /\ \A a \in Aid \ {namespace} : asked'[a] = asked[a]
       /\ sync_token'[namespace] = tok(memmgt)
       /\ \A a \in Aid \ {namespace} : sync_token'[a] = sync_token[a]
       /\ bind'[memmgt] = memmgt /\ \A a \in Aid \ {memmgt} : bind'[a] = bind[a]
  BY <1>2, <1>3, <1>4, <1>6, <1>10, <1>11, Kinds
<1>13. \A a \in Aid : Started(a)' <=> Started(a)
  BY <1>6, StartedSame
<1>14. KSide'
  BY <1>3, <1>4, <1>11, <1>12, Kinds, KSideNext
<1>15. UType'
  <2>1. asked' \in [Aid -> Arg \cup {ZERO}] /\ bind' \in [Aid -> Aid]
    BY <1>2, <1>3, <1>4, <1>6, <1>10
  <2>2. sync_token' \in [Aid -> Token \cup {NULL}]
    BY <1>3, <1>8, <1>10
  <2> QED BY <2>1, <2>2, <1>2, <1>6 DEF UType
<1>16. LoadOK'
  BY <1>2, <1>6, <1>11, LoadKeeps
<1>17. Phase'
  <2>1. Calm({init, memmgt, namespace})'
    <3> SUFFICES ASSUME NEW a \in Aid \ {0, init, memmgt, namespace} PROVE Resting(a)'
      BY DEF Calm
    <3>1. Resting(a)
      BY <1>1 DEF Calm
    <3> QED BY <3>1, <1>6, <1>12, <1>13 DEF Resting, Rests
  <2>2. Resting(namespace)'
    BY <1>1, <1>6, <1>12, Kinds DEF Resting, Rests
  <2>3. tok(init)' = tok(init) /\ init # memmgt /\ init # namespace /\ memmgt # namespace
    BY <1>11, Kinds DEF tok
  <2>4. Owes'
    BY <2>1, <2>3, <1>1, <1>4, <1>6, <1>12 DEF Owes, m
  <2>5. Order(init)'
    <3>1. AllUp => AllUp'
      BY <1>6 DEF AllUp
    <3>2. Room' = Room
      BY <1>6 DEF Room
    <3>3. curr' = memmgt
      BY <1>11 DEF curr
    <3> QED BY <3>1, <3>2, <3>3, <1>2, <1>4, <1>11, OrderMoves
  <2> QED BY <2>2, <2>4, <2>5, <1>11 DEF Phase, Back, curr
<1>18. Bound'
  <2>1. ~Unbound'
    <3>1. ~(be' <= namespace)
      BY <1>1, <1>2, Ids
    <3> QED BY <3>1, <1>1, <1>6, <1>12 DEF Unbound
  <2>2. ASSUME NEW d \in DaemonIds
        PROVE  pc'[d] = pc[d] /\ sched_status'[d] = sched_status[d] /\ bind'[d] = bind[d]
    BY <1>6, <1>12, Kinds
  <2> QED BY <2>1, <2>2, <1>2, <1>12 DEF Bound
<1>19. UserOK'
  <2>1. \A u \in UserIds : pc'[u] = pc[u] /\ asked'[u] = asked[u]
    BY <1>6, <1>12, Kinds
  <2> QED BY <2>1, <1>2, UserKeeps
<1>20. Alive'
  BY <1>2, <1>6, <1>11 DEF Alive
<1>21. Tokens'
  <2>1. \A a \in Aid : expected_reply'[a] <= unique'
    BY <1>2, <1>11 DEF Tokens
  <2>2. ASSUME NEW r \in Aid, sync_token'[r] # NULL
        PROVE  /\ sync_token'[r].unique <= unique
               /\ sched_status'[sync_token'[r].aid] = "sync_block"
                    /\ sync_token'[r] = tok(sync_token'[r].aid)
                  => r = memmgt
    <3>1. CASE r = namespace
      BY <3>1, <1>8, <1>12
    <3>2. CASE r # namespace
      <4>1. sync_token'[r] = sync_token[r] /\ sync_token[r] \in Token
        BY <2>2, <3>2, <1>3, <1>12
      <4>2. sync_token[r].aid \in Aid
        BY <4>1 DEF Token
      <4>3. sched_status'[sync_token[r].aid] = "sync_block" => sched_status[sync_token[r].aid] = "sync_block"
        BY <4>2, <1>12
      <4> QED BY <2>2, <4>1, <4>3, <1>2 DEF Tokens
    <3> QED BY <3>1, <3>2
  <2> QED BY <2>1, <2>2, <1>1, <1>6, <1>11 DEF Tokens, tok
<1>22. AnswersMatch'
  <2>1. ASSUME NEW a \in Aid, asked'[a] # ZERO, sched_status'[a] = "runnable"
        PROVE  frame'[a].v0 = Due(asked'[a])
    <3>1. CASE a = memmgt
      BY <3>1, <1>1, <1>4, <1>7, <1>11, <1>12, Kinds
    <3>2. CASE a # memmgt
      <4>1. a # namespace
        BY <2>1, <1>12
      <4> QED BY <2>1, <3>2, <4>1, <1>2, <1>11, <1>12, Matching
    <3> QED BY <3>1, <3>2
  <2> QED BY <2>1 DEF AnswersMatch, Due
<1>23. Counted'
  <2>1. \A a \in Aid, row \in Rows, k \in 1 .. 3 : Did(a, row, k) => Did(a, row, k)'
    BY <1>1, <1>6 DEF Did
  <2> QED BY <2>1, <1>2, <1>11, CountSame
<1> QED BY <1>14, <1>15, <1>16, <1>17, <1>18, <1>19, <1>20, <1>21, <1>22, <1>23 DEF Live

(* Every step of a service.                                                *)
LEMMA ServiceInv ==
  ASSUME Live, CallBound < REPLY_MOD, ServiceStep
  PROVE  SystemInv'
<1>1. PICK s \in Services : s = curr
  BY DEF ServiceStep, Services
<1>2. UNCHANGED <<be, naps, memmgt_ref, peer, ops>>
  BY DEF ServiceStep
<1>3. CASE ServiceMain
  BY <1>1, <1>2, <1>3, ServiceMains DEF SystemInv
<1>4. CASE DaemonMain
  BY <1>1, <1>2, <1>4, DaemonMains DEF SystemInv
<1>5. CASE DaemonRegistered
  BY <1>1, <1>2, <1>5, DaemonsRegistered DEF SystemInv
<1>6. CASE Dispatch
  <2>1. pc[s] = "msg_entry"
    BY <1>1, <1>6 DEF Dispatch
  <2>2. CASE pc[memmgt] # "register_ns" /\ \E x \in Aid : Called(x) /\ Order(x)
    <3>1. PICK x \in Aid : Called(x) /\ Order(x)
      BY <2>2
    <3>2. Live'
      BY <3>1, <2>2, <1>1, <1>2, <1>6, CalledDispatch
    <3> QED BY <3>2 DEF SystemInv
  <2>3. CASE s = namespace /\ Nested /\ Order(init)
    <3>1. Live'
      BY <2>3, <1>1, <1>2, <1>6, NestedDispatch
    <3> QED BY <3>1 DEF SystemInv
  <2> QED BY <2>1, <2>2, <2>3, <1>1, ServicePhase
<1>7. CASE RegisterNs
  BY <1>1, <1>2, <1>7, RegisterCalls DEF SystemInv
<1>8. CASE RegisteredNs
  BY <1>1, <1>2, <1>8, RegisteredAnswers DEF SystemInv
<1>9. CASE Overflow
  BY <1>1, <1>2, <1>9, OverflowEnds
<1> QED BY <1>3, <1>4, <1>5, <1>6, <1>7, <1>8, <1>9 DEF ServiceStep

----------------------------------------------------------------------------
(* The theorems.                                                           *)

(* act_init and init.S leave init alone in the run queue.                  *)
LEMMA InitLiveAtStart == Init => Live
<1> SUFFICES ASSUME Init PROVE Live
  OBVIOUS
<1>1. /\ act_init /\ pc = [a \in Aid |-> IF a = init THEN "register" ELSE "new"]
      /\ sync_token = [a \in Aid |-> NULL] /\ be = memmgt /\ naps = 0
      /\ bind = [p \in Aid |-> 0] /\ memmgt_ref = [a \in Aid |-> 0]
      /\ peer = [a \in Aid |-> 0]
      /\ ops = [a \in Aid |-> IF a \in UserIds THEN MaxOps ELSE 0]
      /\ asked = [a \in Aid |-> ZERO]
  BY DEF Init
<1>2. /\ KTypeOK /\ SchedOK(Now) /\ rq.squeue_a[0] = 1 /\ rq.idx = 0 /\ rq.end = 1
      /\ \A a \in Aid : empty(msg_queues[a])
  BY <1>1, KernelInit
<1>3. /\ sched_status = [a \in Aid |-> IF a = 0 THEN "terminated"
                                       ELSE IF a = 1 THEN "runnable" ELSE "waiting"]
      /\ status = [a \in Aid |-> IF a = 0 THEN "terminated" ELSE "alive"]
      /\ expected_reply = [a \in Aid |-> 0] /\ unique = 0 /\ panic = "no"
      /\ curr = init /\ kernel_next_act = memmgt
  BY <1>1, Ids DEF act_init, curr
<1>4. KSide
  <2>1. \A a \in Aid : Box(Now, a)
    BY <1>2, <1>3 DEF Box, Now
  <2>2. sched_status[init] = "runnable" /\ init # 0
    BY <1>3, Ids
  <2> QED BY <2>1, <2>2, <1>2, <1>3 DEF KSide, KernelOK
<1>5. pc[init] = "register" /\ \A a \in Aid : a # init => pc[a] = "new"
  BY <1>1, Ids
<1>6. \A a \in Aid : a > init => ~Started(a)
  BY <1>1, <1>5, Ids DEF Started
<1>7. UType
  <2>1. "register" \in Places /\ "new" \in Places
    BY DEF Places
  <2>2. memmgt \in 2 .. MAX_ACTIVATIONS /\ 0 \in 0 .. MaxOps /\ MaxOps \in 0 .. MaxOps
    BY Ids
  <2>3. pc \in [Aid -> Places] /\ ops \in [Aid -> 0 .. MaxOps]
    BY <2>1, <2>2, <1>1
  <2> QED BY <2>2, <2>3, <1>1, Ids DEF UType
<1>8. LoadOK
  <2>1. be < MAX_ACTIVATIONS /\ ~(be > 4 + Daemons)
    BY <1>1, Ids
  <2>2. pc[memmgt] = "new" => be = memmgt
    BY <1>1
  <2>3. be <= namespace
    BY <1>1, Ids
  <2>4. \A a \in Aid : a > init /\ pc[a] # "new" => Started(a)
    BY <1>5, Ids
  <2> QED BY <2>1, <2>2, <2>3, <2>4, <1>1, <1>3, <1>5 DEF LoadOK
<1>9. Phase
  <2>1. Calm({init})
    <3> SUFFICES ASSUME NEW a \in Aid \ {0, init} PROVE Resting(a)
      BY DEF Calm
    <3>1. a > init
      BY Ids
    <3>2. sched_status[a] = "waiting" /\ pc[a] = "new" /\ asked[a] = ZERO
      BY <1>1, <1>3, <1>5, Ids
    <3> QED BY <3>1, <3>2, <1>6 DEF Resting, Rests
  <2>2. AtTop(init)
    BY DEF AtTop, Top
  <2>3. Order(init)
    <3>1. Room = 1
      BY <1>1, <1>5, Ids DEF Room
    <3>2. be <= 3 + Daemons
      BY <1>1, Ids
    <3>3. rq.squeue_a[0] = curr
      BY <1>2, <1>3, Ids
    <3> QED BY <3>1, <3>2, <3>3, <1>2 DEF Order, InitFirst
  <2> QED BY <2>1, <2>2, <2>3, <1>3 DEF Phase, Own
<1>10. Bound
  <2>1. Unbound
    BY <1>1, Ids DEF Unbound
  <2>2. \A d \in DaemonIds : pc[d] = "new" /\ bind[d] = 0
    BY <1>1, <1>5, Kinds
  <2> QED BY <2>1, <2>2, <1>1, Ids DEF Bound
<1>11. UserOK
  <2>1. \A u \in UserIds : pc[u] = "new"
    BY <1>5, Kinds
  <2> QED BY <2>1 DEF UserOK
<1>12. Alive
  <2>1. \A a \in Aid : pc[a] # "exited"
    BY <1>5
  <2> QED BY <2>1, <1>3 DEF Alive
<1>13. Tokens
  <2>1. \A a \in Aid : expected_reply[a] <= unique /\ sync_token[a] = NULL
    BY <1>1, <1>3
  <2> QED BY <2>1 DEF Tokens
<1>14. Counted
  <2>1. Cardinality(Made) \in Nat
    BY MadeFinite
  <2> QED BY <2>1, <1>3 DEF Counted
<1>15. AnswersMatch
  BY <1>1 DEF AnswersMatch
<1> QED BY <1>4, <1>7, <1>8, <1>9, <1>10, <1>11, <1>12, <1>13, <1>14, <1>15 DEF Live

(* A machine that is halted stays as it is.                                *)
LEMMA StutterLive ==
  ASSUME Live, UNCHANGED vars
  PROVE  Live'
<1>1. /\ UNCHANGED <<pc, sync_token, be, naps, bind, memmgt_ref, peer, ops, asked>>
      /\ UNCHANGED <<status, sched_status, expected_reply, msg_queues, frame, rq,
                     kernel_curr_act, kernel_next_act, unique, panic>>
  BY DEF vars, uvars, kvars
<1>2. KSide /\ UType /\ LoadOK /\ Phase /\ Bound /\ UserOK /\ Alive /\ Tokens /\ Counted
      /\ AnswersMatch /\ unique \in Nat
  BY TypeFacts
<1>3. KSide'
  BY <1>1, <1>2 DEF KSide, KTypeOK, KernelOK, SchedOK, SchedType, Now, Mail, Box, curr
<1>4. UType' /\ Alive' /\ AnswersMatch'
  BY <1>1, <1>2 DEF UType, Alive, AnswersMatch
<1>5. \A a \in Aid : Started(a)' <=> Started(a)
  BY <1>1, StartedSame
<1>6. LoadOK' /\ Bound'
  <2>1. Unbound' <=> Unbound
    BY <1>1 DEF Unbound
  <2>2. LoadOK'
    BY <1>1, <1>2, LoadKeeps
  <2>3. Bound'
    BY <2>1, <1>1, <1>2 DEF Bound
  <2> QED BY <2>2, <2>3
<1>7. UserOK'
  BY <1>1, <1>2, UserKeeps
<1>8. Tokens'
  BY <1>1, <1>2, <1>4, TokensKeep
<1>9. Counted'
  <2>1. \A a \in Aid, row \in Rows, k \in 1 .. 3 : Did(a, row, k) => Did(a, row, k)'
    BY <1>1 DEF Did
  <2> QED BY <2>1, <1>1, <1>2, CountSame
<1>10. Phase'
  <2>1. \A a \in Aid : /\ Resting(a)' <=> Resting(a)
                       /\ AtTop(a)' <=> AtTop(a)
                       /\ tok(a)' = tok(a)
    <3> SUFFICES ASSUME NEW a \in Aid
                 PROVE  /\ Resting(a)' <=> Resting(a)
                        /\ AtTop(a)' <=> AtTop(a)
                        /\ tok(a)' = tok(a)
      OBVIOUS
    <3>1. /\ Started(a)' <=> Started(a)
          /\ pc'[a] = pc[a] /\ asked'[a] = asked[a] /\ sched_status'[a] = sched_status[a]
      BY <1>1, <1>5
    <3>2. Resting(a)' <=> Resting(a)
      BY <3>1 DEF Resting, Rests
    <3>3. AtTop(a)' <=> AtTop(a)
      BY <3>1 DEF AtTop, Top
    <3>4. tok(a)' = tok(a)
      BY <1>1 DEF tok
    <3> QED BY <3>2, <3>3, <3>4
  <2>2. \A x, s \in Aid : /\ Asks(x, s)' <=> Asks(x, s)
                          /\ Delivered(x, s)' <=> Delivered(x, s)
    BY <2>1, <1>1 DEF Asks, Delivered, curr
  <2>3. \A b \in Aid : Order(b)' <=> Order(b)
    BY <1>1 DEF Order, AllUp, InitFirst, OtherFirst, Room, curr
  <2>4. \A S : Calm(S)' <=> Calm(S)
    BY <2>1 DEF Calm
  <2>5. curr' = curr /\ curr \in Aid /\ init \in Aid /\ memmgt \in Aid /\ namespace \in Aid
    BY <1>1, TypeFacts, Ids DEF curr
  <2>6. Owes' <=> Owes
    BY <2>1, <2>4, <2>5, <1>1 DEF Owes
  <2> QED BY <2>1, <2>2, <2>3, <2>4, <2>5, <2>6, <1>2 DEF Phase, Own, Called, Nested, Back
<1> QED BY <1>3, <1>4, <1>6, <1>7, <1>8, <1>9, <1>10 DEF Live

(* A kernel that has stopped stays as it is.                               *)
LEMMA StutterDead ==
  ASSUME Dead, UNCHANGED vars
  PROVE  Dead'
BY DEF vars, uvars, kvars, Dead, TypeOK, KTypeOK, AnswersMatch, AwaitsOverflow

(* Every step keeps the invariant.                                         *)
LEMMA SystemStep ==
  ASSUME Daemons <= 7, CallBound < REPLY_MOD, SystemInv, [Next]_vars
  PROVE  SystemInv'
<1>1. CASE UNCHANGED vars
  BY <1>1, StutterLive, StutterDead DEF SystemInv
<1>2. CASE ~Halted /\ (InitStep \/ ServiceStep \/ UserStep)
  <2>1. Live
    BY <1>2 DEF Halted, Running, SystemInv, Dead
  <2>2. CASE InitStep
    BY <2>1, <2>2, InitLive DEF SystemInv
  <2>3. CASE ServiceStep
    BY <2>1, <2>3, ServiceInv
  <2>4. CASE UserStep
    BY <2>1, <2>4, UserLive DEF SystemInv
  <2> QED BY <1>2, <2>2, <2>3, <2>4
<1> QED BY <1>1, <1>2 DEF Next

(* The invariant says what the properties say.                             *)
LEMMA LiveTypes == Live => TypeOK
BY DEF Live, KSide, UType, TypeOK

(* memmgt owes init an answer while it registers.                          *)
LEMMA LiveOwes == Live => OwesWhileBlocked
<1> SUFFICES ASSUME Live, pc[memmgt] = "register_ns"
             PROVE  /\ sync_token[memmgt] # NULL
                    /\ sched_status[sync_token[memmgt].aid] = "sync_block"
                    /\ expected_reply[sync_token[memmgt].aid] = sync_token[memmgt].unique
                    /\ sync_token[memmgt].aid # namespace
  BY DEF OwesWhileBlocked
<1>1. Owes
  <2>1. curr # init
    BY InitPhase
  <2>2. curr \notin UserIds
    BY UserPhase
  <2>3. curr \in Services
    BY <2>1, <2>2, TypeFacts, Kinds
  <2> QED BY <2>3, ServicePhase DEF Nested, Back
<1>2. sync_token[memmgt] = tok(init) /\ sched_status[init] = "sync_block"
  BY <1>1 DEF Owes
<1>3. tok(init) \in Token
  <2>1. expected_reply \in [Aid -> 0 .. UNIQUE_MOD - 1]
    BY TypeFacts, KSideFacts
  <2> QED BY <2>1, Ids DEF tok, Token
<1>4. tok(init).aid = init /\ tok(init).unique = expected_reply[init] /\ tok(init) # NULL
  BY <1>3, NullAssumption DEF tok
<1> QED BY <1>2, <1>4, Kinds

(* With as many daemons as the naps of init leave time for, and fewer      *)
(* calls than sync tokens: the running program is where it may be, for     *)
(* itself or for a caller that waits for its answer, everyone else is at   *)
(* rest, and the run queue lets every service that was started go first.   *)
THEOREM SystemInvariant ==
  ASSUME Daemons <= 7, CallBound < REPLY_MOD
  PROVE  Spec => []SystemInv
<1>1. Init => SystemInv
  BY InitLiveAtStart DEF SystemInv
<1>2. SystemInv /\ [Next]_vars => SystemInv'
  BY SystemStep
<1> QED BY <1>1, <1>2, PTL DEF Spec

(* Every variable has its type.                                            *)
THEOREM SystemTypes ==
  ASSUME Daemons <= 7, CallBound < REPLY_MOD
  PROVE  Spec => []TypeOK
<1>1. SystemInv => TypeOK
  BY LiveTypes DEF SystemInv, Dead
<1> QED BY <1>1, SystemInvariant, PTL

(* The kernel never stops, unless a program calls a method its service     *)
(* does not have: no assertion fails, no queue is full when a call is      *)
(* made, there is always somebody to run, and every service that is looked *)
(* up is registered by then.  It holds for every number of daemons that    *)
(* three naps are enough for and every number of user programs.            *)
THEOREM SystemNeverStops ==
  ASSUME Daemons <= 7, CallBound < REPLY_MOD
  PROVE  Spec => []NeverStops
<1>1. SystemInv => NeverStops
  BY DEF SystemInv, Live, KSide, Dead, NeverStops
<1> QED BY <1>1, SystemInvariant, PTL

(* A program gets the answer to its own request, whatever calls the others *)
(* make meanwhile.                                                         *)
THEOREM SystemAnswers ==
  ASSUME Daemons <= 7, CallBound < REPLY_MOD
  PROVE  Spec => []AnswersMatch
<1>1. SystemInv => AnswersMatch
  BY DEF SystemInv, Live, Dead
<1> QED BY <1>1, SystemInvariant, PTL

(* While memmgt waits for namespace it keeps the token of init, and init   *)
(* waits for the answer that the token is for.                             *)
THEOREM SystemOwes ==
  ASSUME Daemons <= 7, CallBound < REPLY_MOD
  PROVE  Spec => []OwesWhileBlocked
<1>1. SystemInv => OwesWhileBlocked
  BY LiveOwes DEF SystemInv, Dead, OwesWhileBlocked
<1> QED BY <1>1, SystemInvariant, PTL
=============================================================================
