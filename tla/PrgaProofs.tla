----------------------------- MODULE PrgaProofs -----------------------------
(***************************************************************************)
(* Theorems about Prga, for any number of clients and servers, messages,   *)
(* sockets and ports, and any size of the queues.  The invariant says on   *)
(* the kernel's side that what waits for the service are the calls of the  *)
(* programs that are blocked, one of each; on the programs' side that at   *)
(* most one client and one server are connected, and where the client's    *)
(* message is.                                                             *)
(***************************************************************************)
EXTENDS Prga, KernelProofs

----------------------------------------------------------------------------
(* The kernel: a program that is blocked has asked req[a] and has the      *)
(* token er[a]; the service has its message or will get it.                *)

(* The message of a program that is blocked in its call.                   *)
Call(s, req, er, m) ==
  \E a \in Programs : /\ s.st[a] = "sync_block"
                      /\ m = [v0 |-> req[a], c1 |-> [aid |-> a, unique |-> er[a]]]

(* What waits for the service are such calls, one of each program...       *)
Inbox(s, req, er) ==
  LET q == s.mq[socks]
  IN  /\ \A i \in Pending(q) : Call(s, req, er, q.msg[i])
      /\ \A i, j \in Pending(q) : q.msg[i].c1 = q.msg[j].c1 => i = j

(* ... and what it serves is another.                                      *)
Serving(s, req, er) ==
  s.st[socks] = "runnable" =>
    /\ Call(s, req, er, s.fr[socks])
    /\ \A i \in Pending(s.mq[socks]) : s.mq[socks].msg[i].c1 # s.fr[socks].c1

(* Only the service waits for messages, and init may always run.           *)
Base(s) ==
  /\ SchedOK(s) /\ s.st[booter] = "runnable"
  /\ s.st[socks] \in {"waiting", "schedulable", "runnable"}
  /\ \A a \in Programs : s.st[a] \in {"runnable", "sync_block", "terminated"}

Core(s, req, er) == Base(s) /\ Inbox(s, req, er) /\ Serving(s, req, er)

(* What a step leaves that ends with a switch: the programs are what they  *)
(* were in the handler's state s.                                          *)
Switched(s, req, er) ==
  /\ panic' = "no" /\ Core(Next_s, req, er)
  /\ kernel_curr_act' \in Aid /\ sched_status'[kernel_curr_act'] = "runnable"
  /\ \A a \in Programs : sched_status'[a] = s.st[a] /\ frame'[a] = s.fr[a]

(* The activations: init, the service and the programs differ.             *)
LEMMA Ids ==
  /\ MAX_ACTIVATIONS \in Nat /\ MAX_ACTIVATIONS > 1 /\ Aid = 0 .. MAX_ACTIVATIONS - 1
  /\ booter \in Aid /\ 0 \in Aid /\ booter # socks /\ booter # 0 /\ socks # 0
  /\ Programs = 3 .. MAX_ACTIVATIONS - 1
  /\ \A a \in Programs : a \in Aid /\ a # 0 /\ a # booter /\ a # socks
  /\ socks \in Aid
BY MaxActivationsAssumption, PrgaAssumption DEF Aid, booter, socks

(* A switch to a program or to init changes nobody; a switch to the        *)
(* service delivers the call that waits longest.                           *)
LEMMA PickedCore ==
  ASSUME NEW s, NEW req, NEW er, Core(s, req, er), NEW act \in Aid, Ready(s, act),
         SwitchTo(s, act), panic = "no"
  PROVE  Switched(s, req, er)
<1>1. /\ s.st \in [Aid -> SchedStatus] /\ s.mq \in [Aid -> Rings(Msg)] /\ s.fr \in [Aid -> Msg]
      /\ Mail(s, act) /\ s.st[0] = "terminated"
  BY DEF Core, Base, SchedOK, SchedType
<1>2. Settled(s.st)
  BY SwitchSettles DEF Core, Base
<1>3. panic' = "no"
  BY <1>1 DEF SwitchTo, kernel_panic, Mail
<1>4. SchedOK(Next_s) /\ kernel_curr_act' \in Aid /\ sched_status'[kernel_curr_act'] = "runnable"
  BY <1>2, <1>3 DEF Settled, Stops
<1>5. CASE s.st[act] # "schedulable"
  <2>1. sched_status' = s.st /\ msg_queues' = s.mq /\ frame' = s.fr
    BY <1>5 DEF SwitchTo
  <2>2. Next_s.st = s.st /\ Next_s.mq = s.mq /\ Next_s.fr = s.fr
    BY <2>1 DEF Next_s
  <2>3. Core(Next_s, req, er)
    BY <1>4, <2>2 DEF Core, Base, Inbox, Serving, Call
  <2> QED BY <1>3, <1>4, <2>1, <2>3 DEF Switched
<1>6. CASE s.st[act] = "schedulable"
  <2> DEFINE q == s.mq[socks]
  <2>1. ~(\E a \in Programs : a = act) /\ act # booter /\ act # 0
    BY <1>1, <1>6 DEF Core, Base
  <2>2. act = socks
    BY <2>1, Ids DEF booter, socks
  <2>3. /\ Next_s.st = [s.st EXCEPT ![act] = "runnable"]
        /\ Next_s.mq = [s.mq EXCEPT ![act] = dequeue(s.mq[act])]
        /\ Next_s.fr = [s.fr EXCEPT ![act] = front(s.mq[act])]
        /\ sched_status' = [s.st EXCEPT ![act] = "runnable"]
        /\ frame' = [s.fr EXCEPT ![act] = front(s.mq[act])]
    BY <1>1, <1>6 DEF SwitchTo, Mail, sched_schedule, Next_s
  <2>4. /\ Next_s.st[socks] = "runnable" /\ Next_s.fr[socks] = q.msg[q.start]
        /\ Next_s.mq[socks] = dequeue(q)
        /\ \A a \in Programs : Next_s.st[a] = s.st[a] /\ sched_status'[a] = s.st[a] /\ frame'[a] = s.fr[a]
        /\ Next_s.st[booter] = "runnable"
    BY <1>1, <2>2, <2>3, Ids DEF front, Core, Base
  <2>5. ~empty(q) /\ q \in Rings(Msg)
    BY <1>1, <1>6, <2>2 DEF Mail
  <2>6. q.start \in Pending(q) /\ Pending(dequeue(q)) = Pending(q) \ {q.start}
    BY <2>5, DequeueRing
  <2>7. dequeue(q).msg = q.msg
    BY DEF dequeue
  <2>8. Inbox(s, req, er)
    BY DEF Core
  <2>9. \A m : Call(s, req, er, m) => Call(Next_s, req, er, m)
    BY <2>4 DEF Call
  <2>10. Inbox(Next_s, req, er) /\ Serving(Next_s, req, er)
    <3> HIDE DEF q
    <3> QED BY <2>4, <2>6, <2>7, <2>8, <2>9 DEF Inbox, Serving, q
  <2>11. Base(Next_s)
    BY <1>4, <2>4 DEF Core, Base
  <2> QED BY <1>3, <1>4, <2>4, <2>10, <2>11 DEF Switched, Core
<1> QED BY <1>5, <1>6

(* There is always somebody to run.                                        *)
LEMMA RescheduleCore ==
  ASSUME NEW s, NEW req, NEW er, Core(s, req, er), NEW hint \in Aid,
         sched_reschedule(s, hint), panic = "no"
  PROVE  Switched(s, req, er)
<1>1. /\ SchedOK(s) /\ s.rq \in RunQueues /\ Lists(s.rq, Active(s.st))
      /\ booter \in Active(s.st)
  BY Ids DEF Core, Base, SchedOK, SchedType, Active
<1>2. s.rq.end # 0 /\ s.rq.end \in Nat
  <2>1. s.rq.end \in 0 .. MAX_ACTIVATIONS /\ s.rq.aqueue[booter] \in Aid
    BY <1>1, Ids DEF RunQueues
  <2>2. s.rq.aqueue[booter] < s.rq.end
    BY <1>1 DEF Lists
  <2> QED BY <2>1, <2>2, MaxActivationsAssumption DEF Aid
<1>3. CASE hint # 0 /\ Ready(s, hint)
  BY <1>3, PickedCore DEF sched_reschedule
<1>4. CASE ~(hint # 0 /\ Ready(s, hint))
  <2> DEFINE t == [st |-> s.st, rq |-> [s.rq EXCEPT !.idx = FirstPick(s)],
                   mq |-> s.mq, fr |-> s.fr]
             act == s.rq.squeue_a[FirstPick(s)]
  <2>1. PickRounds(s) # {} /\ FirstPick(s) \in Aid /\ act \in Active(s.st)
    BY <1>1, <1>2, FirstPickReady
  <2>2. SwitchTo(t, act)
    BY <1>2, <1>4, <2>1 DEF sched_reschedule
  <2>3. t.rq \in RunQueues /\ Lists(t.rq, Active(t.st))
    BY <1>1, <2>1 DEF RunQueues, Lists
  <2>4. SchedOK(t)
    BY <1>1, <2>3 DEF SchedOK, SchedType, Mail
  <2>5. Core(t, req, er)
    BY <2>4 DEF Core, Base, Inbox, Serving, Call
  <2>6. act \in Aid /\ Ready(t, act)
    BY <2>1 DEF Active, Ready
  <2>7. Switched(t, req, er)
    BY <2>2, <2>5, <2>6, PickedCore
  <2> QED BY <2>7 DEF Switched
<1> QED BY <1>3, <1>4

(* The service waits for the next call, whatever is in its registers.      *)
LEMMA WaitCore ==
  ASSUME NEW s, NEW req, NEW er, Base(s), Inbox(s, req, er), s.st[socks] = "runnable",
         NEW hint \in Aid, act_wait(s, socks, hint), panic = "no"
  PROVE  Switched(s, req, er)
<1>1. /\ SchedOK(s) /\ s.st \in [Aid -> SchedStatus] /\ socks \in Active(s.st)
      /\ s.st[booter] = "runnable"
  BY Ids DEF Base, SchedOK, SchedType, Active
<1>2. CASE empty(s.mq[socks])
  <2> DEFINE t == sched_a2d(s, socks, "waiting")
  <2>1. SchedOK(t) /\ QDEL_assert(s.rq, socks)
    BY <1>1, <1>2, A2DOK
  <2>2. sched_reschedule(t, hint)
    BY <1>2, <2>1 DEF act_wait
  <2>3. t.st = [s.st EXCEPT ![socks] = "waiting"] /\ t.mq = s.mq /\ t.fr = s.fr
    BY DEF sched_a2d
  <2>4. /\ t.st[socks] = "waiting" /\ t.st[booter] = "runnable"
        /\ \A a \in Programs : t.st[a] = s.st[a]
    BY <1>1, <2>3, Ids
  <2>5. Core(t, req, er)
    <3> HIDE DEF t
    <3>1. \A m : Call(s, req, er, m) => Call(t, req, er, m)
      BY <2>4 DEF Call
    <3>2. Inbox(t, req, er) /\ Serving(t, req, er)
      BY <2>3, <2>4, <3>1 DEF Inbox, Serving
    <3> QED BY <2>1, <2>4, <3>2 DEF Core, Base
  <2>6. Switched(t, req, er)
    BY <2>2, <2>5, RescheduleCore
  <2> QED BY <2>3, <2>4, <2>6 DEF Switched
<1>3. CASE ~empty(s.mq[socks])
  <2> DEFINE t == [st |-> [s.st EXCEPT ![socks] = "schedulable"], rq |-> s.rq,
                   mq |-> s.mq, fr |-> s.fr]
  <2>1. sched_reschedule(t, hint)
    BY <1>3 DEF act_wait
  <2>2. Active(t.st) = Active(s.st)
    BY <1>1, Ids DEF Active
  <2>3. SchedOK(t)
    <3>1. t.st \in [Aid -> SchedStatus] /\ t.st[0] = "terminated"
      BY <1>1, Ids DEF SchedOK, SchedStatus
    <3>2. \A a \in Aid : Mail(t, a)
      BY <1>1, <1>3 DEF SchedOK, Mail
    <3> QED BY <1>1, <2>2, <3>1, <3>2 DEF SchedOK, SchedType
  <2>4. /\ t.st[socks] = "schedulable" /\ t.st[booter] = "runnable"
        /\ \A a \in Programs : t.st[a] = s.st[a]
    BY <1>1, Ids
  <2>5. Core(t, req, er)
    <3>1. \A m : Call(s, req, er, m) => Call(t, req, er, m)
      BY <2>4 DEF Call
    <3>2. Inbox(t, req, er) /\ Serving(t, req, er)
      BY <2>4, <3>1 DEF Inbox, Serving
    <3> QED BY <2>3, <2>4, <3>2 DEF Core, Base
  <2>6. Switched(t, req, er)
    BY <2>1, <2>5, RescheduleCore
  <2> QED BY <2>4, <2>6 DEF Switched
<1> QED BY <1>2, <1>3

(* The queue of the service never fills up while a program runs.           *)
LEMMA HasRoom ==
  ASSUME NEW s, NEW req, NEW er, Core(s, req, er),
         NEW a \in Programs, s.st[a] # "sync_block"
  PROVE  ~full(s.mq[socks])
<1> DEFINE q == s.mq[socks]
           P == Slot \ {q.end}
           f == [i \in P |-> q.msg[i].c1.aid]
<1> SUFFICES ASSUME full(q) PROVE FALSE
  OBVIOUS
<1>1. q \in Rings(Msg) /\ q.start \in Slot /\ q.end \in Slot
  BY Ids DEF Core, Base, SchedOK, SchedType, Rings
<1>2. safe(q.end + 1) = IF q.end = MAX_MSG - 1 THEN 0 ELSE q.end + 1
  BY <1>1, SafeNext
<1>3. Pending(q) = P
  BY <1>1, <1>2, MaxMsgAssumption DEF full, Pending, Slot
<1> HIDE DEF q
<1>4. ASSUME NEW i \in P
      PROVE  \E b \in Programs : /\ s.st[b] = "sync_block"
                                 /\ q.msg[i].c1 = [aid |-> b, unique |-> er[b]]
  <2>1. Call(s, req, er, q.msg[i])
    BY <1>3 DEF Core, Inbox, q
  <2> QED BY <2>1 DEF Call
<1>5. \A i, j \in P : q.msg[i].c1 = q.msg[j].c1 => i = j
  BY <1>3 DEF Core, Inbox, q
<1>6. f \in [P -> Programs \ {a}]
  <2>1. ASSUME NEW i \in P PROVE q.msg[i].c1.aid \in Programs \ {a}
    <3>1. PICK b \in Programs : s.st[b] = "sync_block" /\ q.msg[i].c1 = [aid |-> b, unique |-> er[b]]
      BY <1>4
    <3> QED BY <3>1
  <2> QED BY <2>1
<1>7. \A i, j \in P : f[i] = f[j] => i = j
  <2> TAKE i, j \in P
  <2> HAVE f[i] = f[j]
  <2>1. PICK b \in Programs : q.msg[i].c1 = [aid |-> b, unique |-> er[b]]
    BY <1>4
  <2>2. PICK d \in Programs : q.msg[j].c1 = [aid |-> d, unique |-> er[d]]
    BY <1>4
  <2>3. b = d
    BY <2>1, <2>2
  <2> QED BY <2>1, <2>2, <2>3, <1>5
<1>8. f \in Injection(P, Programs \ {a})
  BY <1>6, <1>7, Fun_IsInj
<1>9. IsFiniteSet(Programs \ {a}) /\ Cardinality(Programs \ {a}) = MAX_ACTIVATIONS - 4
  <2>1. Programs = 3 .. MAX_ACTIVATIONS - 1 /\ a \in 3 .. MAX_ACTIVATIONS - 1
    BY Ids
  <2>2. IsFiniteSet(3 .. MAX_ACTIVATIONS - 1)
        /\ Cardinality(3 .. MAX_ACTIVATIONS - 1) = MAX_ACTIVATIONS - 3
    <3>1. MAX_ACTIVATIONS - 1 \in Int /\ 3 <= MAX_ACTIVATIONS - 1
      BY <2>1, Ids
    <3> QED BY <3>1, Ids, FS_Interval
  <2>3. Cardinality((3 .. MAX_ACTIVATIONS - 1) \ {a}) = Cardinality(3 .. MAX_ACTIVATIONS - 1) - 1
        /\ IsFiniteSet((3 .. MAX_ACTIVATIONS - 1) \ {a})
    BY <2>1, <2>2, FS_RemoveElement
  <2> QED BY <2>1, <2>2, <2>3, Ids
<1>10. IsFiniteSet(P) /\ Cardinality(P) = MAX_MSG - 1
  <2>1. IsFiniteSet(Slot) /\ Cardinality(Slot) = MAX_MSG
    <3>1. 0 <= MAX_MSG - 1 /\ MAX_MSG - 1 \in Int
      BY MaxMsgAssumption
    <3> QED BY <3>1, FS_Interval, MaxMsgAssumption DEF Slot
  <2>2. q.end \in Slot
    BY <1>1 DEF q
  <2> QED BY <2>1, <2>2, FS_RemoveElement
<1>11. Cardinality(P) <= Cardinality(Programs \ {a})
  BY <1>8, <1>9, FS_Injection
<1> QED BY <1>9, <1>10, <1>11, RoomAssumption, MaxMsgAssumption, Ids

(* The registers of the running activation do not matter to the scheduler. *)
LEMMA EnterBase ==
  ASSUME NEW req, NEW er, Base(Now), Inbox(Now, req, er), kernel_curr_act \in Aid,
         NEW arg \in Arg
  PROVE  /\ Base(Enter(arg)) /\ Inbox(Enter(arg), req, er)
         /\ Enter(arg).st = sched_status /\ Enter(arg).mq = msg_queues
         /\ Enter(arg).fr = [frame EXCEPT ![kernel_curr_act] = [v0 |-> arg, c1 |-> NULL]]
         /\ frame \in [Aid -> Msg]
<1>1. frame \in [Aid -> Msg]
  BY DEF Base, SchedOK, SchedType, Now
<1>2. [frame EXCEPT ![kernel_curr_act] = [v0 |-> arg, c1 |-> NULL]] \in [Aid -> Msg]
  BY <1>1 DEF Msg
<1>3. SchedOK(Enter(arg))
  BY <1>2 DEF Base, SchedOK, SchedType, Now, Enter, Mail
<1>4. Base(Enter(arg))
  BY <1>3 DEF Base, Now, Enter
<1>5. Inbox(Enter(arg), req, er)
  <2>1. \A m : Call(Now, req, er, m) => Call(Enter(arg), req, er, m)
    BY DEF Call, Now, Enter
  <2>2. Enter(arg).mq = Now.mq
    BY DEF Now, Enter
  <2> QED BY <2>1, <2>2 DEF Inbox
<1> QED BY <1>1, <1>4, <1>5 DEF Enter

(* A call: the program is blocked, and its message is with the service.    *)
LEMMA CallCore ==
  ASSUME panic = "no", NEW a \in Programs, kernel_curr_act = a, sched_status[a] = "runnable",
         NEW req, Core(Now, req, expected_reply), NEW r \in Arg, NEW store, ccall_sync(socks, store, r),
         expected_reply \in [Aid -> 0 .. UNIQUE_MOD - 1], unique \in 0 .. UNIQUE_MOD - 1,
         NEW req2, req2[a] = r,
         \A b \in Programs \ {a} : sched_status[b] = "sync_block" => req2[b] = req[b]
  PROVE  /\ panic' = "no" /\ Core(Next_s, req2, expected_reply')
         /\ kernel_curr_act' \in Aid /\ sched_status'[kernel_curr_act'] = "runnable"
         /\ sched_status'[a] = "sync_block"
         /\ \A b \in Programs \ {a} : sched_status'[b] = sched_status[b] /\ frame'[b] = frame[b]
         /\ unique' \in 0 .. UNIQUE_MOD - 1 /\ expected_reply'[a] = unique'
         /\ \A b \in Programs \ {a} : expected_reply'[b] = expected_reply[b]
         /\ expected_reply' \in [Aid -> 0 .. UNIQUE_MOD - 1]
         /\ UNCHANGED <<status, kernel_next_act>>
<1> DEFINE e == Enter(r)
           q == msg_queues[socks]
           m == [v0 |-> r, c1 |-> [aid |-> a, unique |-> next_unique]]
           p == msg_push(e, socks, m)
           t == sched_a2d(p, a, "sync_block")
           er == expected_reply'
<1>1. socks \in Aid /\ a \in Aid /\ a # socks /\ a # 0 /\ a # booter /\ socks # 0
  BY Ids
<1>2. next_unique \in 0 .. UNIQUE_MOD - 1
  BY ModAssumption DEF next_unique
<1>3. m \in Msg
  BY <1>1, <1>2 DEF Msg, Token
<1>4. /\ Base(e) /\ Inbox(e, req, expected_reply) /\ e.st = sched_status /\ e.mq = msg_queues
      /\ e.fr = [frame EXCEPT ![a] = [v0 |-> r, c1 |-> NULL]] /\ frame \in [Aid -> Msg]
  BY <1>1, EnterBase DEF Core
<1>5. /\ sched_status \in [Aid -> SchedStatus] /\ msg_queues \in [Aid -> Rings(Msg)]
      /\ q \in Rings(Msg) /\ Mail(e, socks) /\ SchedOK(e)
  BY <1>1, <1>4 DEF Base, SchedOK, SchedType
<1> HIDE DEF e
<1>6. ~full(q)
  <2>1. ~full(Now.mq[socks])
    BY HasRoom DEF Now
  <2> QED BY <2>1 DEF Now
<1>7. SchedOK(p)
  BY <1>1, <1>3, <1>4, <1>5, <1>6, PushOK
<1>8. /\ p.mq = [msg_queues EXCEPT ![socks] = enqueue(q, m)] /\ p.fr = e.fr
      /\ p.st = IF sched_status[socks] = "waiting"
                  THEN [sched_status EXCEPT ![socks] = "schedulable"] ELSE sched_status
  BY <1>4 DEF msg_push, sched_d2a
<1>9. p.st[a] = "runnable" /\ a \in Active(p.st)
  BY <1>1, <1>5, <1>8 DEF Active
<1> HIDE DEF p
<1>10. SchedOK(t) /\ QDEL_assert(p.rq, a)
  BY <1>7, <1>9, A2DOK
<1>11. t.st = [p.st EXCEPT ![a] = "sync_block"] /\ t.mq = p.mq /\ t.fr = p.fr
  BY DEF sched_a2d
<1> HIDE DEF t
<1>12. /\ sched_reschedule(t, socks) /\ unique' = next_unique
       /\ expected_reply' = [expected_reply EXCEPT ![a] = next_unique]
       /\ UNCHANGED <<status, kernel_next_act>>
  <2>1. ccall_sync(socks, store, r) =>
          /\ unique' = next_unique
          /\ expected_reply' = [expected_reply EXCEPT ![a] = next_unique]
          /\ ~full(q) /\ QDEL_assert(p.rq, a) => sched_reschedule(t, socks)
          /\ UNCHANGED <<status, kernel_next_act>>
    BY DEF ccall_sync, p, e, t
  <2> QED BY <2>1, <1>6, <1>10
<1>13. /\ t.st[a] = "sync_block"
       /\ t.st[socks] = IF sched_status[socks] = "waiting" THEN "schedulable"
                                                           ELSE sched_status[socks]
       /\ \A b \in Aid \ {a, socks} : t.st[b] = sched_status[b]
       /\ t.mq[socks] = enqueue(q, m) /\ t.fr = e.fr
       /\ \A b \in Aid \ {a} : t.fr[b] = frame[b]
  BY <1>1, <1>4, <1>5, <1>8, <1>11
<1>14. /\ er[a] = next_unique /\ \A b \in Programs \ {a} : er[b] = expected_reply[b]
       /\ er \in [Aid -> 0 .. UNIQUE_MOD - 1]
  BY <1>1, <1>2, <1>12, Ids
<1>15. Call(t, req2, er, m)
  BY <1>13, <1>14 DEF Call
<1> HIDE DEF m
<1>16. ASSUME NEW x, Call(e, req, expected_reply, x)
       PROVE  Call(t, req2, er, x) /\ x.c1 # m.c1
  <2>1. PICK b \in Programs : /\ sched_status[b] = "sync_block"
                              /\ x = [v0 |-> req[b], c1 |-> [aid |-> b, unique |-> expected_reply[b]]]
    BY <1>4, <1>16 DEF Call
  <2>2. b # a /\ b # socks /\ b \in Aid
    BY <2>1, Ids
  <2>3. x = [v0 |-> req2[b], c1 |-> [aid |-> b, unique |-> er[b]]] /\ t.st[b] = "sync_block"
    BY <2>1, <2>2, <1>13, <1>14
  <2> QED BY <2>1, <2>2, <2>3 DEF Call, m
<1>17. /\ q.end \notin Pending(q) /\ Pending(enqueue(q, m)) = Pending(q) \cup {q.end}
       /\ enqueue(q, m).msg = [q.msg EXCEPT ![q.end] = m]
       /\ q.msg \in [Slot -> Msg] /\ q.end \in Slot /\ \A i \in Pending(q) : i \in Slot
  <2> HIDE DEF q, m
  <2>1. q.msg \in [Slot -> Msg] /\ q.end \in Slot
    BY <1>5 DEF Rings
  <2>2. \A i \in Pending(q) : i \in Slot
    BY DEF Pending
  <2>3. enqueue(q, m).msg = [q.msg EXCEPT ![q.end] = m]
    BY DEF enqueue
  <2>4. q.end \notin Pending(q) /\ Pending(enqueue(q, m)) = Pending(q) \cup {q.end}
    BY <1>3, <1>5, <1>6, EnqueueRing
  <2> QED BY <2>1, <2>2, <2>3, <2>4
<1>18. /\ \A i \in Pending(q) : Call(e, req, expected_reply, q.msg[i])
       /\ \A i, j \in Pending(q) : q.msg[i].c1 = q.msg[j].c1 => i = j
  BY <1>4 DEF Inbox
<1> HIDE DEF q
<1>19. /\ enqueue(q, m).msg[q.end] = m
       /\ \A i \in Pending(q) : enqueue(q, m).msg[i] = q.msg[i]
  BY <1>17
<1>20. Inbox(t, req2, er)
  <2> DEFINE new == enqueue(q, m)
  <2>1. /\ Pending(new) = Pending(q) \cup {q.end} /\ new.msg[q.end] = m
        /\ \A i \in Pending(q) : new.msg[i] = q.msg[i] /\ q.msg[i].c1 # m.c1
    BY <1>16, <1>17, <1>18, <1>19
  <2> HIDE DEF new
  <2>2. \A i \in Pending(new) : Call(t, req2, er, new.msg[i])
    BY <2>1, <1>15, <1>16, <1>18
  <2>3. \A i, j \in Pending(new) : new.msg[i].c1 = new.msg[j].c1 => i = j
    BY <2>1, <1>18
  <2>4. t.mq[socks] = new
    BY <1>13 DEF new
  <2> QED BY <2>2, <2>3, <2>4 DEF Inbox
<1>21. Serving(t, req2, er)
  <2> SUFFICES ASSUME t.st[socks] = "runnable"
               PROVE  /\ Call(t, req2, er, frame[socks])
                      /\ \A i \in Pending(enqueue(q, m)) : enqueue(q, m).msg[i].c1 # frame[socks].c1
    BY <1>1, <1>13 DEF Serving
  <2>1. Now.st[socks] = "runnable" /\ Now.fr[socks] = frame[socks] /\ Now.mq[socks] = q
    BY <1>13 DEF Now, q
  <2>2. /\ Call(Now, req, expected_reply, frame[socks])
        /\ \A i \in Pending(q) : q.msg[i].c1 # frame[socks].c1
    BY <2>1 DEF Core, Serving
  <2>3. Call(e, req, expected_reply, frame[socks])
    BY <2>2, <1>4 DEF Call, Now
  <2> QED BY <2>2, <2>3, <1>16, <1>17, <1>19
<1>22. Base(t)
  <2>1. t.st[booter] = "runnable"
    BY <1>1, <1>4, <1>13, Ids DEF Base
  <2>2. t.st[socks] \in {"waiting", "schedulable", "runnable"}
    BY <1>4, <1>13 DEF Base
  <2>3. \A b \in Programs : t.st[b] \in {"runnable", "sync_block", "terminated"}
    BY <1>4, <1>13, Ids DEF Base
  <2> QED BY <1>10, <2>1, <2>2, <2>3 DEF Base
<1>23. Switched(t, req2, er)
  BY <1>1, <1>12, <1>20, <1>21, <1>22, RescheduleCore DEF Core
<1>24. /\ sched_status'[a] = "sync_block"
       /\ \A b \in Programs \ {a} : sched_status'[b] = sched_status[b] /\ frame'[b] = frame[b]
  BY <1>13, <1>23, Ids DEF Switched
<1> QED BY <1>2, <1>12, <1>14, <1>23, <1>24 DEF Switched

(* An answer: the caller may run, with the answer in its registers.        *)
LEMMA AnswerCore ==
  ASSUME panic = "no", kernel_curr_act = socks, sched_status[socks] = "runnable",
         NEW req, Core(Now, req, expected_reply),
         NEW x \in Programs, sched_status[x] = "sync_block",
         expected_reply[x] \in 0 .. REPLY_MOD - 1,
         frame[socks].c1 = [aid |-> x, unique |-> expected_reply[x]],
         NEW ans \in Arg, creturn_sync(frame[socks].c1, ans),
         NEW req2,
         \A b \in Programs \ {x} : sched_status[b] = "sync_block" => req2[b] = req[b]
  PROVE  /\ panic' = "no" /\ Core(Next_s, req2, expected_reply')
         /\ kernel_curr_act' \in Aid /\ sched_status'[kernel_curr_act'] = "runnable"
         /\ sched_status'[x] = "runnable" /\ frame'[x].v0 = ans
         /\ \A b \in Programs \ {x} : sched_status'[b] = sched_status[b] /\ frame'[b] = frame[b]
         /\ UNCHANGED <<status, expected_reply, kernel_next_act, unique>>
<1> DEFINE e == Enter(ans)
           q == msg_queues[socks]
           token == [aid |-> x, unique |-> expected_reply[x]]
           w == sched_d2a(e, x, "runnable")
           t == reply(token, ans)
           er == expected_reply
<1>1. socks \in Aid /\ x \in Aid /\ x # socks /\ x # 0 /\ x # booter /\ socks # 0 /\ socks # booter
  BY Ids
<1>2. /\ Base(e) /\ Inbox(e, req, er) /\ e.st = sched_status /\ e.mq = msg_queues /\ e.rq = rq
      /\ e.fr = [frame EXCEPT ![socks] = [v0 |-> ans, c1 |-> NULL]] /\ frame \in [Aid -> Msg]
  <2>1. Base(Now) /\ Inbox(Now, req, er) /\ kernel_curr_act \in Aid
    BY <1>1 DEF Core
  <2>2. e.rq = rq
    BY DEF Enter
  <2> QED BY <2>1, <2>2, EnterBase
<1>3. /\ sched_status \in [Aid -> SchedStatus] /\ SchedOK(e) /\ sched_status[booter] = "runnable"
      /\ e.fr \in [Aid -> Msg]
  BY <1>2 DEF Base, SchedOK, SchedType
<1> HIDE DEF e
<1>4. /\ SchedType(w) /\ w.st[0] = "terminated" /\ Lists(w.rq, Active(w.st))
      /\ x \notin Active(e.st)
  <2>1. SchedType(e) /\ e.st[0] = "terminated" /\ Lists(e.rq, Active(e.st))
    BY <1>3 DEF SchedOK
  <2>2. "runnable" \in {"runnable", "schedulable"} /\ x \in Aid \ {0} /\ x \notin Active(e.st)
    BY <1>1, <1>2 DEF Active
  <2> QED BY <2>1, <2>2, D2ALists, Zenon
<1>5. /\ w.st = [sched_status EXCEPT ![x] = "runnable"]
      /\ w.mq = msg_queues /\ w.fr = e.fr
  BY <1>2 DEF sched_d2a
<1>6. /\ t.st = w.st /\ t.rq = w.rq /\ t.mq = w.mq
      /\ t.fr = [w.fr EXCEPT ![x] = [v0 |-> ans, c1 |-> w.fr[x].c1]]
  BY DEF reply, w, e
<1> HIDE DEF w, t
<1>7. t.fr \in [Aid -> Msg]
  BY <1>1, <1>3, <1>5, <1>6 DEF Msg
<1>8. \A a \in Aid : Mail(t, a)
  BY <1>2, <1>3, <1>5, <1>6 DEF Mail, SchedOK
<1>9. SchedOK(t)
  BY <1>4, <1>6, <1>7, <1>8 DEF SchedOK, SchedType
<1>10. /\ t.st[x] = "runnable" /\ \A b \in Aid \ {x} : t.st[b] = sched_status[b]
       /\ t.fr[x].v0 = ans /\ \A b \in Aid \ {x, socks} : t.fr[b] = frame[b]
       /\ t.mq = msg_queues
  BY <1>1, <1>2, <1>3, <1>5, <1>6
<1>11. Base(t)
  BY <1>1, <1>2, <1>9, <1>10, Ids DEF Base
<1>12. Inbox(t, req2, er)
  <2>1. ASSUME NEW i \in Pending(q) PROVE Call(t, req2, er, q.msg[i])
    <3>1. /\ Call(Now, req, er, q.msg[i]) /\ q.msg[i].c1 # frame[socks].c1
      BY DEF Core, Inbox, Serving, Now
    <3>2. PICK b \in Programs : /\ sched_status[b] = "sync_block"
                                /\ q.msg[i] = [v0 |-> req[b], c1 |-> [aid |-> b, unique |-> er[b]]]
      BY <3>1 DEF Call, Now
    <3>3. b # x
      BY <3>1, <3>2
    <3>4. t.st[b] = "sync_block" /\ req2[b] = req[b]
      BY <3>2, <3>3, <1>10, Ids
    <3> QED BY <3>2, <3>4 DEF Call
  <2>2. \A i, j \in Pending(q) : q.msg[i].c1 = q.msg[j].c1 => i = j
    BY <1>2 DEF Inbox
  <2> QED BY <2>1, <2>2, <1>10 DEF Inbox
<1>13. Expected(token)
  BY ModAssumption DEF Expected
<1>14. act_wait(t, socks, x) /\ UNCHANGED <<status, expected_reply, kernel_next_act, unique>>
  <2>1. creturn_sync(token, ans) =>
          /\ Expected(token) /\ sched_status[x] = "sync_block" => act_wait(t, socks, x)
          /\ UNCHANGED <<status, expected_reply, kernel_next_act, unique>>
    BY DEF creturn_sync, t
  <2> QED BY <2>1, <1>13
<1>15. Switched(t, req2, er)
  BY <1>1, <1>10, <1>11, <1>12, <1>14, WaitCore
<1>16. sched_status'[x] = "runnable" /\ frame'[x].v0 = ans
  BY <1>10, <1>15 DEF Switched
<1>17. \A b \in Programs \ {x} : sched_status'[b] = sched_status[b] /\ frame'[b] = frame[b]
  BY <1>10, <1>15, Ids DEF Switched
<1> QED BY <1>14, <1>15, <1>16, <1>17 DEF Switched

(* The scheduler runs another one; nothing else has changed.               *)
LEMMA YieldCore ==
  ASSUME panic = "no", NEW req, Core(Now, req, expected_reply), sched_reschedule(Now, 0)
  PROVE  /\ panic' = "no" /\ Core(Next_s, req, expected_reply)
         /\ kernel_curr_act' \in Aid /\ sched_status'[kernel_curr_act'] = "runnable"
         /\ \A b \in Programs : sched_status'[b] = sched_status[b] /\ frame'[b] = frame[b]
<1>1. Switched(Now, req, expected_reply)
  BY RescheduleCore, Ids
<1> QED BY <1>1 DEF Switched, Now

(* A program exits.                                                        *)
LEMMA ExitCore ==
  ASSUME panic = "no", NEW a \in Programs, kernel_curr_act = a, sched_status[a] = "runnable",
         NEW req, Core(Now, req, expected_reply), act_terminate(a),
         NEW req2, \A b \in Programs \ {a} : sched_status[b] = "sync_block" => req2[b] = req[b]
  PROVE  /\ panic' = "no" /\ Core(Next_s, req2, expected_reply')
         /\ kernel_curr_act' \in Aid /\ sched_status'[kernel_curr_act'] = "runnable"
         /\ sched_status'[a] = "terminated"
         /\ \A b \in Programs \ {a} : sched_status'[b] = sched_status[b] /\ frame'[b] = frame[b]
         /\ status' = [status EXCEPT ![a] = "terminated"]
         /\ UNCHANGED <<expected_reply, kernel_next_act, unique>>
<1> DEFINE t == sched_delete(Now, a)
           q == msg_queues[socks]
           er == expected_reply
<1>1. /\ socks \in Aid /\ a \in Aid /\ a # socks /\ a # 0 /\ a # booter /\ 0 \in Aid
      /\ booter \in Aid
  BY Ids
<1>2. /\ Base(Now) /\ SchedOK(Now) /\ sched_status \in [Aid -> SchedStatus] /\ rq \in RunQueues
      /\ Lists(rq, Active(sched_status)) /\ a \in Active(sched_status)
      /\ Active(sched_status) \in SUBSET Aid /\ sched_status[0] = "terminated"
  BY <1>1 DEF Core, Base, SchedOK, SchedType, Now, Active
<1>3. rq.squeue_a[rq.aqueue[a]] = a /\ rq.end # 0
  BY <1>2, QDelAssert DEF QDEL_assert
<1>4. /\ t.st = [sched_status EXCEPT ![a] = "terminated"] /\ t.rq = QDEL(rq, a)
      /\ t.mq = msg_queues /\ t.fr = frame
  BY <1>3 DEF sched_delete, Now
<1>5. /\ sched_reschedule(t, 0) /\ status' = [status EXCEPT ![a] = "terminated"]
      /\ UNCHANGED <<expected_reply, kernel_next_act, unique>>
  BY <1>3 DEF act_terminate
<1> HIDE DEF t
<1>6. Active(t.st) = Active(sched_status) \ {a}
  <2>1. "terminated" \in {"waiting", "sync_block", "terminated"}
    OBVIOUS
  <2>2. Active([sched_status EXCEPT ![a] = "terminated"]) = Active(sched_status) \ {a}
    BY <2>1, <1>1, <1>2, ActiveRemove, Zenon
  <2> QED BY <2>2, <1>4, Zenon
<1>7. SchedOK(t)
  <2>1. t.rq \in RunQueues /\ Lists(t.rq, Active(t.st))
    <3>1. QDEL(rq, a) \in RunQueues /\ Lists(QDEL(rq, a), Active(sched_status) \ {a})
      BY <1>2, QDelLists
    <3> QED BY <3>1, <1>4, <1>6
  <2>2. t.st \in [Aid -> SchedStatus] /\ t.st[0] = "terminated"
    BY <1>1, <1>2, <1>4 DEF SchedStatus
  <2>3. \A b \in Aid : Mail(t, b)
    BY <1>2, <1>4 DEF Mail, SchedOK, Now
  <2> QED BY <2>1, <2>2, <2>3, <1>2, <1>4 DEF SchedOK, SchedType, Now
<1>8. t.st[a] = "terminated" /\ \A b \in Aid \ {a} : t.st[b] = sched_status[b]
  BY <1>1, <1>2, <1>4
<1>9. Base(t)
  <2>1. /\ sched_status[booter] = "runnable"
        /\ sched_status[socks] \in {"waiting", "schedulable", "runnable"}
        /\ \A b \in Programs : sched_status[b] \in {"runnable", "sync_block", "terminated"}
    BY <1>2 DEF Base, Now
  <2> QED BY <2>1, <1>1, <1>7, <1>8, Ids DEF Base
<1>10. \A m : Call(Now, req, er, m) => Call(t, req2, er, m)
  <2> SUFFICES ASSUME NEW m, Call(Now, req, er, m) PROVE Call(t, req2, er, m)
    OBVIOUS
  <2>1. PICK b \in Programs : /\ sched_status[b] = "sync_block"
                              /\ m = [v0 |-> req[b], c1 |-> [aid |-> b, unique |-> er[b]]]
    BY DEF Call, Now
  <2>2. b # a /\ t.st[b] = "sync_block" /\ req2[b] = req[b]
    BY <2>1, <1>8, Ids
  <2> QED BY <2>1, <2>2 DEF Call
<1>11. Inbox(t, req2, er) /\ Serving(t, req2, er)
  <2>1. /\ Now.mq[socks] = t.mq[socks] /\ Now.st[socks] = t.st[socks] /\ Now.fr[socks] = t.fr[socks]
    BY <1>1, <1>4, <1>8 DEF Now
  <2> QED BY <2>1, <1>10 DEF Core, Inbox, Serving
<1>12. Switched(t, req2, er)
  BY <1>1, <1>5, <1>9, <1>11, RescheduleCore DEF Core
<1>13. /\ sched_status'[a] = "terminated"
       /\ \A b \in Programs \ {a} : sched_status'[b] = sched_status[b] /\ frame'[b] = frame[b]
  BY <1>4, <1>8, <1>12, Ids DEF Switched
<1> QED BY <1>5, <1>12, <1>13 DEF Switched

----------------------------------------------------------------------------
(* The programs.                                                           *)

Asks(a) == sched_status[a] = "sync_block"
Runs(a) == sched_status[a] = "runnable"

PortOf(a) == IF a \in Servers THEN ServerPort ELSE ClientPort

(* The message a program sends: the server's is that of the client that is *)
(* bound to the port.                                                      *)
Sending(a) == LET c == IF a \in Clients THEN a ELSE sockets[ports[ClientPort]].oid
              IN  <<c, n[c]>>

(* What a program that is blocked has asked for.                           *)
Asked == [a \in Programs |->
  CASE pc[a] = "socket"  -> [op |-> "socket", oid |-> a]
    [] pc[a] = "bind"    -> [op |-> "bind", oid |-> a, s |-> sock[a], port |-> PortOf(a)]
    [] pc[a] = "connect" -> [op |-> "connect", oid |-> a, s |-> sock[a], port |-> ServerPort]
    [] pc[a] = "recfrom" -> [op |-> "recfrom", oid |-> a, s |-> sock[a]]
    [] pc[a] = "sendto"  -> [op |-> "sendto", oid |-> a, s |-> sock[a], msg |-> Sending(a)]
    [] OTHER             -> [op |-> "none"]]

(* The socket a program has created, or -1.                                *)
Mine(a) == IF pc[a] = "start" \/ (pc[a] = "socket" /\ Asks(a)) THEN -1
           ELSE IF pc[a] = "socket" THEN Result(a).ret ELSE sock[a]

(* The port of a program's role is its own.                                *)
Bound(a) == pc[a] \notin {"start", "socket"} /\ sock[a] # -1 /\ ports[PortOf(a)] = sock[a]

(* Each socket belongs to the program that created it, which has no other; *)
(* and a port that is taken is that of its program.                        *)
Owned ==
  /\ \A s \in Socket : IF s < next_socket
                         THEN sockets[s].oid \in Programs /\ Mine(sockets[s].oid) = s
                         ELSE sockets[s] = Off
  /\ \A a \in Programs :
       Mine(a) # -1 => Mine(a) \in 0 .. next_socket - 1 /\ sockets[Mine(a)].oid = a
  /\ \A p \in Port : ports[p] # -1 => \E a \in Programs : PortOf(a) = p /\ Bound(a)

(* Those are past bind; the other places are before it, or behind the end. *)
Early == {"start", "socket", "bind", "connect", "connect_sleep"}
Late  == {"connect", "connect_sleep", "sendto", "sleep", "recfrom"}

(* What is known of each program on its own.                               *)
Local(a) ==
  /\ sched_status[a] = "terminated" <=> pc[a] = "done"
  /\ Asks(a) => pc[a] \in {"socket", "bind", "connect", "recfrom", "sendto"}
  /\ pc[a] # "done" => n[a] < NB_MSG
  /\ pc[a] \in Early => n[a] = 0
  /\ pc[a] \in {"connect", "connect_sleep"} => a \in Clients
  /\ pc[a] = "bind" => sock[a] # -1
  /\ pc[a] \in Late => Bound(a)
  /\ Runs(a) =>
       /\ pc[a] = "socket"  => \E s \in Socket : Result(a) = [ret |-> s]
       /\ pc[a] = "bind"    => \/ Result(a) = [ret |-> 0] /\ Bound(a)
                               \/ Result(a) = [ret |-> -1]
       /\ pc[a] = "connect" => Result(a) = [ret |-> 0] \/ Result(a) = [ret |-> -1]
       /\ pc[a] = "sendto"  => Result(a) = [ret |-> 0]
       /\ pc[a] = "recfrom" => \E m \in Messages \cup {NULL} : Result(a) = [msg |-> m]

(* A server without a message to answer.                                   *)
Idle_s(s) == /\ ~(Runs(s) /\ pc[s] = "recfrom" /\ Result(s) # [msg |-> NULL])
             /\ ~(Asks(s) /\ pc[s] = "sendto")

(* A client that has sent a message and has not got it back.               *)
Waits(c) == \/ pc[c] = "sleep"
            \/ pc[c] = "sendto" /\ Runs(c)
            \/ pc[c] = "recfrom" /\ Asks(c)
            \/ pc[c] = "recfrom" /\ Runs(c) /\ Result(c) = [msg |-> NULL]

Unlinked ==
  /\ \A s \in Socket : sockets[s].socksend = -1 /\ sockets[s].msg = NULL
  /\ \A s \in Servers : Idle_s(s)
  /\ \A c \in Clients : /\ pc[c] \notin {"sendto", "sleep", "recfrom"}
                        /\ pc[c] = "connect" /\ Runs(c) => Result(c) = [ret |-> -1]

(* What is in the boxes of the server and of the client.                   *)
Boxes(c, s, bs, bc) == sockets[sock[s]].msg = bs /\ sockets[sock[c]].msg = bc

(* The client's message m, from when it is sent until it is back: on its   *)
(* way to the service, in the server's box, with the server, on its way    *)
(* back, in the client's box, with the client.                             *)
Stage(c, s) ==
  LET m == <<c, n[c]>> IN
  \/ /\ pc[c] = "connect" /\ Runs(c) /\ Result(c) = [ret |-> 0]
     /\ Idle_s(s) /\ Boxes(c, s, NULL, NULL)
  \/ /\ pc[c] = "sendto" /\ Asks(c)
     /\ Idle_s(s) /\ Boxes(c, s, NULL, NULL) /\ text[m] = "lower"
  \/ /\ Waits(c)
     /\ Idle_s(s) /\ Boxes(c, s, m, NULL) /\ text[m] = "lower"
  \/ /\ Waits(c)
     /\ Runs(s) /\ pc[s] = "recfrom" /\ Result(s) = [msg |-> m]
     /\ Boxes(c, s, NULL, NULL) /\ text[m] = "lower"
  \/ /\ Waits(c)
     /\ Asks(s) /\ pc[s] = "sendto"
     /\ Boxes(c, s, NULL, NULL) /\ text[m] = "upper"
  \/ /\ Waits(c)
     /\ Idle_s(s) /\ Boxes(c, s, NULL, m) /\ text[m] = "upper"
  \/ /\ pc[c] = "recfrom" /\ Runs(c) /\ Result(c) = [msg |-> m]
     /\ Idle_s(s) /\ Boxes(c, s, NULL, NULL) /\ text[m] = "upper"
  \/ /\ pc[c] = "done"
     /\ Idle_s(s) /\ Boxes(c, s, NULL, NULL)

(* The client c and the server s are connected, and nobody else is.        *)
Pair(c, s) ==
  /\ Bound(c) /\ Bound(s)
  /\ sockets[sock[c]].socksend = sock[s] /\ sockets[sock[s]].socksend = sock[c]
  /\ \A t \in Socket \ {sock[c], sock[s]} : sockets[t].socksend = -1 /\ sockets[t].msg = NULL

Linked == \E c \in Clients, s \in Servers : Pair(c, s) /\ Stage(c, s)

KernelSide ==
  /\ KTypeOK /\ IrqTypeOK /\ panic = "no" /\ sched_status[kernel_curr_act] = "runnable"
  /\ Core(Now, Asked, expected_reply)
  /\ \A a \in Programs : expected_reply[a] < REPLY_MOD

Places == {"start", "socket", "bind", "connect", "connect_sleep", "sendto", "sleep",
           "recfrom", "done"}

DataTypes ==
  /\ SocketsTypeOK /\ pc \in [Programs -> Places]
  /\ sock \in [Programs -> Socket \cup {-1}]
  /\ n \in [Programs -> 0 .. NB_MSG]
  /\ text \in [Messages -> {"new", "lower", "upper", "freed"}]

ProgramSide == Owned /\ (\A a \in Programs : Local(a)) /\ (Unlinked \/ Linked)

PrgaInv == KernelSide /\ DataTypes /\ ProgramSide

----------------------------------------------------------------------------
(* The constants, as the proofs need them.                                 *)
LEMMA Roles ==
  /\ \A a \in Servers : a \in Programs /\ a \notin Clients /\ PortOf(a) = ServerPort
  /\ \A a \in Clients : a \in Programs /\ a \notin Servers /\ PortOf(a) = ClientPort
  /\ \A a \in Programs : PortOf(a) \in Port /\ (a \in Servers \/ a \in Clients)
  /\ ServerPort \in Port /\ ClientPort \in Port /\ ServerPort # ClientPort
  /\ Socket = 0 .. MAX_SOCKET /\ MAX_SOCKET \in Nat /\ -1 \notin Socket
  /\ NULL \notin Messages /\ NULL \notin Programs
  /\ NB_MSG \in Nat /\ NB_MSG > 0
  /\ Arg = Requests \cup Results \cup {INT}
BY PrgaAssumption, RoomAssumption
   DEF Programs, PortOf, ServerPort, ClientPort, Socket, Port

(* A port has one owner.                                                   *)
LEMMA OneOwner ==
  ASSUME Owned, DataTypes, NEW a \in Programs, NEW b \in Programs,
         Bound(a), Bound(b), sock[a] = sock[b]
  PROVE  a = b
<1>1. pc[a] \notin {"start", "socket"} /\ pc[b] \notin {"start", "socket"}
      /\ sock[a] # -1 /\ sock[b] # -1
  BY DEF Bound
<1>2. Mine(a) = sock[a] /\ Mine(b) = sock[b]
  BY <1>1 DEF Mine
<1>3. sockets[sock[a]].oid = a /\ sockets[sock[b]].oid = b
  BY <1>1, <1>2 DEF Owned
<1> QED BY <1>3

(* The programs of a connection.                                           *)
LEMMA PairFacts ==
  ASSUME Owned, DataTypes, NEW c \in Clients, NEW s \in Servers, Pair(c, s)
  PROVE  /\ sock[c] \in Socket /\ sock[s] \in Socket /\ sock[c] # sock[s] /\ c # s
         /\ ports[ClientPort] = sock[c] /\ ports[ServerPort] = sock[s]
         /\ sockets[sock[c]].oid = c /\ sockets[sock[s]].oid = s
         /\ sockets[ports[ClientPort]].oid = c
         /\ n[c] \in 0 .. NB_MSG /\ c \in Programs /\ s \in Programs
         /\ \A a \in Programs : Bound(a) => a = c \/ a = s
<1>1. c \in Programs /\ s \in Programs /\ PortOf(c) = ClientPort /\ PortOf(s) = ServerPort /\ c # s
  BY Roles
<1>2. /\ pc[c] \notin {"start", "socket"} /\ sock[c] # -1 /\ ports[ClientPort] = sock[c]
      /\ pc[s] \notin {"start", "socket"} /\ sock[s] # -1 /\ ports[ServerPort] = sock[s]
  BY <1>1 DEF Pair, Bound
<1>3. Mine(c) = sock[c] /\ Mine(s) = sock[s]
  BY <1>2 DEF Mine
<1>4. sockets[sock[c]].oid = c /\ sockets[sock[s]].oid = s
  BY <1>1, <1>2, <1>3 DEF Owned
<1>5. sock[c] \in Socket /\ sock[s] \in Socket /\ n[c] \in 0 .. NB_MSG
  BY <1>1, <1>2 DEF DataTypes
<1>6. ASSUME NEW a \in Programs, Bound(a) PROVE a = c \/ a = s
  <2>1. ports[PortOf(a)] = sock[a]
    BY <1>6 DEF Bound
  <2>2. sock[a] = sock[c] \/ sock[a] = sock[s]
    BY <2>1, <1>2, Roles
  <2> QED BY <2>2, <1>1, <1>6, OneOwner DEF Pair
<1> QED BY <1>1, <1>2, <1>4, <1>5, <1>6

(* What the invariant says of a program on its own depends on this.        *)
Stays(b) == pc'[b] = pc[b] /\ sock'[b] = sock[b] /\ n'[b] = n[b]
Kept(b) == Stays(b) /\ sched_status'[b] = sched_status[b] /\ frame'[b].v0 = frame[b].v0

(* What is said of a program that is kept stays true.                      *)
LEMMA KeptFacts ==
  ASSUME NEW b \in Programs, Kept(b)
  PROVE  /\ Asks(b)' <=> Asks(b)
         /\ Runs(b)' <=> Runs(b)
         /\ Result(b)' = Result(b) /\ Mine(b)' = Mine(b)
         /\ Idle_s(b)' <=> Idle_s(b)
         /\ Waits(b)' <=> Waits(b)
         /\ Local(b) /\ (Bound(b) => Bound(b)') => Local(b)'
<1>1. /\ (Asks(b)' <=> Asks(b)) /\ (Runs(b)' <=> Runs(b)) /\ Result(b)' = Result(b)
      /\ (pc[b])' = pc[b] /\ (sock[b])' = sock[b] /\ (n[b])' = n[b]
      /\ (sched_status[b])' = sched_status[b]
  BY DEF Kept, Stays, Asks, Runs, Result
<1>2. Mine(b)' = Mine(b)
  BY <1>1 DEF Mine
<1>3. Idle_s(b)' <=> Idle_s(b)
  BY <1>1 DEF Idle_s
<1>4. Waits(b)' <=> Waits(b)
  BY <1>1 DEF Waits
<1>5. ASSUME Local(b), Bound(b) => Bound(b)' PROVE Local(b)'
  BY <1>1, <1>5 DEF Local
<1> QED BY <1>1, <1>2, <1>3, <1>4, <1>5

(* What a program asked for stays so.                                      *)
LEMMA AskedSame ==
  ASSUME NEW b \in Programs, Stays(b),
         pc[b] = "sendto" => Sending(b)' = Sending(b)
  PROVE  Asked'[b] = Asked[b]
BY DEF Asked, Stays

(* The activations the run queue lists at the start, in turn.              *)
LEMMA QueuedLists == Queued \in RunQueues /\ Lists(Queued, {booter} \cup Programs)
<1>1. /\ MAX_ACTIVATIONS \in Nat /\ MAX_ACTIVATIONS > 2 /\ Aid = 0 .. MAX_ACTIVATIONS - 1
      /\ Programs = 3 .. MAX_ACTIVATIONS - 1 /\ booter = 1
  BY Ids DEF socks, booter
<1> DEFINE sq == [i \in Aid |-> IF i = 0 THEN booter ELSE IF i + 2 \in Programs THEN i + 2 ELSE 0]
           aq == [a \in Aid |-> IF a \in Programs THEN a - 2 ELSE 0]
<1>2. sq \in [Aid -> Aid]
  BY <1>1
<1>3. aq \in [Aid -> Aid]
  BY <1>1
<1>4. Queued = [squeue_a |-> sq, aqueue |-> aq, idx |-> 0, end |-> MAX_ACTIVATIONS - 2]
  BY DEF Queued
<1>5. \A i \in 0 .. MAX_ACTIVATIONS - 3 : sq[i] \in {booter} \cup Programs /\ aq[sq[i]] = i
  BY <1>1
<1>6. \A a \in {booter} \cup Programs : aq[a] < MAX_ACTIVATIONS - 2 /\ sq[aq[a]] = a
  BY <1>1
<1> HIDE DEF sq, aq
<1>7. Queued \in RunQueues
  <2>1. MAX_ACTIVATIONS - 2 \in 0 .. MAX_ACTIVATIONS /\ 0 \in Aid
    BY <1>1
  <2> QED BY <2>1, <1>2, <1>3, <1>4 DEF RunQueues
<1>8. Lists(Queued, {booter} \cup Programs)
  <2>1. Queued.end - 1 = MAX_ACTIVATIONS - 3
    BY <1>1, <1>4
  <2> QED BY <2>1, <1>4, <1>5, <1>6 DEF Lists
<1> QED BY <1>7, <1>8

(* Nobody is blocked at the start, and no message waits.                   *)
LEMMA InitCore == Init => KernelSide
<1> SUFFICES ASSUME Init PROVE KernelSide
  OBVIOUS
<1>1. /\ 0 \in Aid /\ booter \in Aid /\ socks \in Aid /\ 0 \in Slot
      /\ booter # socks /\ booter # 0 /\ socks # 0 /\ booter = 1
      /\ \A a \in Programs : a \in Aid /\ a # 0 /\ a # booter /\ a # socks
  BY Ids, MaxMsgAssumption DEF Slot, booter
<1>2. NoMsg \in Msg
  BY DEF NoMsg, Msg
<1>3. /\ status \in [Aid -> Status] /\ sched_status \in [Aid -> SchedStatus]
      /\ expected_reply \in [Aid -> 0 .. UNIQUE_MOD - 1] /\ unique \in 0 .. UNIQUE_MOD - 1
      /\ kernel_curr_act = booter /\ kernel_next_act = MAX_ACTIVATIONS /\ panic = "no"
      /\ frame \in [Aid -> Msg]
  BY <1>2, ModAssumption DEF Init, Status, SchedStatus
<1>4. msg_queues \in [Aid -> Rings(Msg)] /\ \A a \in Aid : empty(msg_queues[a])
  BY <1>1, <1>2 DEF Init, Rings, empty
<1>5. rq \in RunQueues /\ Lists(rq, {booter} \cup Programs)
  BY QueuedLists DEF Init
<1>6. /\ sched_status[0] = "terminated" /\ sched_status[socks] = "waiting"
      /\ \A a \in Aid \ {0, socks} : sched_status[a] = "runnable"
  BY <1>1 DEF Init
<1>7. Active(sched_status) = {booter} \cup Programs
  <2>1. Aid = {0, booter, socks} \cup Programs
    BY Ids DEF booter, socks
  <2> QED BY <2>1, <1>1, <1>6 DEF Active
<1>8. SchedOK(Now)
  BY <1>3, <1>4, <1>5, <1>6, <1>7 DEF SchedOK, SchedType, Now, Mail
<1>9. Core(Now, Asked, expected_reply)
  <2>1. Pending(msg_queues[socks]) = {}
    BY <1>1, MaxMsgAssumption DEF Init, Pending, Slot
  <2>2. Inbox(Now, Asked, expected_reply)
    BY <2>1 DEF Inbox, Now
  <2>3. Serving(Now, Asked, expected_reply)
    BY <1>6 DEF Serving, Now
  <2>4. Base(Now)
    BY <1>1, <1>6, <1>8 DEF Base, Now
  <2> QED BY <2>2, <2>3, <2>4 DEF Core
<1>10. \A a \in Programs : expected_reply[a] < REPLY_MOD
  BY <1>1, ModAssumption DEF Init
<1>11. KTypeOK
  BY <1>1, <1>3, <1>4, <1>5, Ids DEF KTypeOK
<1>12. IrqTypeOK
  BY <1>1 DEF Init, interrupts_init, IrqTypeOK
<1> QED BY <1>1, <1>3, <1>6, <1>9, <1>10, <1>11, <1>12 DEF KernelSide

(* The invariant holds at the start.                                       *)
LEMMA PrgaInit == Init => PrgaInv
<1> SUFFICES ASSUME Init PROVE PrgaInv
  OBVIOUS
<1>1. KernelSide
  BY InitCore
<1>2. DataTypes
  <2>1. SocketsTypeOK
    <3>1. 0 \in 0 .. MAX_SOCKET + 1
      BY Roles
    <3> QED BY <3>1 DEF Init, socket_init, SocketsTypeOK, Off
  <2>2. 0 \in 0 .. NB_MSG
    BY Roles
  <2> QED BY <2>1, <2>2 DEF Init, DataTypes, Places
<1>3. /\ \A a \in Programs : /\ pc[a] = "start" /\ sock[a] = -1 /\ n[a] = 0
                             /\ a \in Aid /\ sched_status[a] = "runnable"
      /\ \A s \in Socket : sockets[s] = Off
      /\ \A p \in Port : ports[p] = -1
      /\ next_socket = 0
  BY Ids DEF Init, socket_init
<1>4. Owned
  <2>1. \A s \in Socket : ~(s < next_socket)
    BY <1>3, Roles
  <2> QED BY <1>3, <2>1 DEF Owned, Mine
<1>5. \A a \in Programs : Local(a)
  BY <1>3, Roles DEF Local, Asks, Bound, Early, Late
<1>6. Unlinked
  BY <1>3, Roles DEF Unlinked, Off, Idle_s, Asks
<1> QED BY <1>1, <1>2, <1>4, <1>5, <1>6 DEF PrgaInv, ProgramSide

----------------------------------------------------------------------------
(* What each kind of step does to the kernel.                              *)

(* The calls' numbers fit the mask of kernel_creturn.                      *)
Fits == unique < REPLY_MOD

(* What a step must establish of the kernel.                               *)
LEMMA KernelSteps ==
  ASSUME KernelSide, panic' = "no", kernel_curr_act' \in Aid,
         sched_status'[kernel_curr_act'] = "runnable",
         Core(Next_s, Asked', expected_reply'),
         status' \in [Aid -> Status], expected_reply' \in [Aid -> 0 .. UNIQUE_MOD - 1],
         unique' \in 0 .. UNIQUE_MOD - 1, UNCHANGED <<kernel_next_act, ivars>>,
         \A a \in Programs : expected_reply'[a] < REPLY_MOD
  PROVE  KernelSide'
<1>1. SchedType(Next_s)
  BY DEF Core, Base, SchedOK
<1>2. KTypeOK'
  BY <1>1 DEF SchedType, Next_s, KTypeOK, KernelSide
<1>3. IrqTypeOK'
  BY DEF KernelSide, IrqTypeOK, ivars
<1>4. Now' = Next_s
  BY DEF Now, Next_s
<1> QED BY <1>2, <1>3, <1>4 DEF KernelSide

(* The programs that do not move still ask for what they did.              *)
LEMMA OthersAsk ==
  ASSUME PrgaInv, NEW a \in Programs, UNCHANGED sockvars,
         \A b \in Programs \ {a} : Stays(b),
         a \in Servers \/ n'[a] = n[a] \/ \A s \in Servers : Idle_s(s)
  PROVE  \A b \in Programs \ {a} : Asks(b) => Asked'[b] = Asked[b]
<1> TAKE b \in Programs \ {a}
<1> HAVE Asks(b)
<1>1. Stays(b) /\ (b \in Servers \/ b \in Clients) /\ Local(b)
  BY Roles DEF PrgaInv, ProgramSide
<1>2. CASE pc[b] # "sendto" \/ b \in Clients
  <2>1. pc[b] = "sendto" => Sending(b)' = Sending(b)
    BY <1>1, <1>2 DEF Sending, Stays
  <2> QED BY <1>1, <2>1, AskedSame
<1>3. CASE pc[b] = "sendto" /\ b \in Servers
  <2>1. ~Idle_s(b)
    BY <1>3 DEF Idle_s
  <2>2. PICK c \in Clients, s \in Servers : Pair(c, s)
    BY <1>3, <2>1 DEF PrgaInv, ProgramSide, Unlinked, Linked
  <2>3. sockets[ports[ClientPort]].oid = c /\ c \in Programs
    BY <2>2, PairFacts DEF PrgaInv, ProgramSide
  <2>4. n'[c] = n[c]
    <3>1. CASE c = a
      BY <3>1, <1>3, <2>1, Roles
    <3>2. CASE c # a
      BY <3>2, <2>3 DEF Stays
    <3> QED BY <3>1, <3>2
  <2>5. Sending(b)' = Sending(b)
    BY <1>3, <2>3, <2>4, Roles DEF Sending, sockvars
  <2> QED BY <1>1, <2>5, AskedSame
<1> QED BY <1>1, <1>2, <1>3

(* A call, for the kernel.                                                 *)
LEMMA CallKernel ==
  ASSUME KernelSide, Fits', NEW a \in Programs, kernel_curr_act = a, UNCHANGED ivars,
         NEW r \in Arg, NEW store, ccall_sync(socks, store, r), Asked'[a] = r,
         \A b \in Programs \ {a} : sched_status[b] = "sync_block" => Asked'[b] = Asked[b]
  PROVE  /\ KernelSide' /\ sched_status'[a] = "sync_block"
         /\ \A b \in Programs \ {a} : sched_status'[b] = sched_status[b] /\ frame'[b] = frame[b]
<1> DEFINE req == Asked
           req2 == Asked'
<1>1. /\ panic = "no" /\ sched_status[a] = "runnable" /\ Core(Now, req, expected_reply)
      /\ expected_reply \in [Aid -> 0 .. UNIQUE_MOD - 1] /\ unique \in 0 .. UNIQUE_MOD - 1
      /\ status \in [Aid -> Status] /\ \A b \in Programs : expected_reply[b] < REPLY_MOD
  BY DEF KernelSide, KTypeOK
<1>2. /\ req2[a] = r
      /\ \A b \in Programs \ {a} : sched_status[b] = "sync_block" => req2[b] = req[b]
  OBVIOUS
<1> HIDE DEF req, req2
<1>3. /\ panic' = "no" /\ Core(Next_s, req2, expected_reply')
      /\ kernel_curr_act' \in Aid /\ sched_status'[kernel_curr_act'] = "runnable"
      /\ sched_status'[a] = "sync_block"
      /\ \A b \in Programs \ {a} : sched_status'[b] = sched_status[b] /\ frame'[b] = frame[b]
      /\ unique' \in 0 .. UNIQUE_MOD - 1 /\ expected_reply'[a] = unique'
      /\ \A b \in Programs \ {a} : expected_reply'[b] = expected_reply[b]
      /\ expected_reply' \in [Aid -> 0 .. UNIQUE_MOD - 1]
      /\ UNCHANGED <<status, kernel_next_act>>
  BY <1>1, <1>2, CallCore
<1>4. \A b \in Programs : expected_reply'[b] < REPLY_MOD
  BY <1>1, <1>3 DEF Fits
<1>5. Core(Next_s, Asked', expected_reply')
  BY <1>3 DEF req2
<1>6. KernelSide'
  BY <1>1, <1>3, <1>4, <1>5, KernelSteps
<1> QED BY <1>3, <1>6

(* A program calls the service.                                            *)
LEMMA CallStep ==
  ASSUME PrgaInv, Fits', NEW a \in Programs, Running(a), UNCHANGED ivars,
         NEW r \in Requests, NEW where, Request(a, r, where), Asked'[a] = r,
         \A b \in Programs \ {a} : Stays(b),
         a \in Servers \/ n'[a] = n[a] \/ \A s \in Servers : Idle_s(s)
  PROVE  /\ KernelSide' /\ Asks(a)' /\ UNCHANGED sockvars
         /\ \A b \in Programs \ {a} : Kept(b)
<1>1. /\ kernel_curr_act = a /\ KernelSide /\ r \in Arg
      /\ ccall_sync(socks, TRUE, r) /\ UNCHANGED sockvars
  BY Roles DEF Running, PrgaInv, Request
<1>2. \A b \in Programs \ {a} : sched_status[b] = "sync_block" => Asked'[b] = Asked[b]
  BY <1>1, OthersAsk DEF Asks
<1>3. /\ KernelSide' /\ sched_status'[a] = "sync_block"
      /\ \A b \in Programs \ {a} : sched_status'[b] = sched_status[b] /\ frame'[b] = frame[b]
  BY <1>1, <1>2, CallKernel
<1> QED BY <1>1, <1>3 DEF Asks, Kept

(* The scheduler runs another activation, and nothing else changes.        *)
LEMMA YieldStep ==
  ASSUME PrgaInv, sched_reschedule(Now, 0), Asked' = Asked,
         UNCHANGED <<status, expected_reply, kernel_next_act, unique, ivars>>
  PROVE  KernelSide' /\ \A b \in Programs : sched_status'[b] = sched_status[b] /\ frame'[b] = frame[b]
<1>1. /\ panic = "no" /\ Core(Now, Asked, expected_reply) /\ KernelSide
      /\ expected_reply \in [Aid -> 0 .. UNIQUE_MOD - 1] /\ unique \in 0 .. UNIQUE_MOD - 1
      /\ status \in [Aid -> Status] /\ \A b \in Programs : expected_reply[b] < REPLY_MOD
  BY DEF PrgaInv, KernelSide, KTypeOK
<1> DEFINE req == Asked
<1> HIDE DEF req
<1>2. /\ panic' = "no" /\ Core(Next_s, req, expected_reply)
      /\ kernel_curr_act' \in Aid /\ sched_status'[kernel_curr_act'] = "runnable"
      /\ \A b \in Programs : sched_status'[b] = sched_status[b] /\ frame'[b] = frame[b]
  BY <1>1, YieldCore DEF req
<1>3. Core(Next_s, Asked', expected_reply')
  BY <1>2 DEF req
<1>4. KernelSide'
  BY <1>1, <1>2, <1>3, KernelSteps
<1> QED BY <1>2, <1>4

(* A program yields.                                                       *)
LEMMA SleepStep ==
  ASSUME PrgaInv, NEW a \in Programs, Running(a), UNCHANGED <<ivars, sockvars>>, syscall_sleep,
         pc'[a] \in {"sleep", "connect_sleep"}, pc[a] \in {"sendto", "recfrom", "connect"},
         sock'[a] = sock[a], n'[a] = n[a], \A b \in Programs \ {a} : Stays(b)
  PROVE  /\ KernelSide' /\ Runs(a)' /\ \A b \in Programs \ {a} : Kept(b)
<1>1. /\ panic = "no" /\ kernel_curr_act = a /\ sched_status[a] = "runnable"
      /\ Core(Now, Asked, expected_reply) /\ KernelSide
      /\ expected_reply \in [Aid -> 0 .. UNIQUE_MOD - 1] /\ unique \in 0 .. UNIQUE_MOD - 1
      /\ status \in [Aid -> Status] /\ \A b \in Programs : expected_reply[b] < REPLY_MOD
  BY DEF PrgaInv, KernelSide, KTypeOK, Running
<1>2. \A b \in Programs \ {a} : sched_status[b] = "sync_block" => Asked'[b] = Asked[b]
  BY OthersAsk DEF Asks
<1>3. /\ sched_reschedule(Now, 0)
      /\ UNCHANGED <<status, expected_reply, kernel_next_act, unique>>
  BY DEF syscall_sleep
<1> DEFINE req == Asked
<1> HIDE DEF req
<1>4. /\ panic' = "no" /\ Core(Next_s, req, expected_reply)
      /\ kernel_curr_act' \in Aid /\ sched_status'[kernel_curr_act'] = "runnable"
      /\ \A b \in Programs : sched_status'[b] = sched_status[b] /\ frame'[b] = frame[b]
  BY <1>1, <1>3, YieldCore DEF req
<1>5. Core(Next_s, Asked', expected_reply')
  <2> DEFINE req2 == Asked'
  <2> HIDE DEF req2
  <2>1. \A m : Call(Next_s, req, expected_reply, m) => Call(Next_s, req2, expected_reply, m)
    <3> SUFFICES ASSUME NEW m, Call(Next_s, req, expected_reply, m)
                 PROVE  Call(Next_s, req2, expected_reply, m)
      OBVIOUS
    <3>1. PICK b \in Programs : /\ Next_s.st[b] = "sync_block"
                                /\ m = [v0 |-> req[b], c1 |-> [aid |-> b, unique |-> expected_reply[b]]]
      BY DEF Call
    <3>2. sched_status[b] = "sync_block"
      BY <1>4, <3>1 DEF Next_s
    <3>3. b # a /\ req2[b] = req[b]
      BY <1>1, <1>2, <3>2 DEF req, req2
    <3> QED BY <3>1, <3>3 DEF Call
  <2>2. Core(Next_s, req2, expected_reply)
    BY <1>4, <2>1 DEF Core, Inbox, Serving
  <2> QED BY <2>2, <1>3 DEF req2
<1>6. KernelSide'
  BY <1>1, <1>3, <1>4, <1>5, KernelSteps
<1> QED BY <1>1, <1>4, <1>6 DEF Runs, Kept

(* A program exits.                                                        *)
LEMMA ExitStep ==
  ASSUME PrgaInv, NEW a \in Programs, Running(a), UNCHANGED ivars, Exit(a),
         \A b \in Programs \ {a} : Stays(b),
         a \in Servers \/ n'[a] = n[a] \/ \A s \in Servers : Idle_s(s)
  PROVE  /\ KernelSide' /\ sched_status'[a] = "terminated" /\ UNCHANGED sockvars
         /\ \A b \in Programs \ {a} : Kept(b)
<1>1. /\ panic = "no" /\ kernel_curr_act = a /\ sched_status[a] = "runnable"
      /\ Core(Now, Asked, expected_reply) /\ KernelSide
      /\ expected_reply \in [Aid -> 0 .. UNIQUE_MOD - 1] /\ unique \in 0 .. UNIQUE_MOD - 1
      /\ status \in [Aid -> Status] /\ \A b \in Programs : expected_reply[b] < REPLY_MOD
      /\ act_terminate(a) /\ UNCHANGED sockvars
  BY DEF PrgaInv, KernelSide, KTypeOK, Running, Exit
<1>2. \A b \in Programs \ {a} : sched_status[b] = "sync_block" => Asked'[b] = Asked[b]
  BY <1>1, OthersAsk DEF Asks
<1> DEFINE req2 == Asked'
<1>3. \A b \in Programs \ {a} : sched_status[b] = "sync_block" => req2[b] = Asked[b]
  BY <1>2
<1> HIDE DEF req2
<1>4. /\ panic' = "no" /\ Core(Next_s, req2, expected_reply')
      /\ kernel_curr_act' \in Aid /\ sched_status'[kernel_curr_act'] = "runnable"
      /\ sched_status'[a] = "terminated"
      /\ \A b \in Programs \ {a} : sched_status'[b] = sched_status[b] /\ frame'[b] = frame[b]
      /\ status' = [status EXCEPT ![a] = "terminated"]
      /\ UNCHANGED <<expected_reply, kernel_next_act, unique>>
  BY <1>1, <1>3, ExitCore
<1>5. status' \in [Aid -> Status]
  BY <1>1, <1>4 DEF Status
<1>6. Core(Next_s, Asked', expected_reply')
  BY <1>4 DEF req2
<1>7. KernelSide'
  BY <1>1, <1>4, <1>5, <1>6, KernelSteps
<1> QED BY <1>1, <1>4, <1>7 DEF Kept

(* The service serves a program that waits for its answer.                 *)
LEMMA Served ==
  ASSUME PrgaInv, Running(socks)
  PROVE  \E x \in Programs : /\ Asks(x) /\ frame[socks].v0 = Asked[x]
                             /\ frame[socks].c1 = [aid |-> x, unique |-> expected_reply[x]]
<1>1. sched_status[socks] = "runnable" /\ Core(Now, Asked, expected_reply)
  BY DEF PrgaInv, KernelSide, Running
<1>2. Call(Now, Asked, expected_reply, frame[socks])
  BY <1>1 DEF Core, Serving, Now
<1>3. PICK x \in Programs : /\ sched_status[x] = "sync_block"
                            /\ frame[socks] = [v0 |-> Asked[x],
                                               c1 |-> [aid |-> x, unique |-> expected_reply[x]]]
  BY <1>2 DEF Call, Now
<1> QED BY <1>3 DEF Asks

(* It answers.                                                             *)
LEMMA AnswerStep ==
  ASSUME PrgaInv, Running(socks), UNCHANGED <<ivars, pvars>>,
         NEW x \in Programs, Asks(x),
         frame[socks].c1 = [aid |-> x, unique |-> expected_reply[x]],
         NEW ans \in Results, Answer(ans),
         \A b \in Programs \ {x} : Asks(b) => Asked'[b] = Asked[b]
  PROVE  /\ KernelSide' /\ Runs(x)' /\ Result(x)' = ans /\ Stays(x)
         /\ \A b \in Programs \ {x} : Kept(b)
<1>1. /\ panic = "no" /\ kernel_curr_act = socks /\ sched_status[socks] = "runnable"
      /\ sched_status[x] = "sync_block"
      /\ Core(Now, Asked, expected_reply) /\ KernelSide
      /\ expected_reply \in [Aid -> 0 .. UNIQUE_MOD - 1] /\ unique \in 0 .. UNIQUE_MOD - 1
      /\ status \in [Aid -> Status] /\ \A b \in Programs : expected_reply[b] < REPLY_MOD
      /\ creturn_sync(frame[socks].c1, ans)
  BY DEF PrgaInv, KernelSide, KTypeOK, Running, Asks, Answer
<1>2. expected_reply[x] \in 0 .. REPLY_MOD - 1
  <2>1. expected_reply[x] \in 0 .. UNIQUE_MOD - 1 /\ expected_reply[x] < REPLY_MOD
    BY <1>1, Ids
  <2> QED BY <2>1, ModAssumption
<1>3. ans \in Arg
  BY Roles
<1> DEFINE req2 == Asked'
<1>4. \A b \in Programs \ {x} : sched_status[b] = "sync_block" => req2[b] = Asked[b]
  BY DEF Asks
<1> HIDE DEF req2
<1>5. /\ panic' = "no" /\ Core(Next_s, req2, expected_reply')
      /\ kernel_curr_act' \in Aid /\ sched_status'[kernel_curr_act'] = "runnable"
      /\ sched_status'[x] = "runnable" /\ frame'[x].v0 = ans
      /\ \A b \in Programs \ {x} : sched_status'[b] = sched_status[b] /\ frame'[b] = frame[b]
      /\ UNCHANGED <<status, expected_reply, kernel_next_act, unique>>
  BY <1>1, <1>2, <1>3, <1>4, AnswerCore
<1>6. Core(Next_s, Asked', expected_reply')
  BY <1>5 DEF req2
<1>7. KernelSide'
  BY <1>1, <1>5, <1>6, KernelSteps
<1>8. \A b \in Programs : Stays(b)
  BY DEF pvars, Stays
<1> QED BY <1>5, <1>7, <1>8 DEF Runs, Result, Kept

----------------------------------------------------------------------------
(* What a step of a program leaves of the rest.                            *)

(* The program that runs is not blocked and has not exited.                *)
LEMMA RunFacts ==
  ASSUME PrgaInv, NEW a \in Programs, Running(a)
  PROVE  Runs(a) /\ ~Asks(a) /\ Local(a) /\ pc[a] # "done"
<1>1. sched_status[a] = "runnable" /\ Local(a)
  BY DEF PrgaInv, KernelSide, ProgramSide, Running
<1> QED BY <1>1 DEF Runs, Asks, Local

(* What is said of a program that is kept stays true if the ports are as   *)
(* they were.                                                              *)
LEMMA OthersKept ==
  ASSUME PrgaInv, NEW b \in Programs, Kept(b), UNCHANGED ports
  PROVE  /\ Local(b)' /\ (Bound(b)' <=> Bound(b)) /\ Mine(b)' = Mine(b)
         /\ (Asks(b)' <=> Asks(b)) /\ (Runs(b)' <=> Runs(b)) /\ Result(b)' = Result(b)
         /\ (Idle_s(b)' <=> Idle_s(b)) /\ (Waits(b)' <=> Waits(b))
         /\ pc'[b] = pc[b] /\ sock'[b] = sock[b] /\ n'[b] = n[b]
<1>1. pc'[b] = pc[b] /\ sock'[b] = sock[b] /\ n'[b] = n[b]
  BY DEF Kept, Stays
<1>2. Bound(b)' <=> Bound(b)
  BY <1>1 DEF Bound
<1>3. Local(b)
  BY DEF PrgaInv, ProgramSide
<1> QED BY <1>1, <1>2, <1>3, KeptFacts

(* What a step of program a must establish, all other programs and the     *)
(* service being as they were.                                             *)
LEMMA Assemble ==
  ASSUME PrgaInv, NEW a \in Programs, KernelSide', DataTypes', UNCHANGED sockvars,
         \A b \in Programs \ {a} : Kept(b),
         Mine(a)' = Mine(a), Bound(a) => Bound(a)', Local(a)', Unlinked' \/ Linked'
  PROVE  PrgaInv'
<1>1. /\ ports' = ports /\ sockets' = sockets /\ next_socket' = next_socket
      /\ Owned /\ SocketsTypeOK
  BY DEF sockvars, PrgaInv, ProgramSide, DataTypes
<1>2. \A b \in Programs : Mine(b)' = Mine(b) /\ (Bound(b) => Bound(b)') /\ Local(b)'
  BY <1>1, OthersKept
<1>3. Owned'
  <2>1. ASSUME NEW s \in Socket
        PROVE  (IF s < next_socket THEN sockets[s].oid \in Programs /\ Mine(sockets[s].oid) = s
                                   ELSE sockets[s] = Off)'
    <3>1. IF s < next_socket THEN sockets[s].oid \in Programs /\ Mine(sockets[s].oid) = s
                             ELSE sockets[s] = Off
      BY <1>1 DEF Owned
    <3> QED BY <3>1, <1>1, <1>2
  <2>2. ASSUME NEW b \in Programs
        PROVE  (Mine(b) # -1 => Mine(b) \in 0 .. next_socket - 1 /\ sockets[Mine(b)].oid = b)'
    <3>1. Mine(b) # -1 => Mine(b) \in 0 .. next_socket - 1 /\ sockets[Mine(b)].oid = b
      BY <1>1 DEF Owned
    <3> QED BY <3>1, <1>1, <1>2
  <2>3. ASSUME NEW p \in Port
        PROVE  (ports[p] # -1 => \E b \in Programs : PortOf(b) = p /\ Bound(b))'
    <3>1. ports[p] # -1 => \E b \in Programs : PortOf(b) = p /\ Bound(b)
      BY <1>1 DEF Owned
    <3> QED BY <3>1, <1>1, <1>2
  <2> QED BY <2>1, <2>2, <2>3 DEF Owned
<1> QED BY <1>2, <1>3 DEF PrgaInv, ProgramSide

(* The types, after a step of a program.                                   *)
LEMMA TypesKept ==
  ASSUME DataTypes, NEW a \in Programs, NEW where \in Places, UNCHANGED sockvars,
         Goto(a, where), sock' \in [Programs -> Socket \cup {-1}],
         n' \in [Programs -> 0 .. NB_MSG],
         text' \in [Messages -> {"new", "lower", "upper", "freed"}]
  PROVE  DataTypes'
<1>1. SocketsTypeOK'
  BY DEF DataTypes, SocketsTypeOK, sockvars
<1>2. pc' \in [Programs -> Places]
  BY DEF DataTypes, Goto
<1> QED BY <1>1, <1>2 DEF DataTypes

(* A client's message.                                                     *)
LEMMA MessageOf ==
  ASSUME PrgaInv, NEW c \in Clients, pc[c] # "done"
  PROVE  <<c, n[c]>> \in Messages /\ <<c, n[c]>> # NULL /\ n[c] \in 0 .. NB_MSG - 1
<1>1. c \in Programs /\ n[c] \in 0 .. NB_MSG /\ n[c] < NB_MSG
  BY Roles DEF PrgaInv, DataTypes, ProgramSide, Local
<1>2. n[c] \in 0 .. NB_MSG - 1
  BY <1>1, Roles
<1>3. <<c, n[c]>> \in Messages
  BY <1>2 DEF Messages
<1> QED BY <1>2, <1>3, Roles

(* A connection outlasts a step that leaves the service and the two        *)
(* sockets.                                                                *)
LEMMA PairStays ==
  ASSUME NEW c \in Clients, NEW s \in Servers, Pair(c, s), UNCHANGED sockvars,
         sock'[c] = sock[c], sock'[s] = sock[s], Bound(c)', Bound(s)'
  PROVE  /\ Pair(c, s)'
         /\ sockets'[sock'[c]].msg = sockets[sock[c]].msg
         /\ sockets'[sock'[s]].msg = sockets[sock[s]].msg
BY DEF Pair, sockvars

(* A program's step that leaves a connection as it is.                     *)
LEMMA QuietLinks ==
  ASSUME PrgaInv, NEW a \in Programs, Running(a), UNCHANGED <<sockvars, text>>,
         \A b \in Programs \ {a} : Kept(b),
         Bound(a) => Bound(a)' /\ sock'[a] = sock[a],
         a \in Servers => Idle_s(a) /\ Idle_s(a)',
         a \in Clients =>
           /\ n'[a] = n[a]
           /\ \/ Waits(a) /\ Waits(a)'
              \/ /\ pc[a] \in Early /\ ~(pc[a] = "connect" /\ Result(a) = [ret |-> 0])
                 /\ pc'[a] \notin {"sendto", "sleep", "recfrom"}
                 /\ ~(pc'[a] = "connect" /\ Runs(a)')
  PROVE  Unlinked' \/ Linked'
<1>1. Runs(a) /\ ~Asks(a) /\ Local(a)
  BY RunFacts
<1>2. sockets' = sockets /\ ports' = ports
  BY DEF sockvars
<1>3. \A b \in Programs \ {a} :
         /\ (Bound(b)' <=> Bound(b)) /\ pc'[b] = pc[b] /\ sock'[b] = sock[b] /\ n'[b] = n[b]
         /\ (Asks(b)' <=> Asks(b)) /\ (Runs(b)' <=> Runs(b)) /\ Result(b)' = Result(b)
         /\ (Idle_s(b)' <=> Idle_s(b)) /\ (Waits(b)' <=> Waits(b))
  BY <1>2, OthersKept
<1>4. CASE Unlinked
  <2>1. \A s \in Socket : sockets'[s].socksend = -1 /\ sockets'[s].msg = NULL
    BY <1>2, <1>4 DEF Unlinked
  <2>2. \A s \in Servers : Idle_s(s)'
    BY <1>3, <1>4, Roles DEF Unlinked
  <2>3. ASSUME NEW c \in Clients
        PROVE  /\ pc'[c] \notin {"sendto", "sleep", "recfrom"}
               /\ pc'[c] = "connect" /\ Runs(c)' => Result(c)' = [ret |-> -1]
    <3>1. /\ pc[c] \notin {"sendto", "sleep", "recfrom"}
          /\ pc[c] = "connect" /\ Runs(c) => Result(c) = [ret |-> -1]
      BY <1>4 DEF Unlinked
    <3>2. CASE c = a
      BY <3>1, <3>2 DEF Waits
    <3>3. CASE c # a
      BY <1>3, <3>1, <3>3, Roles
    <3> QED BY <3>2, <3>3
  <2> QED BY <2>1, <2>2, <2>3 DEF Unlinked
<1>5. CASE Linked
  <2>1. PICK c \in Clients, s \in Servers : Pair(c, s) /\ Stage(c, s)
    BY <1>5 DEF Linked
  <2> DEFINE m == <<c, n[c]>>
  <2>2. c \in Programs /\ s \in Programs /\ c # s /\ s \notin Clients /\ c \notin Servers
    BY Roles
  <2>3. pc[c] # "done" => m # NULL
    BY MessageOf
  <2>4. Bound(c) /\ Bound(s)
    BY <2>1 DEF Pair
  <2>5. sock'[c] = sock[c] /\ sock'[s] = sock[s] /\ Bound(c)' /\ Bound(s)' /\ n'[c] = n[c]
    BY <1>3, <2>2, <2>4
  <2>6. /\ Pair(c, s)'
        /\ sockets'[sock'[c]].msg = sockets[sock[c]].msg
        /\ sockets'[sock'[s]].msg = sockets[sock[s]].msg
    BY <2>1, <2>5, PairStays
  <2>7. Stage(c, s)
    BY <2>1
  <2>8. Stage(c, s)'
    <3>8. CASE a = c
      <4>1. Waits(c) /\ Waits(c)'
        BY <2>7, <3>8, <1>1 DEF Stage, Waits, Early
      <4>2. Idle_s(s)' <=> Idle_s(s)
        BY <1>3, <2>2, <3>8
      <4>3. /\ pc'[s] = pc[s] /\ (Asks(s)' <=> Asks(s)) /\ (Runs(s)' <=> Runs(s)) /\ Result(s)' = Result(s)
        BY <1>3, <2>2, <3>8
      <4>4. /\ ~(pc[c] = "connect" /\ Runs(c) /\ Result(c) = [ret |-> 0])
            /\ ~(pc[c] = "sendto" /\ Asks(c)) /\ pc[c] # "done"
            /\ ~(pc[c] = "recfrom" /\ Runs(c) /\ Result(c) = [msg |-> m])
        BY <4>1, <1>1, <2>3, <3>8 DEF Waits
      <4> QED BY <2>5, <2>6, <2>7, <4>1, <4>2, <4>3, <4>4 DEF Stage, Boxes
    <3>9. CASE a = s
      <4>1. Idle_s(s) /\ Idle_s(s)'
        BY <3>9
      <4>2. /\ pc'[c] = pc[c] /\ (Asks(c)' <=> Asks(c)) /\ (Runs(c)' <=> Runs(c)) /\ Result(c)' = Result(c)
            /\ (Waits(c)' <=> Waits(c))
        BY <1>3, <2>2, <3>9
      <4>3. ~(Waits(c) /\ Runs(s) /\ pc[s] = "recfrom" /\ Result(s) = [msg |-> m])
        BY <4>1, <2>3 DEF Idle_s, Waits
      <4>4. ~(Asks(s) /\ pc[s] = "sendto")
        BY <4>1 DEF Idle_s
      <4> QED BY <2>5, <2>6, <2>7, <4>1, <4>2, <4>3, <4>4 DEF Stage, Boxes
    <3>10. CASE a # c /\ a # s
      <4>1. /\ pc'[c] = pc[c] /\ (Asks(c)' <=> Asks(c)) /\ (Runs(c)' <=> Runs(c)) /\ Result(c)' = Result(c)
            /\ (Waits(c)' <=> Waits(c))
        BY <1>3, <2>2, <3>10
      <4>2. /\ pc'[s] = pc[s] /\ (Asks(s)' <=> Asks(s)) /\ (Runs(s)' <=> Runs(s)) /\ Result(s)' = Result(s)
            /\ (Idle_s(s)' <=> Idle_s(s))
        BY <1>3, <2>2, <3>10
      <4> QED BY <2>5, <2>6, <2>7, <4>1, <4>2 DEF Stage, Boxes
    <3> QED BY <3>8, <3>9, <3>10
  <2> QED BY <2>6, <2>8 DEF Linked
<1> QED BY <1>4, <1>5 DEF PrgaInv, ProgramSide

(* Goto moves one program.                                                 *)
LEMMA Moved ==
  ASSUME PrgaInv, NEW a \in Programs, NEW where, Goto(a, where)
  PROVE  pc'[a] = where /\ \A b \in Programs \ {a} : pc'[b] = pc[b]
BY DEF PrgaInv, DataTypes, Goto

(* A call that leaves a connection as it is.                               *)
LEMMA QuietCall ==
  ASSUME PrgaInv, Fits', NEW a \in Programs, Running(a), UNCHANGED <<ivars, text>>,
         NEW r \in Requests, NEW where \in {"socket", "bind", "connect", "recfrom"},
         Request(a, r, where), Asked'[a] = r,
         \A b \in Programs \ {a} : Stays(b),
         sock' \in [Programs -> Socket \cup {-1}], n' \in [Programs -> 0 .. NB_MSG],
         where = "socket" => pc[a] = "start",
         where # "socket" => Mine(a) = sock'[a] /\ pc[a] # "start",
         Bound(a) => sock'[a] = sock[a],
         n'[a] < NB_MSG, where # "recfrom" => n'[a] = 0,
         where = "connect" => a \in Clients, where = "bind" => sock'[a] # -1,
         where \in {"connect", "recfrom"} => Bound(a),
         a \in Servers => Idle_s(a),
         a \in Clients =>
           /\ n'[a] = n[a]
           /\ \/ Waits(a) /\ where = "recfrom"
              \/ /\ pc[a] \in Early /\ ~(pc[a] = "connect" /\ Result(a) = [ret |-> 0])
                 /\ where # "recfrom"
  PROVE  PrgaInv'
<1>1. /\ KernelSide' /\ Asks(a)' /\ UNCHANGED sockvars
      /\ \A b \in Programs \ {a} : Kept(b)
  BY CallStep, Roles
<1>2. Runs(a) /\ ~Asks(a) /\ Local(a) /\ pc[a] # "done"
  BY RunFacts
<1>3. Goto(a, where) /\ ports' = ports
  BY <1>1 DEF Request, sockvars
<1>4. pc'[a] = where
  BY <1>3, Moved
<1>5. Bound(a) => Bound(a)' /\ sock'[a] = sock[a]
  BY <1>3, <1>4 DEF Bound
<1>6. sched_status'[a] = "sync_block" /\ ~Runs(a)'
  BY <1>1 DEF Asks, Runs
<1>7. Local(a)'
  BY <1>4, <1>5, <1>6 DEF Local, Late, Early, Asks
<1>8. Mine(a)' = Mine(a)
  BY <1>1, <1>4 DEF Mine
<1>9. DataTypes'
  <2>1. where \in Places
    BY DEF Places
  <2> QED BY <1>1, <1>3, <2>1, TypesKept DEF PrgaInv, DataTypes
<1>10. a \in Servers => Idle_s(a) /\ Idle_s(a)'
  BY <1>4, <1>6 DEF Idle_s
<1>11. a \in Clients =>
         /\ n'[a] = n[a]
         /\ \/ Waits(a) /\ Waits(a)'
            \/ /\ pc[a] \in Early /\ ~(pc[a] = "connect" /\ Result(a) = [ret |-> 0])
               /\ pc'[a] \notin {"sendto", "sleep", "recfrom"}
               /\ ~(pc'[a] = "connect" /\ Runs(a)')
  BY <1>1, <1>4, <1>6 DEF Waits
<1>12. Unlinked' \/ Linked'
  BY <1>1, <1>5, <1>10, <1>11, QuietLinks
<1> QED BY <1>1, <1>5, <1>7, <1>8, <1>9, <1>12, Assemble

(* A yield that leaves a connection as it is.                              *)
LEMMA QuietSleep ==
  ASSUME PrgaInv, NEW a \in Programs, Running(a), UNCHANGED <<ivars, sockvars, sock, n, text>>,
         NEW where \in {"sleep", "connect_sleep"}, syscall_sleep, Goto(a, where),
         pc[a] \in {"sendto", "recfrom", "connect"},
         where = "connect_sleep" => pc[a] = "connect",
         a \in Servers => Idle_s(a),
         a \in Clients => \/ Waits(a) /\ where = "sleep"
                          \/ /\ pc[a] = "connect" /\ Result(a) # [ret |-> 0]
                             /\ where = "connect_sleep"
  PROVE  PrgaInv'
<1>1. Runs(a) /\ ~Asks(a) /\ Local(a) /\ pc[a] # "done"
  BY RunFacts
<1>2. pc'[a] = where /\ \A b \in Programs \ {a} : Stays(b)
  BY Moved DEF Stays
<1>3. KernelSide' /\ Runs(a)' /\ \A b \in Programs \ {a} : Kept(b)
  BY <1>2, SleepStep
<1>4. Bound(a) => Bound(a)' /\ sock'[a] = sock[a]
  BY <1>2 DEF Bound, sockvars
<1>5. sched_status'[a] = "runnable" /\ ~Asks(a)'
  BY <1>3 DEF Asks, Runs
<1>6. Bound(a) /\ n[a] < NB_MSG /\ (pc[a] = "connect" => n[a] = 0 /\ a \in Clients)
  BY <1>1 DEF Local, Late, Early
<1>7. Local(a)'
  BY <1>2, <1>4, <1>5, <1>6 DEF Local, Late, Early
<1>8. Mine(a)' = Mine(a)
  BY <1>2 DEF Mine
<1>9. DataTypes'
  <2>1. where \in Places
    BY DEF Places
  <2> QED BY <2>1, TypesKept DEF PrgaInv, DataTypes
<1>10. a \in Servers => Idle_s(a) /\ Idle_s(a)'
  BY <1>2 DEF Idle_s
<1>11. a \in Clients =>
         /\ n'[a] = n[a]
         /\ \/ Waits(a) /\ Waits(a)'
            \/ /\ pc[a] \in Early /\ ~(pc[a] = "connect" /\ Result(a) = [ret |-> 0])
               /\ pc'[a] \notin {"sendto", "sleep", "recfrom"}
               /\ ~(pc'[a] = "connect" /\ Runs(a)')
  BY <1>2 DEF Waits, Early
<1>12. Unlinked' \/ Linked'
  BY <1>3, <1>4, <1>10, <1>11, QuietLinks
<1> QED BY <1>3, <1>4, <1>7, <1>8, <1>9, <1>12, Assemble

(* An exit that leaves a connection as it is.                              *)
LEMMA QuietExit ==
  ASSUME PrgaInv, NEW a \in Programs, Running(a), UNCHANGED <<ivars, sock, text>>, Exit(a),
         \A b \in Programs \ {a} : n'[b] = n[b], n' \in [Programs -> 0 .. NB_MSG],
         pc[a] \in {"bind", "sendto"},
         a \in Clients => pc[a] = "bind" /\ n'[a] = n[a]
  PROVE  PrgaInv'
<1>1. Runs(a) /\ ~Asks(a) /\ Local(a) /\ pc[a] # "done"
  BY RunFacts
<1>2. Goto(a, "done")
  BY DEF Exit
<1>3. pc'[a] = "done" /\ \A b \in Programs \ {a} : Stays(b)
  BY <1>2, Moved DEF Stays
<1>4. /\ KernelSide' /\ sched_status'[a] = "terminated" /\ UNCHANGED sockvars
      /\ \A b \in Programs \ {a} : Kept(b)
  BY <1>3, ExitStep, Roles
<1>5. Bound(a) => Bound(a)' /\ sock'[a] = sock[a]
  BY <1>3, <1>4 DEF Bound, sockvars
<1>6. ~Asks(a)' /\ ~Runs(a)'
  BY <1>4 DEF Asks, Runs
<1>7. Local(a)'
  BY <1>3, <1>4, <1>6 DEF Local, Late, Early
<1>8. Mine(a)' = Mine(a)
  BY <1>3 DEF Mine
<1>9. DataTypes'
  <2>1. "done" \in Places
    BY DEF Places
  <2> QED BY <1>2, <1>4, <2>1, TypesKept DEF PrgaInv, DataTypes
<1>10. a \in Servers => Idle_s(a) /\ Idle_s(a)'
  BY <1>1, <1>3 DEF Idle_s
<1>11. a \in Clients =>
         /\ n'[a] = n[a]
         /\ \/ Waits(a) /\ Waits(a)'
            \/ /\ pc[a] \in Early /\ ~(pc[a] = "connect" /\ Result(a) = [ret |-> 0])
               /\ pc'[a] \notin {"sendto", "sleep", "recfrom"}
               /\ ~(pc'[a] = "connect" /\ Runs(a)')
  BY <1>3 DEF Early
<1>12. Unlinked' \/ Linked'
  BY <1>4, <1>5, <1>10, <1>11, QuietLinks
<1> QED BY <1>4, <1>5, <1>7, <1>8, <1>9, <1>12, Assemble

----------------------------------------------------------------------------
(* The programs' actions.                                                  *)

(* The programs' variables have their types.                               *)
LEMMA Types ==
  ASSUME PrgaInv
  PROVE  /\ pc \in [Programs -> Places] /\ sock \in [Programs -> Socket \cup {-1}]
         /\ n \in [Programs -> 0 .. NB_MSG]
         /\ text \in [Messages -> {"new", "lower", "upper", "freed"}]
BY DEF PrgaInv, DataTypes

(* A program that is past bind has a socket.                               *)
LEMMA HasSocket ==
  ASSUME PrgaInv, NEW a \in Programs, Bound(a)
  PROVE  sock[a] \in Socket /\ Mine(a) = sock[a] /\ pc[a] \notin {"start", "socket"}
BY Types DEF Bound, Mine

(* A program asks for a socket.                                            *)
LEMMA StartInv ==
  ASSUME PrgaInv, Fits', NEW a \in Programs, Running(a), Start(a)
  PROVE  PrgaInv'
<1> DEFINE r == [op |-> "socket", oid |-> a]
<1>1. /\ pc[a] = "start" /\ Request(a, r, "socket")
      /\ UNCHANGED <<ivars, text>> /\ sock' = sock /\ n' = n
  BY DEF Start, At, Same
<1>2. pc'[a] = "socket" /\ \A b \in Programs \ {a} : pc'[b] = pc[b]
  BY <1>1, Moved DEF Request
<1>3. r \in Requests
  BY DEF Requests
<1>4. Asked'[a] = r
  BY <1>2 DEF Asked
<1>5. \A b \in Programs \ {a} : Stays(b)
  BY <1>1, <1>2 DEF Stays
<1>6. Local(a) /\ n[a] = 0 /\ ~Bound(a) /\ Idle_s(a) /\ pc[a] \in Early /\ n[a] < NB_MSG
  BY <1>1, RunFacts, Roles DEF Local, Bound, Idle_s, Early
<1> HIDE DEF r
<1> QED BY <1>1, <1>3, <1>4, <1>5, <1>6, Types, QuietCall

(* It has got one and asks for its port.                                   *)
LEMMA GotSocketInv ==
  ASSUME PrgaInv, Fits', NEW a \in Programs, Running(a), GotSocket(a, PortOf(a))
  PROVE  PrgaInv'
<1> DEFINE r == [op |-> "bind", oid |-> a, s |-> Result(a).ret, port |-> PortOf(a)]
<1>1. /\ pc[a] = "socket" /\ Request(a, r, "bind")
      /\ UNCHANGED <<ivars, text>> /\ n' = n /\ sock' = [sock EXCEPT ![a] = Result(a).ret]
  BY DEF GotSocket, At
<1>2. Runs(a) /\ Local(a) /\ ~Asks(a)
  BY RunFacts
<1>3. PICK s \in Socket : Result(a) = [ret |-> s]
  BY <1>1, <1>2 DEF Local
<1>4. Result(a).ret = s
  BY <1>3
<1>5. /\ pc'[a] = "bind" /\ \A b \in Programs \ {a} : pc'[b] = pc[b]
      /\ sock'[a] = s /\ \A b \in Programs \ {a} : sock'[b] = sock[b]
      /\ sock' \in [Programs -> Socket \cup {-1}] /\ s # -1
  <2>1. pc'[a] = "bind" /\ \A b \in Programs \ {a} : pc'[b] = pc[b]
    BY <1>1, Moved DEF Request
  <2> QED BY <1>1, <1>4, <2>1, Types, Roles
<1>6. r \in Requests
  BY <1>4, Roles DEF Requests
<1>7. Asked'[a] = r
  BY <1>4, <1>5 DEF Asked, PortOf
<1>8. \A b \in Programs \ {a} : Stays(b)
  BY <1>1, <1>5 DEF Stays
<1>9. n[a] = 0 /\ ~Bound(a) /\ Idle_s(a) /\ pc[a] \in Early /\ n[a] < NB_MSG /\ Mine(a) = s
  BY <1>1, <1>2, <1>4, Roles DEF Local, Bound, Idle_s, Early, Mine
<1> HIDE DEF r
<1> QED BY <1>1, <1>5, <1>6, <1>7, <1>8, <1>9, Types, QuietCall

(* The port is taken, and the program exits.                               *)
LEMMA BindFailedInv ==
  ASSUME PrgaInv, NEW a \in Programs, Running(a), BindFailed(a)
  PROVE  PrgaInv'
<1>1. pc[a] = "bind" /\ Exit(a) /\ UNCHANGED <<ivars, sock, text>> /\ n' = n
  BY DEF BindFailed, At, Same
<1> QED BY <1>1, Types, QuietExit

(* There was no message, and the program naps.                             *)
LEMMA BoxEmptyInv ==
  ASSUME PrgaInv, NEW a \in Programs, Running(a), BoxEmpty(a)
  PROVE  PrgaInv'
<1>1. /\ pc[a] = "recfrom" /\ Result(a).msg = NULL /\ syscall_sleep /\ Goto(a, "sleep")
      /\ UNCHANGED <<ivars, sockvars, sock, n, text>>
  BY DEF BoxEmpty, At, Same, Sleep, ivars
<1>2. Runs(a) /\ Local(a) /\ ~Asks(a)
  BY RunFacts
<1>3. PICK m \in Messages \cup {NULL} : Result(a) = [msg |-> m]
  BY <1>1, <1>2 DEF Local
<1>4. Result(a) = [msg |-> NULL]
  BY <1>1, <1>3
<1>5. Idle_s(a) /\ Waits(a)
  BY <1>1, <1>2, <1>4 DEF Idle_s, Waits
<1> QED BY <1>1, <1>5, QuietSleep

(* There was no server, and the client naps.                               *)
LEMMA ConnectFailedInv ==
  ASSUME PrgaInv, NEW a \in Clients, Running(a), ConnectFailed(a)
  PROVE  PrgaInv'
<1>1. /\ pc[a] = "connect" /\ Result(a).ret = -1 /\ syscall_sleep /\ Goto(a, "connect_sleep")
      /\ UNCHANGED <<ivars, sockvars, sock, n, text>>
  BY DEF ConnectFailed, At, Same, ivars
<1>2. Result(a) # [ret |-> 0] /\ a \in Programs /\ a \notin Servers
  BY <1>1, Roles
<1> QED BY <1>1, <1>2, QuietSleep

(* recfrom, when nothing is to be received that was not.                   *)
LEMMA ReceiveInv ==
  ASSUME PrgaInv, Fits', NEW a \in Programs, Running(a), CallReceive(a), Bound(a),
         UNCHANGED <<ivars, sock, text>>, \A b \in Programs \ {a} : n'[b] = n[b],
         n' \in [Programs -> 0 .. NB_MSG], n'[a] < NB_MSG,
         a \in Servers => Idle_s(a), a \in Clients => n'[a] = n[a] /\ Waits(a)
  PROVE  PrgaInv'
<1> DEFINE r == [op |-> "recfrom", oid |-> a, s |-> sock[a]]
<1>1. Request(a, r, "recfrom")
  BY DEF CallReceive
<1>2. pc'[a] = "recfrom" /\ \A b \in Programs \ {a} : Stays(b)
  BY <1>1, Moved DEF Request, Stays
<1>3. sock[a] \in Socket /\ Mine(a) = sock[a] /\ pc[a] \notin {"start", "socket"}
  BY HasSocket
<1>4. r \in Requests
  BY <1>3 DEF Requests
<1>5. Asked'[a] = r
  BY <1>2 DEF Asked
<1>6. sock' \in [Programs -> Socket \cup {-1}] /\ sock' = sock
  BY Types
<1> HIDE DEF r
<1> QED BY <1>1, <1>2, <1>3, <1>4, <1>5, <1>6, QuietCall

(* A server asks for a message.                                            *)
LEMMA ServerWaitsInv ==
  ASSUME PrgaInv, Fits', NEW a \in Servers, Running(a), ServerWaits(a)
  PROVE  PrgaInv'
<1>1. /\ (pc[a] = "bind" /\ Result(a).ret = 0) \/ pc[a] = "sleep"
      /\ CallReceive(a) /\ UNCHANGED <<ivars, sock, text>> /\ n' = n
  BY DEF ServerWaits, At, Same
<1>2. Runs(a) /\ Local(a) /\ ~Asks(a) /\ pc[a] # "done" /\ a \in Programs /\ a \notin Clients
  BY RunFacts, Roles
<1>3. Bound(a)
  <2>1. CASE pc[a] = "sleep"
    BY <1>2, <2>1 DEF Local, Late
  <2>2. CASE pc[a] = "bind" /\ Result(a).ret = 0
    <3>1. Result(a) # [ret |-> -1]
      BY <2>2
    <3> QED BY <1>2, <2>2, <3>1 DEF Local
  <2> QED BY <1>1, <2>1, <2>2
<1>4. n[a] < NB_MSG /\ Idle_s(a)
  BY <1>1, <1>2 DEF Local, Idle_s
<1> QED BY <1>1, <1>2, <1>3, <1>4, Types, ReceiveInv

(* A server has answered: it asks for the next message or exits.           *)
LEMMA ServerSentInv ==
  ASSUME PrgaInv, Fits', NEW a \in Servers, Running(a), ServerSent(a)
  PROVE  PrgaInv'
<1>1. Runs(a) /\ Local(a) /\ ~Asks(a) /\ a \in Programs /\ a \notin Clients
  BY RunFacts, Roles
<1>2. pc[a] = "sendto" /\ UNCHANGED <<ivars, sock>>
  BY DEF ServerSent, At
<1>3. Result(a).ret = 0
  BY <1>1, <1>2 DEF Local
<1>4. /\ n' = [n EXCEPT ![a] = @ + 1]
      /\ IF n[a] + 1 = NB_MSG THEN Exit(a) /\ text' = text ELSE CallReceive(a) /\ text' = text
  BY <1>3 DEF ServerSent, CountOne
<1>5. Bound(a) /\ n[a] < NB_MSG /\ n[a] \in 0 .. NB_MSG /\ Idle_s(a)
  BY <1>1, <1>2, Types DEF Local, Late, Idle_s
<1>6. n[a] + 1 \in 0 .. NB_MSG /\ (n[a] + 1 # NB_MSG => n[a] + 1 < NB_MSG)
  BY <1>5, Roles
<1>7. /\ n' \in [Programs -> 0 .. NB_MSG] /\ n'[a] = n[a] + 1
      /\ \A b \in Programs \ {a} : n'[b] = n[b]
  BY <1>1, <1>4, <1>6, Types
<1>8. CASE n[a] + 1 = NB_MSG
  BY <1>1, <1>2, <1>4, <1>7, <1>8, QuietExit
<1>9. CASE n[a] + 1 # NB_MSG
  BY <1>1, <1>2, <1>4, <1>5, <1>6, <1>7, <1>9, ReceiveInv
<1> QED BY <1>8, <1>9

(* A client asks to be connected.                                          *)
LEMMA ClientConnectsInv ==
  ASSUME PrgaInv, Fits', NEW a \in Clients, Running(a), ClientConnects(a)
  PROVE  PrgaInv'
<1> DEFINE r == [op |-> "connect", oid |-> a, s |-> sock[a], port |-> ServerPort]
<1>1. /\ (pc[a] = "bind" /\ Result(a).ret = 0) \/ pc[a] = "connect_sleep"
      /\ Request(a, r, "connect") /\ UNCHANGED <<ivars, text>> /\ sock' = sock /\ n' = n
  BY DEF ClientConnects, At, Same
<1>2. Runs(a) /\ Local(a) /\ ~Asks(a) /\ pc[a] # "done" /\ a \in Programs /\ a \notin Servers
  BY RunFacts, Roles
<1>3. Bound(a)
  <2>1. CASE pc[a] = "connect_sleep"
    BY <1>2, <2>1 DEF Local, Late
  <2>2. CASE pc[a] = "bind" /\ Result(a).ret = 0
    <3>1. Result(a) # [ret |-> -1]
      BY <2>2
    <3> QED BY <1>2, <2>2, <3>1 DEF Local
  <2> QED BY <1>1, <2>1, <2>2
<1>4. sock[a] \in Socket /\ Mine(a) = sock[a] /\ pc[a] \notin {"start", "socket"}
  BY <1>2, <1>3, HasSocket
<1>5. pc'[a] = "connect" /\ \A b \in Programs \ {a} : Stays(b)
  BY <1>1, <1>2, Moved DEF Request, Stays
<1>6. r \in Requests
  BY <1>2, <1>4, Roles DEF Requests
<1>7. Asked'[a] = r
  BY <1>1, <1>2, <1>5 DEF Asked
<1>8. n[a] = 0 /\ n[a] < NB_MSG /\ pc[a] \in Early /\ pc[a] # "connect"
  BY <1>1, <1>2 DEF Local, Early
<1> HIDE DEF r
<1> QED BY <1>1, <1>2, <1>3, <1>4, <1>5, <1>6, <1>7, <1>8, Types, QuietCall

(* A client asks for its answer.                                           *)
LEMMA ClientReceivesInv ==
  ASSUME PrgaInv, Fits', NEW a \in Clients, Running(a), ClientReceives(a)
  PROVE  PrgaInv'
<1>1. pc[a] = "sleep" /\ CallReceive(a) /\ UNCHANGED <<ivars, sock, text>> /\ n' = n
  BY DEF ClientReceives, At, Same
<1>2. Local(a) /\ a \in Programs /\ a \notin Servers
  BY RunFacts, Roles
<1>3. Bound(a) /\ n[a] < NB_MSG /\ Waits(a)
  BY <1>1, <1>2 DEF Local, Late, Waits
<1> QED BY <1>1, <1>2, <1>3, Types, ReceiveInv

(* A client naps once its message is sent.                                 *)
LEMMA ClientSentInv ==
  ASSUME PrgaInv, NEW a \in Clients, Running(a), ClientSent(a)
  PROVE  PrgaInv'
<1>1. Runs(a) /\ Local(a) /\ a \in Programs /\ a \notin Servers
  BY RunFacts, Roles
<1>2. pc[a] = "sendto" /\ UNCHANGED <<ivars, sock>>
  BY DEF ClientSent, At
<1>3. Result(a).ret = 0 /\ Waits(a)
  BY <1>1, <1>2 DEF Local, Waits
<1>4. syscall_sleep /\ Goto(a, "sleep") /\ UNCHANGED <<sockvars, n, text>>
  BY <1>3 DEF ClientSent, Sleep
<1> QED BY <1>1, <1>2, <1>3, <1>4, QuietSleep

(* Who takes part in the connection.                                       *)
LEMMA InPair ==
  ASSUME PrgaInv, NEW c \in Clients, NEW s \in Servers, Pair(c, s), NEW a \in Programs,
         pc[a] \in Late
  PROVE  a = c \/ a = s
<1>1. Bound(a)
  BY DEF PrgaInv, ProgramSide, Local
<1> QED BY <1>1, PairFacts DEF PrgaInv, ProgramSide

(* If the server of the connection has no message, no server has.          *)
LEMMA AllIdle ==
  ASSUME PrgaInv, NEW c \in Clients, NEW s \in Servers, Pair(c, s), Idle_s(s)
  PROVE  \A b \in Servers : Idle_s(b)
<1> SUFFICES ASSUME NEW b \in Servers, ~Idle_s(b) PROVE FALSE
  OBVIOUS
<1>1. pc[b] \in Late
  BY DEF Idle_s, Late
<1>2. b = c \/ b = s
  BY <1>1, Roles, InPair
<1> QED BY <1>2, Roles

(* A client sends its next message, and both boxes are empty.              *)
LEMMA SendInv ==
  ASSUME PrgaInv, Fits', NEW c \in Clients, NEW s \in Servers, Running(c),
         Pair(c, s), Idle_s(s), Boxes(c, s, NULL, NULL),
         NEW i, i \in Nat, i < NB_MSG, n'[c] = i,
         NEW buffers \in [Messages -> {"new", "lower", "upper", "freed"}],
         SendMessage(c, i, buffers), n' \in [Programs -> 0 .. NB_MSG],
         \A b \in Programs \ {c} : n'[b] = n[b], UNCHANGED <<ivars, sock>>
  PROVE  PrgaInv'
<1> DEFINE m == <<c, i>>
           r == [op |-> "sendto", oid |-> c, s |-> sock[c], msg |-> m]
<1>1. /\ Request(c, r, "sendto") /\ text' = [buffers EXCEPT ![m] = "lower"]
  BY DEF SendMessage
<1>2. c \in Programs /\ s \in Programs /\ c # s /\ c \notin Servers
  BY Roles
<1>3. pc'[c] = "sendto" /\ \A b \in Programs \ {c} : Stays(b)
  BY <1>1, <1>2, Moved DEF Request, Stays
<1>4. i \in 0 .. NB_MSG - 1
  BY Roles
<1>5. m \in Messages
  BY <1>4 DEF Messages
<1>6. sock[c] \in Socket /\ Mine(c) = sock[c] /\ pc[c] \notin {"start", "socket"} /\ Bound(c) /\ Bound(s)
  BY <1>2, HasSocket DEF Pair
<1>7. r \in Requests
  BY <1>2, <1>5, <1>6 DEF Requests
<1>8. Asked'[c] = r
  BY <1>2, <1>3 DEF Asked, Sending
<1>9. /\ KernelSide' /\ Asks(c)' /\ UNCHANGED sockvars
      /\ \A b \in Programs \ {c} : Kept(b)
  <2> HIDE DEF r
  <2> QED BY <1>1, <1>2, <1>3, <1>7, <1>8, AllIdle, CallStep
<1>10. sched_status'[c] = "sync_block" /\ ~Runs(c)'
  BY <1>9 DEF Asks, Runs
<1>11. Bound(c)'
  BY <1>3, <1>6, <1>9 DEF Bound, sockvars
<1>12. Local(c)'
  BY <1>3, <1>9, <1>10, <1>11 DEF Local, Late, Early
<1>13. Mine(c)' = Mine(c)
  BY <1>3, <1>6 DEF Mine
<1>14. DataTypes'
  <2>1. "sendto" \in Places
    BY DEF Places
  <2>2. text' \in [Messages -> {"new", "lower", "upper", "freed"}]
    BY <1>1
  <2> QED BY <1>1, <1>2, <1>9, <2>1, <2>2, Types, TypesKept DEF PrgaInv, Request
<1>15. Linked'
  <2>1. (Bound(s)' <=> Bound(s)) /\ (Idle_s(s)' <=> Idle_s(s)) /\ sock'[s] = sock[s]
    BY <1>2, <1>9, OthersKept DEF sockvars
  <2>2. /\ Pair(c, s)'
        /\ sockets'[sock'[c]].msg = sockets[sock[c]].msg
        /\ sockets'[sock'[s]].msg = sockets[sock[s]].msg
    BY <1>6, <1>9, <1>11, <2>1, PairStays
  <2>3. text'[<<c, n'[c]>>] = "lower"
    BY <1>1, <1>5
  <2>4. Boxes(c, s, NULL, NULL)'
    BY <2>2 DEF Boxes
  <2>5. Stage(c, s)'
    BY <1>3, <1>9, <2>1, <2>3, <2>4 DEF Stage
  <2> QED BY <2>2, <2>5 DEF Linked
<1> QED BY <1>2, <1>9, <1>11, <1>12, <1>13, <1>14, <1>15, Assemble

(* A client is connected and sends its first message.                      *)
LEMMA ConnectedInv ==
  ASSUME PrgaInv, Fits', NEW a \in Clients, Running(a), Connected(a)
  PROVE  PrgaInv'
<1>1. Runs(a) /\ Local(a) /\ ~Asks(a) /\ a \in Programs
  BY RunFacts, Roles
<1>2. /\ pc[a] = "connect" /\ Result(a).ret = 0 /\ SendMessage(a, 0, text)
      /\ UNCHANGED <<ivars, sock>> /\ n' = n
  BY DEF Connected, At
<1>3. Result(a) # [ret |-> -1] /\ n[a] = 0
  BY <1>1, <1>2 DEF Local, Early
<1>4. PICK c \in Clients, s \in Servers : Pair(c, s) /\ Stage(c, s)
  BY <1>1, <1>2, <1>3 DEF PrgaInv, ProgramSide, Unlinked, Linked
<1>5. c = a
  BY <1>1, <1>2, <1>4, InPair, Roles DEF Late
<1>6. Idle_s(s) /\ Boxes(a, s, NULL, NULL)
  BY <1>1, <1>2, <1>4, <1>5 DEF Stage, Waits
<1> QED BY <1>1, <1>2, <1>3, <1>4, <1>5, <1>6, Types, Roles, SendInv

(* A client has its answer: it sends the next message or exits.            *)
LEMMA ClientGotInv ==
  ASSUME PrgaInv, Fits', NEW a \in Clients, Running(a), ClientGot(a)
  PROVE  PrgaInv'
<1> DEFINE buffers == [text EXCEPT ![Result(a).msg] = "freed"]
<1>1. Runs(a) /\ Local(a) /\ ~Asks(a) /\ a \in Programs
  BY RunFacts, Roles
<1>2. /\ pc[a] = "recfrom" /\ Result(a).msg # NULL /\ n' = [n EXCEPT ![a] = @ + 1]
      /\ IF n[a] + 1 = NB_MSG THEN Exit(a) /\ text' = buffers ELSE SendMessage(a, n[a] + 1, buffers)
      /\ UNCHANGED <<ivars, sock>>
  BY DEF ClientGot, At, NextMessage, CountOne
<1>3. buffers \in [Messages -> {"new", "lower", "upper", "freed"}]
  BY Types
<1> HIDE DEF buffers
<1>4. n[a] < NB_MSG /\ n[a] \in 0 .. NB_MSG
  BY <1>1, <1>2, Types DEF Local
<1>5. n[a] + 1 \in 0 .. NB_MSG /\ (n[a] + 1 # NB_MSG => n[a] + 1 < NB_MSG /\ n[a] + 1 \in Nat)
  BY <1>4, Roles
<1>6. /\ n' \in [Programs -> 0 .. NB_MSG] /\ n'[a] = n[a] + 1
      /\ \A b \in Programs \ {a} : n'[b] = n[b]
  BY <1>1, <1>2, <1>5, Types
<1>7. PICK c \in Clients, s \in Servers : Pair(c, s) /\ Stage(c, s)
  BY <1>1, <1>2 DEF PrgaInv, ProgramSide, Unlinked, Linked
<1>8. c = a
  BY <1>1, <1>2, <1>7, InPair, Roles DEF Late
<1>9. Idle_s(s) /\ Boxes(a, s, NULL, NULL)
  <2>1. Result(a) # [msg |-> NULL]
    BY <1>2
  <2> QED BY <1>1, <1>2, <1>7, <1>8, <2>1 DEF Stage, Waits
<1>10. CASE n[a] + 1 # NB_MSG
  BY <1>1, <1>2, <1>3, <1>5, <1>6, <1>7, <1>8, <1>9, <1>10, SendInv
<1>11. CASE n[a] + 1 = NB_MSG
  <2>1. Exit(a) /\ text' = buffers /\ Goto(a, "done")
    BY <1>2, <1>11 DEF Exit
  <2>2. pc'[a] = "done" /\ \A b \in Programs \ {a} : Stays(b)
    BY <1>1, <1>2, <1>6, <2>1, Moved DEF Stays
  <2>3. /\ KernelSide' /\ sched_status'[a] = "terminated" /\ UNCHANGED sockvars
        /\ \A b \in Programs \ {a} : Kept(b)
    <3>1. \A b \in Servers : Idle_s(b)
      BY <1>7, <1>8, <1>9, AllIdle
    <3> QED BY <1>1, <1>2, <2>1, <2>2, <3>1, ExitStep
  <2>4. Bound(a) /\ Bound(s) /\ Bound(a)' /\ s \in Programs /\ s # a
    <3>1. Bound(a) /\ Bound(s)
      BY <1>7, <1>8 DEF Pair
    <3> QED BY <1>2, <2>2, <2>3, <3>1, Roles DEF Bound, sockvars
  <2>5. ~Asks(a)' /\ ~Runs(a)'
    BY <2>3 DEF Asks, Runs
  <2>6. Local(a)'
    BY <2>2, <2>3, <2>5 DEF Local, Late, Early
  <2>7. Mine(a)' = Mine(a)
    BY <1>2, <2>2 DEF Mine
  <2>8. DataTypes'
    <3>1. "done" \in Places
      BY DEF Places
    <3> QED BY <1>1, <1>2, <1>3, <1>6, <2>1, <2>3, <3>1, Types, TypesKept DEF PrgaInv
  <2>9. Linked'
    <3>1. (Bound(s)' <=> Bound(s)) /\ (Idle_s(s)' <=> Idle_s(s)) /\ sock'[s] = sock[s]
      BY <2>3, <2>4, OthersKept DEF sockvars
    <3>2. /\ Pair(a, s)'
          /\ sockets'[sock'[a]].msg = sockets[sock[a]].msg
          /\ sockets'[sock'[s]].msg = sockets[sock[s]].msg
      BY <1>2, <1>7, <1>8, <2>3, <2>4, <3>1, PairStays
    <3>3. Boxes(a, s, NULL, NULL)'
      BY <1>9, <3>2 DEF Boxes
    <3>4. Stage(a, s)'
      BY <1>9, <2>2, <3>1, <3>3 DEF Stage
    <3> QED BY <3>2, <3>4 DEF Linked
  <2> QED BY <1>1, <2>3, <2>4, <2>6, <2>7, <2>8, <2>9, Assemble
<1> QED BY <1>10, <1>11

(* A server sends back the message it has received, in upper case.         *)
LEMMA ServerSendsInv ==
  ASSUME PrgaInv, Fits', NEW a \in Servers, Running(a), ServerSends(a)
  PROVE  PrgaInv'
<1> DEFINE m == Result(a).msg
           r == [op |-> "sendto", oid |-> a, s |-> sock[a], msg |-> m]
<1>1. Runs(a) /\ Local(a) /\ ~Asks(a) /\ a \in Programs /\ a \notin Clients
  BY RunFacts, Roles
<1>2. /\ pc[a] = "recfrom" /\ m # NULL /\ text' = [text EXCEPT ![m] = "upper"]
      /\ Request(a, r, "sendto") /\ UNCHANGED <<ivars, sock>> /\ n' = n
  BY DEF ServerSends, At
<1>3. ~Idle_s(a)
  BY <1>1, <1>2 DEF Idle_s
<1>4. PICK c \in Clients, s \in Servers : Pair(c, s) /\ Stage(c, s)
  BY <1>3 DEF PrgaInv, ProgramSide, Unlinked, Linked
<1>5. s = a /\ c \in Programs /\ c # a
  BY <1>1, <1>2, <1>4, InPair, Roles DEF Late
<1>6. Waits(c) /\ Boxes(c, a, NULL, NULL) /\ Result(a) = [msg |-> <<c, n[c]>>]
  BY <1>1, <1>2, <1>3, <1>4, <1>5 DEF Stage
<1>7. m = <<c, n[c]>> /\ m \in Messages
  <2>1. pc[c] # "done"
    BY <1>6 DEF Waits
  <2> QED BY <1>6, <2>1, MessageOf
<1> HIDE DEF m
<1>8. pc'[a] = "sendto" /\ \A b \in Programs \ {a} : Stays(b)
  BY <1>1, <1>2, Moved DEF Request, Stays
<1>9. /\ sock[a] \in Socket /\ Mine(a) = sock[a] /\ Bound(a) /\ Bound(c)
      /\ sockets[ports[ClientPort]].oid = c
  <2>1. Bound(a) /\ Bound(c) /\ Pair(c, a)
    BY <1>4, <1>5 DEF Pair
  <2> QED BY <1>1, <2>1, HasSocket, PairFacts DEF PrgaInv, ProgramSide
<1>10. r \in Requests
  BY <1>1, <1>7, <1>9 DEF Requests
<1>11. Asked'[a] = r
  <2>1. sockets' = sockets /\ ports' = ports
    BY <1>2 DEF Request, sockvars
  <2>2. Sending(a)' = m
    BY <1>1, <1>2, <1>7, <1>9, <2>1 DEF Sending
  <2> QED BY <1>1, <1>2, <1>8, <2>2 DEF Asked
<1>12. /\ KernelSide' /\ Asks(a)' /\ UNCHANGED sockvars
       /\ \A b \in Programs \ {a} : Kept(b)
  <2> HIDE DEF r
  <2> QED BY <1>1, <1>2, <1>8, <1>10, <1>11, CallStep
<1>13. sched_status'[a] = "sync_block" /\ ~Runs(a)'
  BY <1>12 DEF Asks, Runs
<1>14. Bound(a)'
  BY <1>2, <1>8, <1>9, <1>12 DEF Bound, sockvars
<1>15. Local(a)'
  BY <1>1, <1>2, <1>8, <1>12, <1>13, <1>14 DEF Local, Late, Early
<1>16. Mine(a)' = Mine(a)
  BY <1>2, <1>8, <1>9 DEF Mine
<1>17. DataTypes'
  <2>1. "sendto" \in Places
    BY DEF Places
  <2>2. text' \in [Messages -> {"new", "lower", "upper", "freed"}]
    BY <1>2, Types
  <2> QED BY <1>1, <1>2, <1>12, <2>1, <2>2, Types, TypesKept DEF PrgaInv, Request
<1>18. Linked'
  <2>1. /\ (Bound(c)' <=> Bound(c)) /\ (Waits(c)' <=> Waits(c)) /\ sock'[c] = sock[c]
        /\ n'[c] = n[c]
    BY <1>5, <1>12, OthersKept DEF sockvars
  <2>2. /\ Pair(c, a)'
        /\ sockets'[sock'[c]].msg = sockets[sock[c]].msg
        /\ sockets'[sock'[a]].msg = sockets[sock[a]].msg
    BY <1>2, <1>4, <1>5, <1>9, <1>12, <1>14, <2>1, PairStays
  <2>3. text'[<<c, n'[c]>>] = "upper"
    BY <1>2, <1>7, <2>1, Types
  <2>4. Boxes(c, a, NULL, NULL)'
    BY <1>6, <2>2 DEF Boxes
  <2>5. Stage(c, a)'
    BY <1>6, <1>8, <1>12, <2>1, <2>3, <2>4 DEF Stage
  <2> QED BY <2>2, <2>5 DEF Linked
<1> QED BY <1>1, <1>12, <1>14, <1>15, <1>16, <1>17, <1>18, Assemble

----------------------------------------------------------------------------
(* The service's methods.                                                  *)

(* What a program that is blocked has asked for.                           *)
LEMMA AskedFacts ==
  ASSUME PrgaInv, NEW x \in Programs, Asks(x)
  PROVE  /\ Asked[x].op = pc[x] /\ Local(x) /\ ~Runs(x) /\ pc[x] # "done"
         /\ pc[x] = "socket"  => Asked[x] = [op |-> "socket", oid |-> x]
         /\ pc[x] = "bind"    => Asked[x] = [op |-> "bind", oid |-> x, s |-> sock[x], port |-> PortOf(x)]
         /\ pc[x] = "connect" => Asked[x] = [op |-> "connect", oid |-> x, s |-> sock[x], port |-> ServerPort]
         /\ pc[x] = "recfrom" => Asked[x] = [op |-> "recfrom", oid |-> x, s |-> sock[x]]
         /\ pc[x] = "sendto"  => Asked[x] = [op |-> "sendto", oid |-> x, s |-> sock[x], msg |-> Sending(x)]
<1>1. Local(x)
  BY DEF PrgaInv, ProgramSide
<1>2. /\ pc[x] \in {"socket", "bind", "connect", "recfrom", "sendto"}
      /\ sched_status[x] = "sync_block"
  BY <1>1 DEF Local, Asks
<1>3. ~Runs(x)
  BY <1>2 DEF Runs
<1>4. Asked[x] =
        CASE pc[x] = "socket"  -> [op |-> "socket", oid |-> x]
          [] pc[x] = "bind"    -> [op |-> "bind", oid |-> x, s |-> sock[x], port |-> PortOf(x)]
          [] pc[x] = "connect" -> [op |-> "connect", oid |-> x, s |-> sock[x], port |-> ServerPort]
          [] pc[x] = "recfrom" -> [op |-> "recfrom", oid |-> x, s |-> sock[x]]
          [] pc[x] = "sendto"  -> [op |-> "sendto", oid |-> x, s |-> sock[x], msg |-> Sending(x)]
          [] OTHER             -> [op |-> "none"]
  BY DEF Asked
<1> QED BY <1>1, <1>2, <1>3, <1>4

(* The programs still ask for what they did, if the client of a            *)
(* connection keeps its port.                                              *)
LEMMA StillAsked ==
  ASSUME PrgaInv, UNCHANGED pvars,
         \A c \in Clients, s \in Servers : Pair(c, s) => sockets'[ports'[ClientPort]].oid = c
  PROVE  \A b \in Programs : Asks(b) => Asked'[b] = Asked[b]
<1> TAKE b \in Programs
<1> HAVE Asks(b)
<1>1. Stays(b) /\ (b \in Servers \/ b \in Clients) /\ n' = n
  BY Roles DEF pvars, Stays
<1>2. CASE pc[b] # "sendto" \/ b \in Clients
  <2>1. pc[b] = "sendto" => Sending(b)' = Sending(b)
    BY <1>1, <1>2 DEF Sending
  <2> QED BY <1>1, <2>1, AskedSame
<1>3. CASE pc[b] = "sendto" /\ b \in Servers
  <2>1. ~Idle_s(b)
    BY <1>3 DEF Idle_s
  <2>2. PICK c \in Clients, s \in Servers : Pair(c, s)
    BY <1>3, <2>1 DEF PrgaInv, ProgramSide, Unlinked, Linked
  <2>3. sockets[ports[ClientPort]].oid = c /\ sockets'[ports'[ClientPort]].oid = c
    BY <2>2, PairFacts DEF PrgaInv, ProgramSide
  <2>4. Sending(b)' = Sending(b)
    BY <1>1, <1>3, <2>3, Roles DEF Sending
  <2> QED BY <1>1, <2>4, AskedSame
<1> QED BY <1>1, <1>2, <1>3

(* What an answer to x must establish, all other programs being as they    *)
(* were.                                                                   *)
LEMMA ServeAssemble ==
  ASSUME PrgaInv, NEW x \in Programs, KernelSide', SocketsTypeOK', UNCHANGED pvars,
         \A b \in Programs \ {x} : Kept(b), \A b \in Programs : Bound(b) => Bound(b)',
         Owned', Local(x)', Unlinked' \/ Linked'
  PROVE  PrgaInv'
<1>1. \A b \in Programs : Local(b)'
  BY KeptFacts DEF PrgaInv, ProgramSide
<1>2. DataTypes'
  BY DEF PrgaInv, DataTypes, pvars
<1> QED BY <1>1, <1>2 DEF PrgaInv, ProgramSide

(* An answer that leaves a connection as it is.                            *)
LEMMA ServeLinks ==
  ASSUME PrgaInv, NEW x \in Programs, Asks(x), Runs(x)', UNCHANGED pvars,
         \A b \in Programs \ {x} : Kept(b), \A b \in Programs : Bound(b) => Bound(b)',
         \A t \in Socket : sockets'[t].socksend = sockets[t].socksend /\ sockets'[t].msg = sockets[t].msg,
         pc[x] # "sendto", pc[x] = "recfrom" => Result(x)' = [msg |-> NULL],
         pc[x] = "connect" => Result(x)' = [ret |-> -1]
  PROVE  Unlinked' \/ Linked'
<1>1. /\ pc' = pc /\ sock' = sock /\ n' = n /\ text' = text
      /\ ~Asks(x)' /\ ~Runs(x) /\ pc[x] # "done"
  BY AskedFacts DEF pvars, Asks, Runs
<1>2. \A b \in Programs \ {x} :
         /\ (Asks(b)' <=> Asks(b)) /\ (Runs(b)' <=> Runs(b)) /\ Result(b)' = Result(b)
         /\ (Idle_s(b)' <=> Idle_s(b)) /\ (Waits(b)' <=> Waits(b))
  BY KeptFacts
<1>3. Idle_s(x) /\ Idle_s(x)' /\ (Waits(x) => Waits(x)')
  BY <1>1 DEF Idle_s, Waits
<1>4. CASE Unlinked
  <2>1. \A s \in Socket : sockets'[s].socksend = -1 /\ sockets'[s].msg = NULL
    BY <1>4 DEF Unlinked
  <2>2. \A s \in Servers : Idle_s(s)'
    BY <1>2, <1>3, <1>4, Roles DEF Unlinked
  <2>3. ASSUME NEW c \in Clients
        PROVE  /\ pc'[c] \notin {"sendto", "sleep", "recfrom"}
               /\ pc'[c] = "connect" /\ Runs(c)' => Result(c)' = [ret |-> -1]
    <3>1. /\ pc[c] \notin {"sendto", "sleep", "recfrom"}
          /\ pc[c] = "connect" /\ Runs(c) => Result(c) = [ret |-> -1]
      BY <1>4 DEF Unlinked
    <3> QED BY <1>1, <1>2, <3>1, Roles
  <2> QED BY <2>1, <2>2, <2>3 DEF Unlinked
<1>5. CASE Linked
  <2>1. PICK c \in Clients, s \in Servers : Pair(c, s) /\ Stage(c, s)
    BY <1>5 DEF Linked
  <2>2. c \in Programs /\ s \in Programs /\ c # s
    BY Roles
  <2>3. /\ Bound(c)' /\ Bound(s)' /\ sock[c] \in Socket /\ sock[s] \in Socket
    BY <2>1, <2>2, HasSocket DEF Pair
  <2>4. Pair(c, s)'
    BY <1>1, <2>1, <2>3 DEF Pair
  <2>5. /\ sockets'[sock'[c]].msg = sockets[sock[c]].msg
        /\ sockets'[sock'[s]].msg = sockets[sock[s]].msg
    BY <1>1, <2>3
  <2>6. Stage(c, s)
    BY <2>1
  <2>7. Stage(c, s)'
    <3>1. CASE x = c
      <4>1. (Asks(s)' <=> Asks(s)) /\ (Runs(s)' <=> Runs(s)) /\ Result(s)' = Result(s) /\ (Idle_s(s)' <=> Idle_s(s))
        BY <1>2, <2>2, <3>1
      <4>2. Waits(c) /\ Waits(c)' /\ ~Runs(c) /\ pc[c] # "done" /\ pc[c] # "sendto"
        BY <1>1, <1>3, <2>6, <3>1 DEF Stage
      <4> QED BY <1>1, <2>5, <2>6, <4>1, <4>2 DEF Stage, Boxes
    <3>2. CASE x = s
      <4>1. (Asks(c)' <=> Asks(c)) /\ (Runs(c)' <=> Runs(c)) /\ Result(c)' = Result(c) /\ (Waits(c)' <=> Waits(c))
        BY <1>2, <2>2, <3>2
      <4>2. Idle_s(s) /\ Idle_s(s)' /\ ~Runs(s) /\ pc[s] # "sendto"
        BY <1>1, <1>3, <3>2
      <4> QED BY <1>1, <2>5, <2>6, <4>1, <4>2 DEF Stage, Boxes
    <3>3. CASE x # c /\ x # s
      <4>1. (Asks(c)' <=> Asks(c)) /\ (Runs(c)' <=> Runs(c)) /\ Result(c)' = Result(c) /\ (Waits(c)' <=> Waits(c))
        BY <1>2, <2>2, <3>3
      <4>2. (Asks(s)' <=> Asks(s)) /\ (Runs(s)' <=> Runs(s)) /\ Result(s)' = Result(s) /\ (Idle_s(s)' <=> Idle_s(s))
        BY <1>2, <2>2, <3>3
      <4> QED BY <1>1, <2>5, <2>6, <4>1, <4>2 DEF Stage, Boxes
    <3> QED BY <3>1, <3>2, <3>3
  <2> QED BY <2>4, <2>7 DEF Linked
<1> QED BY <1>4, <1>5 DEF PrgaInv, ProgramSide

(* There is a socket for a program that asks for its first.                *)
LEMMA SocketsLeft ==
  ASSUME PrgaInv, NEW x \in Programs, Mine(x) = -1
  PROVE  next_socket \in Socket
<1> DEFINE f == [s \in Socket |-> sockets[s].oid]
<1> SUFFICES ASSUME next_socket \notin Socket PROVE FALSE
  OBVIOUS
<1>1. next_socket = MAX_SOCKET + 1 /\ Socket = 0 .. MAX_SOCKET /\ MAX_SOCKET \in Nat
  BY Roles DEF PrgaInv, DataTypes, SocketsTypeOK
<1>2. \A s \in Socket : sockets[s].oid \in Programs /\ Mine(sockets[s].oid) = s
  <2>1. \A s \in Socket : s < next_socket
    BY <1>1
  <2> QED BY <2>1 DEF PrgaInv, ProgramSide, Owned
<1>3. -1 \notin Socket
  BY Roles
<1>4. f \in [Socket -> Programs \ {x}]
  BY <1>2, <1>3
<1>5. \A s, t \in Socket : f[s] = f[t] => s = t
  BY <1>2
<1>6. f \in Injection(Socket, Programs \ {x})
  BY <1>4, <1>5, Fun_IsInj
<1>7. IsFiniteSet(Programs \ {x}) /\ Cardinality(Programs \ {x}) = MAX_ACTIVATIONS - 4
  <2>1. Programs = 3 .. MAX_ACTIVATIONS - 1 /\ x \in 3 .. MAX_ACTIVATIONS - 1
    BY Ids
  <2>2. IsFiniteSet(3 .. MAX_ACTIVATIONS - 1)
        /\ Cardinality(3 .. MAX_ACTIVATIONS - 1) = MAX_ACTIVATIONS - 3
    <3>1. MAX_ACTIVATIONS - 1 \in Int /\ 3 <= MAX_ACTIVATIONS - 1
      BY <2>1, Ids
    <3> QED BY <3>1, Ids, FS_Interval
  <2>3. Cardinality((3 .. MAX_ACTIVATIONS - 1) \ {x}) = Cardinality(3 .. MAX_ACTIVATIONS - 1) - 1
        /\ IsFiniteSet((3 .. MAX_ACTIVATIONS - 1) \ {x})
    BY <2>1, <2>2, FS_RemoveElement
  <2> QED BY <2>1, <2>2, <2>3, Ids
<1>8. IsFiniteSet(Socket) /\ Cardinality(Socket) = MAX_SOCKET + 1
  <2>1. 0 <= MAX_SOCKET /\ MAX_SOCKET \in Int /\ 0 \in Int
    BY <1>1
  <2> QED BY <1>1, <2>1, FS_Interval
<1>9. Cardinality(Socket) <= Cardinality(Programs \ {x})
  BY <1>6, <1>7, FS_Injection
<1> QED BY <1>1, <1>7, <1>8, <1>9, RoomAssumption, Ids

(* What a program has created depends on itself alone.                     *)
LEMMA OwnedStays ==
  ASSUME PrgaInv, next_socket' = next_socket,
         \A s \in Socket : sockets'[s].oid = sockets[s].oid,
         \A s \in Socket : sockets[s] = Off => sockets'[s] = Off,
         \A b \in Programs : Mine(b)' = Mine(b) /\ (Bound(b) => Bound(b)'),
         \A p \in Port : ports'[p] # -1 => ports'[p] = ports[p] \/ \E b \in Programs : PortOf(b) = p /\ Bound(b)'
  PROVE  Owned'
<1>1. Owned /\ next_socket \in 0 .. MAX_SOCKET + 1 /\ Socket = 0 .. MAX_SOCKET /\ MAX_SOCKET \in Nat
  BY Roles DEF PrgaInv, ProgramSide, DataTypes, SocketsTypeOK
<1>2. ASSUME NEW s \in Socket
      PROVE  (IF s < next_socket THEN sockets[s].oid \in Programs /\ Mine(sockets[s].oid) = s
                                 ELSE sockets[s] = Off)'
  <2>1. IF s < next_socket THEN sockets[s].oid \in Programs /\ Mine(sockets[s].oid) = s
                           ELSE sockets[s] = Off
    BY <1>1 DEF Owned
  <2>2. s < next_socket => sockets[s].oid \in Programs /\ Mine(sockets[s].oid)' = s
    <3> SUFFICES ASSUME s < next_socket
                 PROVE  sockets[s].oid \in Programs /\ Mine(sockets[s].oid)' = s
      OBVIOUS
    <3>1. PICK b \in Programs : b = sockets[s].oid
      BY <2>1
    <3>2. Mine(b)' = s /\ sockets'[s].oid = b
      BY <2>1, <3>1
    <3> QED BY <3>1, <3>2
  <2> QED BY <2>1, <2>2
<1>3. ASSUME NEW b \in Programs
      PROVE  (Mine(b) # -1 => Mine(b) \in 0 .. next_socket - 1 /\ sockets[Mine(b)].oid = b)'
  <2>1. Mine(b) # -1 => Mine(b) \in 0 .. next_socket - 1 /\ sockets[Mine(b)].oid = b
    BY <1>1 DEF Owned
  <2>2. Mine(b) # -1 => Mine(b) \in Socket
    BY <1>1, <2>1
  <2> QED BY <2>1, <2>2
<1>4. ASSUME NEW p \in Port
      PROVE  (ports[p] # -1 => \E b \in Programs : PortOf(b) = p /\ Bound(b))'
  <2>1. ports[p] # -1 => \E b \in Programs : PortOf(b) = p /\ Bound(b)
    BY <1>1 DEF Owned
  <2> QED BY <2>1
<1> QED BY <1>2, <1>3, <1>4 DEF Owned

(* A call is refused.                                                      *)
LEMMA RefusedInv ==
  ASSUME PrgaInv, Running(socks), UNCHANGED <<ivars, pvars, sockvars>>,
         NEW x \in Programs, Asks(x), pc[x] \in {"bind", "connect", "recfrom"},
         frame[socks].c1 = [aid |-> x, unique |-> expected_reply[x]],
         NEW ans \in Results, Answer(ans),
         ans = IF pc[x] = "recfrom" THEN [msg |-> NULL] ELSE [ret |-> -1]
  PROVE  PrgaInv'
<1>1. \A b \in Programs : Asks(b) => Asked'[b] = Asked[b]
  BY StillAsked, PairFacts DEF PrgaInv, ProgramSide, sockvars
<1>2. /\ KernelSide' /\ Runs(x)' /\ Result(x)' = ans /\ Stays(x)
      /\ \A b \in Programs \ {x} : Kept(b)
  BY <1>1, AnswerStep
<1>3. sockets' = sockets /\ ports' = ports /\ next_socket' = next_socket /\ pc' = pc /\ sock' = sock /\ n' = n
  BY DEF sockvars, pvars
<1>4. \A b \in Programs : Bound(b)' <=> Bound(b)
  BY <1>3 DEF Bound
<1>5. ASSUME NEW b \in Programs PROVE Mine(b)' = Mine(b)
  <2>1. CASE b = x
    BY <1>3, <2>1 DEF Mine
  <2>2. CASE b # x
    BY <1>2, <2>2, KeptFacts
  <2> QED BY <2>1, <2>2
<1>6. Local(x) /\ pc[x] # "done"
  BY AskedFacts
<1>7. sched_status'[x] = "runnable" /\ ~Asks(x)' /\ sched_status[x] = "sync_block"
  BY <1>2 DEF Runs, Asks
<1>8. Local(x)'
  BY <1>2, <1>3, <1>4, <1>6, <1>7 DEF Local, Late, Early
<1>9. SocketsTypeOK'
  BY DEF PrgaInv, DataTypes, SocketsTypeOK, sockvars
<1>10. Owned'
  BY <1>3, <1>4, <1>5, OwnedStays
<1>11. Unlinked' \/ Linked'
  BY <1>2, <1>3, <1>4, ServeLinks
<1> QED BY <1>2, <1>4, <1>8, <1>9, <1>10, <1>11, ServeAssemble

(* The service makes a socket: no program has it, and the caller had none. *)
LEMMA SocketInv ==
  ASSUME PrgaInv, Running(socks), UNCHANGED <<ivars, pvars>>,
         NEW x \in Programs, Asks(x), pc[x] = "socket",
         frame[socks].c1 = [aid |-> x, unique |-> expected_reply[x]],
         socket(x), Answer([ret |-> next_socket])
  PROVE  PrgaInv'
<1> DEFINE k == next_socket
<1>1. Mine(x) = -1 /\ ~Bound(x) /\ Local(x)
  BY AskedFacts DEF Mine, Bound
<1>2. k \in Socket
  BY <1>1, SocketsLeft
<1>3. /\ Owned /\ SocketsTypeOK /\ Socket = 0 .. MAX_SOCKET /\ MAX_SOCKET \in Nat /\ -1 \notin Socket
  BY Roles DEF PrgaInv, ProgramSide, DataTypes
<1>4. sockets[k] = Off
  <2>1. ~(k < next_socket)
    BY <1>2, <1>3
  <2> QED BY <1>2, <1>3, <2>1 DEF Owned
<1>5. /\ sockets' = [sockets EXCEPT ![k] = [oid |-> x, socksend |-> -1, msg |-> NULL]]
      /\ next_socket' = k + 1 /\ ports' = ports /\ failed' = failed
      /\ pc' = pc /\ sock' = sock /\ n' = n
  <2>1. [Off EXCEPT !.oid = x] = [oid |-> x, socksend |-> -1, msg |-> NULL]
    BY DEF Off
  <2>2. /\ sockets' = [sockets EXCEPT ![k] = [Off EXCEPT !.oid = x]]
        /\ next_socket' = k + 1 /\ ports' = ports /\ failed' = failed
    BY DEF socket
  <2> QED BY <2>1, <2>2 DEF pvars
<1>6. /\ sockets'[k].oid = x
      /\ \A t \in Socket : sockets'[t].socksend = sockets[t].socksend /\ sockets'[t].msg = sockets[t].msg
      /\ \A t \in Socket \ {k} : sockets'[t] = sockets[t]
  BY <1>2, <1>3, <1>4, <1>5 DEF SocketsTypeOK, Off
<1>7. \A b \in Programs : Asks(b) => Asked'[b] = Asked[b]
  <2>1. ASSUME NEW c \in Clients, NEW s \in Servers, Pair(c, s)
        PROVE  sockets'[ports'[ClientPort]].oid = c
    <3>1. /\ ports[ClientPort] = sock[c] /\ sockets[sock[c]].oid = c /\ sock[c] \in Socket
          /\ c \in Programs
      BY <2>1, PairFacts DEF PrgaInv, ProgramSide
    <3>2. sock[c] # k
      BY <1>4, <3>1, Roles DEF Off
    <3> QED BY <1>5, <1>6, <3>1, <3>2
  <2> QED BY <2>1, StillAsked
<1>8. [ret |-> k] \in Results
  BY <1>2 DEF Results
<1> DEFINE ans == [ret |-> k]
<1>9. /\ KernelSide' /\ Runs(x)' /\ Result(x)' = ans /\ Stays(x)
      /\ \A b \in Programs \ {x} : Kept(b)
  <2>1. ans \in Results /\ Answer(ans)
    BY <1>8
  <2> HIDE DEF ans
  <2> QED BY <1>7, <2>1, AnswerStep
<1>10. \A b \in Programs : Bound(b)' <=> Bound(b)
  BY <1>5 DEF Bound
<1>11. sched_status'[x] = "runnable" /\ ~Asks(x)'
  BY <1>9 DEF Runs, Asks
<1>12. Mine(x)' = k /\ \A b \in Programs \ {x} : Mine(b)' = Mine(b)
  <2>1. Mine(x)' = k
    BY <1>5, <1>9, <1>11 DEF Mine
  <2> QED BY <2>1, <1>9, KeptFacts
<1>13. Local(x)'
  <2>1. \E s \in Socket : Result(x)' = [ret |-> s]
    BY <1>2, <1>9
  <2> HIDE DEF ans, k
  <2> QED BY <1>1, <1>5, <1>10, <1>11, <2>1, AskedFacts DEF Local, Late, Early
<1>14. SocketsTypeOK'
  <2>1. k + 1 \in 0 .. MAX_SOCKET + 1
    BY <1>2, <1>3
  <2>2. [oid |-> x, socksend |-> -1, msg |-> NULL]
          \in [oid : Programs \cup {NULL}, socksend : Socket \cup {-1}, msg : Messages \cup {NULL}]
    OBVIOUS
  <2> HIDE DEF k
  <2> QED BY <1>3, <1>5, <2>1, <2>2 DEF SocketsTypeOK
<1>15. Owned'
  <2>1. ASSUME NEW s \in Socket
        PROVE  (IF s < next_socket THEN sockets[s].oid \in Programs /\ Mine(sockets[s].oid) = s
                                   ELSE sockets[s] = Off)'
    <3>1. IF s < next_socket THEN sockets[s].oid \in Programs /\ Mine(sockets[s].oid) = s
                             ELSE sockets[s] = Off
      BY <1>3 DEF Owned
    <3>2. CASE s = k
      <4>1. sockets'[s].oid = x /\ Mine(x)' = s /\ s < next_socket'
        BY <1>2, <1>3, <1>5, <1>6, <1>12, <3>2
      <4> QED BY <4>1
    <3>3. CASE s # k
      <4>1. sockets'[s] = sockets[s] /\ (s < next_socket' <=> s < next_socket)
        BY <1>2, <1>3, <1>5, <1>6, <3>3
      <4>2. s < next_socket => Mine(sockets[s].oid)' = s
        <5> SUFFICES ASSUME s < next_socket PROVE Mine(sockets[s].oid)' = s
          OBVIOUS
        <5>1. PICK b \in Programs : b = sockets[s].oid
          BY <3>1
        <5>2. b # x
          BY <1>1, <1>3, <3>1, <5>1
        <5>3. Mine(b)' = s /\ sockets'[s].oid = b
          BY <1>12, <3>1, <4>1, <5>1, <5>2
        <5> QED BY <5>1, <5>3
      <4> QED BY <3>1, <4>1, <4>2
    <3> QED BY <3>2, <3>3
  <2>2. ASSUME NEW b \in Programs
        PROVE  (Mine(b) # -1 => Mine(b) \in 0 .. next_socket - 1 /\ sockets[Mine(b)].oid = b)'
    <3>1. Mine(b) # -1 => Mine(b) \in 0 .. next_socket - 1 /\ sockets[Mine(b)].oid = b
      BY <1>3 DEF Owned
    <3>2. CASE b = x
      BY <1>2, <1>3, <1>5, <1>6, <1>12, <3>2
    <3>3. CASE b # x
      <4>1. Mine(b)' = Mine(b)
        BY <1>12, <3>3
      <4> SUFFICES ASSUME Mine(b) # -1
                   PROVE  Mine(b)' \in 0 .. next_socket' - 1 /\ sockets'[Mine(b)'].oid = b
        BY <4>1
      <4>2. PICK v : v = Mine(b)
        OBVIOUS
      <4>3. v \in Socket \ {k} /\ v \in 0 .. k /\ sockets[v].oid = b /\ Mine(b)' = v
        BY <1>2, <1>3, <3>1, <4>1, <4>2
      <4>4. sockets'[v] = sockets[v]
        BY <1>6, <4>3
      <4>5. next_socket' - 1 = k
        BY <1>2, <1>3, <1>5
      <4>6. sockets'[v].oid = b
        BY <4>3, <4>4
      <4>7. v \in 0 .. next_socket' - 1
        BY <4>3, <4>5
      <4> QED BY <4>3, <4>6, <4>7
    <3> QED BY <3>2, <3>3
  <2>3. ASSUME NEW p \in Port
        PROVE  (ports[p] # -1 => \E b \in Programs : PortOf(b) = p /\ Bound(b))'
    <3>1. ports[p] # -1 => \E b \in Programs : PortOf(b) = p /\ Bound(b)
      BY <1>3 DEF Owned
    <3> QED BY <3>1, <1>5, <1>10
  <2> QED BY <2>1, <2>2, <2>3 DEF Owned
<1>16. Unlinked' \/ Linked'
  BY <1>6, <1>9, <1>10, ServeLinks
<1> QED BY <1>9, <1>10, <1>13, <1>14, <1>15, <1>16, ServeAssemble

(* The service binds a socket to the port of its program's role.           *)
LEMMA BindInv ==
  ASSUME PrgaInv, Running(socks), UNCHANGED <<ivars, pvars>>,
         NEW x \in Programs, Asks(x), pc[x] = "bind",
         frame[socks].c1 = [aid |-> x, unique |-> expected_reply[x]],
         bind(sock[x], PortOf(x)), Answer([ret |-> 0])
  PROVE  PrgaInv'
<1> DEFINE p == PortOf(x)
           ans == [ret |-> 0]
<1>1. /\ ports' = [ports EXCEPT ![p] = sock[x]] /\ ports[p] = -1 /\ failed' = failed
      /\ sockets' = sockets /\ next_socket' = next_socket
      /\ pc' = pc /\ sock' = sock /\ n' = n
  BY DEF bind, CanBind, pvars
<1>2. Local(x) /\ pc[x] # "done" /\ sock[x] # -1 /\ sock[x] \in Socket /\ p \in Port
  <2>1. Local(x) /\ pc[x] # "done"
    BY AskedFacts
  <2>2. sock[x] # -1
    BY <2>1 DEF Local
  <2>3. sock[x] \in Socket
    BY <2>2, Types
  <2>4. p \in Port
    BY Roles
  <2> QED BY <2>1, <2>2, <2>3, <2>4
<1>3. SocketsTypeOK /\ ports \in [Port -> Socket \cup {-1}]
  BY DEF PrgaInv, DataTypes, SocketsTypeOK
<1>4. ports'[p] = sock[x] /\ \A o \in Port \ {p} : ports'[o] = ports[o]
  BY <1>1, <1>2, <1>3
<1>5. Bound(x)'
  BY <1>1, <1>2, <1>4 DEF Bound
<1>6. ASSUME NEW b \in Programs, Bound(b) PROVE Bound(b)'
  <2>1. ports[PortOf(b)] = sock[b] /\ sock[b] # -1 /\ PortOf(b) \in Port
    BY <1>6, Roles DEF Bound
  <2>2. PortOf(b) # p
    BY <1>1, <2>1
  <2>3. ports'[PortOf(b)] = sock'[b]
    BY <1>1, <1>4, <2>1, <2>2
  <2> QED BY <1>1, <1>6, <2>1, <2>3 DEF Bound
<1>7. \A b \in Programs : Asks(b) => Asked'[b] = Asked[b]
  <2>1. ASSUME NEW c \in Clients, NEW s \in Servers, Pair(c, s)
        PROVE  sockets'[ports'[ClientPort]].oid = c
    <3>1. ports[ClientPort] = sock[c] /\ sockets[sock[c]].oid = c /\ sock[c] \in Socket
      BY <2>1, PairFacts DEF PrgaInv, ProgramSide
    <3>2. ClientPort # p /\ ClientPort \in Port
      BY <1>1, <3>1, Roles
    <3> QED BY <1>1, <1>4, <3>1, <3>2
  <2> QED BY <2>1, StillAsked
<1>8. /\ KernelSide' /\ Runs(x)' /\ Result(x)' = ans /\ Stays(x)
      /\ \A b \in Programs \ {x} : Kept(b)
  <2>1. ans \in Results /\ Answer(ans)
    <3>1. 0 \in Socket
      BY Roles
    <3> QED BY <3>1 DEF Results
  <2> HIDE DEF ans
  <2> QED BY <1>7, <2>1, AnswerStep
<1>9. ASSUME NEW b \in Programs PROVE Mine(b)' = Mine(b)
  <2>1. CASE b = x
    BY <1>1, <2>1 DEF Mine
  <2>2. CASE b # x
    BY <1>8, <2>2, KeptFacts
  <2> QED BY <2>1, <2>2
<1>10. sched_status'[x] = "runnable" /\ ~Asks(x)'
  BY <1>8 DEF Runs, Asks
<1>11. Local(x)'
  BY <1>1, <1>2, <1>5, <1>8, <1>10 DEF Local, Late, Early
<1>12. SocketsTypeOK'
  <2> HIDE DEF p
  <2> QED BY <1>1, <1>2, <1>3 DEF SocketsTypeOK
<1>13. Owned'
  <2>1. \A o \in Port : ports'[o] # -1 =>
          ports'[o] = ports[o] \/ \E b \in Programs : PortOf(b) = o /\ Bound(b)'
    BY <1>4, <1>5
  <2> QED BY <1>1, <1>6, <1>9, <2>1, OwnedStays
<1>14. Unlinked' \/ Linked'
  BY <1>1, <1>6, <1>8, ServeLinks
<1> QED BY <1>6, <1>8, <1>11, <1>12, <1>13, <1>14, ServeAssemble

(* The service connects a client to the server: nobody was connected, and  *)
(* both boxes are empty.                                                   *)
LEMMA ConnectInv ==
  ASSUME PrgaInv, Running(socks), UNCHANGED <<ivars, pvars>>,
         NEW x \in Programs, Asks(x), pc[x] = "connect",
         frame[socks].c1 = [aid |-> x, unique |-> expected_reply[x]],
         connect(sock[x], ServerPort), Answer([ret |-> 0])
  PROVE  PrgaInv'
<1> DEFINE i == sock[x]
           j == ports[ServerPort]
           ans == [ret |-> 0]
<1>1. /\ Local(x) /\ pc[x] # "done" /\ x \in Clients /\ Bound(x) /\ ~Runs(x) /\ x \notin Servers
  BY AskedFacts, Roles DEF Local, Late
<1>2. Unlinked
  <2> SUFFICES ASSUME Linked PROVE FALSE
    BY DEF PrgaInv, ProgramSide
  <2>1. PICK c \in Clients, s \in Servers : Pair(c, s) /\ Stage(c, s)
    BY DEF Linked
  <2>2. c = x
    BY <1>1, <2>1, InPair DEF Late
  <2> QED BY <1>1, <2>1, <2>2 DEF Stage, Waits
<1>3. ports[ServerPort] # -1 /\ ports[ServerPort] \in Socket
  BY Roles DEF connect, CanConnect, PrgaInv, DataTypes, SocketsTypeOK
<1>4. PICK s \in Programs : PortOf(s) = ServerPort /\ Bound(s)
  BY <1>3, Roles DEF PrgaInv, ProgramSide, Owned
<1>5. s \in Servers /\ s # x /\ sock[s] = j /\ i \in Socket /\ j \in Socket
  <2>1. s \in Servers
    BY <1>4, Roles
  <2> QED BY <1>1, <1>3, <1>4, <2>1, HasSocket DEF Bound
<1>6. i # j
  BY <1>1, <1>4, <1>5, OneOwner DEF PrgaInv, ProgramSide
<1>7. sockets[i].oid = x /\ sockets[j].oid = s
  <2>1. Mine(x) = i /\ Mine(s) = j /\ i # -1 /\ j # -1
    BY <1>1, <1>3, <1>4, <1>5, HasSocket, Roles
  <2> QED BY <2>1 DEF PrgaInv, ProgramSide, Owned
<1>8. /\ sockets' = [[sockets EXCEPT ![j].socksend = i] EXCEPT ![i].socksend = j]
      /\ ports' = ports /\ next_socket' = next_socket /\ failed' = failed
      /\ pc' = pc /\ sock' = sock /\ n' = n
  BY DEF connect, pvars
<1>9. /\ SocketsTypeOK
      /\ sockets \in [Socket -> [oid : Programs \cup {NULL}, socksend : Socket \cup {-1},
                                 msg : Messages \cup {NULL}]]
  BY DEF PrgaInv, DataTypes, SocketsTypeOK
<1> HIDE DEF i, j
<1>10. /\ sockets'[i] = [oid |-> sockets[i].oid, socksend |-> j, msg |-> sockets[i].msg]
       /\ sockets'[j] = [oid |-> sockets[j].oid, socksend |-> i, msg |-> sockets[j].msg]
       /\ \A t \in Socket \ {i, j} : sockets'[t] = sockets[t]
       /\ sockets' \in [Socket -> [oid : Programs \cup {NULL}, socksend : Socket \cup {-1},
                                   msg : Messages \cup {NULL}]]
  BY <1>5, <1>6, <1>8, <1>9
<1>11. /\ \A t \in Socket : sockets'[t].oid = sockets[t].oid /\ sockets'[t].msg = sockets[t].msg
       /\ sockets'[i].socksend = j /\ sockets'[j].socksend = i
  BY <1>10
<1>12. \A b \in Programs : Asks(b) => Asked'[b] = Asked[b]
  <2>1. ASSUME NEW c \in Clients, NEW d \in Servers, Pair(c, d)
        PROVE  sockets'[ports'[ClientPort]].oid = c
    <3>1. ports[ClientPort] = sock[c] /\ sockets[sock[c]].oid = c /\ sock[c] \in Socket
      BY <2>1, PairFacts DEF PrgaInv, ProgramSide
    <3> QED BY <1>8, <1>11, <3>1
  <2> QED BY <2>1, StillAsked
<1>13. /\ KernelSide' /\ Runs(x)' /\ Result(x)' = ans /\ Stays(x)
       /\ \A b \in Programs \ {x} : Kept(b)
  <2>1. ans \in Results /\ Answer(ans)
    <3>1. 0 \in Socket
      BY Roles
    <3> QED BY <3>1 DEF Results
  <2> HIDE DEF ans
  <2> QED BY <1>12, <2>1, AnswerStep
<1>14. \A b \in Programs : Bound(b)' <=> Bound(b)
  BY <1>8 DEF Bound
<1>15. ASSUME NEW b \in Programs PROVE Mine(b)' = Mine(b)
  <2>1. CASE b = x
    BY <1>8, <2>1 DEF Mine
  <2>2. CASE b # x
    BY <1>13, <2>2, KeptFacts
  <2> QED BY <2>1, <2>2
<1>16. sched_status'[x] = "runnable" /\ ~Asks(x)'
  BY <1>13 DEF Runs, Asks
<1>17. Local(x)'
  BY <1>1, <1>8, <1>13, <1>14, <1>16 DEF Local, Late, Early
<1>18. SocketsTypeOK'
  BY <1>8, <1>9, <1>10 DEF SocketsTypeOK
<1>19. Owned'
  <2>1. \A t \in Socket : sockets[t] = Off => sockets'[t] = Off
    <3>1. sockets[i] # Off /\ sockets[j] # Off
      BY <1>7, Roles DEF Off
    <3> QED BY <3>1, <1>10
  <2> QED BY <1>8, <1>11, <1>14, <1>15, <2>1, OwnedStays
<1>20. Linked'
  <2>1. Idle_s(s)' /\ sockets[i].msg = NULL /\ sockets[j].msg = NULL
    <3>1. Idle_s(s)
      BY <1>2, <1>5 DEF Unlinked
    <3> QED BY <1>2, <1>5, <1>13, <3>1, KeptFacts DEF Unlinked
  <2>2. Pair(x, s)'
    <3>1. \A t \in Socket \ {i, j} : sockets'[t].socksend = -1 /\ sockets'[t].msg = NULL
      BY <1>2, <1>10 DEF Unlinked
    <3>2. sock'[x] = i /\ sock'[s] = j
      BY <1>5, <1>8 DEF i
    <3> QED BY <1>1, <1>4, <1>11, <1>14, <3>1, <3>2 DEF Pair
  <2>3. Boxes(x, s, NULL, NULL)'
    BY <1>5, <1>8, <1>11, <2>1 DEF Boxes, i
  <2>4. Stage(x, s)'
    BY <1>8, <1>13, <2>1, <2>3 DEF Stage
  <2> QED BY <1>1, <1>5, <2>2, <2>4 DEF Linked
<1> QED BY <1>13, <1>14, <1>17, <1>18, <1>19, <1>20, ServeAssemble

(* The box of one of the connected programs changes, and the service       *)
(* answers one of them.                                                    *)
Refilled(j, m) == /\ sockets' = [sockets EXCEPT ![j].msg = m]
                  /\ UNCHANGED <<ports, next_socket, failed>>

LEMMA BoxStep ==
  ASSUME PrgaInv, Running(socks), UNCHANGED <<ivars, pvars>>,
         NEW c \in Clients, NEW s \in Servers, Pair(c, s),
         NEW x \in Programs, Asks(x), x = c \/ x = s, pc[x] \in {"recfrom", "sendto"},
         frame[socks].c1 = [aid |-> x, unique |-> expected_reply[x]],
         NEW j \in Socket, j = sock[c] \/ j = sock[s],
         NEW v, v \in Messages \cup {NULL}, Refilled(j, v),
         NEW ans \in Results, Answer(ans),
         pc[x] = "sendto" => ans = [ret |-> 0],
         pc[x] = "recfrom" => \E m \in Messages \cup {NULL} : ans = [msg |-> m]
  PROVE  /\ Runs(x)' /\ ~Asks(x)' /\ Result(x)' = ans /\ pc' = pc /\ sock' = sock /\ n' = n
         /\ \A b \in Programs \ {x} : Kept(b)
         /\ sockets'[j].msg = v /\ \A t \in Socket \ {j} : sockets'[t].msg = sockets[t].msg
         /\ Stage(c, s)' => PrgaInv'
<1>1. /\ pc' = pc /\ sock' = sock /\ n' = n
      /\ sockets' = [sockets EXCEPT ![j].msg = v]
      /\ ports' = ports /\ next_socket' = next_socket /\ failed' = failed
  BY DEF pvars, Refilled
<1>2. /\ sock[c] \in Socket /\ sock[s] \in Socket /\ ports[ClientPort] = sock[c]
      /\ sockets[sock[c]].oid = c /\ sockets[sock[s]].oid = s
      /\ c \in Programs /\ s \in Programs
  BY PairFacts DEF PrgaInv, ProgramSide
<1>3. sockets[j].oid # NULL
  BY <1>2, Roles
<1>4. SocketsTypeOK
      /\ sockets \in [Socket -> [oid : Programs \cup {NULL}, socksend : Socket \cup {-1},
                                 msg : Messages \cup {NULL}]]
  BY DEF PrgaInv, DataTypes, SocketsTypeOK
<1>5. /\ sockets'[j].msg = v
      /\ \A t \in Socket \ {j} : sockets'[t] = sockets[t]
      /\ \A t \in Socket : sockets'[t].oid = sockets[t].oid /\ sockets'[t].socksend = sockets[t].socksend
      /\ sockets' \in [Socket -> [oid : Programs \cup {NULL}, socksend : Socket \cup {-1},
                                  msg : Messages \cup {NULL}]]
  BY <1>1, <1>4
<1>6. \A b \in Programs : Asks(b) => Asked'[b] = Asked[b]
  <2>1. ASSUME NEW d \in Clients, NEW e \in Servers, Pair(d, e)
        PROVE  sockets'[ports'[ClientPort]].oid = d
    <3>1. ports[ClientPort] = sock[d] /\ sockets[sock[d]].oid = d /\ sock[d] \in Socket
      BY <2>1, PairFacts DEF PrgaInv, ProgramSide
    <3> QED BY <1>1, <1>5, <3>1
  <2> QED BY <2>1, StillAsked
<1>7. /\ KernelSide' /\ Runs(x)' /\ Result(x)' = ans /\ Stays(x)
      /\ \A b \in Programs \ {x} : Kept(b)
  BY <1>3, <1>6, AnswerStep
<1>8. \A b \in Programs : Bound(b)' <=> Bound(b)
  BY <1>1 DEF Bound
<1>9. ASSUME NEW b \in Programs PROVE Mine(b)' = Mine(b)
  <2>1. CASE b = x
    BY <1>1, <2>1 DEF Mine
  <2>2. CASE b # x
    BY <1>7, <2>2, KeptFacts
  <2> QED BY <2>1, <2>2
<1>10. sched_status'[x] = "runnable" /\ ~Asks(x)'
  BY <1>7 DEF Runs, Asks
<1>11. Local(x) /\ pc[x] # "done"
  BY <1>3, AskedFacts
<1>12. Local(x)'
  BY <1>1, <1>3, <1>7, <1>8, <1>10, <1>11 DEF Local, Late, Early
<1>13. SocketsTypeOK'
  BY <1>1, <1>4, <1>5 DEF SocketsTypeOK
<1>14. Owned'
  <2>1. \A t \in Socket : sockets[t] = Off => sockets'[t] = Off
    <3>1. sockets[j] # Off
      BY <1>3 DEF Off
    <3> QED BY <3>1, <1>5
  <2> QED BY <1>1, <1>5, <1>8, <1>9, <2>1, OwnedStays
<1>15. Pair(c, s)'
  <2>1. \A t \in Socket \ {sock[c], sock[s]} : sockets'[t].socksend = -1 /\ sockets'[t].msg = NULL
    BY <1>5 DEF Pair
  <2> QED BY <1>1, <1>2, <1>5, <1>8, <2>1 DEF Pair
<1>16. ASSUME Stage(c, s)' PROVE PrgaInv'
  <2>1. Linked'
    BY <1>15, <1>16 DEF Linked
  <2> QED BY <1>3, <1>7, <1>8, <1>12, <1>13, <1>14, <2>1, ServeAssemble
<1> QED BY <1>1, <1>5, <1>7, <1>10, <1>16

(* A full box, or a program that sends, is that of a connection.           *)
LEMMA LinkOf ==
  ASSUME PrgaInv, NEW x \in Programs, Asks(x),
         pc[x] = "sendto" \/ (pc[x] = "recfrom" /\ sockets[sock[x]].msg # NULL)
  PROVE  \E c \in Clients, s \in Servers : Pair(c, s) /\ Stage(c, s) /\ x \in {c, s}
<1>1. Local(x) /\ Bound(x)
  BY AskedFacts DEF Local, Late
<1>2. sock[x] \in Socket
  BY <1>1, HasSocket
<1>3. Linked
  <2> SUFFICES ASSUME Unlinked PROVE FALSE
    BY DEF PrgaInv, ProgramSide
  <2> QED BY <1>2, Roles DEF Unlinked, Idle_s
<1>4. PICK c \in Clients, s \in Servers : Pair(c, s) /\ Stage(c, s)
  BY <1>3 DEF Linked
<1>5. x \in {c, s}
  BY <1>4, InPair DEF Late
<1> QED BY <1>4, <1>5

(* The service takes the message out of the box of a connected program and *)
(* answers with it.                                                        *)
LEMMA RecfromInv ==
  ASSUME PrgaInv, Running(socks), UNCHANGED <<ivars, pvars>>,
         NEW x \in Programs, Asks(x), pc[x] = "recfrom",
         frame[socks].c1 = [aid |-> x, unique |-> expected_reply[x]],
         recfrom(x, sock[x]), Answer([msg |-> sockets[sock[x]].msg])
  PROVE  PrgaInv'
<1> DEFINE ans == [msg |-> sockets[sock[x]].msg]
<1>1. /\ sockets[sock[x]].msg # NULL
      /\ sockets' = [sockets EXCEPT ![sock[x]].msg = NULL]
      /\ UNCHANGED <<ports, next_socket, failed>> /\ text' = text
  BY DEF recfrom, CanReceive, pvars
<1>2. PICK c \in Clients, s \in Servers : Pair(c, s) /\ Stage(c, s) /\ x \in {c, s}
  BY <1>1, LinkOf
<1>3. /\ sock[c] \in Socket /\ sock[s] \in Socket /\ sock[c] # sock[s] /\ c # s
      /\ c \in Programs /\ s \in Programs
  BY <1>2, PairFacts DEF PrgaInv, ProgramSide
<1>4. sockets[sock[x]].msg \in Messages
  <2>1. \A t \in Socket : sockets[t].msg \in Messages \cup {NULL}
    BY DEF PrgaInv, DataTypes, SocketsTypeOK
  <2> QED BY <1>1, <1>2, <1>3, <2>1
<1>5. /\ ans \in Results /\ Answer(ans) /\ sock[x] \in {sock[c], sock[s]}
      /\ \E m \in Messages \cup {NULL} : ans = [msg |-> m]
  BY <1>2, <1>4 DEF Results
<1>6. NULL \in Messages \cup {NULL} /\ ~Runs(x)
  BY AskedFacts
<1> HIDE DEF ans
<1>7. /\ Runs(x)' /\ ~Asks(x)' /\ Result(x)' = ans /\ pc' = pc /\ sock' = sock /\ n' = n
      /\ \A b \in Programs \ {x} : Kept(b)
      /\ sockets'[sock[x]].msg = NULL
      /\ \A t \in Socket \ {sock[x]} : sockets'[t].msg = sockets[t].msg
      /\ Stage(c, s)' => PrgaInv'
  <2>1. /\ sock[x] \in Socket /\ (sock[x] = sock[c] \/ sock[x] = sock[s]) /\ (x = c \/ x = s)
        /\ pc[x] \in {"recfrom", "sendto"} /\ pc[x] # "sendto" /\ NULL \in Messages \cup {NULL}
    BY <1>2, <1>3
  <2>2. Refilled(sock[x], NULL)
    BY <1>1 DEF Refilled
  <2> QED BY <1>2, <1>5, <2>1, <2>2, BoxStep
<1>8. CASE x = s
  <2>1. /\ Waits(c) /\ Boxes(c, s, <<c, n[c]>>, NULL) /\ text[<<c, n[c]>>] = "lower"
    BY <1>1, <1>2, <1>6, <1>8 DEF Stage, Boxes
  <2>2. Waits(c)'
    BY <1>3, <1>7, <1>8, <2>1, KeptFacts
  <2>3. Boxes(c, s, NULL, NULL)'
    BY <1>3, <1>7, <1>8, <2>1 DEF Boxes
  <2>4. Result(s)' = [msg |-> <<c, n'[c]>>]
    BY <1>7, <1>8, <2>1 DEF Boxes, ans
  <2>5. Stage(c, s)'
    BY <1>1, <1>7, <1>8, <2>1, <2>2, <2>3, <2>4 DEF Stage
  <2> QED BY <1>7, <2>5
<1>9. CASE x = c
  <2>1. /\ Idle_s(s) /\ Boxes(c, s, NULL, <<c, n[c]>>) /\ text[<<c, n[c]>>] = "upper"
    BY <1>1, <1>2, <1>6, <1>9 DEF Stage, Boxes
  <2>2. Idle_s(s)'
    BY <1>3, <1>7, <1>9, <2>1, KeptFacts
  <2>3. Boxes(c, s, NULL, NULL)'
    BY <1>3, <1>7, <1>9, <2>1 DEF Boxes
  <2>4. Result(c)' = [msg |-> <<c, n'[c]>>]
    BY <1>7, <1>9, <2>1 DEF Boxes, ans
  <2>5. Stage(c, s)'
    BY <1>1, <1>7, <1>9, <2>1, <2>2, <2>3, <2>4 DEF Stage
  <2> QED BY <1>7, <2>5
<1> QED BY <1>2, <1>8, <1>9

(* A program that sends can.                                               *)
LEMMA SendFacts ==
  ASSUME PrgaInv, NEW c \in Clients, NEW s \in Servers, Pair(c, s), Stage(c, s),
         NEW x \in {c, s}, Asks(x), pc[x] = "sendto"
  PROVE  /\ CanSend(x, sock[x]) /\ Boxes(c, s, NULL, NULL)
         /\ Sending(x) = <<c, n[c]>> /\ <<c, n[c]>> \in Messages
         /\ sockets[sock[x]].socksend = (IF x = c THEN sock[s] ELSE sock[c])
<1>1. /\ sock[c] \in Socket /\ sock[s] \in Socket /\ sock[c] # sock[s] /\ c # s
      /\ sockets[sock[c]].oid = c /\ sockets[sock[s]].oid = s
      /\ sockets[ports[ClientPort]].oid = c
      /\ c \in Programs /\ s \in Programs
  BY PairFacts DEF PrgaInv, ProgramSide
<1>2. ~Runs(x)
  BY <1>1, AskedFacts
<1>3. Boxes(c, s, NULL, NULL) /\ pc[c] # "done"
  BY <1>1, <1>2 DEF Stage, Waits, Idle_s
<1>4. <<c, n[c]>> \in Messages
  BY <1>3, MessageOf
<1>5. Sending(x) = <<c, n[c]>>
  BY <1>1, Roles DEF Sending
<1>6. sockets[sock[c]].socksend = sock[s] /\ sockets[sock[s]].socksend = sock[c]
  BY DEF Pair
<1>7. CanSend(x, sock[x])
  BY <1>1, <1>3, <1>6, Roles DEF CanSend, On, Boxes
<1> QED BY <1>1, <1>3, <1>4, <1>5, <1>6, <1>7

(* The service puts the message into the other box.                        *)
LEMMA SendtoInv ==
  ASSUME PrgaInv, Running(socks), UNCHANGED <<ivars, pvars>>,
         NEW x \in Programs, Asks(x), pc[x] = "sendto",
         frame[socks].c1 = [aid |-> x, unique |-> expected_reply[x]],
         sendto(x, sock[x], Sending(x)), Answer([ret |-> 0])
  PROVE  PrgaInv'
<1> DEFINE ans == [ret |-> 0]
           j == sockets[sock[x]].socksend
           v == Sending(x)
<1>1. /\ sockets' = [sockets EXCEPT ![j].msg = v]
      /\ UNCHANGED <<ports, next_socket, failed>> /\ text' = text
  BY DEF sendto, pvars
<1>2. PICK c \in Clients, s \in Servers : Pair(c, s) /\ Stage(c, s) /\ x \in {c, s}
  BY LinkOf
<1>3. /\ sock[c] \in Socket /\ sock[s] \in Socket /\ sock[c] # sock[s] /\ c # s
      /\ c \in Programs /\ s \in Programs
  BY <1>2, PairFacts DEF PrgaInv, ProgramSide
<1>4. /\ Boxes(c, s, NULL, NULL) /\ v = <<c, n[c]>> /\ v \in Messages
      /\ j = IF x = c THEN sock[s] ELSE sock[c]
  BY <1>2, SendFacts
<1>5. ans \in Results /\ Answer(ans) /\ ans = [ret |-> 0] /\ ~Runs(x)
  <2>1. 0 \in Socket
    BY Roles
  <2> QED BY <2>1, AskedFacts DEF Results
<1> HIDE DEF ans, j, v
<1>6. j \in {sock[c], sock[s]} /\ v \in Messages \cup {NULL}
  BY <1>4
<1>7. /\ Runs(x)' /\ ~Asks(x)' /\ Result(x)' = ans /\ pc' = pc /\ sock' = sock /\ n' = n
      /\ \A b \in Programs \ {x} : Kept(b)
      /\ sockets'[j].msg = v /\ \A t \in Socket \ {j} : sockets'[t].msg = sockets[t].msg
      /\ Stage(c, s)' => PrgaInv'
  <2>1. /\ j \in Socket /\ (x = c \/ x = s)
        /\ pc[x] \in {"recfrom", "sendto"} /\ pc[x] # "recfrom"
    BY <1>2, <1>3, <1>6
  <2>2. Refilled(j, v)
    BY <1>1 DEF Refilled
  <2> QED BY <1>2, <1>5, <1>6, <2>1, <2>2, BoxStep
<1>8. CASE x = c
  <2>1. Idle_s(s) /\ text[<<c, n[c]>>] = "lower"
    BY <1>2, <1>5, <1>8 DEF Stage, Waits
  <2>2. Idle_s(s)'
    BY <1>3, <1>7, <1>8, <2>1, KeptFacts
  <2>3. sockets'[sock'[s]].msg = <<c, n'[c]>> /\ sockets'[sock'[c]].msg = NULL
    BY <1>3, <1>4, <1>7, <1>8 DEF Boxes
  <2>4. Waits(c)'
    BY <1>7, <1>8 DEF Waits
  <2>5. Stage(c, s)'
    BY <1>1, <1>7, <2>1, <2>2, <2>3, <2>4 DEF Stage, Boxes
  <2> QED BY <1>7, <2>5
<1>9. CASE x = s
  <2>1. Waits(c) /\ text[<<c, n[c]>>] = "upper"
    BY <1>2, <1>5, <1>9 DEF Stage, Idle_s
  <2>2. Waits(c)'
    BY <1>3, <1>7, <1>9, <2>1, KeptFacts
  <2>3. sockets'[sock'[s]].msg = NULL /\ sockets'[sock'[c]].msg = <<c, n'[c]>>
    BY <1>3, <1>4, <1>7, <1>9 DEF Boxes
  <2>4. Idle_s(s)'
    BY <1>7, <1>9 DEF Idle_s
  <2>5. Stage(c, s)'
    BY <1>1, <1>7, <2>1, <2>2, <2>3, <2>4 DEF Stage, Boxes
  <2> QED BY <1>7, <2>5
<1> QED BY <1>2, <1>8, <1>9

(* The service does what it is asked for, and never refuses sendto or      *)
(* stops.                                                                  *)
LEMMA ServiceInv ==
  ASSUME PrgaInv, Running(socks), SocketsStep
  PROVE  PrgaInv'
<1>1. SocketsMethod /\ UNCHANGED <<ivars, pvars>>
  BY DEF SocketsStep, ivars, pvars
<1>2. PICK x \in Programs : /\ Asks(x) /\ frame[socks].v0 = Asked[x]
                            /\ frame[socks].c1 = [aid |-> x, unique |-> expected_reply[x]]
  BY Served
<1> DEFINE r == frame[socks].v0
<1>3. /\ r.op = pc[x] /\ Local(x)
      /\ pc[x] = "socket"  => r = [op |-> "socket", oid |-> x]
      /\ pc[x] = "bind"    => r = [op |-> "bind", oid |-> x, s |-> sock[x], port |-> PortOf(x)]
      /\ pc[x] = "connect" => r = [op |-> "connect", oid |-> x, s |-> sock[x], port |-> ServerPort]
      /\ pc[x] = "recfrom" => r = [op |-> "recfrom", oid |-> x, s |-> sock[x]]
      /\ pc[x] = "sendto"  => r = [op |-> "sendto", oid |-> x, s |-> sock[x], msg |-> Sending(x)]
  BY <1>2, AskedFacts
<1>4. /\ pc[x] \in {"socket", "bind", "connect", "recfrom", "sendto"}
  BY <1>2, <1>3 DEF Local
<1>5. \A op : Serves(op) <=> op = pc[x]
  BY <1>3 DEF Serves
<1>6. [ret |-> -1] \in Results /\ [msg |-> NULL] \in Results
  BY DEF Results
<1>7. CASE pc[x] = "socket"
  <2>1. r.oid = x
    BY <1>3, <1>7
  <2>2. next_socket \in 0 .. MAX_SOCKET /\ MAX_SOCKET \in Nat
    BY <1>2, <1>7, SocketsLeft, Roles DEF Mine
  <2>3. IF next_socket > MAX_SOCKET THEN UNCHANGED sockvars /\ user_fault
        ELSE socket(r.oid) /\ Answer([ret |-> next_socket])
    BY <1>1, <1>5, <1>7 DEF SocketsMethod
  <2>4. socket(x) /\ Answer([ret |-> next_socket])
    BY <2>1, <2>2, <2>3
  <2> QED BY <1>1, <1>2, <1>7, <2>4, SocketInv
<1>8. CASE pc[x] = "bind"
  <2>1. r.s = sock[x] /\ r.port = PortOf(x)
    BY <1>3, <1>8
  <2>2. Attempt(CanBind(r.s, r.port), bind(r.s, r.port), [ret |-> 0], [ret |-> -1])
    BY <1>1, <1>5, <1>8 DEF SocketsMethod
  <2>3. \/ bind(sock[x], PortOf(x)) /\ Answer([ret |-> 0])
        \/ UNCHANGED sockvars /\ Answer([ret |-> -1])
    BY <2>1, <2>2 DEF Attempt
  <2>4. CASE bind(sock[x], PortOf(x)) /\ Answer([ret |-> 0])
    BY <1>1, <1>2, <1>8, <2>4, BindInv
  <2>5. CASE UNCHANGED sockvars /\ Answer([ret |-> -1])
    <3> DEFINE ans == [ret |-> -1]
    <3>1. ans = IF pc[x] = "recfrom" THEN [msg |-> NULL] ELSE [ret |-> -1]
      BY <1>8
    <3>2. Answer(ans) /\ ans \in Results
      BY <1>6, <2>5
    <3> HIDE DEF ans
    <3> QED BY <1>1, <1>2, <1>8, <2>5, <3>1, <3>2, RefusedInv
  <2> QED BY <2>3, <2>4, <2>5
<1>9. CASE pc[x] = "connect"
  <2>1. r.s = sock[x] /\ r.port = ServerPort
    BY <1>3, <1>9
  <2>2. Attempt(CanConnect(r.s, r.port), connect(r.s, r.port), [ret |-> 0], [ret |-> -1])
    BY <1>1, <1>5, <1>9 DEF SocketsMethod
  <2>3. \/ connect(sock[x], ServerPort) /\ Answer([ret |-> 0])
        \/ UNCHANGED sockvars /\ Answer([ret |-> -1])
    BY <2>1, <2>2 DEF Attempt
  <2>4. CASE connect(sock[x], ServerPort) /\ Answer([ret |-> 0])
    BY <1>1, <1>2, <1>9, <2>4, ConnectInv
  <2>5. CASE UNCHANGED sockvars /\ Answer([ret |-> -1])
    <3> DEFINE ans == [ret |-> -1]
    <3>1. ans = IF pc[x] = "recfrom" THEN [msg |-> NULL] ELSE [ret |-> -1]
      BY <1>9
    <3>2. Answer(ans) /\ ans \in Results
      BY <1>6, <2>5
    <3> HIDE DEF ans
    <3> QED BY <1>1, <1>2, <1>9, <2>5, <3>1, <3>2, RefusedInv
  <2> QED BY <2>3, <2>4, <2>5
<1>10. CASE pc[x] = "recfrom"
  <2>1. r.s = sock[x] /\ r.oid = x
    BY <1>3, <1>10
  <2>2. Attempt(CanReceive(r.oid, r.s), recfrom(r.oid, r.s),
                [msg |-> sockets[r.s].msg], [msg |-> NULL])
    BY <1>1, <1>5, <1>10 DEF SocketsMethod
  <2>3. \/ recfrom(x, sock[x]) /\ Answer([msg |-> sockets[sock[x]].msg])
        \/ UNCHANGED sockvars /\ Answer([msg |-> NULL])
    BY <2>1, <2>2 DEF Attempt
  <2>4. CASE recfrom(x, sock[x]) /\ Answer([msg |-> sockets[sock[x]].msg])
    BY <1>1, <1>2, <1>10, <2>4, RecfromInv
  <2>5. CASE UNCHANGED sockvars /\ Answer([msg |-> NULL])
    <3> DEFINE ans == [msg |-> NULL]
    <3>1. ans = IF pc[x] = "recfrom" THEN [msg |-> NULL] ELSE [ret |-> -1]
      BY <1>10
    <3>2. Answer(ans) /\ ans \in Results
      BY <1>6, <2>5
    <3> HIDE DEF ans
    <3> QED BY <1>1, <1>2, <1>10, <2>5, <3>1, <3>2, RefusedInv
  <2> QED BY <2>3, <2>4, <2>5
<1>11. CASE pc[x] = "sendto"
  <2>1. r.s = sock[x] /\ r.oid = x /\ r.msg = Sending(x)
    BY <1>3, <1>11
  <2>2. Attempt(CanSend(r.oid, r.s), sendto(r.oid, r.s, r.msg), [ret |-> 0], [ret |-> -1])
    BY <1>1, <1>5, <1>11 DEF SocketsMethod
  <2>3. CanSend(x, sock[x])
    BY <1>2, <1>11, LinkOf, SendFacts
  <2>4. sendto(x, sock[x], Sending(x)) /\ Answer([ret |-> 0])
    BY <2>1, <2>2, <2>3 DEF Attempt
  <2> QED BY <1>1, <1>2, <1>11, <2>4, SendtoInv
<1> QED BY <1>4, <1>7, <1>8, <1>9, <1>10, <1>11

----------------------------------------------------------------------------
(* Steps that change neither a program nor the service.                    *)
LEMMA QuietInv ==
  ASSUME PrgaInv, KernelSide', UNCHANGED <<sockvars, pvars>>, \A b \in Programs : Kept(b)
  PROVE  PrgaInv'
<1>1. /\ ports' = ports /\ sockets' = sockets /\ next_socket' = next_socket /\ failed' = failed
      /\ pc' = pc /\ sock' = sock /\ n' = n /\ text' = text
  BY DEF sockvars, pvars
<1>2. \A b \in Programs :
         /\ Local(b)' /\ (Bound(b)' <=> Bound(b)) /\ Mine(b)' = Mine(b)
         /\ (Asks(b)' <=> Asks(b)) /\ (Runs(b)' <=> Runs(b)) /\ Result(b)' = Result(b)
         /\ (Idle_s(b)' <=> Idle_s(b)) /\ (Waits(b)' <=> Waits(b))
  BY <1>1, OthersKept
<1>3. DataTypes'
  BY <1>1 DEF PrgaInv, DataTypes, SocketsTypeOK
<1>4. Owned'
  BY <1>1, <1>2, OwnedStays
<1>5. CASE Unlinked
  <2>1. Unlinked'
    BY <1>1, <1>2, <1>5, Roles DEF Unlinked
  <2> QED BY <1>2, <1>3, <1>4, <2>1 DEF PrgaInv, ProgramSide
<1>6. CASE Linked
  <2>1. PICK c \in Clients, s \in Servers : Pair(c, s) /\ Stage(c, s)
    BY <1>6 DEF Linked
  <2>2. c \in Programs /\ s \in Programs
    BY Roles
  <2>3. /\ Pair(c, s)'
        /\ sockets'[sock'[c]].msg = sockets[sock[c]].msg
        /\ sockets'[sock'[s]].msg = sockets[sock[s]].msg
    <3>1. Bound(c)' /\ Bound(s)'
      BY <1>2, <2>1, <2>2 DEF Pair
    <3> QED BY <1>1, <2>1, <3>1, PairStays
  <2>4. /\ (Asks(c)' <=> Asks(c)) /\ (Runs(c)' <=> Runs(c)) /\ Result(c)' = Result(c) /\ (Waits(c)' <=> Waits(c))
        /\ (Asks(s)' <=> Asks(s)) /\ (Runs(s)' <=> Runs(s)) /\ Result(s)' = Result(s) /\ (Idle_s(s)' <=> Idle_s(s))
    BY <1>2, <2>2
  <2>5. Stage(c, s)
    BY <2>1
  <2>6. Stage(c, s)'
    BY <1>1, <2>3, <2>4, <2>5 DEF Stage, Boxes
  <2>7. Linked'
    BY <2>3, <2>6 DEF Linked
  <2> QED BY <1>2, <1>3, <1>4, <2>7 DEF PrgaInv, ProgramSide
<1> QED BY <1>5, <1>6 DEF PrgaInv, ProgramSide

(* The programs have asked for the same.                                   *)
LEMMA SameQuestions ==
  ASSUME UNCHANGED <<sockvars, pvars>>
  PROVE  Asked' = Asked
<1>1. ports' = ports /\ sockets' = sockets /\ pc' = pc /\ sock' = sock /\ n' = n
  BY DEF sockvars, pvars
<1>2. \A a : Sending(a)' = Sending(a)
  BY <1>1 DEF Sending
<1> QED BY <1>1, <1>2 DEF Asked

(* init yields, or the timer takes the processor from whoever runs.        *)
LEMMA YieldInv ==
  ASSUME PrgaInv, sched_reschedule(Now, 0),
         UNCHANGED <<status, expected_reply, kernel_next_act, unique, ivars, sockvars, pvars>>
  PROVE  PrgaInv'
<1>1. Asked' = Asked
  BY SameQuestions
<1>2. KernelSide' /\ \A b \in Programs : sched_status'[b] = sched_status[b] /\ frame'[b] = frame[b]
  BY <1>1, YieldStep
<1>3. \A b \in Programs : Kept(b)
  BY <1>2 DEF Kept, Stays, pvars
<1> QED BY <1>2, <1>3, QuietInv

(* A step that changes nothing.                                            *)
LEMMA StutterInv ==
  ASSUME PrgaInv, UNCHANGED vars
  PROVE  PrgaInv'
<1>1. /\ UNCHANGED <<status, sched_status, expected_reply, msg_queues, frame, rq,
                     kernel_curr_act, kernel_next_act, unique, panic>>
      /\ UNCHANGED <<ivars, sockvars, pvars>>
  BY DEF vars, kvars
<1>2. Asked' = Asked
  BY <1>1, SameQuestions
<1>3. Now' = Now
  BY <1>1 DEF Now
<1>4. KTypeOK' /\ IrqTypeOK'
  BY <1>1 DEF PrgaInv, KernelSide, KTypeOK, IrqTypeOK, ivars
<1>5. KernelSide'
  BY <1>1, <1>2, <1>3, <1>4 DEF PrgaInv, KernelSide
<1>6. \A b \in Programs : Kept(b)
  BY <1>1 DEF Kept, Stays, pvars
<1> QED BY <1>1, <1>5, <1>6, QuietInv

(* A step of a server.                                                     *)
LEMMA ServerInv ==
  ASSUME PrgaInv, Fits', NEW s \in Servers, Running(s), ServerStep(s)
  PROVE  PrgaInv'
<1>1. s \in Programs /\ PortOf(s) = ServerPort
  BY Roles
<1> QED BY <1>1, StartInv, GotSocketInv, BindFailedInv, ServerWaitsInv, BoxEmptyInv,
           ServerSendsInv, ServerSentInv DEF ServerStep

(* A step of a client.                                                     *)
LEMMA ClientInv ==
  ASSUME PrgaInv, Fits', NEW c \in Clients, Running(c), ClientStep(c)
  PROVE  PrgaInv'
<1>1. c \in Programs /\ PortOf(c) = ClientPort
  BY Roles
<1> QED BY <1>1, StartInv, GotSocketInv, BindFailedInv, ConnectFailedInv, ClientConnectsInv,
           ConnectedInv, ClientSentInv, ClientReceivesInv, BoxEmptyInv, ClientGotInv DEF ClientStep

(* The invariant is inductive as long as the calls' numbers fit.           *)
THEOREM PrgaStep == PrgaInv /\ Fits' /\ [Next]_vars => PrgaInv'
<1> SUFFICES ASSUME PrgaInv, Fits', [Next]_vars PROVE PrgaInv'
  OBVIOUS
<1>1. ASSUME NEW a \in Aid \ {0}, Step(a) PROVE PrgaInv'
  <2>1. Running(a)
    BY <1>1 DEF Step
  <2>2. CASE a = booter /\ InitStep
    <3>1. /\ sched_reschedule(Now, 0)
          /\ UNCHANGED <<status, expected_reply, kernel_next_act, unique, ivars, sockvars, pvars>>
      BY <2>2 DEF InitStep, syscall_sleep, ivars, sockvars, pvars
    <3> QED BY <3>1, YieldInv
  <2>3. CASE a = socks /\ SocketsStep
    BY <2>1, <2>3, ServiceInv
  <2>4. CASE a \in Servers /\ ServerStep(a)
    BY <2>1, <2>4, ServerInv
  <2>5. CASE a \in Clients /\ ClientStep(a)
    BY <2>1, <2>5, ClientInv
  <2> QED BY <1>1, <2>2, <2>3, <2>4, <2>5 DEF Step
<1>2. CASE Tick
  <2>1. /\ sched_reschedule(Now, 0)
        /\ UNCHANGED <<status, expected_reply, kernel_next_act, unique, ivars, sockvars, pvars>>
    BY <1>2 DEF Tick, kernel_timer, ivars, sockvars, pvars
  <2> QED BY <2>1, YieldInv
<1>3. CASE UNCHANGED vars
  BY <1>3, StutterInv
<1> QED BY <1>1, <1>2, <1>3 DEF Next, Halted

(* The invariant of the machine with the echo programs, as long as         *)
(* kernel_creturn can tell the calls apart (the run token_mask refutes     *)
(* what is shown without that): prga, the sockets service, init, the       *)
(* kernel and the timer.                                                   *)
THEOREM PrgaInvariant == Spec /\ []Fits => []PrgaInv
<1>1. Init => PrgaInv
  BY PrgaInit
<1>2. PrgaInv /\ Fits' /\ [Next]_vars => PrgaInv'
  BY PrgaStep
<1> QED BY <1>1, <1>2, PTL DEF Spec

(* All variables have their types.                                         *)
THEOREM PrgaTypes == Spec /\ []Fits => []TypeOK
<1>1. PrgaInv => TypeOK
  BY DEF PrgaInv, KernelSide, DataTypes, Places, TypeOK
<1> QED BY <1>1, PrgaInvariant, PTL

(* No assertion of the kernel fails and none of its stops is reached, and  *)
(* the service never runs out of sockets: main.c and sockets.c never halt  *)
(* the machine.                                                            *)
THEOREM PrgaNeverStops == Spec /\ []Fits => []NeverStops
<1>1. PrgaInv => NeverStops
  BY DEF PrgaInv, KernelSide, NeverStops
<1> QED BY <1>1, PrgaInvariant, PTL

(* What a program has received is the message of the connection's client.  *)
LEMMA ReceivedFacts ==
  ASSUME PrgaInv, NEW a \in Programs, Received(a) # NULL
  PROVE  \E c \in Clients, s \in Servers :
           /\ a \in {c, s} /\ Received(a) = <<c, n[c]>>
           /\ text[<<c, n[c]>>] = IF a = c THEN "upper" ELSE "lower"
<1>1. /\ pc[a] = "recfrom" /\ Runs(a) /\ Received(a) = Result(a).msg /\ ~Asks(a) /\ Local(a)
  BY DEF Received, Back, Runs, Asks, PrgaInv, ProgramSide
<1>2. PICK m \in Messages \cup {NULL} : Result(a) = [msg |-> m]
  BY <1>1 DEF Local
<1>3. Result(a) = [msg |-> Received(a)] /\ Result(a) # [msg |-> NULL]
  BY <1>1, <1>2
<1>4. ~Unlinked
  BY <1>1, <1>3, Roles DEF Unlinked, Idle_s
<1>5. PICK c \in Clients, s \in Servers : Pair(c, s) /\ Stage(c, s)
  BY <1>4 DEF PrgaInv, ProgramSide, Linked
<1>6. a = c \/ a = s
  BY <1>1, <1>5, InPair DEF Late
<1>7. c # s
  BY Roles
<1>8. CASE a = c
  <2>1. Result(a) = [msg |-> <<c, n[c]>>] /\ text[<<c, n[c]>>] = "upper"
    BY <1>1, <1>3, <1>5, <1>8 DEF Stage, Waits
  <2>2. Received(a) = <<c, n[c]>>
    BY <1>1, <2>1
  <2> QED BY <1>8, <2>1, <2>2
<1>9. CASE a = s
  <2>1. Result(a) = [msg |-> <<c, n[c]>>] /\ text[<<c, n[c]>>] = "lower"
    BY <1>1, <1>3, <1>5, <1>9 DEF Stage, Idle_s
  <2>2. Received(a) = <<c, n[c]>>
    BY <1>1, <2>1
  <2> QED BY <1>7, <1>9, <2>1, <2>2
<1> QED BY <1>6, <1>8, <1>9

(* A client gets back what it sent last, in upper case: server() and       *)
(* client() of prga never mix up two messages.                             *)
THEOREM PrgaEchoed == Spec /\ []Fits => []Echoed
<1>1. PrgaInv => Echoed
  <2> SUFFICES ASSUME PrgaInv, NEW c \in Clients, Received(c) # NULL
               PROVE  Received(c) = <<c, n[c]>> /\ text[Received(c)] = "upper"
    BY DEF Echoed
  <2>1. c \in Programs /\ c \notin Servers
    BY Roles
  <2> QED BY <2>1, ReceivedFacts
<1> QED BY <1>1, PrgaInvariant, PTL

(* No buffer that is in a box or with a program has been freed by its      *)
(* client.                                                                 *)
THEOREM PrgaNotFreed == Spec /\ []Fits => []NotFreed
<1>1. PrgaInv => NotFreed
  <2> SUFFICES ASSUME PrgaInv PROVE NotFreed
    OBVIOUS
  <2>1. ASSUME NEW a \in Programs, Received(a) # NULL PROVE text[Received(a)] # "freed"
    BY <2>1, ReceivedFacts
  <2>2. ASSUME NEW t \in Socket, sockets[t].msg # NULL PROVE text[sockets[t].msg] # "freed"
    <3>1. ~Unlinked
      BY <2>2 DEF Unlinked
    <3>2. PICK c \in Clients, s \in Servers : Pair(c, s) /\ Stage(c, s)
      BY <3>1 DEF PrgaInv, ProgramSide, Linked
    <3>3. t \in {sock[c], sock[s]}
      BY <2>2, <3>2 DEF Pair
    <3>4. sockets[t].msg = <<c, n[c]>> /\ text[<<c, n[c]>>] # "freed"
      BY <2>2, <3>2, <3>3 DEF Stage, Boxes
    <3> QED BY <3>4
  <2> QED BY <2>1, <2>2 DEF NotFreed
<1> QED BY <1>1, PrgaInvariant, PTL

(* sendto always succeeds: the error paths of server() and client(), which *)
(* lose a message, are never taken.                                        *)
THEOREM PrgaNoSendError == Spec /\ []Fits => []NoSendError
<1>1. PrgaInv => NoSendError
  <2> SUFFICES ASSUME PrgaInv, NEW a \in Programs, Back(a, "sendto") PROVE Result(a).ret = 0
    BY DEF NoSendError
  <2>1. Runs(a) /\ pc[a] = "sendto" /\ Local(a)
    BY DEF Back, Runs, PrgaInv, ProgramSide
  <2>2. Result(a) = [ret |-> 0]
    BY <2>1 DEF Local
  <2> QED BY <2>2
<1> QED BY <1>1, PrgaInvariant, PTL
=============================================================================
