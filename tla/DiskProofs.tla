----------------------------- MODULE DiskProofs -----------------------------
(***************************************************************************)
(* Theorems about Disk.  A call of the file system goes through the phases *)
(* of DiskInv: asked, sent to the device, served by it, and done.          *)
(***************************************************************************)
EXTENDS Disk, KernelProofs

(* The messages in the driver's queue: none, or the one of box.            *)
Queue(s, box) ==
  LET q == s.mq[vblk]
  IN  IF box = {} THEN empty(q)
                  ELSE ~empty(q) /\ q.end = safe(q.start + 1) /\ box = {front(q)}

(* The driver at p: in its own code, with box in its queue; or between two *)
(* messages, with box in its queue or in its registers.                    *)
Drive(s, p, box) ==
  \/ p # "msg_entry" /\ s.st[vblk] = "runnable" /\ Queue(s, box)
  \/ p = "msg_entry" /\ s.st[vblk] = "waiting" /\ box = {}
  \/ p = "msg_entry" /\ s.st[vblk] = "schedulable" /\ Queue(s, box)
  \/ p = "msg_entry" /\ s.st[vblk] = "runnable" /\ Queue(s, {}) /\ box = {s.fr[vblk]}

(* The scheduler is in order, init may run, and the file system's status   *)
(* is f.                                                                   *)
Base(s, f) == /\ SchedOK(s)
              /\ s.st[booter] = "runnable" /\ s.st[fatfs] = f /\ f # "schedulable"

Core(s, f, p, box) == Base(s, f) /\ Drive(s, p, box)

(* What a step leaves that ends with a switch.                             *)
Switched(f, p, box) ==
  /\ panic' = "no" /\ Core(Next_s, f, p, box)
  /\ kernel_curr_act' \in Aid /\ sched_status'[kernel_curr_act'] = "runnable"

LEMMA Ids ==
  /\ booter \in Aid /\ vblk \in Aid /\ fatfs \in Aid /\ Aid = 0 .. 3
  /\ booter # vblk /\ booter # fatfs /\ vblk # fatfs /\ booter # 0 /\ vblk # 0 /\ fatfs # 0
BY DiskAssumption DEF Aid, booter, vblk, fatfs

(* The message that waits is delivered when its receiver is picked.        *)
LEMMA PickedCore ==
  ASSUME NEW s, NEW f, NEW p, NEW box, Core(s, f, p, box), NEW act \in Aid, Ready(s, act),
         SwitchTo(s, act), panic = "no"
  PROVE  Switched(f, p, box)
<1>1. /\ s.st \in [Aid -> SchedStatus] /\ s.mq \in [Aid -> Rings(Msg)] /\ s.fr \in [Aid -> Msg]
      /\ Mail(s, act)
  BY DEF Core, Base, SchedOK, SchedType
<1>2. Settled(s.st)
  BY SwitchSettles DEF Core, Base
<1>3. panic' = "no"
  BY <1>1 DEF SwitchTo, kernel_panic, Mail
<1>4. SchedOK(Next_s) /\ kernel_curr_act' \in Aid /\ sched_status'[kernel_curr_act'] = "runnable"
  BY <1>2, <1>3 DEF Settled, Stops
<1>5. CASE s.st[act] # "schedulable"
  <2>1. sched_status' = s.st /\ msg_queues' = s.mq /\ frame' = s.fr
    BY <1>5 DEF SwitchTo
  <2>2. Next_s.st = s.st /\ Next_s.mq = s.mq /\ Next_s.fr = s.fr
    BY <2>1 DEF Next_s
  <2>3. Core(Next_s, f, p, box)
    BY <1>4, <2>2 DEF Core, Base, Drive, Queue
  <2> QED BY <1>3, <1>4, <2>3 DEF Switched
<1>6. CASE s.st[act] = "schedulable"
  <2>1. /\ Next_s.st = [s.st EXCEPT ![act] = "runnable"]
        /\ Next_s.mq = [s.mq EXCEPT ![act] = dequeue(s.mq[act])]
        /\ Next_s.fr = [s.fr EXCEPT ![act] = front(s.mq[act])]
    BY <1>1, <1>6 DEF SwitchTo, Mail, sched_schedule, Next_s
  <2>2. act # booter /\ act # fatfs
    BY <1>6 DEF Core, Base
  <2>3. Next_s.st[booter] = "runnable" /\ Next_s.st[fatfs] = f
    BY <2>1, <2>2, <1>1, Ids DEF Core, Base
  <2>4. Drive(Next_s, p, box)
    <3>1. CASE act = vblk
      <4>1. p = "msg_entry" /\ Queue(s, box) /\ ~empty(s.mq[vblk])
        BY <1>1, <1>6, <3>1 DEF Core, Base, Drive, Mail
      <4>2. box = {front(s.mq[vblk])} /\ empty(dequeue(s.mq[vblk]))
        BY <4>1 DEF Queue, empty, dequeue
      <4>3. /\ Next_s.st[vblk] = "runnable" /\ Next_s.mq[vblk] = dequeue(s.mq[vblk])
            /\ Next_s.fr[vblk] = front(s.mq[vblk])
        BY <2>1, <1>1, <3>1
      <4> QED BY <4>1, <4>2, <4>3 DEF Drive, Queue
    <3>2. CASE act # vblk
      <4>1. /\ Next_s.st[vblk] = s.st[vblk] /\ Next_s.mq[vblk] = s.mq[vblk]
            /\ Next_s.fr[vblk] = s.fr[vblk]
        BY <2>1, <1>1, <3>2, Ids
      <4> QED BY <4>1 DEF Core, Base, Drive, Queue
    <3> QED BY <3>1, <3>2
  <2>5. Core(Next_s, f, p, box)
    BY <1>4, <2>3, <2>4 DEF Core, Base
  <2> QED BY <1>3, <1>4, <2>5 DEF Switched
<1> QED BY <1>5, <1>6

(* There is always somebody to run.                                        *)
LEMMA RescheduleCore ==
  ASSUME NEW s, NEW f, NEW p, NEW box, Core(s, f, p, box), NEW hint \in Aid,
         sched_reschedule(s, hint), panic = "no"
  PROVE  Switched(f, p, box)
<1>1. /\ SchedOK(s) /\ s.rq \in RunQueues /\ Lists(s.rq, Active(s.st))
      /\ booter \in Active(s.st)
  BY Ids DEF Core, Base, SchedOK, SchedType, Active
<1>2. s.rq.end # 0 /\ s.rq.end \in Nat
  <2>1. s.rq.end \in 0 .. MAX_ACTIVATIONS /\ s.rq.aqueue[booter] \in Aid
    BY <1>1, Ids DEF RunQueues
  <2>2. s.rq.aqueue[booter] < s.rq.end
    BY <1>1 DEF Lists
  <2> QED BY <2>1, <2>2, MaxActivationsAssumption DEF Aid
<1>3. CASE hint # 0 /\ Ready(s, hint)
  BY <1>3, PickedCore DEF sched_reschedule
<1>4. CASE ~(hint # 0 /\ Ready(s, hint))
  <2> DEFINE t == [st |-> s.st, rq |-> [s.rq EXCEPT !.idx = FirstPick(s)],
                   mq |-> s.mq, fr |-> s.fr]
             act == s.rq.squeue_a[FirstPick(s)]
  <2>1. PickRounds(s) # {} /\ FirstPick(s) \in Aid /\ act \in Active(s.st)
    BY <1>1, <1>2, FirstPickReady
  <2>2. SwitchTo(t, act)
    BY <1>2, <1>4, <2>1 DEF sched_reschedule
  <2>3. t.rq \in RunQueues /\ Lists(t.rq, Active(t.st))
    BY <1>1, <2>1 DEF RunQueues, Lists
  <2>4. SchedOK(t)
    BY <1>1, <2>3 DEF SchedOK, SchedType, Mail
  <2>5. Core(t, f, p, box)
    BY <2>4 DEF Core, Base, Drive, Queue
  <2>6. act \in Aid /\ Ready(t, act)
    BY <2>1 DEF Active, Ready
  <2> QED BY <2>2, <2>5, <2>6, PickedCore
<1> QED BY <1>3, <1>4

(* The driver waits for the next message.                                  *)
LEMMA WaitCore ==
  ASSUME NEW s, NEW f, Base(s, f), s.st[vblk] = "runnable", NEW rest, Queue(s, rest), NEW hint \in Aid, act_wait(s, vblk, hint), panic = "no"
  PROVE  Switched(f, "msg_entry", rest)
<1>1. /\ SchedOK(s) /\ s.st \in [Aid -> SchedStatus] /\ vblk \in Active(s.st)
      /\ s.st[booter] = "runnable" /\ s.st[fatfs] = f /\ f # "schedulable"
  BY Ids DEF Core, Base, SchedOK, SchedType, Active
<1>2. CASE empty(s.mq[vblk])
  <2> DEFINE t == sched_a2d(s, vblk, "waiting")
  <2>1. SchedOK(t) /\ QDEL_assert(s.rq, vblk)
    BY <1>1, <1>2, A2DOK
  <2>2. sched_reschedule(t, hint)
    BY <1>2, <2>1 DEF act_wait
  <2>3. t.st = [s.st EXCEPT ![vblk] = "waiting"] /\ rest = {}
    BY <1>2 DEF sched_a2d, Queue
  <2>4. Core(t, f, "msg_entry", rest)
    BY <2>1, <2>3, <1>1, Ids DEF Core, Base, Drive
  <2> QED BY <2>2, <2>4, RescheduleCore
<1>3. CASE ~empty(s.mq[vblk])
  <2> DEFINE t == [st |-> [s.st EXCEPT ![vblk] = "schedulable"], rq |-> s.rq,
                   mq |-> s.mq, fr |-> s.fr]
  <2>1. sched_reschedule(t, hint)
    BY <1>3 DEF act_wait
  <2>2. Active(t.st) = Active(s.st)
    BY <1>1, Ids DEF Active
  <2>3. SchedOK(t)
    <3>1. t.st \in [Aid -> SchedStatus] /\ t.st[0] = "terminated"
      BY <1>1, Ids DEF SchedOK, SchedStatus
    <3>2. \A a \in Aid : Mail(t, a)
      BY <1>1, <1>3 DEF SchedOK, Mail
    <3> QED BY <1>1, <2>2, <3>1, <3>2 DEF SchedOK, SchedType
  <2>4. Core(t, f, "msg_entry", rest)
    BY <2>3, <1>1, Ids DEF Core, Base, Drive, Queue
  <2> QED BY <2>1, <2>4, RescheduleCore
<1> QED BY <1>2, <1>3

(* A message to the driver when it has none.                               *)
LEMMA PushCore ==
  ASSUME NEW s, NEW f, NEW p, Core(s, f, p, {}), NEW m \in Msg
  PROVE  ~full(s.mq[vblk]) /\ Core(msg_push(s, vblk, m), f, p, {m})
<1> DEFINE t == msg_push(s, vblk, m)
           q == s.mq[vblk]
<1>1. /\ SchedOK(s) /\ s.st \in [Aid -> SchedStatus] /\ s.mq \in [Aid -> Rings(Msg)]
      /\ q \in Rings(Msg) /\ Mail(s, vblk)
  BY Ids DEF Core, Base, SchedOK, SchedType
<1>2. q.start \in Slot /\ q.end \in Slot /\ q.msg \in [Slot -> Msg]
  BY <1>1 DEF Rings
<1>3. empty(q)
  BY <1>1 DEF Core, Base, Drive, Queue, Mail
<1>4. safe(q.end + 1) # q.end
  BY <1>2, SafeNext, MaxMsgAssumption DEF Slot
<1>5. ~full(q)
  BY <1>3, <1>4 DEF full, empty
<1>6. SchedOK(t)
  BY <1>1, <1>5, PushOK, Ids
<1>7. /\ t.mq = [s.mq EXCEPT ![vblk] = enqueue(q, m)]
      /\ t.st = IF s.st[vblk] = "waiting" THEN [s.st EXCEPT ![vblk] = "schedulable"] ELSE s.st
  BY DEF msg_push, sched_d2a
<1>8. Queue(t, {m})
  <2>1. t.mq[vblk] = enqueue(q, m)
    BY <1>1, <1>7, Ids
  <2>2. front(enqueue(q, m)) = m /\ ~empty(enqueue(q, m))
    BY <1>2, <1>3, <1>4 DEF front, enqueue, empty
  <2>3. enqueue(q, m).end = safe(enqueue(q, m).start + 1)
    BY <1>3 DEF enqueue, empty
  <2> QED BY <2>1, <2>2, <2>3 DEF Queue
<1>9. t.st[booter] = "runnable" /\ t.st[fatfs] = f
  BY <1>1, <1>7, Ids DEF Core, Base
<1>10. Drive(t, p, {m})
  BY <1>1, <1>3, <1>7, <1>8, Ids DEF Core, Base, Drive, Mail, Queue
<1> QED BY <1>5, <1>6, <1>9, <1>10 DEF Core, Base

----------------------------------------------------------------------------
(* The phases of a call.                                                   *)

tok == [aid |-> fatfs, unique |-> expected_reply[fatfs]]

(* The call is done with the disk: a read has its data.                    *)
Current == /\ disk = written
           /\ call.op = "read" => buf = written[call.sector]

(* It has still to be.                                                     *)
Behind == IF call.op = "write" THEN written = [disk EXCEPT ![call.sector] = call.value]
                               ELSE disk = written

Level == used_idx = avail_idx /\ last_used_idx = avail_idx

NotSent == ~used /\ request = NULL /\ ~isr /\ Level

Ready_pc == {"register", "enable", "to_msg", "msg_entry"}

(* The file system is not in a call.                                       *)
Quiet == /\ pc \in Ready_pc /\ NotSent /\ Current
         /\ \E f \in {"runnable", "terminated"} : Core(Now, f, pc, {})

(* Its call is on its way to the driver.                                   *)
Asked == /\ pc \in Ready_pc /\ NotSent /\ Behind /\ call \in Calls
         /\ call.op \in {"read", "write"} => avail_idx < MaxRequests
         /\ Core(Now, "sync_block", pc, {[v0 |-> call, c1 |-> tok]})

Kept == pc \in {"vblk_send_done", "msg_entry"} /\ used /\ req_token = tok

(* The device has the request of the call.                                 *)
Sent == /\ Kept /\ request = call /\ ~isr /\ Behind
        /\ call \in Calls /\ call.op \in {"read", "write"}
        /\ avail_idx = used_idx + 1 /\ used_idx = last_used_idx
        /\ Core(Now, "sync_block", pc, {})

(* The device is done with it; its interrupt is pending, or masked and a   *)
(* message to the driver.                                                  *)
Served == /\ Kept /\ request = NULL /\ isr /\ Current
          /\ used_idx = avail_idx /\ avail_idx = last_used_idx + 1
          /\ ring[last_used_idx % num]
          /\ \/ Core(Now, "sync_block", pc, {})
             \/ 4 \notin im /\ Core(Now, "sync_block", pc, {[v0 |-> INT, c1 |-> NULL]})

(* The driver has had the interrupt, and will answer.                      *)
Done == /\ pc \in {"interrupt_enable", "return"} /\ NotSent /\ Current /\ sync_token = tok
        /\ Core(Now, "sync_block", pc, {})

(* What holds in every phase, of the kernel, of the interrupts, and of the *)
(* rest.                                                                   *)
KernelSide ==
  /\ KTypeOK /\ panic = "no" /\ kernel_next_act = 4
  /\ sched_status[kernel_curr_act] = "runnable" /\ status[vblk] = "alive"
  /\ expected_reply[fatfs] <= unique /\ unique <= MaxCalls

IrqSide == IrqTypeOK /\ int_child[4] \in {0, vblk} /\ (4 \in im => int_child[4] = vblk)

DataType ==
  /\ call \in Calls \cup {[op |-> "none"]}
  /\ init \in BOOLEAN /\ used \in BOOLEAN
  /\ req_token \in Token \cup {NULL} /\ sync_token \in Token \cup {NULL}
  /\ avail_idx \in 0 .. MaxRequests
  /\ ring \in [0 .. num - 1 -> BOOLEAN]
  /\ request \in Calls \cup {NULL} /\ disk \in [Sectors -> Values] /\ buf \in Values
  /\ isr \in BOOLEAN /\ written \in [Sectors -> Values]
  /\ used_idx \in Nat /\ last_used_idx \in Nat

DiskInv == KernelSide /\ IrqSide /\ DataType
           /\ (Quiet \/ Asked \/ Sent \/ Served \/ Done)

LEMMA DiskTypes == DiskInv => TypeOK
BY DiskAssumption
   DEF DiskInv, KernelSide, IrqSide, DataType, TypeOK, Quiet, Asked, Sent, Served, Done,
       NotSent, Level, Kept, Ready_pc

LEMMA CallFacts ==
  ASSUME NEW c \in Calls
  PROVE  /\ c # NULL /\ c.op # INT.op /\ c \in Arg
         /\ c.op \in {"init", "status", "read", "write"}
         /\ c.op \in {"read", "write"} => c.sector \in Sectors
         /\ c.op = "write" => c.value \in Values
<1>1. c # NULL /\ c \in Arg
  BY DiskAssumption
<1>2. /\ c.op \in {"init", "status", "read", "write"}
      /\ c.op \in {"read", "write"} => c.sector \in Sectors
      /\ c.op = "write" => c.value \in Values
  BY DEF Calls
<1>3. c.op # INT.op
  BY <1>2, DiskAssumption
<1> QED BY <1>1, <1>2, <1>3

LEMMA TokFacts ==
  ASSUME KernelSide
  PROVE  /\ tok \in Token /\ tok # NULL /\ tok.aid = fatfs
         /\ tok.unique = expected_reply[fatfs] /\ Expected(tok)
         /\ unique \in Nat /\ MaxCalls \in Nat /\ MaxCalls < REPLY_MOD
<1>1. expected_reply[fatfs] \in 0 .. UNIQUE_MOD - 1 /\ unique \in 0 .. UNIQUE_MOD - 1
  BY Ids DEF KernelSide, KTypeOK
<1>2. tok \in Token
  BY <1>1, Ids DEF tok, Token
<1>3. MaxCalls \in Nat /\ MaxCalls < REPLY_MOD
  BY DiskAssumption, ModAssumption
<1>4. expected_reply[fatfs] % REPLY_MOD = expected_reply[fatfs]
  BY <1>1, <1>3, ModAssumption DEF KernelSide
<1> QED BY <1>1, <1>2, <1>3, <1>4, NullAssumption DEF tok, Expected

----------------------------------------------------------------------------
(* The handlers.                                                           *)

(* A step that ends with a switch leaves the kernel in order.              *)
LEMMA KernelAfter ==
  ASSUME KernelSide, NEW f, NEW p, NEW box, Switched(f, p, box),
         status' \in [Aid -> Status], status'[vblk] = "alive",
         expected_reply' \in [Aid -> 0 .. UNIQUE_MOD - 1], unique' \in 0 .. UNIQUE_MOD - 1,
         expected_reply'[fatfs] <= unique', unique' <= MaxCalls, UNCHANGED kernel_next_act
  PROVE  KernelSide'
<1>1. SchedType(Next_s)
  BY DEF Switched, Core, Base, SchedOK
<1>2. KTypeOK'
  BY <1>1 DEF SchedType, Next_s, KTypeOK, KernelSide, Switched
<1> QED BY <1>2 DEF KernelSide, Switched

LEMMA KernelSame ==
  ASSUME KernelSide, NEW f, NEW p, NEW box, Switched(f, p, box),
         UNCHANGED <<status, expected_reply, kernel_next_act, unique>>
  PROVE  KernelSide'
BY KernelAfter DEF KernelSide, KTypeOK

LEMMA EnterBase ==
  ASSUME KernelSide, NEW f, Base(Now, f), NEW arg \in Arg \cup {ZERO}
  PROVE  /\ Base(Enter(arg), f) /\ Enter(arg).st = sched_status /\ Enter(arg).mq = msg_queues
         /\ kernel_curr_act # vblk => Enter(arg).fr[vblk] = frame[vblk]
<1>1. kernel_curr_act \in Aid /\ frame \in [Aid -> Msg] /\ panic = "no"
  BY DEF KernelSide, KTypeOK
<1>2. [frame EXCEPT ![kernel_curr_act] = [v0 |-> arg, c1 |-> NULL]] \in [Aid -> Msg]
  BY <1>1 DEF Msg
<1>3. SchedOK(Enter(arg))
  BY <1>2 DEF Base, SchedOK, SchedType, Now, Enter, Mail
<1> QED BY <1>1, <1>3, Ids DEF Base, Now, Enter

(* The driver answers nobody...                                            *)
LEMMA ReturnNull ==
  ASSUME KernelSide, kernel_curr_act = vblk, NEW f, Base(Now, f), NEW rest, Queue(Now, rest),
         creturn_null(OK)
  PROVE  /\ Switched(f, "msg_entry", rest) /\ KernelSide'
         /\ UNCHANGED <<status, expected_reply, kernel_next_act, unique>>
<1>1. OK \in Arg /\ panic = "no" /\ sched_status[vblk] = "runnable"
  BY DiskAssumption DEF KernelSide
<1>2. Base(Enter(OK), f) /\ Enter(OK).st = sched_status /\ Enter(OK).mq = msg_queues
  BY <1>1, EnterBase
<1>3. Queue(Enter(OK), rest)
  BY <1>2 DEF Queue, Now
<1>4. act_wait(Enter(OK), vblk, vblk)
  BY DEF creturn_null
<1>5. Switched(f, "msg_entry", rest)
  BY <1>1, <1>2, <1>3, <1>4, WaitCore, Ids
<1> QED BY <1>5, KernelSame DEF creturn_null

(* ... or the file system, which is blocked in its call.                   *)
LEMMA ReturnTok ==
  ASSUME KernelSide, kernel_curr_act = vblk, Base(Now, "sync_block"),
         NEW rest, Queue(Now, rest), creturn_sync(tok, OK)
  PROVE  /\ Switched("runnable", "msg_entry", rest) /\ KernelSide'
         /\ UNCHANGED <<status, expected_reply, kernel_next_act, unique>>
<1> DEFINE e == Enter(OK)
           w == sched_d2a(e, fatfs, "runnable")
           r == reply(tok, OK)
<1>1. /\ OK \in Arg /\ panic = "no" /\ sched_status[vblk] = "runnable"
      /\ sched_status[fatfs] = "sync_block"
  BY DiskAssumption DEF KernelSide, Base, Now
<1>2. Base(e, "sync_block") /\ e.st = sched_status /\ e.mq = msg_queues
  BY <1>1, EnterBase
<1>3. /\ SchedType(e) /\ e.st[0] = "terminated" /\ Lists(e.rq, Active(e.st))
      /\ \A a \in Aid : Mail(e, a)
  BY <1>2 DEF Base, SchedOK
<1>4. fatfs \notin Active(e.st) /\ fatfs \in Aid \ {0}
  BY <1>1, <1>2, Ids DEF Active
<1>5. SchedType(w) /\ w.st[0] = "terminated" /\ Lists(w.rq, Active(w.st))
  <2>1. "runnable" \in {"runnable", "schedulable"}
    OBVIOUS
  <2> HIDE DEF e
  <2> QED BY <2>1, <1>3, <1>4, D2ALists
<1>6. w.st = [e.st EXCEPT ![fatfs] = "runnable"] /\ w.mq = e.mq
  BY DEF sched_d2a
<1>7. /\ r.st = w.st /\ r.rq = w.rq /\ r.mq = w.mq
      /\ r.fr = [w.fr EXCEPT ![fatfs] = [v0 |-> OK, c1 |-> w.fr[fatfs].c1]]
  BY TokFacts DEF reply
<1> HIDE DEF e, w, r
<1>8. r.fr \in [Aid -> Msg]
  <2>1. w.fr \in [Aid -> Msg] /\ w.fr[fatfs] \in Msg
    BY <1>5, Ids DEF SchedType
  <2> QED BY <2>1, <1>1, <1>7, Ids DEF Msg
<1>9. \A a \in Aid : Mail(r, a)
  BY <1>1, <1>2, <1>3, <1>6, <1>7 DEF Mail, SchedType
<1>10. SchedOK(r)
  BY <1>5, <1>7, <1>8, <1>9 DEF SchedOK, SchedType
<1>11. Base(r, "runnable") /\ r.st[vblk] = "runnable" /\ Queue(r, rest)
  <2>1. e.st \in [Aid -> SchedStatus]
    BY <1>3 DEF SchedType
  <2> QED BY <2>1, <1>1, <1>2, <1>6, <1>7, <1>10, Ids DEF Base, Queue, Now
<1>12. act_wait(r, vblk, fatfs)
  BY <1>1, TokFacts DEF creturn_sync, r
<1>13. Switched("runnable", "msg_entry", rest)
  BY <1>1, <1>11, <1>12, WaitCore, Ids
<1> QED BY <1>13, KernelSame DEF creturn_sync

(* The file system's call goes to the driver, which is switched to if it   *)
(* may run.                                                                *)
LEMMA CallCore ==
  ASSUME KernelSide, kernel_curr_act = fatfs, NEW p, Core(Now, "runnable", p, {}),
         NEW c \in Calls, unique < MaxCalls, ccall_sync(vblk, TRUE, c)
  PROVE  /\ Switched("sync_block", p, {[v0 |-> c, c1 |-> [aid |-> fatfs, unique |-> unique + 1]]})
         /\ KernelSide'
         /\ expected_reply' = [expected_reply EXCEPT ![fatfs] = unique + 1]
<1> DEFINE token == [aid |-> fatfs, unique |-> unique + 1]
           m == [v0 |-> c, c1 |-> token]
           e == Enter(c)
           pushed == msg_push(e, vblk, m)
           t == sched_a2d(pushed, fatfs, "sync_block")
<1>1. /\ c \in Arg /\ panic = "no" /\ unique \in Nat /\ MaxCalls \in Nat
      /\ MaxCalls < REPLY_MOD /\ REPLY_MOD \in Nat /\ UNIQUE_MOD \in Nat /\ REPLY_MOD <= UNIQUE_MOD
  BY CallFacts, TokFacts, ModAssumption DEF KernelSide
<1>2. next_unique = unique + 1 /\ unique + 1 \in 0 .. UNIQUE_MOD - 1 /\ unique + 1 <= MaxCalls
  BY <1>1 DEF next_unique
<1>3. token \in Token /\ m \in Msg
  BY <1>1, <1>2, Ids DEF Token, Msg
<1>4. Core(e, "runnable", p, {})
  <2>1. Base(e, "runnable") /\ e.st = sched_status /\ e.mq = msg_queues
        /\ e.fr[vblk] = frame[vblk]
    BY <1>1, EnterBase, Ids DEF Core
  <2> QED BY <2>1 DEF Core, Drive, Queue, Now
<1>5. ~full(msg_queues[vblk]) /\ Core(pushed, "runnable", p, {m})
  <2>1. e.mq = msg_queues
    BY DEF Enter
  <2> HIDE DEF e, m
  <2> QED BY <1>3, <1>4, <2>1, PushCore
<1>6. /\ unique' = unique + 1
      /\ expected_reply' = [expected_reply EXCEPT ![fatfs] = unique + 1]
      /\ UNCHANGED <<status, kernel_next_act>>
      /\ QDEL_assert(pushed.rq, fatfs) => sched_reschedule(t, vblk)
      /\ ~QDEL_assert(pushed.rq, fatfs) => kernel_panic("assertion")
  BY <1>2, <1>5 DEF ccall_sync
<1> HIDE DEF e, m, pushed
<1>7. fatfs \in Active(pushed.st) /\ pushed.st \in [Aid -> SchedStatus]
  BY <1>5, Ids DEF Core, Base, SchedOK, SchedType, Active
<1>8. SchedOK(t) /\ QDEL_assert(pushed.rq, fatfs)
  BY <1>5, <1>7, A2DOK DEF Core, Base
<1>9. Core(t, "sync_block", p, {m})
  <2>1. t.st = [pushed.st EXCEPT ![fatfs] = "sync_block"] /\ t.mq = pushed.mq /\ t.fr = pushed.fr
    BY DEF sched_a2d
  <2> QED BY <2>1, <1>5, <1>7, <1>8, Ids DEF Core, Base, Drive, Queue
<1>10. Switched("sync_block", p, {m})
  <2> HIDE DEF t
  <2> QED BY <1>1, <1>6, <1>8, <1>9, RescheduleCore, Ids
<1>11. KernelSide'
  <2>1. /\ status' \in [Aid -> Status] /\ status'[vblk] = "alive"
        /\ expected_reply' \in [Aid -> 0 .. UNIQUE_MOD - 1]
        /\ expected_reply'[fatfs] = unique'
        /\ unique' \in 0 .. UNIQUE_MOD - 1 /\ unique' <= MaxCalls
    BY <1>2, <1>6, Ids DEF KernelSide, KTypeOK
  <2> QED BY <2>1, <1>1, <1>6, <1>10, KernelAfter
<1> QED BY <1>6, <1>10, <1>11 DEF m

(* The device's interrupt becomes a message.                               *)
LEMMA InterruptCore ==
  ASSUME KernelSide, IrqSide, NEW f, NEW p, Core(Now, f, p, {}), kernel_interrupt_others(4)
  PROVE  /\ KernelSide' /\ IrqSide' /\ 4 \notin im'
         /\ Core(Next_s, f, p, {[v0 |-> INT, c1 |-> NULL]})
<1> DEFINE m == [v0 |-> INT, c1 |-> NULL]
           s == Interrupted
<1>1. /\ int_child[4] = vblk /\ im' = im \ {4} /\ int_child' = int_child
      /\ UNCHANGED <<status, expected_reply, kernel_next_act, unique>>
      /\ full(msg_queues[vblk]) => kernel_panic("queue full (int)")
      /\ ~full(msg_queues[vblk]) => Resume(msg_push(s, vblk, m))
  BY DEF kernel_interrupt_others, IrqSide
<1>2. m \in Msg /\ panic = "no" /\ frame \in [Aid -> Msg] /\ 0 \in Aid
  BY IrqAssumption, Ids DEF Msg, KernelSide, KTypeOK
<1>3. Core(s, f, p, {})
  <2>1. s.fr \in [Aid -> Msg] /\ s.fr[vblk] = frame[vblk]
    BY <1>2, IrqAssumption, Ids DEF Interrupted, Msg
  <2>2. s.st = sched_status /\ s.rq = rq /\ s.mq = msg_queues
    BY DEF Interrupted
  <2> QED BY <2>1, <2>2 DEF Core, Base, SchedOK, SchedType, Mail, Drive, Queue, Now
<1>4. ~full(msg_queues[vblk]) /\ Core(msg_push(s, vblk, m), f, p, {m})
  <2>1. s.mq = msg_queues
    BY DEF Interrupted
  <2> HIDE DEF s, m
  <2> QED BY <1>2, <1>3, <2>1, PushCore
<1>5. Resume(msg_push(s, vblk, m))
  BY <1>1, <1>4
<1> HIDE DEF s, m
<1>6. /\ Next_s.st = msg_push(s, vblk, m).st /\ Next_s.rq = msg_push(s, vblk, m).rq
      /\ Next_s.mq = msg_push(s, vblk, m).mq /\ Next_s.fr = msg_push(s, vblk, m).fr
      /\ UNCHANGED <<kernel_curr_act, panic>>
  BY <1>5 DEF Resume, Next_s
<1>7. Core(Next_s, f, p, {m})
  BY <1>4, <1>6 DEF Core, Base, SchedOK, SchedType, Mail, Drive, Queue
<1>8. sched_status'[kernel_curr_act'] = "runnable"
  <2>1. /\ kernel_curr_act \in Aid /\ sched_status[kernel_curr_act] = "runnable"
        /\ sched_status \in [Aid -> SchedStatus]
    BY DEF KernelSide, KTypeOK
  <2>2. \/ msg_push(s, vblk, m).st = sched_status
        \/ /\ sched_status[vblk] = "waiting"
           /\ msg_push(s, vblk, m).st = [sched_status EXCEPT ![vblk] = "schedulable"]
    BY DEF msg_push, sched_d2a, s, Interrupted
  <2> QED BY <2>1, <2>2, <1>6 DEF Next_s
<1>9. Switched(f, p, {m})
  BY <1>2, <1>6, <1>7, <1>8 DEF Switched, KernelSide, KTypeOK
<1>10. KernelSide'
  BY <1>1, <1>9, KernelSame
<1>11. IrqSide'
  BY <1>1 DEF IrqSide, IrqTypeOK
<1> QED BY <1>1, <1>7, <1>10, <1>11 DEF m

----------------------------------------------------------------------------
(* The steps.                                                              *)

(* A switch from one to another, in any phase.                             *)
LEMMA YieldInv ==
  ASSUME DiskInv, sched_reschedule(Now, 0),
         UNCHANGED <<status, expected_reply, kernel_next_act, unique, ivars, fsvars, pc,
                     sync_token, drvvars, devvars>>
  PROVE  DiskInv'
<1>1. KernelSide /\ IrqSide /\ DataType /\ panic = "no" /\ 0 \in Aid
  BY Ids DEF DiskInv, KernelSide
<1>2. IrqSide' /\ DataType'
  BY <1>1 DEF IrqSide, IrqTypeOK, DataType, ivars, fsvars, drvvars, devvars
<1>3. ASSUME NEW f, NEW p, NEW box, Core(Now, f, p, box)
      PROVE  Core(Next_s, f, p, box) /\ KernelSide'
  <2>1. Switched(f, p, box)
    BY <1>1, <1>3, RescheduleCore
  <2> QED BY <2>1, <1>1, KernelSame DEF Switched
<1>4. tok' = tok /\ Next_s = Now'
  BY DEF tok, Now, Next_s
<1>5. UNCHANGED <<call, written, pc, sync_token, used, req_token, avail_idx, last_used_idx,
                  ring, used_idx, request, disk, isr, buf, im>>
  BY DEF ivars, fsvars, drvvars, devvars
<1>6. CASE Quiet
  <2>1. PICK f \in {"runnable", "terminated"} : Core(Now, f, pc, {})
    BY <1>6 DEF Quiet
  <2>2. Quiet' /\ KernelSide'
    BY <2>1, <1>3, <1>4, <1>5, <1>6 DEF Quiet, NotSent, Level, Current, Ready_pc
  <2> QED BY <2>2, <1>2 DEF DiskInv
<1>7. CASE Asked
  <2>1. Asked' /\ KernelSide'
    BY <1>3, <1>4, <1>5, <1>7 DEF Asked, NotSent, Level, Behind, Ready_pc
  <2> QED BY <2>1, <1>2 DEF DiskInv
<1>8. CASE Sent
  <2>1. Sent' /\ KernelSide'
    BY <1>3, <1>4, <1>5, <1>8 DEF Sent, Kept, Behind
  <2> QED BY <2>1, <1>2 DEF DiskInv
<1>9. CASE Served
  <2>1. Served' /\ KernelSide'
    BY <1>3, <1>4, <1>5, <1>9 DEF Served, Kept, Current
  <2> QED BY <2>1, <1>2 DEF DiskInv
<1>10. CASE Done
  <2>1. Done' /\ KernelSide'
    BY <1>3, <1>4, <1>5, <1>10 DEF Done, NotSent, Level, Current
  <2> QED BY <2>1, <1>2 DEF DiskInv
<1> QED BY <1>6, <1>7, <1>8, <1>9, <1>10 DEF DiskInv

LEMMA FsCallInv ==
  ASSUME DiskInv, Running(fatfs), NEW c \in Calls, FsCall(c)
  PROVE  DiskInv'
<1>1. KernelSide /\ IrqSide /\ DataType /\ kernel_curr_act = fatfs /\ sched_status[fatfs] = "runnable"
  BY DEF DiskInv, KernelSide, Running
<1>2. Quiet /\ Core(Now, "runnable", pc, {})
  BY <1>1 DEF DiskInv, Quiet, Asked, Sent, Served, Done, Core, Base, Now
<1>3. /\ unique < MaxCalls /\ ccall_sync(vblk, TRUE, c) /\ call' = c
      /\ c.op \in {"read", "write"} => avail_idx < MaxRequests
      /\ written' = IF c.op = "write" THEN [written EXCEPT ![c.sector] = c.value] ELSE written
      /\ UNCHANGED <<int_child, im, pc, sync_token, init, used, req_token, avail_idx,
                     last_used_idx, ring, used_idx, request, disk, isr, buf>>
  BY DEF FsCall, ivars, drvvars, devvars
<1>4. /\ Switched("sync_block", pc, {[v0 |-> c, c1 |-> [aid |-> fatfs, unique |-> unique + 1]]})
      /\ KernelSide' /\ expected_reply' = [expected_reply EXCEPT ![fatfs] = unique + 1]
  BY <1>1, <1>2, <1>3, CallCore
<1>5. tok' = [aid |-> fatfs, unique |-> unique + 1] /\ Next_s = Now'
  BY <1>1, <1>4, Ids DEF tok, Now, Next_s, KernelSide, KTypeOK
<1>6. IrqSide' /\ DataType'
  BY <1>1, <1>3, CallFacts DEF IrqSide, IrqTypeOK, DataType
<1>7. Behind'
  BY <1>2, <1>3, CallFacts DEF Behind, Quiet, Current
<1>8. Asked'
  BY <1>2, <1>3, <1>4, <1>5, <1>7 DEF Quiet, Asked, NotSent, Level, Ready_pc, Switched
<1> QED BY <1>4, <1>6, <1>8 DEF DiskInv

LEMMA FsExitInv ==
  ASSUME DiskInv, Running(fatfs), FsExit
  PROVE  DiskInv'
<1> DEFINE t == sched_delete(Now, fatfs)
<1>1. KernelSide /\ IrqSide /\ DataType /\ kernel_curr_act = fatfs /\ sched_status[fatfs] = "runnable"
      /\ panic = "no" /\ 0 \in Aid
  BY Ids DEF DiskInv, KernelSide, Running
<1>2. Quiet /\ Core(Now, "runnable", pc, {})
  BY <1>1 DEF DiskInv, Quiet, Asked, Sent, Served, Done, Core, Base, Now
<1>3. /\ SchedOK(Now) /\ sched_status \in [Aid -> SchedStatus] /\ rq \in RunQueues
      /\ Lists(rq, Active(sched_status)) /\ fatfs \in Active(sched_status)
      /\ Active(sched_status) \in SUBSET Aid /\ sched_status[0] = "terminated"
  BY <1>1, <1>2, Ids DEF Core, Base, SchedOK, SchedType, Now, Active
<1>4. rq.squeue_a[rq.aqueue[fatfs]] = fatfs /\ rq.end # 0
  BY <1>3, QDelAssert DEF QDEL_assert
<1>5. /\ t.st = [sched_status EXCEPT ![fatfs] = "terminated"] /\ t.rq = QDEL(rq, fatfs)
      /\ t.mq = msg_queues /\ t.fr = frame
  BY <1>4 DEF sched_delete, Now
<1>6. Active(t.st) = Active(sched_status) \ {fatfs}
  <2>1. "terminated" \in {"waiting", "sync_block", "terminated"}
    OBVIOUS
  <2>2. Active([sched_status EXCEPT ![fatfs] = "terminated"]) = Active(sched_status) \ {fatfs}
    BY <2>1, <1>3, ActiveRemove, Ids, Zenon
  <2> QED BY <2>2, <1>5, Zenon
<1>7. SchedOK(t)
  <2>1. t.rq \in RunQueues /\ Lists(t.rq, Active(t.st))
    <3>1. /\ QDEL(rq, fatfs) \in RunQueues
          /\ Lists(QDEL(rq, fatfs), Active(sched_status) \ {fatfs})
      BY <1>3, QDelLists
    <3> HIDE DEF t
    <3> QED BY <3>1, <1>5, <1>6
  <2>2. t.st \in [Aid -> SchedStatus] /\ t.st[0] = "terminated"
    BY <1>3, <1>5, Ids DEF SchedStatus
  <2>3. \A a \in Aid : Mail(t, a)
    BY <1>3, <1>5 DEF Mail, SchedOK, Now
  <2> QED BY <2>1, <2>2, <2>3, <1>3, <1>5 DEF SchedOK, SchedType, Now
<1>8. Core(t, "terminated", pc, {})
  BY <1>2, <1>3, <1>5, <1>7, Ids DEF Core, Base, Drive, Queue, Now
<1>9. /\ sched_reschedule(t, 0) /\ status' = [status EXCEPT ![fatfs] = "terminated"]
      /\ UNCHANGED <<expected_reply, kernel_next_act, unique, ivars, fsvars, pc, sync_token,
                     drvvars, devvars>>
  BY <1>1, <1>4 DEF FsExit, act_terminate
<1>10. Switched("terminated", pc, {})
  <2> HIDE DEF t
  <2> QED BY <1>1, <1>8, <1>9, RescheduleCore
<1>11. KernelSide'
  <2>1. status' \in [Aid -> Status] /\ status'[vblk] = "alive"
    BY <1>1, <1>9, Ids DEF KernelSide, KTypeOK, Status
  <2> HIDE DEF t
  <2> QED BY <2>1, <1>1, <1>9, <1>10, KernelAfter DEF KernelSide, KTypeOK
<1>12. IrqSide' /\ DataType'
  BY <1>1, <1>9 DEF IrqSide, IrqTypeOK, DataType, ivars, fsvars, drvvars, devvars
<1>13. Quiet'
  <2>1. Next_s = Now'
    BY DEF Now, Next_s
  <2>2. Core(Now, "terminated", pc, {})'
    BY <2>1, <1>9, <1>10 DEF Switched
  <2> QED BY <2>2, <1>2, <1>9 DEF Quiet, NotSent, Level, Current, Ready_pc, fsvars, drvvars, devvars
<1> QED BY <1>11, <1>12, <1>13 DEF DiskInv

(* The driver's main, up to its first wait.                                *)
LEMMA MainInv ==
  ASSUME DiskInv, Running(vblk), MainRegister \/ MainEnable \/ ToMsg
  PROVE  DiskInv'
<1>1. KernelSide /\ IrqSide /\ DataType /\ kernel_curr_act = vblk /\ panic = "no"
      /\ sched_status[vblk] = "runnable"
  BY DEF DiskInv, KernelSide, Running
<1>2. /\ pc \in {"register", "enable", "to_msg"}
      /\ UNCHANGED <<call, written, sync_token, init, used, req_token, avail_idx,
                     last_used_idx, ring, used_idx, request, disk, isr, buf, expected_reply>>
  BY DEF MainRegister, MainEnable, ToMsg, fsvars, drvvars, devvars, kvars, ivars, creturn_null,
         kernel_interrupt_register, kernel_interrupt_enable
<1>3. DataType'
  BY <1>1, <1>2 DEF DataType
<1>4. Quiet \/ Asked
  BY <1>2 DEF DiskInv, Sent, Served, Done, Kept
<1>5. PICK f \in {"runnable", "terminated", "sync_block"},
           box \in {{}, {[v0 |-> call, c1 |-> tok]}} :
        /\ Core(Now, f, pc, box)
        /\ f = "sync_block" => Asked /\ box = {[v0 |-> call, c1 |-> tok]}
        /\ f # "sync_block" => Quiet /\ box = {}
  BY <1>4 DEF Quiet, Asked
<1>6. tok' = tok /\ Now' = Next_s
  BY <1>2 DEF tok, Now, Next_s
<1>7. ASSUME Core(Next_s, f, pc', box), pc' \in Ready_pc PROVE Quiet' \/ Asked'
  BY <1>2, <1>5, <1>6, <1>7 DEF Quiet, Asked, NotSent, Level, Current, Behind
<1>8. CASE MainRegister \/ MainEnable
  <2>1. UNCHANGED kvars /\ pc' \in {"enable", "to_msg"}
    BY <1>8 DEF MainRegister, MainEnable, kernel_interrupt_register, kernel_interrupt_enable
  <2> IrqSide'
    <3>1. Irq = {4} /\ int_child \in [Irq -> Aid] /\ im \in SUBSET Irq /\ vblk \in Aid
      BY <1>1, DiskAssumption, Ids DEF IrqSide, IrqTypeOK
    <3>2. CASE MainRegister
      <4>1. int_child' = [int_child EXCEPT ![4] = vblk] /\ im' = im
        BY <1>1, <3>2 DEF MainRegister, kernel_interrupt_register
      <4> QED BY <4>1, <3>1 DEF IrqSide, IrqTypeOK
    <3>3. CASE MainEnable
      <4>1. int_child' = int_child /\ im' = im \cup {4} /\ int_child[4] = vblk
        BY <1>1, <3>3 DEF MainEnable, kernel_interrupt_enable
      <4> QED BY <4>1, <3>1 DEF IrqSide, IrqTypeOK
    <3> QED BY <3>2, <3>3, <1>8
  <2>2. KernelSide'
    BY <2>1, <1>1 DEF KernelSide, KTypeOK, kvars
  <2>3. Core(Next_s, f, pc', box)
    <3>1. Next_s = Now
      BY <2>1 DEF Next_s, Now, kvars
    <3> QED BY <3>1, <2>1, <1>2, <1>5 DEF Core, Drive
  <2> QED BY <2>1, <2>2, <2>3, <1>3, <1>7 DEF DiskInv, Ready_pc
<1>9. CASE ToMsg
  <2>1. creturn_null(OK) /\ pc' = "msg_entry" /\ UNCHANGED ivars
    BY <1>9 DEF ToMsg
  <2>2. Base(Now, f) /\ Queue(Now, box)
    BY <1>2, <1>5 DEF Core, Drive
  <2>3. Switched(f, "msg_entry", box) /\ KernelSide'
    BY <2>1, <2>2, <1>1, ReturnNull
  <2>4. IrqSide'
    BY <2>1, <1>1 DEF IrqSide, IrqTypeOK, ivars
  <2> QED BY <2>1, <2>3, <2>4, <1>3, <1>7 DEF DiskInv, Ready_pc, Switched
<1> QED BY <1>8, <1>9

(* A message that the driver serves is the call, before it is sent, or the *)
(* device's interrupt, after it.                                           *)
LEMMA ServedIs ==
  ASSUME DiskInv, Running(vblk), pc = "msg_entry"
  PROVE  /\ Base(Now, "sync_block") /\ Queue(Now, {})
         /\ \/ Asked /\ frame[vblk].v0 = call /\ c1 = tok
            \/ Served /\ frame[vblk].v0 = INT /\ c1 = NULL /\ 4 \notin im
<1>1. KernelSide /\ kernel_curr_act = vblk /\ sched_status[vblk] = "runnable"
  BY DEF DiskInv, KernelSide, Running
<1>2. ASSUME NEW f, NEW box, Core(Now, f, pc, box)
      PROVE  Queue(Now, {}) /\ box = {frame[vblk]} /\ Base(Now, f)
  BY <1>1, <1>2 DEF Core, Drive, Now
<1>3. ~Quiet /\ ~Sent
  BY <1>2 DEF Quiet, Sent
<1>4. CASE Asked
  BY <1>2, <1>4 DEF Asked, c1
<1>5. CASE Served
  <2>1. ~Core(Now, "sync_block", pc, {})
    BY <1>2
  <2>2. 4 \notin im /\ Core(Now, "sync_block", pc, {[v0 |-> INT, c1 |-> NULL]})
    BY <2>1, <1>5 DEF Served
  <2> QED BY <2>2, <1>2, <1>5 DEF c1
<1>6. ~Done
  BY DEF Done
<1> QED BY <1>3, <1>4, <1>5, <1>6 DEF DiskInv

(* The call is answered.                                                   *)
LEMMA AnswerInv ==
  ASSUME KernelSide, IrqSide, DataType', kernel_curr_act = vblk,
         Base(Now, "sync_block"), Queue(Now, {}), Answer(tok),
         UNCHANGED ivars, NotSent', Current'
  PROVE  DiskInv'
<1>1. creturn_sync(tok, OK) /\ pc' = "msg_entry"
  BY TokFacts DEF Answer, CReturn
<1>2. Switched("runnable", "msg_entry", {}) /\ KernelSide'
  BY <1>1, ReturnTok
<1>3. IrqSide'
  BY DEF IrqSide, IrqTypeOK, ivars
<1>4. Next_s = Now'
  BY DEF Now, Next_s
<1>5. Quiet'
  BY <1>1, <1>2, <1>4 DEF Quiet, Ready_pc, Switched
<1> QED BY <1>2, <1>3, <1>5 DEF DiskInv

LEMMA InitInv ==
  ASSUME DiskInv, Running(vblk), vblk_init
  PROVE  DiskInv'
<1>1. KernelSide /\ IrqSide /\ DataType /\ kernel_curr_act = vblk
  BY DEF DiskInv, Running
<1>2. /\ pc = "msg_entry" /\ frame[vblk].v0.op = "init"
      /\ init' = TRUE /\ used' = FALSE /\ req_token' = NULL /\ avail_idx' = 0
      /\ last_used_idx' = 0 /\ ring' = Empty /\ used_idx' = 0 /\ request' = NULL
      /\ isr' = FALSE /\ Answer(c1) /\ sync_token' = c1
      /\ UNCHANGED <<ivars, call, written, disk, buf>>
  BY DEF vblk_init, Serves, reset_queue, fsvars, Answer
<1>3. /\ Base(Now, "sync_block") /\ Queue(Now, {})
      /\ Asked /\ frame[vblk].v0 = call /\ c1 = tok
  BY <1>2, ServedIs, DiskAssumption
<1>4. Current'
  BY <1>2, <1>3 DEF Current, Behind, Asked
<1>5. NotSent'
  BY <1>2 DEF NotSent, Level
<1>6. DataType'
  <2>1. Empty \in [0 .. num - 1 -> BOOLEAN] /\ 0 \in 0 .. MaxRequests
    BY DiskAssumption DEF Empty
  <2>2. sync_token' \in Token \cup {NULL}
    BY <1>1, <1>2, <1>3, TokFacts
  <2> QED BY <2>1, <2>2, <1>1, <1>2 DEF DataType
<1> QED BY <1>1, <1>2, <1>3, <1>4, <1>5, <1>6, AnswerInv

LEMMA StatusInv ==
  ASSUME DiskInv, Running(vblk), vblk_status
  PROVE  DiskInv'
<1>1. KernelSide /\ IrqSide /\ DataType /\ kernel_curr_act = vblk
  BY DEF DiskInv, Running
<1>2. /\ pc = "msg_entry" /\ frame[vblk].v0.op = "status" /\ Answer(c1) /\ sync_token' = c1
      /\ UNCHANGED <<ivars, call, written, init, used, req_token, avail_idx,
                     last_used_idx, ring, used_idx, request, disk, isr, buf>>
  BY DEF vblk_status, Serves, fsvars, Answer, drvvars, devvars
<1>3. /\ Base(Now, "sync_block") /\ Queue(Now, {})
      /\ Asked /\ frame[vblk].v0 = call /\ c1 = tok
  BY <1>2, ServedIs, DiskAssumption
<1>4. Current' /\ NotSent'
  BY <1>2, <1>3 DEF Current, Behind, Asked, NotSent, Level
<1>5. DataType'
  BY <1>1, <1>2, <1>3, TokFacts DEF DataType
<1> QED BY <1>1, <1>2, <1>3, <1>4, <1>5, AnswerInv

(* The driver's own steps, which do not enter the kernel.                  *)
LEMMA OwnCore ==
  ASSUME KernelSide, IrqSide, UNCHANGED <<kvars, ivars>>
  PROVE  KernelSide' /\ IrqSide' /\ tok' = tok /\ Now' = Now
BY DEF KernelSide, KTypeOK, IrqSide, IrqTypeOK, kvars, ivars, tok, Now

(* The request is free.                                                    *)
LEMMA RwInv ==
  ASSUME DiskInv, Running(vblk), vblk_rw
  PROVE  DiskInv'
<1>1. KernelSide /\ IrqSide /\ DataType /\ kernel_curr_act = vblk /\ sched_status[vblk] = "runnable"
  BY DEF DiskInv, Running, KernelSide
<1>2. pc = "msg_entry" /\ frame[vblk].v0.op \in {"read", "write"}
  BY DEF vblk_rw, Serves
<1>3. /\ Base(Now, "sync_block") /\ Queue(Now, {})
      /\ Asked /\ frame[vblk].v0 = call /\ c1 = tok
  BY <1>2, ServedIs, DiskAssumption
<1>4. /\ used' = TRUE /\ sync_token' = tok /\ req_token' = tok /\ avail_idx' = avail_idx + 1
      /\ request' = call /\ pc' = "vblk_send_done"
      /\ UNCHANGED <<kvars, ivars, call, written, init, last_used_idx, ring, used_idx, disk, isr, buf>>
  BY <1>3 DEF vblk_rw, keep_token, Asked, NotSent, fsvars
<1>5. KernelSide' /\ IrqSide' /\ tok' = tok /\ Now' = Now
  BY <1>1, <1>4, OwnCore
<1>6. DataType'
  <2>1. avail_idx + 1 \in 0 .. MaxRequests
    BY <1>1, <1>2, <1>3, DiskAssumption DEF Asked, DataType
  <2> QED BY <2>1, <1>1, <1>3, <1>4, TokFacts DEF DataType, Asked
<1>7. Core(Now, "sync_block", "vblk_send_done", {})
  BY <1>1, <1>3 DEF Core, Drive, Now
<1>8. Sent'
  BY <1>2, <1>3, <1>4, <1>5, <1>7 DEF Sent, Kept, Asked, Behind, NotSent, Level
<1> QED BY <1>5, <1>6, <1>8 DEF DiskInv

(* The call is not answered yet.                                           *)
LEMMA SendDoneInv ==
  ASSUME DiskInv, Running(vblk), vblk_send_done
  PROVE  DiskInv'
<1>1. KernelSide /\ IrqSide /\ DataType /\ kernel_curr_act = vblk
  BY DEF DiskInv, Running
<1>2. /\ pc = "vblk_send_done" /\ pc' = "msg_entry" /\ sync_token' = NULL /\ creturn_null(OK)
      /\ UNCHANGED <<int_child, im, call, written, init, used, req_token, avail_idx,
                     last_used_idx, ring, used_idx, request, disk, isr, buf, expected_reply>>
  BY DEF vblk_send_done, Answer, CReturn, creturn_null, ivars, fsvars, drvvars, devvars
<1>3. IrqSide' /\ DataType'
  BY <1>1, <1>2 DEF IrqSide, IrqTypeOK, DataType
<1>4. ASSUME NEW box, Core(Now, "sync_block", pc, box)
      PROVE  Core(Next_s, "sync_block", pc', box) /\ KernelSide'
  <2>1. Base(Now, "sync_block") /\ Queue(Now, box)
    BY <1>2, <1>4 DEF Core, Drive
  <2>2. Switched("sync_block", "msg_entry", box) /\ KernelSide'
    BY <2>1, <1>1, <1>2, ReturnNull
  <2> QED BY <2>2, <1>2 DEF Switched
<1>5. tok' = tok /\ Now' = Next_s
  BY <1>2 DEF tok, Now, Next_s
<1>6. Sent \/ Served
  BY <1>2 DEF DiskInv, Quiet, Asked, Done, Ready_pc
<1>7. CASE Sent
  <2>1. Sent' /\ KernelSide'
    BY <1>2, <1>4, <1>5, <1>7 DEF Sent, Kept, Behind
  <2> QED BY <2>1, <1>3 DEF DiskInv
<1>8. CASE Served
  <2>1. Served' /\ KernelSide'
    BY <1>2, <1>4, <1>5, <1>8 DEF Served, Kept, Current
  <2> QED BY <2>1, <1>3 DEF DiskInv
<1> QED BY <1>6, <1>7, <1>8

(* The interrupt finds the request done.                                   *)
LEMMA InterruptedInv ==
  ASSUME DiskInv, Running(vblk), vblk_interrupt
  PROVE  DiskInv'
<1>1. KernelSide /\ IrqSide /\ DataType /\ kernel_curr_act = vblk /\ sched_status[vblk] = "runnable"
  BY DEF DiskInv, Running, KernelSide
<1>2. pc = "msg_entry" /\ frame[vblk].v0.op = INT.op
  BY DEF vblk_interrupt, Serves
<1>3. Served /\ Base(Now, "sync_block") /\ Queue(Now, {})
  <2>1. Asked => call.op # INT.op
    BY CallFacts DEF Asked
  <2> QED BY <2>1, <1>2, ServedIs
<1>4. /\ last_used_idx' = last_used_idx + 1 /\ used' = FALSE /\ isr' = FALSE
      /\ sync_token' = tok /\ pc' = "interrupt_enable"
      /\ UNCHANGED <<kvars, ivars, call, written, init, req_token, avail_idx, ring, used_idx,
                     request, disk, buf>>
  BY <1>3 DEF vblk_interrupt, vblk_rw_ret, Served, Kept, fsvars
<1>5. KernelSide' /\ IrqSide' /\ tok' = tok /\ Now' = Now
  BY <1>1, <1>4, OwnCore
<1>6. DataType'
  <2>1. sync_token' \in Token \cup {NULL} /\ last_used_idx + 1 \in Nat
    BY <1>1, <1>4, TokFacts DEF DataType
  <2> QED BY <2>1, <1>1, <1>4 DEF DataType
<1>7. Core(Now, "sync_block", "interrupt_enable", {})
  BY <1>1, <1>3 DEF Core, Drive, Now
<1>8. Done'
  BY <1>3, <1>4, <1>5, <1>7 DEF Done, Served, NotSent, Level, Current, Kept
<1> QED BY <1>5, <1>6, <1>8 DEF DiskInv

LEMMA ReturnInv ==
  ASSUME DiskInv, Running(vblk), interrupt_enable \/ interrupt_return
  PROVE  DiskInv'
<1>1. KernelSide /\ IrqSide /\ DataType /\ kernel_curr_act = vblk /\ sched_status[vblk] = "runnable"
  BY DEF DiskInv, Running, KernelSide
<1>2. /\ pc \in {"interrupt_enable", "return"}
      /\ UNCHANGED <<call, written, init, used, req_token, avail_idx, last_used_idx, ring,
                     used_idx, request, disk, isr, buf>>
  BY DEF interrupt_enable, interrupt_return, fsvars, drvvars, devvars
<1>3. Done
  BY <1>2 DEF DiskInv, Quiet, Asked, Sent, Served, Kept, Ready_pc
<1>4. Base(Now, "sync_block") /\ Queue(Now, {}) /\ sync_token = tok
  BY <1>2, <1>3 DEF Done, Core, Drive
<1>5. Current' /\ NotSent'
  BY <1>2, <1>3 DEF Done, Current, NotSent, Level
<1>6. CASE interrupt_enable
  <2>1. /\ UNCHANGED <<kvars, int_child, sync_token>> /\ im' = im \cup {4} /\ pc' = "return"
        /\ int_child[4] = vblk
    BY <1>1, <1>6 DEF interrupt_enable, kernel_interrupt_enable
  <2>2. KernelSide' /\ IrqSide' /\ tok' = tok /\ Now' = Now
    BY <2>1, <1>1, DiskAssumption
       DEF KernelSide, KTypeOK, IrqSide, IrqTypeOK, kvars, tok, Now
  <2>3. DataType'
    BY <2>1, <1>1, <1>2 DEF DataType
  <2>4. Core(Now, "sync_block", "return", {})
    BY <1>1, <1>4 DEF Core, Drive, Now
  <2>5. Done'
    BY <2>1, <2>2, <2>4, <1>4, <1>5 DEF Done
  <2> QED BY <2>2, <2>3, <2>5 DEF DiskInv
<1>7. CASE interrupt_return
  <2>1. Answer(tok) /\ UNCHANGED ivars /\ sync_token' = tok
    BY <1>4, <1>7 DEF interrupt_return, Answer
  <2>2. DataType'
    BY <2>1, <1>1, <1>2, TokFacts DEF DataType
  <2> QED BY <2>1, <2>2, <1>1, <1>4, <1>5, AnswerInv
<1> QED BY <1>6, <1>7

LEMMA DriverInv ==
  ASSUME DiskInv, DriverStep
  PROVE  DiskInv'
BY MainInv, InitInv, StatusInv, RwInv, SendDoneInv, InterruptedInv, ReturnInv DEF DriverStep

LEMMA DeviceInv ==
  ASSUME DiskInv, Device
  PROVE  DiskInv'
<1>1. KernelSide /\ IrqSide /\ DataType
  BY DEF DiskInv
<1>2. /\ request # NULL
      /\ ring' = [ring EXCEPT ![used_idx % num] = TRUE] /\ used_idx' = used_idx + 1
      /\ request' = NULL /\ isr' = TRUE
      /\ IF request.op = "read"
           THEN buf' = disk[request.sector] /\ UNCHANGED disk
           ELSE disk' = [disk EXCEPT ![request.sector] = request.value] /\ UNCHANGED buf
      /\ UNCHANGED <<kvars, ivars, call, written, pc, sync_token, init, used, req_token,
                     avail_idx, last_used_idx>>
  BY DEF Device, fsvars, drvvars
<1>3. Sent
  BY <1>2 DEF DiskInv, Quiet, Asked, Served, Done, NotSent
<1>4. /\ request = call /\ call \in Calls /\ call.op \in {"read", "write"} /\ Behind
      /\ call.sector \in Sectors
      /\ call.op = "write" => call.value \in Values
  BY <1>3, CallFacts DEF Sent
<1>5. KernelSide' /\ IrqSide' /\ tok' = tok /\ Now' = Now
  BY <1>1, <1>2, OwnCore
<1>6. used_idx % num \in 0 .. num - 1 /\ used_idx + 1 \in Nat /\ used_idx = last_used_idx
      /\ ring \in [0 .. num - 1 -> BOOLEAN]
  BY <1>1, <1>3, DiskAssumption DEF DataType, Sent
<1>7. disk' \in [Sectors -> Values] /\ buf' \in Values /\ Current'
  <2>1. disk \in [Sectors -> Values] /\ written \in [Sectors -> Values] /\ buf \in Values
    BY <1>1 DEF DataType
  <2>2. CASE call.op = "read"
    <3>1. disk = written /\ buf' = disk[call.sector] /\ disk' = disk
      BY <2>2, <1>2, <1>4 DEF Behind
    <3>2. disk[call.sector] \in Values /\ disk' = written' /\ call' = call
          /\ buf' = written'[call.sector]
      BY <3>1, <2>1, <1>2, <1>4
    <3> QED BY <3>1, <3>2, <2>1 DEF Current
  <2>3. CASE call.op = "write"
    <3>1. /\ written = [disk EXCEPT ![call.sector] = call.value] /\ buf' = buf
          /\ disk' = [disk EXCEPT ![call.sector] = call.value]
      BY <2>3, <1>2, <1>4 DEF Behind
    <3> QED BY <3>1, <2>1, <2>3, <1>2, <1>4 DEF Current
  <2> QED BY <2>2, <2>3, <1>4
<1>8. ring' \in [0 .. num - 1 -> BOOLEAN] /\ ring'[last_used_idx' % num]
  BY <1>2, <1>6
<1>9. DataType'
  BY <1>1, <1>2, <1>6, <1>7, <1>8 DEF DataType
<1>10. Served'
  BY <1>2, <1>3, <1>5, <1>6, <1>7, <1>8 DEF Served, Sent, Kept
<1> QED BY <1>5, <1>9, <1>10 DEF DiskInv

LEMMA IrqInv ==
  ASSUME DiskInv, Interrupt
  PROVE  DiskInv'
<1>1. KernelSide /\ IrqSide /\ DataType
  BY DEF DiskInv
<1>2. /\ isr /\ 4 \in im /\ kernel_interrupt_others(4)
      /\ UNCHANGED <<call, written, pc, sync_token, init, used, req_token, avail_idx,
                     last_used_idx, ring, used_idx, request, disk, isr, buf, expected_reply>>
  BY DEF Interrupt, kernel_interrupt_others, fsvars, drvvars, devvars
<1>3. Served /\ Core(Now, "sync_block", pc, {})
  BY <1>2 DEF DiskInv, Quiet, Asked, Sent, Served, Done, NotSent
<1>4. /\ KernelSide' /\ IrqSide' /\ 4 \notin im'
      /\ Core(Next_s, "sync_block", pc, {[v0 |-> INT, c1 |-> NULL]})
  BY <1>1, <1>2, <1>3, InterruptCore
<1>5. DataType'
  BY <1>1, <1>2 DEF DataType
<1>6. tok' = tok /\ Now' = Next_s
  BY <1>2 DEF tok, Now, Next_s
<1>7. Served'
  BY <1>2, <1>3, <1>4, <1>6 DEF Served, Kept, Current
<1> QED BY <1>4, <1>5, <1>7 DEF DiskInv

LEMMA DiskInit == Init => DiskInv
<1> SUFFICES ASSUME Init PROVE DiskInv
  OBVIOUS
<1> DEFINE q1 == QADD(EmptyRunQueue, booter)
           q2 == QADD(q1, vblk)
           q3 == QADD(q2, fatfs)
<1>1. EmptyRunQueue \in RunQueues /\ Lists(EmptyRunQueue, {})
  BY MaxActivationsAssumption DEF EmptyRunQueue, RunQueues, Lists, Aid
<1>2. q1 \in RunQueues /\ Lists(q1, {booter})
  <2>1. q1 \in RunQueues /\ Lists(q1, {} \cup {booter})
    BY <1>1, QAddLists, Ids
  <2>2. {} \cup {booter} = {booter}
    OBVIOUS
  <2> QED BY <2>1, <2>2
<1>3. q2 \in RunQueues /\ Lists(q2, {booter, vblk})
  <2> HIDE DEF q1
  <2>1. {booter} \in SUBSET (Aid \ {0}) /\ vblk \in Aid \ {0} /\ vblk \notin {booter}
    BY Ids
  <2>2. q2 \in RunQueues /\ Lists(q2, {booter} \cup {vblk})
    BY <2>1, <1>2, QAddLists
  <2>3. {booter} \cup {vblk} = {booter, vblk}
    OBVIOUS
  <2> QED BY <2>2, <2>3
<1>4. q3 \in RunQueues /\ Lists(q3, {booter, vblk, fatfs})
  <2> HIDE DEF q2
  <2>1. {booter, vblk} \in SUBSET (Aid \ {0}) /\ fatfs \in Aid \ {0} /\ fatfs \notin {booter, vblk}
    BY Ids
  <2>2. q3 \in RunQueues /\ Lists(q3, {booter, vblk} \cup {fatfs})
    BY <2>1, <1>3, QAddLists
  <2>3. {booter, vblk} \cup {fatfs} = {booter, vblk, fatfs}
    OBVIOUS
  <2> QED BY <2>2, <2>3
<1>5. /\ sched_status = [a \in Aid |-> IF a = 0 THEN "terminated" ELSE "runnable"]
      /\ msg_queues = [a \in Aid |-> [start |-> 0, end |-> 0, msg |-> [i \in Slot |-> NoMsg]]]
      /\ frame = [a \in Aid |-> NoMsg] /\ rq = q3
  BY DEF Init
<1>6. NoMsg \in Msg /\ 0 \in Slot
  BY MaxMsgAssumption DEF NoMsg, Msg, Slot
<1>7. SchedOK(Now)
  <2>1. Active(sched_status) = {booter, vblk, fatfs}
    BY <1>5, Ids DEF Active, booter, vblk, fatfs
  <2>2. /\ sched_status \in [Aid -> SchedStatus] /\ msg_queues \in [Aid -> Rings(Msg)]
        /\ frame \in [Aid -> Msg] /\ sched_status[0] = "terminated"
    BY <1>5, <1>6, Ids DEF SchedStatus, Rings
  <2>3. \A a \in Aid : Mail(Now, a)
    BY <1>5 DEF Mail, Now
  <2>4. rq \in RunQueues /\ Lists(rq, Active(sched_status))
    BY <2>1, <1>4, <1>5
  <2> QED BY <2>2, <2>3, <2>4 DEF SchedOK, SchedType, Now
<1>8. KernelSide
  <2>1. KTypeOK
    <3>1. SchedType(Now)
      BY <1>7 DEF SchedOK
    <3>2. /\ status \in [Aid -> Status] /\ expected_reply \in [Aid -> 0 .. UNIQUE_MOD - 1]
          /\ kernel_curr_act \in Aid /\ kernel_next_act \in 0 .. MAX_ACTIVATIONS
          /\ unique \in 0 .. UNIQUE_MOD - 1 /\ panic = "no"
      BY ModAssumption, DiskAssumption, Ids DEF Init, Status
    <3> QED BY <3>1, <3>2 DEF KTypeOK, SchedType, Now
  <2> QED BY <2>1, <1>5, Ids, DiskAssumption DEF Init, KernelSide
<1>9. IrqSide
  BY DiskAssumption, Ids DEF Init, interrupts_init, IrqSide, IrqTypeOK
<1>10. DataType
  <2>1. Empty \in [0 .. num - 1 -> BOOLEAN]
    BY DEF Empty
  <2>2. disk \in [Sectors -> Values] /\ written \in [Sectors -> Values] /\ buf \in Values
    BY DEF Init
  <2>3. call \in Calls \cup {[op |-> "none"]} /\ 0 \in 0 .. MaxRequests
    BY DiskAssumption DEF Init
  <2> QED BY <2>1, <2>2, <2>3 DEF Init, DataType
<1>11. Core(Now, "runnable", pc, {})
  BY <1>5, <1>7, Ids DEF Init, Core, Base, Drive, Queue, empty, Now
<1>12. Quiet
  BY <1>11 DEF Init, Quiet, Ready_pc, NotSent, Level, Current
<1> QED BY <1>8, <1>9, <1>10, <1>12 DEF DiskInv

LEMMA DiskStep == DiskInv /\ [Next]_vars => DiskInv'
<1> SUFFICES ASSUME DiskInv, [Next]_vars PROVE DiskInv'
  OBVIOUS
<1>1. CASE InitStep
  BY <1>1, YieldInv DEF InitStep, syscall_sleep
<1>2. CASE FsStep
  BY <1>2, FsCallInv, FsExitInv DEF FsStep
<1>3. CASE DriverStep
  BY <1>3, DriverInv
<1>4. CASE Device
  BY <1>4, DeviceInv
<1>5. CASE Interrupt
  BY <1>5, IrqInv
<1>6. CASE Tick
  BY <1>6, YieldInv DEF Tick, kernel_timer
<1>7. CASE UNCHANGED vars
  <2>1. /\ UNCHANGED <<kvars, ivars, call, written, pc, sync_token, init, used, req_token,
                       avail_idx, last_used_idx, ring, used_idx, request, disk, isr, buf>>
    BY <1>7 DEF vars, fsvars, drvvars, devvars
  <2>2. KernelSide' /\ IrqSide' /\ tok' = tok /\ Now' = Now /\ im' = im
    BY <2>1, OwnCore DEF DiskInv, ivars
  <2>3. DataType'
    BY <2>1 DEF DiskInv, DataType
  <2>4. /\ Quiet => Quiet'
        /\ Asked => Asked'
        /\ Sent => Sent'
        /\ Served => Served'
        /\ Done => Done'
    BY <2>1, <2>2
       DEF Quiet, Asked, Sent, Served, Done, NotSent, Level, Kept, Current, Behind, Ready_pc
  <2>5. Quiet \/ Asked \/ Sent \/ Served \/ Done
    BY DEF DiskInv
  <2> QED BY <2>2, <2>3, <2>4, <2>5 DEF DiskInv
<1> QED BY <1>1, <1>2, <1>3, <1>4, <1>5, <1>6, <1>7 DEF Next, ProgramStep, Halted

----------------------------------------------------------------------------
(* The invariant: whatever the order of the programs, the device, its      *)
(* interrupt and the timer, a call goes through its phases.                *)
THEOREM DiskInvariant == Spec => []DiskInv
<1>1. DiskInv /\ [Next]_vars => DiskInv'
  BY DiskStep
<1> QED BY <1>1, DiskInit, PTL DEF Spec

(* The types are right.                                                    *)
THEOREM DiskTypesHold == Spec => []TypeOK
BY DiskInvariant, DiskTypes, PTL

(* Nothing stops the machine: no queue is full, no answer unexpected, and  *)
(* no assertion of the driver fails.                                       *)
THEOREM DiskNeverStops == Spec => []NeverStops
<1>1. DiskInv => NeverStops
  BY DEF DiskInv, KernelSide, NeverStops
<1> QED BY <1>1, DiskInvariant, PTL

(* A read returns what was written last.                                   *)
THEOREM DiskReadsBack == Spec => []ReadsBack
<1>1. DiskInv => ReadsBack
  BY DEF DiskInv, Quiet, Asked, Sent, Served, Done, Core, Base, Now, ReadsBack, Blocked, Current
<1> QED BY <1>1, DiskInvariant, PTL

(* While the file system is blocked its token is in one place, from which  *)
(* the driver will answer.                                                 *)
THEOREM TokenIsKept == Spec => []TokenKept
<1>1. DiskInv => TokenKept
  <2> DEFINE InQueue == \E i \in Pending(msg_queues[vblk]) : msg_queues[vblk].msg[i].c1 = tok
             InRegister == pc = "msg_entry" /\ sched_status[vblk] = "runnable" /\ c1 = tok
             InRequest == used /\ req_token = tok
             InMemory == pc \in {"interrupt_enable", "return"} /\ sync_token = tok
             In(p) == CASE p = "queue"    -> InQueue
                        [] p = "register" -> InRegister
                        [] p = "request"  -> InRequest
                        [] p = "memory"   -> InMemory
             places == {p \in {"queue", "register", "request", "memory"} : In(p)}
  <2> SUFFICES ASSUME DiskInv, Blocked
               PROVE  \/ InQueue /\ ~InRegister /\ ~InRequest /\ ~InMemory
                      \/ InRegister /\ ~InQueue /\ ~InRequest /\ ~InMemory
                      \/ InRequest /\ ~InQueue /\ ~InRegister /\ ~InMemory
                      \/ InMemory /\ ~InQueue /\ ~InRegister /\ ~InRequest
    <3>1. (\E p \in places : places = {p}) => (Blocked => TokenKept)
      BY Zenon DEF TokenKept, tok
    <3>2. Blocked \/ TokenKept
      BY DEF TokenKept
    <3> HIDE DEF InQueue, InRegister, InRequest, InMemory
    <3>3. /\ InQueue /\ ~InRegister /\ ~InRequest /\ ~InMemory => places = {"queue"}
          /\ InRegister /\ ~InQueue /\ ~InRequest /\ ~InMemory => places = {"register"}
          /\ InRequest /\ ~InQueue /\ ~InRegister /\ ~InMemory => places = {"request"}
          /\ InMemory /\ ~InQueue /\ ~InRegister /\ ~InRequest => places = {"memory"}
      OBVIOUS
    <3> HIDE DEF places
    <3> QED BY <3>1, <3>2, <3>3
  <2>1. /\ KernelSide /\ tok # NULL /\ sched_status[fatfs] = "sync_block"
        /\ msg_queues[vblk] \in Rings(Msg)
    BY TokFacts, Ids DEF DiskInv, Blocked, KernelSide, KTypeOK
  <2>2. ASSUME Queue(Now, {}) PROVE ~InQueue
    BY <2>1, <2>2 DEF Queue, Pending, empty, Now, Rings, Slot
  <2>3. ASSUME NEW m, Queue(Now, {m}) PROVE InQueue <=> m.c1 = tok
    <3>1. /\ ~empty(msg_queues[vblk]) /\ m = front(msg_queues[vblk])
          /\ msg_queues[vblk].end = safe(msg_queues[vblk].start + 1)
      BY <2>3 DEF Queue, Now
    <3>2. Pending(msg_queues[vblk]) = {msg_queues[vblk].start}
      <4>1. /\ Pending(dequeue(msg_queues[vblk])) = Pending(msg_queues[vblk]) \ {msg_queues[vblk].start}
            /\ msg_queues[vblk].start \in Pending(msg_queues[vblk])
        BY <2>1, <3>1, DequeueRing
      <4>2. Pending(dequeue(msg_queues[vblk])) = {}
        BY <2>1, <3>1 DEF Pending, dequeue, Rings, Slot
      <4> QED BY <4>1, <4>2
    <3> QED BY <3>1, <3>2 DEF front
  <2>4. CASE Asked
    <3>1. ~InRequest /\ ~InMemory
      BY <2>4 DEF Asked, NotSent, Ready_pc
    <3>2. CASE pc # "msg_entry" \/ sched_status[vblk] # "runnable"
      <4>1. Queue(Now, {[v0 |-> call, c1 |-> tok]})
        BY <2>4, <3>2 DEF Asked, Core, Drive, Now
      <4>2. InQueue
        <5>1. InQueue <=> [v0 |-> call, c1 |-> tok].c1 = tok
          BY <4>1, <2>3
        <5> HIDE DEF InQueue
        <5> QED BY <5>1
      <4>3. ~InRegister
        BY <3>2
      <4> HIDE DEF InQueue, InRegister, InRequest, InMemory
      <4> QED BY <4>2, <4>3, <3>1
    <3>3. CASE pc = "msg_entry" /\ sched_status[vblk] = "runnable"
      <4>1. Queue(Now, {}) /\ frame[vblk] = [v0 |-> call, c1 |-> tok]
        BY <2>4, <3>3 DEF Asked, Core, Drive, Now
      <4>2. ~InQueue /\ InRegister
        BY <4>1, <2>2, <3>3 DEF c1
      <4> QED BY <3>1, <4>2
    <3> QED BY <3>2, <3>3
  <2>5. ASSUME Sent \/ Served
        PROVE  InRequest /\ ~InMemory /\ ~InQueue /\ ~InRegister
    <3>1. InRequest /\ ~InMemory
      BY <2>5 DEF Sent, Served, Kept
    <3>2. PICK box \in {{}, {[v0 |-> INT, c1 |-> NULL]}} : Core(Now, "sync_block", pc, box)
      BY <2>5 DEF Sent, Served
    <3>3. CASE Queue(Now, box) /\ (pc # "msg_entry" \/ sched_status[vblk] # "runnable")
      <4>1. ~InQueue
        BY <3>2, <3>3, <2>1, <2>2, <2>3
      <4> QED BY <4>1, <3>1, <3>3
    <3>4. CASE Queue(Now, {}) /\ box = {frame[vblk]}
      <4>1. c1 = NULL
        BY <3>2, <3>4 DEF c1
      <4> QED BY <4>1, <3>1, <3>4, <2>1, <2>2
    <3>5. Mail(Now, vblk) /\ Drive(Now, pc, box)
      BY <3>2, Ids DEF Core, Base, SchedOK
    <3>6. \/ Queue(Now, box) /\ (pc # "msg_entry" \/ sched_status[vblk] # "runnable")
          \/ Queue(Now, {}) /\ box = {frame[vblk]}
      BY <3>5 DEF Drive, Mail, Now, Queue
    <3> QED BY <3>3, <3>4, <3>6
  <2>6. CASE Done
    <3>1. Queue(Now, {}) /\ ~InRequest /\ InMemory /\ ~InRegister
      BY <2>6 DEF Done, NotSent, Core, Drive
    <3> QED BY <3>1, <2>2
  <2>7. ~Quiet
    BY <2>1 DEF Quiet, Core, Base, Now
  <2> HIDE DEF InQueue, InRegister, InRequest, InMemory
  <2> QED BY <2>4, <2>5, <2>6, <2>7 DEF DiskInv
<1> QED BY <1>1, DiskInvariant, PTL

----------------------------------------------------------------------------
(* The sync tokens in registers and memory.                                *)

(* The sync tokens in the registers: the file system has none, and the     *)
(* driver has that of the call it is about to keep, and otherwise, in its  *)
(* own code, none.                                                         *)
Regs == /\ frame[fatfs].c1 = NULL
        /\ pc \in {"register", "enable", "to_msg", "interrupt_enable", "return"}
             => frame[vblk].c1 = NULL
        /\ pc = "vblk_send_done" => frame[vblk].c1 = tok

(* The scheduler's choice leaves the registers of those that have no       *)
(* message to get.                                                         *)
LEMMA RescheduleRegs ==
  ASSUME NEW s, NEW hint, sched_reschedule(s, hint), panic' = "no",
         NEW a \in Aid, s.fr \in [Aid -> Msg], s.st[a] # "schedulable"
  PROVE  frame'[a] = s.fr[a]
<1>1. ASSUME NEW t, NEW x, SwitchTo(t, x), t.st = s.st, t.fr = s.fr
      PROVE  frame'[a] = s.fr[a]
  <2>1. CASE s.st[x] = "schedulable"
    <3>1. frame' = [s.fr EXCEPT ![x] = front(t.mq[x])]
      BY <1>1, <2>1 DEF SwitchTo, sched_schedule, kernel_panic
    <3> QED BY <3>1, <2>1
  <2>2. CASE s.st[x] # "schedulable"
    BY <1>1, <2>2 DEF SwitchTo
  <2> QED BY <2>1, <2>2
<1>2. CASE hint # 0 /\ Ready(s, hint)
  BY <1>1, <1>2 DEF sched_reschedule
<1>3. CASE ~(hint # 0 /\ Ready(s, hint))
  <2>1. PICK t, x : SwitchTo(t, x) /\ t.st = s.st /\ t.fr = s.fr
    <3> DEFINE t == [st |-> s.st, rq |-> [s.rq EXCEPT !.idx = FirstPick(s)], mq |-> s.mq, fr |-> s.fr]
    <3>1. SwitchTo(t, s.rq.squeue_a[FirstPick(s)])
      BY <1>3 DEF sched_reschedule, kernel_panic
    <3>2. t.st = s.st /\ t.fr = s.fr
      OBVIOUS
    <3> HIDE DEF t
    <3> QED BY <3>1, <3>2
  <2> QED BY <2>1, <1>1
<1> QED BY <1>2, <1>3

(* The same of an activation other than the one that goes to wait.         *)
LEMMA WaitRegs ==
  ASSUME NEW s, NEW w, NEW hint, act_wait(s, w, hint), panic' = "no",
         NEW a \in Aid, a # w, s.fr \in [Aid -> Msg], s.st[a] # "schedulable",
         s.st \in [Aid -> SchedStatus]
  PROVE  frame'[a] = s.fr[a]
<1>1. CASE sched_reschedule(sched_a2d(s, w, "waiting"), hint)
  <2> DEFINE t == sched_a2d(s, w, "waiting")
  <2>1. t.fr = s.fr /\ t.st = [s.st EXCEPT ![w] = "waiting"]
    BY DEF sched_a2d
  <2>2. t.st[a] # "schedulable" /\ sched_reschedule(t, hint)
    BY <1>1, <2>1
  <2> HIDE DEF t
  <2> QED BY <2>1, <2>2, RescheduleRegs
<1>2. CASE sched_reschedule([st |-> [s.st EXCEPT ![w] = "schedulable"],
                             rq |-> s.rq, mq |-> s.mq, fr |-> s.fr], hint)
  <2> DEFINE t == [st |-> [s.st EXCEPT ![w] = "schedulable"],
                   rq |-> s.rq, mq |-> s.mq, fr |-> s.fr]
  <2>1. t.fr = s.fr /\ t.st = [s.st EXCEPT ![w] = "schedulable"]
    OBVIOUS
  <2>2. t.st[a] # "schedulable" /\ sched_reschedule(t, hint)
    BY <1>2, <2>1
  <2> HIDE DEF t
  <2> QED BY <2>1, <2>2, RescheduleRegs
<1> QED BY <1>1, <1>2 DEF act_wait, kernel_panic

(* Who may run, in every phase.                                            *)
LEMMA StFacts ==
  ASSUME DiskInv
  PROVE  /\ sched_status \in [Aid -> SchedStatus] /\ frame \in [Aid -> Msg]
         /\ kernel_curr_act \in Aid /\ panic = "no"
         /\ sched_status[kernel_curr_act] = "runnable"
         /\ sched_status[fatfs] # "schedulable"
         /\ pc # "msg_entry" => sched_status[vblk] = "runnable"
<1>1. KernelSide
  BY DEF DiskInv
<1>2. PICK f, box : Core(Now, f, pc, box)
  BY DEF DiskInv, Quiet, Asked, Sent, Served, Done
<1> QED BY <1>1, <1>2 DEF KernelSide, KTypeOK, Core, Base, Drive, Now

(* Entering the kernel clears the sync token of the one that runs.         *)
LEMMA EnterRegs ==
  ASSUME DiskInv, NEW arg \in Arg \cup {ZERO}
  PROVE  /\ Enter(arg).fr \in [Aid -> Msg] /\ Enter(arg).st = sched_status
         /\ Enter(arg).fr[kernel_curr_act] = [v0 |-> arg, c1 |-> NULL]
         /\ \A a \in Aid : a # kernel_curr_act => Enter(arg).fr[a] = frame[a]
BY StFacts DEF Enter, Msg

(* What a step of the driver that answers leaves of the registers.         *)
LEMMA AnswerRegs ==
  ASSUME DiskInv, kernel_curr_act = vblk, NEW token \in Token \cup {NULL},
         token # NULL => token = tok,
         CReturn(token), panic' = "no", frame[fatfs].c1 = NULL
  PROVE  frame'[fatfs].c1 = NULL
<1> DEFINE e == Enter(OK)
<1>1. OK \in Arg
  BY DiskAssumption
<1>2. /\ e.fr \in [Aid -> Msg] /\ e.st = sched_status /\ e.fr[fatfs] = frame[fatfs]
      /\ sched_status[fatfs] # "schedulable" /\ sched_status \in [Aid -> SchedStatus]
  BY <1>1, EnterRegs, StFacts, Ids
<1>3. CASE token = NULL
  <2>1. act_wait(e, vblk, vblk)
    BY <1>3 DEF CReturn, creturn_null
  <2> HIDE DEF e
  <2>2. frame'[fatfs] = e.fr[fatfs]
    BY <1>2, <2>1, Ids, WaitRegs
  <2> QED BY <1>2, <2>2
<1>4. CASE token # NULL
  <2> DEFINE s == reply(token, OK)
  <2>1. act_wait(s, vblk, token.aid) /\ token.aid = fatfs
    BY <1>4 DEF CReturn, creturn_sync, kernel_panic, tok
  <2>2. s.st = [sched_status EXCEPT ![fatfs] = "runnable"]
    BY <1>2, <2>1 DEF reply, sched_d2a
  <2>3. s.fr = [e.fr EXCEPT ![fatfs] = [v0 |-> OK, c1 |-> e.fr[fatfs].c1]]
    BY <2>1 DEF reply, sched_d2a
  <2>4. s.fr \in [Aid -> Msg] /\ s.fr[fatfs].c1 = NULL
    BY <1>1, <1>2, <2>3, Ids DEF Msg
  <2>5. s.st \in [Aid -> SchedStatus] /\ s.st[fatfs] # "schedulable"
    BY <1>2, <2>2, Ids DEF SchedStatus
  <2> HIDE DEF s
  <2>6. frame'[fatfs] = s.fr[fatfs]
    BY <2>1, <2>4, <2>5, Ids, WaitRegs
  <2> QED BY <2>4, <2>6
<1> QED BY <1>3, <1>4

(* At the start nobody has a sync token.                                   *)
LEMMA RegsInit == Init => Regs
BY Ids DEF Init, Regs, NoMsg

(* A step that leaves the registers, or changes only those of activations  *)
(* that Regs says nothing of.                                              *)
LEMMA RegsSame ==
  ASSUME Regs, frame'[fatfs].c1 = frame[fatfs].c1,
         UNCHANGED <<pc, expected_reply>>, pc # "msg_entry" => frame'[vblk] = frame[vblk]
  PROVE  Regs'
BY DEF Regs, tok

(* A switch.                                                               *)
LEMMA YieldRegs ==
  ASSUME DiskInv, Regs, sched_reschedule(Now, 0), panic' = "no", UNCHANGED <<pc, expected_reply>>
  PROVE  Regs'
<1>1. Now.fr = frame /\ Now.st = sched_status
  BY DEF Now
<1>2. frame'[fatfs] = frame[fatfs]
  BY <1>1, StFacts, Ids, RescheduleRegs
<1>3. pc # "msg_entry" => frame'[vblk] = frame[vblk]
  <2> SUFFICES ASSUME pc # "msg_entry" PROVE frame'[vblk] = frame[vblk]
    OBVIOUS
  <2>1. sched_status[vblk] # "schedulable"
    BY StFacts
  <2> QED BY <1>1, <2>1, StFacts, Ids, RescheduleRegs
<1> QED BY <1>2, <1>3, RegsSame

(* A call of the file system enters the kernel, which clears its sync      *)
(* token.                                                                  *)
LEMMA FsCallRegs ==
  ASSUME DiskInv, Regs, Running(fatfs), NEW c \in Calls, FsCall(c), panic' = "no"
  PROVE  Regs'
<1> DEFINE e == Enter(c)
           m == [v0 |-> c, c1 |-> [aid |-> fatfs, unique |-> next_unique]]
           p == msg_push(e, vblk, m)
           s == sched_a2d(p, fatfs, "sync_block")
<1>1. kernel_curr_act = fatfs /\ c \in Arg
  BY CallFacts DEF Running
<1>2. sched_reschedule(s, vblk) /\ pc' = pc
  BY <1>1 DEF FsCall, ccall_sync, kernel_panic
<1>3. /\ e.fr \in [Aid -> Msg] /\ e.st = sched_status /\ e.fr[fatfs] = [v0 |-> c, c1 |-> NULL]
      /\ e.fr[vblk] = frame[vblk]
  BY <1>1, EnterRegs, Ids
<1>4. /\ p.fr = e.fr
      /\ p.st = sched_status \/ (sched_status[vblk] = "waiting"
                                 /\ p.st = [sched_status EXCEPT ![vblk] = "schedulable"])
  BY <1>3 DEF msg_push, sched_d2a
<1>5. s.fr = e.fr /\ s.st = [p.st EXCEPT ![fatfs] = "sync_block"]
  BY <1>4 DEF sched_a2d
<1>6. s.st[fatfs] # "schedulable"
  BY <1>4, <1>5, StFacts, Ids
<1>7. pc # "msg_entry" => s.st[vblk] # "schedulable"
  BY <1>4, <1>5, StFacts, Ids
<1> HIDE DEF e, m, p, s
<1>8. frame'[fatfs].c1 = NULL
  <2>1. frame'[fatfs] = s.fr[fatfs]
    BY <1>2, <1>3, <1>5, <1>6, Ids, RescheduleRegs
  <2> QED BY <2>1, <1>3, <1>5
<1>9. pc # "msg_entry" => frame'[vblk] = frame[vblk]
  <2> SUFFICES ASSUME pc # "msg_entry" PROVE frame'[vblk] = frame[vblk]
    OBVIOUS
  <2>1. frame'[vblk] = s.fr[vblk]
    BY <1>2, <1>3, <1>5, <1>7, Ids, RescheduleRegs
  <2> QED BY <2>1, <1>3, <1>5
<1>10. pc # "vblk_send_done"
  <2>1. Quiet
    BY <1>1 DEF DiskInv, Quiet, Asked, Sent, Served, Done, Core, Base, Now, KernelSide
  <2> QED BY <2>1 DEF Quiet, Ready_pc
<1> QED BY <1>2, <1>8, <1>9, <1>10 DEF Regs

(* The exit of the file system.                                            *)
LEMMA FsExitRegs ==
  ASSUME DiskInv, Regs, Running(fatfs), FsExit, panic' = "no"
  PROVE  Regs'
<1> DEFINE s == sched_delete(Now, fatfs)
<1>1. sched_reschedule(s, 0) /\ UNCHANGED <<pc, expected_reply>>
  BY DEF FsExit, act_terminate, Running, kernel_panic
<1>2. s.fr = frame /\ s.st = [sched_status EXCEPT ![fatfs] = "terminated"]
  BY DEF sched_delete, Now
<1>3. s.st[fatfs] # "schedulable" /\ (pc # "msg_entry" => s.st[vblk] # "schedulable")
  BY <1>2, StFacts, Ids
<1> HIDE DEF s
<1>4. frame'[fatfs] = frame[fatfs]
  BY <1>1, <1>2, <1>3, StFacts, Ids, RescheduleRegs
<1>5. pc # "msg_entry" => frame'[vblk] = frame[vblk]
  <2> SUFFICES ASSUME pc # "msg_entry" PROVE frame'[vblk] = frame[vblk]
    OBVIOUS
  <2> QED BY <1>1, <1>2, <1>3, StFacts, Ids, RescheduleRegs
<1> QED BY <1>1, <1>4, <1>5, RegsSame

(* An interrupt, which changes the registers of activation 0.              *)
LEMMA IrqRegs ==
  ASSUME DiskInv, Regs, Interrupt, panic' = "no"
  PROVE  Regs'
<1>1. /\ Resume(msg_push(Interrupted, int_child[4], [v0 |-> INT, c1 |-> NULL]))
      /\ UNCHANGED <<pc, expected_reply>>
  BY DEF Interrupt, kernel_interrupt_others, kernel_panic
<1>2. frame' = [frame EXCEPT ![0] = [v0 |-> INT, c1 |-> frame[0].c1]]
  BY <1>1 DEF Resume, msg_push, sched_d2a, Interrupted
<1>3. frame'[fatfs] = frame[fatfs] /\ frame'[vblk] = frame[vblk]
  BY <1>2, StFacts, Ids
<1> QED BY <1>1, <1>3, RegsSame

(* The driver's steps: where it is in its code says which phase it is.     *)
LEMMA DriverRegs ==
  ASSUME DiskInv, Regs, DriverStep, panic' = "no"
  PROVE  Regs'
<1>1. kernel_curr_act = vblk /\ Running(vblk) /\ KernelSide /\ frame[fatfs].c1 = NULL
  BY DEF DriverStep, Running, DiskInv, Regs
<1>2. ASSUME NEW token \in Token \cup {NULL}, token # NULL => token = tok, Answer(token)
      PROVE  Regs'
  BY <1>1, <1>2, AnswerRegs DEF Answer, Regs
<1>3. ASSUME UNCHANGED kvars, frame[vblk].c1 = NULL, pc' # "vblk_send_done" PROVE Regs'
  BY <1>1, <1>3 DEF Regs, kvars
<1>4. tok \in Token /\ NULL \in Token \cup {NULL}
  BY <1>1, TokFacts
<1>5. CASE MainRegister \/ MainEnable
  <2>1. UNCHANGED kvars /\ frame[vblk].c1 = NULL /\ pc' # "vblk_send_done"
    BY <1>5 DEF MainRegister, MainEnable, kernel_interrupt_register, kernel_interrupt_enable, Regs
  <2> QED BY <2>1, <1>3
<1>6. CASE ToMsg
  <2>1. CReturn(NULL) /\ pc' = "msg_entry"
    BY <1>6 DEF ToMsg, CReturn
  <2> QED BY <2>1, <1>1, AnswerRegs DEF Regs
<1>7. CASE vblk_init \/ vblk_status
  <2>1. Answer(c1) /\ pc = "msg_entry" /\ frame[vblk].v0.op \in {"init", "status"}
    BY <1>7 DEF vblk_init, vblk_status, Serves
  <2>2. c1 = tok
    BY <2>1, <1>1, ServedIs, DiskAssumption
  <2> QED BY <2>1, <2>2, <1>2, <1>4
<1>8. CASE vblk_rw
  <2>1. pc = "msg_entry" /\ frame[vblk].v0.op \in {"read", "write"}
    BY <1>8 DEF vblk_rw, Serves
  <2>2. c1 = tok /\ Asked
    BY <2>1, <1>1, ServedIs, DiskAssumption
  <2>3. UNCHANGED kvars /\ pc' = "vblk_send_done"
    BY <2>2, <1>8 DEF vblk_rw, Asked, NotSent
  <2> QED BY <2>2, <2>3, <1>1 DEF Regs, kvars, tok, c1
<1>9. CASE vblk_send_done
  BY <1>2, <1>4, <1>9 DEF vblk_send_done
<1>10. CASE vblk_interrupt
  <2>1. pc = "msg_entry" /\ frame[vblk].v0.op = INT.op
    BY <1>10 DEF vblk_interrupt, Serves
  <2>2. c1 = NULL
    <3>1. Asked => call.op # INT.op
      BY CallFacts DEF Asked
    <3> QED BY <3>1, <2>1, <1>1, ServedIs
  <2>3. UNCHANGED kvars /\ pc' = "interrupt_enable"
    BY <1>1, <1>10 DEF vblk_interrupt, Assert, user_fault, kernel_panic
  <2> QED BY <2>2, <2>3, <1>3 DEF c1
<1>11. CASE interrupt_enable
  <2>1. UNCHANGED kvars /\ pc' = "return" /\ frame[vblk].c1 = NULL
    BY <1>11 DEF interrupt_enable, kernel_interrupt_enable, Regs
  <2> QED BY <2>1, <1>3
<1>12. CASE interrupt_return
  <2>1. sync_token = tok /\ Answer(sync_token)
    BY <1>12 DEF interrupt_return, DiskInv, Quiet, Asked, Sent, Served, Done, Kept, Ready_pc
  <2> QED BY <2>1, <1>2, <1>4
<1> QED BY <1>5, <1>6, <1>7, <1>8, <1>9, <1>10, <1>11, <1>12 DEF DriverStep

(* Each step keeps what is said of the registers.                          *)
LEMMA RegsStep == DiskInv /\ Regs /\ [Next]_vars => Regs'
<1> SUFFICES ASSUME DiskInv, Regs, [Next]_vars PROVE Regs'
  OBVIOUS
<1>1. panic' = "no"
  BY DiskStep DEF DiskInv, KernelSide
<1>2. CASE InitStep
  BY <1>1, <1>2, YieldRegs DEF InitStep, syscall_sleep
<1>3. CASE FsStep
  BY <1>1, <1>3, FsCallRegs, FsExitRegs DEF FsStep
<1>4. CASE DriverStep
  BY <1>1, <1>4, DriverRegs
<1>5. CASE Device
  BY <1>5, RegsSame DEF Device, kvars
<1>6. CASE Interrupt
  BY <1>1, <1>6, IrqRegs
<1>7. CASE Tick
  BY <1>1, <1>7, YieldRegs DEF Tick, kernel_timer
<1>8. CASE UNCHANGED vars
  BY <1>8, RegsSame DEF vars, kvars
<1> QED BY <1>2, <1>3, <1>4, <1>5, <1>6, <1>7, <1>8 DEF Next, ProgramStep, Halted

----------------------------------------------------------------------------
(* The steps as steps of Activations.                                      *)

(* What the driver holds in memory.                                        *)
Memory == IF pc \in {"interrupt_enable", "return"} THEN {sync_token} \ {NULL}
          ELSE IF pc = "msg_entry" /\ used THEN {req_token} \ {NULL} ELSE {}

(* Nobody else holds tokens in memory.                                     *)
LEMMA HeldIs ==
  /\ Held = [a \in Aid |-> IF a = vblk THEN Memory ELSE {}]
  /\ Held' = [a \in Aid |-> IF a = vblk THEN Memory' ELSE {}]
BY Zenon DEF Held, Memory

(* The three forms in which a step of Activations changes held.            *)
LEMMA HeldSame ==
  ASSUME Memory' = Memory
  PROVE  Held' = Held
<1>1. Held' = [a \in Aid |-> IF a = vblk THEN Memory' ELSE {}]
  BY HeldIs
<1> QED BY <1>1, HeldIs

LEMMA HeldKeeps ==
  ASSUME NEW S, Memory' = S
  PROVE  Held' = [Held EXCEPT ![vblk] = S]
<1>1. Held' = [a \in Aid |-> IF a = vblk THEN Memory' ELSE {}]
  BY HeldIs
<1> QED BY <1>1, HeldIs, Ids

LEMMA HeldOther ==
  ASSUME Memory' = Memory
  PROVE  Held' = [Held EXCEPT ![fatfs] = {}]
<1>1. Held' = Held
  BY HeldSame
<1> QED BY <1>1, HeldIs, Ids

(* What the running program may return.                                    *)
LEMMA Mine ==
  ASSUME DiskInv, Regs
  PROVE  /\ kernel_curr_act = fatfs => Any!mine = {}
         /\ kernel_curr_act = vblk => Any!mine = Memory \cup ({c1} \ {NULL})
BY HeldIs, Ids DEF Any!mine, Any!curr, Regs, c1


(* The kernel of Activations is this one: its operators, which have the    *)
(* names Any!..., are the same definitions.                                *)
LEMMA SameWait ==
  ASSUME NEW s, NEW a, NEW b, act_wait(s, a, b)
  PROVE  Any!act_wait(s, a, b)
BY DEF act_wait, Any!act_wait, sched_reschedule, Any!sched_reschedule, sched_a2d, Any!sched_a2d,
   SwitchTo, Any!SwitchTo, Ready, Any!Ready, QDEL, Any!QDEL, QDEL_assert, Any!QDEL_assert,
   kernel_panic, Any!kernel_panic, PickRounds, Any!PickRounds, FirstPick, Any!FirstPick,
   PickIndex, Any!PickIndex, sched_schedule, Any!sched_schedule, empty, Any!empty,
   dequeue, Any!dequeue, front, Any!front, safe, Any!safe

LEMMA SameReschedule ==
  ASSUME NEW s, NEW b, sched_reschedule(s, b)
  PROVE  Any!sched_reschedule(s, b)
BY DEF sched_reschedule, Any!sched_reschedule,
   SwitchTo, Any!SwitchTo, Ready, Any!Ready,
   kernel_panic, Any!kernel_panic, PickRounds, Any!PickRounds, FirstPick, Any!FirstPick,
   PickIndex, Any!PickIndex, sched_schedule, Any!sched_schedule, empty, Any!empty,
   dequeue, Any!dequeue, front, Any!front, safe, Any!safe

LEMMA SamePush ==
  ASSUME NEW s, NEW d, NEW m
  PROVE  /\ Any!msg_push(s, d, m) = msg_push(s, d, m)
         /\ Any!sched_d2a(s, d, m) = sched_d2a(s, d, m)
         /\ Any!sched_a2d(s, d, m) = sched_a2d(s, d, m)
         /\ Any!sched_delete(s, d) = sched_delete(s, d)
         /\ Any!QDEL_assert(m, d) <=> QDEL_assert(m, d)
         /\ Any!full(m) <=> full(m)
         /\ Any!Enter(m) = Enter(m) /\ Any!Now = Now
         /\ Any!reply(d, m) = reply(d, m)
         /\ Any!Expected(d) <=> Expected(d)
         /\ Any!kernel_panic(d) <=> kernel_panic(d)
         /\ Any!Resume(d) <=> Resume(d)
         /\ Any!next_unique = next_unique /\ Any!Interrupted = Interrupted
BY DEF msg_push, Any!msg_push, sched_d2a, Any!sched_d2a, sched_a2d, Any!sched_a2d,
   sched_delete, Any!sched_delete, QDEL_assert, Any!QDEL_assert, full, Any!full,
   enqueue, Any!enqueue, safe, Any!safe, QADD, Any!QADD, QDEL, Any!QDEL, Enter, Any!Enter, Now, Any!Now,
   reply, Any!reply, Expected, Any!Expected, kernel_panic, Any!kernel_panic, Resume, Any!Resume,
   next_unique, Any!next_unique, Interrupted, Any!Interrupted

LEMMA SameNull ==
  ASSUME NEW arg, creturn_null(arg) PROVE Any!creturn_null(arg)
BY SameWait, SamePush DEF creturn_null, Any!creturn_null

LEMMA SameSync ==
  ASSUME NEW t, NEW arg, creturn_sync(t, arg) PROVE Any!creturn_sync(t, arg)
BY SameWait, SamePush DEF creturn_sync, Any!creturn_sync

LEMMA SameCall ==
  ASSUME NEW cb, NEW store, NEW arg, ccall_sync(cb, store, arg)
  PROVE  Any!ccall_sync(cb, store, arg)
<1> DEFINE m == [v0 |-> arg, c1 |-> [aid |-> kernel_curr_act, unique |-> next_unique]]
           p == msg_push(Enter(arg), cb, m)
           s == sched_a2d(p, kernel_curr_act, "sync_block")
<1>1. /\ Callable(cb, store) /\ unique' = next_unique
      /\ expected_reply' = [expected_reply EXCEPT ![kernel_curr_act] = next_unique]
      /\ full(msg_queues[cb]) => kernel_panic("queue full (csync)")
      /\ ~full(msg_queues[cb]) /\ ~QDEL_assert(p.rq, kernel_curr_act) => kernel_panic("assertion")
      /\ ~full(msg_queues[cb]) /\ QDEL_assert(p.rq, kernel_curr_act) => sched_reschedule(s, cb)
      /\ UNCHANGED <<status, kernel_next_act>>
  BY DEF ccall_sync
<1>2. Any!next_unique = next_unique /\ Any!Enter(arg) = Enter(arg)
      /\ Any!msg_push(Enter(arg), cb, m) = p
      /\ Any!sched_a2d(p, kernel_curr_act, "sync_block") = s
  BY SamePush
<1>3. /\ Any!full(msg_queues[cb]) <=> full(msg_queues[cb])
      /\ Any!QDEL_assert(p.rq, kernel_curr_act) <=> QDEL_assert(p.rq, kernel_curr_act)
      /\ Any!kernel_panic("queue full (csync)") <=> kernel_panic("queue full (csync)")
      /\ Any!kernel_panic("assertion") <=> kernel_panic("assertion")
  BY SamePush
<1>4. Any!Callable(cb, store)
  BY <1>1 DEF Callable, Any!Callable
<1> HIDE DEF p, s
<1>5. sched_reschedule(s, cb) => Any!sched_reschedule(s, cb)
  BY SameReschedule
<1> QED BY <1>1, <1>2, <1>3, <1>4, <1>5 DEF Any!ccall_sync

LEMMA SameTerminate ==
  ASSUME NEW a, act_terminate(a) PROVE Any!act_terminate(a)
BY SameReschedule, SamePush DEF act_terminate, Any!act_terminate

LEMMA SameYield ==
  ASSUME sched_reschedule(Now, 0) PROVE Any!sched_reschedule(Any!Now, 0)
BY SameReschedule, SamePush

LEMMA SameIrq ==
  ASSUME NEW i
  PROVE  /\ kernel_interrupt_register(i) => Any!kernel_interrupt_register(i)
         /\ kernel_interrupt_enable(i) => Any!kernel_interrupt_enable(i)
         /\ kernel_interrupt_others(i) => Any!kernel_interrupt_others(i)
<1>1. /\ kernel_interrupt_register(i) => Any!kernel_interrupt_register(i)
      /\ kernel_interrupt_enable(i) => Any!kernel_interrupt_enable(i)
  BY DEF kernel_interrupt_register, Any!kernel_interrupt_register,
     kernel_interrupt_enable, Any!kernel_interrupt_enable, kvars, Any!kvars
<1>2. ASSUME kernel_interrupt_others(i) PROVE Any!kernel_interrupt_others(i)
  <2> DEFINE m == [v0 |-> INT, c1 |-> NULL]
             p == msg_push(Interrupted, int_child[i], m)
  <2>1. /\ Any!Interrupted = Interrupted /\ Any!msg_push(Interrupted, int_child[i], m) = p
        /\ Any!full(msg_queues[int_child[i]]) <=> full(msg_queues[int_child[i]])
        /\ Any!kernel_panic("queue full (int)") <=> kernel_panic("queue full (int)")
        /\ Any!Resume(p) <=> Resume(p)
    BY SamePush
  <2> QED BY <1>2, <2>1 DEF kernel_interrupt_others, Any!kernel_interrupt_others
<1> QED BY <1>1, <1>2

(* Steps that Activations does not see.                                    *)
LEMMA AnyVars ==
  ASSUME UNCHANGED <<kvars, ivars>>, Memory' = Memory
  PROVE  UNCHANGED Any!vars
BY HeldSame DEF Any!vars, Any!kvars, kvars, Any!ivars, ivars

(* Answering nobody, and answering the token that is held.                 *)
LEMMA Waits ==
  ASSUME DiskInv, Regs, kernel_curr_act = vblk, creturn_null(OK),
         UNCHANGED ivars, Memory' = Memory \cup ({c1} \ {NULL})
  PROVE  Any!Next
<1>1. panic = "no" /\ Any!mine = Memory' /\ OK \in Arg
  BY StFacts, Mine, DiskAssumption
<1>2. Held' = [Held EXCEPT ![vblk] = Any!mine]
  BY <1>1, HeldKeeps
<1>3. Any!creturn_null(OK)
  BY SameNull
<1>4. Any!Wait(OK)
  BY <1>1, <1>2, <1>3 DEF Any!Wait, Any!Keeps, Any!Running, Any!curr, ivars, Any!ivars
<1> QED BY <1>1, <1>4 DEF Any!Next

LEMMA Answers ==
  ASSUME DiskInv, Regs, kernel_curr_act = vblk, creturn_sync(tok, OK),
         UNCHANGED ivars, Memory \cup ({c1} \ {NULL}) = {tok}, Memory' = {}
  PROVE  Any!Next
<1>1. panic = "no" /\ Any!mine = {tok} /\ OK \in Arg
  BY StFacts, Mine, DiskAssumption
<1>2. Held' = [Held EXCEPT ![vblk] = Any!mine \ {tok}]
  <2>1. Any!mine \ {tok} = Memory'
    BY <1>1
  <2> QED BY <2>1, HeldKeeps
<1>3. Any!creturn_sync(tok, OK)
  BY SameSync
<1>4. Any!Return(tok, OK)
  BY <1>1, <1>2, <1>3 DEF Any!Return, Any!Keeps, Any!Running, Any!curr, ivars, Any!ivars
<1>5. tok \in Any!mine
  BY <1>1
<1> QED BY <1>1, <1>4, <1>5 DEF Any!Next

(* The file system calls and exits.                                        *)
LEMMA FsUses ==
  ASSUME DiskInv, Regs, FsStep
  PROVE  Any!Next
<1>1. kernel_curr_act = fatfs /\ panic = "no" /\ Any!mine = {} /\ kernel_next_act = 4
  BY Mine DEF FsStep, Running, DiskInv, KernelSide
<1>2. UNCHANGED <<ivars, pc, sync_token, used, req_token>>
  BY DEF FsStep, FsCall, FsExit, drvvars
<1>3. Memory' = Memory
  BY <1>2 DEF Memory
<1>4. ASSUME NEW c \in Calls, FsCall(c) PROVE Any!Next
  <2>1. unique < MaxCalls /\ Any!ccall_sync(vblk, TRUE, c) /\ c \in Arg
    BY <1>4, SameCall, CallFacts DEF FsCall
  <2>2. Held' = [Held EXCEPT ![fatfs] = {}]
    BY <1>3, HeldOther
  <2>3. Any!Call(vblk, TRUE, c)
    BY <1>1, <1>2, <2>1, <2>2 DEF Any!Call, Any!Keeps, Any!Running, Any!curr, ivars, Any!ivars
  <2>4. vblk \in Any!Registered
    BY <1>1 DEF Any!Registered, vblk
  <2> QED BY <2>1, <2>3, <2>4 DEF Any!Next
<1>5. CASE FsExit
  <2>1. Any!act_terminate(fatfs) /\ Held' = Held
    BY <1>3, <1>5, SameTerminate, HeldSame DEF FsExit
  <2>2. Any!Terminate(fatfs)
    BY <1>1, <1>2, <2>1 DEF Any!Terminate, Any!Running, ivars, Any!ivars
  <2> QED BY <1>1, <2>2 DEF Any!Next, Any!curr
<1> QED BY <1>4, <1>5 DEF FsStep

(* Yields and ticks.                                                       *)
LEMMA YieldUses ==
  ASSUME DiskInv, InitStep \/ Tick
  PROVE  Any!Next
<1>1. panic = "no" /\ Any!sched_reschedule(Any!Now, 0)
  BY StFacts, SameYield DEF InitStep, Tick, syscall_sleep, kernel_timer
<1>2. UNCHANGED <<ivars, pc, sync_token, used, req_token, status, expected_reply,
                  kernel_next_act, unique>>
  BY DEF InitStep, Tick, drvvars, syscall_sleep, kernel_timer
<1>3. Held' = Held
  BY <1>2, HeldSame DEF Memory
<1>4. Any!Tick
  BY <1>1, <1>2, <1>3 DEF Any!Tick, Any!Running, Any!kernel_timer, ivars, Any!ivars
<1> QED BY <1>4 DEF Any!Next

(* The interrupt.                                                          *)
LEMMA IrqUses ==
  ASSUME DiskInv, Interrupt
  PROVE  Any!Next
<1>1. panic = "no" /\ Any!kernel_interrupt_others(4) /\ 4 \in Irq
  BY StFacts, SameIrq, DiskAssumption DEF Interrupt
<1>2. Held' = Held
  BY HeldSame DEF Memory, Interrupt, drvvars
<1>3. Any!Interrupt(4)
  BY <1>1, <1>2 DEF Any!Interrupt, Any!Running
<1> QED BY <1>1, <1>3 DEF Any!Next

(* Each step of the driver: what it keeps in its memory is what it had in  *)
(* c1 when it cleared sync_token, and what it answers with is that.        *)
LEMMA DriverUses ==
  ASSUME DiskInv, Regs, DriverStep
  PROVE  [Any!Next]_(Any!vars)
<1>1. kernel_curr_act = vblk /\ panic = "no" /\ Running(vblk) /\ KernelSide /\ 4 \in Irq
  BY DiskAssumption DEF DriverStep, Running, DiskInv
<1>2. tok # NULL
  BY <1>1, TokFacts
<1>3. CASE MainRegister
  <2>1. Any!kernel_interrupt_register(4) /\ Held' = Held
    BY <1>3, SameIrq, HeldSame DEF MainRegister, Memory
  <2>2. Any!InterruptRegister(4)
    BY <1>1, <2>1 DEF Any!InterruptRegister, Any!Running, Any!curr
  <2> QED BY <1>1, <2>2 DEF Any!Next
<1>4. CASE MainEnable \/ interrupt_enable
  <2>1. Any!kernel_interrupt_enable(4) /\ Held' = Held
    BY <1>4, SameIrq, HeldSame DEF MainEnable, interrupt_enable, Memory, drvvars
  <2>2. Any!InterruptEnable(4)
    BY <1>1, <2>1 DEF Any!InterruptEnable, Any!Running
  <2> QED BY <1>1, <2>2 DEF Any!Next
<1>5. CASE ToMsg
  <2>1. creturn_null(OK) /\ UNCHANGED ivars /\ c1 = NULL
    BY <1>5 DEF ToMsg, Regs, c1
  <2>2. ~used /\ ~used'
    BY <1>5 DEF ToMsg, drvvars, DiskInv, Quiet, Asked, Sent, Served, Done, Kept, NotSent
  <2>3. Memory = {} /\ Memory' = {}
    BY <1>5, <2>2 DEF ToMsg, Memory
  <2> QED BY <1>1, <2>1, <2>3, Waits
<1>6. CASE vblk_init \/ vblk_status
  <2>1. Answer(c1) /\ pc = "msg_entry" /\ frame[vblk].v0.op \in {"init", "status"} /\ UNCHANGED ivars
    BY <1>6 DEF vblk_init, vblk_status, Serves
  <2>2. c1 = tok /\ ~used
    BY <2>1, <1>1, ServedIs, DiskAssumption DEF Asked, NotSent
  <2>3. ~used' /\ pc' = "msg_entry" /\ creturn_sync(tok, OK)
    BY <1>2, <1>6, <2>1, <2>2 DEF vblk_init, vblk_status, drvvars, Answer, CReturn
  <2>4. Memory = {} /\ Memory' = {}
    BY <2>1, <2>2, <2>3 DEF Memory
  <2>5. Memory \cup ({c1} \ {NULL}) = {tok}
    BY <1>2, <2>2, <2>4
  <2> QED BY <1>1, <2>1, <2>3, <2>4, <2>5, Answers
<1>7. CASE vblk_rw
  <2>1. pc = "msg_entry" /\ frame[vblk].v0.op \in {"read", "write"}
    BY <1>7 DEF vblk_rw, Serves
  <2>2. ~used
    BY <2>1, <1>1, ServedIs, DiskAssumption DEF Asked, NotSent
  <2>3. UNCHANGED <<kvars, ivars>> /\ pc' = "vblk_send_done"
    BY <2>2, <1>7 DEF vblk_rw
  <2>4. Memory' = Memory
    BY <2>1, <2>2, <2>3 DEF Memory
  <2> QED BY <2>3, <2>4, AnyVars
<1>8. CASE vblk_send_done
  <2>1. creturn_null(OK) /\ UNCHANGED <<ivars, used, req_token>> /\ c1 = tok
        /\ pc = "vblk_send_done" /\ pc' = "msg_entry"
    BY <1>8 DEF vblk_send_done, Answer, CReturn, drvvars, Regs, c1
  <2>2. used /\ req_token = tok
    BY <2>1 DEF DiskInv, Quiet, Asked, Sent, Served, Done, Kept, Ready_pc
  <2>3. Memory' = Memory \cup ({c1} \ {NULL})
    BY <1>2, <2>1, <2>2 DEF Memory
  <2> QED BY <1>1, <2>1, <2>3, Waits
<1>9. CASE vblk_interrupt
  <2>1. pc = "msg_entry" /\ frame[vblk].v0.op = INT.op
    BY <1>9 DEF vblk_interrupt, Serves
  <2>2. Served
    <3>1. Asked => call.op # INT.op
      BY CallFacts DEF Asked
    <3> QED BY <3>1, <2>1, <1>1, ServedIs
  <2>3. /\ UNCHANGED <<kvars, ivars>> /\ pc' = "interrupt_enable" /\ sync_token' = req_token
    BY <2>2, <1>9 DEF vblk_interrupt, Served
  <2>4. Memory' = Memory
    BY <2>1, <2>2, <2>3 DEF Memory, Served, Kept
  <2> QED BY <2>3, <2>4, AnyVars
<1>10. CASE interrupt_return
  <2>1. /\ Answer(sync_token) /\ pc = "return" /\ UNCHANGED <<ivars, used>> /\ c1 = NULL
    BY <1>10 DEF interrupt_return, drvvars, Regs, c1
  <2>2. sync_token = tok /\ ~used
    BY <2>1 DEF DiskInv, Quiet, Asked, Sent, Served, Done, Kept, Ready_pc, NotSent
  <2>3. creturn_sync(tok, OK) /\ pc' = "msg_entry"
    BY <1>2, <2>1, <2>2 DEF Answer, CReturn
  <2>4. Memory = {tok} /\ Memory' = {}
    BY <1>2, <2>1, <2>2, <2>3 DEF Memory
  <2> QED BY <1>1, <2>1, <2>3, <2>4, Answers
<1> QED BY <1>3, <1>4, <1>5, <1>6, <1>7, <1>8, <1>9, <1>10 DEF DriverStep

(* Each step is one of Activations, or it changes nothing there.           *)
LEMMA UsesStep == DiskInv /\ Regs /\ [Next]_vars => [Any!Next]_(Any!vars)
<1> SUFFICES ASSUME DiskInv, Regs, [Next]_vars PROVE [Any!Next]_(Any!vars)
  OBVIOUS
<1>1. CASE Device
  BY <1>1, AnyVars DEF Device, Memory, drvvars
<1>2. CASE UNCHANGED vars
  BY <1>2, AnyVars DEF vars, Memory, drvvars
<1> QED BY <1>1, <1>2, FsUses, YieldUses, IrqUses, DriverUses DEF Next, ProgramStep, Halted

(* The driver, the file system and init are among the programs that        *)
(* Activations admits, at every step: the driver returns only tokens it    *)
(* was given, each once, although it clears sync_token, keeps the token in *)
(* the request and restores it when the interrupt comes.                   *)
THEOREM DiskUsesKernel == Spec => UsesKernel
<1>1. Init => DiskInv /\ Regs
  BY DiskInit, RegsInit
<1>2. DiskInv /\ Regs /\ [Next]_vars => (DiskInv /\ Regs)'
  BY DiskStep, RegsStep
<1>3. DiskInv /\ Regs /\ [Next]_vars => [Any!Next]_(Any!vars)
  BY UsesStep
<1> QED BY <1>1, <1>2, <1>3, PTL DEF Spec, UsesKernel
=============================================================================
