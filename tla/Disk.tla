-------------------------------- MODULE Disk --------------------------------
(***************************************************************************)
(* The disk driver (virtio-blk) on the kernel with interrupts, between its *)
(* client, the FAT file system (fatfs/src/diskio.c), and the device.  A    *)
(* call to read or write is not answered when its method returns: the      *)
(* token is kept in the request, and the method that runs on the device's  *)
(* interrupt returns it.  The driver meets the others whenever it enters   *)
(* the kernel, and when it has notified the device, which works at once.   *)
(***************************************************************************)
EXTENDS Interrupts

CONSTANTS
  Sectors, Values,   \* sectors of the disk, and what they may hold
  OK,                \* what the driver answers
  num,               \* slots of the rings: 3 for the driver's one request
  MaxCalls,          \* bound: calls of the file system
  MaxRequests        \* bound: reads and writes from one vblk_init to the next

Calls == [op : {"init", "status"}]
           \cup [op : {"read"}, sector : Sectors]
           \cup [op : {"write"}, sector : Sectors, value : Values]

ASSUME DiskAssumption == /\ num \in Nat \ {0} /\ MaxRequests \in Nat
                         /\ MaxCalls \in 0 .. REPLY_MOD - 1
                         /\ Arg = Calls \cup {INT, OK} /\ Irq = {4}
                         /\ INT.op \notin {"init", "status", "read", "write"} /\ NULL \notin Calls
                         /\ MAX_ACTIVATIONS = 4

\* The activations: init, the driver, the file system
booter == 1
vblk   == 2
fatfs  == 3

VARIABLES
  call,            \* the call the file system makes, or made last
  written,         \* what the file system wrote last, by sector
  buf,             \* its buffer
  pc,              \* where the driver continues
  sync_token,      \* libuser's, with which msg_entry answers
  init,            \* session->init
  used,            \* the driver's request: in use,
  req_token,       \* and whose call it is
  avail_idx,       \* next slot of the available ring
  last_used_idx,   \* next slot of the used ring to look at
  ring,            \* device: has each slot of the used ring been written?
  used_idx,        \* device: next slot of the used ring
  request,         \* device: the request it works on, or NULL
  disk,            \* device: what is on the disk
  isr              \* device: VIRTIO_MMIO_INTERRUPT_STATUS

fsvars  == <<call, written>>
drvvars == <<init, used, req_token, avail_idx, last_used_idx>>
devvars == <<ring, used_idx, request, disk, isr, buf>>
vars == <<kvars, ivars, fsvars, pc, sync_token, drvvars, devvars>>

Running(a) == panic = "no" /\ kernel_curr_act = a

Empty == [i \in 0 .. num - 1 |-> FALSE]

(* All are alive; the driver has just registered with namespace, so that   *)
(* the file system, which has a session, can call it.                      *)
Init ==
  /\ status = [a \in Aid |-> IF a = 0 THEN "terminated" ELSE "alive"]
  /\ sched_status = [a \in Aid |-> IF a = 0 THEN "terminated" ELSE "runnable"]
  /\ expected_reply = [a \in Aid |-> 0]
  /\ msg_queues = [a \in Aid |-> [start |-> 0, end |-> 0, msg |-> [i \in Slot |-> NoMsg]]]
  /\ frame = [a \in Aid |-> NoMsg]
  /\ rq = QADD(QADD(QADD(EmptyRunQueue, booter), vblk), fatfs)
  /\ kernel_curr_act = vblk /\ kernel_next_act = 4 /\ unique = 0 /\ panic = "no"
  /\ interrupts_init
  /\ call = [op |-> "none"]
  /\ disk \in [Sectors -> Values] /\ written = disk /\ buf \in Values
  /\ pc = "register" /\ sync_token = NULL
  /\ init = FALSE /\ used = FALSE /\ req_token = NULL
  /\ avail_idx = 0 /\ last_used_idx = 0
  /\ ring = Empty /\ used_idx = 0 /\ request = NULL /\ isr = FALSE

----------------------------------------------------------------------------
(* The file system initialises the disk before it uses it; f_mkfs does it  *)
(* again.  Its calls are ccall 4.                                          *)
FsCall(c) ==
  /\ unique < MaxCalls
  /\ c.op # "init" => init
  /\ c.op \in {"read", "write"} => avail_idx < MaxRequests
  /\ ccall_sync(vblk, TRUE, c)
  /\ call' = c
  /\ written' = IF c.op = "write" THEN [written EXCEPT ![c.sector] = c.value] ELSE written
  /\ UNCHANGED <<ivars, pc, sync_token, drvvars, devvars>>

(* The end of main.                                                        *)
FsExit == /\ act_terminate(fatfs)
          /\ UNCHANGED <<ivars, fsvars, pc, sync_token, drvvars, devvars>>

FsStep == Running(fatfs) /\ (FsExit \/ \E c \in Calls : FsCall(c))

(* init waits, with yields, until the file system has exited.              *)
InitStep == /\ Running(booter) /\ status[fatfs] # "terminated"
            /\ syscall_sleep
            /\ UNCHANGED <<ivars, fsvars, pc, sync_token, drvvars, devvars>>

----------------------------------------------------------------------------
(* main of the driver: interrupt_register, interrupt_enable, and then it   *)
(* waits for messages.                                                     *)
MainRegister ==
  /\ pc = "register" /\ pc' = "enable"
  /\ kernel_interrupt_register(4)
  /\ UNCHANGED <<fsvars, sync_token, drvvars, devvars>>

MainEnable ==
  /\ pc = "enable" /\ pc' = "to_msg"
  /\ kernel_interrupt_enable(4)
  /\ UNCHANGED <<fsvars, sync_token, drvvars, devvars>>

ToMsg ==
  /\ pc = "to_msg" /\ pc' = "msg_entry"
  /\ creturn_null(OK)
  /\ UNCHANGED <<ivars, fsvars, sync_token, drvvars, devvars>>

(* A message of the driver: the method that op selects, and the token that *)
(* msg_entry saves for it.                                                 *)
Serves(op) == pc = "msg_entry" /\ frame[vblk].v0.op = op
c1 == frame[vblk].c1

(* The end of msg_entry.                                                   *)
CReturn(token) == IF token = NULL THEN creturn_null(OK) ELSE creturn_sync(token, OK)

Answer(token) == pc' = "msg_entry" /\ sync_token' = token /\ CReturn(token)

(* An assertion of the driver, which ends in the kernel's syscall 42.      *)
Assert == user_fault /\ UNCHANGED <<ivars, fsvars, pc, sync_token, drvvars, devvars>>

(* A plausible bug: the position in the used ring is not reset.            *)
reset_queue_stale == avail_idx' = 0 /\ UNCHANGED last_used_idx

reset_queue == avail_idx' = 0 /\ last_used_idx' = 0

(* The device is reset, and the rings and the request are allocated anew.  *)
vblk_init ==
  /\ Serves("init")
  /\ init' = TRUE /\ used' = FALSE /\ req_token' = NULL
  /\ reset_queue
  /\ ring' = Empty /\ used_idx' = 0 /\ request' = NULL /\ isr' = FALSE
  /\ Answer(c1)
  /\ UNCHANGED <<ivars, fsvars, disk, buf>>

(* vblk_status and vblk_size change nothing.                               *)
vblk_status ==
  /\ Serves("status")
  /\ Answer(c1)
  /\ UNCHANGED <<ivars, fsvars, drvvars, devvars>>

(* A plausible bug: the token of an earlier message is kept.               *)
keep_token_stale == sync_token' = c1 /\ req_token' = sync_token

keep_token == sync_token' = c1 /\ req_token' = c1

(* vblk_read and vblk_write: the one request must be free; it is filled,   *)
(* put into the available ring, and the device notified.                   *)
vblk_rw ==
  /\ Serves("read") \/ Serves("write")
  /\ IF used THEN Assert ELSE
     /\ used' = TRUE /\ keep_token
     /\ avail_idx' = avail_idx + 1
     /\ request' = frame[vblk].v0
     /\ pc' = "vblk_send_done"
     /\ UNCHANGED <<kvars, ivars, fsvars, init, last_used_idx, ring, used_idx, disk, isr, buf>>

(* A plausible bug: the call is answered when the request is sent.         *)
vblk_send_done_now ==
  /\ pc = "vblk_send_done"
  /\ Answer(sync_token)
  /\ UNCHANGED <<ivars, fsvars, drvvars, devvars>>

(* sync_token is cleared: no answer now.                                   *)
vblk_send_done ==
  /\ pc = "vblk_send_done"
  /\ Answer(NULL)
  /\ UNCHANGED <<ivars, fsvars, drvvars, devvars>>

(* A plausible bug: the request stays in use.                              *)
vblk_rw_ret_used == last_used_idx' = last_used_idx + 1 /\ UNCHANGED used

vblk_rw_ret == last_used_idx' = last_used_idx + 1 /\ used' = FALSE

(* The slot of the used ring that is next and the interrupt status are     *)
(* asserted; the answer will go to the call that made the request.         *)
vblk_interrupt ==
  /\ Serves(INT.op)
  /\ IF ~ring[last_used_idx % num] \/ ~isr THEN Assert ELSE
     /\ vblk_rw_ret
     /\ isr' = FALSE
     /\ sync_token' = req_token
     /\ pc' = "interrupt_enable"
     /\ UNCHANGED <<kvars, ivars, fsvars, init, req_token, avail_idx, ring, used_idx,
                    request, disk, buf>>

(* A plausible bug: the interrupt is left disabled.                        *)
interrupt_enable_not ==
  /\ pc = "interrupt_enable" /\ pc' = "return"
  /\ UNCHANGED <<kvars, ivars, fsvars, sync_token, drvvars, devvars>>

interrupt_enable ==
  /\ pc = "interrupt_enable" /\ pc' = "return"
  /\ kernel_interrupt_enable(4)
  /\ UNCHANGED <<fsvars, sync_token, drvvars, devvars>>

interrupt_return ==
  /\ pc = "return"
  /\ Answer(sync_token)
  /\ UNCHANGED <<ivars, fsvars, drvvars, devvars>>

DriverStep ==
  /\ Running(vblk)
  /\ \/ MainRegister \/ MainEnable \/ ToMsg
     \/ vblk_init \/ vblk_status \/ vblk_rw \/ vblk_send_done
     \/ vblk_interrupt \/ interrupt_enable \/ interrupt_return

----------------------------------------------------------------------------
(* The device does what it was asked for and raises its interrupt.         *)
Device ==
  /\ panic = "no" /\ request # NULL
  /\ IF request.op = "read"
       THEN buf' = disk[request.sector] /\ UNCHANGED disk
       ELSE disk' = [disk EXCEPT ![request.sector] = request.value] /\ UNCHANGED buf
  /\ ring' = [ring EXCEPT ![used_idx % num] = TRUE] /\ used_idx' = used_idx + 1
  /\ request' = NULL /\ isr' = TRUE
  /\ UNCHANGED <<kvars, ivars, fsvars, pc, sync_token, drvvars>>

(* The machine froze, or init sees that the file system has exited.        *)
Ended == panic # "no" \/ (status[fatfs] = "terminated" /\ Running(booter))

(* The device's interrupt, and the timer's.                                *)
Interrupt == /\ panic = "no" /\ isr
             /\ kernel_interrupt_others(4)
             /\ UNCHANGED <<fsvars, pc, sync_token, drvvars, devvars>>

Tick == /\ ~Ended
        /\ kernel_timer
        /\ UNCHANGED <<fsvars, pc, sync_token, drvvars, devvars>>

Halted == Ended /\ UNCHANGED vars

ProgramStep == InitStep \/ FsStep \/ DriverStep

Next == ProgramStep \/ Device \/ Interrupt \/ Tick \/ Halted

(* Nobody but init is scheduled, and its yield changes nothing.            *)
Idle == Running(booter) /\ rq.end = 1 /\ rq.idx = 0

(* The processor executes the running program, the interval of the timer   *)
(* is longer than what the driver does between two entries into the        *)
(* kernel, and the device works; of the file system nothing is assumed.    *)
(* The first two are WF_vars(ProgramStep) and SF_vars(DriverStep), with    *)
(* their ENABLED spelled out.                                              *)
Fairness == /\ []<>(Ended \/ Idle) \/ []<><<ProgramStep>>_vars
            /\ []<>Running(vblk) => []<><<DriverStep>>_vars
            /\ WF_vars(Device) /\ WF_vars(Interrupt)

Spec == Init /\ [][Next]_vars /\ Fairness

----------------------------------------------------------------------------
(* Every variable has its type.                                            *)
TypeOK ==
  /\ KTypeOK /\ IrqTypeOK
  /\ call \in Calls \cup {[op |-> "none"]}
  /\ pc \in {"register", "enable", "to_msg", "msg_entry", "vblk_send_done",
             "interrupt_enable", "return"}
  /\ init \in BOOLEAN /\ used \in BOOLEAN
  /\ req_token \in Token \cup {NULL} /\ sync_token \in Token \cup {NULL}
  /\ avail_idx \in 0 .. MaxRequests /\ last_used_idx \in 0 .. avail_idx
  /\ ring \in [0 .. num - 1 -> BOOLEAN] /\ used_idx \in last_used_idx .. avail_idx
  /\ request \in Calls \cup {NULL} /\ disk \in [Sectors -> Values] /\ buf \in Values
  /\ isr \in BOOLEAN /\ written \in [Sectors -> Values]

(* Nothing stops the machine: the request is free when it is needed, each  *)
(* interrupt finds what it announces, no answer is unexpected, and the     *)
(* queue has room for the interrupt.                                       *)
NeverStops == panic = "no"

Blocked == sched_status[fatfs] = "sync_block"

(* The token of the call that waits is in one place: in the driver's       *)
(* queue, in its registers, kept in a request that is in use until the     *)
(* interrupt, or about to be returned.                                     *)
TokenKept ==
  panic = "no" /\ Blocked =>
    LET t == [aid |-> fatfs, unique |-> expected_reply[fatfs]]
        places == {p \in {"queue", "register", "request", "memory"} :
          CASE p = "queue"    -> \E i \in Pending(msg_queues[vblk]) :
                                   msg_queues[vblk].msg[i].c1 = t
            [] p = "register" -> pc = "msg_entry" /\ sched_status[vblk] = "runnable" /\ c1 = t
            [] p = "request"  -> used /\ req_token = t
            [] p = "memory"   -> pc \in {"interrupt_enable", "return"} /\ sync_token = t}
    IN  \E p \in places : places = {p}

(* The tokens in the driver's memory, which it may still return.           *)
Held == [a \in Aid |->
  CASE a = vblk /\ pc \in {"interrupt_enable", "return"} -> {sync_token} \ {NULL}
    [] a = vblk /\ pc = "msg_entry" /\ used             -> {req_token} \ {NULL}
    [] OTHER                                            -> {}]

Any == INSTANCE Activations WITH
  ForeignCtrl <- FALSE, Revocable <- {}, Drivers <- {vblk}, held <- Held

(* The three programs are among those Activations admits: they return only *)
(* tokens they were given, once each, whatever the driver clears, keeps in *)
(* its request and restores, so that what is shown of the kernel with any  *)
(* programs is so of it with these.                                        *)
UsesKernel == [][Any!Next]_(Any!vars)

(* A read returns what was written last: neither is answered before the    *)
(* device is done with it, nor with the result of an earlier request.      *)
ReadsBack == ~Blocked /\ call.op = "read" => buf = written[call.sector]

(* Every call is answered: the interrupt that ends it is neither lost nor  *)
(* left disabled by the one before, the driver is woken for it and         *)
(* scheduled.                                                              *)
CallsAnswered == Blocked ~> ~Blocked

(* "used event index is at *end* of avail ring": the requests before it    *)
(* stay before it.                                                         *)
RingInBounds == avail_idx <= num
=============================================================================
