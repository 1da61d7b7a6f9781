------------------------------- MODULE System -------------------------------
(***************************************************************************)
(* The kernel with the programs that boot/src/init/init.c loads: init      *)
(* itself (activation 1), memmgt (2), namespace (3), service daemons that  *)
(* register with namespace and serve (uart, AES, sha), and user programs   *)
(* that allocate memory, look services up, call them and exit.  Each       *)
(* program is libuser's start-up code (init.S), its main and, for a        *)
(* service, libuser's dispatch loop (msg.S).  An action is what the        *)
(* running program does up to its next entry into the kernel, and that     *)
(* entry: nothing else runs in between.                                    *)
(***************************************************************************)
EXTENDS Kernel

CONSTANTS
  Daemons,        \* service daemons that init loads after namespace
  MaxOps,         \* bound: what a user program does before it exits
  UnknownMethods  \* do user programs also call methods a service does not have?

ASSUME ProgramAssumption == /\ Daemons \in Nat \ {0} /\ 4 + Daemons < MAX_ACTIVATIONS
                            /\ MaxOps \in Nat /\ UnknownMethods \in BOOLEAN

init      == 1
memmgt    == 2
namespace == 3
DaemonIds == 4 .. 3 + Daemons
UserIds   == 4 + Daemons .. MAX_ACTIVATIONS - 1

VARIABLES
  pc,          \* where each program continues when it is resumed
  sync_token,  \* libuser's sync_token, of each service
  be,          \* init: the module being loaded
  naps,        \* init: what is left of nssleep(3)
  bind,        \* namespace: the activation bound to each port, 0 if none; a
               \* service's port is its activation here
  memmgt_ref,  \* libuser mmap.c, of each program: 0 until it is looked up
  peer,        \* the reference each user program got from namespace last
  ops,         \* what each user program may still do
  asked        \* the request each program made last, until it goes on to wait

uvars == <<pc, sync_token, be, naps, bind, memmgt_ref, peer, ops, asked>>
vars == <<kvars, uvars>>

(* Requests and answers; n is a port, or the activation a reference is to. *)
M(op, n) == [op |-> op, n |-> n]

Requests == {"start", "mmap", "register_ns", "ns_register", "ns_get_reference",
             "ns_get_identifier", "serve", "unknown"}
Answers  == {"done", "addr", "in use", "reference", "identifier", "overflow"}
Payload == [op : Requests \cup Answers, n : Aid]

ASSUME PayloadAssumption == Payload \subseteq Arg

curr == kernel_curr_act

Running == panic = "no"

Init ==
  /\ act_init
  /\ pc = [a \in Aid |-> IF a = init THEN "register" ELSE "new"]
  /\ sync_token = [a \in Aid |-> NULL]
  /\ be = memmgt
  /\ naps = 0
  /\ bind = [p \in Aid |-> 0]
  /\ memmgt_ref = [a \in Aid |-> 0]
  /\ peer = [a \in Aid |-> 0]
  /\ ops = [a \in Aid |-> IF a \in UserIds THEN MaxOps ELSE 0]
  /\ asked = [a \in Aid |-> ZERO]

----------------------------------------------------------------------------
(* Entries into the kernel.                                                *)

Goto(where) == pc' = [pc EXCEPT ![curr] = where]

(* A synchronous call through libuser's object.c, which asserts that the   *)
(* reference is a capability before it calls.                              *)
CallTo(cb, m) ==
  /\ IF cb = 0 THEN user_fault ELSE ccall_sync(cb, TRUE, m)
  /\ asked' = [asked EXCEPT ![curr] = m]

(* The end of msg_entry: CReturn with what sync_token holds.               *)
CReturn(token, answer) ==
  /\ sync_token' = [sync_token EXCEPT ![curr] = token]
  /\ IF token = NULL THEN creturn_null(answer) ELSE creturn_sync(token, answer)
  /\ asked' = [asked EXCEPT ![curr] = ZERO]

(* The end of main() of a service, with msg_enable: wait for a message.    *)
ToMsg ==
  /\ Goto("msg_entry")
  /\ creturn_null(M("done", 0))
  /\ asked' = [asked EXCEPT ![curr] = ZERO]
  /\ UNCHANGED sync_token

(* The end of main() otherwise.                                            *)
Exit ==
  /\ Goto("exited")
  /\ act_terminate(curr)
  /\ UNCHANGED <<sync_token, asked>>

----------------------------------------------------------------------------
(* init: load_modules and the loop of init_main                            *)

NextModule(where) ==
  /\ be' = be + 1
  /\ Goto(IF be + 1 = MAX_ACTIVATIONS THEN "acts_alive" ELSE where)

(* load_module: memory for the program and for its stack comes from        *)
(* memmgt, for memmgt itself from init's own pool ...                      *)
LoadElf ==
  /\ pc[init] = "load_module" /\ Goto("stack")
  /\ CallTo(memmgt, M("mmap", 0))
  /\ UNCHANGED <<be, naps>>

LoadStack ==
  /\ pc[init] = "stack" /\ Goto("register")
  /\ CallTo(memmgt, M("mmap", 0))
  /\ UNCHANGED <<be, naps>>

(* ... then init_act_create registers it ...                               *)
RegisterModule ==
  /\ pc[init] = "register" /\ Goto("start")
  /\ act_register
  /\ UNCHANGED <<be, naps, asked>>

(* The modules init waits for, with nssleep(3), before it goes on.         *)
Fenced(a) == a \in {memmgt, namespace, 3 + Daemons}

(* ... and sends it the message that starts it.                            *)
StartModule ==
  /\ pc[init] = "start"
  /\ ccall_send(be, TRUE, M("start", 0))
  /\ asked' = [asked EXCEPT ![init] = ZERO]
  /\ IF Fenced(be)
       THEN naps' = 3 /\ Goto("nssleep") /\ UNCHANGED be
       ELSE NextModule("load_module") /\ UNCHANGED naps

Nap ==
  /\ pc[init] = "nssleep" /\ naps > 0
  /\ syscall_sleep
  /\ naps' = naps - 1
  /\ IF naps > 1 THEN UNCHANGED <<pc, be>>
     ELSE IF be = namespace THEN Goto("glue") /\ UNCHANGED be
     ELSE NextModule("load_module")
  /\ UNCHANGED asked

(* glue_memmgt: tell memmgt about namespace.                               *)
Glue ==
  /\ pc[init] = "glue"
  /\ CallTo(memmgt, M("register_ns", 0))
  /\ NextModule("load_module")
  /\ UNCHANGED naps

(* A plausible bug: the daemon field of the list is not looked at.         *)
acts_alive_daemons == \E a \in DaemonIds \cup UserIds : status[a] # "terminated"

acts_alive == \E u \in UserIds : status[u] # "terminated"

(* The end of init_main: when only daemons are alive init halts the        *)
(* machine.                                                                *)
ActsAlive ==
  /\ pc[init] = "acts_alive"
  /\ IF acts_alive
       THEN syscall_sleep /\ UNCHANGED pc
       ELSE Goto("hw_reboot") /\ UNCHANGED kvars
  /\ UNCHANGED <<be, naps, asked>>

InitStep ==
  /\ curr = init
  /\ \/ LoadElf \/ LoadStack \/ RegisterModule \/ StartModule \/ Nap \/ Glue \/ ActsAlive
  /\ UNCHANGED <<sync_token, bind, memmgt_ref, peer, ops>>

----------------------------------------------------------------------------
(* Services: main(), then the loop of msg_entry                            *)

Methods(a) == CASE a = memmgt    -> {"mmap", "register_ns"}
                [] a = namespace -> {"ns_register", "ns_get_reference", "ns_get_identifier"}
                [] OTHER         -> {"serve"}

(* The answer to a request.                                                *)
Answer(m) ==
  CASE m.op = "mmap"              -> M("addr", 0)
    [] m.op = "ns_register"       -> IF bind[m.n] # 0 THEN M("in use", 0) ELSE M("done", 0)
    [] m.op = "ns_get_reference"  -> M("reference", bind[m.n])
    [] m.op = "ns_get_identifier" -> M("identifier", bind[m.n])
    [] OTHER                      -> M("done", 0)

(* memmgt and namespace call nobody before they serve.                     *)
ServiceMain ==
  /\ curr \in {memmgt, namespace} /\ pc[curr] = "new"
  /\ ToMsg
  /\ UNCHANGED bind

(* A daemon registers; if it cannot, it returns from main and exits.       *)
DaemonMain ==
  /\ curr \in DaemonIds /\ pc[curr] = "new" /\ Goto("registered")
  /\ CallTo(namespace, M("ns_register", curr))
  /\ UNCHANGED <<bind, sync_token>>

DaemonRegistered ==
  /\ curr \in DaemonIds /\ pc[curr] = "registered"
  /\ IF frame[curr].v0.op = "done" THEN ToMsg ELSE Exit
  /\ UNCHANGED bind

(* msg_entry, for a method of the table: the sync token is saved, the      *)
(* method runs, and its result is returned with that token.                *)
Dispatch ==
  LET m == frame[curr].v0
  IN  /\ pc[curr] = "msg_entry" /\ m.op \in Methods(curr) /\ m.op # "register_ns"
      /\ CReturn(frame[curr].c1, Answer(m))
      /\ bind' = IF m.op = "ns_register" /\ bind[m.n] = 0
                   THEN [bind EXCEPT ![m.n] = m.n] ELSE bind
      /\ UNCHANGED pc

(* A plausible bug: the token is in a register only while the method runs. *)
RegisterNs_unsaved ==
  /\ pc[curr] = "msg_entry" /\ curr = memmgt /\ frame[curr].v0.op = "register_ns"
  /\ Goto("register_ns")
  /\ CallTo(namespace, M("ns_register", memmgt))
  /\ UNCHANGED <<bind, sync_token>>

(* register_ns of memmgt calls namespace before it answers.                *)
RegisterNs ==
  /\ pc[curr] = "msg_entry" /\ curr = memmgt /\ frame[curr].v0.op = "register_ns"
  /\ Goto("register_ns")
  /\ sync_token' = [sync_token EXCEPT ![curr] = frame[curr].c1]
  /\ CallTo(namespace, M("ns_register", memmgt))
  /\ UNCHANGED bind

(* A plausible bug: c1 is not loaded again after the method.               *)
RegisteredNs_no_restore ==
  /\ pc[curr] = "register_ns" /\ Goto("msg_entry")
  /\ CReturn(frame[curr].c1, M("done", 0))
  /\ UNCHANGED bind

RegisteredNs ==
  /\ pc[curr] = "register_ns" /\ Goto("msg_entry")
  /\ CReturn(sync_token[curr], M("done", 0))
  /\ UNCHANGED bind

(* A method number outside the table: 0 is returned, with the sync token   *)
(* that the last call of a known method left.                              *)
Overflow ==
  /\ pc[curr] = "msg_entry" /\ frame[curr].v0.op \notin Methods(curr)
  /\ CReturn(sync_token[curr], M("overflow", 0))
  /\ UNCHANGED <<pc, bind>>

ServiceStep ==
  /\ curr \in {memmgt, namespace} \cup DaemonIds
  /\ \/ ServiceMain \/ DaemonMain \/ DaemonRegistered
     \/ Dispatch \/ RegisterNs \/ RegisteredNs \/ Overflow
  /\ UNCHANGED <<be, naps, memmgt_ref, peer, ops>>

----------------------------------------------------------------------------
(* User programs                                                           *)

Spend == /\ ops[curr] > 0
         /\ ops' = [ops EXCEPT ![curr] = @ - 1]

InMain == pc[curr] \in {"new", "main"}

UserExit == InMain /\ Exit /\ UNCHANGED <<ops, memmgt_ref, peer>>

UserSleep ==
  /\ InMain /\ Spend /\ Goto("main")
  /\ syscall_sleep
  /\ UNCHANGED <<memmgt_ref, peer, asked>>

(* mmap: the first call of a program looks memmgt up.                      *)
Mmap ==
  /\ InMain /\ Spend
  /\ IF memmgt_ref[curr] = 0
       THEN Goto("_mmap ref") /\ CallTo(namespace, M("ns_get_reference", memmgt))
       ELSE Goto("main") /\ CallTo(memmgt_ref[curr], M("mmap", 0))
  /\ UNCHANGED <<memmgt_ref, peer>>

MmapRef ==
  /\ pc[curr] = "_mmap ref" /\ Goto("_mmap id")
  /\ memmgt_ref' = [memmgt_ref EXCEPT ![curr] = frame[curr].v0.n]
  /\ CallTo(namespace, M("ns_get_identifier", memmgt))
  /\ UNCHANGED <<ops, peer>>

MmapId ==
  /\ pc[curr] = "_mmap id" /\ Goto("main")
  /\ CallTo(memmgt_ref[curr], M("mmap", 0))
  /\ UNCHANGED <<ops, memmgt_ref, peer>>

(* As spam/src/main.c does: look a service up, and call it.                *)
Lookup(d) ==
  /\ InMain /\ Spend /\ Goto("ref")
  /\ CallTo(namespace, M("ns_get_reference", d))
  /\ UNCHANGED <<memmgt_ref, peer>>

LookupRef ==
  /\ pc[curr] = "ref" /\ Goto("id")
  /\ peer' = [peer EXCEPT ![curr] = frame[curr].v0.n]
  /\ IF frame[curr].v0.n = 0
       THEN user_fault /\ UNCHANGED asked
       ELSE CallTo(namespace, M("ns_get_identifier", frame[curr].v0.n))
  /\ UNCHANGED <<ops, memmgt_ref>>

CallService(op) ==
  /\ pc[curr] = "id" /\ Goto("main")
  /\ CallTo(peer[curr], M(op, 0))
  /\ UNCHANGED <<ops, memmgt_ref, peer>>

UserStep ==
  /\ curr \in UserIds
  /\ \/ UserExit \/ UserSleep \/ Mmap \/ MmapRef \/ MmapId
     \/ \E d \in DaemonIds : Lookup(d)
     \/ LookupRef
     \/ CallService("serve")
     \/ UnknownMethods /\ CallService("unknown")
  /\ UNCHANGED <<sync_token, be, naps, bind>>

----------------------------------------------------------------------------
(* The machine is halted, or the kernel has stopped.                       *)
Halted == pc[init] = "hw_reboot" \/ ~Running

Next == \/ ~Halted /\ (InitStep \/ ServiceStep \/ UserStep)
        \/ Halted /\ UNCHANGED vars

(* init polls in vain: nothing else may run, and its yields change nothing.*)
Idle == /\ curr = init /\ pc[init] = "acts_alive" /\ rq.end = 1 /\ rq.idx = 0
        /\ acts_alive

(* The processor always executes the running program; main() of each user  *)
(* program and the methods of the services return.  This is WF_vars(Next), *)
(* with its ENABLED spelled out: Next can change vars in every state but   *)
(* these two.                                                              *)
Spec == Init /\ [][Next]_vars /\ ([]<>(Halted \/ Idle) \/ []<><<Next>>_vars)

----------------------------------------------------------------------------
(* Every variable has its type.                                            *)
TypeOK ==
  /\ KTypeOK
  /\ sync_token \in [Aid -> Token \cup {NULL}]
  /\ be \in 2 .. MAX_ACTIVATIONS /\ naps \in 0 .. 3
  /\ bind \in [Aid -> Aid] /\ memmgt_ref \in [Aid -> {0, memmgt}]
  /\ peer \in [Aid -> Aid] /\ ops \in [Aid -> 0 .. MaxOps]
  /\ asked \in [Aid -> Arg \cup {ZERO}]

(* A program waits for the answer to a call of a method its service does   *)
(* not have.                                                               *)
AwaitsOverflow ==
  \E a \in UserIds : asked[a] = M("unknown", 0) /\ sched_status[a] = "sync_block"

(* Unless a method is called that the service does not have (see           *)
(* AnswersExpected), the kernel never stops: no assertion fails, in the    *)
(* kernel or in a program, no queue is full when a call is made, there is  *)
(* always an activation to run, and every service a program looks up is    *)
(* registered by the time it does: a reference that is NULL fails          *)
(* libuser's assertion.                                                    *)
NeverStops == panic = "no" \/ AwaitsOverflow

(* A program that got an answer got the answer to its own request, from    *)
(* the service it asked: whatever calls other programs made meanwhile, and *)
(* although memmgt makes a call of its own while it owes an answer.        *)
AnswersMatch ==
  \A a \in Aid : asked[a] # ZERO /\ sched_status[a] = "runnable" =>
    frame[a].v0 = CASE asked[a].op = "ns_get_reference"  -> M("reference", asked[a].n)
                    [] asked[a].op = "ns_get_identifier" -> M("identifier", asked[a].n)
                    [] asked[a].op = "mmap"              -> M("addr", 0)
                    [] OTHER                             -> M("done", 0)

(* A service that owes an answer holds the token of the caller it owes it  *)
(* to, also while it waits for an answer itself: memmgt registers with     *)
(* namespace before it answers init's request to do so.                    *)
OwesWhileBlocked ==
  pc[memmgt] = "register_ns" =>
    /\ sync_token[memmgt] # NULL
    /\ sched_status[sync_token[memmgt].aid] = "sync_block"
    /\ expected_reply[sync_token[memmgt].aid] = sync_token[memmgt].unique
    /\ sync_token[memmgt].aid # namespace

(* An answer is returned with the token of the call it answers, never with *)
(* that of a call answered before: the restored sync_token of msg_entry is *)
(* the one saved for this message.                                         *)
AnswersExpected == panic # "bad sync creturn"

(* Every program gets the answers it waits for and exits, init notices it  *)
(* and halts the machine: services that hand the processor back and forth  *)
(* starve nobody.  Only the caller of a method its service does not have    *)
(* may wait for ever.                                                      *)
Shutdown == <>(pc[init] = "hw_reboot") \/ <>[]AwaitsOverflow
=============================================================================
