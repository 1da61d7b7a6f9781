-------------------------------- MODULE Prga --------------------------------
(***************************************************************************)
(* The echo programs of prga/src/main.c, which call the sockets service    *)
(* through the kernel: a server that turns each message it gets into upper *)
(* case and sends it back, and clients that send NB_MSG messages, each     *)
(* after the answer to the last.  Messages are buffers of the client,      *)
(* shared by capability.  A step of a program is what it does from one     *)
(* entry into the kernel to the next; the timer may take the processor     *)
(* from it before any of them.                                             *)
(***************************************************************************)
EXTENDS Interrupts, Integers

CONSTANTS
  Servers, Clients,   \* programs with an odd, an even argument
  NB_MSG,             \* messages of a client, and answers of a server
  MAX_SOCKET, MAX_PORT

\* The other activations: init and the sockets service
booter == 1
socks  == 2

Programs == Servers \cup Clients
Messages == Clients \X (0 .. NB_MSG - 1)

\* Ports 4 and 5 of the code
ServerPort == 0
ClientPort == 1

VARIABLES
  ports, sockets, next_socket, failed,   \* the service's
  pc,     \* the entry into the kernel each program made last
  sock,   \* its socket
  n,      \* answers sent by a server; messages a client is done with
  text    \* what is in each buffer: new, lower case, upper case, or freed

INSTANCE Sockets

sockvars == <<ports, sockets, next_socket, failed>>
pvars == <<pc, sock, n, text>>
vars == <<kvars, ivars, sockvars, pvars>>

(* What is sent to the service, with the identifier of its caller, and     *)
(* what it answers: a number or a capability.                              *)
Requests ==
  [op : {"socket"}, oid : Programs]
    \cup [op : {"bind", "connect"}, oid : Programs, s : Socket, port : Port]
    \cup [op : {"recfrom"}, oid : Programs, s : Socket]
    \cup [op : {"sendto"}, oid : Programs, s : Socket, msg : Messages]
Results == [ret : Socket \cup {-1}] \cup [msg : Messages \cup {NULL}]

ASSUME PrgaAssumption ==
  /\ Servers \cap Clients = {} /\ socks \in Aid /\ Programs = 3 .. MAX_ACTIVATIONS - 1
  /\ MAX_SOCKET \in Nat /\ MAX_PORT \in Nat /\ NULL \notin Messages \cup Programs
  /\ NB_MSG \in Nat \ {0} /\ Irq = {} /\ Arg = Requests \cup Results \cup {INT}

(* There is a socket for each program, the two ports exist, and the        *)
(* service's queue has room for the calls of all the programs: with the 17 *)
(* sockets and the 16 slots of the code, this bounds the programs to 15.   *)
(* Every slot from 3 on is a program here, so that MAX_ACTIVATIONS is the  *)
(* number of activations there are, not the 32 of the kernel's table.      *)
ASSUME RoomAssumption ==
  /\ MAX_ACTIVATIONS - 3 <= MAX_SOCKET + 1 /\ MAX_ACTIVATIONS - 3 < MAX_MSG
  /\ {ServerPort, ClientPort} \subseteq Port

(* The run queue once init and the programs were added to it, in turn.     *)
Queued == [squeue_a |-> [i \in Aid |-> IF i = 0 THEN booter
                                       ELSE IF i + 2 \in Programs THEN i + 2 ELSE 0],
           aqueue   |-> [a \in Aid |-> IF a \in Programs THEN a - 2 ELSE 0],
           idx      |-> 0,
           end      |-> MAX_ACTIVATIONS - 2]

(* The service waits for messages, and the programs have found it and have *)
(* an identifier each.                                                     *)
Init ==
  /\ status = [a \in Aid |-> IF a = 0 THEN "terminated" ELSE "alive"]
  /\ sched_status = [a \in Aid |-> CASE a = 0     -> "terminated"
                                     [] a = socks -> "waiting"
                                     [] OTHER     -> "runnable"]
  /\ expected_reply = [a \in Aid |-> 0]
  /\ msg_queues = [a \in Aid |-> [start |-> 0, end |-> 0, msg |-> [i \in Slot |-> NoMsg]]]
  /\ frame = [a \in Aid |-> NoMsg]
  /\ rq = Queued
  /\ kernel_curr_act = booter /\ kernel_next_act = MAX_ACTIVATIONS
  /\ unique = 0 /\ panic = "no"
  /\ interrupts_init
  /\ socket_init
  /\ pc = [a \in Programs |-> "start"]
  /\ sock = [a \in Programs |-> -1]
  /\ n = [a \in Programs |-> 0]
  /\ text = [m \in Messages |-> "new"]

Running(a) == panic = "no" /\ kernel_curr_act = a

----------------------------------------------------------------------------
(* A program is back from the kernel, with this in its registers.          *)
Result(a) == frame[a].v0

At(a, where) == pc[a] = where /\ UNCHANGED ivars
Same == UNCHANGED <<sock, n, text>>
Goto(a, where) == pc' = [pc EXCEPT ![a] = where]

Request(a, request, where) ==
  ccall_sync(socks, TRUE, request) /\ Goto(a, where) /\ UNCHANGED sockvars

CallReceive(a) == Request(a, [op |-> "recfrom", oid |-> a, s |-> sock[a]], "recfrom")

(* ssleep(0)                                                               *)
Sleep(a) == syscall_sleep /\ Goto(a, "sleep") /\ UNCHANGED sockvars

(* main returns.                                                           *)
Exit(a) == act_terminate(a) /\ Goto(a, "done") /\ UNCHANGED sockvars

Start(a) ==
  /\ At(a, "start")
  /\ Request(a, [op |-> "socket", oid |-> a], "socket")
  /\ Same

GotSocket(a, port) ==
  /\ At(a, "socket")
  /\ sock' = [sock EXCEPT ![a] = Result(a).ret]
  /\ Request(a, [op |-> "bind", oid |-> a, s |-> Result(a).ret, port |-> port], "bind")
  /\ UNCHANGED <<n, text>>

BindFailed(a) ==
  /\ At(a, "bind") /\ Result(a).ret = -1
  /\ Exit(a) /\ Same

(* A box that is empty is looked at again after a ssleep.                  *)
BoxEmpty(a) ==
  /\ At(a, "recfrom") /\ Result(a).msg = NULL
  /\ Sleep(a) /\ Same

(* server().                                                               *)
ServerWaits(s) ==
  /\ \/ At(s, "bind") /\ Result(s).ret = 0
     \/ At(s, "sleep")
  /\ CallReceive(s) /\ Same

(* strtoupper, then sendto.                                                *)
ServerSends(s) ==
  LET m == Result(s).msg
  IN  /\ At(s, "recfrom") /\ m # NULL
      /\ text' = [text EXCEPT ![m] = "upper"]
      /\ Request(s, [op |-> "sendto", oid |-> s, s |-> sock[s], msg |-> m], "sendto")
      /\ UNCHANGED <<sock, n>>

(* A plausible bug: the loop has no end.                                   *)
CountOne_forever(a, buffers, Loop) == n' = [n EXCEPT ![a] = @ + 1] /\ Loop

(* The number of messages done, and the loop that counts them; it leaves   *)
(* the buffers so when it ends.                                            *)
CountOne(a, buffers, Loop) ==
  /\ n' = [n EXCEPT ![a] = @ + 1]
  /\ IF n[a] + 1 = NB_MSG THEN Exit(a) /\ text' = buffers ELSE Loop

(* An error of sendto loses the answer.                                    *)
ServerSent(s) ==
  /\ At(s, "sendto")
  /\ IF Result(s).ret = 0
       THEN CountOne(s, text, CallReceive(s) /\ UNCHANGED text)
       ELSE CallReceive(s) /\ UNCHANGED <<n, text>>
  /\ UNCHANGED sock

ServerStep(s) ==
  \/ Start(s) \/ GotSocket(s, ServerPort) \/ BindFailed(s)
  \/ ServerWaits(s) \/ BoxEmpty(s) \/ ServerSends(s) \/ ServerSent(s)

(* A plausible bug: the buffer is freed once it is sent.                   *)
SendMessage_frees(c, i, buffers) ==
  /\ text' = [buffers EXCEPT ![<<c, i>>] = "freed"]
  /\ Request(c, [op |-> "sendto", oid |-> c, s |-> sock[c], msg |-> <<c, i>>], "sendto")

(* client(): genmsg, which finds memory, then sendto.                      *)
SendMessage(c, i, buffers) ==
  /\ text' = [buffers EXCEPT ![<<c, i>>] = "lower"]
  /\ Request(c, [op |-> "sendto", oid |-> c, s |-> sock[c], msg |-> <<c, i>>], "sendto")

NextMessage(c, buffers) == CountOne(c, buffers, SendMessage(c, n[c] + 1, buffers))

(* Until it is connected it tries again.                                   *)
ConnectFailed(c) ==
  /\ At(c, "connect") /\ Result(c).ret = -1
  /\ syscall_sleep /\ Goto(c, "connect_sleep")
  /\ UNCHANGED sockvars /\ Same

ClientConnects(c) ==
  /\ \/ At(c, "bind") /\ Result(c).ret = 0
     \/ At(c, "connect_sleep")
  /\ Request(c, [op |-> "connect", oid |-> c, s |-> sock[c], port |-> ServerPort], "connect")
  /\ Same

Connected(c) ==
  /\ At(c, "connect") /\ Result(c).ret = 0
  /\ SendMessage(c, 0, text)
  /\ UNCHANGED <<sock, n>>

(* An error of sendto skips the message.                                   *)
ClientSent(c) ==
  /\ At(c, "sendto")
  /\ IF Result(c).ret = 0 THEN Sleep(c) /\ UNCHANGED <<n, text>> ELSE NextMessage(c, text)
  /\ UNCHANGED sock

ClientReceives(c) ==
  /\ At(c, "sleep")
  /\ CallReceive(c) /\ Same

(* The answer is printed and freed.                                        *)
ClientGot(c) ==
  /\ At(c, "recfrom") /\ Result(c).msg # NULL
  /\ NextMessage(c, [text EXCEPT ![Result(c).msg] = "freed"])
  /\ UNCHANGED sock

ClientStep(c) ==
  \/ Start(c) \/ GotSocket(c, ClientPort) \/ BindFailed(c)
  \/ ConnectFailed(c) \/ ClientConnects(c) \/ Connected(c)
  \/ ClientSent(c) \/ ClientReceives(c) \/ BoxEmpty(c) \/ ClientGot(c)

----------------------------------------------------------------------------
(* The service answers each call when its method returns.                  *)
Serves(op) == frame[socks].v0.op = op
Answer(result) == creturn_sync(frame[socks].c1, result)

(* A call that is carried out if it can be, and refused if not.            *)
Attempt(can, Do, result, refused) ==
  IF can THEN Do /\ Answer(result) ELSE UNCHANGED sockvars /\ Answer(refused)

SocketsMethod ==
  LET r == frame[socks].v0
  IN  \/ /\ Serves("socket")
         /\ IF next_socket > MAX_SOCKET
              THEN UNCHANGED sockvars /\ user_fault
              ELSE socket(r.oid) /\ Answer([ret |-> next_socket])
      \/ /\ Serves("bind")
         /\ Attempt(CanBind(r.s, r.port), bind(r.s, r.port), [ret |-> 0], [ret |-> -1])
      \/ /\ Serves("connect")
         /\ Attempt(CanConnect(r.s, r.port), connect(r.s, r.port), [ret |-> 0], [ret |-> -1])
      \/ /\ Serves("recfrom")
         /\ Attempt(CanReceive(r.oid, r.s), recfrom(r.oid, r.s),
                    [msg |-> sockets[r.s].msg], [msg |-> NULL])
      \/ /\ Serves("sendto")
         /\ Attempt(CanSend(r.oid, r.s), sendto(r.oid, r.s, r.msg), [ret |-> 0], [ret |-> -1])

SocketsStep == SocketsMethod /\ UNCHANGED <<ivars, pvars>>

----------------------------------------------------------------------------
(* init yields until the programs have exited, and then halts.             *)
AllDone == \A a \in Programs : status[a] = "terminated"
Ended == panic # "no" \/ (AllDone /\ Running(booter))

InitStep == ~AllDone /\ syscall_sleep /\ UNCHANGED <<ivars, sockvars, pvars>>

Step(a) ==
  /\ Running(a)
  /\ \/ a = booter /\ InitStep
     \/ a = socks /\ SocketsStep
     \/ a \in Servers /\ ServerStep(a)
     \/ a \in Clients /\ ClientStep(a)

Tick == ~Ended /\ kernel_timer /\ UNCHANGED <<sockvars, pvars>>

Halted == Ended /\ UNCHANGED vars

Next == (\E a \in Aid \ {0} : Step(a)) \/ Tick \/ Halted

(* Nobody but init is scheduled, and its yield changes nothing.            *)
Idle == rq.end = 1 /\ rq.idx = 0

(* The processor executes the running program, and the interval of the     *)
(* timer is longer than what a program does between two entries into the   *)
(* kernel: SF_vars(Step(a)) for each, with its ENABLED spelled out.        *)
Fairness ==
  \A a \in Aid \ {0} :
    ([]<>(Running(a) /\ ~Ended /\ ~Idle) => []<><<Step(a)>>_vars)

Spec == Init /\ [][Next]_vars /\ Fairness

----------------------------------------------------------------------------
(* Every variable has its type.                                            *)
TypeOK ==
  /\ KTypeOK /\ IrqTypeOK /\ SocketsTypeOK
  /\ pc \in [Programs -> {"start", "socket", "bind", "connect", "connect_sleep", "sendto",
                          "sleep", "recfrom", "done"}]
  /\ sock \in [Programs -> Socket \cup {-1}]
  /\ n \in [Programs -> 0 .. NB_MSG]
  /\ text \in [Messages -> {"new", "lower", "upper", "freed"}]

(* Nothing stops the machine: the service's queue has room for a call of   *)
(* each program, and there are sockets enough.                             *)
NeverStops == panic = "no"

(* A program is back from a call.                                          *)
Back(a, call) == pc[a] = call /\ sched_status[a] = "runnable"

(* What a program has received, or NULL.                                   *)
Received(a) == IF Back(a, "recfrom") THEN Result(a).msg ELSE NULL

(* A client gets back the message it sent last, in upper case.             *)
Echoed ==
  \A c \in Clients : Received(c) # NULL => Received(c) = <<c, n[c]>> /\ text[Received(c)] = "upper"

(* No buffer is used after it was freed: whoever has received it or will,  *)
(* gets one that is still allocated.                                       *)
NotFreed ==
  /\ \A a \in Programs : Received(a) # NULL => text[Received(a)] # "freed"
  /\ \A s \in Socket : sockets[s].msg # NULL => text[sockets[s].msg] # "freed"

(* sendto never fails: the box it is for has been emptied, and there is a  *)
(* peer.  Either program's error path would lose a message the other waits *)
(* for.                                                                    *)
NoSendError == \A a \in Programs : Back(a, "sendto") => Result(a).ret = 0

(* All programs finish: none waits for a message that does not come, the   *)
(* scheduler passes over none, and the calls of those that poll leave the  *)
(* others their turn.                                                      *)
Finished == <>AllDone
=============================================================================
