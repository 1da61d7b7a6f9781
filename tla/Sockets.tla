------------------------------ MODULE Sockets ------------------------------
(***************************************************************************)
(* The sockets service (sockets/src/sockets.c): programs that hold an      *)
(* identifier made by its constructor create sockets, bind them to ports,  *)
(* connect them and pass each other capabilities to messages, through a    *)
(* box of one message at each socket.  The service serves one call at a    *)
(* time, so each call is an action; a call that is refused changes nothing.*)
(***************************************************************************)
EXTENDS Integers

CONSTANTS
  MAX_SOCKET,  \* the last socket
  MAX_PORT,    \* the last port
  Programs,    \* programs, each with an identifier of its own (oid)
  Messages,    \* messages, capabilities to buffers
  NULL

ASSUME SocketsAssumption == /\ MAX_SOCKET \in Nat /\ MAX_PORT \in Nat
                            /\ NULL \notin Messages \cup Programs

Socket == 0 .. MAX_SOCKET
Port == 0 .. MAX_PORT

VARIABLES
  ports,        \* the socket bound to each port, or -1
  sockets,      \* each socket's creator (NULL while off), peer (or -1) and box
  next_socket,  \* sockets created
  failed        \* an assertion of the service failed, which stops the machine

svars == <<ports, sockets, next_socket, failed>>

Off == [oid |-> NULL, socksend |-> -1, msg |-> NULL]

socket_init ==
  /\ ports = [p \in Port |-> -1]
  /\ sockets = [s \in Socket |-> Off]
  /\ next_socket = 0
  /\ failed = FALSE

On(s) == s \in Socket /\ sockets[s].oid # NULL

(* A plausible bug: nobody looks whether there is a socket left.           *)
socket_unbounded(oid) ==
  /\ sockets' = [sockets EXCEPT ![next_socket] = [Off EXCEPT !.oid = oid]]
  /\ next_socket' = next_socket + 1
  /\ UNCHANGED <<ports, failed>>

socket(oid) ==
  /\ next_socket <= MAX_SOCKET
  /\ sockets' = [sockets EXCEPT ![next_socket] = [Off EXCEPT !.oid = oid]]
  /\ next_socket' = next_socket + 1
  /\ UNCHANGED <<ports, failed>>

socket_fails ==
  /\ next_socket > MAX_SOCKET
  /\ failed' = TRUE
  /\ UNCHANGED <<ports, sockets, next_socket>>

CanBind(s, p) == On(s) /\ ports[p] = -1

bind(s, p) ==
  /\ CanBind(s, p)
  /\ ports' = [ports EXCEPT ![p] = s]
  /\ UNCHANGED <<sockets, next_socket, failed>>

(* A plausible bug: connections are accepted from more than one socket.    *)
CanConnect_again(s, p) == On(s) /\ p \in Port /\ ports[p] # -1

CanConnect(s, p) ==
  /\ On(s) /\ p \in Port /\ ports[p] # -1
  /\ sockets[ports[p]].socksend = -1

(* A plausible bug: the peer that was connected to does not learn of it.   *)
connect_one_way(s, p) ==
  /\ CanConnect(s, p)
  /\ sockets' = [sockets EXCEPT ![s].socksend = ports[p]]
  /\ UNCHANGED <<ports, next_socket, failed>>

(* The socket that connects may have been connected before: only its own   *)
(* peer changes.                                                           *)
connect(s, p) ==
  /\ CanConnect(s, p)
  /\ sockets' = [[sockets EXCEPT ![ports[p]].socksend = s]
                          EXCEPT ![s].socksend = ports[p]]
  /\ UNCHANGED <<ports, next_socket, failed>>

(* recfrom returns what the box holds, NULL if that is nothing.            *)
CanReceive(oid, s) == On(s) /\ sockets[s].oid = oid /\ sockets[s].msg # NULL

recfrom(oid, s) ==
  /\ CanReceive(oid, s)
  /\ sockets' = [sockets EXCEPT ![s].msg = NULL]
  /\ UNCHANGED <<ports, next_socket, failed>>

(* A plausible bug: a box that is full is overwritten.                     *)
CanSend_full(oid, s) ==
  On(s) /\ sockets[s].socksend # -1 /\ sockets[s].oid = oid

CanSend(oid, s) ==
  /\ On(s) /\ sockets[s].socksend # -1
  /\ sockets[s].oid = oid /\ sockets[sockets[s].socksend].msg = NULL

(* A plausible bug: the message goes into the sender's own box.            *)
sendto_own(oid, s, m) ==
  /\ CanSend(oid, s)
  /\ sockets' = [sockets EXCEPT ![s].msg = m]
  /\ UNCHANGED <<ports, next_socket, failed>>

sendto(oid, s, m) ==
  /\ CanSend(oid, s)
  /\ sockets' = [sockets EXCEPT ![sockets[s].socksend].msg = m]
  /\ UNCHANGED <<ports, next_socket, failed>>

SocketsTypeOK ==
  /\ ports \in [Port -> Socket \cup {-1}]
  /\ sockets \in [Socket -> [oid : Programs \cup {NULL}, socksend : Socket \cup {-1},
                             msg : Messages \cup {NULL}]]
  /\ next_socket \in 0 .. MAX_SOCKET + 1
  /\ failed \in BOOLEAN
=============================================================================
