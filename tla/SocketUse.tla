----------------------------- MODULE SocketUse -----------------------------
(***************************************************************************)
(* Sockets with programs that call it in any order, on any socket, and     *)
(* that give a message away when they send it.  Any program may connect    *)
(* any socket: connect does not look at who calls.  Two history variables  *)
(* say what happened to each socket; no action reads them.                 *)
(***************************************************************************)
EXTENDS Sockets

VARIABLES
  held,   \* the messages each program has
  from,   \* history: the socket that sent to each socket last, or -1
  again   \* history: the sockets connected by a call while they had a peer

vars == <<svars, held, from, again>>

Init ==
  /\ socket_init
  /\ held \in [Programs -> SUBSET Messages]
  /\ \A m \in Messages : \E a \in Programs :
        m \in held[a] /\ \A b \in Programs \ {a} : m \notin held[b]
  /\ from = [s \in Socket |-> -1]
  /\ again = {}

Create(a) == (socket(a) \/ socket_fails) /\ UNCHANGED <<held, from, again>>

Bind(s, p) == bind(s, p) /\ UNCHANGED <<held, from, again>>

Connect(s, p) ==
  /\ connect(s, p)
  /\ again' = IF sockets[s].socksend = -1 THEN again ELSE again \cup {s}
  /\ UNCHANGED <<held, from>>

Receive(a, s) ==
  /\ recfrom(a, s)
  /\ held' = [held EXCEPT ![a] = @ \cup {sockets[s].msg}]
  /\ UNCHANGED <<from, again>>

Send(a, s, m) ==
  /\ m \in held[a]
  /\ sendto(a, s, m)
  /\ held' = [held EXCEPT ![a] = @ \ {m}]
  /\ from' = [from EXCEPT ![sockets[s].socksend] = s]
  /\ UNCHANGED again

Frozen == failed /\ UNCHANGED vars

Next ==
  \/ /\ ~failed
     /\ \/ \E a \in Programs : Create(a)
        \/ \E s \in Socket, p \in Port : Bind(s, p) \/ Connect(s, p)
        \/ \E a \in Programs, s \in Socket : Receive(a, s)
        \/ \E a \in Programs, s \in Socket, m \in Messages : Send(a, s, m)
  \/ Frozen

Spec == Init /\ [][Next]_vars

----------------------------------------------------------------------------
(* Every variable has its type.                                            *)
TypeOK ==
  /\ SocketsTypeOK
  /\ held \in [Programs -> SUBSET Messages]
  /\ from \in [Socket -> Socket \cup {-1}] /\ again \subseteq Socket

(* A message is with one program or in one box, always: whatever sockets   *)
(* are connected to each other and again, none is lost, overwritten or     *)
(* delivered twice.                                                        *)
InOnePlace ==
  \A m \in Messages :
    /\ \A a, b \in Programs : m \in held[a] /\ m \in held[b] => a = b
    /\ \A s, t \in Socket : sockets[s].msg = m /\ sockets[t].msg = m => s = t
    /\ (\E a \in Programs : m \in held[a]) # (\E s \in Socket : sockets[s].msg = m)

(* A connection has two ends: what sendto sends to has a peer as well.     *)
TwoEnds == \A s \in Socket : sockets[s].socksend # -1 =>
             sockets[sockets[s].socksend].socksend # -1

(* An answer goes back to whoever it answers: a socket sends to the one    *)
(* whose message it got last, however others connect, to its port too, and *)
(* whatever became of the sender's own connection.  Left out are sockets   *)
(* that were themselves connected again: they may still get messages of    *)
(* their old peer, and what they answer goes to the new one.               *)
AnswersReturn ==
  \A s \in Socket \ again : from[s] # -1 => sockets[s].socksend = from[s]
=============================================================================
