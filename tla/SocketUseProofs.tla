--------------------------- MODULE SocketUseProofs ---------------------------
(***************************************************************************)
(* For any number of sockets, ports, programs and messages: no message of  *)
(* SocketUse is lost or doubled, a connection has two ends, and an answer  *)
(* goes back to whoever it answers.                                        *)
(***************************************************************************)
EXTENDS SocketUse, TLAPS

(* What a call leaves untouched: a socket that is not created yet is off, *)
(* with an empty box that socket() may write over.                         *)
Fresh == \A s \in Socket : next_socket <= s => sockets[s] = Off

(* Only sockets that were created are bound, ...                           *)
BoundOn == \A p \in Port : ports[p] # -1 => ports[p] < next_socket

(* ... and only those are connected to.                                    *)
PeerOn == \A s \in Socket : sockets[s].socksend < next_socket

(* Unless it was connected again, a socket sends to those that send to it, *)
(* so that there is at most one.                                           *)
Mutual == \A s \in Socket, t \in Socket \ again :
            sockets[s].socksend = t => sockets[t].socksend = s

(* The inductive invariant.                                                *)
SocketInv == TypeOK /\ Fresh /\ BoundOn /\ PeerOn /\ TwoEnds /\ InOnePlace /\ Mutual /\ AnswersReturn

LEMMA SocketInvInit == Init => SocketInv
<1> SUFFICES ASSUME Init PROVE SocketInv
  OBVIOUS
<1>1. /\ ports = [p \in Port |-> -1] /\ sockets = [s \in Socket |-> Off]
      /\ next_socket = 0 /\ failed = FALSE /\ held \in [Programs -> SUBSET Messages]
      /\ from = [s \in Socket |-> -1] /\ again = {}
  BY DEF Init, socket_init
<1>2. MAX_SOCKET \in Nat /\ Socket \subseteq Nat
  BY SocketsAssumption DEF Socket
<1>3. TypeOK
  <2>1. Off \in [oid : Programs \cup {NULL}, socksend : Socket \cup {-1}, msg : Messages \cup {NULL}]
    BY DEF Off
  <2>2. ports \in [Port -> Socket \cup {-1}] /\ next_socket \in 0 .. MAX_SOCKET + 1
    BY <1>1, <1>2
  <2> QED BY <1>1, <2>1, <2>2 DEF TypeOK, SocketsTypeOK
<1>4. Fresh /\ BoundOn /\ PeerOn /\ TwoEnds /\ AnswersReturn
  BY <1>1, <1>2 DEF Fresh, BoundOn, PeerOn, TwoEnds, AnswersReturn, Off
<1>6. Mutual
  BY <1>1, <1>2 DEF Mutual, Off
<1>5. InOnePlace
  <2> SUFFICES ASSUME NEW m \in Messages
               PROVE  /\ \A a, b \in Programs : m \in held[a] /\ m \in held[b] => a = b
                      /\ \A s, t \in Socket : sockets[s].msg = m /\ sockets[t].msg = m => s = t
                      /\ (\E a \in Programs : m \in held[a]) # (\E s \in Socket : sockets[s].msg = m)
    BY DEF InOnePlace
  <2>1. \A s \in Socket : sockets[s].msg # m
    BY <1>1, SocketsAssumption DEF Off
  <2>2. PICK a \in Programs : m \in held[a] /\ \A b \in Programs \ {a} : m \notin held[b]
    BY DEF Init
  <2> QED BY <2>1, <2>2
<1> QED BY <1>3, <1>4, <1>5, <1>6 DEF SocketInv

(* Where the boxes and the programs' messages stay as they are, each       *)
(* message stays where it is.                                              *)
LEMMA SamePlace ==
  ASSUME InOnePlace, held' = held, \A s \in Socket : sockets'[s].msg = sockets[s].msg
  PROVE  InOnePlace'
BY DEF InOnePlace

(* Where the peers and the history stay as they are, an answer goes where  *)
(* it went.                                                                *)
LEMMA SamePeers ==
  ASSUME Mutual, AnswersReturn, from' = from, again' = again,
         \A s \in Socket : sockets'[s].socksend = sockets[s].socksend
  PROVE  Mutual' /\ AnswersReturn'
BY DEF Mutual, AnswersReturn

LEMMA CreateKeeps ==
  ASSUME SocketInv, NEW a \in Programs, Create(a)
  PROVE  SocketInv'
<1>1. CASE socket_fails
  BY <1>1 DEF Create, socket_fails, SocketInv, TypeOK, SocketsTypeOK, Fresh, BoundOn, PeerOn,
              TwoEnds, InOnePlace, Mutual, AnswersReturn
<1>2. CASE socket(a)
  <2> DEFINE new == [Off EXCEPT !.oid = a]
  <2>1. /\ next_socket \in Socket /\ next_socket \in Nat /\ next_socket + 1 \in 0 .. MAX_SOCKET + 1
        /\ Socket \subseteq Nat
    BY <1>2, SocketsAssumption DEF socket, SocketInv, TypeOK, SocketsTypeOK, Socket
  <2>2. /\ sockets' = [sockets EXCEPT ![next_socket] = new] /\ next_socket' = next_socket + 1
        /\ UNCHANGED <<ports, failed, held, from, again>>
    BY <1>2 DEF socket, Create
  <2>3. /\ new = [oid |-> a, socksend |-> -1, msg |-> NULL]
        /\ sockets[next_socket] = Off
    BY <2>1 DEF Off, SocketInv, Fresh
  <2> HIDE DEF new
  <2>4. /\ sockets'[next_socket] = new
        /\ \A s \in Socket : s # next_socket => sockets'[s] = sockets[s]
    BY <2>1, <2>2 DEF SocketInv, TypeOK, SocketsTypeOK
  <2>5. \A s \in Socket : /\ sockets'[s].socksend = sockets[s].socksend
                          /\ sockets'[s].msg = sockets[s].msg
    BY <2>3, <2>4 DEF Off
  <2>6. TypeOK'
    BY <2>1, <2>2, <2>3 DEF SocketInv, TypeOK, SocketsTypeOK
  <2>7. Fresh'
    BY <2>1, <2>2, <2>4 DEF SocketInv, Fresh
  <2>8. BoundOn' /\ PeerOn'
    <3>0. Socket \cup {-1} \subseteq Int
      BY SocketsAssumption DEF Socket
    <3>1. \A p \in Port : ports[p] \in Socket \cup {-1}
      BY DEF SocketInv, TypeOK, SocketsTypeOK
    <3>2. \A s \in Socket : sockets[s].socksend \in Socket \cup {-1}
      BY DEF SocketInv, TypeOK, SocketsTypeOK
    <3>3. ASSUME NEW p \in Port, ports[p] # -1 PROVE ports[p] < next_socket + 1
      <4>1. ports[p] \in Int
        BY <3>0, <3>1
      <4>2. ports[p] < next_socket
        BY <3>3 DEF SocketInv, BoundOn
      <4> QED BY <4>1, <4>2, <2>1
    <3>4. ASSUME NEW s \in Socket PROVE sockets[s].socksend < next_socket + 1
      <4>1. sockets[s].socksend \in Int
        BY <3>0, <3>2
      <4>2. sockets[s].socksend < next_socket
        BY DEF SocketInv, PeerOn
      <4> QED BY <4>1, <4>2, <2>1
    <3> QED BY <3>3, <3>4, <2>2, <2>5 DEF BoundOn, PeerOn
  <2>9. TwoEnds'
    BY <2>5 DEF SocketInv, TwoEnds, TypeOK, SocketsTypeOK
  <2>10. InOnePlace'
    BY <2>2, <2>5, SamePlace DEF SocketInv
  <2>11. Mutual' /\ AnswersReturn'
    BY <2>2, <2>5, SamePeers DEF SocketInv
  <2> QED BY <2>6, <2>7, <2>8, <2>9, <2>10, <2>11 DEF SocketInv
<1> QED BY <1>1, <1>2 DEF Create

LEMMA BindKeeps ==
  ASSUME SocketInv, NEW s \in Socket, NEW p \in Port, Bind(s, p)
  PROVE  SocketInv'
<1>1. /\ ports' = [ports EXCEPT ![p] = s] /\ UNCHANGED <<sockets, next_socket, failed, held, from, again>>
      /\ sockets[s].oid # NULL
  BY DEF Bind, bind, CanBind, On
<1>2. s < next_socket
  <2>1. s \in Int /\ next_socket \in Int
    BY SocketsAssumption DEF Socket, SocketInv, TypeOK, SocketsTypeOK
  <2> QED BY <2>1, <1>1 DEF SocketInv, Fresh, Off
<1>3. BoundOn'
  BY <1>1, <1>2 DEF SocketInv, BoundOn, TypeOK, SocketsTypeOK
<1>4. TypeOK'
  BY <1>1 DEF SocketInv, TypeOK, SocketsTypeOK
<1>5. Mutual' /\ AnswersReturn'
  BY <1>1, SamePeers DEF SocketInv
<1> QED BY <1>1, <1>3, <1>4, <1>5 DEF SocketInv, Fresh, PeerOn, TwoEnds, InOnePlace

LEMMA ConnectKeeps ==
  ASSUME SocketInv, NEW s \in Socket, NEW p \in Port, Connect(s, p)
  PROVE  SocketInv'
<1> DEFINE q == ports[p]
<1>1. /\ sockets' = [[sockets EXCEPT ![q].socksend = s] EXCEPT ![s].socksend = q]
      /\ UNCHANGED <<ports, next_socket, failed, held, from>>
      /\ again' = IF sockets[s].socksend = -1 THEN again ELSE again \cup {s}
      /\ sockets[s].oid # NULL /\ q # -1 /\ sockets[q].socksend = -1
  BY DEF Connect, connect, CanConnect, On
<1>2. /\ q \in Socket /\ q < next_socket
      /\ s \in Int /\ q \in Int /\ next_socket \in Int /\ -1 \notin Socket
  BY <1>1, SocketsAssumption DEF SocketInv, TypeOK, SocketsTypeOK, BoundOn, Socket
<1>3. s < next_socket
  BY <1>1, <1>2 DEF SocketInv, Fresh, Off
<1>4. /\ \A t \in Socket : sockets'[t].msg = sockets[t].msg
      /\ sockets'[s].socksend = q
      /\ q # s => sockets'[q].socksend = s
      /\ \A t \in Socket : t # s /\ t # q => sockets'[t] = sockets[t]
  BY <1>1, <1>2 DEF SocketInv, TypeOK, SocketsTypeOK
<1> HIDE DEF q
<1>5. TypeOK'
  BY <1>1, <1>2 DEF SocketInv, TypeOK, SocketsTypeOK
<1>6. Fresh'
  <2>1. \A t \in Socket : next_socket <= t => t # s /\ t # q
    BY <1>2, <1>3
  <2> QED BY <2>1, <1>1, <1>4 DEF SocketInv, Fresh
<1>7. BoundOn' /\ PeerOn'
  <2>1. BoundOn'
    BY <1>1 DEF SocketInv, BoundOn
  <2>2. ASSUME NEW t \in Socket PROVE sockets'[t].socksend < next_socket
    BY <1>2, <1>3, <1>4 DEF SocketInv, PeerOn
  <2> QED BY <1>1, <2>1, <2>2 DEF PeerOn
<1>8. TwoEnds'
  <2> SUFFICES ASSUME NEW t \in Socket, sockets'[t].socksend # -1
               PROVE  sockets'[sockets'[t].socksend].socksend # -1
    BY DEF TwoEnds
  <2>1. sockets'[s].socksend # -1 /\ sockets'[q].socksend # -1
    BY <1>2, <1>4
  <2>2. CASE t = s \/ t = q
    BY <1>4, <2>1, <2>2
  <2>3. CASE t # s /\ t # q
    <3>1. /\ sockets'[t].socksend = sockets[t].socksend
          /\ sockets[t].socksend \in Socket
      BY <1>4, <2>3 DEF SocketInv, TypeOK, SocketsTypeOK
    <3>2. sockets[sockets[t].socksend].socksend # -1
      BY <3>1 DEF SocketInv, TwoEnds
    <3> QED BY <3>1, <3>2, <2>1, <1>4
  <2> QED BY <2>2, <2>3
<1>9. InOnePlace'
  BY <1>1, <1>4, SamePlace DEF SocketInv
<1>0. again \subseteq again' /\ (sockets[s].socksend # -1 => s \in again')
  BY <1>1
<1>10. Mutual'
  <2> SUFFICES ASSUME NEW t \in Socket, NEW u \in Socket, u \notin again', sockets'[t].socksend = u
               PROVE  sockets'[u].socksend = t
    BY DEF Mutual
  <2>1. CASE t = s \/ t = q
    BY <1>2, <1>4, <2>1
  <2>2. CASE t # s /\ t # q
    <3>0. sockets[t].socksend = u /\ u \in Socket \ again
      BY <1>0, <1>4, <2>2
    <3>1. sockets[u].socksend = t
      BY <3>0 DEF SocketInv, Mutual
    <3>2. u # q /\ u # s
      BY <1>0, <1>1, <1>2, <3>1
    <3> QED BY <1>4, <3>1, <3>2
  <2> QED BY <2>1, <2>2
<1>11. AnswersReturn'
  <2> SUFFICES ASSUME NEW t \in Socket, t \notin again', from[t] # -1
               PROVE  sockets'[t].socksend = from[t]
    BY <1>1 DEF AnswersReturn
  <2>1. sockets[t].socksend = from[t]
    BY <1>0 DEF SocketInv, AnswersReturn
  <2>2. t # s /\ t # q
    BY <1>0, <1>1, <2>1
  <2> QED BY <1>4, <2>1, <2>2
<1> QED BY <1>5, <1>6, <1>7, <1>8, <1>9, <1>10, <1>11 DEF SocketInv

(* A message that moves from a box to a program.                           *)
LEMMA ReceiveKeeps ==
  ASSUME SocketInv, NEW a \in Programs, NEW s \in Socket, Receive(a, s)
  PROVE  SocketInv'
<1> DEFINE m0 == sockets[s].msg
<1>1. /\ sockets' = [sockets EXCEPT ![s].msg = NULL] /\ m0 # NULL
      /\ held' = [held EXCEPT ![a] = @ \cup {m0}] /\ UNCHANGED <<ports, next_socket, failed, from, again>>
      /\ sockets[s].oid # NULL
  BY DEF Receive, recfrom, CanReceive, On
<1>2. /\ m0 \in Messages /\ NULL \notin Messages
      /\ sockets'[s].msg = NULL /\ \A t \in Socket : t # s => sockets'[t] = sockets[t]
      /\ \A t \in Socket : sockets'[t].socksend = sockets[t].socksend
      /\ held'[a] = held[a] \cup {m0} /\ \A b \in Programs : b # a => held'[b] = held[b]
  BY <1>1, SocketsAssumption DEF SocketInv, TypeOK, SocketsTypeOK
<1>3. TypeOK'
  BY <1>1, <1>2 DEF SocketInv, TypeOK, SocketsTypeOK
<1>4. Fresh'
  BY <1>1, <1>2 DEF SocketInv, Fresh, Off
<1>5. BoundOn' /\ PeerOn' /\ TwoEnds'
  BY <1>1, <1>2 DEF SocketInv, BoundOn, PeerOn, TwoEnds, TypeOK, SocketsTypeOK
<1>7. Mutual' /\ AnswersReturn'
  BY <1>1, <1>2, SamePeers DEF SocketInv
<1> HIDE DEF m0
<1>6. InOnePlace'
  <2> SUFFICES ASSUME NEW m \in Messages
               PROVE  /\ \A b, c \in Programs : m \in held'[b] /\ m \in held'[c] => b = c
                      /\ \A t, u \in Socket : sockets'[t].msg = m /\ sockets'[u].msg = m => t = u
                      /\ (\E b \in Programs : m \in held'[b]) # (\E t \in Socket : sockets'[t].msg = m)
    BY DEF InOnePlace
  <2>1. CASE m = m0
    BY <1>2, <2>1 DEF SocketInv, InOnePlace, m0
  <2>2. CASE m # m0
    <3>1. \A b \in Programs : m \in held'[b] <=> m \in held[b]
      BY <1>2, <2>2
    <3>2. \A t \in Socket : sockets'[t].msg = m <=> sockets[t].msg = m
      BY <1>2, <2>2 DEF m0
    <3> QED BY <3>1, <3>2 DEF SocketInv, InOnePlace
  <2> QED BY <2>1, <2>2
<1> QED BY <1>3, <1>4, <1>5, <1>6, <1>7 DEF SocketInv

(* A message that moves from a program to a box, which is empty.           *)
LEMMA SendKeeps ==
  ASSUME SocketInv, NEW a \in Programs, NEW s \in Socket, NEW m0 \in Messages, Send(a, s, m0)
  PROVE  SocketInv'
<1> DEFINE q == sockets[s].socksend
<1>1. /\ sockets' = [sockets EXCEPT ![q].msg = m0] /\ sockets[q].msg = NULL /\ q # -1
      /\ m0 \in held[a] /\ held' = [held EXCEPT ![a] = @ \ {m0}]
      /\ from' = [from EXCEPT ![q] = s] /\ UNCHANGED <<ports, next_socket, failed, again>>
  BY DEF Send, sendto, CanSend, On
<1>2. q \in Socket /\ NULL \notin Messages
  BY <1>1, SocketsAssumption DEF SocketInv, TypeOK, SocketsTypeOK
<1>3. /\ sockets'[q].msg = m0 /\ \A t \in Socket : t # q => sockets'[t] = sockets[t]
      /\ \A t \in Socket : sockets'[t].socksend = sockets[t].socksend
      /\ held'[a] = held[a] \ {m0} /\ \A b \in Programs : b # a => held'[b] = held[b]
  BY <1>1, <1>2 DEF SocketInv, TypeOK, SocketsTypeOK
<1>4. q < next_socket
  BY DEF SocketInv, PeerOn
<1> HIDE DEF q
<1>5. TypeOK'
  BY <1>1, <1>2 DEF SocketInv, TypeOK, SocketsTypeOK
<1>6. Fresh'
  <2>1. q \in Int /\ next_socket \in Int /\ Socket \subseteq Int
    BY <1>2, SocketsAssumption DEF Socket, SocketInv, TypeOK, SocketsTypeOK
  <2> QED BY <2>1, <1>1, <1>3, <1>4 DEF SocketInv, Fresh
<1>7. BoundOn' /\ PeerOn' /\ TwoEnds'
  BY <1>1, <1>3 DEF SocketInv, BoundOn, PeerOn, TwoEnds, TypeOK, SocketsTypeOK
<1>8. InOnePlace'
  <2> SUFFICES ASSUME NEW m \in Messages
               PROVE  /\ \A b, c \in Programs : m \in held'[b] /\ m \in held'[c] => b = c
                      /\ \A t, u \in Socket : sockets'[t].msg = m /\ sockets'[u].msg = m => t = u
                      /\ (\E b \in Programs : m \in held'[b]) # (\E t \in Socket : sockets'[t].msg = m)
    BY DEF InOnePlace
  <2>1. CASE m = m0
    BY <1>1, <1>2, <1>3, <2>1 DEF SocketInv, InOnePlace
  <2>2. CASE m # m0
    <3>1. \A b \in Programs : m \in held'[b] <=> m \in held[b]
      BY <1>3, <2>2
    <3>2. \A t \in Socket : sockets'[t].msg = m <=> sockets[t].msg = m
      BY <1>1, <1>2, <1>3, <2>2
    <3> QED BY <3>1, <3>2 DEF SocketInv, InOnePlace
  <2> QED BY <2>1, <2>2
<1>9. Mutual'
  BY <1>1, <1>3 DEF SocketInv, Mutual
<1>10. AnswersReturn'
  <2> SUFFICES ASSUME NEW t \in Socket, t \notin again, from'[t] # -1
               PROVE  sockets[t].socksend = from'[t]
    BY <1>1, <1>3 DEF AnswersReturn
  <2>0. from'[q] = s /\ (t # q => from'[t] = from[t])
    BY <1>1, <1>2 DEF SocketInv, TypeOK
  <2>1. CASE t = q
    BY <2>0, <2>1 DEF SocketInv, Mutual, q
  <2>2. CASE t # q
    BY <2>0, <2>2 DEF SocketInv, AnswersReturn
  <2> QED BY <2>1, <2>2
<1> QED BY <1>5, <1>6, <1>7, <1>8, <1>9, <1>10 DEF SocketInv

LEMMA SocketInvStep == SocketInv /\ [Next]_vars => SocketInv'
<1> SUFFICES ASSUME SocketInv, [Next]_vars PROVE SocketInv'
  OBVIOUS
<1>1. ASSUME NEW a \in Programs, Create(a) PROVE SocketInv'
  BY <1>1, CreateKeeps
<1>2. ASSUME NEW s \in Socket, NEW p \in Port, Bind(s, p) PROVE SocketInv'
  BY <1>2, BindKeeps
<1>3. ASSUME NEW s \in Socket, NEW p \in Port, Connect(s, p) PROVE SocketInv'
  BY <1>3, ConnectKeeps
<1>4. ASSUME NEW a \in Programs, NEW s \in Socket, Receive(a, s) PROVE SocketInv'
  BY <1>4, ReceiveKeeps
<1>5. ASSUME NEW a \in Programs, NEW s \in Socket, NEW m \in Messages, Send(a, s, m)
      PROVE  SocketInv'
  BY <1>5, SendKeeps
<1>6. CASE UNCHANGED vars
  BY <1>6 DEF vars, svars, SocketInv, TypeOK, SocketsTypeOK, Fresh, BoundOn, PeerOn, TwoEnds,
              InOnePlace, Mutual, AnswersReturn
<1> QED BY <1>1, <1>2, <1>3, <1>4, <1>5, <1>6 DEF Next, Frozen

(* The invariant holds in every state of the service.                      *)
THEOREM SocketInvariant == Spec => []SocketInv
BY SocketInvInit, SocketInvStep, PTL DEF Spec

(* Socket and port numbers stay in range, and boxes hold messages.         *)
THEOREM SocketTypes == Spec => []TypeOK
<1>1. SocketInv => TypeOK
  BY DEF SocketInv
<1> QED BY SocketInvariant, <1>1, PTL

(* No message is lost, overwritten or delivered twice.                     *)
THEOREM MessagesInOnePlace == Spec => []InOnePlace
<1>1. SocketInv => InOnePlace
  BY DEF SocketInv
<1> QED BY SocketInvariant, <1>1, PTL

(* What sendto sends to has a peer as well.                                *)
THEOREM ConnectionsHaveTwoEnds == Spec => []TwoEnds
<1>1. SocketInv => TwoEnds
  BY DEF SocketInv
<1> QED BY SocketInvariant, <1>1, PTL

(* What a socket sends reaches the one whose message it got last, unless   *)
(* it was connected again.                                                 *)
THEOREM AnswersGoBack == Spec => []AnswersReturn
<1>1. SocketInv => AnswersReturn
  BY DEF SocketInv
<1> QED BY SocketInvariant, <1>1, PTL
=============================================================================
