-------------------------------- MODULE Ipc ---------------------------------
(***************************************************************************)
(* What the kernel promises to activations, whatever its run queue, rings  *)
(* and reply tokens look like inside: every activation has a first-in      *)
(* first-out mailbox of bounded capacity; it takes one message at a time,  *)
(* when it is chosen to run; a call blocks its caller until the activation *)
(* the call was delivered to answers it, once; and who runs next is some   *)
(* activation with work to do.                                             *)
(***************************************************************************)
EXTENDS Naturals, Sequences

CONSTANTS
  Acts,       \* activations
  First,      \* the one that runs first
  Capacity,   \* messages a mailbox holds
  Args,       \* contents of messages and answers
  Tokens,     \* names of calls, with a field aid naming the caller
  None,       \* in place of a token: a message that wants no answer
  Zero        \* in place of contents: a message was dropped, or not busy

VARIABLES
  mode,       \* idle (between messages), busy, blocked (in a call) or dead
  mbox,       \* the undelivered messages of each activation
  val,        \* contents of the message or answer each busy one got last
  owes,       \* the calls delivered to each activation and not answered
  run         \* the activation that runs

pvars == <<mode, mbox, val, owes, run>>

Init ==
  /\ mode \in [Acts -> {"idle", "busy", "dead"}]
  /\ \A a \in Acts : mode[a] = "busy" <=> a = First
  /\ mbox = [a \in Acts |-> <<>>]
  /\ val = [a \in Acts |-> Zero]
  /\ owes = [a \in Acts |-> {}]
  /\ run = First

(* Some activation with work to do runs next, a message being its work if  *)
(* it is idle; md, mb, vl and ow are what the step made of the variables.  *)
Dispatch(md, mb, vl, ow) ==
  \E n \in Acts :
    /\ run' = n
    /\ \/ /\ md[n] = "busy"
          /\ mode' = md /\ mbox' = mb /\ val' = vl /\ owes' = ow
       \/ /\ md[n] = "idle" /\ mb[n] # <<>>
          /\ mode' = [md EXCEPT ![n] = "busy"]
          /\ mbox' = [a \in Acts |-> IF a = n THEN Tail(mb[a]) ELSE mb[a]]
          /\ val' = [vl EXCEPT ![n] = Head(mb[n]).v0]
          /\ owes' = [ow EXCEPT ![n] = @ \cup ({Head(mb[n]).c1} \ {None})]

Posted(d, m) == [mbox EXCEPT ![d] = Append(@, m)]

Took(arg) == [val EXCEPT ![run] = arg]

HasRoom(d) == Len(mbox[d]) < Capacity

(* A message for d that wants no answer; if there is no room it is dropped *)
(* and the sender sees Zero.  The sender runs on, or waits for a message.     *)
Send(d, arg) ==
  /\ HasRoom(d)
  /\ mbox' = Posted(d, [v0 |-> arg, c1 |-> None])
  /\ val' = Took(arg)
  /\ UNCHANGED <<mode, owes, run>>

Load(arg) == val' = Took(arg) /\ UNCHANGED <<mode, mbox, owes, run>>

Rest == Dispatch([mode EXCEPT ![run] = "idle"], mbox, Took(Zero), owes)

SendRest(d, arg) ==
  /\ HasRoom(d)
  /\ Dispatch([mode EXCEPT ![run] = "idle"], Posted(d, [v0 |-> arg, c1 |-> None]),
              Took(Zero), owes)

Call(d, arg, t) ==
  /\ HasRoom(d) /\ t.aid = run
  /\ Dispatch([mode EXCEPT ![run] = "blocked"], Posted(d, [v0 |-> arg, c1 |-> t]),
              Took(Zero), owes)

Answer(t, arg) ==
  /\ t \in owes[run] /\ mode[t.aid] = "blocked"
  /\ Dispatch([mode EXCEPT ![run] = "idle", ![t.aid] = "busy"], mbox,
              [Took(Zero) EXCEPT ![t.aid] = arg], [owes EXCEPT ![run] = @ \ {t}])

(* A message from outside: an interrupt.                                   *)
Event(d, arg) ==
  /\ HasRoom(d)
  /\ mbox' = Posted(d, [v0 |-> arg, c1 |-> None])
  /\ UNCHANGED <<mode, val, owes, run>>

Yield == Dispatch(mode, mbox, val, owes)

Exit == Dispatch([mode EXCEPT ![run] = "dead"], mbox, Took(Zero), owes)

Next ==
  \/ \E arg \in Args \cup {Zero} : Load(arg)
  \/ Rest
  \/ \E d \in Acts, arg \in Args : Send(d, arg) \/ SendRest(d, arg) \/ Event(d, arg)
  \/ \E d \in Acts, arg \in Args, t \in Tokens : Call(d, arg, t)
  \/ \E t \in owes[run], arg \in Args : Answer(t, arg)
  \/ Yield
  \/ Exit

Spec == Init /\ [][Next]_pvars
=============================================================================
