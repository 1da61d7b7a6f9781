-------------------------------- MODULE Fifo --------------------------------
(***************************************************************************)
(* What a message queue promises: messages come out once each, in the      *)
(* order they went in, and one is refused only when Capacity are inside.   *)
(***************************************************************************)
EXTENDS Naturals, Sequences

CONSTANTS
  Capacity,   \* messages the queue holds
  Data,       \* messages
  None        \* before the first message is taken out

VARIABLES
  fifo,       \* the messages inside, oldest first
  got,        \* the message taken out last
  ret         \* what the last push reported

fvars == <<fifo, got, ret>>

Init == fifo = <<>> /\ got = None /\ ret = "queued"

Put(m) ==
  /\ Len(fifo) < Capacity
  /\ fifo' = Append(fifo, m) /\ ret' = "queued" /\ UNCHANGED got

Refuse ==
  /\ Len(fifo) = Capacity
  /\ ret' = "refused" /\ UNCHANGED <<fifo, got>>

Take ==
  /\ fifo # <<>>
  /\ got' = Head(fifo) /\ fifo' = Tail(fifo) /\ UNCHANGED ret

Next == (\E m \in Data : Put(m)) \/ Refuse \/ Take

Spec == Init /\ [][Next]_fvars
=============================================================================
