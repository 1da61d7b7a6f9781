------------------------------ MODULE Mailbox ------------------------------
(***************************************************************************)
(* One message queue on its own: msg_push and msg_pop of kernel/src/msg.c, *)
(* which Kernel calls from ccall and from the scheduler, in any order and  *)
(* for ever, so that the queue is full, empty and wrapped at every slot.   *)
(***************************************************************************)
EXTENDS MsgRing

CONSTANTS
  Data,    \* what a message carries
  NoData   \* an unused slot or register: all zero

VARIABLES
  queue,   \* msg_queues[aid]
  mf,      \* the registers msg_pop fills
  ret      \* what the last msg_push returned, 0 or -1

vars == <<queue, mf, ret>>

Init ==
  /\ queue = msg_queue_init([start |-> 0, end |-> 0, msg |-> [i \in Slot |-> NoData]])
  /\ mf = NoData
  /\ ret = "queued"

(* msg_push, with room and without.                                        *)
push(m) ==
  /\ ~full(queue)
  /\ queue' = enqueue(queue, m) /\ ret' = "queued" /\ UNCHANGED mf

push_full ==
  /\ full(queue)
  /\ ret' = "refused" /\ UNCHANGED <<queue, mf>>

(* msg_pop asserts that the queue is not empty (Kernel).                   *)
pop ==
  /\ ~empty(queue)
  /\ mf' = front(queue) /\ queue' = dequeue(queue) /\ UNCHANGED ret

Next == (\E m \in Data : push(m)) \/ push_full \/ pop

Spec == Init /\ [][Next]_vars

Abstract == INSTANCE Fifo WITH
  Capacity <- MAX_MSG - 1, None <- NoData, fifo <- Contents(queue), got <- mf

(* The ring is a first-in first-out queue of MAX_MSG - 1 messages wherever *)
(* in the ring it starts: no message is lost, repeated, overtaken or       *)
(* replaced by a stale slot, and msg_push refuses only when it must.       *)
IsFifo == Abstract!Spec
=============================================================================
