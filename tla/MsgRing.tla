------------------------------ MODULE MsgRing ------------------------------
(***************************************************************************)
(* One message queue of kernel/src/msg.c (queue_t of include/queue.h): a   *)
(* ring of MAX_MSG slots that is empty when start = end and full when one  *)
(* slot is left, so that it holds at most MAX_MSG - 1 messages.            *)
(***************************************************************************)
EXTENDS Naturals, Sequences

CONSTANT MAX_MSG            \* slots of a queue; queue_mask is MAX_MSG - 1

(* n & queue_mask is n % MAX_MSG only because MAX_MSG is a power of two;   *)
(* msg_push asserts that the mask is not 0.                                *)
ASSUME MaxMsgAssumption == MAX_MSG \in Nat /\ MAX_MSG > 1
ASSUME MaxMsgPowerOfTwo == \E k \in 1 .. 15 : MAX_MSG = 2 ^ k

Slot == 0 .. MAX_MSG - 1

Rings(M) == [start : Slot, end : Slot, msg : [Slot -> M]]

safe(n) == n % MAX_MSG

(* A plausible bug: at the last slot the next one is not masked.           *)
full_no_mask(q) == q.end + 1 = q.start

full(q) == safe(q.end + 1) = q.start

empty(q) == q.start = q.end

(* The queue half of msg_push, for a queue that is not full.               *)
enqueue(q, m) == [start |-> q.start, end |-> safe(q.end + 1),
                  msg |-> [q.msg EXCEPT ![q.end] = m]]

(* A plausible bug: the newest message is delivered, not the oldest.       *)
front_newest(q) == q.msg[safe(q.end + MAX_MSG - 1)]

front(q) == q.msg[q.start]

(* A plausible bug: the message is delivered but left in the queue.        *)
dequeue_keeps(q) == q

(* A plausible bug: the index is not masked.                               *)
dequeue_no_mask(q) == [start |-> q.start + 1, end |-> q.end, msg |-> q.msg]

(* The queue half of msg_pop, for a queue that is not empty.               *)
dequeue(q) == [start |-> safe(q.start + 1), end |-> q.end, msg |-> q.msg]

msg_queue_init(q) == [start |-> 0, end |-> 0, msg |-> q.msg]

(* The slots that hold undelivered messages; the others keep stale ones.   *)
Pending(q) == IF q.start <= q.end
                THEN {i \in Slot : q.start <= i /\ i < q.end}
                ELSE {i \in Slot : q.start <= i \/ i < q.end}

(* The undelivered messages, oldest first.                                 *)
Contents(q) ==
  SubSeq([k \in 1 .. MAX_MSG |-> q.msg[safe(q.start + k - 1)]],
         1, safe(q.end + MAX_MSG - q.start))
=============================================================================
