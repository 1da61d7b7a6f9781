--------------------------- MODULE MCActivations ---------------------------
(* Instances of Activations for TLC, and the statements of the code that   *)
(* it does not keep.                                                       *)
EXTENDS Activations

(* Two states that differ only in what the kernel never reads again are    *)
(* one state to TLC: ring slots outside the queue and where in its ring a  *)
(* queue starts; stale slots of the run queue, while nobody terminates     *)
(* another; and, in View, v0, of which there is one value to send.         *)
View == <<status, sched_status, expected_reply,
          [i \in 0 .. rq.end - 1 |-> <<rq.squeue_a[i], rq.aqueue[rq.squeue_a[i]]>>],
          rq.idx, kernel_curr_act,
          kernel_next_act, unique, panic, held, int_child, im,
          [a \in Aid |-> <<frame[a].c1, Contents(msg_queues[a])>>]>>

DataView == <<View, [a \in Aid |-> IF sched_status[a] = "runnable" THEN frame[a].v0 ELSE ZERO]>>

(* Bound: undelivered messages at a time, so that one queue can be full     *)
(* while the other holds one.                                              *)
FewMessages ==
  \A a, b \in Aid : a # b => Len(Contents(msg_queues[a])) + Len(Contents(msg_queues[b])) <= MAX_MSG

(* kernel_creturn's check, "Check if we expect this anwser": an activation *)
(* that answers a call it was given never meets "bad sync creturn".        *)
AnswersExpected == panic # "bad sync creturn"

(* kernel_assert of kernel_creturn: a caller whose answer arrives is       *)
(* blocked in that call.                                                   *)
AssertionsHold == panic # "assertion"

=============================================================================
