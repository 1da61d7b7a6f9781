----------------------------- MODULE RunQueue ------------------------------
(***************************************************************************)
(* The run queue of kernel/src/sched.c: squeue_a holds the activations     *)
(* that may run in its slots 0 .. end-1, aqueue[a] is the slot of          *)
(* activation a, idx the round-robin position.  The kernel never clears a  *)
(* slot or an aqueue entry, so both keep stale values, as here.            *)
(***************************************************************************)
EXTENDS Naturals

CONSTANT MAX_ACTIVATIONS    \* size of kernel_acts, squeue_a and aqueue

ASSUME MaxActivationsAssumption == MAX_ACTIVATIONS \in Nat /\ MAX_ACTIVATIONS > 1

(* Activation ids; 0 is the kernel's own slot, never scheduled.            *)
Aid == 0 .. MAX_ACTIVATIONS - 1

RunQueues == [squeue_a : [Aid -> Aid], aqueue : [Aid -> Aid],
              idx : Aid, end : 0 .. MAX_ACTIVATIONS]

(* The zero-initialised statics.                                           *)
EmptyRunQueue == [squeue_a |-> [i \in Aid |-> 0], aqueue |-> [a \in Aid |-> 0],
                  idx |-> 0, end |-> 0]

QADD(q, act) == [squeue_a |-> [q.squeue_a EXCEPT ![q.end] = act],
                 aqueue   |-> [q.aqueue EXCEPT ![act] = q.end],
                 idx      |-> q.idx,
                 end      |-> q.end + 1]

(* What QDEL asserts before it removes act, with the bound that its        *)
(* unchecked decrement of the unsigned end relies on.                      *)
QDEL_assert(q, act) == q.end > 0 /\ q.squeue_a[q.aqueue[act]] = act

(* A plausible bug: the moved activation's slot is not recorded.           *)
QDEL_no_back_pointer(q, act) ==
  [q EXCEPT !.squeue_a[q.aqueue[act]] = q.squeue_a[q.end - 1], !.end = @ - 1]

(* The last entry takes the place of the removed one.                      *)
QDEL(q, act) ==
  LET slot        == q.aqueue[act]
      replacement == q.squeue_a[q.end - 1]
  IN  [squeue_a |-> [q.squeue_a EXCEPT ![slot] = replacement],
       aqueue   |-> [q.aqueue EXCEPT ![replacement] = slot],
       idx      |-> q.idx,
       end      |-> q.end - 1]

(* The position the k-th call of sched_picknext in a row reaches.          *)
PickIndex(q, k) == (q.idx + k) % q.end

(* squeue_a[0 .. end-1] lists exactly the members of S, each once, and     *)
(* aqueue points back at them.                                             *)
Lists(q, S) ==
  /\ \A i \in 0 .. q.end - 1 : q.squeue_a[i] \in S /\ q.aqueue[q.squeue_a[i]] = i
  /\ \A a \in S : q.aqueue[a] < q.end /\ q.squeue_a[q.aqueue[a]] = a
=============================================================================
