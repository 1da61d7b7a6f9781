---------------------------- MODULE KernelProofs ----------------------------
(***************************************************************************)
(* Lemmas about the operators of Kernel: the slots a ring of msg.c uses    *)
(* and the sequence of messages it stands for, for every size of the ring  *)
(* and wherever in it the queue starts; what the run queue and the         *)
(* scheduler's functions preserve.                                         *)
(***************************************************************************)
EXTENDS Kernel, SequenceTheorems, FiniteSetTheorems, FunctionTheorems, TLAPS

----------------------------------------------------------------------------
(* Rings.                                                                  *)

(* n & queue_mask is a slot.                                               *)
LEMMA SafeSlot == ASSUME NEW n \in Nat PROVE safe(n) \in Slot
BY MaxMsgAssumption DEF safe, Slot

(* The position after slot i wraps to 0 at the end of the ring.            *)
LEMMA SafeNext ==
  ASSUME NEW i \in Slot
  PROVE  safe(i + 1) = IF i = MAX_MSG - 1 THEN 0 ELSE i + 1
BY MaxMsgAssumption DEF safe, Slot

(* enqueue keeps a ring a ring, leaves it non-empty, and adds its message  *)
(* to the pending ones in the slot that was the end.                       *)
LEMMA EnqueueRing ==
  ASSUME NEW M, NEW q \in Rings(M), NEW m \in M, ~full(q)
  PROVE  /\ enqueue(q, m) \in Rings(M)
         /\ ~empty(enqueue(q, m))
         /\ q.end \notin Pending(q)
         /\ Pending(enqueue(q, m)) = Pending(q) \cup {q.end}
<1>1. q.start \in Slot /\ q.end \in Slot /\ q.msg \in [Slot -> M]
  BY DEF Rings
<1>2. safe(q.end + 1) = IF q.end = MAX_MSG - 1 THEN 0 ELSE q.end + 1
  BY <1>1, SafeNext
<1>3. safe(q.end + 1) \in Slot
  BY <1>1, <1>2, MaxMsgAssumption DEF Slot
<1>4. enqueue(q, m) \in Rings(M)
  BY <1>1, <1>3 DEF enqueue, Rings
<1>5. ~empty(enqueue(q, m))
  BY DEF full, empty, enqueue
<1>6. q.end \notin Pending(q)
  BY <1>1 DEF Pending, Slot
<1>7. Pending(enqueue(q, m)) = Pending(q) \cup {q.end}
  BY <1>1, <1>2, MaxMsgAssumption DEF full, Pending, Slot, enqueue
<1> QED BY <1>4, <1>5, <1>6, <1>7

(* dequeue keeps a ring a ring and takes its first slot from the pending.  *)
LEMMA DequeueRing ==
  ASSUME NEW M, NEW q \in Rings(M), ~empty(q)
  PROVE  /\ dequeue(q) \in Rings(M)
         /\ front(q) \in M
         /\ q.start \in Pending(q)
         /\ Pending(dequeue(q)) = Pending(q) \ {q.start}
<1>1. q.start \in Slot /\ q.end \in Slot /\ q.msg \in [Slot -> M]
  BY DEF Rings
<1>2. safe(q.start + 1) = IF q.start = MAX_MSG - 1 THEN 0 ELSE q.start + 1
  BY <1>1, SafeNext
<1>3. safe(q.start + 1) \in Slot
  BY <1>1, <1>2, MaxMsgAssumption DEF Slot
<1>4. dequeue(q) \in Rings(M) /\ front(q) \in M
  BY <1>1, <1>3 DEF dequeue, Rings, front
<1>5. q.start \in Pending(q)
  BY <1>1 DEF Pending, Slot, empty
<1>6. Pending(dequeue(q)) = Pending(q) \ {q.start}
  BY <1>1, <1>2, MaxMsgAssumption DEF empty, Pending, Slot, dequeue
<1> QED BY <1>4, <1>5, <1>6

----------------------------------------------------------------------------
(* The messages in the ring.                                               *)

(* n & queue_mask, for the sums that positions in the ring lead to.        *)
LEMMA SafeSum ==
  ASSUME NEW n \in 0 .. 2 * MAX_MSG - 1
  PROVE  safe(n) = IF n < MAX_MSG THEN n ELSE n - MAX_MSG
<1>1. MAX_MSG \in Nat /\ MAX_MSG > 1 /\ n \in Nat
  BY MaxMsgAssumption
<1>2. CASE n < MAX_MSG
  BY <1>1, <1>2 DEF safe
<1>3. CASE ~(n < MAX_MSG)
  <2>1. n = MAX_MSG * 1 + (n - MAX_MSG) /\ n - MAX_MSG \in 0 .. MAX_MSG - 1
    BY <1>1, <1>3
  <2> QED BY <1>1, <1>3, <2>1 DEF safe
<1> QED BY <1>2, <1>3

(* How many messages a queue holds.                                        *)
Count(q) == IF q.start <= q.end THEN q.end - q.start ELSE q.end + MAX_MSG - q.start

LEMMA RingFacts ==
  ASSUME NEW M, NEW q \in Rings(M)
  PROVE  /\ q.start \in Slot /\ q.end \in Slot /\ q.msg \in [Slot -> M]
         /\ Count(q) \in 0 .. MAX_MSG - 1
         /\ full(q) <=> Count(q) = MAX_MSG - 1
         /\ empty(q) <=> Count(q) = 0
<1>1. q.start \in Slot /\ q.end \in Slot /\ q.msg \in [Slot -> M]
  BY DEF Rings
<1>2. safe(q.end + 1) = IF q.end + 1 < MAX_MSG THEN q.end + 1 ELSE q.end + 1 - MAX_MSG
  BY <1>1, SafeSum, MaxMsgAssumption DEF Slot
<1>3. /\ q.start \in Nat /\ q.start < MAX_MSG /\ q.end \in Nat /\ q.end < MAX_MSG
      /\ MAX_MSG \in Nat /\ MAX_MSG > 1
  BY <1>1, MaxMsgAssumption DEF Slot
<1>4. Count(q) \in 0 .. MAX_MSG - 1 /\ (empty(q) <=> Count(q) = 0)
  BY <1>3 DEF Count, empty
<1>5. full(q) <=> Count(q) = MAX_MSG - 1
  <2> HIDE DEF safe
  <2> QED BY <1>2, <1>3 DEF Count, full
<1> QED BY <1>1, <1>4, <1>5

(* The undelivered messages are the Count(q) slots from start on.          *)
LEMMA ContentsFacts ==
  ASSUME NEW M, NEW q \in Rings(M)
  PROVE  /\ Contents(q) \in Seq(M)
         /\ Len(Contents(q)) = Count(q)
         /\ \A k \in 1 .. Count(q) : /\ safe(q.start + k - 1) \in Slot
                                    /\ Contents(q)[k] = q.msg[safe(q.start + k - 1)]
<1> DEFINE s == [k \in 1 .. MAX_MSG |-> q.msg[safe(q.start + k - 1)]]
<1>1. /\ q.start \in Slot /\ q.end \in Slot /\ q.msg \in [Slot -> M]
      /\ Count(q) \in 0 .. MAX_MSG - 1 /\ MAX_MSG \in Nat
  BY RingFacts, MaxMsgAssumption
<1>2. safe(q.end + MAX_MSG - q.start) = Count(q)
  <2>1. q.end + MAX_MSG - q.start \in 0 .. 2 * MAX_MSG - 1
    BY <1>1 DEF Slot
  <2> QED BY <1>1, <2>1, SafeSum DEF Count, Slot
<1>3. \A k \in 1 .. MAX_MSG : safe(q.start + k - 1) \in Slot
  <2> TAKE k \in 1 .. MAX_MSG
  <2>1. q.start + k - 1 \in 0 .. 2 * MAX_MSG - 1
    BY <1>1 DEF Slot
  <2> QED BY <1>1, <2>1, SafeSum DEF Slot
<1>4. \A k \in 1 .. Count(q) : s[k] \in M /\ s[k] = q.msg[safe(q.start + k - 1)]
  BY <1>1, <1>3
<1>5. Contents(q) = SubSeq(s, 1, Count(q))
  BY <1>2 DEF Contents
<1> HIDE DEF s
<1>6. /\ SubSeq(s, 1, Count(q)) \in Seq(M)
      /\ Len(SubSeq(s, 1, Count(q))) = IF 1 <= Count(q) THEN Count(q) - 1 + 1 ELSE 0
      /\ \A k \in 1 .. Count(q) - 1 + 1 : SubSeq(s, 1, Count(q))[k] = s[1 + k - 1]
  BY <1>1, <1>4, SubSeqProperties
<1> QED BY <1>1, <1>3, <1>4, <1>5, <1>6

(* A push adds its message behind the others.                              *)
LEMMA EnqueueAppends ==
  ASSUME NEW M, NEW q \in Rings(M), NEW m \in M, ~full(q)
  PROVE  /\ enqueue(q, m) \in Rings(M)
         /\ Contents(enqueue(q, m)) = Append(Contents(q), m)
<1> DEFINE p == enqueue(q, m)
<1>1. /\ q.start \in Slot /\ q.end \in Slot /\ q.msg \in [Slot -> M]
      /\ Count(q) \in 0 .. MAX_MSG - 1 /\ Count(q) # MAX_MSG - 1
      /\ MAX_MSG \in Nat /\ MAX_MSG > 1
  BY RingFacts, MaxMsgAssumption
<1>2. safe(q.end + 1) = IF q.end + 1 < MAX_MSG THEN q.end + 1 ELSE q.end + 1 - MAX_MSG
  BY <1>1, SafeSum DEF Slot
<1>3. p.start = q.start /\ p.end = safe(q.end + 1) /\ p.msg = [q.msg EXCEPT ![q.end] = m]
  BY DEF enqueue
<1>4. p \in Rings(M)
  BY <1>1, <1>2 DEF enqueue, Rings, Slot
<1>5. Count(p) = Count(q) + 1
  <2>1. /\ q.start \in Nat /\ q.start < MAX_MSG /\ q.end \in Nat /\ q.end < MAX_MSG
        /\ p.start = q.start
        /\ p.end = IF q.end + 1 < MAX_MSG THEN q.end + 1 ELSE 0
    BY <1>1, <1>2, <1>3 DEF Slot
  <2> HIDE DEF p
  <2> QED BY <1>1, <2>1 DEF Count
<1> HIDE DEF p
<1>6. \A k \in 1 .. Count(q) : safe(q.start + k - 1) # q.end
  <2> TAKE k \in 1 .. Count(q)
  <2>1. q.start + k - 1 \in 0 .. 2 * MAX_MSG - 1
    BY <1>1 DEF Slot
  <2> QED BY <1>1, <2>1, SafeSum DEF Count, Slot
<1>7. safe(q.start + (Count(q) + 1) - 1) = q.end
  <2>1. q.start + (Count(q) + 1) - 1 \in 0 .. 2 * MAX_MSG - 1
    BY <1>1 DEF Slot
  <2> QED BY <1>1, <2>1, SafeSum DEF Count, Slot
<1>8. /\ Contents(p) \in Seq(M) /\ Len(Contents(p)) = Count(q) + 1
      /\ \A k \in 1 .. Count(q) + 1 : Contents(p)[k] = p.msg[safe(q.start + k - 1)]
  BY <1>1, <1>3, <1>4, <1>5, ContentsFacts
<1>9. /\ Contents(q) \in Seq(M) /\ Len(Contents(q)) = Count(q)
      /\ \A k \in 1 .. Count(q) : /\ safe(q.start + k - 1) \in Slot
                                 /\ Contents(q)[k] = q.msg[safe(q.start + k - 1)]
  BY ContentsFacts
<1>10. \A k \in 1 .. Count(q) : Contents(p)[k] = Contents(q)[k]
  BY <1>1, <1>3, <1>6, <1>8, <1>9
<1>11. Contents(p)[Count(q) + 1] = m
  BY <1>1, <1>3, <1>7, <1>8
<1>12. /\ Append(Contents(q), m) \in Seq(M) /\ Len(Append(Contents(q), m)) = Count(q) + 1
       /\ \A k \in 1 .. Count(q) : Append(Contents(q), m)[k] = Contents(q)[k]
       /\ Append(Contents(q), m)[Count(q) + 1] = m
  BY <1>9, AppendProperties
<1>13. \A k \in 1 .. Len(Contents(p)) : Contents(p)[k] = Append(Contents(q), m)[k]
  BY <1>1, <1>8, <1>10, <1>11, <1>12
<1>14. Contents(p) = Append(Contents(q), m)
  BY <1>8, <1>12, <1>13, SeqEqual
<1> QED BY <1>4, <1>14 DEF p

(* A pop takes the oldest message and leaves the others as they are.       *)
LEMMA DequeueTakes ==
  ASSUME NEW M, NEW q \in Rings(M), ~empty(q)
  PROVE  /\ dequeue(q) \in Rings(M)
         /\ Contents(q) # <<>>
         /\ front(q) = Head(Contents(q))
         /\ Contents(dequeue(q)) = Tail(Contents(q))
<1> DEFINE p == dequeue(q)
<1>1. /\ q.start \in Slot /\ q.end \in Slot /\ q.msg \in [Slot -> M]
      /\ Count(q) \in 1 .. MAX_MSG - 1
      /\ MAX_MSG \in Nat /\ MAX_MSG > 1
  BY RingFacts, MaxMsgAssumption
<1>2. safe(q.start + 1) = IF q.start + 1 < MAX_MSG THEN q.start + 1 ELSE q.start + 1 - MAX_MSG
  BY <1>1, SafeSum DEF Slot
<1>3. p.start = safe(q.start + 1) /\ p.end = q.end /\ p.msg = q.msg
  BY DEF dequeue
<1>4. p \in Rings(M)
  BY <1>1, <1>2 DEF dequeue, Rings, Slot
<1>5. Count(p) = Count(q) - 1
  BY <1>1, <1>2, <1>3 DEF Count, Slot
<1> HIDE DEF p
<1>6. \A k \in 1 .. Count(q) - 1 : safe(p.start + k - 1) = safe(q.start + (k + 1) - 1)
  <2> TAKE k \in 1 .. Count(q) - 1
  <2>1. p.start + k - 1 \in 0 .. 2 * MAX_MSG - 1 /\ q.start + (k + 1) - 1 \in 0 .. 2 * MAX_MSG - 1
    <3>1. /\ q.start \in Nat /\ q.start < MAX_MSG /\ k \in Nat /\ 1 <= k /\ k < MAX_MSG
          /\ p.start = IF q.start + 1 < MAX_MSG THEN q.start + 1 ELSE q.start + 1 - MAX_MSG
      BY <1>1, <1>2, <1>3 DEF Slot
    <3> QED BY <1>1, <3>1
  <2> QED BY <1>1, <1>2, <1>3, <2>1, SafeSum DEF Slot
<1>7. /\ Contents(p) \in Seq(M) /\ Len(Contents(p)) = Count(q) - 1
      /\ \A k \in 1 .. Count(q) - 1 : Contents(p)[k] = p.msg[safe(p.start + k - 1)]
  BY <1>4, <1>5, ContentsFacts
<1>8. /\ Contents(q) \in Seq(M) /\ Len(Contents(q)) = Count(q)
      /\ \A k \in 1 .. Count(q) : Contents(q)[k] = q.msg[safe(q.start + k - 1)]
  BY ContentsFacts
<1>9. Contents(q) # <<>>
  BY <1>1, <1>8
<1>10. front(q) = Head(Contents(q))
  <2>1. safe(q.start + 1 - 1) = q.start
    BY <1>1, SafeSum DEF Slot
  <2> QED BY <1>1, <1>8, <2>1 DEF front
<1>11. /\ Tail(Contents(q)) \in Seq(M) /\ Len(Tail(Contents(q))) = Count(q) - 1
       /\ \A k \in 1 .. Count(q) - 1 : Tail(Contents(q))[k] = Contents(q)[k + 1]
  BY <1>8, <1>9, HeadTailProperties
<1>12. \A k \in 1 .. Len(Contents(p)) : Contents(p)[k] = Tail(Contents(q))[k]
  BY <1>1, <1>3, <1>6, <1>7, <1>8, <1>11
<1>13. Contents(p) = Tail(Contents(q))
  BY <1>7, <1>11, <1>12, SeqEqual
<1> QED BY <1>4, <1>9, <1>10, <1>13 DEF p

----------------------------------------------------------------------------
(* The run queue.                                                          *)

(* A run queue that lists some of the activations 1 .. MAX_ACTIVATIONS-1   *)
(* without act has a free slot: QADD does not run past squeue_a.           *)
LEMMA RunQueueHasRoom ==
  ASSUME NEW q \in RunQueues, NEW S \in SUBSET (Aid \ {0}), Lists(q, S),
         NEW act \in Aid \ {0}, act \notin S
  PROVE  q.end \in Aid
<1> DEFINE T == (1 .. MAX_ACTIVATIONS - 1) \ {act}
           f == [i \in 0 .. q.end - 1 |-> q.squeue_a[i]]
<1>1. q.end \in 0 .. MAX_ACTIVATIONS
  BY DEF RunQueues
<1>2. f \in [0 .. q.end - 1 -> T]
  BY <1>1, MaxActivationsAssumption DEF Lists, Aid
<1>3. \A i, j \in 0 .. q.end - 1 : f[i] = f[j] => i = j
  BY DEF Lists
<1>4. f \in Injection(0 .. q.end - 1, T)
  BY <1>2, <1>3, Fun_IsInj
<1>5. IsFiniteSet(1 .. MAX_ACTIVATIONS - 1)
      /\ Cardinality(1 .. MAX_ACTIVATIONS - 1) = MAX_ACTIVATIONS - 1
  BY FS_Interval, MaxActivationsAssumption
<1>6. act \in 1 .. MAX_ACTIVATIONS - 1
  BY MaxActivationsAssumption DEF Aid
<1>7. IsFiniteSet(T) /\ Cardinality(T) = MAX_ACTIVATIONS - 2
  <2>1. IsFiniteSet(T) /\ Cardinality(T) = Cardinality(1 .. MAX_ACTIVATIONS - 1) - 1
    BY <1>5, <1>6, FS_RemoveElement
  <2> QED BY <2>1, <1>5, MaxActivationsAssumption
<1>8. Cardinality(0 .. q.end - 1) <= Cardinality(T)
  BY <1>4, <1>7, FS_Injection
<1>9. Cardinality(0 .. q.end - 1) = q.end
  BY <1>1, FS_Interval
<1> QED BY <1>1, <1>7, <1>8, <1>9, MaxActivationsAssumption DEF Aid

(* QADD adds act to what the run queue lists.                              *)
LEMMA QAddLists ==
  ASSUME NEW q \in RunQueues, NEW S \in SUBSET (Aid \ {0}), Lists(q, S),
         NEW act \in Aid \ {0}, act \notin S
  PROVE  QADD(q, act) \in RunQueues /\ Lists(QADD(q, act), S \cup {act})
<1>1. q.end \in Aid
  BY RunQueueHasRoom
<1>2. /\ q.squeue_a \in [Aid -> Aid] /\ q.aqueue \in [Aid -> Aid] /\ q.idx \in Aid
      /\ \A a \in S : a \in Aid
  BY DEF RunQueues
<1>3. q.end + 1 \in 0 .. MAX_ACTIVATIONS
  BY <1>1, MaxActivationsAssumption DEF Aid
<1>4. QADD(q, act) \in RunQueues
  <2>1. /\ [q.squeue_a EXCEPT ![q.end] = act] \in [Aid -> Aid]
        /\ [q.aqueue EXCEPT ![act] = q.end] \in [Aid -> Aid]
    BY <1>1, <1>2
  <2> QED BY <2>1, <1>2, <1>3 DEF RunQueues, QADD
<1>5. \A i \in Aid :
         QADD(q, act).squeue_a[i] = IF i = q.end THEN act ELSE q.squeue_a[i]
  BY <1>1, <1>2 DEF QADD
<1>6. \A a \in Aid : QADD(q, act).aqueue[a] = IF a = act THEN q.end ELSE q.aqueue[a]
  BY <1>2 DEF QADD
<1>7. QADD(q, act).end = q.end + 1
  BY DEF QADD
<1>8. \A i \in 0 .. q.end : i \in Aid /\ (i = q.end \/ i \in 0 .. q.end - 1)
  BY <1>1, MaxActivationsAssumption DEF Aid
<1>9. ASSUME NEW i \in 0 .. q.end
      PROVE  /\ QADD(q, act).squeue_a[i] \in S \cup {act}
             /\ QADD(q, act).aqueue[QADD(q, act).squeue_a[i]] = i
  BY <1>2, <1>5, <1>6, <1>8 DEF Lists
<1>10. ASSUME NEW a \in S \cup {act}
       PROVE  /\ QADD(q, act).aqueue[a] < q.end + 1
              /\ QADD(q, act).squeue_a[QADD(q, act).aqueue[a]] = a
  <2>1. CASE a = act
    BY <2>1, <1>1, <1>5, <1>6, MaxActivationsAssumption DEF Aid
  <2>2. CASE a # act
    <3>1. a \in Aid /\ q.aqueue[a] \in Aid /\ q.aqueue[a] < q.end
          /\ q.squeue_a[q.aqueue[a]] = a
      BY <2>2, <1>2 DEF Lists
    <3>2. q.aqueue[a] # q.end /\ q.aqueue[a] < q.end + 1
      BY <3>1, <1>1, MaxActivationsAssumption DEF Aid
    <3> QED BY <2>2, <3>1, <3>2, <1>5, <1>6
  <2> QED BY <2>1, <2>2
<1>11. Lists(QADD(q, act), S \cup {act})
  <2>1. QADD(q, act).end - 1 = q.end
    BY <1>1, <1>7, MaxActivationsAssumption DEF Aid
  <2> QED BY <2>1, <1>7, <1>9, <1>10 DEF Lists
<1> QED BY <1>4, <1>11

(* A listed activation is in the slot recorded for it.                     *)
LEMMA ListedSlot ==
  ASSUME NEW q \in RunQueues, NEW S \in SUBSET Aid, Lists(q, S), NEW act \in S
  PROVE  /\ q.aqueue[act] \in Aid /\ q.aqueue[act] \in 0 .. q.end - 1
         /\ q.squeue_a[q.aqueue[act]] = act
         /\ q.end > 0 /\ q.end - 1 \in Aid /\ q.end - 1 \in 0 .. q.end - 1
<1>1. act \in Aid /\ q.aqueue \in [Aid -> Aid] /\ q.end \in 0 .. MAX_ACTIVATIONS
  BY DEF RunQueues
<1>2. q.aqueue[act] \in Aid
  BY <1>1
<1>3. q.aqueue[act] < q.end /\ q.squeue_a[q.aqueue[act]] = act
  BY DEF Lists
<1> QED BY <1>1, <1>2, <1>3, MaxActivationsAssumption DEF Aid

(* It satisfies QDEL's assertion.                                          *)
LEMMA QDelAssert ==
  ASSUME NEW q \in RunQueues, NEW S \in SUBSET Aid, Lists(q, S), NEW act \in S
  PROVE  QDEL_assert(q, act)
BY ListedSlot DEF QDEL_assert

(* QDEL removes act from what the run queue lists, and nothing else.       *)
LEMMA QDelLists ==
  ASSUME NEW q \in RunQueues, NEW S \in SUBSET Aid, Lists(q, S), NEW act \in S
  PROVE  QDEL(q, act) \in RunQueues /\ Lists(QDEL(q, act), S \ {act})
<1> DEFINE slot == q.aqueue[act]
           last == q.end - 1
           repl == q.squeue_a[last]
<1>1. /\ q.squeue_a \in [Aid -> Aid] /\ q.aqueue \in [Aid -> Aid] /\ q.idx \in Aid
      /\ q.end \in 0 .. MAX_ACTIVATIONS
      /\ \A a \in S : a \in Aid
  BY DEF RunQueues
<1>2. /\ slot \in Aid /\ slot \in 0 .. last /\ q.squeue_a[slot] = act
      /\ last \in Aid /\ last \in 0 .. last
  BY ListedSlot
<1>3. repl \in S /\ q.aqueue[repl] = last /\ repl \in Aid
  BY <1>1, <1>2 DEF Lists
<1>4. QDEL(q, act) \in RunQueues
  <2>1. /\ [q.squeue_a EXCEPT ![slot] = repl] \in [Aid -> Aid]
        /\ [q.aqueue EXCEPT ![repl] = slot] \in [Aid -> Aid]
    BY <1>1, <1>2, <1>3
  <2>2. last \in 0 .. MAX_ACTIVATIONS
    BY <1>2, MaxActivationsAssumption DEF Aid
  <2> QED BY <2>1, <2>2, <1>1 DEF RunQueues, QDEL
<1>5. QDEL(q, act).end = last
  BY DEF QDEL
<1>6. \A i \in Aid : QDEL(q, act).squeue_a[i] = IF i = slot THEN repl ELSE q.squeue_a[i]
  BY <1>1, <1>2 DEF QDEL
<1>7. \A a \in Aid : QDEL(q, act).aqueue[a] = IF a = repl THEN slot ELSE q.aqueue[a]
  BY <1>1, <1>3 DEF QDEL
<1>8. ASSUME NEW i \in 0 .. last - 1
      PROVE  /\ QDEL(q, act).squeue_a[i] \in S \ {act}
             /\ QDEL(q, act).aqueue[QDEL(q, act).squeue_a[i]] = i
  <2>1. i \in Aid /\ i \in 0 .. last /\ i # last
    <3>1. q.end \in Nat /\ q.end <= MAX_ACTIVATIONS
      BY <1>1, MaxActivationsAssumption
    <3> QED BY <3>1, MaxActivationsAssumption DEF Aid
  <2>2. q.squeue_a[i] \in S /\ q.aqueue[q.squeue_a[i]] = i
    BY <2>1 DEF Lists
  <2>3. CASE i = slot
    <3>1. repl # act
      BY <2>1, <2>3, <1>3
    <3> QED BY <2>1, <2>3, <3>1, <1>3, <1>6, <1>7
  <2>4. CASE i # slot
    <3>1. q.squeue_a[i] # act /\ q.squeue_a[i] # repl
      BY <2>1, <2>2, <2>4, <1>3
    <3> QED BY <2>1, <2>2, <2>4, <3>1, <1>1, <1>6, <1>7
  <2> QED BY <2>3, <2>4
<1>9. ASSUME NEW a \in S \ {act}
      PROVE  /\ QDEL(q, act).aqueue[a] < last
             /\ QDEL(q, act).squeue_a[QDEL(q, act).aqueue[a]] = a
  <2>1. /\ q.aqueue[a] \in Aid /\ q.aqueue[a] \in 0 .. last
        /\ q.squeue_a[q.aqueue[a]] = a /\ a \in Aid
    BY <1>1, ListedSlot
  <2>2. CASE a = repl
    <3>1. slot # last
      BY <2>2, <1>2
    <3>2. slot < last
      BY <3>1, <1>2, MaxActivationsAssumption DEF Aid
    <3> QED BY <2>1, <2>2, <3>2, <1>2, <1>6, <1>7
  <2>3. CASE a # repl
    <3>1. q.aqueue[a] # last /\ q.aqueue[a] # slot
      BY <2>1, <2>3, <1>2
    <3>2. q.aqueue[a] < last
      BY <3>1, <2>1, <1>2, MaxActivationsAssumption DEF Aid
    <3> QED BY <2>1, <2>3, <3>1, <3>2, <1>6, <1>7
  <2> QED BY <2>2, <2>3
<1>10. Lists(QDEL(q, act), S \ {act})
  BY <1>5, <1>8, <1>9 DEF Lists
<1> QED BY <1>4, <1>10

----------------------------------------------------------------------------
(* The scheduler.                                                          *)

(* The activations that the run queue is to list.                          *)
Active(st) == {a \in Aid : st[a] \in {"runnable", "schedulable"}}

(* Sleeping and delivery agree with the queue.                             *)
Mail(s, a) == /\ s.st[a] = "waiting" => empty(s.mq[a])
              /\ s.st[a] = "schedulable" => ~empty(s.mq[a])

(* What every state a handler passes on to the next function satisfies.    *)
SchedType(s) == /\ s.st \in [Aid -> SchedStatus]
                /\ s.rq \in RunQueues
                /\ s.mq \in [Aid -> Rings(Msg)]
                /\ s.fr \in [Aid -> Msg]

SchedOK(s) == /\ SchedType(s)
              /\ s.st[0] = "terminated"
              /\ Lists(s.rq, Active(s.st))
              /\ \A a \in Aid : Mail(s, a)

(* The kernel's slot 0 is never to be run.                                 *)
LEMMA ActiveNotKernel ==
  ASSUME NEW st \in [Aid -> SchedStatus], st[0] = "terminated"
  PROVE  Active(st) \in SUBSET (Aid \ {0})
BY DEF Active

(* An activation that becomes able to run joins the active ones...         *)
LEMMA ActiveAdd ==
  ASSUME NEW st \in [Aid -> SchedStatus], NEW act \in Aid,
         NEW stat \in {"runnable", "schedulable"}
  PROVE  Active([st EXCEPT ![act] = stat]) = Active(st) \cup {act}
BY DEF Active

(* ... and leaves them when it can no longer run.                          *)
LEMMA ActiveRemove ==
  ASSUME NEW st \in [Aid -> SchedStatus], NEW act \in Aid,
         NEW stat \in {"waiting", "sync_block", "terminated"}
  PROVE  Active([st EXCEPT ![act] = stat]) = Active(st) \ {act}
BY DEF Active

(* sched_d2a keeps the run queue exact.                                    *)
LEMMA D2ALists ==
  ASSUME NEW s, SchedType(s), s.st[0] = "terminated", Lists(s.rq, Active(s.st)),
         NEW act \in Aid \ {0}, act \notin Active(s.st),
         NEW stat \in {"runnable", "schedulable"}
  PROVE  /\ SchedType(sched_d2a(s, act, stat))
         /\ sched_d2a(s, act, stat).st[0] = "terminated"
         /\ Lists(sched_d2a(s, act, stat).rq, Active(sched_d2a(s, act, stat).st))
<1> DEFINE t == sched_d2a(s, act, stat)
<1>1. /\ t.st = [s.st EXCEPT ![act] = stat] /\ t.rq = QADD(s.rq, act)
      /\ t.mq = s.mq /\ t.fr = s.fr
  BY DEF sched_d2a
<1>2. s.st \in [Aid -> SchedStatus] /\ s.rq \in RunQueues
  BY DEF SchedType
<1>3. QADD(s.rq, act) \in RunQueues /\ Lists(QADD(s.rq, act), Active(s.st) \cup {act})
  BY <1>2, QAddLists, ActiveNotKernel
<1>4. Active(t.st) = Active(s.st) \cup {act}
  <2>1. Active([s.st EXCEPT ![act] = stat]) = Active(s.st) \cup {act}
    BY <1>2, ActiveAdd, Zenon
  <2> QED BY <2>1, <1>1, Zenon
<1>5. t.st \in [Aid -> SchedStatus] /\ t.st[0] = "terminated"
  BY <1>1, <1>2 DEF SchedStatus
<1>6. SchedType(t)
  BY <1>1, <1>3, <1>5 DEF SchedType
<1> QED BY <1>1, <1>3, <1>4, <1>5, <1>6

(* sched_a2d keeps the scheduler's invariant if an activation goes to wait *)
(* with nothing to read.                                                   *)
LEMMA A2DOK ==
  ASSUME NEW s, SchedOK(s), NEW act \in Active(s.st),
         NEW stat \in {"waiting", "sync_block"},
         stat = "waiting" => empty(s.mq[act])
  PROVE  SchedOK(sched_a2d(s, act, stat)) /\ QDEL_assert(s.rq, act)
<1> DEFINE t == sched_a2d(s, act, stat)
<1>1. /\ t.st = [s.st EXCEPT ![act] = stat] /\ t.rq = QDEL(s.rq, act)
      /\ t.mq = s.mq /\ t.fr = s.fr
  BY DEF sched_a2d
<1>2. /\ s.st \in [Aid -> SchedStatus] /\ s.rq \in RunQueues /\ s.st[0] = "terminated"
      /\ Lists(s.rq, Active(s.st)) /\ act \in Aid /\ act # 0
      /\ Active(s.st) \in SUBSET Aid
  BY DEF SchedOK, SchedType, Active
<1>3. QDEL(s.rq, act) \in RunQueues /\ Lists(QDEL(s.rq, act), Active(s.st) \ {act})
      /\ QDEL_assert(s.rq, act)
  BY <1>2, QDelLists, QDelAssert
<1>4. Active(t.st) = Active(s.st) \ {act}
  <2>1. stat \in {"waiting", "sync_block", "terminated"}
    OBVIOUS
  <2>2. Active([s.st EXCEPT ![act] = stat]) = Active(s.st) \ {act}
    BY <2>1, <1>2, ActiveRemove, Zenon
  <2> QED BY <2>2, <1>1, Zenon
<1>5. t.st \in [Aid -> SchedStatus] /\ t.st[0] = "terminated"
  BY <1>1, <1>2 DEF SchedStatus
<1>6. \A a \in Aid : Mail(t, a)
  BY <1>1, <1>2 DEF Mail, SchedOK
<1>7. SchedType(t)
  BY <1>1, <1>3, <1>5 DEF SchedType, SchedOK
<1> QED BY <1>1, <1>3, <1>4, <1>5, <1>6, <1>7 DEF SchedOK

(* msg_push keeps it, waking the receiver when that was waiting.           *)
LEMMA PushOK ==
  ASSUME NEW s, SchedOK(s), NEW dest \in Aid, dest # 0, NEW m \in Msg,
         ~full(s.mq[dest])
  PROVE  SchedOK(msg_push(s, dest, m))
<1> DEFINE p == [st |-> s.st, rq |-> s.rq, fr |-> s.fr,
                 mq |-> [s.mq EXCEPT ![dest] = enqueue(s.mq[dest], m)]]
<1>1. /\ s.st \in [Aid -> SchedStatus] /\ s.rq \in RunQueues /\ s.st[0] = "terminated"
      /\ s.mq \in [Aid -> Rings(Msg)] /\ s.fr \in [Aid -> Msg]
      /\ Lists(s.rq, Active(s.st)) /\ \A a \in Aid : Mail(s, a)
  BY DEF SchedOK, SchedType
<1>2. enqueue(s.mq[dest], m) \in Rings(Msg) /\ ~empty(enqueue(s.mq[dest], m))
  BY <1>1, EnqueueRing
<1>3. p.mq \in [Aid -> Rings(Msg)] /\ p.mq[dest] = enqueue(s.mq[dest], m)
      /\ \A a \in Aid \ {dest} : p.mq[a] = s.mq[a]
  BY <1>1, <1>2
<1>4. SchedType(p)
  BY <1>1, <1>3 DEF SchedType
<1>5. CASE s.st[dest] = "waiting"
  <2> DEFINE t == sched_d2a(p, dest, "schedulable")
  <2>1. msg_push(s, dest, m) = t
    BY <1>5 DEF msg_push
  <2>2. dest \notin Active(p.st)
    BY <1>5 DEF Active
  <2>3. SchedType(t) /\ t.st[0] = "terminated" /\ Lists(t.rq, Active(t.st))
    BY <1>1, <1>4, <2>2, D2ALists
  <2>4. t.st = [s.st EXCEPT ![dest] = "schedulable"] /\ t.mq = p.mq
    BY DEF sched_d2a
  <2>5. ASSUME NEW a \in Aid PROVE Mail(t, a)
    BY <1>1, <1>2, <1>3, <2>4 DEF Mail
  <2> QED BY <2>1, <2>3, <2>5 DEF SchedOK
<1>6. CASE s.st[dest] # "waiting"
  <2>1. msg_push(s, dest, m) = p
    BY <1>6 DEF msg_push
  <2>2. ASSUME NEW a \in Aid PROVE Mail(p, a)
    BY <1>1, <1>2, <1>3, <1>6 DEF Mail
  <2> QED BY <2>1, <2>2, <1>1, <1>4 DEF SchedOK
<1> QED BY <1>5, <1>6

----------------------------------------------------------------------------
(* The functions that decide who runs next: from a state in which the      *)
(* scheduler is in order they reach another one, or an end the code        *)
(* provides for.                                                           *)

(* The scheduler's variables in the next state, as a handler's state.      *)
Next_s == [st |-> sched_status', rq |-> rq', mq |-> msg_queues', fr |-> frame']

(* What a handler that began its last step with the statuses st leaves:    *)
(* an activation that runs, and the same activations terminated; none of   *)
(* those that waited has moved.                                            *)
Settled(st) ==
  \/ /\ panic' = "no" /\ SchedOK(Next_s)
     /\ kernel_curr_act' \in Aid /\ sched_status'[kernel_curr_act'] = "runnable"
     /\ \A a \in Aid : /\ sched_status'[a] = "terminated" <=> st[a] = "terminated"
                       /\ st[a] = "waiting" => sched_status'[a] = "waiting"
  \/ /\ panic' \in Stops
     /\ UNCHANGED <<sched_status, rq, msg_queues, frame, kernel_curr_act>>

(* SwitchTo delivers a message to an activation that waits for one.        *)
LEMMA SwitchSettles ==
  ASSUME NEW s, SchedOK(s), NEW act \in Aid, Ready(s, act), SwitchTo(s, act),
         panic = "no"
  PROVE  Settled(s.st)
<1>1. /\ s.st \in [Aid -> SchedStatus] /\ s.rq \in RunQueues /\ s.st[0] = "terminated"
      /\ s.mq \in [Aid -> Rings(Msg)] /\ s.fr \in [Aid -> Msg]
      /\ Lists(s.rq, Active(s.st)) /\ \A a \in Aid : Mail(s, a)
  BY DEF SchedOK, SchedType
<1>2. CASE s.st[act] = "schedulable"
  <2>1. ~empty(s.mq[act]) /\ s.mq[act] \in Rings(Msg)
    BY <1>1, <1>2 DEF Mail
  <2>2. /\ kernel_curr_act' = act /\ panic' = panic
        /\ sched_status' = [s.st EXCEPT ![act] = "runnable"] /\ rq' = s.rq
        /\ msg_queues' = [s.mq EXCEPT ![act] = dequeue(s.mq[act])]
        /\ frame' = [s.fr EXCEPT ![act] = front(s.mq[act])]
    BY <1>2, <2>1 DEF SwitchTo, sched_schedule
  <2>3. dequeue(s.mq[act]) \in Rings(Msg) /\ front(s.mq[act]) \in Msg
    BY <2>1, DequeueRing
  <2>4. Active(sched_status') = Active(s.st)
    <3>1. act \in Active(s.st)
      BY <1>2 DEF Active
    <3>2. Active([s.st EXCEPT ![act] = "runnable"]) = Active(s.st) \cup {act}
      <4>1. "runnable" \in {"runnable", "schedulable"}
        OBVIOUS
      <4> QED BY <4>1, <1>1, ActiveAdd, Zenon
    <3> QED BY <2>2, <3>1, <3>2
  <2>5. /\ sched_status' \in [Aid -> SchedStatus] /\ sched_status'[0] = "terminated"
        /\ msg_queues' \in [Aid -> Rings(Msg)] /\ frame' \in [Aid -> Msg]
    BY <1>1, <1>2, <2>2, <2>3 DEF SchedStatus
  <2>6. ASSUME NEW a \in Aid PROVE Mail(Next_s, a)
    BY <1>1, <2>2 DEF Mail, Next_s
  <2>7. SchedOK(Next_s)
    BY <1>1, <2>2, <2>4, <2>5, <2>6 DEF SchedOK, SchedType, Next_s
  <2>8. \A a \in Aid : /\ sched_status'[a] = "terminated" <=> s.st[a] = "terminated"
                       /\ s.st[a] = "waiting" => sched_status'[a] = "waiting"
    BY <1>1, <1>2, <2>2
  <2>9. sched_status'[kernel_curr_act'] = "runnable"
    BY <1>1, <2>2
  <2> QED BY <2>2, <2>7, <2>8, <2>9 DEF Settled
<1>3. CASE s.st[act] # "schedulable"
  <2>1. /\ kernel_curr_act' = act /\ panic' = panic /\ sched_status' = s.st
        /\ rq' = s.rq /\ msg_queues' = s.mq /\ frame' = s.fr
    BY <1>3 DEF SwitchTo
  <2>2. SchedOK(Next_s)
    BY <1>1, <2>1 DEF SchedOK, SchedType, Next_s, Mail
  <2>3. sched_status'[kernel_curr_act'] = "runnable"
    BY <2>1, <1>3 DEF Ready
  <2> QED BY <2>1, <2>2, <2>3 DEF Settled
<1> QED BY <1>2, <1>3

(* The first round of sched_picknext already finds one: whatever is in the *)
(* run queue may run, so that the loop of sched_reschedule ends at once.   *)
LEMMA FirstPickReady ==
  ASSUME NEW s, SchedOK(s), s.rq.end # 0
  PROVE  /\ PickRounds(s) # {}
         /\ FirstPick(s) \in Aid /\ s.rq.squeue_a[FirstPick(s)] \in Active(s.st)
<1>1. s.rq \in RunQueues /\ Lists(s.rq, Active(s.st))
  BY DEF SchedOK, SchedType
<1>2. s.rq.idx \in Nat /\ s.rq.end \in Nat /\ s.rq.end > 0 /\ s.rq.end <= MAX_ACTIVATIONS
  BY <1>1, MaxActivationsAssumption DEF RunQueues, Aid
<1>3. ASSUME NEW k \in 1 .. s.rq.end PROVE PickIndex(s.rq, k) \in 0 .. s.rq.end - 1
  BY <1>2 DEF PickIndex
<1>4. s.rq.squeue_a[PickIndex(s.rq, 1)] \in Active(s.st)
  BY <1>1, <1>2, <1>3 DEF Lists
<1>5. 1 \in PickRounds(s)
  BY <1>2, <1>4 DEF PickRounds, Active, Ready
<1>6. PICK k \in PickRounds(s) :
         k = CHOOSE m \in PickRounds(s) : \A j \in PickRounds(s) : m <= j
  <2>1. \A j \in PickRounds(s) : 1 <= j
    BY <1>2 DEF PickRounds
  <2>2. \E m \in PickRounds(s) : \A j \in PickRounds(s) : m <= j
    BY <1>5, <2>1
  <2> QED BY <2>2, Zenon
<1>7. k \in 1 .. s.rq.end /\ FirstPick(s) = PickIndex(s.rq, k)
  BY <1>6 DEF FirstPick, PickRounds
<1>8. FirstPick(s) \in 0 .. s.rq.end - 1
  BY <1>3, <1>7
<1>9. FirstPick(s) \in Aid
  BY <1>2, <1>8, MaxActivationsAssumption DEF Aid
<1> QED BY <1>1, <1>5, <1>8, <1>9 DEF Lists

(* sched_reschedule finds an activation to run, or there is none.          *)
LEMMA RescheduleSettles ==
  ASSUME NEW s, SchedOK(s), NEW hint \in Aid, sched_reschedule(s, hint), panic = "no"
  PROVE  Settled(s.st)
<1>1. CASE hint # 0 /\ Ready(s, hint)
  BY <1>1, SwitchSettles DEF sched_reschedule
<1>2. CASE ~(hint # 0 /\ Ready(s, hint)) /\ s.rq.end = 0
  BY <1>2 DEF sched_reschedule, kernel_panic, Settled, Stops
<1>3. CASE ~(hint # 0 /\ Ready(s, hint)) /\ s.rq.end # 0
  <2> DEFINE t == [st |-> s.st, rq |-> [s.rq EXCEPT !.idx = FirstPick(s)],
                   mq |-> s.mq, fr |-> s.fr]
             act == s.rq.squeue_a[FirstPick(s)]
  <2>1. PickRounds(s) # {} /\ FirstPick(s) \in Aid /\ act \in Active(s.st)
    BY <1>3, FirstPickReady
  <2>2. SwitchTo(t, act)
    BY <1>3, <2>1 DEF sched_reschedule
  <2>3. /\ s.st \in [Aid -> SchedStatus] /\ s.rq \in RunQueues /\ s.st[0] = "terminated"
        /\ s.mq \in [Aid -> Rings(Msg)] /\ s.fr \in [Aid -> Msg]
        /\ Lists(s.rq, Active(s.st)) /\ \A a \in Aid : Mail(s, a)
    BY DEF SchedOK, SchedType
  <2>4. t.rq \in RunQueues /\ Lists(t.rq, Active(t.st))
    BY <2>1, <2>3 DEF RunQueues, Lists
  <2>5. SchedOK(t)
    BY <2>3, <2>4 DEF SchedOK, SchedType, Mail
  <2>6. act \in Aid /\ Ready(t, act)
    BY <2>1 DEF Active, Ready
  <2>7. Settled(t.st)
    BY <2>2, <2>5, <2>6, SwitchSettles
  <2> QED BY <2>7
<1> QED BY <1>1, <1>2, <1>3

(* act_wait lets the next one run.                                         *)
LEMMA WaitSettles ==
  ASSUME NEW s, SchedOK(s), NEW act \in Aid, s.st[act] = "runnable",
         NEW hint \in Aid, act_wait(s, act, hint), panic = "no"
  PROVE  Settled(s.st)
<1>1. /\ s.st \in [Aid -> SchedStatus] /\ s.rq \in RunQueues /\ s.st[0] = "terminated"
      /\ s.mq \in [Aid -> Rings(Msg)] /\ s.fr \in [Aid -> Msg]
      /\ Lists(s.rq, Active(s.st)) /\ \A a \in Aid : Mail(s, a)
  BY DEF SchedOK, SchedType
<1>2. act \in Active(s.st)
  BY DEF Active
<1>3. CASE empty(s.mq[act])
  <2> DEFINE t == sched_a2d(s, act, "waiting")
  <2>1. SchedOK(t) /\ QDEL_assert(s.rq, act)
    BY <1>2, <1>3, A2DOK
  <2>2. sched_reschedule(t, hint)
    BY <1>3, <2>1 DEF act_wait
  <2>3. Settled(t.st)
    BY <2>1, <2>2, RescheduleSettles
  <2>4. t.st = [s.st EXCEPT ![act] = "waiting"]
    BY DEF sched_a2d
  <2> QED BY <1>1, <2>3, <2>4 DEF Settled
<1>4. CASE ~empty(s.mq[act])
  <2> DEFINE t == [st |-> [s.st EXCEPT ![act] = "schedulable"], rq |-> s.rq,
                   mq |-> s.mq, fr |-> s.fr]
  <2>1. sched_reschedule(t, hint)
    BY <1>4 DEF act_wait
  <2>2. Active(t.st) = Active(s.st)
    BY <1>1, <1>2 DEF Active
  <2>3. \A a \in Aid : Mail(t, a)
    BY <1>1, <1>4 DEF Mail
  <2>4. t.st \in [Aid -> SchedStatus] /\ t.st[0] = "terminated"
    BY <1>1 DEF SchedStatus
  <2>5. SchedOK(t)
    BY <1>1, <2>2, <2>3, <2>4 DEF SchedOK, SchedType
  <2>6. Settled(t.st)
    BY <2>1, <2>5, RescheduleSettles
  <2> QED BY <1>1, <2>6 DEF Settled
<1> QED BY <1>3, <1>4

(* act_init starts in order: init is the only activation in the run queue. *)
LEMMA KernelInit ==
  ASSUME act_init
  PROVE  /\ KTypeOK /\ SchedOK(Now) /\ Active(sched_status) = {1}
         /\ rq.squeue_a[0] = 1 /\ rq.idx = 0 /\ rq.end = 1
         /\ \A a \in Aid : empty(msg_queues[a])
<1>1. 0 \in Aid /\ 1 \in Aid /\ 0 \in Slot
  BY MaxActivationsAssumption, MaxMsgAssumption DEF Aid, Slot
<1>2. NoMsg \in Msg
  BY DEF NoMsg, Msg
<1>3. /\ status \in [Aid -> Status] /\ sched_status \in [Aid -> SchedStatus]
      /\ expected_reply \in [Aid -> 0 .. UNIQUE_MOD - 1] /\ unique \in 0 .. UNIQUE_MOD - 1
      /\ kernel_curr_act = 1 /\ kernel_next_act = 2 /\ panic = "no" /\ frame \in [Aid -> Msg]
  BY <1>2, ModAssumption DEF act_init, Status, SchedStatus
<1>4. msg_queues \in [Aid -> Rings(Msg)] /\ \A a \in Aid : empty(msg_queues[a])
  BY <1>1, <1>2 DEF act_init, Rings, empty
<1>5. /\ rq.squeue_a = [i \in Aid |-> IF i = 0 THEN 1 ELSE 0]
      /\ rq.aqueue = [a \in Aid |-> 0] /\ rq.idx = 0 /\ rq.end = 1
  <2>1. rq = QADD(EmptyRunQueue, 1)
    BY DEF act_init
  <2>2. /\ rq.squeue_a = [[i \in Aid |-> 0] EXCEPT ![0] = 1]
        /\ rq.aqueue = [[a \in Aid |-> 0] EXCEPT ![1] = 0]
        /\ rq.idx = 0 /\ rq.end = 0 + 1
    BY <2>1 DEF QADD, EmptyRunQueue
  <2>3. [[a \in Aid |-> 0] EXCEPT ![1] = 0] = [a \in Aid |-> 0]
    BY <1>1
  <2>4. [[i \in Aid |-> 0] EXCEPT ![0] = 1] = [i \in Aid |-> IF i = 0 THEN 1 ELSE 0]
    BY <1>1
  <2> QED BY <2>2, <2>3, <2>4
<1>6. rq \in RunQueues
  <2>1. 1 \in 0 .. MAX_ACTIVATIONS
    BY MaxActivationsAssumption
  <2>2. rq = [squeue_a |-> rq.squeue_a, aqueue |-> rq.aqueue, idx |-> rq.idx, end |-> rq.end]
    BY DEF act_init, QADD
  <2> QED BY <1>1, <1>5, <2>1, <2>2 DEF RunQueues
<1>7. Active(sched_status) = {1}
  BY <1>1 DEF act_init, Active
<1>8. Lists(rq, Active(sched_status))
  BY <1>1, <1>5, <1>7 DEF Lists
<1>9. SchedOK(Now)
  BY <1>1, <1>3, <1>4, <1>6, <1>8 DEF SchedOK, SchedType, Now, Mail, act_init
<1>10. KTypeOK
  BY <1>1, <1>3, <1>4, <1>6, MaxActivationsAssumption DEF KTypeOK
<1> QED BY <1>1, <1>4, <1>5, <1>7, <1>9, <1>10
=============================================================================
