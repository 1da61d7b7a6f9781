--------------------------- MODULE MailboxProofs ---------------------------
(***************************************************************************)
(* A message queue of msg.c is a first-in first-out queue, for every size  *)
(* of the ring and wherever in it the queue starts.                        *)
(***************************************************************************)
EXTENDS Mailbox, KernelProofs

(* The queue stays a ring, of messages or of unused slots.                 *)
RingInv == queue \in Rings(Data \cup {NoData})

LEMMA RingInit == Init => RingInv /\ Abstract!Init
<1> SUFFICES ASSUME Init PROVE RingInv /\ Abstract!Init
  OBVIOUS
<1>1. 0 \in Slot
  BY MaxMsgAssumption DEF Slot
<1>2. RingInv /\ queue.start = 0 /\ queue.end = 0
  BY <1>1 DEF Init, msg_queue_init, RingInv, Rings
<1>3. Contents(queue) \in Seq(Data \cup {NoData}) /\ Len(Contents(queue)) = 0
  BY <1>2, ContentsFacts DEF RingInv, Count
<1>4. Contents(queue) = <<>>
  BY <1>3
<1> QED BY <1>2, <1>4 DEF Init, Abstract!Init

LEMMA RingStep == RingInv /\ [Next]_vars => RingInv' /\ [Abstract!Next]_(Abstract!fvars)
<1> SUFFICES ASSUME RingInv, [Next]_vars
             PROVE  RingInv' /\ [Abstract!Next]_(Abstract!fvars)
  OBVIOUS
<1>1. /\ Len(Contents(queue)) = Count(queue)
      /\ full(queue) <=> Count(queue) = MAX_MSG - 1
      /\ Count(queue) \in 0 .. MAX_MSG - 1
  BY ContentsFacts, RingFacts DEF RingInv
<1>2. ASSUME NEW m \in Data, push(m) PROVE RingInv' /\ Abstract!Put(m)
  <2>1. /\ queue' \in Rings(Data \cup {NoData})
        /\ Contents(queue') = Append(Contents(queue), m)
    BY <1>2, EnqueueAppends DEF RingInv, push
  <2>2. Contents(queue)' = Append(Contents(queue), m)
    BY <2>1 DEF Contents
  <2>3. Len(Contents(queue)) < MAX_MSG - 1
    BY <1>1, <1>2, MaxMsgAssumption DEF push
  <2> QED BY <1>2, <2>1, <2>2, <2>3 DEF RingInv, push, Abstract!Put
<1>3. ASSUME push_full PROVE RingInv' /\ Abstract!Refuse
  <2>1. Contents(queue)' = Contents(queue)
    BY <1>3 DEF push_full, Contents
  <2> QED BY <1>1, <1>3, <2>1 DEF RingInv, push_full, Abstract!Refuse
<1>4. ASSUME pop PROVE RingInv' /\ Abstract!Take
  <2>1. /\ queue' \in Rings(Data \cup {NoData}) /\ Contents(queue) # <<>>
        /\ front(queue) = Head(Contents(queue))
        /\ Contents(queue') = Tail(Contents(queue))
    BY <1>4, DequeueTakes DEF RingInv, pop
  <2>2. Contents(queue)' = Tail(Contents(queue))
    BY <2>1 DEF Contents
  <2> QED BY <1>4, <2>1, <2>2 DEF RingInv, pop, Abstract!Take
<1>5. ASSUME UNCHANGED vars PROVE RingInv' /\ UNCHANGED Abstract!fvars
  <2>1. Contents(queue)' = Contents(queue)
    BY <1>5 DEF vars, Contents
  <2> QED BY <1>5, <2>1 DEF vars, RingInv, Abstract!fvars
<1> QED BY <1>2, <1>3, <1>4, <1>5 DEF Next, Abstract!Next

(* The ring of msg.c implements the queue, for every power of two and      *)
(* every set of messages.                                                  *)
THEOREM RingIsFifo == Spec => IsFifo
BY RingInit, RingStep, PTL DEF Spec, IsFifo, Abstract!Spec
=============================================================================
