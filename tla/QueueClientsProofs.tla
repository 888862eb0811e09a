------------------------- MODULE QueueClientsProofs -------------------------
(***************************************************************************)
(* Proofs about QueueClients, for every capacity, every finite set of      *)
(* producers and consumers, every set of closers and every MaxSends, with  *)
(* and without spurious wakeups.                                           *)
(***************************************************************************)
EXTENDS QueueClients, TLAPS, FiniteSetTheorems, SequenceTheorems

\* The constructor's argument 0 never makes a queue without a slot.
LEMMA CapacityPositive == Capacity \in Nat /\ Capacity >= 1
BY CapacityAssumption DEF Capacity

\* A notify_one leaves a subset of the waiters, smaller by one if there was one.
LEMMA NotifyOneSubset ==
  ASSUME NEW W, NEW V \in NotifyOne(W)
  PROVE  V \subseteq W /\ (W # {} => \E t \in W : V = W \ {t})
BY DEF NotifyOne

-----------------------------------------------------------------------------
(* Types *)

\* The value a producer offers is one of its own.
LEMMA OfferType ==
  ASSUME TypeOK, NEW p \in Producers, sent[p] < MaxSends
  PROVE  Offer(p) \in Values
BY MaxSendsAssumption DEF TypeOK, Offer, Values

LEMMA TypeInit == Init => TypeOK
<1> SUFFICES ASSUME Init PROVE TypeOK
  OBVIOUS
<1>1. queue \in Seq(Values) /\ Len(queue) <= Capacity
  BY CapacityPositive DEF Init, QueueInit
<1>2. accepted \in Seq(Values) /\ delivered \in Seq(Values)
  BY DEF Init
<1>3. sent \in [Producers -> 0 .. MaxSends]
  BY MaxSendsAssumption DEF Init
<1> QED
  BY <1>1, <1>2, <1>3, ClientsAssumption DEF Init, QueueInit, TypeOK, Threads

LEMMA TypeStep == TypeOK /\ [Next]_vars => TypeOK'
<1> SUFFICES ASSUME TypeOK, [Next]_vars PROVE TypeOK'
  OBVIOUS
<1> USE ClientsAssumption, MaxSendsAssumption
<1>1. ASSUME NEW p \in Producers, CallPush(p) PROVE TypeOK'
  BY <1>1 DEF TypeOK, CallPush, Goto, queueVars, Threads
<1>2. ASSUME NEW p \in Producers, Push(p) PROVE TypeOK'
  <2>1. CASE PushWait(p) /\ UNCHANGED <<pc, sent, accepted>>
    BY <1>2, <2>1 DEF TypeOK, Push, PushWait, Threads
  <2>2. CASE PushAccept(p, Offer(p)) /\ accepted' = Append(accepted, Offer(p))
             /\ Goto(p, "idle") /\ Sent(p)
    <3>1. sent[p] < MaxSends /\ sent[p] \in 0 .. MaxSends
      BY <1>2 DEF TypeOK, Push
    <3>2. Offer(p) \in Values
      BY <3>1, OfferType
    <3>3. queue' \in Seq(Values) /\ Len(queue') <= Capacity
      BY <2>2, <3>2, CapacityPositive DEF PushAccept, TypeOK
    <3>4. accepted' \in Seq(Values)
      BY <2>2, <3>2 DEF TypeOK
    <3>5. notEmptyWaiters' \subseteq notEmptyWaiters
      BY <2>2, NotifyOneSubset DEF PushAccept
    <3>6. sent' \in [Producers -> 0 .. MaxSends]
          /\ \A q \in Producers : q # p => sent'[q] = sent[q]
      BY <2>2, <3>1 DEF Sent, TypeOK
    <3>7. pc' \in [Threads -> {"idle", "push", "pop", "open",
                               "notifyEmpty", "notifyFull", "done"}]
          /\ pc'[p] = "idle" /\ \A t \in Threads : t # p => pc'[t] = pc[t]
      BY <2>2 DEF Goto, TypeOK, Threads
    <3> QED
      BY <1>2, <2>2, <3>3, <3>4, <3>5, <3>6, <3>7
      DEF TypeOK, Push, PushAccept, Threads
  <2>3. CASE PushClosed(p) /\ Goto(p, "idle") /\ Sent(p) /\ UNCHANGED accepted
    <3>1. sent[p] < MaxSends /\ sent[p] \in 0 .. MaxSends
      BY <1>2 DEF TypeOK, Push
    <3>2. sent' \in [Producers -> 0 .. MaxSends]
          /\ \A q \in Producers : q # p => sent'[q] = sent[q]
      BY <2>3, <3>1 DEF Sent, TypeOK
    <3> QED
      BY <1>2, <2>3, <3>2
      DEF TypeOK, Push, PushClosed, queueVars, Goto, Threads
  <2> QED
    BY <1>2, <2>1, <2>2, <2>3 DEF Push
<1>3. ASSUME NEW p \in Producers, TryPush(p) PROVE TypeOK'
  <2>1. sent[p] < MaxSends /\ sent[p] \in 0 .. MaxSends /\ pc[p] = "idle"
    BY <1>3 DEF TypeOK, TryPush
  <2>2. Offer(p) \in Values
    BY <2>1, OfferType
  <2>3. sent' \in [Producers -> 0 .. MaxSends]
        /\ \A q \in Producers : q # p => sent'[q] = sent[q]
    BY <1>3, <2>1 DEF TryPush, Sent, TypeOK
  <2>4. queue' \in Seq(Values) /\ Len(queue') <= Capacity
        /\ accepted' \in Seq(Values)
    <3>1. CASE TryPushAccept(Offer(p)) /\ accepted' = Append(accepted, Offer(p))
      BY <3>1, <2>2, CapacityPositive DEF TryPushAccept, TypeOK
    <3>2. CASE TryPushReject /\ UNCHANGED accepted
      BY <3>2 DEF TryPushReject, queueVars, TypeOK
    <3> QED
      BY <1>3, <3>1, <3>2 DEF TryPush
  <2>5. notEmptyWaiters' \subseteq notEmptyWaiters
    BY <1>3, NotifyOneSubset DEF TryPush, TryPushAccept, TryPushReject, queueVars
  <2> QED
    BY <1>3, <2>1, <2>3, <2>4, <2>5
    DEF TypeOK, TryPush, TryPushAccept, TryPushReject, queueVars
<1>4. ASSUME NEW c \in Consumers, CallPop(c) PROVE TypeOK'
  BY <1>4 DEF TypeOK, CallPop, Goto, queueVars, Threads
<1>5. ASSUME NEW c \in Consumers, Pop(c) PROVE TypeOK'
  <2>1. CASE PopWait(c) /\ UNCHANGED <<pc, delivered>>
    BY <1>5, <2>1 DEF TypeOK, Pop, PopWait, Threads
  <2>2. CASE PopTake(c) /\ delivered' = Append(delivered, Head(queue))
             /\ Goto(c, "idle")
    <3>1. queue' \in Seq(Values) /\ Len(queue') <= Capacity
          /\ Head(queue) \in Values
      BY <2>2, HeadTailProperties, CapacityPositive DEF PopTake, TypeOK
    <3>2. delivered' \in Seq(Values)
      BY <2>2, <3>1 DEF TypeOK
    <3>3. notFullWaiters' \subseteq notFullWaiters
      BY <2>2, NotifyOneSubset DEF PopTake
    <3>4. pc' \in [Threads -> {"idle", "push", "pop", "open",
                               "notifyEmpty", "notifyFull", "done"}]
          /\ pc'[c] = "idle" /\ \A t \in Threads : t # c => pc'[t] = pc[t]
      BY <2>2 DEF Goto, TypeOK, Threads
    <3> QED
      BY <1>5, <2>2, <3>1, <3>2, <3>3, <3>4
      DEF TypeOK, Pop, PopTake, Threads
  <2>3. CASE PopEnd(c) /\ Goto(c, "done") /\ UNCHANGED delivered
    BY <1>5, <2>3 DEF TypeOK, Pop, PopEnd, queueVars, Goto, Threads
  <2> QED
    BY <1>5, <2>1, <2>2, <2>3 DEF Pop
<1>6. ASSUME NEW k \in Closers, Close(k) PROVE TypeOK'
  BY <1>6 DEF TypeOK, Close, MarkClosed, Goto, Threads
<1>7. ASSUME NEW k \in Closers, CloseNotify(k) PROVE TypeOK'
  BY <1>7 DEF TypeOK, CloseNotify, NotifyAllNotEmpty, NotifyAllNotFull,
              NotifyAll, Goto, Threads
<1>8. ASSUME NEW t \in Producers \cup Consumers, Spurious(t) PROVE TypeOK'
  BY <1>8 DEF TypeOK, Spurious, SpuriousWake
<1>9. CASE UNCHANGED vars
  BY <1>9 DEF TypeOK, vars
<1> QED
  BY <1>1, <1>2, <1>3, <1>4, <1>5, <1>6, <1>7, <1>8, <1>9 DEF Next, Terminated

\* The queue never holds more than its capacity, a parked thread is inside the
\* call it parked in, and every variable keeps its type.
THEOREM TypeCorrect == Spec => []TypeOK
BY TypeInit, TypeStep, PTL DEF Spec

-----------------------------------------------------------------------------
(* No lost wakeup *)

\* The threads counted by the two invariants are finitely many.
LEMMA AwakeFinite ==
  /\ IsFiniteSet(AwakePushers) /\ IsFiniteSet(AwakePoppers)
  /\ Cardinality(AwakePushers) \in Nat /\ Cardinality(AwakePoppers) \in Nat
<1>1. AwakePushers \in SUBSET Producers /\ AwakePoppers \in SUBSET Consumers
  BY DEF AwakePushers, AwakePoppers
<1>2. IsFiniteSet(AwakePushers) /\ IsFiniteSet(AwakePoppers)
  BY <1>1, FS_Subset, ClientsAssumption
<1> QED
  BY <1>2, FS_CardinalityType

\* What the step cases use of the type invariant.
LEMMA LengthType == TypeOK => Len(queue) \in Nat /\ Len(queue) <= Capacity
BY DEF TypeOK

\* A notification wakes a producer: it is awake after the step.
LEMMA WakeOnePusher ==
  ASSUME TypeOK, notFullWaiters # {}, notFullWaiters' \in NotifyOne(notFullWaiters),
         \A p \in Producers : pc'[p] = "push" <=> pc[p] = "push"
  PROVE  /\ IsFiniteSet(AwakePushers')
         /\ Cardinality(AwakePushers') = Cardinality(AwakePushers) + 1
<1>1. PICK t \in notFullWaiters : notFullWaiters' = notFullWaiters \ {t}
  BY NotifyOneSubset
<1>2. AwakePushers' = AwakePushers \cup {t} /\ t \notin AwakePushers
  BY <1>1 DEF AwakePushers, TypeOK
<1> QED
  BY <1>2, AwakeFinite, FS_AddElement

LEMMA WakeOnePopper ==
  ASSUME TypeOK, notEmptyWaiters # {},
         notEmptyWaiters' \in NotifyOne(notEmptyWaiters),
         \A c \in Consumers : pc'[c] = "pop" <=> pc[c] = "pop"
  PROVE  /\ IsFiniteSet(AwakePoppers')
         /\ Cardinality(AwakePoppers') = Cardinality(AwakePoppers) + 1
<1>1. PICK t \in notEmptyWaiters : notEmptyWaiters' = notEmptyWaiters \ {t}
  BY NotifyOneSubset
<1>2. AwakePoppers' = AwakePoppers \cup {t} /\ t \notin AwakePoppers
  BY <1>1 DEF AwakePoppers, TypeOK
<1> QED
  BY <1>2, AwakeFinite, FS_AddElement

\* A thread that becomes awake, or stays so, never lowers the count.
LEMMA PushersGrow ==
  ASSUME AwakePushers \subseteq AwakePushers'
  PROVE  Cardinality(AwakePushers) <= Cardinality(AwakePushers')
<1>1. IsFiniteSet(AwakePushers')
  <2>1. AwakePushers' \in SUBSET Producers
    BY DEF AwakePushers
  <2> QED
    BY <2>1, FS_Subset, ClientsAssumption
<1> QED
  BY <1>1, FS_Subset

LEMMA PoppersGrow ==
  ASSUME AwakePoppers \subseteq AwakePoppers'
  PROVE  Cardinality(AwakePoppers) <= Cardinality(AwakePoppers')
<1>1. IsFiniteSet(AwakePoppers')
  <2>1. AwakePoppers' \in SUBSET Consumers
    BY DEF AwakePoppers
  <2> QED
    BY <2>1, FS_Subset, ClientsAssumption
<1> QED
  BY <1>1, FS_Subset

LEMMA StrandedInit == Init => NoStrandedProducer /\ NoStrandedConsumer
BY DEF Init, QueueInit, NoStrandedProducer, NoStrandedConsumer

LEMMA ProducerStep ==
  TypeOK /\ NoStrandedProducer /\ [Next]_vars => NoStrandedProducer'
<1> SUFFICES ASSUME TypeOK, NoStrandedProducer, [Next]_vars,
                    notFullWaiters' # {}
             PROVE  IF closed'
                    THEN \E k \in Closers : pc'[k] \in {"notifyEmpty", "notifyFull"}
                    ELSE Capacity - Len(queue') <= Cardinality(AwakePushers')
  BY DEF NoStrandedProducer
<1> DEFINE Goal == IF closed'
                   THEN \E k \in Closers : pc'[k] \in {"notifyEmpty", "notifyFull"}
                   ELSE Capacity - Len(queue') <= Cardinality(AwakePushers')
<1> USE AwakeFinite, LengthType, CapacityPositive
\* Steps that free no slot, put nobody to sleep and stop no awake producer.
<1>1. ASSUME UNCHANGED closed, notFullWaiters # {},
             \A k \in Closers : pc'[k] = pc[k],
             ~closed => Len(queue') \in Nat /\ Len(queue') >= Len(queue),
             AwakePushers \subseteq AwakePushers',
             Cardinality(AwakePushers') \in Nat
      PROVE  Goal
  BY <1>1, PushersGrow DEF NoStrandedProducer
<1>2. Cardinality(AwakePushers') \in Nat /\ IsFiniteSet(AwakePushers')
  <2>1. AwakePushers' \in SUBSET Producers
    BY DEF AwakePushers
  <2> QED
    BY <2>1, FS_Subset, FS_CardinalityType, ClientsAssumption
<1>3. ASSUME NEW p \in Producers, CallPush(p) PROVE Goal
  <2>1. AwakePushers \subseteq AwakePushers' /\ \A k \in Closers : pc'[k] = pc[k]
    BY <1>3, ClientsAssumption DEF CallPush, Goto, queueVars, AwakePushers, TypeOK, Threads
  <2> QED
    BY <1>1, <1>2, <1>3, <2>1 DEF CallPush, queueVars
<1>4. ASSUME NEW p \in Producers, Push(p) PROVE Goal
  <2>1. CASE PushWait(p)
    BY <2>1, <1>2 DEF PushWait
  <2>2. CASE PushAccept(p, Offer(p)) /\ Goto(p, "idle")
    <3>1. ~closed /\ ~closed' /\ notFullWaiters # {}
      BY <2>2 DEF PushAccept
    <3>2. AwakePushers' = AwakePushers \ {p} /\ p \in AwakePushers
      BY <1>4, <2>2, ClientsAssumption
      DEF Push, PushAccept, Goto, AwakePushers, TypeOK, Threads
    <3>3. Cardinality(AwakePushers') = Cardinality(AwakePushers) - 1
      BY <3>2, FS_RemoveElement
    <3>4. Len(queue') = Len(queue) + 1
      BY <2>2 DEF PushAccept, TypeOK
    <3> QED
      BY <3>1, <3>3, <3>4 DEF NoStrandedProducer
  <2>3. CASE PushClosed(p) /\ Goto(p, "idle")
    BY <2>3, ClientsAssumption
    DEF PushClosed, queueVars, Goto, TypeOK, Threads, NoStrandedProducer
  <2> QED
    BY <1>4, <2>1, <2>2, <2>3 DEF Push
<1>5. ASSUME NEW p \in Producers, TryPush(p) PROVE Goal
  <2>1. CASE TryPushAccept(Offer(p))
    <3>1. Len(queue') = Len(queue) + 1
      BY <2>1 DEF TryPushAccept, TypeOK
    <3> QED
      BY <1>1, <1>2, <1>5, <2>1, <3>1 DEF TryPush, TryPushAccept, AwakePushers
  <2>2. CASE TryPushReject
    BY <1>1, <1>2, <1>5, <2>2 DEF TryPush, TryPushReject, queueVars, AwakePushers
  <2> QED
    BY <1>5, <2>1, <2>2 DEF TryPush
<1>6. ASSUME NEW c \in Consumers, CallPop(c) PROVE Goal
  <2>1. AwakePushers \subseteq AwakePushers' /\ \A k \in Closers : pc'[k] = pc[k]
    BY <1>6, ClientsAssumption DEF CallPop, Goto, queueVars, AwakePushers, TypeOK, Threads
  <2> QED
    BY <1>1, <1>2, <1>6, <2>1 DEF CallPop, queueVars
<1>7. ASSUME NEW c \in Consumers, Pop(c) PROVE Goal
  <2>1. CASE PopWait(c) /\ UNCHANGED pc
    BY <1>1, <1>2, <2>1 DEF PopWait, AwakePushers
  <2>2. CASE PopTake(c) /\ Goto(c, "idle")
    <3>1. notFullWaiters # {} /\ closed' = closed
      BY <2>2, NotifyOneSubset DEF PopTake
    <3>2. (\A p \in Producers : pc'[p] = pc[p]) /\ (\A k \in Closers : pc'[k] = pc[k])
      BY <2>2, ClientsAssumption DEF Goto, TypeOK, Threads
    <3>3. Cardinality(AwakePushers') = Cardinality(AwakePushers) + 1
      BY <2>2, <3>1, <3>2, WakeOnePusher DEF PopTake
    <3>4. Len(queue') = Len(queue) - 1
      BY <2>2, HeadTailProperties DEF PopTake, TypeOK
    <3> QED
      BY <3>1, <3>2, <3>3, <3>4 DEF NoStrandedProducer
  <2>3. CASE PopEnd(c) /\ Goto(c, "done")
    <3>1. AwakePushers \subseteq AwakePushers' /\ \A k \in Closers : pc'[k] = pc[k]
      BY <1>7, <2>3, ClientsAssumption
      DEF PopEnd, Goto, queueVars, AwakePushers, TypeOK, Threads
    <3> QED
      BY <1>1, <1>2, <2>3, <3>1 DEF PopEnd, queueVars
  <2> QED
    BY <1>7, <2>1, <2>2, <2>3 DEF Pop
<1>8. ASSUME NEW k \in Closers, Close(k) PROVE Goal
  BY <1>8 DEF Close, MarkClosed, Goto, TypeOK, Threads
<1>9. ASSUME NEW k \in Closers, CloseNotify(k) PROVE Goal
  <2>1. pc[k] = "notifyEmpty" /\ NotifyAllNotEmpty /\ Goto(k, "notifyFull")
    BY <1>9 DEF CloseNotify, NotifyAllNotFull, NotifyAll
  <2>2. CASE closed
    BY <2>1, <2>2 DEF NotifyAllNotEmpty, Goto, TypeOK, Threads
  <2>3. CASE ~closed
    <3>1. AwakePushers' = AwakePushers
      BY <2>1, ClientsAssumption
      DEF NotifyAllNotEmpty, Goto, TypeOK, Threads, AwakePushers
    <3> QED
      BY <2>1, <2>3, <3>1 DEF NotifyAllNotEmpty, NoStrandedProducer
  <2> QED
    BY <2>2, <2>3
<1>10. ASSUME NEW t \in Producers \cup Consumers, Spurious(t) PROVE Goal
  BY <1>1, <1>2, <1>10 DEF Spurious, SpuriousWake, AwakePushers
<1>11. CASE UNCHANGED vars
  BY <1>1, <1>2, <1>11 DEF vars, AwakePushers
<1> QED
  BY <1>3, <1>4, <1>5, <1>6, <1>7, <1>8, <1>9, <1>10, <1>11
  DEF Next, Terminated

LEMMA ConsumerStep ==
  TypeOK /\ NoStrandedConsumer /\ [Next]_vars => NoStrandedConsumer'
<1> SUFFICES ASSUME TypeOK, NoStrandedConsumer, [Next]_vars,
                    notEmptyWaiters' # {}
             PROVE  IF closed'
                    THEN \E k \in Closers : pc'[k] = "notifyEmpty"
                    ELSE Len(queue') <= Cardinality(AwakePoppers')
  BY DEF NoStrandedConsumer
<1> DEFINE Goal == IF closed'
                   THEN \E k \in Closers : pc'[k] = "notifyEmpty"
                   ELSE Len(queue') <= Cardinality(AwakePoppers')
<1> USE AwakeFinite, LengthType, CapacityPositive
\* Steps that add no element, put nobody to sleep and stop no awake consumer.
<1>1. ASSUME UNCHANGED closed, notEmptyWaiters # {},
             \A k \in Closers : pc'[k] = pc[k],
             ~closed => Len(queue') \in Nat /\ Len(queue') <= Len(queue),
             AwakePoppers \subseteq AwakePoppers',
             Cardinality(AwakePoppers') \in Nat
      PROVE  Goal
  BY <1>1, PoppersGrow DEF NoStrandedConsumer
<1>2. Cardinality(AwakePoppers') \in Nat /\ IsFiniteSet(AwakePoppers')
  <2>1. AwakePoppers' \in SUBSET Consumers
    BY DEF AwakePoppers
  <2> QED
    BY <2>1, FS_Subset, FS_CardinalityType, ClientsAssumption
\* An element goes in while somebody sleeps: one of them wakes up for it.
<1>3. ASSUME ~closed, UNCHANGED closed, notEmptyWaiters # {},
             notEmptyWaiters' \in NotifyOne(notEmptyWaiters),
             \A c \in Consumers : pc'[c] = pc[c],
             Len(queue') = Len(queue) + 1
      PROVE  Goal
  <2>1. Cardinality(AwakePoppers') = Cardinality(AwakePoppers) + 1
    BY <1>3, WakeOnePopper
  <2> QED
    BY <1>3, <2>1 DEF NoStrandedConsumer
<1>4. ASSUME NEW p \in Producers, CallPush(p) PROVE Goal
  <2>1. AwakePoppers \subseteq AwakePoppers' /\ \A k \in Closers : pc'[k] = pc[k]
    BY <1>4, ClientsAssumption DEF CallPush, Goto, queueVars, AwakePoppers, TypeOK, Threads
  <2> QED
    BY <1>1, <1>2, <1>4, <2>1 DEF CallPush, queueVars
<1>5. ASSUME NEW p \in Producers, Push(p) PROVE Goal
  <2>1. CASE PushWait(p) /\ UNCHANGED pc
    BY <1>1, <1>2, <2>1 DEF PushWait, AwakePoppers
  <2>2. CASE PushAccept(p, Offer(p)) /\ Goto(p, "idle")
    <3>1. Len(queue') = Len(queue) + 1
      BY <2>2 DEF PushAccept, TypeOK
    <3>2. \A c \in Consumers : pc'[c] = pc[c]
      BY <2>2, ClientsAssumption DEF Goto, TypeOK, Threads
    <3>3. notEmptyWaiters # {}
      BY <2>2, NotifyOneSubset DEF PushAccept
    <3> QED
      BY <1>3, <2>2, <3>1, <3>2, <3>3 DEF PushAccept
  <2>3. CASE PushClosed(p) /\ Goto(p, "idle")
    <3>1. AwakePoppers \subseteq AwakePoppers' /\ \A k \in Closers : pc'[k] = pc[k]
      BY <2>3, ClientsAssumption
      DEF PushClosed, Goto, queueVars, AwakePoppers, TypeOK, Threads
    <3> QED
      BY <1>1, <1>2, <2>3, <3>1 DEF PushClosed, queueVars
  <2> QED
    BY <1>5, <2>1, <2>2, <2>3 DEF Push
<1>6. ASSUME NEW p \in Producers, TryPush(p) PROVE Goal
  <2>1. CASE TryPushAccept(Offer(p))
    <3>1. Len(queue') = Len(queue) + 1
      BY <2>1 DEF TryPushAccept, TypeOK
    <3>2. notEmptyWaiters # {}
      BY <2>1, NotifyOneSubset DEF TryPushAccept
    <3> QED
      BY <1>3, <1>6, <2>1, <3>1, <3>2 DEF TryPush, TryPushAccept
  <2>2. CASE TryPushReject
    BY <1>1, <1>2, <1>6, <2>2 DEF TryPush, TryPushReject, queueVars, AwakePoppers
  <2> QED
    BY <1>6, <2>1, <2>2 DEF TryPush
<1>7. ASSUME NEW c \in Consumers, CallPop(c) PROVE Goal
  <2>1. AwakePoppers \subseteq AwakePoppers' /\ \A k \in Closers : pc'[k] = pc[k]
    BY <1>7, ClientsAssumption DEF CallPop, Goto, queueVars, AwakePoppers, TypeOK, Threads
  <2> QED
    BY <1>1, <1>2, <1>7, <2>1 DEF CallPop, queueVars
<1>8. ASSUME NEW c \in Consumers, Pop(c) PROVE Goal
  <2>1. CASE PopWait(c)
    BY <2>1, <1>2 DEF PopWait
  <2>2. CASE PopTake(c) /\ Goto(c, "idle")
    <3>1. notEmptyWaiters # {} /\ closed' = closed
      BY <2>2 DEF PopTake
    <3>2. AwakePoppers' = AwakePoppers \ {c} /\ c \in AwakePoppers
      BY <1>8, <2>2, ClientsAssumption
      DEF Pop, PopTake, Goto, AwakePoppers, TypeOK, Threads
    <3>3. Cardinality(AwakePoppers') = Cardinality(AwakePoppers) - 1
      BY <3>2, FS_RemoveElement
    <3>4. Len(queue') = Len(queue) - 1
      BY <2>2, HeadTailProperties DEF PopTake, TypeOK
    <3>5. \A k \in Closers : pc'[k] = pc[k]
      BY <2>2, ClientsAssumption DEF Goto, TypeOK, Threads
    <3> QED
      BY <3>1, <3>3, <3>4, <3>5 DEF NoStrandedConsumer
  <2>3. CASE PopEnd(c) /\ Goto(c, "done")
    \* The queue is closed: the closer on its way is still there.
    BY <2>3, ClientsAssumption
    DEF PopEnd, queueVars, Goto, TypeOK, Threads, NoStrandedConsumer
  <2> QED
    BY <1>8, <2>1, <2>2, <2>3 DEF Pop
<1>9. ASSUME NEW k \in Closers, Close(k) PROVE Goal
  BY <1>9 DEF Close, MarkClosed, Goto, TypeOK, Threads
<1>10. ASSUME NEW k \in Closers, CloseNotify(k) PROVE Goal
  <2>1. pc[k] = "notifyFull" /\ NotifyAllNotFull /\ Goto(k, "done")
    BY <1>10 DEF CloseNotify, NotifyAllNotEmpty, NotifyAll
  <2>2. CASE closed
    BY <2>1, <2>2 DEF NotifyAllNotFull, Goto, TypeOK, Threads, NoStrandedConsumer
  <2>3. CASE ~closed
    <3>1. AwakePoppers' = AwakePoppers
      BY <2>1, ClientsAssumption
      DEF NotifyAllNotFull, Goto, TypeOK, Threads, AwakePoppers
    <3> QED
      BY <2>1, <2>3, <3>1 DEF NotifyAllNotFull, NoStrandedConsumer
  <2> QED
    BY <2>2, <2>3
<1>11. ASSUME NEW t \in Producers \cup Consumers, Spurious(t) PROVE Goal
  BY <1>1, <1>2, <1>11 DEF Spurious, SpuriousWake, AwakePoppers
<1>12. CASE UNCHANGED vars
  BY <1>1, <1>2, <1>12 DEF vars, AwakePoppers
<1> QED
  BY <1>4, <1>5, <1>6, <1>7, <1>8, <1>9, <1>10, <1>11, <1>12
  DEF Next, Terminated

\* One notify_one per pop() and the notify_all of close() are enough: no
\* producer sleeps while a slot is free for it (blocking_queue.hpp:39-40, 73).
THEOREM ProducersNeverStranded == Spec => []NoStrandedProducer
BY TypeInit, TypeStep, StrandedInit, ProducerStep, PTL DEF Spec

\* One notify_one per push() and per successful try_push() is enough: no
\* consumer sleeps while an element waits for it (blocking_queue.hpp:46, 58).
THEOREM ConsumersNeverStranded == Spec => []NoStrandedConsumer
BY TypeInit, TypeStep, StrandedInit, ConsumerStep, PTL DEF Spec

-----------------------------------------------------------------------------
(* The refinement of Channel *)

\* What was handed out followed by what is inside is what was taken in.
Fifo == delivered \o queue = accepted

\* Taking a value in appends it to both sides.
LEMMA FifoAppend ==
  ASSUME NEW S, NEW d \in Seq(S), NEW q \in Seq(S), NEW v \in S
  PROVE  d \o Append(q, v) = Append(d \o q, v)
<1>1. Append(q, v) = q \o <<v>> /\ Append(d \o q, v) = (d \o q) \o <<v>>
  BY AppendIsConcat, ConcatProperties
<1> QED
  BY <1>1, ConcatAssociative

\* Handing the head out moves it across the boundary and changes nothing else.
LEMMA FifoMove ==
  ASSUME NEW S, NEW d \in Seq(S), NEW q \in Seq(S), q # <<>>
  PROVE  /\ Append(d, Head(q)) \o Tail(q) = d \o q
         /\ (d \o q)[Len(d) + 1] = Head(q)
         /\ Len(d) < Len(d \o q)
<1>1. Head(q) \in S /\ Tail(q) \in Seq(S) /\ q = <<Head(q)>> \o Tail(q)
  BY HeadTailProperties
<1>2. Append(d, Head(q)) = d \o <<Head(q)>>
  BY <1>1, AppendIsConcat
<1>3. (d \o <<Head(q)>>) \o Tail(q) = d \o (<<Head(q)>> \o Tail(q))
  BY <1>1, ConcatAssociative
<1>4. Len(q) >= 1 /\ q[1] = Head(q)
  BY HeadTailProperties
<1> QED
  BY <1>1, <1>2, <1>3, <1>4, ConcatProperties

LEMMA FifoLengths ==
  ASSUME TypeOK, Fifo
  PROVE  Len(accepted) - Len(delivered) = Len(queue)
BY ConcatProperties DEF TypeOK, Fifo

LEMMA RefinementInit == Init => Fifo /\ Abstract!Init
<1> SUFFICES ASSUME Init PROVE Fifo /\ Abstract!Init
  OBVIOUS
<1>1. {c \in Consumers : pc[c] = "done"} = {}
  BY ClientsAssumption DEF Init, Threads
<1> QED
  BY <1>1 DEF Init, QueueInit, Fifo, Abstract!Init

LEMMA RefinementStep ==
  TypeOK /\ Fifo /\ [Next]_vars => Fifo' /\ [Abstract!Next]_(Abstract!channelVars)
<1> SUFFICES ASSUME TypeOK, Fifo, [Next]_vars
             PROVE  Fifo' /\ [Abstract!Next]_(Abstract!channelVars)
  OBVIOUS
<1> DEFINE Ended == {c \in Consumers : pc[c] = "done"}
\* A step that touches neither the values nor the end of a consumer.
<1>1. ASSUME UNCHANGED <<queue, accepted, delivered>>,
             closed' = closed \/ closed' = TRUE, Ended' = Ended
      PROVE  Fifo' /\ [Abstract!Next]_(Abstract!channelVars)
  <2>1. Fifo'
    BY <1>1 DEF Fifo
  <2>2. CASE closed' = closed
    BY <1>1, <2>1, <2>2 DEF Abstract!channelVars
  <2>3. CASE closed' = TRUE
    <3>1. Abstract!Shut
      BY <1>1, <2>3 DEF Abstract!Shut
    <3> QED
      BY <2>1, <3>1 DEF Abstract!Next
  <2> QED
    BY <1>1, <2>2, <2>3
\* A value goes in.
<1>2. ASSUME NEW v \in Values, ~closed, UNCHANGED <<closed, delivered>>,
             Len(queue) < Capacity, queue' = Append(queue, v),
             accepted' = Append(accepted, v), Ended' = Ended
      PROVE  Fifo' /\ [Abstract!Next]_(Abstract!channelVars)
  <2>1. Fifo'
    BY <1>2, FifoAppend DEF Fifo, TypeOK
  <2>2. Abstract!Accept(v)
    BY <1>2, FifoLengths DEF Abstract!Accept
  <2> QED
    BY <2>1, <2>2 DEF Abstract!Next
<1>3. ASSUME NEW p \in Producers, CallPush(p)
      PROVE  Fifo' /\ [Abstract!Next]_(Abstract!channelVars)
  <2>1. Ended' = Ended
    BY <1>3, ClientsAssumption DEF CallPush, Goto, TypeOK, Threads
  <2> QED
    BY <1>1, <1>3, <2>1 DEF CallPush, queueVars
<1>4. ASSUME NEW p \in Producers, Push(p)
      PROVE  Fifo' /\ [Abstract!Next]_(Abstract!channelVars)
  <2>1. Ended' = Ended
    BY <1>4, ClientsAssumption DEF Push, Goto, TypeOK, Threads
  <2>2. Offer(p) \in Values
    BY <1>4, OfferType DEF Push, TypeOK
  <2>3. CASE PushWait(p) /\ UNCHANGED accepted
    BY <1>1, <1>4, <2>1, <2>3 DEF Push, PushWait
  <2>4. CASE PushAccept(p, Offer(p)) /\ accepted' = Append(accepted, Offer(p))
    BY <1>2, <1>4, <2>1, <2>2, <2>4 DEF Push, PushAccept
  <2>5. CASE PushClosed(p) /\ UNCHANGED accepted
    BY <1>1, <1>4, <2>1, <2>5 DEF Push, PushClosed, queueVars
  <2> QED
    BY <1>4, <2>3, <2>4, <2>5 DEF Push
<1>5. ASSUME NEW p \in Producers, TryPush(p)
      PROVE  Fifo' /\ [Abstract!Next]_(Abstract!channelVars)
  <2>1. Ended' = Ended
    BY <1>5 DEF TryPush
  <2>2. Offer(p) \in Values
    BY <1>5, OfferType DEF TryPush
  <2>3. CASE TryPushAccept(Offer(p)) /\ accepted' = Append(accepted, Offer(p))
    BY <1>2, <1>5, <2>1, <2>2, <2>3 DEF TryPush, TryPushAccept
  <2>4. CASE TryPushReject /\ UNCHANGED accepted
    BY <1>1, <1>5, <2>1, <2>4 DEF TryPush, TryPushReject, queueVars
  <2> QED
    BY <1>5, <2>3, <2>4 DEF TryPush
<1>6. ASSUME NEW c \in Consumers, CallPop(c)
      PROVE  Fifo' /\ [Abstract!Next]_(Abstract!channelVars)
  <2>1. Ended' = Ended
    BY <1>6 DEF CallPop, Goto, TypeOK, Threads
  <2> QED
    BY <1>1, <1>6, <2>1 DEF CallPop, queueVars
<1>7. ASSUME NEW c \in Consumers, Pop(c)
      PROVE  Fifo' /\ [Abstract!Next]_(Abstract!channelVars)
  <2>1. CASE PopWait(c) /\ UNCHANGED <<pc, delivered>>
    BY <1>1, <1>7, <2>1 DEF Pop, PopWait
  <2>2. CASE PopTake(c) /\ delivered' = Append(delivered, Head(queue))
             /\ Goto(c, "idle")
    <3>1. Ended' = Ended
      BY <1>7, <2>2 DEF Pop, Goto, TypeOK, Threads
    <3>2. /\ delivered' \o queue' = accepted
          /\ accepted[Len(delivered) + 1] = Head(queue)
          /\ Len(delivered) < Len(accepted)
      <4>1. delivered \in Seq(Values) /\ queue \in Seq(Values) /\ queue # <<>>
        BY <2>2 DEF PopTake, TypeOK
      <4>2. /\ Append(delivered, Head(queue)) \o Tail(queue) = delivered \o queue
            /\ (delivered \o queue)[Len(delivered) + 1] = Head(queue)
            /\ Len(delivered) < Len(delivered \o queue)
        BY <4>1, FifoMove
      <4> QED
        BY <2>2, <4>2 DEF PopTake, Fifo
    <3>3. Fifo'
      BY <1>7, <3>2 DEF Pop, Fifo
    <3>4. Abstract!Deliver
      BY <1>7, <2>2, <3>1, <3>2 DEF Pop, PopTake, Abstract!Deliver
    <3> QED
      BY <3>3, <3>4 DEF Abstract!Next
  <2>3. CASE PopEnd(c) /\ Goto(c, "done") /\ UNCHANGED delivered
    <3>1. Ended' = Ended \cup {c}
      BY <2>3 DEF Goto, TypeOK, Threads
    <3>2. delivered = accepted
      BY <2>3, ConcatEmptySeq DEF PopEnd, Fifo, TypeOK
    <3>3. Fifo'
      BY <1>7, <2>3 DEF Pop, PopEnd, queueVars, Fifo
    <3>4. Abstract!End(c)
      BY <1>7, <2>3, <3>1, <3>2 DEF Pop, PopEnd, queueVars, Abstract!End
    <3> QED
      BY <3>3, <3>4 DEF Abstract!Next
  <2> QED
    BY <1>7, <2>1, <2>2, <2>3 DEF Pop
<1>8. ASSUME NEW k \in Closers, Close(k)
      PROVE  Fifo' /\ [Abstract!Next]_(Abstract!channelVars)
  <2>1. Ended' = Ended
    BY <1>8, ClientsAssumption DEF Close, Goto, TypeOK, Threads
  <2> QED
    BY <1>1, <1>8, <2>1 DEF Close, MarkClosed
<1>9. ASSUME NEW k \in Closers, CloseNotify(k)
      PROVE  Fifo' /\ [Abstract!Next]_(Abstract!channelVars)
  <2>1. Ended' = Ended
    BY <1>9, ClientsAssumption DEF CloseNotify, Goto, TypeOK, Threads
  <2> QED
    BY <1>1, <1>9, <2>1 DEF CloseNotify, NotifyAllNotEmpty, NotifyAllNotFull
<1>10. ASSUME NEW t \in Producers \cup Consumers, Spurious(t)
       PROVE  Fifo' /\ [Abstract!Next]_(Abstract!channelVars)
  BY <1>1, <1>10 DEF Spurious, SpuriousWake
<1>11. CASE UNCHANGED vars
  BY <1>1, <1>11 DEF vars
<1> QED
  BY <1>3, <1>4, <1>5, <1>6, <1>7, <1>8, <1>9, <1>10, <1>11
  DEF Next, Terminated

\* The queue with its mutex, its parked threads and its notifications behaves
\* as the abstract channel: first in first out, bounded, nothing accepted after
\* close(), and "no more" only after the drain (blocking_queue.hpp:22-24).
THEOREM QueueImplementsChannel == Spec => ImplementsChannel
BY TypeInit, TypeStep, RefinementInit, RefinementStep, PTL
DEF Spec, ImplementsChannel, Abstract!Spec
=============================================================================
