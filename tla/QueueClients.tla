---------------------------- MODULE QueueClients ----------------------------
(***************************************************************************)
(* The queue at work: any number of producers that push or try_push, any   *)
(* number of consumers that loop on pop until it returns false, and any    *)
(* number of threads that call close().  It is the shape of                *)
(* tests/test_queue.cpp and of AsyncRecorder, with nothing known about the *)
(* values.                                                                 *)
(***************************************************************************)
EXTENDS BlockingQueue, FiniteSets

CONSTANTS Producers, Consumers, Closers,
          MaxSends   \* bound: values each producer offers

ASSUME ClientsAssumption ==
  /\ IsFiniteSet(Producers) /\ IsFiniteSet(Consumers)
  /\ Producers \cap Consumers = {}
  /\ Closers \cap (Producers \cup Consumers) = {}
ASSUME MaxSendsAssumption == MaxSends \in Nat

VARIABLES pc,         \* where each thread is
          sent,       \* values each producer has offered so far
          accepted,   \* history: the values the queue took, in order
          delivered   \* history: the values pop handed out, in order

vars == <<queue, closed, notEmptyWaiters, notFullWaiters,
          pc, sent, accepted, delivered>>

Threads == Producers \cup Consumers \cup Closers

\* A value names its producer and its rank.
Values == Producers \X (1 .. MaxSends)
Offer(p) == <<p, sent[p] + 1>>

Goto(t, label) == pc' = [pc EXCEPT ![t] = label]
Sent(p) == sent' = [sent EXCEPT ![p] = @ + 1]

Init ==
  /\ QueueInit
  /\ pc = [t \in Threads |-> IF t \in Closers THEN "open" ELSE "idle"]
  /\ sent = [p \in Producers |-> 0]
  /\ accepted = <<>>
  /\ delivered = <<>>

-----------------------------------------------------------------------------
(* Producers *)

CallPush(p) ==
  /\ pc[p] = "idle" /\ sent[p] < MaxSends
  /\ Goto(p, "push")
  /\ UNCHANGED <<queueVars, sent, accepted, delivered>>

Push(p) ==
  /\ pc[p] = "push"
  /\ \/ /\ PushWait(p)
        /\ UNCHANGED <<pc, sent, accepted>>
     \/ /\ PushAccept(p, Offer(p))
        /\ accepted' = Append(accepted, Offer(p))
        /\ Goto(p, "idle") /\ Sent(p)
     \/ /\ PushClosed(p)
        /\ Goto(p, "idle") /\ Sent(p)
        /\ UNCHANGED accepted
  /\ UNCHANGED delivered

TryPush(p) ==
  /\ pc[p] = "idle" /\ sent[p] < MaxSends
  /\ \/ /\ TryPushAccept(Offer(p))
        /\ accepted' = Append(accepted, Offer(p))
     \/ /\ TryPushReject
        /\ UNCHANGED accepted
  /\ Sent(p)
  /\ UNCHANGED <<pc, delivered>>

-----------------------------------------------------------------------------
(* Consumers: while (queue.pop(value)) ... *)

CallPop(c) ==
  /\ pc[c] = "idle"
  /\ Goto(c, "pop")
  /\ UNCHANGED <<queueVars, sent, accepted, delivered>>

Pop(c) ==
  /\ pc[c] = "pop"
  /\ \/ /\ PopWait(c)
        /\ UNCHANGED <<pc, delivered>>
     \/ /\ PopTake(c)
        /\ delivered' = Append(delivered, Head(queue))
        /\ Goto(c, "idle")
     \/ /\ PopEnd(c)
        /\ Goto(c, "done")
        /\ UNCHANGED delivered
  /\ UNCHANGED <<sent, accepted>>

-----------------------------------------------------------------------------
(* close() *)

Close(k) ==
  /\ pc[k] = "open"
  /\ MarkClosed
  /\ Goto(k, "notifyEmpty")
  /\ UNCHANGED <<sent, accepted, delivered>>

CloseNotify(k) ==
  /\ \/ /\ pc[k] = "notifyEmpty"
        /\ NotifyAllNotEmpty
        /\ Goto(k, "notifyFull")
     \/ /\ pc[k] = "notifyFull"
        /\ NotifyAllNotFull
        /\ Goto(k, "done")
  /\ UNCHANGED <<sent, accepted, delivered>>

-----------------------------------------------------------------------------

Spurious(t) ==
  /\ SpuriousWake(t)
  /\ UNCHANGED <<pc, sent, accepted, delivered>>

\* Everybody is home: the only state the clients may rest in for ever.
Terminated ==
  /\ \A c \in Consumers : pc[c] = "done"
  /\ \A k \in Closers : pc[k] = "done"
  /\ \A p \in Producers : pc[p] = "idle" /\ sent[p] = MaxSends
  /\ UNCHANGED vars

Next ==
  \/ \E p \in Producers : CallPush(p) \/ Push(p) \/ TryPush(p)
  \/ \E c \in Consumers : CallPop(c) \/ Pop(c)
  \/ \E k \in Closers : Close(k) \/ CloseNotify(k)
  \/ \E t \in Producers \cup Consumers : Spurious(t)
  \/ Terminated

Spec == Init /\ [][Next]_vars

\* A thread that is inside an operation is scheduled again, a consumer keeps
\* looping; nobody is obliged to start a push or to call close().
Fairness ==
  /\ \A p \in Producers : WF_vars(Push(p))
  /\ \A c \in Consumers : WF_vars(CallPop(c)) /\ WF_vars(Pop(c))
  /\ \A k \in Closers : WF_vars(CloseNotify(k))

FairSpec == Spec /\ Fairness

-----------------------------------------------------------------------------
(* Invariants *)

TypeOK ==
  /\ queue \in Seq(Values) /\ Len(queue) <= Capacity
  /\ closed \in BOOLEAN
  /\ notEmptyWaiters \subseteq {c \in Consumers : pc[c] = "pop"}
  /\ notFullWaiters \subseteq {p \in Producers : pc[p] = "push"}
  /\ pc \in [Threads -> {"idle", "push", "pop", "open",
                         "notifyEmpty", "notifyFull", "done"}]
  /\ sent \in [Producers -> 0 .. MaxSends]
  /\ \A p \in Producers : pc[p] \in {"idle", "push"}
                          /\ (pc[p] = "push" => sent[p] < MaxSends)
  /\ \A c \in Consumers : pc[c] \in {"idle", "pop", "done"}
  /\ \A k \in Closers : pc[k] \in {"open", "notifyEmpty", "notifyFull", "done"}
  /\ accepted \in Seq(Values)
  /\ delivered \in Seq(Values)

\* Producers inside push that are not parked: running, or notified and on
\* their way back to the mutex.
AwakePushers == {p \in Producers : pc[p] = "push"} \ notFullWaiters
AwakePoppers == {c \in Consumers : pc[c] = "pop"} \ notEmptyWaiters

\* No lost wakeup on not_full_.  While the queue is open, a producer sleeps
\* only if every free slot is already promised to a producer that is awake;
\* once it is closed, only until the closer's notify_all arrives.  It is what
\* makes one notify_one per pop() enough (blocking_queue.hpp:39-40, 73, 84).
NoStrandedProducer ==
  notFullWaiters # {} =>
    IF closed
    THEN \E k \in Closers : pc[k] \in {"notifyEmpty", "notifyFull"}
    ELSE Capacity - Len(queue) <= Cardinality(AwakePushers)

\* No lost wakeup on not_empty_: while a consumer sleeps on an open queue,
\* every element is promised to a consumer that is awake
\* (blocking_queue.hpp:46, 58, 65-66, 83).
NoStrandedConsumer ==
  notEmptyWaiters # {} =>
    IF closed
    THEN \E k \in Closers : pc[k] = "notifyEmpty"
    ELSE Len(queue) <= Cardinality(AwakePoppers)

-----------------------------------------------------------------------------
(* Refinement *)

\* The queue and its clients behave as the abstract channel: FIFO without
\* loss or duplication, bounded, closed for good, end of stream reported only
\* after the drain (blocking_queue.hpp:22-24).
Abstract == INSTANCE Channel WITH
  Readers <- Consumers,
  Bound <- Capacity,
  shut <- closed,
  ended <- {c \in Consumers : pc[c] = "done"}

ImplementsChannel == Abstract!Spec

-----------------------------------------------------------------------------
(* Liveness *)

\* Backpressure is not deadlock: when a producer is inside push on an open
\* queue, some push or try_push gets in, or the queue is closed.
PushProgress ==
  \A n \in 0 .. MaxSends * Cardinality(Producers) :
    ((\E p \in Producers : pc[p] = "push") /\ Len(accepted) = n)
      ~> (Len(accepted) > n \/ closed)

\* After close() nobody stays blocked and nothing accepted is left behind:
\* every push returns, every consumer drains the queue and ends.
CloseReleasesAll ==
  /\ \A p \in Producers : (closed /\ pc[p] = "push") ~> (pc[p] = "idle")
  /\ closed ~> (queue = <<>> /\ \A c \in Consumers : pc[c] = "done")

=============================================================================
