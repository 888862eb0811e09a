--------------------------- MODULE BlockingQueue ---------------------------
(***************************************************************************)
(* hpblr::BlockingQueue<T> (include/hpblr/blocking_queue.hpp): a bounded   *)
(* FIFO behind one mutex and two condition variables.                      *)
(*                                                                         *)
(* The module offers the operations; the module that owns the threads      *)
(* decides who calls them.  A critical section runs under mutex_ from its  *)
(* first statement to its last and touches nothing outside the queue, so   *)
(* it is one step; condition_variable::wait gives up the mutex, so "park"  *)
(* and "the predicate holds, carry on" are two different steps.  close()   *)
(* notifies AFTER it has released the mutex: it is three steps.            *)
(***************************************************************************)
EXTENDS Naturals, Sequences

CONSTANTS RequestedCapacity,  \* the constructor's argument
          SpuriousWakeups     \* may wait() return without a notification?

ASSUME CapacityAssumption == RequestedCapacity \in Nat
ASSUME SpuriousAssumption == SpuriousWakeups \in BOOLEAN

VARIABLES queue,            \* queue_, oldest element first
          closed,           \* closed_
          notEmptyWaiters,  \* threads parked on not_empty_ (inside pop)
          notFullWaiters    \* threads parked on not_full_ (inside push)

queueVars == <<queue, closed, notEmptyWaiters, notFullWaiters>>

\* The constructor turns a capacity of 0 into 1.
Capacity == IF RequestedCapacity = 0 THEN 1 ELSE RequestedCapacity

QueueInit ==
  /\ queue = <<>>
  /\ closed = FALSE
  /\ notEmptyWaiters = {}
  /\ notFullWaiters = {}

\* condition_variable::notify_one: one parked thread, any of them, leaves
\* the wait set; the call is lost when nobody is parked.
NotifyOne(waiters) ==
  IF waiters = {} THEN {waiters} ELSE {waiters \ {t} : t \in waiters}

\* condition_variable::notify_all.
NotifyAll(waiters) == {{}}

-----------------------------------------------------------------------------
(* push(value) by thread t *)

\* The predicate of not_full_.wait is false: t parks.
PushWait(t) ==
  /\ t \notin notFullWaiters
  /\ ~closed
  /\ Len(queue) >= Capacity
  /\ notFullWaiters' = notFullWaiters \cup {t}
  /\ UNCHANGED <<queue, closed, notEmptyWaiters>>

\* Mutated forms: the bound is off by one; not_empty_ is notified only when
\* the queue was empty; not_empty_ is never notified; the value goes in front.
PushAcceptOverfull(t, v) ==
  /\ t \notin notFullWaiters
  /\ ~closed
  /\ Len(queue) <= Capacity
  /\ queue' = Append(queue, v)
  /\ notEmptyWaiters' \in NotifyOne(notEmptyWaiters)
  /\ UNCHANGED <<closed, notFullWaiters>>

PushAcceptEdge(t, v) ==
  /\ t \notin notFullWaiters
  /\ ~closed
  /\ Len(queue) < Capacity
  /\ queue' = Append(queue, v)
  /\ IF queue = <<>> THEN notEmptyWaiters' \in NotifyOne(notEmptyWaiters)
                     ELSE UNCHANGED notEmptyWaiters
  /\ UNCHANGED <<closed, notFullWaiters>>

PushAcceptQuiet(t, v) ==
  /\ t \notin notFullWaiters
  /\ ~closed
  /\ Len(queue) < Capacity
  /\ queue' = Append(queue, v)
  /\ UNCHANGED <<closed, notEmptyWaiters, notFullWaiters>>

PushAcceptFront(t, v) ==
  /\ t \notin notFullWaiters
  /\ ~closed
  /\ Len(queue) < Capacity
  /\ queue' = <<v>> \o queue
  /\ notEmptyWaiters' \in NotifyOne(notEmptyWaiters)
  /\ UNCHANGED <<closed, notFullWaiters>>

\* There is room: the value goes in and push returns true.
PushAccept(t, v) ==
  /\ t \notin notFullWaiters
  /\ ~closed
  /\ Len(queue) < Capacity
  /\ queue' = Append(queue, v)
  /\ notEmptyWaiters' \in NotifyOne(notEmptyWaiters)
  /\ UNCHANGED <<closed, notFullWaiters>>

\* The queue is closed: push returns false and the value is dropped.
PushClosed(t) ==
  /\ t \notin notFullWaiters
  /\ closed
  /\ UNCHANGED queueVars

-----------------------------------------------------------------------------
(* try_push(value): one critical section, never parks *)

\* Mutated form: a closed queue is not noticed.
TryPushAcceptClosed(v) ==
  /\ Len(queue) < Capacity
  /\ queue' = Append(queue, v)
  /\ notEmptyWaiters' \in NotifyOne(notEmptyWaiters)
  /\ UNCHANGED <<closed, notFullWaiters>>

TryPushAccept(v) ==
  /\ ~closed
  /\ Len(queue) < Capacity
  /\ queue' = Append(queue, v)
  /\ notEmptyWaiters' \in NotifyOne(notEmptyWaiters)
  /\ UNCHANGED <<closed, notFullWaiters>>

TryPushReject ==
  /\ closed \/ Len(queue) >= Capacity
  /\ UNCHANGED queueVars

-----------------------------------------------------------------------------
(* pop(out) by thread t *)

\* The predicate of not_empty_.wait is false: t parks.
PopWait(t) ==
  /\ t \notin notEmptyWaiters
  /\ ~closed
  /\ queue = <<>>
  /\ notEmptyWaiters' = notEmptyWaiters \cup {t}
  /\ UNCHANGED <<queue, closed, notFullWaiters>>

\* Mutated forms: not_full_ is notified only when the queue was full; it is
\* never notified.
PopTakeEdge(t) ==
  /\ t \notin notEmptyWaiters
  /\ queue # <<>>
  /\ queue' = Tail(queue)
  /\ IF Len(queue) = Capacity THEN notFullWaiters' \in NotifyOne(notFullWaiters)
                              ELSE UNCHANGED notFullWaiters
  /\ UNCHANGED <<closed, notEmptyWaiters>>

PopTakeQuiet(t) ==
  /\ t \notin notEmptyWaiters
  /\ queue # <<>>
  /\ queue' = Tail(queue)
  /\ UNCHANGED <<closed, notEmptyWaiters, notFullWaiters>>

\* There is an element, closed or not: out = Head(queue), pop returns true.
PopTake(t) ==
  /\ t \notin notEmptyWaiters
  /\ queue # <<>>
  /\ queue' = Tail(queue)
  /\ notFullWaiters' \in NotifyOne(notFullWaiters)
  /\ UNCHANGED <<closed, notEmptyWaiters>>

\* Closed and drained: pop returns false.
PopEnd(t) ==
  /\ t \notin notEmptyWaiters
  /\ closed
  /\ queue = <<>>
  /\ UNCHANGED queueVars

-----------------------------------------------------------------------------
(* close(): set the flag under the mutex, then notify both sides outside it *)

MarkClosed ==
  /\ closed' = TRUE
  /\ UNCHANGED <<queue, notEmptyWaiters, notFullWaiters>>

\* Mutated form: notify_one instead of notify_all.
NotifyOneNotEmpty ==
  /\ notEmptyWaiters' \in NotifyOne(notEmptyWaiters)
  /\ UNCHANGED <<queue, closed, notFullWaiters>>

NotifyAllNotEmpty ==
  /\ notEmptyWaiters' \in NotifyAll(notEmptyWaiters)
  /\ UNCHANGED <<queue, closed, notFullWaiters>>

NotifyAllNotFull ==
  /\ notFullWaiters' \in NotifyAll(notFullWaiters)
  /\ UNCHANGED <<queue, closed, notEmptyWaiters>>

-----------------------------------------------------------------------------
\* The standard lets wait() return unnotified; the predicate overload then
\* re-tests, that is, t runs its Push or Pop step again.
SpuriousWake(t) ==
  /\ SpuriousWakeups
  /\ \/ /\ t \in notEmptyWaiters
        /\ notEmptyWaiters' = notEmptyWaiters \ {t}
        /\ UNCHANGED notFullWaiters
     \/ /\ t \in notFullWaiters
        /\ notFullWaiters' = notFullWaiters \ {t}
        /\ UNCHANGED notEmptyWaiters
  /\ UNCHANGED <<queue, closed>>

=============================================================================
