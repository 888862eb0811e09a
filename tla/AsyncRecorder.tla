--------------------------- MODULE AsyncRecorder ---------------------------
(***************************************************************************)
(* hpblr::AsyncRecorder (src/core/async_recorder.cpp): producers submit    *)
(* events to a BlockingQueue, one background thread runs run() and feeds   *)
(* them to a BinaryLogWriter, and the thread that owns the recorder stops  *)
(* and destroys it.  Each access to an atomic, to a critical section of    *)
(* the queue or of error_mutex_, and each call of the writer is a step.    *)
(*                                                                         *)
(* A record is one unit here: where a write cuts a record in two makes no  *)
(* difference to the recorder.                                             *)
(***************************************************************************)
EXTENDS BlockingQueue, BinaryLogWriter, FiniteSets, SequencesExt

CONSTANTS Producers,
          NoEvent,    \* a default-constructed Event
          Plan,       \* bound: the events each producer submits, in order
          MaxStops    \* bound: explicit calls of stop()

Writer == "writer thread"
Owner == "owner thread"
Threads == Producers \cup {Writer, Owner}

ASSUME RecorderAssumption ==
  /\ IsFiniteSet(Producers) /\ Producers # {}
  /\ Producers \cap {Writer, Owner} = {}
  /\ Plan \in [Producers -> Seq(Events)]
  /\ MaxStops \in Nat

ASSUME WriterAssumption ==
  /\ Oversized \subseteq Events
  /\ RequestedThreshold \in Nat
  /\ FlushOnEachEvent \in BOOLEAN /\ DiskFaults \in BOOLEAN
  /\ FileHeader \in Seq(Range(FileHeader))
  /\ \A e \in Events : Encoding[e] = <<e>>

VARIABLES
  stopping,     \* stopping_
  submitted,    \* submitted_
  rejected,     \* rejected_
  written,      \* written_
  writerError,  \* writer_error_: "none", "io" or "format"
  pc,           \* where each thread is
  results,      \* history: what each producer's calls of submit gave, in order
  event,        \* the local of run(): the event popped last
  raised,       \* the exception in flight inside run()
  stopResults,  \* history: what the calls of stop() gave, in order
  destroying,   \* ~AsyncRecorder has begun
  accepted      \* history: the events the queue took, in order

recorderVars == <<stopping, submitted, rejected, written, writerError, pc,
                  results, event, raised, stopResults, destroying, accepted>>
vars == <<queueVars, writerVars, recorderVars>>

\* The longest plan.
MaxPlan == CHOOSE n \in {Len(Plan[p]) : p \in Producers} :
             \A p \in Producers : Len(Plan[p]) <= n

Goto(t, label) == pc' = [pc EXCEPT ![t] = label]

\* The event producer p is submitting, or will submit next.
Offer(p) == Plan[p][Len(results[p]) + 1]

Init ==
  /\ QueueInit
  /\ WriterInit
  /\ stopping = FALSE
  /\ submitted = 0 /\ rejected = 0 /\ written = 0
  /\ writerError = "none"
  /\ pc = [t \in Threads |-> IF t = Writer THEN "pop" ELSE "idle"]
  /\ results = [p \in Producers |-> <<>>]
  /\ event = NoEvent
  /\ raised = "none"
  /\ stopResults = <<>>
  /\ destroying = FALSE
  /\ accepted = <<>>

-----------------------------------------------------------------------------
(* submit(event), called by producer p *)

\* p's call of submit is over, with this result.
Return(p, result) ==
  /\ results' = [results EXCEPT ![p] = Append(@, result)]
  /\ Goto(p, "idle")

\* A producer calls submit only while the recorder exists.
CallSubmit(p) ==
  /\ pc[p] = "idle" /\ ~destroying
  /\ Len(results[p]) < Len(Plan[p])
  /\ Goto(p, "checkError")
  /\ UNCHANGED <<queueVars, writerVars, stopping, submitted, rejected, written,
                 writerError, results, event, raised, stopResults, destroying,
                 accepted>>

\* rethrow_writer_error_if_any()
CheckError(p) ==
  /\ pc[p] = "checkError"
  /\ \/ /\ writerError # "none"
        /\ Return(p, "threw")
     \/ /\ writerError = "none"
        /\ Goto(p, "checkStopping")
        /\ UNCHANGED results
  /\ UNCHANGED <<queueVars, writerVars, stopping, submitted, rejected, written,
                 writerError, event, raised, stopResults, destroying, accepted>>

CheckStopping(p) ==
  /\ pc[p] = "checkStopping"
  /\ Goto(p, IF stopping THEN "countRejected" ELSE "push")
  /\ UNCHANGED <<queueVars, writerVars, stopping, submitted, rejected, written,
                 writerError, results, event, raised, stopResults, destroying,
                 accepted>>

\* Mutated form: what push() returned is ignored.
PushUnchecked(p) ==
  /\ pc[p] = "push"
  /\ \/ /\ PushWait(p)
        /\ UNCHANGED <<pc, accepted>>
     \/ /\ PushAccept(p, Offer(p))
        /\ accepted' = Append(accepted, Offer(p))
        /\ Goto(p, "countSubmitted")
     \/ /\ PushClosed(p)
        /\ Goto(p, "countSubmitted")
        /\ UNCHANGED accepted
  /\ UNCHANGED <<writerVars, stopping, submitted, rejected, written,
                 writerError, results, event, raised, stopResults, destroying>>

Push(p) ==
  /\ pc[p] = "push"
  /\ \/ /\ PushWait(p)
        /\ UNCHANGED <<pc, accepted>>
     \/ /\ PushAccept(p, Offer(p))
        /\ accepted' = Append(accepted, Offer(p))
        /\ Goto(p, "countSubmitted")
     \/ /\ PushClosed(p)
        /\ Goto(p, "countRejected")
        /\ UNCHANGED accepted
  /\ UNCHANGED <<writerVars, stopping, submitted, rejected, written,
                 writerError, results, event, raised, stopResults, destroying>>

Count(p) ==
  /\ \/ /\ pc[p] = "countSubmitted"
        /\ submitted' = submitted + 1
        /\ Return(p, "true")
        /\ UNCHANGED rejected
     \/ /\ pc[p] = "countRejected"
        /\ rejected' = rejected + 1
        /\ Return(p, "false")
        /\ UNCHANGED submitted
  /\ UNCHANGED <<queueVars, writerVars, stopping, written, writerError, event,
                 raised, stopResults, destroying, accepted>>

Submit(p) == CheckError(p) \/ CheckStopping(p) \/ Push(p) \/ Count(p)

-----------------------------------------------------------------------------
(* close(), called by stop() and by the catch clause of run(): thread t    *)
(* goes on at label next.                                                  *)

CloseQueue(t, next) ==
  \/ /\ pc[t] = "markClosed"
     /\ MarkClosed
     /\ Goto(t, "notifyEmpty")
  \/ /\ pc[t] = "notifyEmpty"
     /\ NotifyAllNotEmpty
     /\ Goto(t, "notifyFull")
  \/ /\ pc[t] = "notifyFull"
     /\ NotifyAllNotFull
     /\ Goto(t, next)

-----------------------------------------------------------------------------
(* run(), the background thread *)

\* Mutated form: the loop ends without flush().
RunPopUnflushed ==
  /\ pc[Writer] = "pop"
  /\ \/ /\ PopWait(Writer)
        /\ UNCHANGED <<pc, event>>
     \/ /\ PopTake(Writer)
        /\ event' = Head(queue)
        /\ Goto(Writer, "append")
     \/ /\ PopEnd(Writer)
        /\ Goto(Writer, "done")
        /\ UNCHANGED event
  /\ UNCHANGED <<writerVars, stopping, submitted, rejected, written,
                 writerError, results, raised, stopResults, destroying,
                 accepted>>

RunPop ==
  /\ pc[Writer] = "pop"
  /\ \/ /\ PopWait(Writer)
        /\ UNCHANGED <<pc, event>>
     \/ /\ PopTake(Writer)
        /\ event' = Head(queue)
        /\ Goto(Writer, "append")
     \/ /\ PopEnd(Writer)
        /\ Goto(Writer, "flush")
        /\ UNCHANGED event
  /\ UNCHANGED <<writerVars, stopping, submitted, rejected, written,
                 writerError, results, raised, stopResults, destroying,
                 accepted>>

\* Mutated form: an event that cannot be encoded is skipped.
RunAppendSkips ==
  /\ pc[Writer] = "append"
  /\ \/ /\ AppendBuffered(event) \/ AppendWritten(event)
        /\ Goto(Writer, "count")
        /\ UNCHANGED raised
     \/ /\ AppendIoError(event)
        /\ raised' = "io"
        /\ Goto(Writer, "setError")
     \/ /\ AppendFormatError(event)
        /\ Goto(Writer, "pop")
        /\ UNCHANGED raised
  /\ UNCHANGED <<queueVars, stopping, submitted, rejected, written,
                 writerError, results, event, stopResults, destroying, accepted>>

\* An exception leaves the loop for the catch clause.
RunAppend ==
  /\ pc[Writer] = "append"
  /\ \/ /\ AppendBuffered(event) \/ AppendWritten(event)
        /\ Goto(Writer, "count")
        /\ UNCHANGED raised
     \/ /\ AppendIoError(event)
        /\ raised' = "io"
        /\ Goto(Writer, "setError")
     \/ /\ AppendFormatError(event)
        /\ raised' = "format"
        /\ Goto(Writer, "setError")
  /\ UNCHANGED <<queueVars, stopping, submitted, rejected, written,
                 writerError, results, event, stopResults, destroying, accepted>>

RunCount ==
  /\ pc[Writer] = "count"
  /\ written' = written + 1
  /\ Goto(Writer, "pop")
  /\ UNCHANGED <<queueVars, writerVars, stopping, submitted, rejected,
                 writerError, results, event, raised, stopResults, destroying,
                 accepted>>

RunFlush ==
  /\ pc[Writer] = "flush"
  /\ \/ /\ FlushOk
        /\ Goto(Writer, "done")
        /\ UNCHANGED raised
     \/ /\ FlushIoError
        /\ raised' = "io"
        /\ Goto(Writer, "setError")
  /\ UNCHANGED <<queueVars, stopping, submitted, rejected, written,
                 writerError, results, event, stopResults, destroying, accepted>>

\* Mutated forms of the catch clause: the queue stays open; it is closed
\* before the exception is stored.
RunCatchOpen ==
  /\ pc[Writer] = "setError"
  /\ writerError' = IF writerError = "none" THEN raised ELSE writerError
  /\ Goto(Writer, "done")
  /\ UNCHANGED <<queueVars, writerVars, stopping, submitted, rejected, written,
                 results, event, raised, stopResults, destroying, accepted>>

RunCatchLate ==
  /\ \/ /\ pc[Writer] = "setError"
        /\ MarkClosed
        /\ Goto(Writer, "notifyEmpty")
        /\ UNCHANGED writerError
     \/ /\ pc[Writer] # "markClosed"
        /\ CloseQueue(Writer, "markClosed")
        /\ UNCHANGED writerError
     \/ /\ pc[Writer] = "markClosed"
        /\ writerError' = IF writerError = "none" THEN raised ELSE writerError
        /\ Goto(Writer, "done")
        /\ UNCHANGED queueVars
  /\ UNCHANGED <<writerVars, stopping, submitted, rejected, written,
                 results, event, raised, stopResults, destroying, accepted>>

\* set_writer_error(), which keeps the first error; then close().
RunCatch ==
  /\ \/ /\ pc[Writer] = "setError"
        /\ writerError' = IF writerError = "none" THEN raised ELSE writerError
        /\ Goto(Writer, "markClosed")
        /\ UNCHANGED queueVars
     \/ /\ CloseQueue(Writer, "done")
        /\ UNCHANGED writerError
  /\ UNCHANGED <<writerVars, stopping, submitted, rejected, written,
                 results, event, raised, stopResults, destroying, accepted>>

Run == RunPop \/ RunAppend \/ RunCount \/ RunFlush \/ RunCatch

-----------------------------------------------------------------------------
(* stop() and ~AsyncRecorder(), called by the owner *)

\* Mutated form: the test of the old value is inverted.
StopExchangeInverted ==
  /\ stopping' = TRUE
  /\ Goto(Owner, IF stopping THEN "markClosed" ELSE "join")

\* stopping_.exchange(true); the queue is closed by the first call only.
StopExchange ==
  /\ stopping' = TRUE
  /\ Goto(Owner, IF stopping THEN "join" ELSE "markClosed")

CallStop ==
  /\ pc[Owner] = "idle" /\ ~destroying
  /\ Len(stopResults) < MaxStops
  /\ StopExchange
  /\ UNCHANGED <<queueVars, writerVars, submitted, rejected, written,
                 writerError, results, event, raised, stopResults, destroying,
                 accepted>>

\* The destructor runs stop() first.  Nobody may be inside submit by then:
\* the lifetime rule of any object, kept by every caller in the repository.
CallDestructor ==
  /\ pc[Owner] = "idle" /\ ~destroying
  /\ \A p \in Producers : pc[p] = "idle"
  /\ destroying' = TRUE
  /\ StopExchange
  /\ UNCHANGED <<queueVars, writerVars, submitted, rejected, written,
                 writerError, results, event, raised, stopResults, accepted>>

StopClose ==
  /\ CloseQueue(Owner, "join")
  /\ UNCHANGED <<writerVars, stopping, submitted, rejected, written,
                 writerError, results, event, raised, stopResults, destroying,
                 accepted>>

\* joinable() / join(): at once when the thread was joined before.
StopJoin ==
  /\ pc[Owner] = "join"
  /\ pc[Writer] = "done"
  /\ Goto(Owner, "rethrow")
  /\ UNCHANGED <<queueVars, writerVars, stopping, submitted, rejected, written,
                 writerError, results, event, raised, stopResults, destroying,
                 accepted>>

\* Mutated form: the exception is moved out of writer_error_ when it is thrown.
StopRethrowOnce ==
  /\ pc[Owner] = "rethrow"
  /\ \/ /\ destroying
        /\ Goto(Owner, "destroyWriter")
        /\ UNCHANGED stopResults
     \/ /\ ~destroying
        /\ stopResults' = Append(stopResults,
                                 IF writerError = "none" THEN "ok" ELSE "threw")
        /\ Goto(Owner, "idle")
  /\ writerError' = "none"
  /\ UNCHANGED <<queueVars, writerVars, stopping, submitted, rejected, written,
                 results, event, raised, destroying, accepted>>

\* rethrow_writer_error_if_any(); the destructor swallows what it throws.
StopRethrow ==
  /\ pc[Owner] = "rethrow"
  /\ \/ /\ destroying
        /\ Goto(Owner, "destroyWriter")
        /\ UNCHANGED stopResults
     \/ /\ ~destroying
        /\ stopResults' = Append(stopResults,
                                 IF writerError = "none" THEN "ok" ELSE "threw")
        /\ Goto(Owner, "idle")
  /\ UNCHANGED <<queueVars, writerVars, stopping, submitted, rejected, written,
                 writerError, results, event, raised, destroying, accepted>>

\* The members go: among them writer_.
DestroyWriter ==
  /\ pc[Owner] = "destroyWriter"
  /\ DestroyOk \/ DestroyIoError
  /\ Goto(Owner, "destroyed")
  /\ UNCHANGED <<queueVars, stopping, submitted, rejected, written,
                 writerError, results, event, raised, stopResults, destroying,
                 accepted>>

Stop == StopClose \/ StopJoin \/ StopRethrow \/ DestroyWriter

-----------------------------------------------------------------------------

Spurious(t) ==
  /\ SpuriousWake(t)
  /\ UNCHANGED <<writerVars, recorderVars>>

\* Everything ends with the destructor.
Terminated ==
  /\ pc[Owner] = "destroyed"
  /\ UNCHANGED vars

Next ==
  \/ \E p \in Producers : CallSubmit(p) \/ Submit(p) \/ Spurious(p)
  \/ Run \/ Spurious(Writer)
  \/ CallStop \/ CallDestructor \/ Stop
  \/ Terminated

Spec == Init /\ [][Next]_vars

\* Every thread that is inside a call goes on; calling submit, stop or the
\* destructor is up to the application.
Fairness ==
  /\ \A p \in Producers : WF_vars(Submit(p))
  /\ WF_vars(Run)
  /\ WF_vars(Stop)

FairSpec == Spec /\ Fairness

-----------------------------------------------------------------------------
(* Invariants *)

Labels == {"idle", "checkError", "checkStopping", "push", "countSubmitted",
           "countRejected", "pop", "append", "count", "flush", "setError",
           "markClosed", "notifyEmpty", "notifyFull", "join", "rethrow",
           "destroyWriter", "done", "destroyed"}
Units == Events \cup Range(FileHeader)

TypeOK ==
  /\ queue \in Seq(Events) /\ Len(queue) <= Capacity
  /\ closed \in BOOLEAN
  /\ notEmptyWaiters \subseteq {t \in {Writer} : pc[t] = "pop"}
  /\ notFullWaiters \subseteq {p \in Producers : pc[p] = "push"}
  /\ buffer \in Seq(Units) /\ pending \in Seq(Units) /\ file \in Seq(Units)
  /\ streamOk \in BOOLEAN /\ logClosed \in BOOLEAN
  /\ eventsWritten \in Nat /\ bytesWritten \in Nat
  /\ stopping \in BOOLEAN /\ destroying \in BOOLEAN
  /\ submitted \in Nat /\ rejected \in Nat /\ written \in Nat
  /\ writerError \in {"none", "io", "format"}
  /\ raised \in {"none", "io", "format"}
  /\ pc \in [Threads -> Labels]
  /\ results \in [Producers -> Seq({"true", "false", "threw"})]
  /\ event \in Events \cup {NoEvent}
  /\ stopResults \in Seq({"ok", "threw"})
  /\ accepted \in Seq(Events)

\* What the file of a recorder without faults holds in the end.
CompleteLog == FileHeader \o accepted

\* The event run() has popped and not appended; an oversized one never leaves.
InHand ==
  IF pc[Writer] = "append" \/ raised = "format" THEN <<event>> ELSE <<>>

\* Nothing accepted is lost, duplicated or overtaken between the queue, the
\* writer thread, buffer_, the put area of the stream and the file, at any
\* moment of any interleaving, until a write fails
\* (async_recorder.cpp:64-76, binary_log.cpp:163-188).
Conservation ==
  streamOk => file \o pending \o buffer \o InHand \o queue = CompleteLog

\* Even when a write has failed, and until the stream is destroyed, the file
\* is the beginning of the complete log: there is no hole in it.
FileIsPrefix ==
  pc[Owner] # "destroyed" => IsPrefix(file, CompleteLog)

\* stop() is a persistence barrier (async_recorder.hpp:75-79): when it returns
\* normally, everything that was ever accepted is in the file, whatever the
\* producers were doing meanwhile, and it stays so.
StopIsABarrier ==
  "ok" \in Range(stopResults) =>
    /\ file = CompleteLog
    /\ queue = <<>> /\ buffer = <<>>

\* Every call of stop() tells the same story: a failure reported once is
\* reported again, a success is never taken back (async_recorder.cpp:38-47).
StopIsConsistent ==
  \A i, j \in DOMAIN stopResults : stopResults[i] = stopResults[j]

\* A loss leaves its reason: when the recorder is destroyed, an accepted event
\* is missing from the file only if an exception is kept in writer_error_, and
\* this is the one the writer thread met.  Whoever calls stop() or submit()
\* gets it; a destructor without a stop() before it swallows it
\* (async_recorder.cpp:17-22, 72-75).
NoSilentLoss ==
  /\ pc[Owner] = "destroyed" /\ file # CompleteLog
       => writerError # "none"
  /\ pc[Writer] = "done" /\ raised # "none" => writerError = raised

\* The counters and the calls agree once every call has returned: each "true"
\* is one accepted event, each "false" is counted as rejected, and a normal
\* stop() has written what was submitted (test_async_recorder.cpp:60-63).
ResultsWith(r) ==
  UNION {{p} \X {i \in DOMAIN results[p] : results[p][i] = r} : p \in Producers}

CountersAgree ==
  (\A p \in Producers : pc[p] = "idle") =>
    /\ submitted = Cardinality(ResultsWith("true"))
    /\ submitted = Len(accepted)
    /\ rejected = Cardinality(ResultsWith("false"))
    /\ "ok" \in Range(stopResults) => written = submitted

\* submit() refuses an event for a reason the caller can find out: the
\* recorder is stopping, or the writer's exception is already stored when the
\* queue is closed (async_recorder.cpp:73-74, in that order).
NoSilentRefusal ==
  (\E p \in Producers :
     pc[p] = "countRejected" \/ "false" \in Range(results[p]))
    => stopping \/ writerError # "none"

-----------------------------------------------------------------------------
(* Liveness *)

\* A failure of the writer thread frees the producers blocked on a full queue.
FailureReleasesProducers ==
  \A p \in Producers : (raised # "none" /\ pc[p] = "push") ~> (pc[p] = "idle")

\* stop() and the destructor return: the writer thread always ends, after the
\* drain or after a failure, and no waiter is left behind.
StopReturns == stopping ~> (pc[Owner] \in {"idle", "destroyed"})

\* Without any call of stop(), what has been accepted gets to the writer.
AcceptedIsWritten ==
  \A n \in 1 .. MaxPlan * Cardinality(Producers) :
    Len(accepted) >= n ~> (written >= n \/ raised # "none")

-----------------------------------------------------------------------------
(* The contract *)

\* The events a reader of the file finds: units are records here, and what
\* the last write of a destructor may repeat comes after the end of the log.
Readable ==
  LET log == LongestCommonPrefix({file, CompleteLog})
  IN  SubSeq(log, Len(FileHeader) + 1, Len(log))

Contract == INSTANCE RecorderContract WITH
  Submitters <- Producers,
  Records <- Events,
  saved <- Readable,
  taken <- {p \in Producers : pc[p] = "countSubmitted"},
  failure <- writerError,
  destroyed <- (pc[Owner] = "destroyed")

\* The recorder is the one its callers are promised: an event enters the log
\* at one moment inside its call of submit, the file grows by accepted events
\* in order, a failure stays, a normal stop() closes the log for good
\* (async_recorder.hpp:62-84).
ImplementsContract == Contract!ContractSpec

-----------------------------------------------------------------------------
(* What the documents say and the code does not do *)

\* async_recorder.hpp:69: submit() returns false when the recorder is stopping.
FalseMeansStopping ==
  (\E p \in Producers : "false" \in Range(results[p])) => stopping

\* ROBUSTNESS.md:31-36: "Shutdown is designed to preserve all submitted
\* events: ... drain all queued events; flush output".  Stated for a disk that
\* never fails and for the events that do fit in a record.
ShutdownPreservesSubmitted ==
  ~DiskFaults /\ pc[Owner] = "destroyed" =>
    \A e \in Range(accepted) \ Oversized : e \in Range(file)
=============================================================================
