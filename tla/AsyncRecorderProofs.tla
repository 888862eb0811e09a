------------------------ MODULE AsyncRecorderProofs ------------------------
(***************************************************************************)
(* Proofs about AsyncRecorder, for every capacity, every finite set of     *)
(* producers and every plan, any threshold, with and without failing       *)
(* writes and spurious wakeups.                                            *)
(***************************************************************************)
EXTENDS AsyncRecorder, SequenceFacts, FiniteSetTheorems, TLAPS

\* The constructor's argument 0 never makes a queue without a slot.
LEMMA CapacityPositive == Capacity \in Nat /\ Capacity >= 1
BY CapacityAssumption DEF Capacity

\* A notify_one leaves a subset of the waiters.
LEMMA NotifyOneSubset ==
  ASSUME NEW W, NEW V \in NotifyOne(W)
  PROVE  V \subseteq W
BY DEF NotifyOne

\* Producers, the writer thread and the owner are different threads.
LEMMA ThreadsDiffer ==
  /\ Writer \in Threads /\ Owner \in Threads /\ Writer # Owner
  /\ \A p \in Producers : p \in Threads /\ p # Writer /\ p # Owner
BY RecorderAssumption DEF Threads, Writer, Owner

-----------------------------------------------------------------------------
(* Types *)

\* The labels each kind of thread can be at.
WriterLabels == {"pop", "append", "count", "flush", "setError", "markClosed",
                 "notifyEmpty", "notifyFull", "done"}
OwnerLabels == {"idle", "markClosed", "notifyEmpty", "notifyFull", "join",
                "rethrow", "destroyWriter", "destroyed"}
ProducerLabels == {"idle", "checkError", "checkStopping", "push",
                   "countSubmitted", "countRejected"}

\* Each kind of thread is at one of its own labels.
LabelsOk ==
  /\ pc \in [Threads -> Labels]
  /\ pc[Writer] \in WriterLabels
  /\ pc[Owner] \in OwnerLabels
  /\ \A p \in Producers : pc[p] \in ProducerLabels

\* A type invariant that is inductive: besides the labels, a producer inside
\* submit has an event left, run() holds an event to append.
Typed ==
  /\ TypeOK
  /\ LabelsOk
  /\ \A p \in Producers : pc[p] # "idle" => Len(results[p]) < Len(Plan[p])
  /\ pc[Writer] = "append" => event \in Events

LEMMA OfferType ==
  ASSUME Typed, NEW p \in Producers, pc[p] # "idle"
  PROVE  Offer(p) \in Events
<1>1. Plan[p] \in Seq(Events) /\ results[p] \in Seq({"true", "false", "threw"})
  BY RecorderAssumption DEF Typed, TypeOK
<1>2. Len(results[p]) + 1 \in 1 .. Len(Plan[p])
  BY <1>1 DEF Typed
<1> QED
  BY <1>1, <1>2 DEF Offer

LEMMA HeaderType == FileHeader \in Seq(Units) /\ <<>> \in Seq(Units)
<1>1. Range(FileHeader) \subseteq Units
  BY DEF Units
<1>2. FileHeader \in Seq(Range(FileHeader))
  BY WriterAssumption
<1> QED
  BY <1>1, <1>2, SeqMonotonic, EmptySeq

\* An event is recorded as one unit.
LEMMA RecordType ==
  ASSUME NEW e \in Events
  PROVE  Encoding[e] = <<e>> /\ <<e>> \in Seq(Units)
<1>1. e \in Units
  BY DEF Units
<1>2. <<e>> \in Seq(Units)
  BY <1>1
<1> QED
  BY <1>2, WriterAssumption

LEMMA TypedInit == Init => Typed
<1> SUFFICES ASSUME Init PROVE Typed
  OBVIOUS
<1>1. QueueInit /\ WriterInit
  BY DEF Init
<1>2. queue = <<>> /\ closed = FALSE /\ notEmptyWaiters = {}
      /\ notFullWaiters = {}
  BY <1>1 DEF QueueInit
<1>3. queue \in Seq(Events) /\ Len(queue) <= Capacity
  BY <1>2, CapacityPositive
<1>4. streamOk = TRUE /\ logClosed = FALSE /\ eventsWritten = 0
  BY <1>1 DEF WriterInit
<1>5. buffer \in Seq(Units) /\ pending \in Seq(Units) /\ file \in Seq(Units)
  <2>1. /\ buffer = <<>>
        /\ pending = FileHeader \/ pending = <<>>
        /\ file = FileHeader \/ file = <<>>
    BY <1>1 DEF WriterInit
  <2> QED
    BY <2>1, HeaderType
<1>6. bytesWritten \in Nat
  <2>1. bytesWritten = Len(FileHeader)
    BY <1>1 DEF WriterInit
  <2> QED
    BY <2>1, HeaderType, LenProperties
<1>7. pc = [t \in Threads |-> IF t = Writer THEN "pop" ELSE "idle"]
  BY DEF Init
<1>8. pc \in [Threads -> Labels]
  BY <1>7 DEF Labels
<1>9. /\ \A p \in Producers : pc[p] = "idle"
      /\ pc[Writer] = "pop" /\ pc[Owner] = "idle"
  BY <1>7, ThreadsDiffer
<1>10. results \in [Producers -> Seq({"true", "false", "threw"})]
  BY DEF Init
<1>11. /\ stopping = FALSE /\ submitted = 0 /\ rejected = 0 /\ written = 0
       /\ writerError = "none" /\ event = NoEvent /\ raised = "none"
       /\ stopResults = <<>> /\ destroying = FALSE /\ accepted = <<>>
  BY DEF Init
<1>12. accepted \in Seq(Events) /\ stopResults \in Seq({"ok", "threw"})
  BY <1>11
<1>13. TypeOK
  BY <1>2, <1>3, <1>4, <1>5, <1>6, <1>8, <1>9, <1>10, <1>11, <1>12 DEF TypeOK
<1> QED
  BY <1>8, <1>9, <1>13 DEF Typed, LabelsOk, WriterLabels, OwnerLabels, ProducerLabels

\* Which actions touch the queue, the writer and the producers' results.
LEMMA QueueFrame ==
  ASSUME [Next]_vars
  PROVE  \/ UNCHANGED <<queue, closed, accepted>>
         \/ \E p \in Producers : Push(p)
         \/ RunPop \/ RunCatch \/ StopClose
BY DEF Next, vars, recorderVars, queueVars, CallSubmit, Submit, CheckError,
       CheckStopping, Count, Spurious, SpuriousWake, Run, RunAppend, RunCount,
       RunFlush, CallStop, CallDestructor, Stop, StopJoin, StopRethrow,
       DestroyWriter, Terminated

LEMMA WriterFrame ==
  ASSUME [Next]_vars
  PROVE  UNCHANGED writerVars \/ RunAppend \/ RunFlush \/ DestroyWriter
BY DEF Next, vars, CallSubmit, Submit, CheckError, CheckStopping, Push, Count,
       Spurious, Run, RunPop, RunCount, RunCatch, CallStop, CallDestructor,
       Stop, StopClose, StopJoin, StopRethrow, Terminated

LEMMA ResultsFrame ==
  ASSUME [Next]_vars
  PROVE  UNCHANGED results \/ \E p \in Producers : CheckError(p) \/ Count(p)
BY DEF Next, vars, recorderVars, CallSubmit, Submit, CheckStopping, Push,
       Spurious, Run, RunPop, RunAppend, RunCount, RunFlush, RunCatch, CallStop,
       CallDestructor, Stop, StopClose, StopJoin, StopRethrow, DestroyWriter,
       Terminated

\* A thread goes on to its next label; the others stay where they are.
LEMMA GotoType ==
  ASSUME pc \in [Threads -> Labels], NEW t \in Threads, NEW label \in Labels,
         Goto(t, label)
  PROVE  /\ pc' \in [Threads -> Labels]
         /\ pc'[t] = label
         /\ \A u \in Threads : u # t => pc'[u] = pc[u]
BY DEF Goto

LEMMA ProducerGoes ==
  ASSUME LabelsOk, NEW p \in Producers, NEW label \in ProducerLabels,
         Goto(p, label)
  PROVE  /\ LabelsOk'
         /\ pc'[p] = label /\ \A u \in Threads : u # p => pc'[u] = pc[u]
         /\ pc'[Writer] = pc[Writer] /\ pc'[Owner] = pc[Owner]
<1>1. label \in Labels
  BY DEF ProducerLabels, Labels
<1>2. /\ pc' \in [Threads -> Labels] /\ pc'[p] = label
      /\ \A u \in Threads : u # p => pc'[u] = pc[u]
  BY <1>1, ThreadsDiffer, GotoType DEF LabelsOk
<1>3. pc'[Writer] = pc[Writer] /\ pc'[Owner] = pc[Owner]
  BY <1>2, ThreadsDiffer
<1> QED
  BY <1>2, <1>3, ThreadsDiffer DEF LabelsOk

LEMMA WriterGoes ==
  ASSUME LabelsOk, NEW label \in WriterLabels, Goto(Writer, label)
  PROVE  /\ LabelsOk'
         /\ pc'[Writer] = label /\ pc'[Owner] = pc[Owner]
         /\ \A p \in Producers : pc'[p] = pc[p]
<1>1. label \in Labels
  BY DEF WriterLabels, Labels
<1>2. /\ pc' \in [Threads -> Labels] /\ pc'[Writer] = label
      /\ \A u \in Threads : u # Writer => pc'[u] = pc[u]
  BY <1>1, ThreadsDiffer, GotoType DEF LabelsOk
<1>3. pc'[Owner] = pc[Owner] /\ \A p \in Producers : pc'[p] = pc[p]
  BY <1>2, ThreadsDiffer
<1> QED
  BY <1>2, <1>3 DEF LabelsOk

LEMMA OwnerGoes ==
  ASSUME LabelsOk, NEW label \in OwnerLabels, Goto(Owner, label)
  PROVE  /\ LabelsOk'
         /\ pc'[Owner] = label /\ pc'[Writer] = pc[Writer]
         /\ \A p \in Producers : pc'[p] = pc[p]
<1>1. label \in Labels
  BY DEF OwnerLabels, Labels
<1>2. /\ pc' \in [Threads -> Labels] /\ pc'[Owner] = label
      /\ \A u \in Threads : u # Owner => pc'[u] = pc[u]
  BY <1>1, ThreadsDiffer, GotoType DEF LabelsOk
<1>3. pc'[Writer] = pc[Writer] /\ \A p \in Producers : pc'[p] = pc[p]
  BY <1>2, ThreadsDiffer
<1> QED
  BY <1>2, <1>3 DEF LabelsOk

\* Where the step of a thread leads, action by action.
LEMMA SubmitGoes ==
  ASSUME NEW p \in Producers, CallSubmit(p) \/ Submit(p)
  PROVE  UNCHANGED pc \/ \E label \in ProducerLabels : Goto(p, label)
<1>1. CASE CallSubmit(p)
  BY <1>1 DEF CallSubmit, ProducerLabels
<1>2. CASE CheckError(p)
  BY <1>2 DEF CheckError, Return, ProducerLabels
<1>3. CASE CheckStopping(p)
  BY <1>3 DEF CheckStopping, ProducerLabels
<1>4. CASE Push(p)
  BY <1>4 DEF Push, ProducerLabels
<1>5. CASE Count(p)
  BY <1>5 DEF Count, Return, ProducerLabels
<1> QED
  BY <1>1, <1>2, <1>3, <1>4, <1>5 DEF Submit

LEMMA RunGoes ==
  ASSUME Run
  PROVE  UNCHANGED pc \/ \E label \in WriterLabels : Goto(Writer, label)
<1>1. CASE RunPop
  BY <1>1 DEF RunPop, WriterLabels
<1>2. CASE RunAppend
  BY <1>2 DEF RunAppend, WriterLabels
<1>3. CASE RunCount
  BY <1>3 DEF RunCount, WriterLabels
<1>4. CASE RunFlush
  BY <1>4 DEF RunFlush, WriterLabels
<1>5. CASE RunCatch
  BY <1>5 DEF RunCatch, CloseQueue, WriterLabels
<1> QED
  BY <1>1, <1>2, <1>3, <1>4, <1>5 DEF Run

LEMMA StopGoes ==
  ASSUME CallStop \/ CallDestructor \/ Stop
  PROVE  \E label \in OwnerLabels : Goto(Owner, label)
<1>1. CASE CallStop \/ CallDestructor
  BY <1>1 DEF CallStop, CallDestructor, StopExchange, OwnerLabels
<1>2. CASE StopClose
  BY <1>2 DEF StopClose, CloseQueue, OwnerLabels
<1>3. CASE StopJoin
  BY <1>3 DEF StopJoin, OwnerLabels
<1>4. CASE StopRethrow
  BY <1>4 DEF StopRethrow, OwnerLabels
<1>5. CASE DestroyWriter
  BY <1>5 DEF DestroyWriter, OwnerLabels
<1> QED
  BY <1>1, <1>2, <1>3, <1>4, <1>5 DEF Stop

LEMMA LabelsStep == LabelsOk /\ [Next]_vars => LabelsOk'
<1> SUFFICES ASSUME LabelsOk, [Next]_vars PROVE LabelsOk'
  OBVIOUS
<1>1. ASSUME UNCHANGED pc PROVE LabelsOk'
  BY <1>1 DEF LabelsOk
<1>2. ASSUME NEW p \in Producers, CallSubmit(p) \/ Submit(p) PROVE LabelsOk'
  BY <1>1, <1>2, SubmitGoes, ProducerGoes
<1>3. CASE Run
  BY <1>1, <1>3, RunGoes, WriterGoes
<1>4. CASE CallStop \/ CallDestructor \/ Stop
  BY <1>4, StopGoes, OwnerGoes
<1>5. ASSUME NEW t \in Threads, Spurious(t) PROVE LabelsOk'
  BY <1>1, <1>5 DEF Spurious, recorderVars
<1>6. CASE UNCHANGED vars
  BY <1>1, <1>6 DEF vars, recorderVars
<1> QED
  BY <1>2, <1>3, <1>4, <1>5, <1>6, ThreadsDiffer DEF Next, Terminated

-----------------------------------------------------------------------------
(* The queue and the writer keep their types *)

LEMMA QueueTypeStep ==
  ASSUME Typed, [Next]_vars
  PROVE  /\ queue' \in Seq(Events) /\ Len(queue') <= Capacity
         /\ closed' \in BOOLEAN
         /\ accepted' \in Seq(Events)
<1> DEFINE Goal == /\ queue' \in Seq(Events) /\ Len(queue') <= Capacity
                   /\ closed' \in BOOLEAN
                   /\ accepted' \in Seq(Events)
<1>1. /\ queue \in Seq(Events) /\ Len(queue) <= Capacity
      /\ closed \in BOOLEAN
      /\ accepted \in Seq(Events)
  BY DEF Typed, TypeOK
<1>2. ASSUME UNCHANGED <<queue, closed, accepted>> PROVE Goal
  BY <1>1, <1>2
<1>3. ASSUME NEW p \in Producers, Push(p) PROVE Goal
  <2>1. CASE PushWait(p) /\ UNCHANGED accepted
    BY <1>2, <2>1 DEF PushWait
  <2>2. CASE PushAccept(p, Offer(p)) /\ accepted' = Append(accepted, Offer(p))
    <3>1. Offer(p) \in Events
      BY <1>3, OfferType DEF Push
    <3>2. queue' = Append(queue, Offer(p)) /\ Len(queue) < Capacity
          /\ closed' = closed
      BY <2>2 DEF PushAccept
    <3>3. queue' \in Seq(Events) /\ Len(queue') = Len(queue) + 1
      BY <1>1, <3>1, <3>2, AppendProperties
    <3>4. Len(queue') <= Capacity
      BY <1>1, <3>2, <3>3, CapacityPositive, LenProperties
    <3>5. accepted' \in Seq(Events)
      BY <1>1, <2>2, <3>1, AppendProperties
    <3> QED
      BY <1>1, <3>2, <3>3, <3>4, <3>5
  <2>3. CASE PushClosed(p) /\ UNCHANGED accepted
    BY <1>2, <2>3 DEF PushClosed, queueVars
  <2> QED
    BY <1>3, <2>1, <2>2, <2>3 DEF Push
<1>4. CASE RunPop
  <2>1. accepted' = accepted
    BY <1>4 DEF RunPop
  <2>2. CASE PopWait(Writer)
    BY <1>2, <2>1, <2>2 DEF PopWait
  <2>3. CASE PopTake(Writer)
    <3>1. queue # <<>> /\ queue' = Tail(queue) /\ closed' = closed
      BY <2>3 DEF PopTake
    <3>2. queue' \in Seq(Events) /\ Len(queue') = Len(queue) - 1
      BY <1>1, <3>1, HeadTailProperties
    <3>3. Len(queue') <= Capacity
      BY <1>1, <3>2, CapacityPositive, LenProperties
    <3> QED
      BY <1>1, <2>1, <3>1, <3>2, <3>3
  <2>4. CASE PopEnd(Writer)
    BY <1>2, <2>1, <2>4 DEF PopEnd, queueVars
  <2> QED
    BY <1>4, <2>2, <2>3, <2>4 DEF RunPop
<1>5. CASE RunCatch \/ StopClose
  <2>1. queue' = queue /\ accepted' = accepted /\ closed' \in {closed, TRUE}
    BY <1>5 DEF RunCatch, StopClose, CloseQueue, MarkClosed, NotifyAllNotEmpty,
                NotifyAllNotFull, queueVars
  <2> QED
    BY <1>1, <2>1
<1> QED
  BY <1>2, <1>3, <1>4, <1>5, QueueFrame

\* The first n units of a sequence.
LEMMA PrefixType ==
  ASSUME NEW s \in Seq(Units), NEW n \in 0 .. Len(s)
  PROVE  SubSeq(s, 1, n) \in Seq(Units)
<1>1. \A i \in 1 .. n : s[i] \in Units
  BY ElementOfSeq
<1> QED
  BY <1>1, SubSeqProperties

\* buffer_, the put area and the file hold units; the stream has a state.
StreamTyped ==
  /\ buffer \in Seq(Units) /\ pending \in Seq(Units) /\ file \in Seq(Units)
  /\ streamOk \in BOOLEAN

LEMMA StreamWriteType ==
  ASSUME StreamTyped, NEW data \in Seq(Units), StreamWrite(data)
  PROVE  pending' \in Seq(Units) /\ file' \in Seq(Units) /\ streamOk'
<1>1. CASE pending' = pending \o data /\ UNCHANGED file
  BY <1>1, ConcatProperties DEF StreamTyped, StreamWrite
<1>2. CASE file' = file \o pending \o data /\ pending' = <<>>
  <2>1. file \o pending \in Seq(Units)
    BY ConcatProperties DEF StreamTyped
  <2> QED
    BY <1>2, <2>1, ConcatProperties, HeaderType DEF StreamWrite
<1> QED
  BY <1>1, <1>2 DEF StreamWrite

LEMMA StreamFailType ==
  ASSUME StreamTyped, NEW data \in Seq(Units), StreamFail(data)
  PROVE  pending' \in Seq(Units) /\ file' \in Seq(Units) /\ ~streamOk'
<1>1. CASE UNCHANGED <<file, streamOk>>
  BY <1>1 DEF StreamTyped, StreamFail
<1>2. CASE ~UNCHANGED <<file, streamOk>>
  <2>1. PICK n \in 0 .. Len(pending \o data) :
               file' = file \o SubSeq(pending \o data, 1, n)
    BY <1>2 DEF StreamFail
  <2>2. pending \o data \in Seq(Units)
    BY ConcatProperties DEF StreamTyped
  <2>3. SubSeq(pending \o data, 1, n) \in Seq(Units)
    BY <2>2, PrefixType
  <2>4. file' \in Seq(Units)
    BY <2>1, <2>3, ConcatProperties DEF StreamTyped
  <2> QED
    BY <1>2, <2>4 DEF StreamTyped, StreamFail
<1> QED
  BY <1>1, <1>2

LEMMA AppendType ==
  ASSUME StreamTyped, NEW e \in Events,
         \/ AppendBuffered(e) \/ AppendWritten(e)
         \/ AppendIoError(e) \/ AppendFormatError(e)
  PROVE  StreamTyped'
<1>1. Encoding[e] = <<e>> /\ <<e>> \in Seq(Units)
  BY RecordType
<1>2. buffer \o Encoding[e] \in Seq(Units)
  BY <1>1, ConcatProperties DEF StreamTyped
<1>3. CASE AppendBuffered(e)
  BY <1>2, <1>3 DEF AppendBuffered, StreamTyped
<1>4. CASE AppendWritten(e)
  <2>1. StreamWrite(buffer \o Encoding[e]) /\ buffer' = <<>>
    BY <1>4 DEF AppendWritten
  <2>2. pending' \in Seq(Units) /\ file' \in Seq(Units) /\ streamOk'
    BY <1>2, <2>1, StreamWriteType
  <2>3. streamOk' \in BOOLEAN
    BY <2>1 DEF StreamWrite, StreamTyped
  <2> QED
    BY <2>1, <2>2, <2>3, HeaderType DEF StreamTyped
<1>5. CASE AppendIoError(e)
  <2>1. StreamFail(buffer \o Encoding[e]) /\ buffer' = buffer \o Encoding[e]
    BY <1>5 DEF AppendIoError
  <2>2. pending' \in Seq(Units) /\ file' \in Seq(Units)
    BY <1>2, <2>1, StreamFailType
  <2>3. streamOk' \in BOOLEAN
    BY <2>1 DEF StreamFail, StreamTyped
  <2> QED
    BY <1>2, <2>1, <2>2, <2>3 DEF StreamTyped
<1>6. CASE AppendFormatError(e)
  BY <1>6 DEF AppendFormatError, writerVars, StreamTyped
<1> QED
  BY <1>3, <1>4, <1>5, <1>6

LEMMA FlushType ==
  ASSUME StreamTyped, FlushOk \/ FlushIoError
  PROVE  StreamTyped'
<1> USE DEF StreamTyped
<1>1. file \o pending \in Seq(Units) /\ pending \o buffer \in Seq(Units)
  BY ConcatProperties
<1>2. CASE FlushOk
  <2>1. file' = file \o pending \o buffer /\ pending' = <<>> /\ buffer' = <<>>
        /\ streamOk' = streamOk
    BY <1>2 DEF FlushOk
  <2>2. file' \in Seq(Units)
    BY <1>1, <2>1, ConcatProperties
  <2> QED
    BY <2>1, <2>2, HeaderType
<1>3. CASE StreamFail(buffer) /\ UNCHANGED buffer
  <2>1. pending' \in Seq(Units) /\ file' \in Seq(Units)
    BY <1>3, StreamFailType
  <2>2. streamOk' \in BOOLEAN
    BY <1>3 DEF StreamFail
  <2> QED
    BY <1>3, <2>1, <2>2
<1>4. CASE /\ pending' = pending \o buffer /\ buffer' = <<>> /\ streamOk' = FALSE
           /\ \E n \in 0 .. Len(pending') :
                /\ n < Len(pending')
                /\ file' = file \o SubSeq(pending', 1, n)
  <2>1. PICK n \in 0 .. Len(pending') : file' = file \o SubSeq(pending', 1, n)
    BY <1>4
  <2>2. pending' \in Seq(Units)
    BY <1>1, <1>4
  <2>3. SubSeq(pending', 1, n) \in Seq(Units)
    BY <2>2, PrefixType
  <2>4. file' \in Seq(Units)
    BY <2>1, <2>3, ConcatProperties
  <2> QED
    BY <1>4, <2>2, <2>4, HeaderType
<1>5. CASE UNCHANGED <<buffer, pending, file, streamOk>>
  BY <1>5
<1> QED
  BY <1>2, <1>3, <1>4, <1>5 DEF FlushIoError

LEMMA DestroyType ==
  ASSUME StreamTyped, DestroyOk \/ DestroyIoError
  PROVE  StreamTyped'
<1> USE DEF StreamTyped
<1>1. file \o pending \in Seq(Units) /\ pending \o buffer \in Seq(Units)
  BY ConcatProperties
<1>2. CASE CloseOk
  <2>1. file' = file \o pending \o buffer /\ pending' = <<>> /\ buffer' = <<>>
        /\ streamOk' = streamOk
    BY <1>2 DEF CloseOk
  <2>2. file' \in Seq(Units)
    BY <1>1, <2>1, ConcatProperties
  <2> QED
    BY <2>1, <2>2, HeaderType
<1>3. CASE CloseAgain
  BY <1>3 DEF CloseAgain, writerVars
<1>4. CASE DestroyIoError
  <2> DEFINE area == IF streamOk THEN pending \o buffer ELSE pending
  <2>1. area \in Seq(Units)
    BY <1>1
  <2>2. PICK first \in 0 .. Len(area), again \in 0 .. Len(area) :
               file' = file \o SubSeq(area, 1, first) \o SubSeq(area, 1, again)
    BY <1>4 DEF DestroyIoError
  <2> HIDE DEF area
  <2>3. SubSeq(area, 1, first) \in Seq(Units) /\ SubSeq(area, 1, again) \in Seq(Units)
    BY <2>1, PrefixType
  <2>4. file \o SubSeq(area, 1, first) \in Seq(Units)
    BY <2>3, ConcatProperties
  <2>5. file' \in Seq(Units)
    BY <2>2, <2>3, <2>4, ConcatProperties
  <2>6. pending' = <<>> /\ streamOk' = FALSE /\ buffer' = buffer
    BY <1>4 DEF DestroyIoError
  <2> QED
    BY <2>5, <2>6, HeaderType
<1> QED
  BY <1>2, <1>3, <1>4 DEF DestroyOk

LEMMA StreamTypeStep ==
  ASSUME Typed, [Next]_vars
  PROVE  StreamTyped'
<1>1. StreamTyped
  BY DEF Typed, TypeOK, StreamTyped
<1>2. CASE UNCHANGED writerVars
  BY <1>1, <1>2 DEF writerVars, StreamTyped
<1>3. CASE RunAppend
  <2>1. event \in Events
    BY <1>3 DEF RunAppend, Typed
  <2> QED
    BY <1>1, <1>3, <2>1, AppendType DEF RunAppend
<1>4. CASE RunFlush
  BY <1>1, <1>4, FlushType DEF RunFlush
<1>5. CASE DestroyWriter
  BY <1>1, <1>5, DestroyType DEF DestroyWriter
<1> QED
  BY <1>2, <1>3, <1>4, <1>5, WriterFrame

\* The statistics count; closed_ is a flag.
LEMMA StatsTypeStep ==
  ASSUME Typed, [Next]_vars
  PROVE  /\ logClosed' \in BOOLEAN
         /\ eventsWritten' \in Nat /\ bytesWritten' \in Nat
<1>1. /\ logClosed \in BOOLEAN
      /\ eventsWritten \in Nat /\ bytesWritten \in Nat
  BY DEF Typed, TypeOK
<1>2. CASE UNCHANGED <<logClosed, eventsWritten, bytesWritten>>
  BY <1>1, <1>2
<1>3. CASE RunAppend
  <2>1. logClosed' = logClosed
    BY <1>3 DEF RunAppend, AppendBuffered, AppendWritten, AppendIoError,
                AppendFormatError, writerVars
  <2>2. UNCHANGED writerVars \/ CountRecord(event)
    BY <1>3 DEF RunAppend, AppendBuffered, AppendWritten, AppendIoError,
                AppendFormatError
  <2>3. Encoding[event] = <<event>>
    BY <1>3, RecordType DEF RunAppend, Typed
  <2>4. Len(Encoding[event]) = 1
    BY <2>3
  <2> QED
    BY <1>1, <2>1, <2>2, <2>4 DEF CountRecord, writerVars, writerStats
<1>4. CASE RunFlush
  BY <1>2, <1>4 DEF RunFlush, FlushOk, FlushIoError, writerStats
<1>5. CASE DestroyWriter
  BY <1>1, <1>5 DEF DestroyWriter, DestroyOk, DestroyIoError, CloseOk,
                    CloseAgain, writerVars, writerStats
<1> QED
  BY <1>2, <1>3, <1>4, <1>5, WriterFrame DEF writerVars, writerStats

-----------------------------------------------------------------------------
(* The calls, the counters and the parked threads keep their types *)

LEMMA CountersTypeStep ==
  ASSUME Typed, [Next]_vars
  PROVE  /\ stopping' \in BOOLEAN /\ destroying' \in BOOLEAN
         /\ submitted' \in Nat /\ rejected' \in Nat /\ written' \in Nat
         /\ writerError' \in {"none", "io", "format"}
         /\ raised' \in {"none", "io", "format"}
<1>1. /\ stopping \in BOOLEAN /\ destroying \in BOOLEAN
      /\ submitted \in Nat /\ rejected \in Nat /\ written \in Nat
      /\ writerError \in {"none", "io", "format"}
      /\ raised \in {"none", "io", "format"}
  BY DEF Typed, TypeOK
<1>2. UNCHANGED <<stopping, destroying>> \/ CallStop \/ CallDestructor
  BY DEF Next, vars, recorderVars, CallSubmit, Submit, CheckError,
         CheckStopping, Push, Count, Spurious, Run, RunPop, RunAppend, RunCount,
         RunFlush, RunCatch, Stop, StopClose, StopJoin, StopRethrow,
         DestroyWriter, Terminated
<1>3. stopping' \in BOOLEAN /\ destroying' \in BOOLEAN
  BY <1>1, <1>2 DEF CallStop, CallDestructor, StopExchange
<1>4. \/ UNCHANGED <<submitted, rejected, written>>
      \/ (\E p \in Producers : Count(p)) \/ RunCount
  BY DEF Next, vars, recorderVars, CallSubmit, Submit, CheckError,
         CheckStopping, Push, Spurious, Run, RunPop, RunAppend,
         RunFlush, RunCatch, CallStop, CallDestructor, Stop, StopClose,
         StopJoin, StopRethrow, DestroyWriter, Terminated
<1>5. submitted' \in Nat /\ rejected' \in Nat /\ written' \in Nat
  BY <1>1, <1>4 DEF Count, RunCount
<1>6. UNCHANGED <<writerError, raised>> \/ RunAppend \/ RunFlush \/ RunCatch
  BY DEF Next, vars, recorderVars, CallSubmit, Submit, CheckError,
         CheckStopping, Push, Count, Spurious, Run, RunPop, RunCount,
         CallStop, CallDestructor, Stop, StopClose, StopJoin, StopRethrow,
         DestroyWriter, Terminated
<1>7. writerError' \in {"none", "io", "format"} /\ raised' \in {"none", "io", "format"}
  BY <1>1, <1>6 DEF RunAppend, RunFlush, RunCatch
<1> QED
  BY <1>3, <1>5, <1>7

LEMMA StopResultsTypeStep ==
  ASSUME Typed, [Next]_vars
  PROVE  stopResults' \in Seq({"ok", "threw"})
<1>1. stopResults \in Seq({"ok", "threw"})
  BY DEF Typed, TypeOK
<1>2. UNCHANGED stopResults \/ StopRethrow
  BY DEF Next, vars, recorderVars, CallSubmit, Submit, CheckError,
         CheckStopping, Push, Count, Spurious, Run, RunPop, RunAppend, RunCount,
         RunFlush, RunCatch, CallStop, CallDestructor, Stop, StopClose,
         StopJoin, DestroyWriter, Terminated
<1>3. \/ UNCHANGED stopResults
      \/ \E r \in {"ok", "threw"} : stopResults' = Append(stopResults, r)
  BY <1>2 DEF StopRethrow
<1> QED
  BY <1>1, <1>3, AppendProperties

\* The event in the writer's hands is one that came out of the queue.
LEMMA EventTypeStep ==
  ASSUME Typed, [Next]_vars
  PROVE  /\ event' \in Events \cup {NoEvent}
         /\ pc'[Writer] = "append" => event' \in Events
<1>1. /\ event \in Events \cup {NoEvent}
      /\ queue \in Seq(Events)
      /\ LabelsOk
      /\ pc[Writer] = "append" => event \in Events
  BY DEF Typed, TypeOK
<1>2. CASE RunPop
  <2>1. CASE PopTake(Writer) /\ event' = Head(queue)
    BY <1>1, <2>1, HeadTailProperties DEF PopTake
  <2>2. CASE PopWait(Writer) /\ UNCHANGED <<pc, event>>
    BY <1>1, <2>2
  <2>3. CASE PopEnd(Writer) /\ Goto(Writer, "flush") /\ UNCHANGED event
    <3>1. pc'[Writer] = "flush"
      BY <1>1, <2>3, WriterGoes DEF WriterLabels
    <3> QED
      BY <1>1, <2>3, <3>1
  <2> QED
    BY <1>2, <2>1, <2>2, <2>3 DEF RunPop
<1>3. CASE UNCHANGED event /\ pc'[Writer] = pc[Writer]
  BY <1>1, <1>3
<1>4. CASE UNCHANGED event /\ \E label \in WriterLabels \ {"append"} : Goto(Writer, label)
  BY <1>1, <1>4, WriterGoes
<1>5. ASSUME NEW p \in Producers, CallSubmit(p) \/ Submit(p)
      PROVE  UNCHANGED event /\ pc'[Writer] = pc[Writer]
  <2>1. pc'[Writer] = pc[Writer]
    BY <1>1, <1>5, SubmitGoes, ProducerGoes
  <2> QED
    BY <1>5, <2>1 DEF CallSubmit, Submit, CheckError, CheckStopping, Push, Count
<1>6. ASSUME RunAppend \/ RunCount \/ RunFlush \/ RunCatch
      PROVE  UNCHANGED event /\ \E label \in WriterLabels \ {"append"} : Goto(Writer, label)
  BY <1>6 DEF RunAppend, RunCount, RunFlush, RunCatch, CloseQueue, WriterLabels
<1>7. ASSUME CallStop \/ CallDestructor \/ Stop
      PROVE  UNCHANGED event /\ pc'[Writer] = pc[Writer]
  <2>1. pc'[Writer] = pc[Writer]
    BY <1>1, <1>7, StopGoes, OwnerGoes
  <2> QED
    BY <1>7, <2>1 DEF CallStop, CallDestructor, Stop, StopClose, StopJoin,
                      StopRethrow, DestroyWriter
<1>8. ASSUME NEW t \in Threads, Spurious(t)
      PROVE  UNCHANGED event /\ pc'[Writer] = pc[Writer]
  BY <1>8 DEF Spurious, recorderVars
<1>9. CASE UNCHANGED vars
  BY <1>3, <1>9 DEF vars, recorderVars
<1> QED
  BY <1>2, <1>3, <1>4, <1>5, <1>6, <1>7, <1>8, <1>9, ThreadsDiffer
  DEF Next, Terminated, Run

\* A producer inside submit has an event left; a call adds one result.
LEMMA ResultsTypeStep ==
  ASSUME Typed, [Next]_vars
  PROVE  /\ results' \in [Producers -> Seq({"true", "false", "threw"})]
         /\ \A p \in Producers :
              pc'[p] # "idle" => Len(results'[p]) < Len(Plan[p])
<1> DEFINE Left == \A p \in Producers :
                     pc'[p] # "idle" => Len(results'[p]) < Len(Plan[p])
<1>1. /\ results \in [Producers -> Seq({"true", "false", "threw"})]
      /\ LabelsOk
      /\ \A p \in Producers : pc[p] # "idle" => Len(results[p]) < Len(Plan[p])
  BY DEF Typed, TypeOK
<1>2. ASSUME UNCHANGED results, \A p \in Producers : pc'[p] = pc[p]
      PROVE  Left
  BY <1>1, <1>2
<1>3. ASSUME NEW p \in Producers, CallSubmit(p) \/ Submit(p), UNCHANGED results
      PROVE  Left
  <2>1. \A q \in Producers : q # p => pc'[q] = pc[q]
    BY <1>1, <1>3, SubmitGoes, ProducerGoes, ThreadsDiffer
  <2>2. Len(results[p]) < Len(Plan[p])
    BY <1>1, <1>3 DEF CallSubmit, Submit, CheckError, CheckStopping, Push, Count
  <2> QED
    BY <1>1, <1>3, <2>1, <2>2
<1>4. ASSUME NEW p \in Producers, NEW r \in {"true", "false", "threw"}, Return(p, r)
      PROVE  /\ results' \in [Producers -> Seq({"true", "false", "threw"})]
             /\ Left
  <2>1. Append(results[p], r) \in Seq({"true", "false", "threw"})
    BY <1>1, AppendProperties
  <2>2. results' = [results EXCEPT ![p] = Append(results[p], r)]
    BY <1>4 DEF Return
  <2>3. results' \in [Producers -> Seq({"true", "false", "threw"})]
    BY <1>1, <2>1, <2>2
  <2>4. pc'[p] = "idle" /\ \A q \in Producers : q # p => pc'[q] = pc[q]
    BY <1>1, <1>4, ProducerGoes, ThreadsDiffer DEF Return, ProducerLabels
  <2>5. \A q \in Producers : q # p => results'[q] = results[q]
    BY <1>1, <2>2
  <2> QED
    BY <1>1, <2>3, <2>4, <2>5
<1>5. CASE \E p \in Producers : CheckError(p) \/ Count(p)
  <2>1. PICK p \in Producers : CheckError(p) \/ Count(p)
    BY <1>5
  <2>2. \/ UNCHANGED results
        \/ \E r \in {"true", "false", "threw"} : Return(p, r)
    BY <2>1 DEF CheckError, Count
  <2> QED
    BY <1>1, <1>3, <1>4, <2>1, <2>2 DEF Submit
<1>6. CASE UNCHANGED results
  <2>1. ASSUME Run PROVE Left
    BY <1>1, <1>2, <1>6, <2>1, RunGoes, WriterGoes
  <2>2. ASSUME CallStop \/ CallDestructor \/ Stop PROVE Left
    BY <1>1, <1>2, <1>6, <2>2, StopGoes, OwnerGoes
  <2>3. ASSUME NEW t \in Threads, Spurious(t) PROVE Left
    BY <1>2, <1>6, <2>3 DEF Spurious, recorderVars
  <2>4. ASSUME UNCHANGED vars PROVE Left
    BY <1>2, <1>6, <2>4 DEF vars, recorderVars
  <2>5. Left
    BY <1>3, <1>6, <2>1, <2>2, <2>3, <2>4, ThreadsDiffer DEF Next, Terminated
  <2> QED
    BY <1>1, <1>6, <2>5
<1> QED
  BY <1>5, <1>6, ResultsFrame

\* A parked thread is inside the call it parked in.
WaitersOk ==
  /\ notEmptyWaiters \subseteq {t \in {Writer} : pc[t] = "pop"}
  /\ notFullWaiters \subseteq {p \in Producers : pc[p] = "push"}

LEMMA WaitersTypeStep ==
  ASSUME Typed, [Next]_vars
  PROVE  WaitersOk'
<1>1. WaitersOk /\ LabelsOk
  BY DEF Typed, TypeOK, WaitersOk
<1>2. ASSUME notEmptyWaiters' \subseteq notEmptyWaiters,
             notFullWaiters' \subseteq notFullWaiters,
             pc'[Writer] = pc[Writer] \/ Writer \notin notEmptyWaiters',
             \A p \in Producers : pc'[p] = pc[p] \/ p \notin notFullWaiters'
      PROVE  WaitersOk'
  BY <1>1, <1>2 DEF WaitersOk
<1>3. ASSUME NEW p \in Producers, CallSubmit(p) \/ Submit(p) PROVE WaitersOk'
  <2>1. \/ UNCHANGED pc
        \/ pc'[Writer] = pc[Writer] /\ \A q \in Producers : q # p => pc'[q] = pc[q]
    BY <1>1, <1>3, SubmitGoes, ProducerGoes, ThreadsDiffer
  <2>2. CASE CallSubmit(p) \/ CheckError(p) \/ CheckStopping(p) \/ Count(p)
    <3>1. UNCHANGED queueVars /\ pc[p] # "push"
      BY <2>2 DEF CallSubmit, CheckError, CheckStopping, Count
    <3> QED
      BY <1>1, <1>2, <2>1, <3>1 DEF queueVars, WaitersOk
  <2>3. CASE Push(p)
    <3>1. CASE PushWait(p) /\ UNCHANGED pc
      BY <1>1, <2>3, <3>1 DEF Push, PushWait, WaitersOk
    <3>2. CASE PushAccept(p, Offer(p))
      BY <1>2, <2>1, <3>2, NotifyOneSubset DEF PushAccept
    <3>3. CASE PushClosed(p)
      BY <1>2, <2>1, <3>3 DEF PushClosed, queueVars
    <3> QED
      BY <2>3, <3>1, <3>2, <3>3 DEF Push
  <2> QED
    BY <1>3, <2>2, <2>3 DEF Submit
<1>4. ASSUME Run PROVE WaitersOk'
  <2>1. UNCHANGED pc \/ \A q \in Producers : pc'[q] = pc[q]
    BY <1>1, <1>4, RunGoes, WriterGoes
  <2>2. CASE RunPop
    <3>1. CASE PopWait(Writer) /\ UNCHANGED pc
      BY <1>1, <2>2, <3>1 DEF RunPop, PopWait, WaitersOk
    <3>2. CASE PopTake(Writer)
      BY <1>2, <2>1, <3>2, NotifyOneSubset DEF PopTake
    <3>3. CASE PopEnd(Writer)
      BY <1>2, <2>1, <3>3 DEF PopEnd, queueVars
    <3> QED
      BY <2>2, <3>1, <3>2, <3>3 DEF RunPop
  <2>3. CASE RunAppend \/ RunCount \/ RunFlush \/ RunCatch
    <3>1. pc[Writer] # "pop"
      BY <2>3 DEF RunAppend, RunCount, RunFlush, RunCatch, CloseQueue
    <3>2. notEmptyWaiters' \subseteq notEmptyWaiters
          /\ notFullWaiters' \subseteq notFullWaiters
      BY <2>3 DEF RunAppend, RunCount, RunFlush, RunCatch, CloseQueue, MarkClosed,
                  NotifyAllNotEmpty, NotifyAllNotFull, NotifyAll, queueVars
    <3> QED
      BY <1>1, <1>2, <2>1, <3>1, <3>2 DEF WaitersOk
  <2> QED
    BY <1>4, <2>2, <2>3 DEF Run
<1>5. ASSUME CallStop \/ CallDestructor \/ Stop PROVE WaitersOk'
  <2>1. pc'[Writer] = pc[Writer] /\ \A q \in Producers : pc'[q] = pc[q]
    BY <1>1, <1>5, StopGoes, OwnerGoes
  <2>2. notEmptyWaiters' \subseteq notEmptyWaiters
        /\ notFullWaiters' \subseteq notFullWaiters
    BY <1>5 DEF CallStop, CallDestructor, Stop, StopClose, StopJoin, StopRethrow,
                DestroyWriter, CloseQueue, MarkClosed, NotifyAllNotEmpty,
                NotifyAllNotFull, NotifyAll, queueVars
  <2> QED
    BY <1>2, <2>1, <2>2
<1>6. ASSUME NEW t \in Threads, Spurious(t) PROVE WaitersOk'
  BY <1>2, <1>6 DEF Spurious, SpuriousWake, recorderVars
<1>7. CASE UNCHANGED vars
  BY <1>2, <1>7 DEF vars, recorderVars, queueVars
<1> QED
  BY <1>3, <1>4, <1>5, <1>6, <1>7, ThreadsDiffer DEF Next, Terminated

LEMMA TypedStep == Typed /\ [Next]_vars => Typed'
<1> SUFFICES ASSUME Typed, [Next]_vars PROVE Typed'
  OBVIOUS
<1>1. LabelsOk'
  BY LabelsStep DEF Typed
<1>2. TypeOK'
  BY <1>1, QueueTypeStep, WaitersTypeStep, StreamTypeStep, StatsTypeStep,
     CountersTypeStep, ResultsTypeStep, EventTypeStep, StopResultsTypeStep
  DEF TypeOK, LabelsOk, WaitersOk, StreamTyped
<1> QED
  BY <1>1, <1>2, ResultsTypeStep, EventTypeStep DEF Typed

\* The queue never holds more than its capacity, a parked thread is inside the
\* call it parked in, and every variable keeps its type.
THEOREM TypeCorrect == Spec => []TypeOK
<1>1. Typed => TypeOK
  BY DEF Typed
<1> QED
  BY <1>1, TypedInit, TypedStep, PTL DEF Spec

-----------------------------------------------------------------------------
(* The writer thread and its errors *)

\* What the label of the writer thread says about the exception it met: none
\* while the loop runs, stored after set_writer_error(), and the writer is
\* destroyed, and stop() answered, only when the thread is over.
Phase ==
  /\ pc[Writer] \in {"pop", "append", "count", "flush"} =>
       raised = "none" /\ writerError = "none"
  /\ pc[Writer] = "setError" => raised # "none" /\ writerError = "none"
  /\ pc[Writer] \in {"markClosed", "notifyEmpty", "notifyFull", "done"} =>
       writerError = raised
  /\ pc[Writer] \in {"markClosed", "notifyEmpty", "notifyFull"} => raised # "none"
  /\ pc[Owner] \in {"rethrow", "destroyWriter", "destroyed"} => pc[Writer] = "done"
  /\ stopResults # <<>> => pc[Writer] = "done"
  /\ \A i \in DOMAIN stopResults :
       stopResults[i] = IF writerError = "none" THEN "ok" ELSE "threw"

\* What the writer thread leaves behind when the loop ends: nothing in the
\* queue, and after flush() nothing in buffer_ and in the stream.
Drained ==
  /\ pc[Writer] = "flush" => closed /\ queue = <<>>
  /\ pc[Writer] = "done" /\ raised = "none" =>
       /\ closed /\ queue = <<>>
       /\ buffer = <<>> /\ pending = <<>> /\ streamOk

\* Who closes the queue has a reason to.
Reasons ==
  /\ closed => stopping \/ writerError # "none"
  /\ pc[Owner] # "idle" => stopping
  /\ \A p \in Producers :
       pc[p] = "countRejected" \/ "false" \in Range(results[p])
         => stopping \/ writerError # "none"

\* What the steps of the callers and the steps of the owner leave alone.
LEMMA CallersLeave ==
  ASSUME Typed, \/ \E p \in Producers : CallSubmit(p) \/ Submit(p)
                \/ \E t \in Threads : Spurious(t)
                \/ UNCHANGED vars
  PROVE  /\ pc'[Writer] = pc[Writer] /\ pc'[Owner] = pc[Owner]
         /\ UNCHANGED <<raised, writerError, stopResults, stopping, writerVars>>
<1>1. ASSUME NEW p \in Producers, CallSubmit(p) \/ Submit(p)
      PROVE  /\ pc'[Writer] = pc[Writer] /\ pc'[Owner] = pc[Owner]
             /\ UNCHANGED <<raised, writerError, stopResults, stopping, writerVars>>
  <2>1. pc'[Writer] = pc[Writer] /\ pc'[Owner] = pc[Owner]
    BY <1>1, SubmitGoes, ProducerGoes DEF Typed
  <2> QED
    BY <1>1, <2>1 DEF CallSubmit, Submit, CheckError, CheckStopping, Push, Count
<1>2. ASSUME NEW t \in Threads, Spurious(t) PROVE UNCHANGED <<writerVars, recorderVars>>
  BY <1>2 DEF Spurious
<1> QED
  BY <1>1, <1>2 DEF recorderVars, vars

LEMMA PhaseInit == Init => Phase
<1> SUFFICES ASSUME Init PROVE Phase
  OBVIOUS
<1>1. pc[Writer] = "pop" /\ pc[Owner] = "idle"
  BY ThreadsDiffer DEF Init
<1>2. raised = "none" /\ writerError = "none" /\ stopResults = <<>>
  BY DEF Init
<1>3. DOMAIN stopResults = {}
  BY <1>2
<1> QED
  BY <1>1, <1>2, <1>3 DEF Phase

LEMMA PhaseStep == Typed /\ Phase /\ [Next]_vars => Phase'
<1> SUFFICES ASSUME Typed, Phase, [Next]_vars PROVE Phase'
  OBVIOUS
<1>1. LabelsOk /\ stopResults \in Seq({"ok", "threw"})
      /\ raised \in {"none", "io", "format"}
  BY DEF Typed, TypeOK
<1>2. CASE \/ \E p \in Producers : CallSubmit(p) \/ Submit(p)
           \/ \E t \in Threads : Spurious(t)
           \/ UNCHANGED vars
  BY <1>2, CallersLeave DEF Phase
<1>3. CASE Run
  <2>1. pc[Writer] # "done"
    BY <1>3 DEF Run, RunPop, RunAppend, RunCount, RunFlush, RunCatch, CloseQueue
  <2>2. stopResults = <<>> /\ stopResults' = <<>>
    BY <1>3, <2>1 DEF Phase, Run, RunPop, RunAppend, RunCount, RunFlush, RunCatch
  <2>3. DOMAIN stopResults' = {}
    BY <2>2
  <2>4. pc'[Owner] = pc[Owner]
    BY <1>1, <1>3, RunGoes, WriterGoes
  <2>5. pc'[Owner] \notin {"rethrow", "destroyWriter", "destroyed"}
    BY <2>1, <2>4 DEF Phase
  <2>6. CASE RunPop \/ RunCount
    <3>1. pc'[Writer] \in {"pop", "append", "flush"}
          /\ UNCHANGED <<raised, writerError>>
          /\ pc[Writer] \in {"pop", "count"}
      BY <1>1, <2>6, WriterGoes DEF RunPop, RunCount, WriterLabels
    <3> QED
      BY <2>2, <2>3, <2>5, <3>1 DEF Phase
  <2>7. CASE RunAppend \/ RunFlush
    <3>1. /\ pc[Writer] \in {"append", "flush"} /\ writerError' = writerError
          /\ \/ raised' = raised /\ pc'[Writer] \in {"count", "done"}
             \/ raised' \in {"io", "format"} /\ pc'[Writer] = "setError"
      BY <1>1, <2>7, WriterGoes DEF RunAppend, RunFlush, WriterLabels
    <3> QED
      BY <2>2, <2>3, <2>5, <3>1 DEF Phase
  <2>8. CASE RunCatch
    <3>1. /\ raised' = raised
          /\ \/ /\ pc[Writer] = "setError" /\ pc'[Writer] = "markClosed"
                /\ writerError' = IF writerError = "none" THEN raised ELSE writerError
             \/ /\ pc[Writer] \in {"markClosed", "notifyEmpty", "notifyFull"}
                /\ pc'[Writer] \in {"notifyEmpty", "notifyFull", "done"}
                /\ writerError' = writerError
      BY <1>1, <2>8, WriterGoes DEF RunCatch, CloseQueue, WriterLabels
    <3> QED
      BY <2>2, <2>3, <2>5, <3>1 DEF Phase
  <2> QED
    BY <1>3, <2>6, <2>7, <2>8 DEF Run
<1>4. CASE CallStop \/ CallDestructor \/ StopClose \/ StopJoin \/ DestroyWriter
  <2>1. pc'[Writer] = pc[Writer] /\ UNCHANGED <<raised, writerError, stopResults>>
    BY <1>1, <1>4, StopGoes, OwnerGoes
    DEF CallStop, CallDestructor, Stop, StopClose, StopJoin, DestroyWriter
  <2>2. \/ pc'[Owner] \in {"markClosed", "notifyEmpty", "notifyFull", "join"}
        \/ pc[Writer] = "done"
    BY <1>1, <1>4, OwnerGoes
    DEF CallStop, CallDestructor, StopExchange, StopClose, CloseQueue, StopJoin,
        DestroyWriter, OwnerLabels, Phase
  <2> QED
    BY <2>1, <2>2 DEF Phase
<1>5. CASE StopRethrow
  <2>1. pc[Writer] = "done" /\ pc'[Writer] = pc[Writer]
        /\ UNCHANGED <<raised, writerError>>
    BY <1>1, <1>5, StopGoes, OwnerGoes DEF Stop, StopRethrow, Phase
  <2>2. CASE UNCHANGED stopResults
    BY <2>1, <2>2 DEF Phase
  <2>3. CASE stopResults' = Append(stopResults,
                                   IF writerError = "none" THEN "ok" ELSE "threw")
    <3> DEFINE answer == IF writerError = "none" THEN "ok" ELSE "threw"
    <3>1. answer \in {"ok", "threw"} /\ stopResults' = Append(stopResults, answer)
      BY <2>3
    <3>2. \A i \in DOMAIN stopResults : stopResults[i] = answer
      BY DEF Phase
    <3> HIDE DEF answer
    <3>3. \A i \in DOMAIN stopResults' : stopResults'[i] = answer
      BY <1>1, <3>1, <3>2
    <3> QED
      BY <2>1, <3>3 DEF Phase, answer
  <2> QED
    BY <1>5, <2>2, <2>3 DEF StopRethrow
<1> QED
  BY <1>2, <1>3, <1>4, <1>5, ThreadsDiffer DEF Next, Stop, Terminated

-----------------------------------------------------------------------------
(* The drain *)

\* A closed queue takes nothing, and nothing opens it again.
LEMMA ClosedQueue ==
  ASSUME Typed, [Next]_vars, closed, queue = <<>>
  PROVE  closed' /\ queue' = <<>>
<1>1. CASE \E p \in Producers : Push(p)
  BY <1>1 DEF Push, PushWait, PushAccept, PushClosed, queueVars
<1>2. CASE RunPop
  BY <1>2 DEF RunPop, PopWait, PopTake, PopEnd, queueVars
<1>3. CASE RunCatch \/ StopClose
  BY <1>3 DEF RunCatch, StopClose, CloseQueue, MarkClosed, NotifyAllNotEmpty,
              NotifyAllNotFull, queueVars
<1> QED
  BY <1>1, <1>2, <1>3, QueueFrame

\* With nothing left to write, the destructor of the writer cannot fail.
LEMMA EmptyDestroy ==
  ASSUME buffer = <<>>, pending = <<>>, streamOk, file \in Seq(Units),
         DestroyOk \/ DestroyIoError
  PROVE  buffer' = <<>> /\ pending' = <<>> /\ streamOk' /\ file' = file
<1>1. pending \o buffer = <<>> /\ file \o pending \o buffer = file
  BY ConcatEmptySeq, HeaderType
<1>2. ~DestroyIoError
  <2> SUFFICES ASSUME DestroyIoError PROVE FALSE
    OBVIOUS
  <2>1. \E first \in 0 .. Len(pending \o buffer) : first < Len(pending \o buffer)
    BY DEF DestroyIoError
  <2>2. Len(pending \o buffer) = 0
    BY <1>1
  <2> QED
    BY <2>1, <2>2
<1>3. CASE CloseOk
  BY <1>1, <1>3 DEF CloseOk
<1>4. CASE CloseAgain
  BY <1>4 DEF CloseAgain, writerVars
<1> QED
  BY <1>2, <1>3, <1>4 DEF DestroyOk

LEMMA DrainedInit == Init => Drained
<1> SUFFICES ASSUME Init PROVE Drained
  OBVIOUS
<1>1. pc[Writer] = "pop"
  BY ThreadsDiffer DEF Init
<1> QED
  BY <1>1 DEF Drained

LEMMA DrainedStep == Typed /\ Phase /\ Drained /\ [Next]_vars => Drained'
<1> SUFFICES ASSUME Typed, Phase, Drained, [Next]_vars PROVE Drained'
  OBVIOUS
<1>1. LabelsOk /\ file \in Seq(Units) /\ raised \in {"none", "io", "format"}
      /\ streamOk \in BOOLEAN
  BY DEF Typed, TypeOK
\* Steps that leave the writer thread and its writer alone.
<1>2. ASSUME pc'[Writer] = pc[Writer], UNCHANGED <<raised, writerVars>>
      PROVE  Drained'
  BY <1>2, ClosedQueue DEF Drained, writerVars
<1>3. CASE \/ \E p \in Producers : CallSubmit(p) \/ Submit(p)
           \/ \E t \in Threads : Spurious(t)
           \/ UNCHANGED vars
  BY <1>2, <1>3, CallersLeave
<1>4. CASE RunPop
  <2>1. CASE PopWait(Writer) /\ UNCHANGED pc
    BY <1>2, <1>4, <2>1 DEF RunPop
  <2>2. CASE PopTake(Writer) /\ Goto(Writer, "append")
    BY <1>1, <2>2, WriterGoes DEF Drained, WriterLabels
  <2>3. CASE PopEnd(Writer) /\ Goto(Writer, "flush")
    <3>1. pc'[Writer] = "flush"
      BY <1>1, <2>3, WriterGoes DEF WriterLabels
    <3>2. closed' /\ queue' = <<>>
      BY <2>3, ClosedQueue DEF PopEnd
    <3> QED
      BY <3>1, <3>2 DEF Drained
  <2> QED
    BY <1>4, <2>1, <2>2, <2>3 DEF RunPop
<1>5. CASE RunAppend \/ RunCount
  <2>1. pc'[Writer] \in {"pop", "count", "setError"}
    BY <1>1, <1>5, WriterGoes DEF RunAppend, RunCount, WriterLabels
  <2> QED
    BY <2>1 DEF Drained
<1>6. CASE RunFlush
  <2>1. pc[Writer] = "flush"
    BY <1>6 DEF RunFlush
  <2>2. closed' /\ queue' = <<>>
    BY <2>1, ClosedQueue DEF Drained
  <2>3. CASE FlushOk /\ Goto(Writer, "done")
    <3>1. pc'[Writer] = "done"
      BY <1>1, <2>3, WriterGoes DEF WriterLabels
    <3>2. buffer' = <<>> /\ pending' = <<>> /\ streamOk'
      BY <2>3 DEF FlushOk
    <3> QED
      BY <2>2, <3>1, <3>2 DEF Drained
  <2>4. CASE Goto(Writer, "setError")
    BY <1>1, <2>4, WriterGoes DEF Drained, WriterLabels
  <2> QED
    BY <1>6, <2>3, <2>4 DEF RunFlush
<1>7. CASE RunCatch
  <2>1. raised' = raised /\ raised # "none"
    BY <1>7 DEF RunCatch, CloseQueue, Phase
  <2>2. pc'[Writer] # "flush"
    BY <1>1, <1>7, WriterGoes DEF RunCatch, CloseQueue, WriterLabels
  <2> QED
    BY <2>1, <2>2 DEF Drained
<1>8. CASE CallStop \/ CallDestructor \/ StopClose \/ StopJoin \/ StopRethrow
  <2>1. pc'[Writer] = pc[Writer]
    BY <1>1, <1>8, StopGoes, OwnerGoes DEF Stop
  <2>2. UNCHANGED <<raised, writerVars>>
    BY <1>8 DEF CallStop, CallDestructor, StopClose, StopJoin, StopRethrow
  <2> QED
    BY <1>2, <2>1, <2>2
<1>9. CASE DestroyWriter
  <2>1. pc'[Writer] = pc[Writer] /\ raised' = raised
    BY <1>1, <1>9, StopGoes, OwnerGoes DEF Stop, DestroyWriter
  <2>2. pc[Writer] = "done"
    BY <1>9 DEF DestroyWriter, Phase
  <2>3. CASE raised = "none"
    <3>1. buffer' = <<>> /\ pending' = <<>> /\ streamOk'
      BY <1>1, <1>9, <2>2, <2>3, EmptyDestroy DEF Drained, DestroyWriter
    <3>2. closed' /\ queue' = <<>>
      BY <2>2, <2>3, ClosedQueue DEF Drained
    <3> QED
      BY <2>1, <2>2, <3>1, <3>2 DEF Drained
  <2>4. CASE raised # "none"
    BY <2>1, <2>2, <2>4 DEF Drained
  <2> QED
    BY <2>3, <2>4
<1> QED
  BY <1>3, <1>4, <1>5, <1>6, <1>7, <1>8, <1>9, ThreadsDiffer
  DEF Next, Run, Stop, Terminated

-----------------------------------------------------------------------------
(* Refusals *)

LEMMA ReasonsInit == Init => Reasons
<1> SUFFICES ASSUME Init PROVE Reasons
  OBVIOUS
<1>1. pc[Owner] = "idle" /\ \A p \in Producers : pc[p] = "idle"
  BY ThreadsDiffer DEF Init
<1>2. closed = FALSE
  BY DEF Init, QueueInit
<1>3. ASSUME NEW p \in Producers PROVE Range(results[p]) = {}
  BY DEF Init, Range
<1> QED
  BY <1>1, <1>2, <1>3 DEF Reasons

\* Neither reason is ever taken back.
LEMMA ReasonsStay ==
  ASSUME [Next]_vars
  PROVE  (stopping => stopping') /\ (writerError # "none" => writerError' = writerError)
<1>1. UNCHANGED stopping \/ stopping' = TRUE
  BY DEF Next, vars, recorderVars, CallSubmit, Submit, CheckError,
         CheckStopping, Push, Count, Spurious, Run, RunPop, RunAppend, RunCount,
         RunFlush, RunCatch, CallStop, CallDestructor, StopExchange, Stop,
         StopClose, StopJoin, StopRethrow, DestroyWriter, Terminated
<1>2. UNCHANGED writerError \/ (writerError = "none" /\ RunCatch)
  BY DEF Next, vars, recorderVars, CallSubmit, Submit, CheckError,
         CheckStopping, Push, Count, Spurious, Run, RunPop, RunAppend, RunCount,
         RunFlush, RunCatch, CallStop, CallDestructor, StopExchange, Stop,
         StopClose, StopJoin, StopRethrow, DestroyWriter, Terminated
<1> QED
  BY <1>1, <1>2

LEMMA AppendRange ==
  ASSUME NEW S, NEW s \in Seq(S), NEW e \in S
  PROVE  Range(Append(s, e)) = Range(s) \cup {e}
<1>1. /\ Len(Append(s, e)) = Len(s) + 1 /\ Append(s, e) \in Seq(S)
      /\ \A i \in 1 .. Len(s) : Append(s, e)[i] = s[i]
      /\ Append(s, e)[Len(s) + 1] = e
  BY AppendProperties
<1>2. /\ DOMAIN s = 1 .. Len(s) /\ Len(s) \in Nat
      /\ DOMAIN Append(s, e) = 1 .. Len(s) + 1
  BY <1>1, LenProperties
<1> QED
  BY <1>1, <1>2 DEF Range

LEMMA ReasonsStep == Typed /\ Phase /\ Reasons /\ [Next]_vars => Reasons'
<1> SUFFICES ASSUME Typed, Phase, Reasons, [Next]_vars PROVE Reasons'
  OBVIOUS
<1> DEFINE Reason == stopping \/ writerError # "none"
<1>1. LabelsOk /\ results \in [Producers -> Seq({"true", "false", "threw"})]
  BY DEF Typed, TypeOK
<1>2. Reason => Reason'
  BY ReasonsStay
<1>3. closed' => Reason'
  <2>1. CASE UNCHANGED closed
    BY <1>2, <2>1 DEF Reasons
  <2>2. CASE RunCatch /\ MarkClosed
    <3>1. \/ pc[Writer] \in {"markClosed", "notifyEmpty", "notifyFull"}
          \/ UNCHANGED queueVars
      BY <2>2 DEF RunCatch, CloseQueue
    <3> QED
      BY <1>2, <2>1, <3>1 DEF Phase, queueVars
  <2>3. CASE StopClose /\ MarkClosed
    <3>1. pc[Owner] # "idle"
      BY <2>3 DEF StopClose, CloseQueue
    <3> QED
      BY <1>2, <3>1 DEF Reasons
  <2>4. \/ UNCHANGED closed
        \/ RunCatch /\ MarkClosed
        \/ StopClose /\ MarkClosed
    <3>1. ASSUME NEW p \in Producers, Push(p) PROVE UNCHANGED closed
      BY <3>1 DEF Push, PushWait, PushAccept, PushClosed, queueVars
    <3>2. ASSUME RunPop PROVE UNCHANGED closed
      BY <3>2 DEF RunPop, PopWait, PopTake, PopEnd, queueVars
    <3>3. ASSUME RunCatch \/ StopClose PROVE UNCHANGED closed \/ MarkClosed
      BY <3>3 DEF RunCatch, StopClose, CloseQueue, NotifyAllNotEmpty,
                  NotifyAllNotFull, queueVars
    <3> QED
      BY <3>1, <3>2, <3>3, QueueFrame
  <2> QED
    BY <2>1, <2>2, <2>3, <2>4
<1>4. pc'[Owner] # "idle" => stopping'
  <2>1. CASE CallStop \/ CallDestructor
    BY <2>1 DEF CallStop, CallDestructor, StopExchange
  <2>2. CASE Stop
    <3>1. pc[Owner] # "idle"
      BY <2>2 DEF Stop, StopClose, CloseQueue, StopJoin, StopRethrow, DestroyWriter
    <3> QED
      BY <3>1, ReasonsStay DEF Reasons
  <2>3. CASE Run
    BY <1>1, <2>3, RunGoes, WriterGoes, ReasonsStay DEF Reasons
  <2>4. CASE \/ \E p \in Producers : CallSubmit(p) \/ Submit(p)
             \/ \E t \in Threads : Spurious(t)
             \/ UNCHANGED vars
    BY <2>4, CallersLeave DEF Reasons
  <2> QED
    BY <2>1, <2>2, <2>3, <2>4, ThreadsDiffer DEF Next, Terminated
<1>5. ASSUME NEW p \in Producers, pc'[p] = "countRejected" PROVE Reason'
  <2>1. CASE pc[p] = "countRejected"
    BY <1>2, <2>1 DEF Reasons
  <2>2. CASE pc'[p] = pc[p]
    BY <1>5, <2>1, <2>2
  <2>3. CASE CallSubmit(p) \/ Submit(p)
    <3>1. CASE UNCHANGED pc
      BY <2>2, <3>1
    <3>2. CASE Goto(p, "countRejected")
      <4>1. CASE CheckStopping(p)
        BY <1>1, <1>2, <1>5, <4>1, ProducerGoes DEF CheckStopping, ProducerLabels
      <4>2. CASE Push(p) /\ closed
        BY <1>2, <4>2 DEF Reasons
      <4>3. CASE Push(p) /\ ~closed
        <5>1. UNCHANGED pc \/ Goto(p, "countSubmitted")
          BY <4>3 DEF Push, PushClosed
        <5> QED
          BY <1>1, <1>5, <2>2, <5>1, ProducerGoes DEF ProducerLabels
      <4>4. CASE CallSubmit(p) \/ CheckError(p) \/ Count(p)
        <5>1. \E label \in ProducerLabels \ {"countRejected"} : Goto(p, label)
          BY <4>4 DEF CallSubmit, CheckError, Count, Return, ProducerLabels
        <5> QED
          BY <1>1, <1>5, <5>1, ProducerGoes
      <4> QED
        BY <2>3, <4>1, <4>2, <4>3, <4>4 DEF Submit
    <3>3. CASE \E label \in ProducerLabels \ {"countRejected"} : Goto(p, label)
      BY <1>1, <1>5, <3>3, ProducerGoes
    <3> QED
      BY <2>3, <3>1, <3>2, <3>3, SubmitGoes
  <2>4. ASSUME NEW q \in Producers, q # p, CallSubmit(q) \/ Submit(q)
        PROVE  pc'[p] = pc[p]
    BY <1>1, <2>4, SubmitGoes, ProducerGoes, ThreadsDiffer
  <2>5. ASSUME Run PROVE pc'[p] = pc[p]
    BY <1>1, <2>5, RunGoes, WriterGoes
  <2>6. ASSUME CallStop \/ CallDestructor \/ Stop PROVE pc'[p] = pc[p]
    BY <1>1, <2>6, StopGoes, OwnerGoes
  <2>7. ASSUME (\E t \in Threads : Spurious(t)) \/ UNCHANGED vars PROVE pc'[p] = pc[p]
    BY <2>7 DEF Spurious, vars, recorderVars
  <2> QED
    BY <2>2, <2>3, <2>4, <2>5, <2>6, <2>7, ThreadsDiffer DEF Next, Terminated
<1>6. ASSUME NEW p \in Producers, "false" \in Range(results'[p]) PROVE Reason'
  <2>1. CASE "false" \in Range(results[p])
    BY <1>2, <2>1 DEF Reasons
  <2>2. CASE UNCHANGED results
    BY <1>6, <2>1, <2>2
  <2>3. ASSUME NEW q \in Producers, NEW r \in {"true", "threw"}, Return(q, r)
        PROVE  Reason'
    <3>1. results'[p] = results[p] \/ results'[p] = Append(results[p], r)
      <4>1. results' = [results EXCEPT ![q] = Append(results[q], r)]
        BY <2>3 DEF Return
      <4> QED
        BY <1>1, <4>1
    <3>2. Range(Append(results[p], r)) = Range(results[p]) \cup {r}
      BY <1>1, AppendRange
    <3>3. "false" \notin {r}
      BY <2>3
    <3>4. Range(results'[p]) \in {Range(results[p]), Range(results[p]) \cup {r}}
      BY <3>1, <3>2
    <3> QED
      BY <1>6, <2>1, <3>3, <3>4
  <2>4. ASSUME NEW q \in Producers, pc[q] = "countRejected" PROVE Reason'
    BY <1>2, <2>4 DEF Reasons
  <2>5. ASSUME NEW q \in Producers, CheckError(q) \/ Count(q)
        PROVE  \/ UNCHANGED results \/ pc[q] = "countRejected"
               \/ \E r \in {"true", "threw"} : Return(q, r)
    BY <2>5 DEF CheckError, Count
  <2> QED
    BY <2>2, <2>3, <2>4, <2>5, ResultsFrame
<1> QED
  BY <1>3, <1>4, <1>5, <1>6 DEF Reasons

-----------------------------------------------------------------------------
(* Conservation: the five places are the complete log, cut into pieces *)

\* The pieces of the log, from the oldest unit to the newest.
Pieces == file \o pending \o buffer \o InHand \o queue

LEMMA PiecesTyped ==
  ASSUME Typed
  PROVE  /\ file \in Seq(Units) /\ pending \in Seq(Units) /\ buffer \in Seq(Units)
         /\ queue \in Seq(Units) /\ accepted \in Seq(Units)
         /\ FileHeader \in Seq(Units) /\ <<>> \in Seq(Units)
         /\ file \o pending \in Seq(Units)
         /\ file \o pending \o buffer \in Seq(Units)
         /\ CompleteLog \in Seq(Units)
<1>1. Events \subseteq Units
  BY DEF Units
<1>2. /\ queue \in Seq(Events) /\ accepted \in Seq(Events)
      /\ file \in Seq(Units) /\ pending \in Seq(Units) /\ buffer \in Seq(Units)
  BY DEF Typed, TypeOK
<1>3. queue \in Seq(Units) /\ accepted \in Seq(Units)
  BY <1>1, <1>2, SeqMonotonic
<1>4. file \o pending \in Seq(Units)
  BY <1>2, ConcatProperties
<1>5. file \o pending \o buffer \in Seq(Units)
  BY <1>2, <1>4, ConcatProperties
<1>6. FileHeader \o accepted \in Seq(Units)
  BY <1>3, HeaderType, ConcatProperties
<1> QED
  BY <1>2, <1>3, <1>4, <1>5, <1>6, HeaderType DEF CompleteLog

\* The pieces put together in pairs, and from the back.
LEMMA PiecesRegrouped ==
  ASSUME Typed, InHand \in Seq(Units)
  PROVE  /\ Pieces = Joint(Joint(file, Joint(pending, buffer)), Joint(InHand, queue))
         /\ Pieces = Joint(Joint(file, Joint(pending, Joint(buffer, InHand))), queue)
         /\ Pieces = Joint(file, Joint(pending, Joint(buffer, Joint(InHand, queue))))
<1> DEFINE hand == InHand
<1>1. /\ file \in Seq(Units) /\ pending \in Seq(Units) /\ buffer \in Seq(Units)
      /\ hand \in Seq(Units) /\ queue \in Seq(Units)
  BY PiecesTyped
<1>2. Pieces = Joint(Joint(Joint(Joint(file, pending), buffer), hand), queue)
  BY DEF Pieces, Joint
<1> HIDE DEF hand
<1>3. /\ Joint(file, pending) \in Seq(Units) /\ Joint(pending, buffer) \in Seq(Units)
      /\ Joint(buffer, hand) \in Seq(Units) /\ Joint(hand, queue) \in Seq(Units)
  BY <1>1, JointTyped
<1>4. Joint(Joint(file, pending), buffer) = Joint(file, Joint(pending, buffer))
  BY <1>1, JointAssociative
<1>5. Joint(file, Joint(pending, buffer)) \in Seq(Units)
  BY <1>1, <1>3, JointTyped
<1>6. Pieces = Joint(Joint(file, Joint(pending, buffer)), Joint(hand, queue))
  BY <1>1, <1>2, <1>4, <1>5, JointAssociative
<1>7. Joint(Joint(Joint(file, pending), buffer), hand)
        = Joint(Joint(file, pending), Joint(buffer, hand))
  BY <1>1, <1>3, JointAssociative
<1>8. Joint(Joint(file, pending), Joint(buffer, hand))
        = Joint(file, Joint(pending, Joint(buffer, hand)))
  BY <1>1, <1>3, JointAssociative
<1>9. Pieces = Joint(Joint(file, Joint(pending, Joint(buffer, hand))), queue)
  BY <1>2, <1>7, <1>8
<1>10. Joint(Joint(file, Joint(pending, buffer)), Joint(hand, queue))
         = Joint(file, Joint(Joint(pending, buffer), Joint(hand, queue)))
  BY <1>1, <1>3, JointAssociative
<1>11. Joint(Joint(pending, buffer), Joint(hand, queue))
         = Joint(pending, Joint(buffer, Joint(hand, queue)))
  BY <1>1, <1>3, JointAssociative
<1>12. Pieces = Joint(file, Joint(pending, Joint(buffer, Joint(hand, queue))))
  BY <1>6, <1>10, <1>11
<1> QED
  BY <1>6, <1>9, <1>12 DEF hand

\* Push: the queue and the complete log grow by the same event.
LEMMA PushConserves ==
  ASSUME Typed, Pieces = CompleteLog, InHand \in Seq(Units), NEW e \in Events,
         queue' = Append(queue, e), accepted' = Append(accepted, e),
         UNCHANGED <<file, pending, buffer>>, InHand' = InHand
  PROVE  Pieces' = CompleteLog'
<1> DEFINE before == file \o pending \o buffer \o InHand
           one == <<e>>
<1>1. one \in Seq(Units) /\ queue \in Seq(Events) /\ accepted \in Seq(Events)
  BY RecordType DEF Typed, TypeOK
<1>2. queue' = queue \o one /\ accepted' = accepted \o one
  BY <1>1, AppendIsConcat
<1> HIDE DEF one
<1>3. before \in Seq(Units)
  <2>1. file \o pending \o buffer \in Seq(Units)
    BY PiecesTyped
  <2> QED
    BY <2>1, Joined
<1>4. Pieces' = before \o (queue \o one)
  BY <1>2 DEF Pieces
<1>5. Pieces = before \o queue
  BY DEF Pieces
<1> HIDE DEF before
<1>6. Pieces' = Pieces \o one
  <2>1. queue \in Seq(Units)
    BY PiecesTyped
  <2>2. (before \o queue) \o one = before \o (queue \o one)
    BY <1>1, <1>3, <2>1, Regrouped, SMTT(40)
  <2> QED
    BY <1>4, <1>5, <2>2
<1>7. CompleteLog' = CompleteLog \o one
  <2>1. CompleteLog' = FileHeader \o (accepted \o one)
    BY <1>2 DEF CompleteLog
  <2>2. (FileHeader \o accepted) \o one = FileHeader \o (accepted \o one)
    <3>1. FileHeader \in Seq(Units) /\ accepted \in Seq(Units)
      BY PiecesTyped
    <3> QED
      BY <1>1, <3>1, Regrouped, SMTT(40)
  <2> QED
    BY <2>1, <2>2 DEF CompleteLog
<1> QED
  BY <1>6, <1>7

\* Pop: the head of the queue passes into the writer's hands.
LEMMA PopConserves ==
  ASSUME Typed, Pieces = CompleteLog, InHand = <<>>, queue # <<>>,
         queue' = Tail(queue), InHand' = <<Head(queue)>>,
         UNCHANGED <<file, pending, buffer, accepted>>
  PROVE  Pieces' = CompleteLog'
<1> DEFINE before == file \o pending \o buffer
           hand == <<Head(queue)>>
<1>1. /\ hand \in Seq(Units) /\ Tail(queue) \in Seq(Units)
      /\ queue = hand \o Tail(queue)
  BY PiecesTyped, HeadThenTail
<1>2. before \in Seq(Units)
  BY PiecesTyped
<1>3. Pieces = before \o <<>> \o queue
  BY DEF Pieces
<1>4. Pieces' = Joint(Joint(before, hand), Tail(queue))
  BY DEF Pieces, Joint
<1>5. CompleteLog' = CompleteLog
  BY DEF CompleteLog
<1> HIDE DEF before, hand
<1>6. before \o <<>> = before
  BY <1>2, ConcatEmptySeq
<1>7. Pieces = Joint(before, Joint(hand, Tail(queue)))
  BY <1>1, <1>3, <1>6 DEF Joint
<1> DEFINE late == Tail(queue)
<1>8. late \in Seq(Units)
  BY <1>1
<1> HIDE DEF late
<1>9. Joint(Joint(before, hand), late) = Joint(before, Joint(hand, late))
  BY <1>1, <1>2, <1>8, JointAssociative
<1> QED
  BY <1>4, <1>5, <1>7, <1>9 DEF late

\* Append: the event passes from the writer's hands behind buffer_, and all of
\* it may go on into the put area or, behind the put area, into the file.
LEMMA AppendConserves ==
  ASSUME Typed, Pieces = CompleteLog, pc[Writer] = "append",
         InHand = <<event>>, InHand' = <<>>,
         UNCHANGED <<queue, accepted>>,
         AppendBuffered(event) \/ AppendWritten(event)
  PROVE  Pieces' = CompleteLog'
<1> DEFINE hand == <<event>>
           contents == buffer \o Encoding[event]
<1>1. event \in Events
  BY DEF Typed
<1>2. Encoding[event] = hand /\ hand \in Seq(Units)
  BY <1>1, RecordType
<1>3. Pieces = file \o pending \o buffer \o hand \o queue
  BY DEF Pieces
<1> HIDE DEF hand
<1>4. contents = buffer \o hand
  BY <1>2
<1> HIDE DEF contents
<1>5. contents \in Seq(Units)
  BY <1>2, <1>4, PiecesTyped, ConcatProperties
<1>6. file \o pending \o buffer \o hand = file \o pending \o contents
  <2>1. file \o pending \in Seq(Units) /\ buffer \in Seq(Units)
    BY PiecesTyped
  <2>2. (file \o pending) \o buffer \o hand = (file \o pending) \o (buffer \o hand)
    BY <1>2, <2>1, Regrouped, SMTT(40)
  <2> QED
    BY <1>4, <2>2
<1>7. file \o pending \o contents = file \o (pending \o contents)
  <2>1. file \in Seq(Units) /\ pending \in Seq(Units)
    BY PiecesTyped
  <2> QED
    BY <1>5, <2>1, Regrouped, SMTT(40)
<1>8. file \o pending \o contents \in Seq(Units)
  BY <1>5, PiecesTyped, ConcatProperties
<1>9. file' \o pending' \o buffer' = file \o pending \o contents
  <2>1. CASE AppendBuffered(event)
    BY <2>1 DEF AppendBuffered, contents
  <2>2. CASE AppendWritten(event)
    <3>1. buffer' = <<>> /\ StreamWrite(contents)
      BY <2>2 DEF AppendWritten, contents
    <3>2. CASE pending' = pending \o contents /\ UNCHANGED file
      BY <1>7, <1>8, <3>1, <3>2, ConcatEmptySeq
    <3>3. CASE file' = file \o pending \o contents /\ pending' = <<>>
      BY <1>8, <3>1, <3>3, ConcatEmptySeq
    <3> QED
      BY <3>1, <3>2, <3>3 DEF StreamWrite
  <2> QED
    BY <2>1, <2>2
<1>10. Pieces' = file' \o pending' \o buffer' \o <<>> \o queue
  BY DEF Pieces
<1>11. Pieces' = file \o pending \o contents \o queue
  BY <1>8, <1>9, <1>10, ConcatEmptySeq
<1> QED
  BY <1>3, <1>6, <1>11 DEF CompleteLog

\* flush() and close(): everything the writer holds is in the file.
LEMMA FlushConserves ==
  ASSUME Typed, Pieces = CompleteLog, InHand' = InHand,
         UNCHANGED <<queue, accepted>>,
         FlushOk \/ CloseOk
  PROVE  Pieces' = CompleteLog'
<1> DEFINE all == file \o pending \o buffer
<1>1. file' = all /\ pending' = <<>> /\ buffer' = <<>>
  BY DEF FlushOk, CloseOk
<1>2. all \in Seq(Units)
  BY PiecesTyped
<1>3. Pieces = all \o InHand \o queue
  BY DEF Pieces
<1>4. Pieces' = file' \o pending' \o buffer' \o InHand \o queue
  BY DEF Pieces
<1> HIDE DEF all
<1>5. file' \o pending' \o buffer' = all
  BY <1>1, <1>2, ConcatEmptySeq
<1> QED
  BY <1>3, <1>4, <1>5 DEF CompleteLog

\* Until a write fails the pieces are the complete log.  A payload that was
\* refused is still in the writer's hands, and is an event.
Conserved ==
  /\ raised = "format" => event \in Events
  /\ streamOk => Pieces = CompleteLog

LEMMA ConservedInit == Init => Conserved
<1> SUFFICES ASSUME Init PROVE Conserved
  OBVIOUS
<1>1. raised = "none" /\ pc[Writer] = "pop" /\ accepted = <<>>
  BY ThreadsDiffer DEF Init
<1>2. InHand = <<>>
  BY <1>1 DEF InHand
<1>3. queue = <<>>
  BY DEF Init, QueueInit
<1>4. /\ buffer = <<>>
      /\ \/ pending = FileHeader /\ file = <<>>
         \/ pending = <<>> /\ file = FileHeader
  BY DEF Init, WriterInit
<1>5. FileHeader \o <<>> = FileHeader /\ <<>> \o FileHeader = FileHeader
  BY HeaderType, ConcatEmptySeq
<1>6. file \o pending = FileHeader
  BY <1>4, <1>5
<1>7. Pieces = FileHeader \o <<>> \o <<>> \o <<>>
  BY <1>2, <1>3, <1>4, <1>6 DEF Pieces
<1>8. CompleteLog = FileHeader \o <<>>
  BY <1>1 DEF CompleteLog
<1>9. Pieces = CompleteLog
  BY <1>5, <1>7, <1>8
<1> QED
  BY <1>1, <1>9 DEF Conserved

LEMMA HandTyped ==
  ASSUME Typed, Conserved
  PROVE  InHand \in Seq(Units)
<1>1. CASE pc[Writer] = "append" \/ raised = "format"
  <2>1. event \in Events
    BY <1>1 DEF Typed, Conserved
  <2>2. InHand = <<event>>
    BY <1>1 DEF InHand
  <2> QED
    BY <2>1, <2>2, RecordType
<1>2. CASE ~(pc[Writer] = "append" \/ raised = "format")
  BY <1>2, HeaderType DEF InHand
<1> QED
  BY <1>1, <1>2

\* Every exception of the writer about the disk leaves the stream bad.
LEMMA IoErrorBreaksStream ==
  ASSUME NEW e, AppendIoError(e) \/ FlushIoError \/ DestroyIoError
  PROVE  ~streamOk'
<1>1. ASSUME NEW data, StreamFail(data) PROVE ~streamOk'
  BY <1>1 DEF StreamFail
<1> QED
  BY <1>1 DEF AppendIoError, FlushIoError, DestroyIoError

LEMMA ConservedStep == Typed /\ Phase /\ Conserved /\ [Next]_vars => Conserved'
<1> SUFFICES ASSUME Typed, Phase, Conserved, [Next]_vars PROVE Conserved'
  OBVIOUS
<1>1. LabelsOk /\ InHand \in Seq(Units)
  BY HandTyped DEF Typed
\* Steps of threads that have nothing to do with the log.
<1>2. ASSUME UNCHANGED <<writerVars, queue, accepted, event, raised>>,
             InHand' = InHand
      PROVE  Conserved'
  BY <1>2 DEF Conserved, Pieces, CompleteLog, writerVars
<1>3. ASSUME UNCHANGED <<writerVars, queue, accepted, event, raised>>,
             pc'[Writer] = pc[Writer]
      PROVE  Conserved'
  BY <1>2, <1>3 DEF InHand
<1>4. ASSUME NEW p \in Producers, CallSubmit(p) \/ Submit(p) PROVE Conserved'
  <2>1. pc'[Writer] = pc[Writer] /\ UNCHANGED <<writerVars, event, raised>>
    <3>1. pc'[Writer] = pc[Writer] /\ UNCHANGED <<writerVars, raised>>
      BY <1>4, CallersLeave
    <3> QED
      BY <1>4, <3>1 DEF CallSubmit, Submit, CheckError, CheckStopping, Push, Count
  <2>2. CASE CallSubmit(p) \/ CheckError(p) \/ CheckStopping(p) \/ Count(p)
    <3>1. UNCHANGED <<queue, accepted>>
      BY <2>2 DEF CallSubmit, CheckError, CheckStopping, Count, queueVars
    <3> QED
      BY <1>3, <2>1, <3>1
  <2>3. CASE Push(p)
    <3>1. CASE UNCHANGED <<queue, accepted>>
      BY <1>3, <2>1, <3>1
    <3>2. CASE PushAccept(p, Offer(p)) /\ accepted' = Append(accepted, Offer(p))
      <4>1. Offer(p) \in Events
        BY <2>3, OfferType DEF Push
      <4>2. queue' = Append(queue, Offer(p))
        BY <3>2 DEF PushAccept
      <4>3. InHand' = InHand
        BY <2>1 DEF InHand
      <4>4. UNCHANGED <<file, pending, buffer, streamOk>>
        BY <2>1 DEF writerVars
      <4>5. Pieces = CompleteLog => Pieces' = CompleteLog'
        BY <1>1, <3>2, <4>1, <4>2, <4>3, <4>4, PushConserves
      <4> QED
        BY <2>1, <4>4, <4>5 DEF Conserved
    <3> QED
      BY <2>3, <3>1, <3>2 DEF Push, PushWait, PushClosed, queueVars
  <2> QED
    BY <1>4, <2>2, <2>3 DEF Submit
<1>5. CASE RunPop
  <2>1. CASE PopWait(Writer) /\ UNCHANGED <<pc, event>>
    BY <1>3, <1>5, <2>1 DEF RunPop, PopWait
  <2>2. CASE PopTake(Writer) /\ event' = Head(queue) /\ Goto(Writer, "append")
    <3>1. pc[Writer] = "pop" /\ raised = "none" /\ raised' = "none"
      BY <1>5 DEF RunPop, Phase
    <3>2. pc'[Writer] = "append"
      BY <1>1, <2>2, WriterGoes DEF WriterLabels
    <3>3. InHand = <<>>
      BY <3>1 DEF InHand
    <3>4. InHand' = <<Head(queue)>>
      BY <2>2, <3>2 DEF InHand
    <3>5. queue # <<>> /\ queue' = Tail(queue)
      BY <2>2 DEF PopTake
    <3>6. UNCHANGED <<file, pending, buffer, accepted, streamOk>>
      BY <1>5 DEF RunPop, writerVars
    <3>7. Pieces = CompleteLog => Pieces' = CompleteLog'
      BY <3>3, <3>4, <3>5, <3>6, PopConserves
    <3> QED
      BY <3>1, <3>6, <3>7 DEF Conserved
  <2>3. CASE PopEnd(Writer) /\ Goto(Writer, "flush") /\ UNCHANGED event
    <3>1. pc'[Writer] = "flush" /\ pc[Writer] = "pop" /\ raised' = raised
      BY <1>1, <1>5, <2>3, WriterGoes DEF RunPop, WriterLabels
    <3>2. InHand' = InHand
      BY <2>3, <3>1 DEF InHand
    <3> QED
      BY <1>2, <1>5, <2>3, <3>2 DEF RunPop, PopEnd, queueVars
  <2> QED
    BY <1>5, <2>1, <2>2, <2>3 DEF RunPop
<1>6. CASE RunAppend
  <2>1. /\ pc[Writer] = "append" /\ raised = "none"
        /\ UNCHANGED <<queue, accepted, event>>
        /\ event \in Events
    BY <1>6 DEF RunAppend, Phase, Typed, queueVars
  <2>2. InHand = <<event>>
    BY <2>1 DEF InHand
  <2>3. CASE /\ AppendBuffered(event) \/ AppendWritten(event)
             /\ Goto(Writer, "count") /\ UNCHANGED raised
    <3>1. pc'[Writer] = "count" /\ raised' = "none"
      BY <1>1, <2>1, <2>3, WriterGoes DEF WriterLabels
    <3>2. InHand' = <<>>
      BY <3>1 DEF InHand
    <3>3. streamOk' = streamOk
      BY <2>3 DEF AppendBuffered, AppendWritten, StreamWrite
    <3>4. Pieces = CompleteLog => Pieces' = CompleteLog'
      BY <2>1, <2>2, <2>3, <3>2, AppendConserves
    <3> QED
      BY <3>1, <3>3, <3>4 DEF Conserved
  <2>4. CASE AppendIoError(event) /\ raised' = "io"
    BY <2>4, IoErrorBreaksStream DEF Conserved
  <2>5. CASE AppendFormatError(event) /\ raised' = "format"
    <3>1. InHand' = <<event>>
      BY <2>1, <2>5 DEF InHand
    <3>2. UNCHANGED <<file, pending, buffer, streamOk>>
      BY <2>5 DEF AppendFormatError, writerVars
    <3>3. Pieces' = Pieces /\ CompleteLog' = CompleteLog
      BY <2>1, <2>2, <3>1, <3>2 DEF Pieces, CompleteLog
    <3> QED
      BY <2>1, <3>2, <3>3 DEF Conserved
  <2> QED
    BY <1>6, <2>3, <2>4, <2>5 DEF RunAppend
<1>7. CASE RunCount
  <2>1. pc[Writer] = "count" /\ pc'[Writer] = "pop"
        /\ UNCHANGED <<queueVars, writerVars, accepted, event, raised>>
    BY <1>1, <1>7, WriterGoes DEF RunCount, WriterLabels
  <2>2. InHand' = InHand
    BY <2>1 DEF InHand
  <2> QED
    BY <1>2, <2>1, <2>2 DEF queueVars
<1>8. CASE RunFlush
  <2>1. pc[Writer] = "flush" /\ raised = "none"
        /\ UNCHANGED <<queue, accepted, event>>
    BY <1>8 DEF RunFlush, Phase, queueVars
  <2>2. CASE FlushOk /\ Goto(Writer, "done") /\ UNCHANGED raised
    <3>1. pc'[Writer] = "done"
      BY <1>1, <2>2, WriterGoes DEF WriterLabels
    <3>2. InHand' = InHand
      BY <2>1, <2>2, <3>1 DEF InHand
    <3>3. streamOk' = streamOk
      BY <2>2 DEF FlushOk
    <3>4. Pieces = CompleteLog => Pieces' = CompleteLog'
      BY <2>1, <2>2, <3>2, FlushConserves
    <3> QED
      BY <2>1, <2>2, <3>3, <3>4 DEF Conserved
  <2>3. CASE FlushIoError /\ raised' = "io"
    BY <2>3, IoErrorBreaksStream DEF Conserved
  <2> QED
    BY <1>8, <2>2, <2>3 DEF RunFlush
<1>9. CASE RunCatch
  <2>1. pc[Writer] # "append" /\ pc'[Writer] # "append"
        /\ UNCHANGED <<writerVars, queue, accepted, event, raised>>
    <3>1. \E label \in WriterLabels \ {"append"} : Goto(Writer, label)
      BY <1>9 DEF RunCatch, CloseQueue, WriterLabels
    <3>2. pc'[Writer] # "append"
      BY <1>1, <3>1, WriterGoes
    <3> QED
      BY <1>9, <3>2 DEF RunCatch, CloseQueue, MarkClosed, NotifyAllNotEmpty,
                        NotifyAllNotFull, queueVars
  <2>2. InHand' = InHand
    BY <2>1 DEF InHand
  <2> QED
    BY <1>2, <2>1, <2>2
<1>10. ASSUME CallStop \/ CallDestructor \/ Stop PROVE Conserved'
  <2>1. pc'[Writer] = pc[Writer] /\ UNCHANGED <<queue, accepted, event, raised>>
    <3>1. pc'[Writer] = pc[Writer]
      BY <1>1, <1>10, StopGoes, OwnerGoes
    <3> QED
      BY <1>10, <3>1 DEF CallStop, CallDestructor, Stop, StopClose, StopJoin,
           StopRethrow, DestroyWriter, CloseQueue, MarkClosed,
           NotifyAllNotEmpty, NotifyAllNotFull, queueVars
  <2>2. CASE UNCHANGED writerVars
    BY <1>3, <2>1, <2>2
  <2>3. CASE DestroyWriter /\ CloseOk
    <3>1. InHand' = InHand
      BY <2>1 DEF InHand
    <3>2. streamOk' = streamOk
      BY <2>3 DEF CloseOk
    <3>3. Pieces = CompleteLog => Pieces' = CompleteLog'
      BY <2>1, <2>3, <3>1, FlushConserves
    <3> QED
      BY <2>1, <3>2, <3>3 DEF Conserved
  <2>4. CASE DestroyWriter /\ DestroyIoError
    BY <2>1, <2>4, IoErrorBreaksStream DEF Conserved
  <2> QED
    BY <1>10, <2>2, <2>3, <2>4
    DEF CallStop, CallDestructor, Stop, StopClose, StopJoin, StopRethrow,
        DestroyWriter, DestroyOk, CloseAgain
<1>11. ASSUME NEW t \in Threads, Spurious(t) PROVE Conserved'
  BY <1>3, <1>11 DEF Spurious, SpuriousWake, recorderVars
<1>12. CASE UNCHANGED vars
  BY <1>3, <1>12 DEF vars, queueVars, recorderVars
<1> QED
  BY <1>4, <1>5, <1>6, <1>7, <1>8, <1>9, <1>10, <1>11, <1>12, ThreadsDiffer
  DEF Next, Run, Terminated

-----------------------------------------------------------------------------
(* The prefix *)

\* Until the stream is destroyed, the complete log continues the file.
Continued ==
  pc[Owner] # "destroyed" =>
    \E rest \in Seq(Units) : CompleteLog = file \o rest

\* While no write has failed, what continues the file is in the other places.
LEMMA ConservedContinues ==
  ASSUME Typed, Conserved, streamOk
  PROVE  \E rest \in Seq(Units) : CompleteLog = file \o rest
<1>1. /\ file \in Seq(Units) /\ pending \in Seq(Units) /\ buffer \in Seq(Units)
      /\ queue \in Seq(Units) /\ file \o pending \in Seq(Units)
      /\ file \o pending \o buffer \in Seq(Units)
  BY PiecesTyped
<1>2. InHand \in Seq(Units)
  BY HandTyped
<1> DEFINE rest == Joint(pending, Joint(buffer, Joint(InHand, queue)))
<1>3. Pieces = Joint(file, rest)
  BY <1>2, PiecesRegrouped
<1>4. rest \in Seq(Units)
  BY <1>1, <1>2, JointTyped
<1> HIDE DEF rest
<1>5. Pieces = file \o rest
  BY <1>3 DEF Joint
<1> QED
  BY <1>4, <1>5 DEF Conserved

\* A write that fails part way leaves a beginning of what it was given.
LEMMA FailedWriteContinues ==
  ASSUME Typed, NEW x \in Seq(Units), NEW t \in Seq(Units),
         CompleteLog = Joint(Joint(file, x), t), CompleteLog' = CompleteLog,
         \E n \in 0 .. Len(x) : file' = file \o SubSeq(x, 1, n)
  PROVE  \E rest \in Seq(Units) : CompleteLog' = file' \o rest
<1>1. PICK n \in 0 .. Len(x) : file' = Joint(file, SubSeq(x, 1, n))
  BY DEF Joint
<1>2. file \in Seq(Units)
  BY PiecesTyped
<1>3. PICK rest \in Seq(Units) :
         Joint(Joint(file, x), t) = Joint(Joint(file, SubSeq(x, 1, n)), rest)
  BY <1>2, CutPiece
<1>4. CompleteLog' = Joint(file', rest)
  BY <1>1, <1>3
<1> QED
  BY <1>4 DEF Joint

\* The complete log only grows.
LEMMA LogGrows ==
  ASSUME Typed, [Next]_vars
  PROVE  \E more \in Seq(Units) : CompleteLog' = CompleteLog \o more
<1>1. FileHeader \in Seq(Units) /\ accepted \in Seq(Units)
      /\ CompleteLog \in Seq(Units)
  BY PiecesTyped
<1>2. CASE UNCHANGED accepted
  <2>1. CompleteLog' = CompleteLog /\ CompleteLog \o <<>> = CompleteLog
    BY <1>1, <1>2, ConcatEmptySeq DEF CompleteLog
  <2> QED
    BY <2>1, HeaderType
<1>3. ASSUME NEW e \in Events, accepted' = Append(accepted, e)
      PROVE  \E more \in Seq(Units) : CompleteLog' = CompleteLog \o more
  <2> DEFINE one == <<e>>
  <2>1. one \in Seq(Units) /\ accepted \in Seq(Events)
    BY RecordType DEF Typed, TypeOK
  <2>2. accepted' = accepted \o one
    BY <1>3, <2>1, AppendIsConcat
  <2> HIDE DEF one
  <2>3. (FileHeader \o accepted) \o one = FileHeader \o (accepted \o one)
    BY <1>1, <2>1, Regrouped, SMTT(40)
  <2>4. CompleteLog' = CompleteLog \o one
    BY <2>2, <2>3 DEF CompleteLog
  <2> QED
    BY <2>1, <2>4
<1>4. ASSUME NEW p \in Producers, Push(p)
      PROVE  \/ UNCHANGED accepted
             \/ accepted' = Append(accepted, Offer(p)) /\ Offer(p) \in Events
  BY <1>4, OfferType DEF Push
<1>5. ASSUME RunPop \/ RunCatch \/ StopClose PROVE UNCHANGED accepted
  BY <1>5 DEF RunPop, RunCatch, StopClose
<1> QED
  BY <1>2, <1>3, <1>4, <1>5, QueueFrame

LEMMA ContinuedInit == Init => Continued
<1> SUFFICES ASSUME Init PROVE Continued
  OBVIOUS
<1>1. Typed /\ Conserved
  BY TypedInit, ConservedInit
<1>2. streamOk
  BY DEF Init, WriterInit
<1> QED
  BY <1>1, <1>2, ConservedContinues DEF Continued

LEMMA ContinuedStep ==
  Typed /\ Phase /\ Conserved /\ Continued /\ [Next]_vars => Continued'
<1> SUFFICES ASSUME Typed, Phase, Conserved, Continued, [Next]_vars,
                    pc'[Owner] # "destroyed"
             PROVE  \E rest \in Seq(Units) : CompleteLog' = file' \o rest
  BY DEF Continued
<1>1. Typed' /\ Conserved'
  BY TypedStep, ConservedStep
<1>2. pc[Owner] # "destroyed"
  <2>1. LabelsOk
    BY DEF Typed
  <2>2. CASE \/ \E p \in Producers : CallSubmit(p) \/ Submit(p)
             \/ \E t \in Threads : Spurious(t)
             \/ UNCHANGED vars
    BY <2>2, CallersLeave
  <2>3. CASE Run
    BY <2>1, <2>3, RunGoes, WriterGoes
  <2>4. CASE CallStop \/ CallDestructor \/ Stop
    BY <2>4 DEF CallStop, CallDestructor, Stop, StopClose, CloseQueue, StopJoin,
                StopRethrow, DestroyWriter
  <2> QED
    BY <2>2, <2>3, <2>4, ThreadsDiffer DEF Next, Terminated
<1>3. PICK old \in Seq(Units) : CompleteLog = file \o old
  BY <1>2 DEF Continued
<1>4. CASE UNCHANGED file
  <2>1. PICK more \in Seq(Units) : CompleteLog' = CompleteLog \o more
    BY LogGrows
  <2>2. file \in Seq(Units) /\ old \o more \in Seq(Units)
    BY PiecesTyped, ConcatProperties, SMTT(40)
  <2>3. file \o old \o more = file \o (old \o more)
    BY <2>2, Regrouped, SMTT(40)
  <2>4. CompleteLog' = file' \o (old \o more)
    BY <1>3, <1>4, <2>1, <2>3
  <2> QED
    BY <2>2, <2>4
<1>5. CASE streamOk'
  <2>1. (\E rest \in Seq(Units) : CompleteLog = file \o rest)'
    BY <1>1, <1>5, ConservedContinues, PTL
  <2> QED
    BY <2>1
\* A write fails now, in append() or in flush().
<1>6. CASE streamOk /\ RunAppend /\ AppendIoError(event)
  <2> DEFINE hand == <<event>>
             contents == Joint(buffer, hand)
             x == Joint(pending, contents)
  <2>1. pc[Writer] = "append" /\ event \in Events /\ UNCHANGED accepted
    BY <1>6 DEF RunAppend, Typed
  <2>2. Encoding[event] = hand /\ hand \in Seq(Units)
    BY <2>1, RecordType
  <2>3. InHand = hand
    BY <2>1 DEF InHand
  <2> HIDE DEF hand
  <2>4. StreamFail(contents)
    BY <1>6, <2>2 DEF AppendIoError, Joint
  <2>5. /\ file \in Seq(Units) /\ pending \in Seq(Units) /\ buffer \in Seq(Units)
        /\ queue \in Seq(Units)
    BY PiecesTyped
  <2>6. x \in Seq(Units)
    BY <2>2, <2>5, JointTyped
  <2>7. Pieces = Joint(Joint(file, x), queue)
    BY <2>2, <2>3, PiecesRegrouped
  <2> HIDE DEF contents
  <2>8. \E n \in 0 .. Len(x) : file' = file \o SubSeq(x, 1, n)
    BY <1>6, <2>4 DEF StreamFail, Joint
  <2> HIDE DEF x
  <2>9. CompleteLog = Joint(Joint(file, x), queue)
    BY <1>6, <2>7 DEF Conserved
  <2>10. CompleteLog' = CompleteLog
    BY <2>1 DEF CompleteLog
  <2> QED
    BY <2>5, <2>6, <2>8, <2>9, <2>10, FailedWriteContinues
<1>7. CASE streamOk /\ RunFlush /\ FlushIoError
  <2> DEFINE x == Joint(pending, buffer)
             t == Joint(InHand, queue)
  <2>1. /\ pending \in Seq(Units) /\ buffer \in Seq(Units) /\ queue \in Seq(Units)
    BY PiecesTyped
  <2>2. InHand \in Seq(Units)
    BY HandTyped
  <2>3. x \in Seq(Units) /\ t \in Seq(Units)
    BY <2>1, <2>2, JointTyped
  <2>4. Pieces = Joint(Joint(file, x), t)
    BY <2>2, PiecesRegrouped
  <2>5. \E n \in 0 .. Len(x) : file' = file \o SubSeq(x, 1, n)
    BY <1>7 DEF FlushIoError, StreamFail, Joint
  <2> HIDE DEF x, t
  <2>6. CompleteLog = Joint(Joint(file, x), t)
    BY <1>7, <2>4 DEF Conserved
  <2>7. CompleteLog' = CompleteLog
    BY <1>7 DEF RunFlush, CompleteLog
  <2> QED
    BY <2>3, <2>5, <2>6, <2>7, FailedWriteContinues
\* A stream that is bad already takes nothing.
<1>8. CASE ~streamOk
  <2>1. CASE UNCHANGED writerVars
    <3>1. UNCHANGED file
      BY <2>1 DEF writerVars
    <3> QED
      BY <1>4, <3>1
  <2>2. CASE RunAppend
    <3>1. UNCHANGED file
      BY <1>8, <2>2 DEF RunAppend, AppendBuffered, AppendWritten, StreamWrite,
                        AppendIoError, StreamFail, AppendFormatError, writerVars
    <3> QED
      BY <1>4, <3>1
  <2>3. CASE RunFlush
    <3>1. UNCHANGED file
      BY <1>8, <2>3 DEF RunFlush, FlushOk, FlushIoError, StreamFail
    <3> QED
      BY <1>4, <3>1
  <2>4. ~DestroyWriter
    <3>1. ASSUME DestroyWriter PROVE pc'[Owner] = "destroyed"
      BY <3>1, OwnerGoes DEF DestroyWriter, OwnerLabels, Typed
    <3> QED
      BY <3>1
  <2> QED
    BY <2>1, <2>2, <2>3, <2>4, WriterFrame
<1>9. CASE streamOk /\ ~streamOk'
  <2>1. ASSUME DestroyWriter PROVE pc'[Owner] = "destroyed"
    BY <2>1, OwnerGoes DEF DestroyWriter, OwnerLabels, Typed
  <2>2. RunAppend \/ RunFlush
    BY <1>9, <2>1, WriterFrame DEF writerVars
  <2>3. RunAppend => AppendIoError(event)
    BY <1>9 DEF RunAppend, AppendBuffered, AppendWritten, StreamWrite,
                AppendFormatError, writerVars
  <2>4. RunFlush => FlushIoError
    BY <1>9 DEF RunFlush, FlushOk
  <2> QED
    BY <1>6, <1>7, <1>9, <2>2, <2>3, <2>4
<1> QED
  BY <1>5, <1>8, <1>9

-----------------------------------------------------------------------------
(* The inductive invariant and the theorems *)

IInv == Typed /\ Phase /\ Drained /\ Reasons /\ Conserved /\ Continued

LEMMA Inductive == Spec => []IInv
<1>1. Init => IInv
  BY TypedInit, PhaseInit, DrainedInit, ReasonsInit, ConservedInit, ContinuedInit
  DEF IInv
<1>2. IInv /\ [Next]_vars => IInv'
  BY TypedStep, PhaseStep, DrainedStep, ReasonsStep, ConservedStep, ContinuedStep
  DEF IInv
<1> QED
  BY <1>1, <1>2, PTL DEF Spec

\* When run() has ended without an exception, all there is is in the file.
LEMMA AllInFile ==
  ASSUME IInv, pc[Writer] = "done", raised = "none"
  PROVE  file = CompleteLog /\ queue = <<>> /\ buffer = <<>>
<1>1. queue = <<>> /\ buffer = <<>> /\ pending = <<>> /\ streamOk
  BY DEF IInv, Drained
<1>2. InHand = <<>>
  BY DEF InHand
<1>3. CompleteLog = file \o <<>> \o <<>> \o <<>> \o <<>>
  BY <1>1, <1>2 DEF IInv, Conserved, Pieces
<1>4. file \o <<>> = file
  <2>1. file \in Seq(Units)
    BY DEF IInv, Typed, TypeOK
  <2> QED
    BY <2>1, ConcatEmptySeq
<1> QED
  BY <1>1, <1>3, <1>4

\* Nothing accepted is lost, duplicated or overtaken between the queue, the
\* writer thread, buffer_, the put area of the stream and the file, until a
\* write fails.
THEOREM EventsConserved == Spec => []Conservation
<1>1. IInv => Conservation
  BY DEF IInv, Conserved, Pieces, Conservation
<1> QED
  BY <1>1, Inductive, PTL

\* There is no hole in the file, even when a write has failed, until the
\* stream is destroyed.
THEOREM NoHole == Spec => []FileIsPrefix
<1>1. IInv => FileIsPrefix
  <2> SUFFICES ASSUME IInv, pc[Owner] # "destroyed"
               PROVE  IsPrefix(file, CompleteLog)
    BY DEF FileIsPrefix
  <2>1. PICK rest \in Seq(Units) : CompleteLog = file \o rest
    BY DEF IInv, Continued
  <2>2. file \in Seq(Units)
    BY DEF IInv, Typed, TypeOK
  <2> QED
    BY <2>1, <2>2, ContinuedIsPrefix
<1> QED
  BY <1>1, Inductive, PTL

\* A stop() that returned normally is a persistence barrier: all that was ever
\* accepted is in the file, and it stays so.
THEOREM Barrier == Spec => []StopIsABarrier
<1>1. IInv => StopIsABarrier
  <2> SUFFICES ASSUME IInv, "ok" \in Range(stopResults)
               PROVE  file = CompleteLog /\ queue = <<>> /\ buffer = <<>>
    BY DEF StopIsABarrier
  <2>1. PICK i \in DOMAIN stopResults : stopResults[i] = "ok"
    BY DEF Range
  <2>2. writerError = "none"
    BY <2>1 DEF IInv, Phase
  <2>3. pc[Writer] = "done"
    <3>1. stopResults # <<>>
      BY <2>1
    <3> QED
      BY <3>1 DEF IInv, Phase
  <2>4. raised = "none"
    BY <2>2, <2>3 DEF IInv, Phase
  <2> QED
    BY <2>3, <2>4, AllInFile
<1> QED
  BY <1>1, Inductive, PTL

\* Every call of stop() gives the same answer.
THEOREM StopAnswersAgree == Spec => []StopIsConsistent
<1>1. IInv => StopIsConsistent
  BY DEF IInv, Phase, StopIsConsistent
<1> QED
  BY <1>1, Inductive, PTL

\* An accepted event that is missing in the end has left an exception in
\* writer_error_, for stop() or submit() to throw if somebody calls them.
THEOREM LossIsReported == Spec => []NoSilentLoss
<1>1. IInv => NoSilentLoss
  <2> SUFFICES ASSUME IInv PROVE NoSilentLoss
    OBVIOUS
  <2>1. pc[Writer] = "done" => writerError = raised
    BY DEF IInv, Phase
  <2>2. ASSUME pc[Owner] = "destroyed", writerError = "none" PROVE file = CompleteLog
    <3>1. pc[Writer] = "done"
      BY <2>2 DEF IInv, Phase
    <3> QED
      BY <2>1, <2>2, <3>1, AllInFile
  <2> QED
    BY <2>1, <2>2 DEF NoSilentLoss
<1> QED
  BY <1>1, Inductive, PTL

\* submit() refuses an event only when the recorder is stopping or the writer's
\* exception is stored already.
THEOREM RefusalHasReason == Spec => []NoSilentRefusal
<1>1. IInv => NoSilentRefusal
  BY DEF IInv, Reasons, NoSilentRefusal
<1> QED
  BY <1>1, Inductive, PTL

-----------------------------------------------------------------------------
(* What the recorder's callers see: the counters agree with what they got, *)
(* and the recorder implements RecorderContract.                            *)


\* Producers whose event is in the queue and not counted yet.
Counting == {p \in Producers : pc[p] = "countSubmitted"}

\* What submit() returned is what the counters say, step by step.
Counts ==
  /\ IsFiniteSet(ResultsWith("true")) /\ IsFiniteSet(ResultsWith("false"))
  /\ submitted = Cardinality(ResultsWith("true"))
  /\ rejected = Cardinality(ResultsWith("false"))
  /\ Len(accepted) = submitted + Cardinality(Counting)

\* Until the writer thread meets an exception, every accepted event is counted
\* as written, in the writer thread's hands or in the queue.
InWritersHands == IF pc[Writer] \in {"append", "count"} THEN 1 ELSE 0
Flow == raised = "none" => Len(accepted) = written + InWritersHands + Len(queue)

LEMMA CountsInit == Init => Counts /\ Flow
<1> SUFFICES ASSUME Init PROVE Counts /\ Flow
  OBVIOUS
<1>1. \A p \in Producers : DOMAIN results[p] = {}
  BY DEF Init
<1>2. ResultsWith("true") = {} /\ ResultsWith("false") = {}
  BY <1>1 DEF ResultsWith
<1>3. Counting = {} /\ pc[Writer] = "pop"
  BY ThreadsDiffer DEF Init, Counting
<1>4. Len(accepted) = 0 /\ Len(queue) = 0 /\ submitted = 0 /\ rejected = 0 /\ written = 0
  BY DEF Init, QueueInit
<1>5. Counts
  <2>1. IsFiniteSet({}) /\ Cardinality({}) = 0
    BY FS_EmptySet
  <2>2. /\ IsFiniteSet(ResultsWith("true")) /\ Cardinality(ResultsWith("true")) = 0
        /\ IsFiniteSet(ResultsWith("false")) /\ Cardinality(ResultsWith("false")) = 0
    BY <1>2, <2>1, Zenon
  <2>3. Cardinality(Counting) = 0
    BY <1>3, <2>1, Zenon
  <2> QED
    BY <1>4, <2>2, <2>3 DEF Counts
<1>6. Flow
  BY <1>3, <1>4 DEF Flow, InWritersHands
<1> QED
  BY <1>5, <1>6

LEMMA CountingFinite ==
  /\ IsFiniteSet(Counting) /\ Cardinality(Counting) \in Nat
<1>1. Counting \subseteq Producers
  BY DEF Counting
<1> QED
  BY <1>1, RecorderAssumption, FS_Subset, FS_CardinalityType

\* A result that comes back is one more of its kind.
LEMMA OneMoreResult ==
  ASSUME Typed, NEW p \in Producers, NEW r \in {"true", "false", "threw"},
         results' = [results EXCEPT ![p] = Append(results[p], r)],
         NEW kind
  PROVE  /\ r # kind => ResultsWith(kind)' = ResultsWith(kind)
         /\ r = kind => \E call : /\ call \notin ResultsWith(kind)
                                  /\ ResultsWith(kind)' = ResultsWith(kind) \cup {call}
<1> DEFINE At(q) == {i \in DOMAIN results[q] : results[q][i] = kind}
           next == Len(results[p]) + 1
<1>1. results \in [Producers -> Seq({"true", "false", "threw"})]
  BY DEF Typed, TypeOK
<1>2. /\ Len(results[p]) \in Nat /\ DOMAIN results[p] = 1 .. Len(results[p])
      /\ DOMAIN results'[p] = 1 .. next
      /\ \A i \in 1 .. Len(results[p]) : results'[p][i] = results[p][i]
      /\ results'[p][next] = r
  BY <1>1, LenProperties, AppendProperties
<1>3. \A q \in Producers : q # p => At(q)' = At(q)
  BY <1>1
<1>4. next \notin At(p) /\ At(p)' = IF r = kind THEN At(p) \cup {next} ELSE At(p)
  BY <1>2
<1>5. ResultsWith(kind) = UNION {{q} \X At(q) : q \in Producers}
  BY DEF ResultsWith
<1>6. ResultsWith(kind)' = UNION {{q} \X At(q)' : q \in Producers}
  BY DEF ResultsWith
<1> HIDE DEF At, next
<1>7. CASE r # kind
  <2>1. \A q \in Producers : At(q)' = At(q)
    BY <1>3, <1>4, <1>7
  <2> QED
    BY <1>5, <1>6, <1>7, <2>1
<1>8. CASE r = kind
  <2>1. <<p, next>> \notin ResultsWith(kind)
    BY <1>4, <1>5
  <2>2. ResultsWith(kind)' \subseteq ResultsWith(kind) \cup {<<p, next>>}
    BY <1>3, <1>4, <1>5, <1>6, <1>8
  <2>3. ResultsWith(kind) \cup {<<p, next>>} \subseteq ResultsWith(kind)'
    BY <1>3, <1>4, <1>5, <1>6, <1>8
  <2> QED
    BY <1>8, <2>1, <2>2, <2>3
<1> QED
  BY <1>7, <1>8

\* Only a producer that pushes or comes back touches what Counts is about.
LEMMA CountsFrame ==
  ASSUME Typed, [Next]_vars
  PROVE  \/ UNCHANGED <<results, submitted, rejected, accepted>> /\ Counting' = Counting
         \/ \E p \in Producers : CheckError(p) \/ Push(p) \/ Count(p)
<1>1. LabelsOk
  BY DEF Typed
<1>2. ASSUME NEW p \in Producers, CallSubmit(p) \/ CheckStopping(p)
      PROVE  UNCHANGED <<results, submitted, rejected, accepted>> /\ Counting' = Counting
  <2>1. pc[p] # "countSubmitted"
    BY <1>2 DEF CallSubmit, CheckStopping
  <2>2. PICK label \in ProducerLabels \ {"countSubmitted"} : Goto(p, label)
    BY <1>2 DEF CallSubmit, CheckStopping, ProducerLabels
  <2>3. pc'[p] # "countSubmitted" /\ \A q \in Producers : q # p => pc'[q] = pc[q]
    BY <1>1, <2>2, ProducerGoes, ThreadsDiffer
  <2> QED
    BY <1>2, <2>1, <2>3 DEF CallSubmit, CheckStopping, Counting
<1>3. ASSUME \A q \in Producers : pc'[q] = pc[q] PROVE Counting' = Counting
  BY <1>3 DEF Counting
<1>4. CASE Run
  <2>1. \A q \in Producers : pc'[q] = pc[q]
    BY <1>1, <1>4, RunGoes, WriterGoes
  <2> QED
    BY <1>3, <1>4, <2>1 DEF Run, RunPop, RunAppend, RunCount, RunFlush, RunCatch
<1>5. CASE CallStop \/ CallDestructor \/ Stop
  <2>1. \A q \in Producers : pc'[q] = pc[q]
    BY <1>1, <1>5, StopGoes, OwnerGoes
  <2> QED
    BY <1>3, <1>5, <2>1 DEF CallStop, CallDestructor, Stop, StopClose, StopJoin,
                            StopRethrow, DestroyWriter
<1>6. CASE UNCHANGED vars \/ \E t \in Threads : Spurious(t)
  BY <1>3, <1>6 DEF vars, recorderVars, Spurious
<1> QED
  BY <1>2, <1>4, <1>5, <1>6, ThreadsDiffer DEF Next, Terminated, Submit

LEMMA CountsStep == Typed /\ Counts /\ [Next]_vars => Counts'
<1> SUFFICES ASSUME Typed, Counts, [Next]_vars PROVE Counts'
  OBVIOUS
<1>1. /\ LabelsOk /\ submitted \in Nat /\ rejected \in Nat /\ accepted \in Seq(Events)
      /\ Len(accepted) \in Nat
  BY LenProperties DEF Typed, TypeOK
<1>2. CASE UNCHANGED <<results, submitted, rejected, accepted>> /\ Counting' = Counting
  BY <1>2 DEF Counts, ResultsWith
<1>3. ASSUME NEW p \in Producers, CheckError(p) PROVE Counts'
  <2>1. PICK label \in ProducerLabels \ {"countSubmitted"} : Goto(p, label)
    BY <1>3 DEF CheckError, Return, ProducerLabels
  <2>2. pc'[p] # "countSubmitted" /\ \A q \in Producers : q # p => pc'[q] = pc[q]
    BY <1>1, <2>1, ProducerGoes, ThreadsDiffer
  <2>3. Counting' = Counting
    BY <1>3, <2>2 DEF CheckError, Counting
  <2>4. CASE UNCHANGED results
    BY <1>3, <2>3, <2>4 DEF CheckError, Counts, ResultsWith
  <2>5. CASE results' = [results EXCEPT ![p] = Append(results[p], "threw")]
    <3>1. /\ ResultsWith("true")' = ResultsWith("true")
          /\ ResultsWith("false")' = ResultsWith("false")
      BY <2>5, OneMoreResult
    <3> QED
      BY <1>3, <2>3, <3>1 DEF CheckError, Counts
  <2> QED
    BY <1>3, <2>4, <2>5 DEF CheckError, Return
<1>4. ASSUME NEW p \in Producers, Push(p) PROVE Counts'
  <2>1. UNCHANGED <<results, submitted, rejected>> /\ pc[p] = "push"
    BY <1>4 DEF Push
  <2>2. CASE UNCHANGED <<pc, accepted>>
    BY <2>1, <2>2 DEF Counts, ResultsWith, Counting
  <2>3. CASE Goto(p, "countRejected") /\ UNCHANGED accepted
    <3>1. pc'[p] = "countRejected" /\ \A q \in Producers : q # p => pc'[q] = pc[q]
      BY <1>1, <2>3, ProducerGoes, ThreadsDiffer DEF ProducerLabels
    <3>2. Counting' = Counting
      BY <2>1, <3>1 DEF Counting
    <3> QED
      BY <2>1, <2>3, <3>2 DEF Counts, ResultsWith
  <2>4. CASE Goto(p, "countSubmitted") /\ accepted' = Append(accepted, Offer(p))
    <3>1. pc'[p] = "countSubmitted" /\ \A q \in Producers : q # p => pc'[q] = pc[q]
      BY <1>1, <2>4, ProducerGoes, ThreadsDiffer DEF ProducerLabels
    <3>2. p \notin Counting /\ Counting' = Counting \cup {p}
      BY <2>1, <3>1 DEF Counting
    <3>3. Cardinality(Counting') = Cardinality(Counting) + 1
      BY <3>2, CountingFinite, FS_AddElement
    <3>4. Len(accepted') = Len(accepted) + 1
      BY <1>1, <2>1, <2>4, OfferType, AppendProperties
    <3> QED
      BY <1>1, <2>1, <3>3, <3>4, CountingFinite DEF Counts, ResultsWith
  <2> QED
    BY <1>4, <2>2, <2>3, <2>4 DEF Push
<1>5. ASSUME NEW p \in Producers, Count(p) PROVE Counts'
  <2>1. accepted' = accepted /\ Goto(p, "idle")
    BY <1>5 DEF Count, Return
  <2>2. pc'[p] = "idle" /\ \A q \in Producers : q # p => pc'[q] = pc[q]
    BY <1>1, <2>1, ProducerGoes, ThreadsDiffer DEF ProducerLabels
  <2>3. CASE /\ pc[p] = "countSubmitted" /\ submitted' = submitted + 1
             /\ rejected' = rejected
             /\ results' = [results EXCEPT ![p] = Append(results[p], "true")]
    <3>1. p \in Counting /\ Counting' = Counting \ {p}
      BY <2>2, <2>3 DEF Counting
    <3>2. Cardinality(Counting') = Cardinality(Counting) - 1
      BY <3>1, CountingFinite, FS_RemoveElement
    <3>3. ResultsWith("false")' = ResultsWith("false")
      BY <2>3, OneMoreResult
    <3>4. PICK call : /\ call \notin ResultsWith("true")
                      /\ ResultsWith("true")' = ResultsWith("true") \cup {call}
      BY <2>3, OneMoreResult
    <3>5. /\ IsFiniteSet(ResultsWith("true")')
          /\ Cardinality(ResultsWith("true")') = Cardinality(ResultsWith("true")) + 1
      BY <3>4, FS_AddElement DEF Counts
    <3> QED
      BY <1>1, <2>1, <2>3, <3>2, <3>3, <3>5, CountingFinite DEF Counts
  <2>4. CASE /\ pc[p] = "countRejected" /\ rejected' = rejected + 1
             /\ submitted' = submitted
             /\ results' = [results EXCEPT ![p] = Append(results[p], "false")]
    <3>1. Counting' = Counting
      BY <2>2, <2>4 DEF Counting
    <3>2. ResultsWith("true")' = ResultsWith("true")
      BY <2>4, OneMoreResult
    <3>3. PICK call : /\ call \notin ResultsWith("false")
                      /\ ResultsWith("false")' = ResultsWith("false") \cup {call}
      BY <2>4, OneMoreResult
    <3>4. /\ IsFiniteSet(ResultsWith("false")')
          /\ Cardinality(ResultsWith("false")') = Cardinality(ResultsWith("false")) + 1
      BY <3>3, FS_AddElement DEF Counts
    <3> QED
      BY <1>1, <2>1, <2>4, <3>1, <3>2, <3>4 DEF Counts
  <2> QED
    BY <1>5, <2>3, <2>4 DEF Count, Return
<1> QED
  BY <1>2, <1>3, <1>4, <1>5, CountsFrame

-----------------------------------------------------------------------------
(* What is on its way to the file *)

\* Steps of the callers: one more in the queue, or nothing changes.
LEMMA FlowCallers ==
  ASSUME Typed, Flow,
         \/ \E p \in Producers : CallSubmit(p) \/ Submit(p)
         \/ \E t \in Threads : Spurious(t)
         \/ UNCHANGED vars
  PROVE  Flow'
<1>1. pc'[Writer] = pc[Writer] /\ raised' = raised
  BY CallersLeave
<1>2. /\ accepted \in Seq(Events) /\ queue \in Seq(Events) /\ written \in Nat
      /\ Len(accepted) \in Nat /\ Len(queue) \in Nat
  BY LenProperties DEF Typed, TypeOK
<1>3. CASE UNCHANGED <<accepted, queue, written>>
  BY <1>1, <1>3 DEF Flow, InWritersHands
<1>4. ASSUME NEW p \in Producers, PushAccept(p, Offer(p)), pc[p] = "push",
             accepted' = Append(accepted, Offer(p)), written' = written
      PROVE  Flow'
  <2>1. Offer(p) \in Events
    BY <1>4, OfferType
  <2>2. Len(accepted') = Len(accepted) + 1 /\ Len(queue') = Len(queue) + 1
    BY <1>2, <1>4, <2>1, AppendProperties DEF PushAccept
  <2>3. InWritersHands' = InWritersHands /\ InWritersHands \in {0, 1}
    BY <1>1 DEF InWritersHands
  <2>4. /\ raised' = raised /\ written' = written
        /\ Len(accepted') = Len(accepted) + 1 /\ Len(queue') = Len(queue) + 1
    BY <1>1, <1>4, <2>2
  <2> QED
    BY <1>2, <2>3, <2>4 DEF Flow
<1>5. ASSUME NEW p \in Producers, Push(p) PROVE Flow'
  <2>1. pc[p] = "push" /\ written' = written
    BY <1>5 DEF Push
  <2>2. CASE PushWait(p) \/ PushClosed(p)
    BY <1>3, <1>5, <2>1, <2>2 DEF Push, PushWait, PushClosed, queueVars, PushAccept
  <2>3. CASE PushAccept(p, Offer(p)) /\ accepted' = Append(accepted, Offer(p))
    BY <1>4, <2>1, <2>3
  <2> QED
    BY <1>5, <2>2, <2>3 DEF Push
<1>6. ASSUME NEW p \in Producers, CallSubmit(p) \/ CheckError(p) \/ CheckStopping(p) \/ Count(p)
      PROVE  Flow'
  BY <1>3, <1>6 DEF CallSubmit, CheckError, CheckStopping, Count, queueVars
<1>7. CASE \E t \in Threads : Spurious(t)
  BY <1>3, <1>7 DEF Spurious, SpuriousWake, recorderVars
<1>8. CASE UNCHANGED vars
  BY <1>3, <1>8 DEF vars, recorderVars, queueVars
<1> QED
  BY <1>5, <1>6, <1>7, <1>8 DEF Submit

LEMMA FlowRun == ASSUME Typed, Phase, Flow, Run PROVE Flow'
<1>1. /\ LabelsOk /\ accepted \in Seq(Events) /\ queue \in Seq(Events) /\ written \in Nat
      /\ Len(accepted) \in Nat /\ Len(queue) \in Nat
  BY LenProperties DEF Typed, TypeOK
<1>2. CASE RunPop
  <2>1. UNCHANGED <<accepted, written, raised>> /\ pc[Writer] = "pop"
    BY <1>2 DEF RunPop
  <2>2. CASE PopWait(Writer) /\ UNCHANGED pc
    BY <2>1, <2>2 DEF PopWait, Flow, InWritersHands
  <2>3. CASE PopEnd(Writer) /\ Goto(Writer, "flush")
    <3>1. pc'[Writer] = "flush"
      BY <1>1, <2>3, WriterGoes DEF WriterLabels
    <3> QED
      BY <2>1, <2>3, <3>1 DEF PopEnd, queueVars, Flow, InWritersHands
  <2>4. CASE PopTake(Writer) /\ Goto(Writer, "append")
    <3>1. pc'[Writer] = "append"
      BY <1>1, <2>4, WriterGoes DEF WriterLabels
    <3>2. Len(queue') = Len(queue) - 1
      BY <1>1, <2>4, HeadTailProperties DEF PopTake
    <3> QED
      BY <1>1, <2>1, <3>1, <3>2 DEF Flow, InWritersHands
  <2> QED
    BY <1>2, <2>2, <2>3, <2>4 DEF RunPop
<1>3. CASE RunAppend
  <2>1. UNCHANGED <<accepted, queue, written>> /\ pc[Writer] = "append"
    BY <1>3 DEF RunAppend, queueVars
  <2>2. CASE raised' # "none"
    BY <2>2 DEF Flow
  <2>3. CASE Goto(Writer, "count") /\ UNCHANGED raised
    <3>1. pc'[Writer] = "count"
      BY <1>1, <2>3, WriterGoes DEF WriterLabels
    <3> QED
      BY <2>1, <2>3, <3>1 DEF Flow, InWritersHands
  <2> QED
    BY <1>3, <2>2, <2>3 DEF RunAppend
<1>4. CASE RunCount
  <2>1. /\ UNCHANGED <<accepted, queue, raised>> /\ pc[Writer] = "count"
        /\ written' = written + 1 /\ Goto(Writer, "pop")
    BY <1>4 DEF RunCount, queueVars
  <2>2. pc'[Writer] = "pop"
    BY <1>1, <2>1, WriterGoes DEF WriterLabels
  <2> QED
    BY <1>1, <2>1, <2>2 DEF Flow, InWritersHands
<1>5. CASE RunFlush
  <2>1. UNCHANGED <<accepted, queue, written>> /\ pc[Writer] = "flush"
    BY <1>5 DEF RunFlush, queueVars
  <2>2. CASE raised' # "none"
    BY <2>2 DEF Flow
  <2>3. CASE Goto(Writer, "done") /\ UNCHANGED raised
    <3>1. pc'[Writer] = "done"
      BY <1>1, <2>3, WriterGoes DEF WriterLabels
    <3> QED
      BY <2>1, <2>3, <3>1 DEF Flow, InWritersHands
  <2> QED
    BY <1>5, <2>2, <2>3 DEF RunFlush
<1>6. CASE RunCatch
  <2>1. raised # "none" /\ raised' = raised
    BY <1>6 DEF RunCatch, CloseQueue, Phase
  <2> QED
    BY <2>1 DEF Flow
<1> QED
  BY <1>2, <1>3, <1>4, <1>5, <1>6 DEF Run

LEMMA FlowStep == Typed /\ Phase /\ Flow /\ [Next]_vars => Flow'
<1> SUFFICES ASSUME Typed, Phase, Flow, [Next]_vars PROVE Flow'
  OBVIOUS
<1>1. CASE CallStop \/ CallDestructor \/ Stop
  <2>1. pc'[Writer] = pc[Writer]
    BY <1>1, StopGoes, OwnerGoes DEF Typed
  <2>2. UNCHANGED <<accepted, queue, written, raised>>
    BY <1>1 DEF CallStop, CallDestructor, Stop, StopClose, StopJoin, StopRethrow,
                DestroyWriter, CloseQueue, MarkClosed, NotifyAllNotEmpty,
                NotifyAllNotFull, queueVars
  <2> QED
    BY <2>1, <2>2 DEF Flow, InWritersHands
<1> QED
  BY <1>1, FlowRun, FlowCallers, ThreadsDiffer DEF Next, Terminated

-----------------------------------------------------------------------------
(* The theorem about the counters *)

CountsInv == IInv /\ Counts /\ Flow

LEMMA CountsInvariant == Spec => []CountsInv
<1>1. Init /\ IInv => CountsInv
  BY CountsInit DEF CountsInv
<1>2. IInv /\ CountsInv /\ [Next]_vars /\ IInv' => CountsInv'
  BY CountsStep, FlowStep DEF CountsInv, IInv
<1> QED
  BY <1>1, <1>2, Inductive, PTL DEF Spec

\* Once every producer has its answer, the counters of stats() are the answers
\* given and the events accepted, and after a normal stop() every one of them is
\* counted as written (async_recorder.cpp:24-63).
THEOREM CountersRight == Spec => []CountersAgree
<1>1. CountsInv => CountersAgree
  <2> SUFFICES ASSUME CountsInv, \A p \in Producers : pc[p] = "idle"
               PROVE  /\ submitted = Cardinality(ResultsWith("true"))
                      /\ submitted = Len(accepted)
                      /\ rejected = Cardinality(ResultsWith("false"))
                      /\ "ok" \in Range(stopResults) => written = submitted
    BY DEF CountersAgree
  <2>1. /\ Typed /\ Phase /\ Drained /\ Counts /\ Flow
    BY DEF CountsInv, IInv
  <2>2. submitted \in Nat /\ written \in Nat
    BY <2>1 DEF Typed, TypeOK
  <2>3. Counting = {}
    BY DEF Counting
  <2>4. submitted = Len(accepted)
    <3>1. Cardinality(Counting) = 0
      BY <2>3, FS_EmptySet
    <3> QED
      BY <2>1, <2>2, <3>1 DEF Counts
  <2>5. ASSUME "ok" \in Range(stopResults) PROVE written = submitted
    <3>1. PICK i \in DOMAIN stopResults : stopResults[i] = "ok"
      BY <2>5 DEF Range
    <3>2. stopResults # <<>>
      BY <3>1
    <3>3. pc[Writer] = "done" /\ writerError = "none" /\ raised = "none"
      BY <2>1, <3>1, <3>2 DEF Phase
    <3>4. Len(queue) = 0
      BY <2>1, <3>3 DEF Drained
    <3> QED
      BY <2>1, <2>2, <2>4, <3>3, <3>4 DEF Flow, InWritersHands
  <2> QED
    BY <2>1, <2>4, <2>5 DEF Counts
<1> QED
  BY <1>1, CountsInvariant, PTL

-----------------------------------------------------------------------------
(* What a reader of the file finds *)

\* How many events the first n units of the log hold.
Held(n) == IF n <= Len(FileHeader) THEN 0 ELSE n - Len(FileHeader)

\* What a reader of the file finds is a beginning of the accepted events.
LEMMA ReadableIs ==
  ASSUME Typed
  PROVE  \E m \in 0 .. Len(CompleteLog) :
           /\ m <= Len(file) /\ Held(m) \in 0 .. Len(accepted)
           /\ Readable = SubSeq(accepted, 1, Held(m))
           /\ \A k \in 0 .. Len(CompleteLog) :
                IsPrefix(SubSeq(CompleteLog, 1, k), file) => k <= m
<1>1. /\ file \in Seq(Units) /\ accepted \in Seq(Units) /\ FileHeader \in Seq(Units)
      /\ CompleteLog \in Seq(Units)
  BY PiecesTyped
<1>2. PICK log : log = LongestCommonPrefix({file, CompleteLog})
  OBVIOUS
<1>3. PICK m \in 0 .. Len(CompleteLog) :
        /\ m <= Len(file) /\ log = SubSeq(CompleteLog, 1, m)
        /\ \A k \in 0 .. Len(CompleteLog) :
             IsPrefix(SubSeq(CompleteLog, 1, k), file) => k <= m
  BY <1>1, <1>2, LongestCommon
<1>4. Readable = SubSeq(log, Len(FileHeader) + 1, Len(log))
  BY <1>2 DEF Readable
<1>5. /\ Held(m) \in 0 .. Len(accepted)
      /\ SubSeq(log, Len(FileHeader) + 1, Len(log)) = SubSeq(accepted, 1, Held(m))
  BY <1>1, <1>3, BeginningHolds DEF CompleteLog, Held
<1> QED
  BY <1>3, <1>4, <1>5

\* Until the stream is destroyed, it is all that the file holds.
LEMMA ReadableAll ==
  ASSUME Typed, Continued, pc[Owner] # "destroyed"
  PROVE  /\ Held(Len(file)) \in 0 .. Len(accepted)
         /\ Readable = SubSeq(accepted, 1, Held(Len(file)))
         /\ Len(file) \in 0 .. Len(CompleteLog)
         /\ file = SubSeq(CompleteLog, 1, Len(file))
<1>1. PICK rest \in Seq(Units) : CompleteLog = file \o rest
  BY DEF Continued
<1>2. file \in Seq(Units) /\ Len(file) \in Nat /\ CompleteLog \in Seq(Units)
  BY PiecesTyped, LenProperties
<1>3. Len(file) \in 0 .. Len(CompleteLog)
  BY <1>1, <1>2, ConcatProperties, LenProperties
<1>4. SubSeq(file, 1, Len(file)) = file
  BY <1>2, SubSeqFull
<1>5. SubSeq(CompleteLog, 1, Len(file)) = file
  <2>1. IsPrefix(file, CompleteLog)
    BY <1>1, <1>2, ContinuedIsPrefix
  <2> QED
    BY <1>4, <2>1 DEF IsPrefix
<1>6. IsPrefix(SubSeq(CompleteLog, 1, Len(file)), file)
  BY <1>2, <1>5 DEF IsPrefix
<1>7. PICK m \in 0 .. Len(CompleteLog) :
         /\ m <= Len(file) /\ Held(m) \in 0 .. Len(accepted)
         /\ Readable = SubSeq(accepted, 1, Held(m))
         /\ \A k \in 0 .. Len(CompleteLog) :
              IsPrefix(SubSeq(CompleteLog, 1, k), file) => k <= m
  BY ReadableIs
<1>8. m = Len(file)
  <2>1. Len(file) <= m
    BY <1>3, <1>6, <1>7
  <2> QED
    BY <1>2, <1>7, <2>1, LenProperties
<1> QED
  BY <1>3, <1>5, <1>7, <1>8

-----------------------------------------------------------------------------
(* The end of the recorder *)

\* The owner destroys the members in the destructor only, and nobody is inside
\* submit() then.
Leaving ==
  /\ pc[Owner] \in {"destroyWriter", "destroyed"} => destroying
  /\ destroying => \A p \in Producers : pc[p] = "idle"

LEMMA LeavingInit == Init => Leaving
<1> SUFFICES ASSUME Init PROVE Leaving
  OBVIOUS
<1>1. pc[Owner] = "idle" /\ destroying = FALSE
  BY ThreadsDiffer DEF Init
<1> QED
  BY <1>1 DEF Leaving

LEMMA LeavingStep == Typed /\ Leaving /\ [Next]_vars => Leaving'
<1> SUFFICES ASSUME Typed, Leaving, [Next]_vars PROVE Leaving'
  OBVIOUS
<1>1. LabelsOk
  BY DEF Typed
<1>2. ASSUME NEW p \in Producers, CallSubmit(p) \/ Submit(p) PROVE Leaving'
  <2>1. pc'[Owner] = pc[Owner]
    BY <1>2, CallersLeave
  <2>2. destroying' = destroying
    BY <1>2 DEF CallSubmit, Submit, CheckError, CheckStopping, Push, Count
  <2>3. ~destroying
    BY <1>2 DEF Leaving, CallSubmit, Submit, CheckError, CheckStopping, Push, Count
  <2> QED
    BY <2>1, <2>2, <2>3 DEF Leaving
<1>3. CASE Run
  <2>1. pc'[Owner] = pc[Owner] /\ \A p \in Producers : pc'[p] = pc[p]
    BY <1>1, <1>3, RunGoes, WriterGoes
  <2>2. destroying' = destroying
    BY <1>3 DEF Run, RunPop, RunAppend, RunCount, RunFlush, RunCatch
  <2> QED
    BY <2>1, <2>2 DEF Leaving
<1>4. CASE CallStop \/ CallDestructor
  <2>1. \A p \in Producers : pc'[p] = pc[p]
    BY <1>1, <1>4, StopGoes, OwnerGoes
  <2>2. pc'[Owner] \in {"join", "markClosed"}
    <3>1. Goto(Owner, "join") \/ Goto(Owner, "markClosed")
      BY <1>4 DEF CallStop, CallDestructor, StopExchange
    <3> QED
      BY <1>1, <3>1, OwnerGoes DEF OwnerLabels
  <2>3. destroying' => \A p \in Producers : pc[p] = "idle"
    BY <1>4 DEF CallStop, CallDestructor, Leaving
  <2> QED
    BY <2>1, <2>2, <2>3 DEF Leaving
<1>5. CASE StopClose \/ StopJoin
  <2>1. \A p \in Producers : pc'[p] = pc[p]
    BY <1>1, <1>5, StopGoes, OwnerGoes DEF Stop
  <2>2. destroying' = destroying
    BY <1>5 DEF StopClose, StopJoin
  <2>3. pc'[Owner] \in {"notifyEmpty", "notifyFull", "join", "rethrow"}
    <3>1. \E label \in {"notifyEmpty", "notifyFull", "join", "rethrow"} : Goto(Owner, label)
      BY <1>5 DEF StopClose, CloseQueue, StopJoin
    <3> QED
      BY <1>1, <3>1, OwnerGoes DEF OwnerLabels
  <2> QED
    BY <2>1, <2>2, <2>3 DEF Leaving
<1>6. CASE StopRethrow \/ DestroyWriter
  <2>1. \A p \in Producers : pc'[p] = pc[p]
    BY <1>1, <1>6, StopGoes, OwnerGoes DEF Stop
  <2>2. destroying' = destroying
    BY <1>6 DEF StopRethrow, DestroyWriter
  <2>3. destroying \/ pc'[Owner] = "idle"
    <3>1. destroying \/ Goto(Owner, "idle")
      BY <1>6 DEF StopRethrow, DestroyWriter, Leaving
    <3> QED
      BY <1>1, <3>1, OwnerGoes DEF OwnerLabels
  <2> QED
    BY <2>1, <2>2, <2>3 DEF Leaving
<1>7. CASE UNCHANGED vars \/ \E t \in Threads : Spurious(t)
  BY <1>7 DEF vars, recorderVars, Spurious, Leaving
<1> QED
  BY <1>2, <1>3, <1>4, <1>5, <1>6, <1>7, ThreadsDiffer DEF Next, Stop, Terminated

-----------------------------------------------------------------------------
(* What callers see *)

\* The recorder is no more.
Gone == pc[Owner] = "destroyed"

\* From this invariant each step is one of the contract's, or not seen outside.
ContractInv == IInv /\ Leaving

\* A step that changes nothing a caller can see.
LEMMA Unseen ==
  ASSUME UNCHANGED <<file, accepted, results, writerError, stopping, stopResults>>,
         Counting' = Counting, Gone' = Gone
  PROVE  UNCHANGED Contract!contractVars
<1>1. Readable' = Readable
  BY DEF Readable, CompleteLog
<1> QED
  BY <1>1 DEF Contract!contractVars, Counting, Gone

LEMMA Contracted == Spec => []ContractInv
<1>1. Init /\ IInv => ContractInv
  BY LeavingInit DEF ContractInv
<1>2. IInv /\ ContractInv /\ [Next]_vars /\ IInv' => ContractInv'
  BY LeavingStep DEF ContractInv, IInv
<1> QED
  BY <1>1, <1>2, Inductive, PTL DEF Spec

\* After a normal stop() the writer thread is over, without an exception, and
\* the queue is closed for good.
LEMMA CompleteMeans ==
  ASSUME IInv, Contract!Complete
  PROVE  pc[Writer] = "done" /\ writerError = "none" /\ closed
<1>1. PICK i \in DOMAIN stopResults : stopResults[i] = "ok"
  BY DEF Contract!Complete, Contract!Range
<1>2. stopResults # <<>>
  BY <1>1
<1>3. pc[Writer] = "done" /\ writerError = "none" /\ raised = "none"
  BY <1>1, <1>2 DEF IInv, Phase
<1> QED
  BY <1>3 DEF IInv, Drained

\* The same after a step.
LEMMA ReadableNext ==
  ASSUME ContractInv', pc'[Owner] # "destroyed"
  PROVE  /\ Held(Len(file')) \in 0 .. Len(accepted')
         /\ Readable' = SubSeq(accepted', 1, Held(Len(file')))
<1>1. Typed' /\ Continued'
  BY DEF ContractInv, IInv
<1>2. (pc[Owner] # "destroyed")'
  OBVIOUS
<1>3. (/\ Held(Len(file)) \in 0 .. Len(accepted)
       /\ Readable = SubSeq(accepted, 1, Held(Len(file)))
       /\ Len(file) \in 0 .. Len(CompleteLog)
       /\ file = SubSeq(CompleteLog, 1, Len(file)))'
  BY <1>1, <1>2, ReadableAll, PTL
<1> QED
  BY <1>3 DEF Held

\* The longer the file, the more events it holds.
LEMMA HeldGrows ==
  ASSUME NEW n \in Nat, NEW m \in Nat, n <= m
  PROVE  Held(n) <= Held(m)
BY HeaderType, LenProperties DEF Held

\* A step of the writer thread that sends something to the file.
LEMMA FileSaves ==
  ASSUME ContractInv, ContractInv', NEW x \in Seq(Units), file' = file \o x,
         UNCHANGED <<accepted, results, writerError, stopping, stopResults>>,
         Counting' = Counting, Gone' = Gone, ~Gone
  PROVE  UNCHANGED Contract!contractVars \/ Contract!Save
<1> DEFINE n == Held(Len(file))
           m == Held(Len(file'))
<1>1. /\ n \in 0 .. Len(accepted) /\ Readable = SubSeq(accepted, 1, n)
      /\ file \in Seq(Units) /\ accepted \in Seq(Events)
  BY ReadableAll, PiecesTyped DEF ContractInv, IInv, Gone, Typed, TypeOK
<1>2. m \in 0 .. Len(accepted) /\ Readable' = SubSeq(accepted, 1, m)
  BY ReadableNext DEF Gone
<1>3. n <= m
  <2>1. Len(file) \in Nat /\ Len(file') \in Nat /\ Len(file) <= Len(file')
    BY <1>1, ConcatProperties, LenProperties
  <2> QED
    BY <2>1, HeldGrows
<1>4. Len(Readable) = n /\ Len(accepted) \in Nat
  BY <1>1, FirstOnesLength, LenProperties
<1> HIDE DEF n, m
<1>5. CASE n = m
  BY <1>1, <1>2, <1>5 DEF Contract!contractVars, Counting, Gone
<1>6. CASE n # m
  <2>1. m \in Len(Readable) + 1 .. Len(accepted)
    BY <1>1, <1>2, <1>3, <1>4, <1>6
  <2>2. \E k \in Len(Readable) + 1 .. Len(accepted) : Readable' = SubSeq(accepted, 1, k)
    BY <1>2, <2>1
  <2> QED
    BY <2>2 DEF Contract!Save, Counting, Gone
<1> QED
  BY <1>5, <1>6

\* Two pieces behind a file are one piece behind it.
LEMMA OneAddition ==
  \A a, b, c \in Seq(Units) :
    \E x \in Seq(Units) : Joint(Joint(a, b), c) = Joint(a, x)
BY JointTyped, JointAssociative

\* append() and flush() only add to the file.
LEMMA FileGrows ==
  ASSUME Typed, RunAppend \/ RunFlush
  PROVE  \E x \in Seq(Units) : file' = file \o x
<1>1. /\ file \in Seq(Units) /\ pending \in Seq(Units) /\ buffer \in Seq(Units)
      /\ <<>> \in Seq(Units)
  BY PiecesTyped
<1>2. CASE file' = file
  BY <1>1, <1>2, ConcatEmptySeq
<1>3. ASSUME NEW data \in Seq(Units), file' = file \o pending \o data
      PROVE  \E x \in Seq(Units) : file' = file \o x
  <2>1. \E x \in Seq(Units) : Joint(Joint(file, pending), data) = Joint(file, x)
    BY <1>1, OneAddition
  <2> QED
    BY <1>3, <2>1 DEF Joint
<1>4. ASSUME NEW data \in Seq(Units), NEW n \in 0 .. Len(data),
             file' = file \o SubSeq(data, 1, n)
      PROVE  \E x \in Seq(Units) : file' = file \o x
  BY <1>4, PrefixType
<1>5. CASE RunAppend
  <2> DEFINE contents == Joint(buffer, Encoding[event])
  <2>1. event \in Events
    BY <1>5 DEF RunAppend, Typed
  <2>2. Encoding[event] \in Seq(Units)
    BY <2>1, RecordType
  <2>3. contents \in Seq(Units)
    BY <1>1, <2>2, JointTyped
  <2>4. file' = file \/ StreamWrite(contents) \/ StreamFail(contents)
    BY <1>5 DEF RunAppend, AppendBuffered, AppendWritten, AppendIoError,
                AppendFormatError, writerVars, Joint
  <2> HIDE DEF contents
  <2>5. CASE StreamWrite(contents)
    BY <1>2, <1>3, <2>3, <2>5 DEF StreamWrite
  <2>6. CASE StreamFail(contents)
    <3>1. pending \o contents \in Seq(Units)
      BY <1>1, <2>3, Joined
    <3> QED
      BY <1>2, <1>4, <2>6, <3>1 DEF StreamFail
  <2> QED
    BY <1>2, <2>4, <2>5, <2>6
<1>6. CASE RunFlush
  <2>1. pending \o buffer \in Seq(Units)
    BY <1>1, Joined
  <2>2. CASE FlushOk
    BY <1>1, <1>3, <2>2 DEF FlushOk
  <2>3. CASE FlushIoError
    BY <1>2, <1>4, <2>1, <2>3 DEF FlushIoError, StreamFail
  <2> QED
    BY <1>6, <2>2, <2>3 DEF RunFlush
<1> QED
  BY <1>5, <1>6

\* The last thing that the destructor sends comes behind what is in the file.
LEMMA DestroyGrows ==
  ASSUME Typed, DestroyWriter
  PROVE  \E x \in Seq(Units) : file' = file \o x
<1>1. /\ file \in Seq(Units) /\ pending \in Seq(Units) /\ buffer \in Seq(Units)
      /\ <<>> \in Seq(Units) /\ pending \o buffer \in Seq(Units)
  BY PiecesTyped, Joined
<1>2. CASE file' = file
  BY <1>1, <1>2, ConcatEmptySeq
<1>3. CASE file' = file \o pending \o buffer
  <2>1. \E x \in Seq(Units) : Joint(Joint(file, pending), buffer) = Joint(file, x)
    BY <1>1, OneAddition
  <2> QED
    BY <1>3, <2>1 DEF Joint
<1>4. CASE DestroyIoError
  <2>1. PICK area \in Seq(Units) :
          \E first \in 0 .. Len(area), again \in 0 .. Len(area) :
            file' = file \o SubSeq(area, 1, first) \o SubSeq(area, 1, again)
    BY <1>1, <1>4 DEF DestroyIoError
  <2>2. PICK first \in 0 .. Len(area), again \in 0 .. Len(area) :
            file' = file \o SubSeq(area, 1, first) \o SubSeq(area, 1, again)
    BY <2>1
  <2>3. PICK a \in Seq(Units), b \in Seq(Units) :
            a = SubSeq(area, 1, first) /\ b = SubSeq(area, 1, again)
    BY PrefixType
  <2>4. \E x \in Seq(Units) : Joint(Joint(file, a), b) = Joint(file, x)
    BY <1>1, OneAddition
  <2> QED
    BY <2>2, <2>3, <2>4 DEF Joint
<1> QED
  BY <1>2, <1>3, <1>4 DEF DestroyWriter, DestroyOk, CloseOk, CloseAgain, writerVars

\* The complete log holds every accepted event, and so does the file of a
\* recorder whose writer thread ended normally.
LEMMA WholeLogHolds ==
  ASSUME Typed
  PROVE  Held(Len(CompleteLog)) = Len(accepted)
<1>1. FileHeader \in Seq(Units) /\ accepted \in Seq(Units)
  BY PiecesTyped
<1>2. /\ Len(FileHeader) \in Nat /\ Len(accepted) \in Nat
      /\ Len(CompleteLog) = Len(FileHeader) + Len(accepted)
  BY <1>1, ConcatProperties, LenProperties DEF CompleteLog
<1> QED
  BY <1>2 DEF Held

LEMMA ReadableComplete ==
  ASSUME ContractInv, pc[Writer] = "done", raised = "none", pc[Owner] # "destroyed"
  PROVE  Readable = accepted
<1>1. file = CompleteLog
  BY AllInFile DEF ContractInv
<1>2. Readable = SubSeq(accepted, 1, Held(Len(file)))
  BY ReadableAll DEF ContractInv, IInv
<1>3. Held(Len(file)) = Len(accepted) /\ accepted \in Seq(Events)
  BY <1>1, WholeLogHolds DEF ContractInv, IInv, Typed, TypeOK
<1> QED
  BY <1>2, <1>3, SubSeqFull

\* What the destructor does to the file takes no event away.
LEMMA DestroyReadable ==
  ASSUME ContractInv, ContractInv', DestroyWriter, accepted' = accepted,
         pc[Owner] # "destroyed", pc[Writer] = "done", writerError = raised
  PROVE  \E n \in Len(Readable) .. Len(accepted) :
           /\ writerError = "none" => n = Len(accepted)
           /\ Readable' = SubSeq(accepted, 1, n)
<1>1. Typed /\ Typed' /\ Continued
  BY DEF ContractInv, IInv
<1>2. CompleteLog' = CompleteLog
  BY DEF CompleteLog
<1>3. (\E m \in 0 .. Len(CompleteLog) :
         /\ m <= Len(file) /\ Held(m) \in 0 .. Len(accepted)
         /\ Readable = SubSeq(accepted, 1, Held(m))
         /\ \A k \in 0 .. Len(CompleteLog) :
              IsPrefix(SubSeq(CompleteLog, 1, k), file) => k <= m)'
  BY <1>1, ReadableIs, PTL
<1>4. PICK m \in 0 .. Len(CompleteLog) :
         /\ Held(m) \in 0 .. Len(accepted)
         /\ Readable' = SubSeq(accepted, 1, Held(m))
         /\ \A k \in 0 .. Len(CompleteLog) :
              IsPrefix(SubSeq(CompleteLog, 1, k), file') => k <= m
  BY <1>2, <1>3 DEF Held
<1>5. /\ Held(Len(file)) \in 0 .. Len(accepted)
      /\ Readable = SubSeq(accepted, 1, Held(Len(file)))
      /\ Len(file) \in 0 .. Len(CompleteLog)
      /\ file = SubSeq(CompleteLog, 1, Len(file))
  BY <1>1, ReadableAll
<1>6. /\ file \in Seq(Units) /\ accepted \in Seq(Events)
      /\ Len(CompleteLog) \in Nat /\ Len(accepted) \in Nat
  BY <1>1, PiecesTyped, LenProperties DEF Typed, TypeOK
<1>7. Len(file) <= m
  <2>1. PICK x \in Seq(Units) : file' = file \o x
    BY <1>1, DestroyGrows
  <2>2. IsPrefix(file, file')
    BY <1>6, <2>1, ContinuedIsPrefix
  <2> QED
    BY <1>4, <1>5, <2>2
<1>8. Len(Readable) = Held(Len(file))
  BY <1>5, <1>6, FirstOnesLength
<1>9. Held(Len(file)) <= Held(m)
  BY <1>4, <1>5, <1>6, <1>7, HeldGrows
<1>10. Held(m) \in Len(Readable) .. Len(accepted)
  BY <1>4, <1>5, <1>6, <1>8, <1>9
<1>11. ASSUME writerError = "none" PROVE Held(m) = Len(accepted)
  <2>1. file = CompleteLog
    BY <1>11, AllInFile DEF ContractInv
  <2>2. m = Len(CompleteLog)
    BY <1>4, <1>6, <1>7, <2>1
  <2> QED
    BY <1>1, <2>2, WholeLogHolds
<1> QED
  BY <1>4, <1>10, <1>11

-----------------------------------------------------------------------------
(* Each step is one of the contract's, or is not seen *)

LEMMA InitialContract == Init => Contract!ContractInit
<1> SUFFICES ASSUME Init PROVE Contract!ContractInit
  OBVIOUS
<1>1. Typed /\ Continued
  BY TypedInit, ContinuedInit
<1>2. pc[Owner] = "idle" /\ \A p \in Producers : pc[p] = "idle"
  BY ThreadsDiffer DEF Init
<1>3. Readable = <<>>
  <2>1. accepted = <<>>
    BY DEF Init
  <2>2. Held(Len(file)) \in 0 .. Len(accepted) /\ Readable = SubSeq(accepted, 1, Held(Len(file)))
    BY <1>1, <1>2, ReadableAll
  <2>3. Held(Len(file)) = 0
    BY <2>1, <2>2
  <2> QED
    BY <2>2, <2>3, SubSeqEmpty
<1> QED
  BY <1>2, <1>3 DEF Init, Contract!ContractInit

\* What the label of one producer says about the events not counted yet.
LEMMA CountingBy ==
  ASSUME NEW p \in Producers, \A q \in Producers : q # p => pc'[q] = pc[q]
  PROVE  Counting' = IF pc'[p] = "countSubmitted" THEN Counting \cup {p} ELSE Counting \ {p}
BY DEF Counting

LEMMA CountingStays ==
  ASSUME \A q \in Producers : pc'[q] = pc[q]
  PROVE  Counting' = Counting
BY DEF Counting

\* A step of the contract, or one that is not seen.
ContractStep == [Contract!ContractNext]_(Contract!contractVars)

LEMMA UnseenStep == UNCHANGED Contract!contractVars => ContractStep
BY DEF ContractStep

LEMMA AcceptStep ==
  ASSUME NEW p \in Producers, NEW e \in Events, Contract!Accept(p, e)
  PROVE  ContractStep
BY DEF ContractStep, Contract!ContractNext

LEMMA SubmitterSteps ==
  ASSUME NEW p \in Producers,
         \/ Contract!AnswerTrue(p) \/ Contract!AnswerFalse(p) \/ Contract!AnswerThrew(p)
  PROVE  ContractStep
BY DEF ContractStep, Contract!ContractNext

LEMMA RecorderSteps ==
  ASSUME \/ Contract!Save \/ Contract!Fail \/ Contract!StopBegins
         \/ Contract!StopOk \/ Contract!StopThrew \/ Contract!Destroyed
  PROVE  ContractStep
BY DEF ContractStep, Contract!ContractNext

LEMMA SubmitContract ==
  ASSUME ContractInv, ContractInv', [Next]_vars,
         NEW p \in Producers, CallSubmit(p) \/ Submit(p)
  PROVE  ContractStep
<1>1. LabelsOk /\ Typed /\ Typed'
  BY DEF ContractInv, IInv, Typed
<1>2. /\ UNCHANGED <<writerError, stopResults, stopping, file>> /\ Gone' = Gone
      /\ pc'[Owner] = pc[Owner]
  BY <1>1, CallersLeave DEF Gone, writerVars
<1>3. ~destroying
  BY DEF ContractInv, Leaving, CallSubmit, Submit, CheckError, CheckStopping, Push, Count
<1>4. ~Gone
  BY <1>3 DEF ContractInv, Leaving, Gone
<1>5. \A label \in ProducerLabels : Goto(p, label) =>
        pc'[p] = label /\ \A q \in Producers : q # p => pc'[q] = pc[q]
  BY <1>1, ProducerGoes, ThreadsDiffer
\* The label changes and nothing else, and the event is not in.
<1>6. ASSUME NEW label \in ProducerLabels \ {"countSubmitted"}, Goto(p, label),
             pc[p] # "countSubmitted", UNCHANGED <<accepted, results>>
      PROVE  ContractStep
  <2>1. p \notin Counting
    BY <1>6 DEF Counting
  <2>2. Counting' = Counting
    BY <1>5, <1>6, <2>1, CountingBy
  <2> QED
    BY <1>2, <1>6, <2>2, Unseen, UnseenStep
<1>7. CASE CallSubmit(p) \/ CheckStopping(p)
  <2>1. \E label \in ProducerLabels \ {"countSubmitted"} : Goto(p, label)
    BY <1>7 DEF CallSubmit, CheckStopping, ProducerLabels
  <2>2. pc[p] # "countSubmitted" /\ UNCHANGED <<accepted, results>>
    BY <1>7 DEF CallSubmit, CheckStopping
  <2> QED
    BY <1>6, <2>1, <2>2
<1>8. CASE CheckError(p)
  <2>1. pc[p] = "checkError" /\ UNCHANGED accepted
    BY <1>8 DEF CheckError
  <2>2. CASE Goto(p, "checkStopping") /\ UNCHANGED results
    <3>1. "checkStopping" \in ProducerLabels \ {"countSubmitted"}
      BY DEF ProducerLabels
    <3> QED
      BY <1>6, <2>1, <2>2, <3>1
  <2>3. CASE writerError # "none" /\ Return(p, "threw")
    <3>1. pc'[p] = "idle" /\ \A q \in Producers : q # p => pc'[q] = pc[q]
      BY <1>5, <2>3 DEF Return, ProducerLabels
    <3>2. p \notin Counting
      BY <2>1 DEF Counting
    <3>3. Counting' = Counting
      BY <3>1, <3>2, CountingBy
    <3>4. Readable' = Readable
      BY <1>2, <2>1 DEF Readable, CompleteLog
    <3>5. Contract!AnswerThrew(p)
      BY <1>2, <1>4, <2>1, <2>3, <3>2, <3>3, <3>4
      DEF Contract!AnswerThrew, Contract!AnswerWith, Return, Counting, Gone
    <3> QED
      BY <3>5, SubmitterSteps
  <2> QED
    BY <1>8, <2>2, <2>3 DEF CheckError
<1>9. CASE Push(p)
  <2>1. pc[p] = "push" /\ UNCHANGED results
    BY <1>9 DEF Push
  <2>2. CASE UNCHANGED <<pc, accepted>>
    <3>1. Counting' = Counting
      BY <2>2, CountingStays
    <3> QED
      BY <1>2, <2>1, <2>2, <3>1, Unseen, UnseenStep
  <2>3. CASE Goto(p, "countRejected") /\ UNCHANGED accepted
    <3>1. "countRejected" \in ProducerLabels \ {"countSubmitted"}
      BY DEF ProducerLabels
    <3> QED
      BY <1>6, <2>1, <2>3, <3>1
  <2>4. CASE PushAccept(p, Offer(p)) /\ accepted' = Append(accepted, Offer(p))
             /\ Goto(p, "countSubmitted")
    <3>1. Offer(p) \in Events
      BY <1>1, <2>1, OfferType
    <3>2. pc'[p] = "countSubmitted" /\ \A q \in Producers : q # p => pc'[q] = pc[q]
      BY <1>5, <2>4 DEF ProducerLabels
    <3>3. p \notin Counting /\ Counting' = Counting \cup {p}
      BY <2>1, <3>2, CountingBy DEF Counting
    <3>4. ~closed
      BY <2>4 DEF PushAccept
    <3>5. ~Contract!Complete
      BY <3>4, CompleteMeans DEF ContractInv
    <3>6. Readable' = Readable
      <4>1. /\ Held(Len(file)) \in 0 .. Len(accepted)
            /\ Readable = SubSeq(accepted, 1, Held(Len(file)))
        BY <1>4, ReadableAll DEF ContractInv, IInv, Gone
      <4>2. Readable' = SubSeq(accepted', 1, Held(Len(file)))
        BY <1>2, <1>4, ReadableNext DEF Gone
      <4>3. accepted \in Seq(Events)
        BY <1>1 DEF Typed, TypeOK
      <4> QED
        BY <2>4, <3>1, <4>1, <4>2, <4>3, FirstOnes
    <3>7. PICK e \in Events : e = Offer(p)
      BY <3>1
    <3>8. Contract!Accept(p, e)
      BY <1>2, <1>4, <2>1, <2>4, <3>3, <3>5, <3>6, <3>7 DEF Contract!Accept, Counting, Gone
    <3> QED
      BY <3>8, AcceptStep
  <2> QED
    BY <1>9, <2>2, <2>3, <2>4 DEF Push
<1>10. CASE Count(p)
  <2>1. UNCHANGED accepted
    BY <1>10 DEF Count
  <2>2. Readable' = Readable
    BY <1>2, <2>1 DEF Readable, CompleteLog
  <2>3. ASSUME NEW r, Return(p, r)
        PROVE  /\ Counting' = Counting \ {p}
               /\ results' = [results EXCEPT ![p] = Append(@, r)]
    <3>1. pc'[p] = "idle" /\ \A q \in Producers : q # p => pc'[q] = pc[q]
      BY <1>5, <2>3 DEF Return, ProducerLabels
    <3>2. Counting' = Counting \ {p}
      BY <3>1, CountingBy
    <3> QED
      BY <2>3, <3>2 DEF Return
  <2>4. CASE pc[p] = "countSubmitted" /\ Return(p, "true")
    <3>1. p \in Counting
      BY <2>4 DEF Counting
    <3>2. Contract!AnswerTrue(p)
      BY <1>2, <2>1, <2>2, <2>3, <2>4, <3>1
      DEF Contract!AnswerTrue, Contract!AnswerWith, Counting, Gone
    <3> QED
      BY <3>2, SubmitterSteps
  <2>5. CASE pc[p] = "countRejected" /\ Return(p, "false")
    <3>1. p \notin Counting
      BY <2>5 DEF Counting
    <3>2. Counting' = Counting
      BY <2>3, <2>5, <3>1
    <3>3. stopping \/ writerError # "none"
      BY <2>5 DEF ContractInv, IInv, Reasons
    <3>4. Contract!AnswerFalse(p)
      BY <1>2, <1>4, <2>1, <2>2, <2>3, <2>5, <3>1, <3>2, <3>3
      DEF Contract!AnswerFalse, Contract!AnswerWith, Counting, Gone
    <3> QED
      BY <3>4, SubmitterSteps
  <2> QED
    BY <1>10, <2>4, <2>5 DEF Count
<1> QED
  BY <1>7, <1>8, <1>9, <1>10 DEF Submit

LEMMA RunContract ==
  ASSUME ContractInv, ContractInv', [Next]_vars, Run
  PROVE  ContractStep
<1>1. LabelsOk /\ Typed /\ Phase
  BY DEF ContractInv, IInv, Typed
<1>2. pc'[Owner] = pc[Owner] /\ \A p \in Producers : pc'[p] = pc[p]
  BY <1>1, RunGoes, WriterGoes
<1>3. Counting' = Counting /\ Gone' = Gone
  BY <1>2, CountingStays DEF Gone
<1>4. pc[Writer] # "done"
  BY DEF Run, RunPop, RunAppend, RunCount, RunFlush, RunCatch, CloseQueue
<1>5. ~Gone
  BY <1>1, <1>4 DEF Phase, Gone
<1>6. UNCHANGED <<accepted, results, stopping, stopResults>>
  BY DEF Run, RunPop, RunAppend, RunCount, RunFlush, RunCatch
<1>7. CASE RunPop \/ RunCount
  <2>1. UNCHANGED <<file, writerError>>
    BY <1>7 DEF RunPop, RunCount, writerVars
  <2> QED
    BY <1>3, <1>6, <2>1, Unseen, UnseenStep
<1>8. CASE RunAppend \/ RunFlush
  <2>1. UNCHANGED writerError
    BY <1>8 DEF RunAppend, RunFlush
  <2>2. PICK x \in Seq(Units) : file' = file \o x
    BY <1>1, <1>8, FileGrows
  <2>3. UNCHANGED Contract!contractVars \/ Contract!Save
    BY <1>3, <1>5, <1>6, <2>1, <2>2, FileSaves
  <2> QED
    BY <2>3, UnseenStep, RecorderSteps
<1>9. CASE RunCatch
  <2>1. UNCHANGED file
    BY <1>9 DEF RunCatch, writerVars
  <2>2. CASE writerError' = writerError
    BY <1>3, <1>6, <2>1, <2>2, Unseen, UnseenStep
  <2>3. CASE pc[Writer] = "setError" /\ writerError' # writerError
    <3>1. raised \in {"none", "io", "format"} /\ raised # "none" /\ writerError = "none"
      BY <1>1, <2>3 DEF Phase, Typed, TypeOK
    <3>2. writerError' \in {"io", "format"}
      BY <1>9, <2>3, <3>1 DEF RunCatch, CloseQueue
    <3>3. ~Contract!Complete
      BY <1>4, CompleteMeans DEF ContractInv
    <3>4. Readable' = Readable
      BY <1>6, <2>1 DEF Readable, CompleteLog
    <3>5. Contract!Fail
      BY <1>3, <1>5, <1>6, <3>1, <3>2, <3>3, <3>4 DEF Contract!Fail, Counting, Gone
    <3> QED
      BY <3>5, RecorderSteps
  <2> QED
    BY <1>9, <2>2, <2>3 DEF RunCatch
<1> QED
  BY <1>7, <1>8, <1>9 DEF Run

LEMMA StopContract ==
  ASSUME ContractInv, ContractInv', [Next]_vars, CallStop \/ CallDestructor \/ Stop
  PROVE  ContractStep
<1>1. LabelsOk /\ Typed /\ Phase /\ Reasons
  BY DEF ContractInv, IInv, Typed
<1>2. \A p \in Producers : pc'[p] = pc[p]
  BY <1>1, StopGoes, OwnerGoes
<1>3. Counting' = Counting
  BY <1>2, CountingStays
<1>4. UNCHANGED <<accepted, results, writerError>>
  BY DEF CallStop, CallDestructor, Stop, StopClose, StopJoin, StopRethrow, DestroyWriter
<1>5. ~Gone
  BY DEF CallStop, CallDestructor, Stop, StopClose, CloseQueue, StopJoin, StopRethrow,
         DestroyWriter, Gone
<1>6. \A label \in OwnerLabels : Goto(Owner, label) => pc'[Owner] = label
  BY <1>1, OwnerGoes
<1>7. CASE CallStop \/ CallDestructor
  <2>1. UNCHANGED <<file, stopResults>> /\ stopping' = TRUE
    BY <1>7 DEF CallStop, CallDestructor, StopExchange, writerVars
  <2>2. pc'[Owner] \in {"join", "markClosed"}
    BY <1>6, <1>7 DEF CallStop, CallDestructor, StopExchange, OwnerLabels
  <2>3. ~Gone'
    BY <2>2 DEF Gone
  <2>4. Readable' = Readable
    BY <1>4, <2>1 DEF Readable, CompleteLog
  <2>5. Contract!StopBegins
    BY <1>3, <1>4, <1>5, <2>1, <2>3, <2>4 DEF Contract!StopBegins, Counting, Gone
  <2> QED
    BY <2>5, RecorderSteps
<1>8. CASE StopClose \/ StopJoin
  <2>1. UNCHANGED <<file, stopping, stopResults>>
    BY <1>8 DEF StopClose, StopJoin, writerVars
  <2>2. pc'[Owner] \in {"notifyEmpty", "notifyFull", "join", "rethrow"}
    BY <1>6, <1>8 DEF StopClose, CloseQueue, StopJoin, OwnerLabels
  <2>3. Gone' = Gone
    BY <1>5, <2>2 DEF Gone
  <2> QED
    BY <1>3, <1>4, <2>1, <2>3, Unseen, UnseenStep
<1>9. CASE StopRethrow
  <2>1. UNCHANGED <<file, stopping>> /\ pc[Owner] = "rethrow"
    BY <1>9 DEF StopRethrow, writerVars
  <2>2. pc'[Owner] \in {"destroyWriter", "idle"}
    BY <1>6, <1>9 DEF StopRethrow, OwnerLabels
  <2>3. ~Gone'
    BY <2>2 DEF Gone
  <2>4. stopping /\ pc[Writer] = "done" /\ writerError = raised
    BY <1>1, <2>1 DEF Phase, Reasons
  <2>5. Readable' = Readable
    BY <1>4, <2>1 DEF Readable, CompleteLog
  <2>6. CASE stopResults' = stopResults
    <3>1. Gone' = Gone
      BY <1>5, <2>2 DEF Gone
    <3> QED
      BY <1>3, <1>4, <2>1, <2>6, <3>1, Unseen, UnseenStep
  <2>7. CASE writerError # "none" /\ stopResults' = Append(stopResults, "threw")
    <3>1. Contract!StopThrew
      BY <1>3, <1>4, <1>5, <2>1, <2>3, <2>4, <2>5, <2>7
      DEF Contract!StopThrew, Counting, Gone
    <3> QED
      BY <3>1, RecorderSteps
  <2>8. CASE writerError = "none" /\ stopResults' = Append(stopResults, "ok")
    <3>1. Readable = accepted
      BY <1>5, <2>4, <2>8, ReadableComplete DEF ContractInv, Gone
    <3>2. Contract!StopOk
      BY <1>3, <1>4, <1>5, <2>1, <2>3, <2>4, <2>5, <2>8, <3>1
      DEF Contract!StopOk, Counting, Gone
    <3> QED
      BY <3>2, RecorderSteps
  <2> QED
    BY <1>9, <2>6, <2>7, <2>8 DEF StopRethrow
<1>10. CASE DestroyWriter
  <2>1. UNCHANGED <<stopping, stopResults>> /\ pc[Owner] = "destroyWriter"
    BY <1>10 DEF DestroyWriter
  <2>2. Gone'
    BY <1>6, <1>10 DEF DestroyWriter, OwnerLabels, Gone
  <2>3. stopping /\ pc[Writer] = "done" /\ writerError = raised
    BY <1>1, <2>1 DEF Phase, Reasons
  <2>4. Counting = {}
    BY <2>1 DEF ContractInv, Leaving, Counting
  <2>5. \E n \in Len(Readable) .. Len(accepted) :
           /\ writerError = "none" => n = Len(accepted)
           /\ Readable' = SubSeq(accepted, 1, n)
    BY <1>4, <1>10, <2>1, <2>3, DestroyReadable
  <2>6. Contract!Destroyed
    BY <1>3, <1>4, <1>5, <2>1, <2>2, <2>3, <2>4, <2>5
    DEF Contract!Destroyed, Counting, Gone
  <2> QED
    BY <2>6, RecorderSteps
<1> QED
  BY <1>7, <1>8, <1>9, <1>10 DEF Stop

LEMMA ContractedStep ==
  ASSUME ContractInv, ContractInv', [Next]_vars
  PROVE  ContractStep
<1>1. CASE UNCHANGED vars \/ \E t \in Threads : Spurious(t)
  <2>1. UNCHANGED <<file, accepted, results, writerError, stopping, stopResults, pc>>
    BY <1>1 DEF vars, Spurious, recorderVars, writerVars
  <2>2. Counting' = Counting /\ Gone' = Gone
    BY <2>1 DEF Counting, Gone
  <2> QED
    BY <2>1, <2>2, Unseen, UnseenStep
<1> QED
  BY <1>1, SubmitContract, RunContract, StopContract, ThreadsDiffer DEF Next, Terminated

\* The recorder is the one its callers are promised, whatever fails and however
\* threads take turns: an event enters the log at one moment inside its call of
\* submit, the file grows by accepted events in order, a failure stays, a normal
\* stop() closes the log for good (async_recorder.hpp:62-84).
THEOREM KeepsItsContract == Spec => ImplementsContract
<1>1. ContractInv /\ [Next]_vars /\ ContractInv'
        => [Contract!ContractNext]_(Contract!contractVars)
  BY ContractedStep DEF ContractStep
<1> QED
  BY <1>1, InitialContract, Contracted, PTL
  DEF Spec, ImplementsContract, Contract!ContractSpec
=============================================================================
