-------------------------- MODULE BinaryLogProofs --------------------------
(***************************************************************************)
(* Proofs about BinaryLog: the writer, the file and the reader together,   *)
(* for all records, plans, thresholds and faults.                          *)
(***************************************************************************)
EXTENDS BinaryLog, BinaryLogReaderFacts

\* All that was laid out.
CompleteLog == FileHeader \o Records(appended)

LEMMA PlanParameters ==
  Plan \in Seq(Events) /\ Damages \in Nat /\ MaxNexts \in Nat
BY LogAssumption

\* TypeOK, with what the places between the writer and the file hold.
Typed ==
  /\ ReaderTyped
  /\ pending \in Seq(Units) /\ buffer \in Seq(Units)
  /\ appended \in Seq(Events)
  /\ {streamOk, logClosed, powerLost, sealed} \subseteq BOOLEAN
  /\ writerPc \in {"alive", "destroyed", "crashed"}
  /\ offered \in 0 .. Len(Plan) /\ damaged \in 0 .. Damages
  /\ eventsWritten \in Nat /\ bytesWritten \in Nat

LEMMA StreamWriteTyped ==
  ASSUME Typed, NEW data \in Seq(Units), StreamWrite(data)
  PROVE  pending' \in Seq(Units) /\ FileGrows /\ streamOk' /\ streamOk' \in BOOLEAN
<1>1. file \in Seq(Units) /\ pending \in Seq(Units) /\ pending \o data \in Seq(Units)
  BY Joined DEF Typed, ReaderTyped
<1>2. CASE pending' = pending \o data /\ UNCHANGED file
  BY <1>1, <1>2, Stays DEF StreamWrite, Typed, ReaderTyped
<1>3. CASE file' = file \o pending \o data /\ pending' = <<>>
  <2>1. file \o pending \o data = file \o (pending \o data)
    BY <1>1, Regrouped
  <2>2. FileGrows
    BY <1>1, <1>3, <2>1 DEF FileGrows
  <2> QED
    BY <1>3, <2>2, EmptySeq DEF StreamWrite, Typed, ReaderTyped
<1> QED
  BY <1>2, <1>3 DEF StreamWrite

\* A failed write leaves a part of the put area and the data in the file.
LEMMA StreamFailTyped ==
  ASSUME Typed, NEW data \in Seq(Units), StreamFail(data)
  PROVE  pending' = pending /\ FileGrows /\ ~streamOk' /\ streamOk' \in BOOLEAN
<1>1. pending \o data \in Seq(Units)
  BY Joined DEF Typed, ReaderTyped
<1>2. CASE ~streamOk /\ UNCHANGED <<file, streamOk>>
  BY <1>2, Stays DEF StreamFail, Typed, ReaderTyped
<1>3. CASE DiskFaults /\ streamOk /\ streamOk' = FALSE
             /\ \E n \in 0 .. Len(pending \o data) :
                  file' = file \o SubSeq(pending \o data, 1, n)
  <2>1. PICK n \in 0 .. Len(pending \o data) :
               file' = file \o SubSeq(pending \o data, 1, n)
    BY <1>3
  <2>2. SubSeq(pending \o data, 1, n) \in Seq(Units)
    BY <1>1, CutInTwo
  <2> QED
    BY <1>3, <2>1, <2>2 DEF StreamFail, FileGrows
<1> QED
  BY <1>2, <1>3 DEF StreamFail

\* What the calls of the writer do to its pieces.
PiecesTyped ==
  /\ pending' \in Seq(Units) /\ buffer' \in Seq(Units) /\ FileGrows
  /\ streamOk' \in BOOLEAN /\ logClosed' \in BOOLEAN
  /\ eventsWritten' \in Nat /\ bytesWritten' \in Nat

LEMMA AppendTyped ==
  ASSUME Typed, NEW e \in Events,
         AppendBuffered(e) \/ AppendWritten(e) \/ AppendIoError(e)
  PROVE  PiecesTyped
<1>1. buffer \o Encoding[e] \in Seq(Units) /\ Len(Encoding[e]) \in Nat
  BY EncodingTyped, Joined DEF Typed, ReaderTyped
<1>2. PICK contents : contents = buffer \o Encoding[e]
  OBVIOUS
<1>3. CountRecord(e) => eventsWritten' \in Nat /\ bytesWritten' \in Nat
  BY <1>1 DEF CountRecord, Typed, ReaderTyped
<1>4. CASE AppendBuffered(e)
  <2>1. FileGrows
    BY <1>4, Stays DEF AppendBuffered, Typed
  <2>2. /\ buffer' = contents /\ CountRecord(e)
        /\ UNCHANGED <<pending, streamOk, logClosed>>
    BY <1>2, <1>4 DEF AppendBuffered
  <2> QED
    BY <1>1, <1>2, <1>3, <2>1, <2>2 DEF PiecesTyped, Typed, ReaderTyped
<1>5. CASE AppendWritten(e)
  <2>1. StreamWrite(contents) /\ buffer' = <<>> /\ CountRecord(e) /\ UNCHANGED logClosed
    BY <1>2, <1>5 DEF AppendWritten
  <2>2. pending' \in Seq(Units) /\ FileGrows /\ streamOk' \in BOOLEAN
    BY <1>1, <1>2, <2>1, StreamWriteTyped
  <2> QED
    BY <1>3, <2>1, <2>2, EmptySeq DEF PiecesTyped, Typed, ReaderTyped
<1>6. CASE AppendIoError(e)
  <2>1. StreamFail(contents) /\ buffer' = contents /\ CountRecord(e) /\ UNCHANGED logClosed
    BY <1>2, <1>6 DEF AppendIoError
  <2>2. pending' = pending /\ FileGrows /\ streamOk' \in BOOLEAN
    BY <1>1, <1>2, <2>1, StreamFailTyped
  <2> QED
    BY <1>1, <1>2, <1>3, <2>1, <2>2 DEF PiecesTyped, Typed, ReaderTyped
<1> QED
  BY <1>4, <1>5, <1>6

LEMMA AllWrittenTyped ==
  ASSUME Typed, file' = file \o pending \o buffer
  PROVE  FileGrows
<1>1. file \in Seq(Units) /\ pending \in Seq(Units) /\ buffer \in Seq(Units)
      /\ pending \o buffer \in Seq(Units)
  BY Joined DEF Typed, ReaderTyped
<1>2. file \o pending \o buffer = file \o (pending \o buffer)
  BY <1>1, Regrouped
<1> QED
  BY <1>1, <1>2 DEF FileGrows

LEMMA FlushErrorTyped ==
  ASSUME Typed, FlushIoError
  PROVE  PiecesTyped /\ ~streamOk' /\ UNCHANGED <<logClosed, eventsWritten, bytesWritten>>
<1>1. CASE buffer # <<>> /\ StreamFail(buffer) /\ UNCHANGED buffer
  BY <1>1, StreamFailTyped
  DEF FlushIoError, PiecesTyped, Typed, ReaderTyped, writerStats
<1>2. CASE pending' = pending \o buffer /\ buffer' = <<>> /\ streamOk' = FALSE
             /\ \E n \in 0 .. Len(pending') : file' = file \o SubSeq(pending', 1, n)
  <2>1. PICK n \in 0 .. Len(pending') : file' = file \o SubSeq(pending', 1, n)
    BY <1>2
  <2>2. pending' \in Seq(Units)
    BY <1>2, Joined DEF Typed, ReaderTyped
  <2>3. SubSeq(pending', 1, n) \in Seq(Units)
    BY <2>2, CutInTwo
  <2>4. FileGrows
    BY <2>1, <2>3 DEF FileGrows
  <2> QED
    BY <1>2, <2>2, <2>4, EmptySeq
    DEF FlushIoError, PiecesTyped, Typed, ReaderTyped, writerStats
<1>3. CASE ~streamOk /\ UNCHANGED <<buffer, pending, file, streamOk>>
  BY <1>3, Stays DEF FlushIoError, PiecesTyped, Typed, ReaderTyped, writerStats
<1> QED
  BY <1>1, <1>2, <1>3 DEF FlushIoError

LEMMA WriterTyped ==
  ASSUME Typed, FlushOk \/ FlushIoError \/ CloseOk \/ CloseIoError \/ UNCHANGED writerVars
  PROVE  PiecesTyped
<1>1. CASE FlushOk
  BY <1>1, AllWrittenTyped, EmptySeq
  DEF FlushOk, PiecesTyped, Typed, ReaderTyped, writerStats
<1>2. CASE CloseOk
  BY <1>2, AllWrittenTyped, EmptySeq
  DEF CloseOk, PiecesTyped, Typed, ReaderTyped, writerStats
<1>3. CASE FlushIoError
  BY <1>3, FlushErrorTyped
<1>4. CASE CloseIoError
  BY <1>3, <1>4, AllWrittenTyped, EmptySeq
  DEF CloseIoError, PiecesTyped, Typed, ReaderTyped, writerStats
<1>5. CASE UNCHANGED writerVars
  BY <1>5, Stays DEF PiecesTyped, Typed, ReaderTyped, writerVars, writerStats
<1> QED
  BY <1>1, <1>2, <1>3, <1>4, <1>5

LEMMA DestroyTyped ==
  ASSUME Typed, DestroyIoError
  PROVE  PiecesTyped /\ ~streamOk' /\ pending' = <<>> /\ ~logClosed
<1>1. pending \in Seq(Units) /\ pending \o buffer \in Seq(Units) /\ file \in Seq(Units)
  BY Joined DEF Typed, ReaderTyped
<1>2. PICK area \in Seq(Units) :
         \E first \in 0 .. Len(area), again \in 0 .. Len(area) :
           file' = file \o SubSeq(area, 1, first) \o SubSeq(area, 1, again)
  BY <1>1 DEF DestroyIoError
<1>3. PICK first \in 0 .. Len(area), again \in 0 .. Len(area) :
         file' = file \o SubSeq(area, 1, first) \o SubSeq(area, 1, again)
  BY <1>2
<1>4. SubSeq(area, 1, first) \in Seq(Units) /\ SubSeq(area, 1, again) \in Seq(Units)
  BY CutInTwo
<1>5. PICK x \in Seq(Units), y \in Seq(Units) : file' = file \o x \o y
  BY <1>3, <1>4
<1>6. PICK old \in Seq(Units) : old = file
  BY <1>1
<1>7. x \o y \in Seq(Units) /\ old \o x \o y = old \o (x \o y)
  <2>1. x \o y \in Seq(Units)
    BY Joined
  <2>2. Joint(Joint(old, x), y) = Joint(old, Joint(x, y))
    BY JointAssociative
  <2> QED
    BY <2>1, <2>2 DEF Joint
<1>8. FileGrows
  BY <1>5, <1>6, <1>7 DEF FileGrows
<1> QED
  BY <1>8, EmptySeq DEF DestroyIoError, PiecesTyped, Typed, ReaderTyped, writerStats

-----------------------------------------------------------------------------
(* Every step keeps the types *)

WriterActs == AppendNext \/ Flush \/ Close \/ Destroy

\* The steps of the writer: what they leave alone and what they may do.
LEMMA WriterStep ==
  ASSUME Typed, WriterActs
  PROVE  /\ PiecesTyped /\ writerPc = "alive" /\ writerPc' \in {"alive", "destroyed"}
         /\ offered' \in 0 .. Len(Plan) /\ appended' \in Seq(Events)
         /\ UNCHANGED <<readerVars, powerLost, damaged, sealed>>
<1>1. CASE AppendNext
  <2>1. Plan[offered + 1] \in Events /\ offered + 1 \in 0 .. Len(Plan)
    BY <1>1, PlanParameters, LenProperties, ElementOfSeq
    DEF AppendNext, Typed, ReaderTyped
  <2>2. PICK e \in Events : e = Plan[offered + 1]
    BY <2>1
  <2>3. CASE /\ AppendBuffered(e) \/ AppendWritten(e) \/ AppendIoError(e)
             /\ appended' = Append(appended, e)
    <3>1. PiecesTyped
      BY <2>3, AppendTyped
    <3>2. appended' \in Seq(Events)
      BY <2>3 DEF Typed, ReaderTyped
    <3> QED
      BY <1>1, <2>1, <3>1, <3>2 DEF AppendNext
  <2>4. CASE /\ AppendFormatError(e) \/ AppendClosed
             /\ UNCHANGED appended
    <3>1. PiecesTyped
      BY <2>4, WriterTyped DEF AppendFormatError, AppendClosed
    <3> QED
      BY <1>1, <2>1, <2>4, <3>1 DEF AppendNext, Typed, ReaderTyped
  <2> QED
    BY <1>1, <2>2, <2>3, <2>4 DEF AppendNext
<1>2. CASE Flush
  <2>1. PiecesTyped
    BY <1>2, WriterTyped DEF Flush, FlushClosed
  <2> QED
    BY <1>2, <2>1 DEF Flush, logVars, Typed, ReaderTyped
<1>3. CASE Close
  <2>1. PiecesTyped
    BY <1>3, WriterTyped DEF Close, CloseAgain
  <2> QED
    BY <1>3, <2>1 DEF Close, logVars, Typed, ReaderTyped
<1>4. CASE Destroy
  <2>1. PiecesTyped
    BY <1>4, WriterTyped, DestroyTyped DEF Destroy, DestroyOk, CloseAgain
  <2> QED
    BY <1>4, <2>1 DEF Destroy, Typed, ReaderTyped
<1> QED
  BY <1>1, <1>2, <1>3, <1>4 DEF WriterActs

LEMMA WriterActsTyped ==
  ASSUME Typed, WriterActs
  PROVE  Typed'
<1>1. /\ PiecesTyped /\ writerPc' \in {"alive", "destroyed"}
      /\ offered' \in 0 .. Len(Plan) /\ appended' \in Seq(Events)
      /\ UNCHANGED <<readerVars, powerLost, damaged, sealed>>
  BY WriterStep
<1>2. /\ file' \in Seq(Units) /\ Len(file) \in Nat /\ Len(file') \in Nat
      /\ Len(file) <= Len(file')
  BY <1>1, GrowsBy DEF PiecesTyped, Typed
<1>3. position' \in 0 .. Len(file')
  BY <1>1, <1>2 DEF Typed, ReaderTyped, readerVars
<1> QED
  BY <1>1, <1>2, <1>3 DEF Typed, ReaderTyped, PiecesTyped, readerVars

\* What the world does to the file: it is cut, or a cell of it changes.
LEMMA PowerLossFile ==
  ASSUME Typed, PowerLoss
  PROVE  /\ file' \in Seq(Units)
         /\ \E n \in 0 .. Len(file) : file' = SubSeq(file, 1, n) /\ Len(file') = n
<1>1. PICK n \in 0 .. Len(file) : file' = SubSeq(file, 1, n)
  BY DEF PowerLoss
<1>2. file \in Seq(Units) /\ Len(file) \in Nat
  BY LenProperties DEF Typed, ReaderTyped
<1>3. SubSeq(file, 1, n) \in Seq(Units)
  BY <1>2, CutInTwo
<1>4. Len(SubSeq(file, 1, n)) = n
  BY <1>2
<1> QED
  BY <1>1, <1>3, <1>4

LEMMA RotFile ==
  ASSUME Typed, Rot
  PROVE  /\ file' \in Seq(Units) /\ Len(file') = Len(file)
         /\ \E i \in 1 .. Len(file) :
              file' = [file EXCEPT ![i].intact = FALSE]
<1>1. PICK i \in DOMAIN file : file' = [file EXCEPT ![i].intact = FALSE]
  BY DEF Rot
<1>2. file \in Seq(Units) /\ Len(file) \in Nat /\ DOMAIN file = 1 .. Len(file)
  BY LenProperties DEF Typed, ReaderTyped
<1>3. file[i] \in Units /\ [file[i] EXCEPT !.intact = FALSE] \in Units
  <2>1. file[i] \in Units
    BY <1>1, <1>2, ElementOfSeq
  <2> QED
    BY <2>1 DEF Units
<1>4. file \in [1 .. Len(file) -> Units]
  BY <1>2
<1>5. file' = [file EXCEPT ![i] = [file[i] EXCEPT !.intact = FALSE]]
  BY <1>1
<1>6. file' \in [1 .. Len(file) -> Units]
  BY <1>3, <1>4, <1>5
<1>7. file' \in Seq(Units) /\ Len(file') = Len(file)
  BY <1>2, <1>6, FunctionIsSeq
<1>8. i \in 1 .. Len(file)
  BY <1>2
<1> QED
  BY <1>1, <1>7, <1>8

LEMMA WorldTyped ==
  ASSUME Typed, Crash \/ PowerLoss \/ Rot
  PROVE  Typed'
<1>1. CASE Crash
  BY <1>1 DEF Crash, Typed, ReaderTyped, writerVars, writerStats, readerVars
<1>2. CASE PowerLoss
  <2>1. file' \in Seq(Units) /\ Len(file') \in Nat
    BY <1>2, PowerLossFile, LenProperties
  <2>2. position' = 0
    BY <1>2 DEF PowerLoss, Typed, ReaderTyped, readerVars
  <2> QED
    BY <1>2, <2>1, <2>2 DEF PowerLoss, Typed, ReaderTyped, writerStats, readerVars
<1>3. CASE Rot
  <2>1. file' \in Seq(Units) /\ Len(file') = Len(file)
    BY <1>3, RotFile
  <2>2. damaged' \in 0 .. Damages
    <3>1. damaged \in 0 .. Damages /\ Damages \in Nat
      BY PlanParameters DEF Typed, ReaderTyped
    <3>2. damaged < Damages /\ damaged' = damaged + 1
      BY <1>3 DEF Rot
    <3> QED
      BY <3>1, <3>2
  <2> QED
    BY <1>3, <2>1, <2>2 DEF Rot, Typed, ReaderTyped, writerStats, readerVars
<1> QED
  BY <1>1, <1>2, <1>3

LEMMA ReaderActsTyped ==
  ASSUME Typed, OpenReader \/ ReadNext
  PROVE  Typed'
<1>1. UNCHANGED <<writerVars, writerPc, offered, appended, powerLost, damaged>>
  BY DEF OpenReader, ReadNext, logVars
<1>2. sealed' \in BOOLEAN
  BY DEF OpenReader, ReadNext, logVars, Typed, ReaderTyped
<1>3. UNCHANGED file
  BY <1>1 DEF writerVars
<1>4. ReaderTyped'
  BY <1>3, OpenTyped, NextRecordTyped DEF OpenReader, Typed, ReadNext
<1> QED
  BY <1>1, <1>2, <1>4 DEF Typed, ReaderTyped, ReaderTyped, writerVars, writerStats

LEMMA TypedInit == Init => Typed
<1> SUFFICES ASSUME Init PROVE Typed
  OBVIOUS
<1>1. <<>> \in Seq(Units) /\ <<>> \in Seq(Events) /\ <<>> \in Seq(Answers)
  BY EmptySeq
<1>2. FileHeader \in Seq(Units) /\ Len(FileHeader) = 2
  BY HeaderTyped
<1>3. file \in Seq(Units) /\ pending \in Seq(Units) /\ Len(file) \in Nat
  BY <1>1, <1>2, LenProperties DEF Init, WriterInit
<1>4. Plan \in Seq(Events) /\ Damages \in Nat /\ Len(Plan) \in Nat
  BY PlanParameters, LenProperties
<1>5. PICK n \in Nat : n = Len(file)
  BY <1>3
<1>6. position \in 0 .. Len(file) /\ bytesWritten \in Nat
  BY <1>2, <1>5 DEF Init, WriterInit, ReaderInit
<1>7. offered \in 0 .. Len(Plan) /\ damaged \in 0 .. Damages
  BY <1>4 DEF Init
<1> QED
  BY <1>1, <1>3, <1>6, <1>7 DEF Init, WriterInit, ReaderInit, Typed, ReaderTyped

LEMMA TypedNext == Typed /\ [Next]_vars => Typed'
<1> SUFFICES ASSUME Typed, [Next]_vars PROVE Typed'
  OBVIOUS
<1>1. CASE WriterActs
  BY <1>1, WriterActsTyped
<1>2. CASE Crash \/ PowerLoss \/ Rot
  BY <1>2, WorldTyped
<1>3. CASE OpenReader \/ ReadNext
  BY <1>3, ReaderActsTyped
<1>4. CASE Terminated \/ UNCHANGED vars
  BY <1>4
  DEF Terminated, vars, writerVars, writerStats, readerVars, logVars, Typed,
      ReaderTyped
<1> QED
  BY <1>1, <1>2, <1>3, <1>4 DEF Next, WriterActs

\* Every variable has its type: what the file, the stream and the writer's buffer
\* hold are units of records, and the reader's place is in the file.
THEOREM TypeCorrect == Spec => []TypeOK
<1>1. Typed => TypeOK
  <2> SUFFICES ASSUME Typed PROVE TypeOK
    OBVIOUS
  <2>1. {file, pending, buffer} \subseteq
          Seq([of : Events \cup {"file"}, part : Nat \ {0}, intact : BOOLEAN])
    BY DEF Typed, ReaderTyped, Units
  <2> QED
    BY <2>1 DEF Typed, ReaderTyped, TypeOK, Answers
<1> QED
  BY <1>1, TypedInit, TypedNext, PTL DEF Spec

-----------------------------------------------------------------------------
(* Where the pieces of the log are *)

\* Putting pieces together in another order of brackets.
LEMMA Regroupings ==
  ASSUME NEW a \in Seq(Units), NEW b \in Seq(Units), NEW c \in Seq(Units), NEW d \in Seq(Units)
  PROVE  /\ Joint(a, <<>>) = a /\ Joint(<<>>, a) = a
         /\ Joint(a, Joint(b, Joint(c, d))) = Joint(Joint(a, Joint(b, c)), d)
         /\ Joint(Joint(a, b), Joint(c, d)) = Joint(Joint(a, Joint(b, c)), d)
         /\ Joint(Joint(a, b), c) = Joint(a, Joint(b, c))
<1>1. Joint(a, <<>>) = a /\ Joint(<<>>, a) = a
  BY ConcatEmptySeq DEF Joint
<1>2. \A x, y, z \in Seq(Units) : Joint(Joint(x, y), z) = Joint(x, Joint(y, z))
  BY JointAssociative
<1>3. Joint(b, c) \in Seq(Units) /\ Joint(c, d) \in Seq(Units)
  BY JointTyped
<1>4. Joint(Joint(a, Joint(b, c)), d) = Joint(a, Joint(Joint(b, c), d))
  BY <1>2, <1>3
<1>5. Joint(Joint(b, c), d) = Joint(b, Joint(c, d))
  BY <1>2
<1>6. Joint(Joint(a, b), Joint(c, d)) = Joint(a, Joint(b, Joint(c, d)))
  BY <1>2, <1>3
<1> QED
  BY <1>1, <1>2, <1>4, <1>5, <1>6

\* All that has been laid out and was not lost: in the file, in the put area of
\* the stream, in the writer's buffer.
Travelling == Joint(file, Joint(pending, buffer))

\* What a call does with the pieces, when d is the record it laid out: nothing
\* is lost; a write fails; the stream was bad already.
Moved(d) == streamOk /\ streamOk' /\ Travelling' = Joint(Travelling, d)

Failed(d) ==
  /\ streamOk /\ ~streamOk'
  /\ \E x \in Seq(Units), t \in Seq(Units) :
       /\ x = Joint(pending, Joint(buffer, d)) /\ x = Joint(pending', t)
       /\ \E n \in 0 .. Len(x) : file' = Joint(file, SubSeq(x, 1, n))

Stuck == ~streamOk /\ ~streamOk' /\ UNCHANGED <<file, pending>>

LEMMA PiecesAre ==
  ASSUME Typed
  PROVE  /\ file \in Seq(Units) /\ pending \in Seq(Units) /\ buffer \in Seq(Units)
         /\ <<>> \in Seq(Units)
BY EmptySeq DEF Typed, ReaderTyped

LEMMA StreamWriteMoves ==
  ASSUME Typed, NEW d \in Seq(Units), StreamWrite(Joint(buffer, d)), buffer' = <<>>
  PROVE  Moved(d)
<1>1. Joint(buffer, d) \in Seq(Units)
  BY PiecesAre, JointTyped
<1>2. Joint(file, Joint(pending, Joint(buffer, d))) = Joint(Travelling, d)
  BY PiecesAre, Regroupings DEF Travelling
<1>3. streamOk /\ streamOk'
  BY DEF StreamWrite
<1>4. CASE pending' = pending \o Joint(buffer, d) /\ UNCHANGED file
  <2>1. pending' = Joint(pending, Joint(buffer, d)) /\ pending' \in Seq(Units)
    BY <1>1, <1>4, PiecesAre, JointTyped DEF Joint
  <2>2. Joint(pending', buffer') = pending'
    BY <2>1, ConcatEmptySeq DEF Joint
  <2> QED
    BY <1>2, <1>3, <1>4, <2>1, <2>2 DEF Moved, Travelling
<1>5. CASE file' = file \o pending \o Joint(buffer, d) /\ pending' = <<>>
  <2>1. Joint(pending, Joint(buffer, d)) \in Seq(Units)
    BY <1>1, PiecesAre, JointTyped
  <2>2. file' = Joint(Joint(file, pending), Joint(buffer, d))
    BY <1>5 DEF Joint
  <2>3. file' = Joint(file, Joint(pending, Joint(buffer, d)))
    BY <1>1, <2>2, PiecesAre, JointAssociative
  <2>4. file' \in Seq(Units)
    BY <2>1, <2>3, PiecesAre, JointTyped
  <2>5. Joint(pending', buffer') = <<>> /\ Joint(file', <<>>) = file'
    BY <1>5, <2>4, PiecesAre, ConcatEmptySeq DEF Joint
  <2> QED
    BY <1>2, <1>3, <2>3, <2>5 DEF Moved, Travelling
<1> QED
  BY <1>4, <1>5 DEF StreamWrite

LEMMA AllWrittenMoves ==
  ASSUME Typed, file' = file \o pending \o buffer, pending' = <<>>, buffer' = <<>>
  PROVE  file' = Travelling /\ Travelling' = Joint(Travelling, <<>>) /\ file' \in Seq(Units)
<1>1. file' = Travelling
  BY PiecesAre, JointAssociative DEF Joint, Travelling
<1>2. file' \in Seq(Units)
  BY <1>1, PiecesAre, JointTyped DEF Travelling
<1>3. Joint(<<>>, <<>>) = <<>> /\ Joint(file', <<>>) = file'
  BY <1>2, PiecesAre, ConcatEmptySeq DEF Joint
<1> QED
  BY <1>1, <1>2, <1>3 DEF Travelling

LEMMA StreamFailFails ==
  ASSUME Typed, NEW d \in Seq(Units), StreamFail(Joint(buffer, d))
  PROVE  Failed(d) \/ Stuck
<1>1. CASE ~streamOk /\ UNCHANGED <<file, streamOk>>
  BY <1>1 DEF StreamFail, Stuck
<1>2. CASE streamOk /\ streamOk' = FALSE
             /\ \E n \in 0 .. Len(pending \o Joint(buffer, d)) :
                  file' = file \o SubSeq(pending \o Joint(buffer, d), 1, n)
  <2>1. Joint(buffer, d) \in Seq(Units)
    BY PiecesAre, JointTyped
  <2>2. PICK x \in Seq(Units) : x = Joint(pending, Joint(buffer, d))
    BY <2>1, PiecesAre, JointTyped
  <2>3. \E n \in 0 .. Len(x) : file' = Joint(file, SubSeq(x, 1, n))
    BY <1>2, <2>2 DEF Joint
  <2>4. x = Joint(pending', Joint(buffer, d))
    BY <2>2 DEF StreamFail
  <2> QED
    BY <1>2, <2>1, <2>2, <2>3, <2>4 DEF Failed
<1> QED
  BY <1>1, <1>2 DEF StreamFail

Steps(d) == Moved(d) \/ Failed(d) \/ Stuck

LEMMA AppendMoves ==
  ASSUME Typed, NEW e \in Events,
         AppendBuffered(e) \/ AppendWritten(e) \/ AppendIoError(e)
  PROVE  /\ Steps(Encoding[e]) /\ ~logClosed /\ ~logClosed'
         /\ CountRecord(e)
<1>1. PICK d \in Seq(Units) : d = Encoding[e]
  BY EncodingTyped
<1>2. buffer \o Encoding[e] = Joint(buffer, d) /\ Joint(buffer, d) \in Seq(Units)
  BY <1>1, PiecesAre, JointTyped DEF Joint
<1>3. CASE AppendBuffered(e)
  <2>1. buffer' = Joint(buffer, d) /\ UNCHANGED <<pending, file, streamOk>>
    BY <1>2, <1>3 DEF AppendBuffered
  <2>2. CASE streamOk = TRUE
    <3>1. Joint(file, Joint(pending, Joint(buffer, d))) = Joint(Travelling, d)
      BY PiecesAre, Regroupings DEF Travelling
    <3> QED
      BY <1>1, <1>3, <2>1, <2>2, <3>1 DEF AppendBuffered, Steps, Moved, Travelling
  <2>3. CASE streamOk = FALSE
    BY <1>1, <1>3, <2>1, <2>3 DEF AppendBuffered, Steps, Stuck
  <2> QED
    BY <2>2, <2>3 DEF Typed, ReaderTyped
<1>4. CASE AppendWritten(e)
  <2>1. StreamWrite(Joint(buffer, d)) /\ buffer' = <<>>
    BY <1>2, <1>4 DEF AppendWritten
  <2>2. Moved(d)
    BY <2>1, StreamWriteMoves
  <2> QED
    BY <1>1, <1>4, <2>2 DEF AppendWritten, Steps
<1>5. CASE AppendIoError(e)
  <2>1. StreamFail(Joint(buffer, d))
    BY <1>2, <1>5 DEF AppendIoError
  <2>2. Failed(d) \/ Stuck
    BY <2>1, StreamFailFails
  <2> QED
    BY <1>1, <1>5, <2>2 DEF AppendIoError, Steps
<1> QED
  BY <1>3, <1>4, <1>5 DEF AppendBuffered

LEMMA NothingMoves ==
  ASSUME Typed, UNCHANGED writerVars
  PROVE  Steps(<<>>)
<1>1. UNCHANGED <<file, pending, buffer, streamOk>>
  BY DEF writerVars
<1>2. CASE streamOk = TRUE
  <2>1. Travelling \in Seq(Units)
    BY PiecesAre, JointTyped DEF Travelling
  <2>2. Joint(Travelling, <<>>) = Travelling
    BY <2>1, ConcatEmptySeq DEF Joint
  <2>3. Travelling' = Travelling
    BY <1>1 DEF Travelling
  <2> QED
    BY <1>1, <1>2, <2>2, <2>3 DEF Steps, Moved
<1>3. CASE streamOk = FALSE
  BY <1>1, <1>3 DEF Steps, Stuck
<1> QED
  BY <1>2, <1>3 DEF Typed, ReaderTyped

\* flush() reports an error: buffer_ in write_all, or all of it in out_.flush().
LEMMA FlushErrorFails ==
  ASSUME Typed, FlushIoError
  PROVE  Failed(<<>>) \/ Stuck
<1>1. Joint(buffer, <<>>) = buffer
  BY PiecesAre, Regroupings
<1>2. CASE StreamFail(buffer)
  BY <1>1, <1>2, PiecesAre, StreamFailFails
<1>3. CASE streamOk /\ pending' = pending \o buffer /\ streamOk' = FALSE
             /\ \E n \in 0 .. Len(pending') : file' = file \o SubSeq(pending', 1, n)
  <2>1. PICK x \in Seq(Units) : x = Joint(pending, buffer)
    BY PiecesAre, JointTyped
  <2>2. pending' = x /\ Joint(x, <<>>) = x
    BY <1>3, <2>1, ConcatEmptySeq DEF Joint
  <2>3. \E n \in 0 .. Len(x) : file' = Joint(file, SubSeq(x, 1, n))
    BY <1>3, <2>2 DEF Joint
  <2> QED
    BY <1>1, <1>3, <2>1, <2>2, <2>3, PiecesAre DEF Failed
<1>4. CASE ~streamOk /\ UNCHANGED <<pending, file, streamOk>>
  BY <1>4 DEF Stuck
<1> QED
  BY <1>2, <1>3, <1>4 DEF FlushIoError

\* close() reports an error after all of it reached the file.
LEMMA CloseErrorFails ==
  ASSUME Typed, CloseIoError
  PROVE  Failed(<<>>) \/ Stuck
<1>1. CASE FlushIoError
  BY <1>1, FlushErrorFails
<1>2. CASE streamOk /\ file' = file \o pending \o buffer /\ pending' = <<>> /\ streamOk' = FALSE
  <2>1. PICK x \in Seq(Units) : x = Joint(pending, buffer)
    BY PiecesAre, JointTyped
  <2>2. x = Joint(pending, Joint(buffer, <<>>)) /\ x = Joint(pending', x)
    BY <1>2, <2>1, PiecesAre, Regroupings
  <2>3. Len(x) \in 0 .. Len(x) /\ SubSeq(x, 1, Len(x)) = x
    BY LenProperties, SubSeqFull
  <2>4. file' = Joint(file, x)
    BY <1>2, <2>1, PiecesAre, JointAssociative DEF Joint
  <2>5. \E n \in 0 .. Len(x) : file' = Joint(file, SubSeq(x, 1, n))
    BY <2>3, <2>4
  <2> QED
    BY <1>2, <2>2, <2>5 DEF Failed
<1> QED
  BY <1>1, <1>2 DEF CloseIoError

LEMMA FlushMoves ==
  ASSUME Typed, FlushOk \/ FlushIoError \/ CloseOk \/ CloseIoError \/ UNCHANGED writerVars
  PROVE  Steps(<<>>) /\ UNCHANGED writerStats
<1>1. CASE FlushOk \/ CloseOk
  <2>1. Travelling' = Joint(Travelling, <<>>)
    BY <1>1, AllWrittenMoves DEF FlushOk, CloseOk
  <2> QED
    BY <1>1, <2>1 DEF FlushOk, CloseOk, Steps, Moved
<1>2. CASE FlushIoError \/ CloseIoError
  <2>1. Failed(<<>>) \/ Stuck
    BY <1>2, FlushErrorFails, CloseErrorFails
  <2> QED
    BY <1>2, <2>1 DEF FlushIoError, CloseIoError, Steps
<1>3. CASE UNCHANGED writerVars
  BY <1>3, NothingMoves DEF writerVars
<1> QED
  BY <1>1, <1>2, <1>3

\* StepsBackOnce, cell by cell.
Doubles(f, log) ==
  \E n \in 0 .. Len(f), i \in Nat :
    /\ i <= n /\ n <= Len(log) /\ i + Len(f) - n <= Len(log)
    /\ \A j \in 1 .. n : f[j] = log[j]
    /\ \A j \in 1 .. Len(f) - n : f[n + j] = log[i + j]

LEMMA DoublesStepsBack ==
  ASSUME NEW f \in Seq(Units), NEW log \in Seq(Units), Doubles(f, log)
  PROVE  StepsBackOnce(f, log)
<1>1. PICK n \in 0 .. Len(f), i \in Nat :
         /\ i <= n /\ n <= Len(log) /\ i + Len(f) - n <= Len(log)
         /\ \A j \in 1 .. n : f[j] = log[j]
         /\ \A j \in 1 .. Len(f) - n : f[n + j] = log[i + j]
  BY DEF Doubles
<1>2. PICK m \in Nat, l \in Nat : m = Len(f) /\ l = Len(log)
  BY LenProperties
<1>3. n \in Nat /\ n <= m /\ i + m - n \in Nat /\ n + 1 \in Nat /\ i + 1 \in Nat
  BY <1>1, <1>2
<1>4. IsPrefix(SubSeq(f, 1, n), log)
  <2>1. /\ SubSeq(f, 1, n) \in Seq(Units) /\ Len(SubSeq(f, 1, n)) = n - 1 + 1
        /\ \A k \in 1 .. n - 1 + 1 : SubSeq(f, 1, n)[k] = f[1 + k - 1]
    BY <1>2, <1>3, PieceIs
  <2>2. Agrees(SubSeq(f, 1, n), log)
    BY <1>1, <1>3, <2>1 DEF Agrees
  <2> QED
    BY <2>1, <2>2, AgreesIsPrefix
<1>5. /\ SubSeq(f, n + 1, m) \in Seq(Units) /\ Len(SubSeq(f, n + 1, m)) = m - (n + 1) + 1
      /\ \A k \in 1 .. m - (n + 1) + 1 : SubSeq(f, n + 1, m)[k] = f[n + 1 + k - 1]
  BY <1>2, <1>3, PieceIs
<1>6. /\ SubSeq(log, i + 1, i + m - n) \in Seq(Units)
      /\ Len(SubSeq(log, i + 1, i + m - n)) = (i + m - n) - (i + 1) + 1
      /\ \A k \in 1 .. (i + m - n) - (i + 1) + 1 :
           SubSeq(log, i + 1, i + m - n)[k] = log[i + 1 + k - 1]
  <2>1. 1 <= i + 1 /\ i + 1 <= i + m - n + 1 /\ i + m - n <= Len(log)
    BY <1>1, <1>2, <1>3
  <2> QED
    BY <1>3, <2>1, PieceIs
<1>7. PICK x \in Seq(Units), y \in Seq(Units) :
         x = SubSeq(f, n + 1, m) /\ y = SubSeq(log, i + 1, i + m - n)
  BY <1>5, <1>6
<1>8. Len(x) = m - n /\ Len(y) = m - n
  BY <1>3, <1>5, <1>6, <1>7
<1>9. \A k \in 1 .. m - n : x[k] = f[n + k] /\ y[k] = log[i + k]
  BY <1>3, <1>5, <1>6, <1>7
<1>10. \A k \in 1 .. Len(x) : x[k] = y[k]
  BY <1>1, <1>2, <1>8, <1>9
<1>11. x = y
  BY <1>8, <1>10, SeqEqual
<1>12. i \in 0 .. n /\ i + Len(f) - n <= Len(log)
  BY <1>1, <1>3
<1> QED
  BY <1>2, <1>4, <1>7, <1>11, <1>12 DEF StepsBackOnce

\* What is cut off at the end does not matter to either.
LEMMA CutAgrees ==
  ASSUME NEW f \in Seq(Units), NEW log \in Seq(Units), NEW n \in 0 .. Len(f)
  PROVE  /\ Agrees(f, log) => Agrees(SubSeq(f, 1, n), log)
         /\ Doubles(f, log) => Doubles(SubSeq(f, 1, n), log)
<1>1. Len(f) \in Nat /\ Len(log) \in Nat /\ n \in Nat /\ n <= Len(f)
  BY LenProperties
<1>2. PICK g \in Seq(Units) : /\ g = SubSeq(f, 1, n) /\ Len(g) = n
                              /\ \A k \in 1 .. n : g[k] = f[k]
  <2>1. /\ SubSeq(f, 1, n) \in Seq(Units) /\ Len(SubSeq(f, 1, n)) = n - 1 + 1
        /\ \A k \in 1 .. n - 1 + 1 : SubSeq(f, 1, n)[k] = f[1 + k - 1]
    BY <1>1, PieceIs
  <2>2. n - 1 + 1 = n /\ \A k \in 1 .. n : 1 + k - 1 = k
    BY <1>1
  <2> QED
    BY <2>1, <2>2
<1>3. Agrees(f, log) => Agrees(g, log)
  BY <1>1, <1>2 DEF Agrees
<1>4. ASSUME Doubles(f, log) PROVE Doubles(g, log)
  <2>1. PICK m \in 0 .. Len(f), i \in Nat :
           /\ i <= m /\ m <= Len(log) /\ i + Len(f) - m <= Len(log)
           /\ \A j \in 1 .. m : f[j] = log[j]
           /\ \A j \in 1 .. Len(f) - m : f[m + j] = log[i + j]
    BY <1>4 DEF Doubles
  <2>2. CASE n <= m
    <3>1. /\ n \in 0 .. Len(g) /\ n <= n /\ n <= Len(log) /\ n + Len(g) - n <= Len(log)
          /\ \A j \in 1 .. n : g[j] = log[j]
          /\ \A j \in 1 .. Len(g) - n : g[n + j] = log[n + j]
      BY <1>1, <1>2, <2>1, <2>2
    <3> QED
      BY <1>1, <3>1 DEF Doubles
  <2>3. CASE m < n
    <3>1. m \in Nat /\ m \in 0 .. Len(g) /\ i + Len(g) - m <= Len(log)
      BY <1>1, <1>2, <2>1, <2>3
    <3>2. \A j \in 1 .. m : g[j] = log[j]
      BY <1>1, <1>2, <2>1, <2>3
    <3>3. ASSUME NEW j \in 1 .. Len(g) - m PROVE g[m + j] = log[i + j]
      <4>1. m + j \in 1 .. n /\ j \in 1 .. Len(f) - m
        BY <1>1, <1>2, <2>3, <3>1
      <4> QED
        BY <1>2, <2>1, <4>1
    <3> QED
      BY <2>1, <3>1, <3>2, <3>3 DEF Doubles
  <2> QED
    BY <1>1, <2>1, <2>2, <2>3
<1> QED
  BY <1>2, <1>3, <1>4

\* A beginning of the log, and then a piece of it from an earlier place on.
LEMMA GoesBack ==
  ASSUME NEW log \in Seq(Units), NEW f \in Seq(Units), Agrees(f, log),
         NEW a \in Seq(Units), NEW y \in Seq(Units), NEW t \in Seq(Units),
         log = Joint(Joint(a, y), t), Len(a) <= Len(f)
  PROVE  Doubles(Joint(f, y), log)
<1>1. PICK p \in Nat, q \in Nat, r \in Nat : p = Len(a) /\ q = Len(y) /\ r = Len(f)
  BY LenProperties
<1>2. PICK ay \in Seq(Units) : ay = Joint(a, y)
  BY JointTyped
<1>3. /\ Len(ay) = p + q
      /\ \A j \in 1 .. p + q : ay[j] = IF j <= p THEN a[j] ELSE y[j - p]
  BY <1>1, <1>2, Places DEF Joint
<1>4. /\ Len(ay) <= Len(log) /\ \A j \in 1 .. Len(ay) : ay[j] = log[j]
  BY <1>2, StartAgrees DEF Agrees
<1>5. \A j \in 1 .. q : log[p + j] = y[j]
  BY <1>3, <1>4
<1>6. PICK g \in Seq(Units) : g = Joint(f, y)
  BY JointTyped
<1>7. /\ Len(g) = r + q
      /\ \A j \in 1 .. r + q : g[j] = IF j <= r THEN f[j] ELSE y[j - r]
  BY <1>1, <1>6, Places DEF Joint
<1>8. r <= Len(log) /\ \A j \in 1 .. r : f[j] = log[j]
  BY <1>1 DEF Agrees
<1>9. \A j \in 1 .. r : g[j] = log[j]
  BY <1>7, <1>8
<1>10. ASSUME NEW j \in 1 .. q PROVE g[r + j] = log[p + j]
  <2>1. r + j \in 1 .. r + q /\ ~(r + j <= r) /\ r + j - r = j
    OBVIOUS
  <2>2. g[r + j] = IF r + j <= r THEN f[r + j] ELSE y[r + j - r]
    BY <1>7, <2>1
  <2>3. g[r + j] = y[j]
    BY <2>1, <2>2
  <2>4. log[p + j] = y[j]
    BY <1>5
  <2> QED
    BY <2>3, <2>4
<1>11. /\ r \in 0 .. Len(g) /\ p \in Nat /\ p <= r /\ r <= Len(log)
       /\ p + Len(g) - r <= Len(log) /\ Len(g) - r = q
  BY <1>1, <1>3, <1>4, <1>7, <1>8
<1>12. \A j \in 1 .. Len(g) - r : g[r + j] = log[p + j]
  BY <1>10, <1>11
<1> QED
  BY <1>6, <1>9, <1>11, <1>12 DEF Doubles

-----------------------------------------------------------------------------
(* The log and its file *)

Closed == logClosed => streamOk /\ pending = <<>> /\ buffer = <<>>

Gone == powerLost \/ damaged # 0 => writerPc # "alive"

Counted == eventsWritten = Len(appended)

Measured == streamOk /\ ~powerLost => bytesWritten = Len(Travelling)

\* Until a write fails nothing is lost on the way.
Whole == streamOk /\ ~powerLost /\ damaged = 0 => CompleteLog = Travelling

\* The file has the cells of the log at their places, but for the rotten ones.
Mirror ==
  ~Repeated =>
    /\ Len(file) <= Len(CompleteLog)
    /\ \A i \in 1 .. Len(file) :
         file[i] = CompleteLog[i] \/ (damaged # 0 /\ ~file[i].intact)

\* After a write failed, what the put area kept is a piece of the log that
\* does not begin behind the end of the file.
Kept ==
  writerPc = "alive" /\ ~streamOk =>
    \E a \in Seq(Units), t \in Seq(Units) :
      CompleteLog = Joint(Joint(a, pending), t) /\ Len(a) <= Len(file)

Back == damaged = 0 /\ Repeated => Doubles(file, CompleteLog)

LogInv == /\ Typed /\ Closed /\ Gone /\ Counted /\ Measured
          /\ Whole /\ Mirror /\ Kept /\ Back

LEMMA CompleteTyped ==
  ASSUME Typed
  PROVE  CompleteLog \in Seq(Units)
<1>1. FileHeader \in Seq(Units) /\ Records(appended) \in Seq(Units)
  BY HeaderTyped, RecordsTyped DEF Typed, ReaderTyped
<1> QED
  BY <1>1, Joined DEF CompleteLog

LEMMA AliveMirror ==
  ASSUME LogInv, writerPc = "alive"
  PROVE  Agrees(file, CompleteLog) /\ ~powerLost /\ damaged = 0
BY DEF LogInv, Gone, Mirror, Repeated, Agrees

LEMMA AgreesMirrors ==
  ASSUME Agrees(file, CompleteLog) PROVE Mirror
BY DEF Mirror, Agrees

LEMMA LogMirrors ==
  ASSUME LogInv, ~Repeated PROVE Mirrors(appended)
BY DEF LogInv, Mirror, Mirrors, CompleteLog, LogOf

LEMMA LogKeeps ==
  ASSUME Typed, Typed', LogInv, NEW d \in Seq(Units), Steps(d), writerPc = "alive",
         writerPc' = "alive" \/ (writerPc' = "destroyed" /\ streamOk'),
         CompleteLog' = Joint(CompleteLog, d), bytesWritten' = bytesWritten + Len(d),
         UNCHANGED <<powerLost, damaged>>
  PROVE  Measured' /\ Whole' /\ Mirror' /\ Kept' /\ Back'
<1>1. Agrees(file, CompleteLog) /\ ~powerLost /\ damaged = 0 /\ Gone'
  BY AliveMirror DEF Gone
<1>2. CompleteLog \in Seq(Units) /\ CompleteLog' \in Seq(Units) /\ Travelling \in Seq(Units)
  BY CompleteTyped, PiecesAre, JointTyped DEF Travelling
<1>3. ~Repeated' /\ Back'
  BY DEF Repeated, Back
<1>4. CASE Moved(d)
  <2>1. CompleteLog' = Travelling'
    BY <1>1, <1>4 DEF Moved, LogInv, Whole
  <2>2. bytesWritten' = Len(Travelling')
    <3>1. bytesWritten = Len(Travelling)
      BY <1>1, <1>4 DEF Moved, LogInv, Measured
    <3>2. Len(Joint(Travelling, d)) = Len(Travelling) + Len(d)
      BY <1>2, StartAgrees
    <3> QED
      BY <1>4, <3>1, <3>2 DEF Moved
  <2>3. Agrees(file', CompleteLog')
    <3>1. file' \in Seq(Units) /\ pending' \in Seq(Units) /\ buffer' \in Seq(Units)
      BY DEF Typed, ReaderTyped
    <3>2. PICK rest \in Seq(Units) : rest = Joint(pending', buffer')
      BY <3>1, JointTyped
    <3>3. CompleteLog' = Joint(file', rest)
      BY <2>1, <3>2 DEF Travelling
    <3> QED
      BY <3>1, <3>3, StartAgrees
  <2>4. Mirror'
    BY <2>3 DEF Mirror, Agrees
  <2> QED
    BY <1>3, <1>4, <2>1, <2>2, <2>4 DEF Moved, Measured, Whole, Kept
<1>5. CASE Failed(d)
  <2>0. PICK x \in Seq(Units), t \in Seq(Units) :
           /\ x = Joint(pending, Joint(buffer, d)) /\ x = Joint(pending', t)
           /\ \E n \in 0 .. Len(x) : file' = Joint(file, SubSeq(x, 1, n))
    BY <1>5 DEF Failed
  <2>1. PICK n \in 0 .. Len(x) :
           /\ x = Joint(pending, Joint(buffer, d)) /\ x = Joint(pending', t)
           /\ file' = Joint(file, SubSeq(x, 1, n))
    BY <2>0
  <2>2. CompleteLog' = Joint(file, x)
    <3>1. CompleteLog = Travelling
      BY <1>1, <1>5 DEF Failed, LogInv, Whole
    <3>2. Joint(file, Joint(pending, Joint(buffer, d))) = Joint(Travelling, d)
      BY PiecesAre, Regroupings DEF Travelling
    <3> QED
      BY <2>1, <3>1, <3>2
  <2>3. file \in Seq(Units) /\ file' \in Seq(Units) /\ pending' \in Seq(Units)
    BY DEF Typed, ReaderTyped
  <2>4. Agrees(file', CompleteLog')
    <3>0. /\ SubSeq(x, 1, n) \in Seq(Units) /\ SubSeq(x, n + 1, Len(x)) \in Seq(Units)
          /\ SubSeq(x, 1, n) \o SubSeq(x, n + 1, Len(x)) = x
      BY CutInTwo
    <3>1. PICK u \in Seq(Units), v \in Seq(Units) : u = SubSeq(x, 1, n) /\ u \o v = x
      BY <3>0, Zenon
    <3>2. file' = Joint(file, u) /\ CompleteLog' = Joint(file, Joint(u, v))
      BY <2>1, <2>2, <3>1 DEF Joint
    <3>3. CompleteLog' = Joint(file', v)
      BY <2>3, <3>2, JointAssociative
    <3> QED
      BY <2>3, <3>3, StartAgrees
  <2>5. CompleteLog' = Joint(Joint(file, pending'), t)
    BY <2>1, <2>2, <2>3, JointAssociative
  <2>6. Len(file) <= Len(file')
    <3>1. PICK u \in Seq(Units) : u = SubSeq(x, 1, n)
      BY CutInTwo
    <3>2. file' = Joint(file, u)
      BY <2>1, <3>1
    <3>3. Agrees(file, file')
      BY <2>3, <3>2, StartAgrees
    <3> QED
      BY <3>3 DEF Agrees
  <2>7. Kept'
    BY <2>3, <2>5, <2>6 DEF Kept
  <2>8. Mirror'
    BY <2>4 DEF Mirror, Agrees
  <2> QED
    BY <1>3, <1>5, <2>7, <2>8 DEF Failed, Measured, Whole
<1>6. CASE Stuck
  <2>1. file' = file /\ pending' = pending /\ ~streamOk /\ ~streamOk'
    BY <1>6 DEF Stuck
  <2>2. Agrees(file', CompleteLog')
    BY <1>1, <1>2, <2>1, PiecesAre, LongerAgrees
  <2>3. Mirror'
    BY <2>2 DEF Mirror, Agrees
  <2>4. PICK a \in Seq(Units), t \in Seq(Units) :
           CompleteLog = Joint(Joint(a, pending), t) /\ Len(a) <= Len(file)
    BY <2>1 DEF LogInv, Kept
  <2>5. Joint(t, d) \in Seq(Units)
        /\ CompleteLog' = Joint(Joint(a, pending), Joint(t, d))
    <3>1. PICK b \in Seq(Units) : b = Joint(a, pending)
      BY PiecesAre, JointTyped
    <3>2. CompleteLog' = Joint(Joint(b, t), d)
      BY <2>4, <3>1
    <3>3. CompleteLog' = Joint(b, Joint(t, d))
      BY <3>2, JointAssociative
    <3> QED
      BY <3>1, <3>3, JointTyped
  <2>6. Kept'
    BY <2>1, <2>4, <2>5 DEF Kept
  <2> QED
    BY <1>3, <2>1, <2>3, <2>6 DEF Measured, Whole
<1> QED
  BY <1>4, <1>5, <1>6 DEF Steps

LEMMA DestroyGoesBack ==
  ASSUME LogInv, DestroyIoError, writerPc = "alive", UNCHANGED appended
  PROVE  Doubles(file', CompleteLog')
<1>1. CompleteLog' = CompleteLog /\ CompleteLog \in Seq(Units) /\ Typed
  BY CompleteTyped DEF LogInv, CompleteLog
<1>2. PICK log \in Seq(Units), f \in Seq(Units), p \in Seq(Units) :
         log = CompleteLog /\ f = file /\ p = pending
  BY <1>1, PiecesAre
<1>3. Agrees(f, log) /\ ~powerLost /\ damaged = 0
  BY <1>2, AliveMirror
<1>4. CASE streamOk
  <2>1. PICK area \in Seq(Units) : area = Joint(pending, buffer)
    BY <1>1, PiecesAre, JointTyped
  <2>2. log = Joint(f, area)
    BY <1>2, <1>3, <1>4, <2>1 DEF LogInv, Whole, Travelling
  <2>3. PICK first \in 0 .. Len(area), again \in 0 .. Len(area) :
           file' = file \o SubSeq(area, 1, first) \o SubSeq(area, 1, again)
    BY <1>4, <2>1 DEF DestroyIoError, Joint
  <2>4. /\ SubSeq(area, 1, first) \in Seq(Units)
        /\ SubSeq(area, first + 1, Len(area)) \in Seq(Units)
        /\ SubSeq(area, 1, first) \o SubSeq(area, first + 1, Len(area)) = area
    BY CutInTwo
  <2>5. /\ SubSeq(area, 1, again) \in Seq(Units)
        /\ SubSeq(area, again + 1, Len(area)) \in Seq(Units)
        /\ SubSeq(area, 1, again) \o SubSeq(area, again + 1, Len(area)) = area
    BY CutInTwo
  <2>6. PICK u \in Seq(Units), v \in Seq(Units) : u = SubSeq(area, 1, first) /\ u \o v = area
    BY <2>4, Zenon
  <2>7. PICK y \in Seq(Units), t \in Seq(Units) : y = SubSeq(area, 1, again) /\ y \o t = area
    BY <2>5, Zenon
  <2>8. PICK g \in Seq(Units) : g = Joint(f, u)
    BY JointTyped
  <2>9. file' = Joint(g, y)
    BY <1>2, <2>3, <2>6, <2>7, <2>8 DEF Joint
  <2>10. Agrees(g, log)
    <3>1. log = Joint(f, Joint(u, v))
      BY <2>2, <2>6 DEF Joint
    <3>2. log = Joint(g, v)
      BY <2>8, <3>1, JointAssociative
    <3> QED
      BY <3>2, StartAgrees
  <2>11. log = Joint(Joint(f, y), t)
    <3>1. log = Joint(f, Joint(y, t))
      BY <2>2, <2>7 DEF Joint
    <3> QED
      BY <3>1, JointAssociative
  <2>12. Len(f) <= Len(g)
    BY <2>8, StartAgrees DEF Agrees
  <2>13. Doubles(Joint(g, y), log)
    BY <2>10, <2>11, <2>12, GoesBack
  <2> QED
    BY <1>1, <1>2, <2>9, <2>13
<1>5. CASE ~streamOk
  <2>1. PICK first \in 0 .. Len(p), again \in 0 .. Len(p) :
           first = 0 /\ file' = file \o SubSeq(p, 1, first) \o SubSeq(p, 1, again)
    BY <1>2, <1>5 DEF DestroyIoError
  <2>2. PICK y \in Seq(Units) : y = SubSeq(p, 1, again)
    BY CutInTwo
  <2>3. SubSeq(p, 1, first) = <<>> /\ f \o <<>> = f
    BY <2>1, SubSeqEmpty, ConcatEmptySeq
  <2>4. file' = Joint(f, y)
    BY <1>2, <2>1, <2>2, <2>3 DEF Joint
  <2>5. PICK a \in Seq(Units), s \in Seq(Units) :
           log = Joint(Joint(a, p), s) /\ Len(a) <= Len(f)
    BY <1>2, <1>5 DEF LogInv, Kept
  <2>6. PICK t \in Seq(Units) : Joint(Joint(a, p), s) = Joint(Joint(a, SubSeq(p, 1, again)), t)
    BY CutPiece
  <2>7. log = Joint(Joint(a, y), t)
    BY <2>2, <2>5, <2>6
  <2>8. Doubles(Joint(f, y), log)
    BY <1>3, <2>5, <2>7, GoesBack
  <2> QED
    BY <1>1, <1>2, <2>4, <2>8
<1> QED
  BY <1>4, <1>5

LEMMA DestroyErrorKeeps ==
  ASSUME LogInv, Destroy, DestroyIoError
  PROVE  LogInv'
<1>1. Typed' /\ writerPc = "alive" /\ UNCHANGED <<appended, powerLost, damaged>>
  BY WriterActsTyped DEF WriterActs, LogInv, Destroy
<1>2. writerPc' = "destroyed" /\ ~streamOk' /\ ~logClosed' /\ eventsWritten' = eventsWritten
  BY DEF Destroy, DestroyIoError, writerStats
<1>3. Doubles(file', CompleteLog')
  BY <1>1, DestroyGoesBack
<1>4. Repeated'
  BY <1>2 DEF Repeated
<1> QED
  BY <1>1, <1>2, <1>3, <1>4
  DEF LogInv, Closed, Gone, Counted, Measured, Whole, Mirror, Kept, Back

\* Steps that do not touch the log.
LEMMA SameLog ==
  ASSUME LogInv, Typed', UNCHANGED <<writerVars, appended, writerPc, powerLost, damaged>>
  PROVE  LogInv'
<1>1. UNCHANGED <<file, pending, buffer, streamOk, logClosed, eventsWritten, bytesWritten>>
  BY DEF writerVars, writerStats
<1>2. CompleteLog' = CompleteLog /\ Travelling' = Travelling /\ (Repeated' <=> Repeated)
  BY <1>1 DEF CompleteLog, Travelling, Repeated
<1>3. Mirror'
  BY <1>1, <1>2 DEF LogInv, Mirror
<1>4. Kept'
  BY <1>1, <1>2 DEF LogInv, Kept
<1>5. Back'
  BY <1>1, <1>2 DEF LogInv, Back
<1>6. Closed' /\ Gone' /\ Counted'
  BY <1>1 DEF LogInv, Closed, Gone, Counted
<1>7. Measured' /\ Whole'
  BY <1>1, <1>2 DEF LogInv, Measured, Whole
<1> QED
  BY <1>3, <1>4, <1>5, <1>6, <1>7 DEF LogInv

\* A record is laid out.
LEMMA AppendKeeps ==
  ASSUME LogInv, AppendNext
  PROVE  LogInv'
<1>1. /\ Typed /\ Typed' /\ writerPc = "alive" /\ writerPc' = "alive"
      /\ UNCHANGED <<powerLost, damaged>>
  BY WriterActsTyped DEF WriterActs, LogInv, AppendNext
<1>2. Plan[offered + 1] \in Events
  BY <1>1, PlanParameters, LenProperties, ElementOfSeq
  DEF AppendNext, Typed, ReaderTyped
<1>3. PICK e \in Events : e = Plan[offered + 1]
  BY <1>2
<1>4. Gone'
  BY <1>1 DEF LogInv, Gone
<1>5. CASE /\ AppendBuffered(e) \/ AppendWritten(e) \/ AppendIoError(e)
           /\ appended' = Append(appended, e)
  <2>1. Steps(Encoding[e]) /\ ~logClosed' /\ CountRecord(e)
    BY <1>1, <1>5, AppendMoves
  <2>2. PICK d \in Seq(Units) : d = Encoding[e]
    BY EncodingTyped
  <2>3. CompleteLog' = Joint(CompleteLog, d)
    <3>1. appended \in Seq(Events)
      BY <1>1 DEF Typed, ReaderTyped
    <3>2. Records(appended') = Records(appended) \o d
      BY <1>5, <2>2, <3>1, RecordsAppend
    <3>3. FileHeader \in Seq(Units) /\ Records(appended) \in Seq(Units)
      BY <3>1, HeaderTyped, RecordsTyped
    <3>4. CompleteLog' = Joint(FileHeader, Joint(Records(appended), d))
      BY <3>2 DEF CompleteLog, Joint
    <3>5. CompleteLog = Joint(FileHeader, Records(appended))
      BY DEF CompleteLog, Joint
    <3> QED
      BY <3>3, <3>4, <3>5, JointAssociative
  <2>4. bytesWritten' = bytesWritten + Len(d) /\ eventsWritten' = eventsWritten + 1
    BY <2>1, <2>2 DEF CountRecord
  <2>5. Measured' /\ Whole' /\ Mirror' /\ Kept' /\ Back'
    BY <1>1, <2>1, <2>2, <2>3, <2>4, LogKeeps
  <2>6. Len(appended') = Len(appended) + 1
    BY <1>1, <1>5 DEF Typed, ReaderTyped
  <2> QED
    BY <1>1, <1>4, <2>1, <2>4, <2>5, <2>6 DEF LogInv, Closed, Counted
<1>6. CASE /\ AppendFormatError(e) \/ AppendClosed
           /\ UNCHANGED appended
  <2>1. UNCHANGED <<writerVars, appended, writerPc, powerLost, damaged>>
    BY <1>1, <1>6 DEF AppendFormatError, AppendClosed
  <2> QED
    BY <1>1, <2>1, SameLog
<1> QED
  BY <1>3, <1>5, <1>6 DEF AppendNext

\* flush(), close(), and a destructor whose close() succeeds.
LEMMA FlushKeeps ==
  ASSUME LogInv, Flush \/ Close \/ (Destroy /\ DestroyOk)
  PROVE  LogInv'
<1>1. /\ Typed /\ Typed' /\ writerPc = "alive" /\ UNCHANGED <<appended, powerLost, damaged>>
  BY WriterActsTyped DEF WriterActs, LogInv, Flush, Close, Destroy, logVars
<1>2. FlushOk \/ FlushIoError \/ CloseOk \/ CloseIoError \/ UNCHANGED writerVars
  BY DEF Flush, Close, FlushClosed, CloseAgain, DestroyOk
<1>3. Steps(<<>>) /\ UNCHANGED writerStats
  BY <1>1, <1>2, FlushMoves
<1>4. Closed' /\ (logClosed => streamOk)
  BY <1>2 DEF LogInv, Closed, FlushOk, FlushIoError, CloseOk, CloseIoError, writerVars
<1>5. writerPc' = "alive" \/ (writerPc' = "destroyed" /\ streamOk')
  BY <1>1, <1>4
  DEF Flush, Close, Destroy, DestroyOk, CloseOk, CloseAgain, logVars, writerVars
<1>6. CompleteLog' = Joint(CompleteLog, <<>>) /\ <<>> \in Seq(Units) /\ Len(<<>>) = 0
  <2>1. CompleteLog' = CompleteLog /\ CompleteLog \in Seq(Units)
    BY <1>1, CompleteTyped DEF CompleteLog
  <2> QED
    BY <2>1, ConcatEmptySeq, EmptySeq DEF Joint
<1>7. bytesWritten' = bytesWritten + Len(<<>>)
  BY <1>1, <1>3, <1>6 DEF writerStats, Typed, ReaderTyped
<1>8. Measured' /\ Whole' /\ Mirror' /\ Kept' /\ Back'
  BY <1>1, <1>3, <1>5, <1>6, <1>7, LogKeeps
<1>9. Gone' /\ Counted'
  BY <1>1, <1>3 DEF LogInv, Gone, Counted, writerStats
<1> QED
  BY <1>1, <1>4, <1>8, <1>9 DEF LogInv

\* What happens to the process and to the file.
LEMMA PowerLossKeeps ==
  ASSUME LogInv, PowerLoss
  PROVE  LogInv'
<1>1. Typed /\ Typed' /\ CompleteLog' = CompleteLog /\ CompleteLog \in Seq(Units)
  BY WorldTyped, CompleteTyped DEF LogInv, PowerLoss, CompleteLog
<1>2. /\ powerLost' = TRUE /\ writerPc' # "alive" /\ damaged' = damaged
      /\ UNCHANGED <<pending, buffer, streamOk, logClosed, eventsWritten, appended>>
  BY <1>1 DEF PowerLoss, writerStats, Typed, ReaderTyped
<1>3. PICK f \in Seq(Units), log \in Seq(Units) : f = file /\ log = CompleteLog
  BY <1>1, PiecesAre
<1>4. PICK n \in 0 .. Len(f) : file' = SubSeq(f, 1, n) /\ Len(file') = n
  BY <1>1, <1>3, PowerLossFile
<1>5. damaged = 0 => (Doubles(f, log) => Doubles(file', log))
  BY <1>4, CutAgrees
<1>6. Repeated' => Repeated
  BY <1>2 DEF Repeated, PowerLoss
<1>7. Back'
  BY <1>1, <1>2, <1>3, <1>5, <1>6 DEF LogInv, Back
<1>8. Mirror'
  <2>1. CASE Repeated'
    BY <2>1 DEF Mirror
  <2>2. CASE Repeated /\ ~Repeated'
    <3>1. FALSE
      BY <1>2, <2>2 DEF Repeated, PowerLoss
    <3> QED
      BY <3>1
  <2>3. CASE ~Repeated
    <3>1. /\ Len(f) <= Len(log)
          /\ \A i \in 1 .. Len(f) : f[i] = log[i] \/ (damaged # 0 /\ ~f[i].intact)
      BY <1>3, <2>3 DEF LogInv, Mirror
    <3>2. Len(f) \in Nat /\ Len(log) \in Nat /\ n \in Nat /\ n <= Len(f)
      BY LenProperties
    <3>3. \A i \in 1 .. n : SubSeq(f, 1, n)[i] = f[i]
      <4>1. \A i \in 1 .. n - 1 + 1 : SubSeq(f, 1, n)[i] = f[1 + i - 1]
        BY <3>2, PieceIs
      <4>2. n - 1 + 1 = n /\ \A i \in 1 .. n : 1 + i - 1 = i
        BY <3>2
      <4> QED
        BY <4>1, <4>2
    <3>4. /\ Len(file') <= Len(log)
          /\ \A i \in 1 .. Len(file') :
               file'[i] = log[i] \/ (damaged # 0 /\ ~file'[i].intact)
      BY <1>4, <3>1, <3>2, <3>3
    <3> QED
      BY <1>1, <1>2, <1>3, <3>4 DEF Mirror
  <2> QED
    BY <2>1, <2>2, <2>3
<1>9. Closed' /\ Gone' /\ Counted' /\ Measured' /\ Whole' /\ Kept'
  BY <1>2 DEF LogInv, Closed, Gone, Counted, Measured, Whole, Kept
<1> QED
  BY <1>1, <1>7, <1>8, <1>9 DEF LogInv

LEMMA RotKeeps ==
  ASSUME LogInv, Rot
  PROVE  LogInv'
<1>1. Typed /\ Typed' /\ CompleteLog' = CompleteLog
  BY WorldTyped DEF LogInv, Rot, CompleteLog
<1>2. /\ damaged' = damaged + 1 /\ damaged \in Nat /\ powerLost' = powerLost
      /\ writerPc # "alive"
      /\ UNCHANGED <<pending, buffer, streamOk, logClosed, eventsWritten, bytesWritten,
                     appended, writerPc>>
  BY <1>1 DEF Rot, writerStats, Typed, ReaderTyped
<1>3. file' \in Seq(Units) /\ Len(file') = Len(file) /\ Len(file) \in Nat
  BY <1>1, RotFile, LenProperties DEF Typed, ReaderTyped
<1>4. PICK i \in 1 .. Len(file) : file' = [file EXCEPT ![i].intact = FALSE]
  BY <1>1, RotFile
<1>5. damaged' # 0 /\ (Repeated' <=> Repeated)
  BY <1>2 DEF Repeated
<1>6. \A k \in 1 .. Len(file) : file'[k] = file[k] \/ ~file'[k].intact
  <2>1. file \in Seq(Units) /\ file[i] \in Units
    BY <1>1, <1>4, ElementOfSeq DEF Typed, ReaderTyped
  <2>2. file' = [file EXCEPT ![i] = [file[i] EXCEPT !.intact = FALSE]]
    BY <1>4
  <2>3. DOMAIN file = 1 .. Len(file)
    BY <2>1, LenProperties
  <2>4. \A k \in 1 .. Len(file) : k # i => file'[k] = file[k]
    BY <2>2, <2>3
  <2>5. file'[i] = [file[i] EXCEPT !.intact = FALSE]
    BY <2>2, <2>3
  <2>6. ~file'[i].intact
    BY <2>1, <2>5 DEF Units
  <2> QED
    BY <2>4, <2>6
<1>7. Mirror'
  BY <1>1, <1>3, <1>5, <1>6 DEF LogInv, Mirror
<1>8. Measured'
  <2>1. Len(Travelling') = Len(Travelling)
    <3>1. PICK rest \in Seq(Units) : rest = Joint(pending, buffer)
      BY <1>1, PiecesAre, JointTyped
    <3>2. Travelling = Joint(file, rest) /\ Travelling' = Joint(file', rest)
      BY <1>2, <3>1 DEF Travelling
    <3>3. Len(Travelling) = Len(file) + Len(rest) /\ Len(Travelling') = Len(file') + Len(rest)
      BY <1>1, <1>3, <3>2, PiecesAre, StartAgrees
    <3> QED
      BY <1>3, <3>3
  <2> QED
    BY <1>2, <2>1 DEF LogInv, Measured
<1>9. Closed' /\ Gone' /\ Counted' /\ Whole' /\ Kept' /\ Back'
  BY <1>2, <1>5 DEF LogInv, Closed, Gone, Counted, Whole, Kept, Back
<1> QED
  BY <1>1, <1>7, <1>8, <1>9 DEF LogInv

LEMMA CrashKeeps ==
  ASSUME LogInv, Crash
  PROVE  LogInv'
<1>1. Typed' /\ writerPc' = "crashed" /\ writerPc = "alive"
      /\ UNCHANGED <<writerVars, appended, powerLost, damaged>>
  BY WorldTyped DEF LogInv, Crash
<1>2. UNCHANGED <<file, pending, buffer, streamOk, logClosed, eventsWritten, bytesWritten>>
  BY <1>1 DEF writerVars, writerStats
<1>3. CompleteLog' = CompleteLog /\ Travelling' = Travelling /\ ~Repeated' /\ ~Repeated
  BY <1>1, <1>2 DEF CompleteLog, Travelling, Repeated
<1>4. Mirror'
  BY <1>1, <1>2, <1>3 DEF LogInv, Mirror
<1>5. Kept' /\ Back'
  BY <1>1, <1>3 DEF Kept, Back
<1>6. Closed' /\ Gone' /\ Counted' /\ Measured' /\ Whole'
  BY <1>1, <1>2, <1>3 DEF LogInv, Closed, Gone, Counted, Measured, Whole
<1> QED
  BY <1>1, <1>4, <1>5, <1>6 DEF LogInv

LEMMA LogInit == Init => LogInv
<1> SUFFICES ASSUME Init PROVE LogInv
  OBVIOUS
<1>1. Typed /\ FileHeader \in Seq(Units) /\ appended = <<>>
  BY TypedInit, HeaderTyped DEF Init
<1>2. CompleteLog = FileHeader
  BY <1>1, RecordsEmpty, ConcatEmptySeq DEF CompleteLog
<1>3. Travelling = FileHeader
  <2>1. Joint(FileHeader, <<>>) = FileHeader /\ Joint(<<>>, FileHeader) = FileHeader
        /\ Joint(<<>>, <<>>) = <<>>
    BY <1>1, PiecesAre, Regroupings
  <2> QED
    BY <2>1 DEF Init, WriterInit, Travelling
<1>4. Agrees(file, CompleteLog)
  BY <1>1, <1>2, EmptySeq, LenProperties DEF Init, WriterInit, Agrees
<1>5. Mirror
  BY <1>4, AgreesMirrors
<1>6. Closed /\ Gone /\ Kept /\ Back
  BY DEF Init, WriterInit, Closed, Gone, Kept, Back, Repeated
<1>7. Counted /\ Measured /\ Whole
  BY <1>1, <1>2, <1>3, EmptySeq DEF Init, WriterInit, Counted, Measured, Whole
<1> QED
  BY <1>1, <1>5, <1>6, <1>7 DEF LogInv

LEMMA LogNext == LogInv /\ [Next]_vars => LogInv'
<1> SUFFICES ASSUME LogInv, [Next]_vars PROVE LogInv'
  OBVIOUS
<1>1. Typed'
  BY TypedNext DEF LogInv
<1>2. CASE AppendNext
  BY <1>2, AppendKeeps
<1>3. CASE Flush \/ Close
  BY <1>3, FlushKeeps
<1>4. CASE Destroy
  BY <1>4, FlushKeeps, DestroyErrorKeeps DEF Destroy
<1>5. CASE Crash
  BY <1>5, CrashKeeps
<1>6. CASE PowerLoss
  BY <1>6, PowerLossKeeps
<1>7. CASE Rot
  BY <1>7, RotKeeps
<1>8. CASE OpenReader \/ ReadNext \/ Terminated \/ UNCHANGED vars
  <2>1. UNCHANGED <<writerVars, appended, writerPc, powerLost, damaged>>
    BY <1>8 DEF OpenReader, ReadNext, Terminated, vars, logVars
  <2> QED
    BY <1>1, <2>1, SameLog
<1> QED
  BY <1>2, <1>3, <1>4, <1>5, <1>6, <1>7, <1>8 DEF Next

LEMMA LogCorrect == Spec => []LogInv
BY LogInit, LogNext, PTL DEF Spec

\* Whatever write, flush or close fails, wherever the process dies or the file
\* is cut: the file is a beginning of the log, or, when the last write of a
\* destructor failed, goes back once and leaves nothing out.
THEOREM FileCorrect == Spec => []FileIsPrefix
<1>1. LogInv => FileIsPrefix
  <2> SUFFICES ASSUME LogInv, damaged = 0
               PROVE  IF Repeated THEN StepsBackOnce(file, CompleteLog)
                      ELSE IsPrefix(file, CompleteLog)
    BY DEF FileIsPrefix, CompleteLog
  <2>1. file \in Seq(Units) /\ CompleteLog \in Seq(Units)
    BY CompleteTyped DEF LogInv, Typed, ReaderTyped
  <2>2. CASE Repeated
    BY <2>1, <2>2, DoublesStepsBack DEF LogInv, Back
  <2>3. CASE ~Repeated
    <3>1. Agrees(file, CompleteLog)
      BY <2>3 DEF LogInv, Mirror, Agrees
    <3> QED
      BY <2>1, <2>3, <3>1, AgreesIsPrefix
  <2> QED
    BY <2>2, <2>3
<1> QED
  BY <1>1, LogCorrect, PTL

\* Once the log is closed, stats() counts the records that were laid out and
\* the units of the file, whatever was refused or failed before.
THEOREM StatsCorrect == Spec => []StatsMatchFile
<1>1. LogInv => StatsMatchFile
  <2> SUFFICES ASSUME LogInv, logClosed, ~powerLost
               PROVE  eventsWritten = Len(appended) /\ bytesWritten = Len(file)
    BY DEF StatsMatchFile
  <2>1. file \in Seq(Units) /\ streamOk /\ pending = <<>> /\ buffer = <<>>
    BY DEF LogInv, Typed, ReaderTyped, Closed
  <2>2. Travelling = file
    BY <2>1, ConcatEmptySeq, EmptySeq DEF Travelling, Joint
  <2> QED
    BY <2>1, <2>2 DEF LogInv, Counted, Measured
<1> QED
  BY <1>1, LogCorrect, PTL

-----------------------------------------------------------------------------
(* The answers before the first exception *)

Clean(l) == \A i \in 1 .. Len(l) : l[i] \notin Errors

FirstError(l, m) ==
  /\ m \in 1 .. Len(l) /\ l[m] \in Errors
  /\ \A i \in 1 .. Len(l) : i < m => l[i] \notin Errors

\* BeforeError of any answers.
Before(l) ==
  LET first == SelectInSeq(l, LAMBDA a : a \in Errors)
  IN  IF first = 0 THEN l ELSE SubSeq(l, 1, first - 1)

LEMMA BeforeIs == BeforeError = Before(answers) /\ BeforeError' = Before(answers')
BY DEF BeforeError, Before, SelectInSeq

LEMMA BeforeClean ==
  ASSUME NEW l, Clean(l)
  PROVE  Before(l) = l
<1>1. {i \in 1 .. Len(l) : l[i] \in Errors} = {}
  BY DEF Clean
<1> QED
  BY <1>1 DEF Before, SelectInSeq

LEMMA BeforeFirst ==
  ASSUME NEW l \in Seq(Answers), NEW m, FirstError(l, m)
  PROVE  /\ Before(l) = First(l, m - 1) /\ m - 1 \in 0 .. Len(l) /\ m - 1 < Len(l)
         /\ Before(l) # l
<1> DEFINE I == {i \in 1 .. Len(l) : l[i] \in Errors}
<1>1. Len(l) \in Nat /\ m \in 1 .. Len(l) /\ m \in I /\ I # {}
  BY LenProperties DEF FirstError
<1>2. \A i \in I : m <= i
  BY <1>1 DEF FirstError
<1>3. Min(I) = m
  <2>1. \A x \in I : (\A y \in I : x <= y) => x = m
    BY <1>1, <1>2
  <2> QED
    BY <1>1, <1>2, <2>1 DEF Min
<1>4. m # 0
  BY <1>1
<1>5. Before(l) = First(l, m - 1)
  BY <1>1, <1>3, <1>4 DEF Before, SelectInSeq, First
<1>6. m - 1 \in 0 .. Len(l) /\ m - 1 < Len(l)
  BY <1>1
<1>7. Len(First(l, m - 1)) = m - 1
  BY <1>6, FirstTyped
<1> QED
  BY <1>5, <1>6, <1>7

\* There is a first error, unless there is none.
LEMMA FirstErrorExists ==
  ASSUME NEW l \in Seq(Answers), ~Clean(l)
  PROVE  \E m \in Nat : FirstError(l, m)
<1> DEFINE I == {i \in 1 .. Len(l) : l[i] \in Errors}
<1>1. Len(l) \in Nat /\ I \in SUBSET Nat /\ I # {}
  BY LenProperties DEF Clean
<1>2. PICK m \in I : \A i \in I : ~(i < m)
  BY <1>1, LeastElement
<1> QED
  BY <1>1, <1>2 DEF FirstError

\* What the answers before the first exception are after one more.
LEMMA BeforeAppend ==
  ASSUME NEW l \in Seq(Answers), NEW a \in Answers, NEW t, t = Append(l, a)
  PROVE  /\ ~Clean(l) => ~Clean(t) /\ Before(t) = Before(l)
         /\ Clean(l) /\ a \in Errors => ~Clean(t) /\ Before(t) = l
         /\ Clean(l) /\ a \notin Errors => Clean(t) /\ Before(t) = t
<1>1. PICK n \in Nat : n = Len(l)
  BY LenProperties
<1>2. t \in Seq(Answers) /\ Len(t) = n + 1
  BY <1>1
<1>3. t[n + 1] = a /\ \A i \in 1 .. n : t[i] = l[i]
  <2>1. t[n + 1] = a
    BY <1>1
  <2>2. \A i \in 1 .. n : t[i] = l[i]
    BY <1>1
  <2> QED
    BY <2>1, <2>2
<1>4. ASSUME ~Clean(l) PROVE ~Clean(t) /\ Before(t) = Before(l)
  <2>1. PICK m \in Nat : FirstError(l, m)
    BY <1>4, FirstErrorExists
  <2>2. m \in 1 .. n /\ m \in 1 .. n + 1 /\ t[m] \in Errors
    BY <1>1, <1>3, <2>1 DEF FirstError
  <2>3. ASSUME NEW i \in 1 .. Len(t), i < m PROVE t[i] \notin Errors
    <3>1. i \in 1 .. n
      BY <1>2, <2>2, <2>3
    <3> QED
      BY <1>1, <1>3, <2>1, <2>3, <3>1 DEF FirstError
  <2>4. FirstError(t, m)
    BY <1>2, <2>2, <2>3 DEF FirstError
  <2>5. Before(l) = First(l, m - 1) /\ m - 1 \in 0 .. Len(l)
    BY <2>1, BeforeFirst
  <2>6. Before(t) = First(t, m - 1)
    BY <1>2, <2>4, BeforeFirst
  <2>7. First(t, m - 1) = First(l, m - 1)
    BY <2>5, FirstStays
  <2> QED
    BY <1>2, <2>2, <2>5, <2>6, <2>7 DEF Clean
<1>5. ASSUME Clean(l), a \in Errors PROVE ~Clean(t) /\ Before(t) = l
  <2>1. n + 1 \in 1 .. n + 1 /\ ~Clean(t)
    BY <1>2, <1>3, <1>5 DEF Clean
  <2>2. ASSUME NEW i \in 1 .. Len(t), i < n + 1 PROVE t[i] \notin Errors
    <3>1. i \in 1 .. n
      BY <1>2, <2>2
    <3> QED
      BY <1>1, <1>3, <1>5, <3>1 DEF Clean
  <2>3. FirstError(t, n + 1)
    BY <1>2, <1>3, <1>5, <2>1, <2>2 DEF FirstError
  <2>4. Before(t) = First(t, n)
    <3>1. PICK m \in Nat, u \in Seq(Answers) : m = n + 1 /\ u = t
      BY <1>2
    <3>2. FirstError(u, m)
      BY <2>3, <3>1
    <3>3. Before(u) = First(u, m - 1)
      BY <3>2, BeforeFirst
    <3>4. m - 1 = n
      BY <3>1
    <3> QED
      BY <3>1, <3>3, <3>4
  <2>5. n \in 0 .. Len(l) /\ First(l, n) = l
    BY <1>1, SubSeqFull DEF First
  <2>6. First(t, n) = First(l, n)
    BY <2>5, FirstStays
  <2> QED
    BY <2>1, <2>4, <2>5, <2>6
<1>6. ASSUME Clean(l), a \notin Errors PROVE Clean(t) /\ Before(t) = t
  <2>1. ASSUME NEW i \in 1 .. Len(t) PROVE t[i] \notin Errors
    <3>1. i \in 1 .. n \/ i = n + 1
      BY <1>2
    <3> QED
      BY <1>1, <1>3, <1>6, <3>1 DEF Clean
  <2> QED
    BY <2>1, BeforeClean DEF Clean
<1> QED
  BY <1>4, <1>5, <1>6

-----------------------------------------------------------------------------
(* Nothing twice, nothing out of order *)

\* While somebody reads, the file only grows.
LEMMA ReadFileGrows ==
  ASSUME Typed, [Next]_vars, readerPc # "unopened"
  PROVE  FileGrows
<1>1. CASE WriterActs
  BY <1>1, WriterStep DEF PiecesTyped
<1>2. CASE ~WriterActs
  <2>1. UNCHANGED file
    BY <1>2 DEF WriterActs, Next, Crash, PowerLoss, Rot, OpenReader, Open, OpenRejected,
                ReadNext, Terminated, vars, writerVars
  <2> QED
    BY <2>1, Stays DEF Typed
<1> QED
  BY <1>1, <1>2

\* All cells of the n-th record of s are in the file, each one intact.
InFile(s, n) ==
  /\ Place(s, n) <= Len(file)
  /\ \A j \in 1 .. 2 + PayloadCells[s[n]] : file[Place(s, n - 1) + j] = Encoding[s[n]][j]

Sound(s) == {n \in 1 .. Len(s) : InFile(s, n)}

LEMMA SoundGrows ==
  ASSUME ReaderTyped, FileGrows, NEW s \in Seq(Events), NEW e \in Events
  PROVE  Sound(s) \subseteq Sound(s)' /\ Sound(s) \subseteq Sound(Append(s, e))'
<1>1. /\ Len(file) \in Nat /\ Len(file') \in Nat
      /\ Len(file) <= Len(file') /\ \A i \in 1 .. Len(file) : file'[i] = file[i]
  BY GrowsBy
<1>2. PICK t \in Seq(Events) : /\ t = Append(s, e) /\ Len(t) = Len(s) + 1 /\ Len(s) \in Nat
                              /\ \A i \in 1 .. Len(s) : t[i] = s[i]
  <2>1. /\ Append(s, e) \in Seq(Events) /\ Len(Append(s, e)) = Len(s) + 1
        /\ \A i \in 1 .. Len(s) : Append(s, e)[i] = s[i]
    BY AppendProperties
  <2> QED
    BY <2>1, LenProperties
<1>3. ASSUME NEW n \in 1 .. Len(s), InFile(s, n)
      PROVE  InFile(s, n)' /\ InFile(t, n)'
  <2>1. n \in 0 .. Len(s) /\ n - 1 \in 0 .. Len(s) /\ n - 1 < Len(s) /\ (n - 1) + 1 = n
    BY <1>2
  <2>2. PICK q \in Nat, m \in Nat, c \in Nat :
           /\ q = Place(s, n - 1) /\ m = Place(s, n) /\ c = PayloadCells[s[n]]
           /\ m = q + (2 + c)
    <3>1. PICK k \in 0 .. Len(s) : k = n - 1 /\ k < Len(s) /\ k + 1 = n
      BY <2>1
    <3>2. /\ PayloadCells[s[k + 1]] \in Nat /\ Place(s, k) \in Nat /\ Place(s, k + 1) \in Nat
          /\ Place(s, k + 1) = Place(s, k) + (2 + PayloadCells[s[k + 1]])
      BY <2>1, <3>1, PlaceEnds, PlaceNext
    <3> QED
      BY <3>1, <3>2
  <2>3. m <= Len(file) /\ \A j \in 1 .. 2 + c : file[q + j] = Encoding[s[n]][j]
    BY <1>3, <2>2 DEF InFile
  <2>4. \A j \in 1 .. 2 + c : file'[q + j] = file[q + j]
    <3>1. PICK l \in Nat : l = Len(file) /\ m <= l
      BY <1>1, <2>3
    <3>2. \A j \in 1 .. 2 + c : q + j \in 1 .. l
      <4>1. q \in Nat /\ c \in Nat /\ l \in Nat /\ q + (2 + c) <= l
        BY <2>2, <3>1
      <4> QED
        BY ONLY <4>1
    <3>3. \A i \in 1 .. l : file'[i] = file[i]
      BY <1>1, <3>1
    <3> QED
      BY <3>2, <3>3
  <2>5. m <= Len(file') /\ \A j \in 1 .. 2 + c : file'[q + j] = Encoding[s[n]][j]
    <3>1. m <= Len(file')
      BY <1>1, <2>3
    <3> QED
      BY <2>3, <2>4, <3>1
  <2>6. t[n] = s[n] /\ Place(t, n) = m /\ Place(t, n - 1) = q
    BY <1>2, <2>1, <2>2, PlaceStays
  <2> QED
    BY <2>2, <2>5, <2>6 DEF InFile
<1>4. \A n \in 1 .. Len(s) : n \in 1 .. Len(t)
  BY <1>2
<1> QED
  BY <1>2, <1>3, <1>4 DEF Sound

\* These events are events of s, in its order, from records among these, which
\* end before p.
Traced(r, s, p, records) ==
  \E at \in [1 .. Len(r) -> records] :
    /\ \A i \in 1 .. Len(r) : r[i] = s[at[i]] /\ Place(s, at[i]) <= p
    /\ \A i, j \in 1 .. Len(r) : i < j => at[i] < at[j]

LEMMA TracedFurther ==
  ASSUME NEW r \in Seq(Events), NEW s \in Seq(Events), NEW p \in Int, NEW q \in Int,
         NEW g \in SUBSET (1 .. Len(s)), Traced(r, s, p, g), p <= q
  PROVE  Traced(r, s, q, g)
<1>1. PICK at \in [1 .. Len(r) -> g] :
         /\ \A i \in 1 .. Len(r) : r[i] = s[at[i]] /\ Place(s, at[i]) <= p
         /\ \A i, j \in 1 .. Len(r) : i < j => at[i] < at[j]
  BY DEF Traced
<1>2. ASSUME NEW i \in 1 .. Len(r) PROVE Place(s, at[i]) <= q
  <2>1. at[i] \in 0 .. Len(s) /\ Place(s, at[i]) <= p
    <3>1. at[i] \in g
      OBVIOUS
    <3>2. at[i] \in 1 .. Len(s)
      BY <3>1
    <3> QED
      BY <1>1, <3>2, LenProperties
  <2>2. Place(s, at[i]) \in Nat
    BY <2>1, PlaceEnds
  <2> QED
    BY <2>1, <2>2
<1> QED
  BY <1>1, <1>2 DEF Traced

LEMMA TracedLonger ==
  ASSUME NEW r \in Seq(Events), NEW s \in Seq(Events), NEW p, NEW e \in Events,
         NEW g \in SUBSET (1 .. Len(s)), NEW h, g \subseteq h, Traced(r, s, p, g)
  PROVE  Traced(r, Append(s, e), p, h) /\ Traced(r, s, p, h)
<1>1. PICK at \in [1 .. Len(r) -> g] :
         /\ \A i \in 1 .. Len(r) : r[i] = s[at[i]] /\ Place(s, at[i]) <= p
         /\ \A i, j \in 1 .. Len(r) : i < j => at[i] < at[j]
  BY DEF Traced
<1>2. PICK t : t = Append(s, e)
  OBVIOUS
<1>3. Len(s) \in Nat /\ Len(t) = Len(s) + 1
  BY <1>2, LenProperties
<1>4. \A i \in 1 .. Len(s) : t[i] = s[i]
  BY <1>2
<1>5. at \in [1 .. Len(r) -> h]
  BY <1>1
<1>6. ASSUME NEW i \in 1 .. Len(r) PROVE r[i] = t[at[i]] /\ Place(t, at[i]) <= p
  <2>1. at[i] \in 1 .. Len(s) /\ at[i] \in 0 .. Len(s)
    <3>1. at[i] \in g
      OBVIOUS
    <3>2. at[i] \in 1 .. Len(s)
      BY <3>1
    <3> QED
      BY <1>3, <3>2
  <2>2. Place(t, at[i]) = Place(s, at[i])
    BY <1>2, <2>1, PlaceStays
  <2> QED
    BY <1>1, <1>4, <2>1, <2>2
<1>7. Traced(r, t, p, h) /\ Traced(r, s, p, h)
  BY <1>1, <1>5, <1>6 DEF Traced
<1> QED
  BY <1>2, <1>7

LEMMA TracedMore ==
  ASSUME NEW r \in Seq(Events), NEW s \in Seq(Events), NEW k \in 0 .. Len(s), k < Len(s),
         NEW p \in Int, p = Place(s, k), NEW g \in SUBSET (1 .. Len(s)), k + 1 \in g,
         Traced(r, s, p, g)
  PROVE  Traced(Append(r, s[k + 1]), s, Place(s, k + 1), g)
<1>1. PICK at \in [1 .. Len(r) -> g] :
         /\ \A i \in 1 .. Len(r) : r[i] = s[at[i]] /\ Place(s, at[i]) <= p
         /\ \A i, j \in 1 .. Len(r) : i < j => at[i] < at[j]
  BY DEF Traced
<1>2. PICK n \in Nat, m \in Nat : n = Len(r) /\ m = Len(s)
  BY LenProperties
<1>3. PICK e \in Events : e = s[k + 1]
  BY PlaceNext
<1>4. PICK t : t = Append(r, e)
  OBVIOUS
<1>5. Len(t) = n + 1 /\ t[n + 1] = e /\ \A i \in 1 .. n : t[i] = r[i]
  <2>1. Len(t) = n + 1
    BY <1>2, <1>4
  <2>2. t[n + 1] = e
    BY <1>2, <1>4
  <2>3. \A i \in 1 .. n : t[i] = r[i]
    BY <1>2, <1>4
  <2> QED
    BY <2>1, <2>2, <2>3
<1>6. k + 1 \in 1 .. m /\ k \in Nat
  BY <1>2
<1>7. \A l \in 0 .. m : Place(s, l) \in Nat
  BY <1>2, PlaceEnds
<1>8. Place(s, k) < Place(s, k + 1)
  BY <1>2, <1>6, PlaceOrdered
<1>9. ASSUME NEW i \in 1 .. n PROVE at[i] \in g /\ at[i] \in 1 .. m /\ at[i] < k + 1 /\ Place(s, at[i]) < Place(s, k + 1)
  <2>1. at[i] \in g /\ at[i] \in 1 .. m /\ Place(s, at[i]) <= p
    BY <1>1, <1>2
  <2>2. k < at[i] => Place(s, k) < Place(s, at[i])
    BY <1>2, <2>1, PlaceOrdered
  <2>3. at[i] <= k
    BY <1>6, <1>7, <2>1, <2>2
  <2> QED
    BY <1>6, <1>7, <1>8, <2>1, <2>3
<1>10. PICK new : new = [i \in 1 .. n + 1 |-> IF i = n + 1 THEN k + 1 ELSE at[i]]
  OBVIOUS
<1>11. /\ new \in [1 .. n + 1 -> g] /\ new[n + 1] = k + 1
       /\ \A i \in 1 .. n : new[i] = at[i]
  BY <1>6, <1>9, <1>10
<1>12. ASSUME NEW i \in 1 .. n + 1 PROVE t[i] = s[new[i]] /\ Place(s, new[i]) <= Place(s, k + 1)
  <2>1. CASE i = n + 1
    BY <1>3, <1>5, <1>6, <1>7, <1>11, <2>1
  <2>2. CASE i # n + 1
    <3>1. i \in 1 .. n
      BY <2>2
    <3>2. t[i] = r[i] /\ new[i] = at[i] /\ r[i] = s[at[i]]
      BY <1>1, <1>2, <1>5, <1>11, <3>1
    <3>3. Place(s, at[i]) \in Nat /\ Place(s, k + 1) \in Nat /\ Place(s, at[i]) < Place(s, k + 1)
      BY <1>6, <1>7, <1>9, <3>1
    <3> QED
      BY <3>2, <3>3
  <2> QED
    BY <2>1, <2>2
<1>13. ASSUME NEW i \in 1 .. n + 1, NEW j \in 1 .. n + 1, i < j PROVE new[i] < new[j]
  <2>1. i \in 1 .. n /\ new[i] = at[i]
    BY <1>11, <1>13
  <2>2. CASE j = n + 1
    BY <1>9, <1>11, <2>1, <2>2
  <2>3. CASE j # n + 1
    <3>1. j \in 1 .. n
      BY <2>3
    <3> QED
      BY <1>1, <1>2, <1>11, <1>13, <2>1, <3>1
  <2> QED
    BY <2>2, <2>3
<1>14. Traced(t, s, Place(s, k + 1), g)
  BY <1>2, <1>5, <1>11, <1>12, <1>13 DEF Traced
<1> QED
  BY <1>3, <1>4, <1>14

\* How far the records that were returned may reach.
Reach == IF readerPc = "payload" THEN position - 2 ELSE position

Unread == readerPc = "unopened" => answers = <<>> /\ inState = "good" /\ ioErrors = FALSE

\* The reader may be in a payload that contains the header of a record.
Doubtful == Repeated \/ ~(Clean(answers) \/ NoRecordWithin)

\* Until the first exception the reader is where a record of the log begins.
Aligned ==
  ~Repeated /\ Clean(answers) /\ readerPc = "idle" /\ inState = "good" =>
    \E k \in 0 .. Len(appended) : position = Place(appended, k)

\* Inside next(), the reader is behind the header of a record of the log.
Heading ==
  ~Doubtful /\ readerPc = "payload" =>
    \E k \in 0 .. Len(appended) :
      /\ k < Len(appended) /\ appended[k + 1] = header
      /\ position = Place(appended, k) + 2
      /\ \A j \in 1 .. 2 : file[Place(appended, k) + j] = Cell(header, j)

Ordered == ~Doubtful => Traced(Returned(answers), appended, Reach, Sound(appended))

OrderInv == LogInv /\ Unread /\ Aligned /\ Heading /\ Ordered

LEMMA NothingTraced ==
  ASSUME NEW s, NEW p, NEW g
  PROVE  Traced(<<>>, s, p, g)
<1>1. 1 .. Len(<<>>) = {}
  BY EmptySeq
<1>2. PICK at : at = [i \in 1 .. Len(<<>>) |-> 1]
  OBVIOUS
<1>3. at \in [1 .. Len(<<>>) -> g]
  BY <1>1, <1>2
<1> QED
  BY <1>1, <1>3 DEF Traced

LEMMA TypedParts ==
  ASSUME Typed
  PROVE  /\ appended \in Seq(Events) /\ answers \in Seq(Answers)
         /\ Returned(answers) \in Seq(Events)
         /\ position \in Nat /\ position \in Int /\ position - 2 \in Int /\ Reach \in Int
         /\ Len(file) \in Nat /\ position <= Len(file)
BY ReturnedTyped, GotBounds DEF Typed, ReaderTyped, Reach

\* The log only grows, and a writer that is gone does not come back.
LEMMA LogGrows ==
  ASSUME LogInv, [Next]_vars
  PROVE  /\ Repeated => Repeated'
         /\ \/ appended' = appended
            \/ /\ \E e \in Events : appended' = Append(appended, e)
               /\ UNCHANGED readerVars
<1>1. Typed
  BY DEF LogInv
<1>2. CASE AppendNext
  <2>1. Plan[offered + 1] \in Events
    BY <1>1, <1>2, PlanParameters, LenProperties, ElementOfSeq
    DEF AppendNext, Typed, ReaderTyped
  <2> QED
    BY <1>2, <2>1 DEF AppendNext, Repeated
<1>3. CASE ~AppendNext
  BY <1>1, <1>3
  DEF Next, Flush, Close, Destroy, Crash, PowerLoss, Rot, OpenReader, ReadNext, Terminated,
      vars, logVars, writerVars, Repeated, Typed
<1> QED
  BY <1>2, <1>3

\* What a log that grows promises of its payloads, it promised before.
LEMMA WithinGrows ==
  ASSUME appended \in Seq(Events),
         appended' = appended \/ \E e \in Events : appended' = Append(appended, e),
         NoRecordWithin'
  PROVE  NoRecordWithin
<1>1. Range(appended) \subseteq Range(appended')
  <2>1. CASE \E e \in Events : appended' = Append(appended, e)
    <3>1. PICK e \in Events : appended' = Append(appended, e)
      BY <2>1
    <3>2. /\ Len(appended') = Len(appended) + 1 /\ Len(appended) \in Nat
          /\ DOMAIN appended = 1 .. Len(appended) /\ DOMAIN appended' = 1 .. Len(appended')
          /\ \A i \in 1 .. Len(appended) : appended'[i] = appended[i]
      BY <3>1, AppendProperties, LenProperties
    <3> QED
      BY <3>2 DEF Range
  <2> QED
    BY <2>1
<1> QED
  BY <1>1 DEF NoRecordWithin

LEMMA WithinIsPlain ==
  ASSUME appended \in Seq(Events), NoRecordWithin
  PROVE  Plain(appended)
<1> SUFFICES ASSUME NEW n \in 1 .. Len(appended), NEW x \in Events,
                    NEW i \in 1 .. PayloadCells[appended[n]] - 1,
                    Payload[appended[n]][i] = Cell(x, 1),
                    Payload[appended[n]][i + 1] = Cell(x, 2)
             PROVE  FALSE
  BY DEF Plain
<1>1. PICK e \in Events : e = appended[n] /\ e \in Range(appended)
  BY LenProperties, ElementOfSeq DEF Range
<1>2. PICK p \in Seq(Units), c \in Nat : p = Payload[e] /\ c = PayloadCells[e] /\ Len(p) = c
  BY PayloadIs
<1>3. i \in 1 .. c - 1 /\ p[i] = Cell(x, 1) /\ p[i + 1] = Cell(x, 2)
  BY <1>1, <1>2
<1>4. PICK q \in Nat : i = q + 1 /\ i + 1 = q + 2 /\ q + 2 <= Len(p)
  <2>1. i - 1 \in Nat /\ i = (i - 1) + 1 /\ i + 1 = (i - 1) + 2 /\ (i - 1) + 2 <= c
    BY <1>3
  <2> QED
    BY <1>2, <2>1
<1>5. PICK h \in Seq(Units) :
         h = RecordHeader(x) /\ Len(h) = 2 /\ h[1] = Cell(x, 1) /\ h[2] = Cell(x, 2)
  <2>1. Cell(x, 1) \in Units /\ Cell(x, 2) \in Units
    BY CellTyped
  <2>2. /\ RecordHeader(x) \in Seq(Units) /\ Len(RecordHeader(x)) = 2
        /\ RecordHeader(x)[1] = Cell(x, 1) /\ RecordHeader(x)[2] = Cell(x, 2)
    BY <2>1 DEF RecordHeader
  <2> QED
    BY <2>2
<1>6. \A j \in 1 .. 2 : p[q + j] = h[j]
  <2>1. p[q + 1] = h[1] /\ p[q + 2] = h[2]
    BY <1>3, <1>4, <1>5
  <2>2. \A j \in 1 .. 2 : j = 1 \/ j = 2
    OBVIOUS
  <2> QED
    BY <2>1, <2>2
<1>7. SubSeq(p, q + 1, q + 2) = h
  BY <1>4, <1>5, <1>6, PieceEquals
<1> QED
  BY <1>1, <1>2, <1>4, <1>5, <1>7 DEF NoRecordWithin

LEMMA DoubtStays ==
  ASSUME LogInv, [Next]_vars
  PROVE  Doubtful => Doubtful'
<1>1. Typed /\ appended \in Seq(Events) /\ answers \in Seq(Answers)
  BY TypedParts DEF LogInv
<1>2. /\ Repeated => Repeated'
      /\ appended' = appended \/ \E e \in Events : appended' = Append(appended, e)
  BY LogGrows
<1>3. NoRecordWithin' => NoRecordWithin
  BY <1>1, <1>2, WithinGrows
<1>4. Clean(answers') => Clean(answers)
  <2>1. answers' = answers \/ \E a \in Answers : answers' = Append(answers, a)
    <3>1. CASE ReadNext
      <4>1. Accepts \/ Returns \/ Gives("end") \/ Gives("format") \/ Gives("crc")
        BY <1>1, <3>1, NextRecordIs DEF ReadNext, writerVars, Typed
      <4> QED
        BY <4>1 DEF Accepts, Returns, Gives, Answers
    <3>2. CASE ~ReadNext
      BY <3>2 DEF Next, AppendNext, Flush, Close, Destroy, Crash, PowerLoss, Rot,
                  OpenReader, Open, OpenRejected, Terminated, vars, readerVars
    <3> QED
      BY <3>1, <3>2
  <2> QED
    BY <1>1, <2>1, BeforeAppend
<1> QED
  BY <1>2, <1>3, <1>4 DEF Doubtful

\* Steps that leave the reader alone.
LEMMA ReaderLeftAlone ==
  ASSUME OrderInv, [Next]_vars, UNCHANGED readerVars
  PROVE  Unread' /\ Aligned' /\ Heading' /\ Ordered'
<1>1. LogInv /\ LogInv' /\ Typed /\ ReaderTyped
  BY LogNext DEF OrderInv, LogInv, Typed
<1>2. PICK s \in Seq(Events), r \in Seq(Events) : s = appended /\ r = Returned(answers)
  BY <1>1, TypedParts
<1>3. UNCHANGED <<readerPc, position, inState, header, answers, ioErrors>> /\ UNCHANGED Reach
  BY DEF readerVars, Reach
<1>4. (Doubtful => Doubtful') /\ (Repeated => Repeated')
  BY <1>1, DoubtStays, LogGrows
<1>5. Unread'
  BY <1>3 DEF OrderInv, Unread
<1>6. CASE readerPc = "unopened"
  <2>1. Aligned' /\ Heading'
    BY <1>3, <1>6 DEF Aligned, Heading
  <2>2. answers' = <<>>
    BY <1>3, <1>6 DEF OrderInv, Unread
  <2>3. Ordered'
    BY <2>2, ReturnedEmpty, NothingTraced DEF Ordered
  <2> QED
    BY <1>5, <2>1, <2>3
<1>7. CASE readerPc # "unopened" /\ Repeated'
  BY <1>5, <1>7 DEF Aligned, Heading, Ordered, Doubtful
<1>8. CASE readerPc # "unopened" /\ ~Repeated'
  <2>1. FileGrows
    BY <1>1, <1>8, ReadFileGrows
  <2>2. PICK t \in Seq(Events) :
           /\ t = appended' /\ Sound(s) \subseteq Sound(t)'
           /\ t = s \/ \E e \in Events : t = Append(s, e)
    <3>1. CASE appended' = appended
      <4>1. PICK e : e \in Events \/ Events = {}
        OBVIOUS
      <4>2. CASE e \in Events
        BY <1>1, <1>2, <2>1, <3>1, <4>2, SoundGrows
      <4>3. CASE Events = {}
        <5>1. Len(s) = 0
          BY <1>2, <4>3, LenProperties, ElementOfSeq
        <5>2. Sound(s) = {}
          BY <5>1 DEF Sound
        <5> QED
          BY <1>2, <3>1, <5>2
      <4> QED
        BY <4>1, <4>2, <4>3
    <3>2. CASE \E e \in Events : appended' = Append(appended, e)
      BY <1>1, <1>2, <2>1, <3>2, SoundGrows, AppendProperties
    <3> QED
      BY <1>1, <3>1, <3>2, LogGrows
  <2>3. ASSUME ~Doubtful' PROVE Traced(Returned(answers'), t, Reach', Sound(t)')
    <3>1. Traced(r, s, Reach, Sound(s))
      BY <1>2, <1>4, <2>3 DEF OrderInv, Ordered
    <3>2. Sound(s) \in SUBSET (1 .. Len(s))
      BY DEF Sound
    <3>3. Traced(r, t, Reach, Sound(t)')
      <4>1. PICK g \in SUBSET (1 .. Len(s)), h \in SUBSET (1 .. Len(t)) :
               g = Sound(s) /\ h = Sound(t)' /\ g \subseteq h /\ Traced(r, s, Reach, g)
        BY <2>2, <3>1, <3>2 DEF Sound
      <4>2. CASE \E e \in Events : t = Append(s, e)
        BY <4>1, <4>2, TracedLonger
      <4>3. CASE t = s
        <5>1. PICK at \in [1 .. Len(r) -> g] :
                 /\ \A i \in 1 .. Len(r) : r[i] = s[at[i]] /\ Place(s, at[i]) <= Reach
                 /\ \A i, j \in 1 .. Len(r) : i < j => at[i] < at[j]
          BY <4>1 DEF Traced
        <5>2. at \in [1 .. Len(r) -> h]
          BY <4>1, <5>1
        <5>3. Traced(r, s, Reach, h)
          BY <5>1, <5>2 DEF Traced
        <5> QED
          BY <4>1, <4>3, <5>3
      <4> QED
        BY <2>2, <4>2, <4>3
    <3> QED
      BY <1>2, <1>3, <3>3
  <2>4. ASSUME ~Doubtful', readerPc' = "payload"
        PROVE  \E k \in 0 .. Len(t) :
                 /\ k < Len(t) /\ t[k + 1] = header'
                 /\ position' = Place(t, k) + 2
                 /\ \A j \in 1 .. 2 : file'[Place(t, k) + j] = Cell(header', j)
    <3>1. PICK k \in 0 .. Len(s) :
             /\ k < Len(s) /\ s[k + 1] = header /\ position = Place(s, k) + 2
             /\ \A j \in 1 .. 2 : file[Place(s, k) + j] = Cell(header, j)
      BY <1>2, <1>3, <1>4, <2>4 DEF OrderInv, Heading
    <3>2. Place(t, k) = Place(s, k) /\ k \in 0 .. Len(t) /\ k < Len(t) /\ t[k + 1] = s[k + 1]
      <4>1. CASE t = s
        BY <3>1, <4>1
      <4>2. CASE \E e \in Events : t = Append(s, e)
        <5>1. PICK e \in Events : t = Append(s, e)
          BY <4>2
        <5>2. Len(t) = Len(s) + 1 /\ \A i \in 1 .. Len(s) : t[i] = s[i]
          BY <5>1, AppendProperties
        <5>3. Len(s) \in Nat /\ k + 1 \in 1 .. Len(s)
          BY <3>1, LenProperties
        <5> QED
          BY <3>1, <5>1, <5>2, <5>3, PlaceStays
      <4> QED
        BY <2>2, <4>1, <4>2
    <3>3. \A j \in 1 .. 2 : file'[Place(s, k) + j] = file[Place(s, k) + j]
      <4>1. /\ Len(file) \in Nat /\ \A i \in 1 .. Len(file) : file'[i] = file[i]
        BY <1>1, <2>1, GrowsBy
      <4>2. Place(s, k) \in Nat /\ position <= Len(file)
        BY <1>1, <3>1, PlaceEnds, TypedParts
      <4>3. \A j \in 1 .. 2 : Place(s, k) + j \in 1 .. Len(file)
        BY <3>1, <4>1, <4>2
      <4> QED
        BY <4>1, <4>3
    <3> QED
      BY <1>3, <3>1, <3>2, <3>3
  <2>5. Heading' /\ Ordered'
    BY <2>2, <2>3, <2>4 DEF Heading, Ordered
  <2>6. ASSUME NEW k \in 0 .. Len(s) PROVE k \in 0 .. Len(t) /\ Place(t, k) = Place(s, k)
    <3>1. CASE \E e \in Events : t = Append(s, e)
      <4>1. PICK e \in Events : t = Append(s, e)
        BY <3>1
      <4>2. Len(t) = Len(s) + 1 /\ Len(s) \in Nat
        BY <4>1, AppendProperties, LenProperties
      <4> QED
        BY <4>1, <4>2, PlaceStays
    <3> QED
      BY <2>2, <3>1
  <2>7. Aligned'
    <3>1. Clean(answers') <=> Clean(answers)
      BY <1>3
    <3> QED
      BY <1>2, <1>3, <1>4, <1>8, <2>2, <2>6, <3>1 DEF OrderInv, Aligned
  <2> QED
    BY <1>5, <2>5, <2>7
<1> QED
  BY <1>6, <1>7, <1>8

LEMMA OpenOrdered ==
  ASSUME OrderInv, OpenReader
  PROVE  Unread' /\ Aligned' /\ Heading' /\ Ordered'
<1>1. /\ readerPc = "unopened" /\ readerPc' \in {"idle", "rejected"} /\ answers' = answers
  BY DEF OpenReader, Open, OpenRejected
<1>2. answers' = <<>>
  BY <1>1 DEF OrderInv, Unread
<1>3. Traced(Returned(answers'), appended', Reach', Sound(appended)')
  BY <1>2, ReturnedEmpty, NothingTraced
<1>4. CASE Open
  <2>1. Typed /\ position = 0 /\ appended' = appended /\ appended \in Seq(Events)
    BY <1>1, TypedParts DEF OpenReader, OrderInv, LogInv, Typed, ReaderTyped
  <2>2. Got(2) = 2
    BY <1>4, <2>1, HeaderRead DEF Typed, Open, FileCells
  <2>3. position' = 2
    BY <1>4, <2>1, <2>2 DEF Open, Read
  <2>4. Place(appended, 0) = 2 /\ 0 \in 0 .. Len(appended)
    BY <2>1, PlaceEnds, LenProperties
  <2>5. Aligned'
    BY <2>1, <2>3, <2>4 DEF Aligned
  <2> QED
    BY <1>1, <1>3, <2>5 DEF Unread, Heading, Ordered
<1>5. CASE OpenRejected
  BY <1>1, <1>3, <1>5 DEF OpenRejected, Unread, Aligned, Heading, Ordered
<1> QED
  BY <1>4, <1>5 DEF OpenReader

LEMMA ReadOrdered ==
  ASSUME OrderInv, ReadNext
  PROVE  Unread' /\ Aligned' /\ Heading' /\ Ordered'
<1>1. /\ LogInv /\ Typed /\ ReaderTyped /\ UNCHANGED <<file, appended, writerPc, streamOk>>
  BY DEF OrderInv, LogInv, Typed, ReadNext, writerVars, logVars
<1>2. (Repeated' <=> Repeated) /\ (Doubtful => Doubtful')
  BY <1>1, DoubtStays DEF Repeated, Next
<1>12. ASSUME NEW a \in Answers, answers' = Append(answers, a)
       PROVE  Clean(answers') => Clean(answers) /\ a \notin Errors
  BY <1>1, <1>12, BeforeAppend DEF Typed, ReaderTyped
<1>3. PICK s \in Seq(Events), r \in Seq(Events) :
         s = appended /\ r = Returned(answers) /\ s = appended'
  BY <1>1, TypedParts
<1>11. PICK g \in SUBSET (1 .. Len(s)) : g = Sound(s) /\ g = Sound(appended)'
  <2>1. Sound(s) \in SUBSET (1 .. Len(s))
    BY DEF Sound
  <2>2. Sound(appended)' = Sound(appended)
    BY <1>1 DEF Sound, InFile, Place
  <2> QED
    BY <1>3, <2>1, <2>2
<1>4. position \in Nat /\ Reach \in Int /\ Reach <= position
  BY <1>1, TypedParts DEF Reach
<1>5. Accepts \/ Returns \/ Gives("end") \/ Gives("format") \/ Gives("crc")
  BY <1>1, NextRecordIs DEF ReadNext
<1>6. Unread'
  BY <1>5 DEF Accepts, Returns, Gives, Unread
<1>13. {"end", "format", "crc"} \subseteq Answers /\ {"format", "crc"} \subseteq Errors
  BY DEF Answers, Errors
<1>14. Returns => header \in Answers
  BY DEF Returns, Answers
<1>15. ASSUME ~(Clean(answers') /\ Returns) PROVE Aligned'
  <2>1. CASE Accepts
    BY <2>1 DEF Accepts, Aligned
  <2>2. CASE Returns
    BY <1>15, <2>2 DEF Aligned
  <2>3. CASE Gives("end")
    <3>1. NextEnd
      BY <1>1, <2>3, EndIsNextEnd DEF ReadNext, Gives
    <3> QED
      BY <3>1 DEF NextEnd, Aligned
  <2>4. CASE Gives("format") \/ Gives("crc")
    <3>1. ~Clean(answers')
      BY <1>12, <1>13, <2>4 DEF Gives
    <3> QED
      BY <3>1 DEF Aligned
  <2> QED
    BY <1>5, <2>1, <2>2, <2>3, <2>4
<1>7. CASE Doubtful
  <2>1. CASE ~(Clean(answers') /\ Returns)
    BY <1>2, <1>6, <1>7, <1>15, <2>1 DEF Heading, Ordered
  <2>2. CASE Clean(answers') /\ Returns
    <3>1. Repeated
      BY <1>7, <1>12, <1>14, <2>2 DEF Returns, Doubtful
    <3> QED
      BY <1>2, <1>6, <1>7, <3>1 DEF Aligned, Heading, Ordered
  <2> QED
    BY <2>1, <2>2
<1>8. CASE ~Doubtful /\ Accepts
  <2>1. PICK e \in Events : Cells(2) = RecordHeader(e) /\ header' = e
    BY <1>8 DEF Accepts
  <2>2. /\ \E k \in 0 .. Len(s) : k < Len(s) /\ position = Place(s, k) /\ s[k + 1] = e
        /\ file[position + 1] = Cell(e, 1) /\ file[position + 2] = Cell(e, 2)
    <3>1. Plain(s) \/ \E k \in 0 .. Len(s) : position = Place(s, k)
      <4>1. CASE NoRecordWithin
        BY <1>3, <4>1, WithinIsPlain
      <4>2. CASE Clean(answers)
        BY <1>3, <1>8, <4>2 DEF OrderInv, Aligned, Accepts, Doubtful
      <4> QED
        BY <1>8, <4>1, <4>2 DEF Doubtful
    <3>2. Mirrors(s)
      BY <1>1, <1>3, <1>8, LogMirrors DEF Doubtful
    <3> QED
      BY <1>1, <2>1, <3>1, <3>2, HeaderInLog
  <2>3. position' = position + 2 /\ readerPc' = "payload" /\ answers' = answers
    BY <1>8 DEF Accepts
  <2>4. Heading'
    <3>1. PICK k \in 0 .. Len(s) : k < Len(s) /\ position = Place(s, k) /\ s[k + 1] = e
      BY <2>2
    <3>2. \A j \in 1 .. 2 : file[Place(s, k) + j] = Cell(e, j)
      BY <2>2, <3>1
    <3> QED
      BY <1>1, <1>3, <2>1, <2>3, <3>1, <3>2 DEF Heading
  <2>5. Reach' = position
    BY <1>4, <2>3 DEF Reach
  <2>6. Traced(r, s, Reach, g)
    BY <1>3, <1>11, <1>8 DEF OrderInv, Ordered
  <2>7. Traced(r, s, position, g)
    BY <1>4, <2>6, TracedFurther
  <2>8. Ordered'
    BY <1>3, <1>11, <2>3, <2>5, <2>7 DEF Ordered
  <2> QED
    BY <1>6, <1>8, <1>15, <2>3, <2>4, <2>8 DEF Accepts, Returns
<1>9. CASE ~Doubtful /\ Returns
  <2>1. PICK k \in 0 .. Len(s) :
           /\ k < Len(s) /\ s[k + 1] = header /\ position = Place(s, k) + 2
           /\ \A j \in 1 .. 2 : file[Place(s, k) + j] = Cell(header, j)
    BY <1>3, <1>9 DEF OrderInv, Heading, Returns
  <2>2. /\ header \in Events /\ PayloadCells[header] \in Nat /\ Place(s, k) \in Nat
        /\ Place(s, k + 1) = Place(s, k) + (2 + PayloadCells[header])
    BY <2>1, PlaceNext, PlaceEnds
  <2>3. /\ position' = position + PayloadCells[header] /\ readerPc' = "idle"
        /\ readerPc = "payload" /\ answers' = Append(answers, header)
    BY <1>9 DEF Returns
  <2>4. position' = Place(s, k + 1) /\ Reach' = position' /\ Reach = Place(s, k)
    <3>1. PICK p \in Nat, c \in Nat : p = Place(s, k) /\ c = PayloadCells[header]
      BY <2>2
    <3>2. position = p + 2 /\ position' = p + 2 + c /\ Place(s, k + 1) = p + (2 + c)
      BY <2>1, <2>2, <2>3, <3>1
    <3>3. position' = Place(s, k + 1) /\ position - 2 = p
      BY <3>2
    <3> QED
      BY <2>3, <3>1, <3>3 DEF Reach
  <2>5. Traced(r, s, Reach, g)
    BY <1>3, <1>11, <1>9 DEF OrderInv, Ordered
  <2>9. k + 1 \in g
    <3>1. PICK q \in Nat, c \in Nat : q = Place(s, k) /\ c = PayloadCells[header]
      BY <2>2
    <3>2. position + c <= Len(file) /\ \A j \in 1 .. c : file[position + j] = Encoding[header][2 + j]
      BY <1>1, <1>9, <2>2, <3>1, PayloadRead DEF Returns
    <3>3. position = q + 2 /\ Place(s, k + 1) = q + (2 + c)
      BY <2>1, <2>2, <3>1
    <3>4. ASSUME NEW j \in 1 .. 2 + c PROVE file[q + j] = Encoding[header][j]
      <4>1. CASE j <= 2
        <5>1. Encoding[header][1] = Cell(header, 1) /\ Encoding[header][2] = Cell(header, 2)
          BY <2>2, EncodingTyped
        <5>2. j = 1 \/ j = 2
          BY <3>1, <4>1
        <5> QED
          BY <2>1, <3>1, <5>1, <5>2
      <4>2. CASE ~(j <= 2)
        <5>1. j - 2 \in 1 .. c /\ position + (j - 2) = q + j /\ 2 + (j - 2) = j
          BY <3>3, <4>2
        <5> QED
          BY <3>2, <5>1
      <4> QED
        BY <4>1, <4>2
    <3>5. Place(s, k + 1) <= Len(file)
      BY <3>2, <3>3
    <3>6. k + 1 \in 1 .. Len(s) /\ (k + 1) - 1 = k
      BY <2>1, LenProperties
    <3>7. PICK n \in 1 .. Len(s) : n = k + 1 /\ n - 1 = k
      BY <3>6
    <3>8. PayloadCells[s[n]] = c /\ s[n] = header /\ Place(s, n - 1) = q
      BY <2>1, <3>1, <3>7
    <3>9. InFile(s, n)
      BY <3>4, <3>5, <3>7, <3>8 DEF InFile
    <3> QED
      BY <1>11, <3>7, <3>9 DEF Sound
  <2>6. Traced(Append(r, s[k + 1]), s, Place(s, k + 1), g)
    BY <1>4, <2>1, <2>4, <2>5, <2>9, TracedMore
  <2>7. Returned(answers') = Append(r, header)
    BY <1>1, <1>3, <2>2, <2>3, OneReturned
  <2>8. Ordered'
    BY <1>3, <1>11, <2>1, <2>4, <2>6, <2>7 DEF Ordered
  <2>10. Aligned'
    <3>1. k + 1 \in 0 .. Len(s)
      BY <2>1, PlaceNext
    <3> QED
      BY <1>3, <2>4, <3>1 DEF Aligned
  <2> QED
    BY <1>6, <2>3, <2>8, <2>10 DEF Heading
<1>10. CASE ~Doubtful /\ ~Returns /\ (Gives("end") \/ Gives("format") \/ Gives("crc"))
  <2>1. PICK a \in {"end", "format", "crc"} : Gives(a)
    BY <1>10
  <2>2. Returned(answers') = r
    BY <1>1, <1>3, <2>1, NothingReturned DEF Gives
  <2>3. readerPc' = "idle" /\ Reach' = position' /\ position' \in Nat /\ position <= position'
    BY <2>1 DEF Gives, Reach
  <2>4. Traced(r, s, Reach, g)
    BY <1>3, <1>11, <1>10 DEF OrderInv, Ordered
  <2>5. Reach <= position' /\ position' \in Int
    BY <1>4, <2>3
  <2>6. Traced(r, s, position', g)
    BY <1>4, <2>4, <2>5, TracedFurther
  <2>7. Ordered'
    BY <1>3, <1>11, <2>2, <2>3, <2>6 DEF Ordered
  <2>8. Aligned'
    BY <1>10, <1>15
  <2> QED
    BY <1>6, <2>3, <2>7, <2>8 DEF Heading
<1> QED
  BY <1>5, <1>7, <1>8, <1>9, <1>10

LEMMA OrderInit == Init => OrderInv
<1> SUFFICES ASSUME Init PROVE OrderInv
  OBVIOUS
<1>1. LogInv
  BY LogInit
<1>2. answers = <<>> /\ inState = "good" /\ ioErrors = FALSE /\ readerPc = "unopened"
  BY DEF Init, ReaderInit
<1>3. Ordered
  BY <1>2, ReturnedEmpty, NothingTraced DEF Ordered
<1> QED
  BY <1>1, <1>2, <1>3 DEF OrderInv, Unread, Aligned, Heading

LEMMA OrderNext == OrderInv /\ [Next]_vars => OrderInv'
<1> SUFFICES ASSUME OrderInv, [Next]_vars PROVE OrderInv'
  OBVIOUS
<1>1. LogInv' /\ Typed
  BY LogNext DEF OrderInv, LogInv
<1>2. CASE UNCHANGED readerVars
  BY <1>1, <1>2, ReaderLeftAlone DEF OrderInv
<1>3. CASE OpenReader
  BY <1>1, <1>3, OpenOrdered DEF OrderInv
<1>4. CASE ReadNext
  BY <1>1, <1>4, ReadOrdered DEF OrderInv
<1>5. OpenReader \/ ReadNext \/ UNCHANGED readerVars
  BY
  DEF Next, AppendNext, Flush, Close, Destroy, Crash, PowerLoss, Rot, Terminated, vars
<1> QED
  BY <1>2, <1>3, <1>4, <1>5

LEMMA OrderCorrect == Spec => []OrderInv
BY OrderInit, OrderNext, PTL DEF Spec

\* A record, cell by cell, in the words of the property.
LEMMA CellsAreRecord ==
  ASSUME Typed, NEW e \in Events, NEW q \in Nat, NEW l \in Nat, l = Len(Encoding[e]),
         q + l <= Len(file), \A j \in 1 .. l : file[q + j] = Encoding[e][j]
  PROVE  RecordAt(e, q)
<1>1. file \in Seq(Units) /\ Encoding[e] \in Seq(Units)
  BY EncodingTyped DEF Typed, ReaderTyped
<1>2. PICK f \in Seq(Units), c \in Seq(Units) : f = file /\ c = Encoding[e] /\ Len(c) = l
  BY <1>1
<1>3. q + l <= Len(f) /\ \A j \in 1 .. l : f[q + j] = c[j]
  BY <1>2
<1>4. SubSeq(f, q + 1, q + l) = c
  BY <1>2, <1>3, PieceEquals
<1> QED
  BY <1>2, <1>3, <1>4 DEF RecordAt

\* What InFile says of a record, in the words of the property.
LEMMA SoundIsWhole ==
  ASSUME Typed, appended \in Seq(Events), NEW n \in Sound(appended)
  PROVE  WholeInFile(n)
<1>1. PICK s \in Seq(Events) : s = appended /\ n \in 1 .. Len(s) /\ InFile(s, n)
  BY DEF Sound
<1>2. Len(s) \in Nat /\ n - 1 \in 0 .. Len(s) /\ n - 1 < Len(s) /\ (n - 1) + 1 = n
  BY <1>1, LenProperties
<1>3. PICK e \in Events, q \in Nat, c \in Nat :
         /\ e = s[n] /\ q = Place(s, n - 1) /\ c = PayloadCells[e]
         /\ Place(s, n) = q + (2 + c)
  BY <1>1, <1>2, PlaceNext, PlaceEnds
<1>4. Len(FileHeader \o Records(SubSeq(s, 1, n - 1))) = q
  <2>1. First(s, n - 1) \in Seq(Events)
    BY <1>2, FirstTyped
  <2>2. PICK h \in Seq(Units), x \in Seq(Units) :
           h = FileHeader /\ x = Records(First(s, n - 1)) /\ Len(h) = 2
    BY <2>1, HeaderTyped, RecordsTyped
  <2>3. Len(h \o x) = Len(h) + Len(x)
    BY ConcatProperties
  <2> QED
    BY <1>3, <2>2, <2>3 DEF Place, First
<1>5. Encoding[e] \in Seq(Units) /\ Len(Encoding[e]) = 2 + c
  BY <1>3, EncodingTyped
<1>6. q + (2 + c) <= Len(file) /\ \A j \in 1 .. 2 + c : file[q + j] = Encoding[e][j]
  BY <1>1, <1>3 DEF InFile
<1>7. RecordAt(e, q)
  <2>1. PICK l \in Nat : l = 2 + c
    BY <1>3
  <2>2. l = Len(Encoding[e]) /\ q + l <= Len(file)
        /\ \A j \in 1 .. l : file[q + j] = Encoding[e][j]
    BY <1>5, <1>6, <2>1
  <2> QED
    BY <2>2, CellsAreRecord
<1> QED
  BY <1>1, <1>3, <1>4, <1>7 DEF WholeInFile

\* As long as no payload in the log contains the header of a record, a caller gets
\* only events that were appended, none twice, none out of order and none with a
\* cell that is rotten or missing, also when it goes on after exceptions, while
\* the log is being written, after a crash, a cut or rot.
LEMMA EventsFromLog == Spec => [](~Repeated /\ NoRecordWithin => EventsWereAppended)
<1>1. OrderInv => (~Repeated /\ NoRecordWithin => EventsWereAppended)
  <2> SUFFICES ASSUME OrderInv, ~Repeated, NoRecordWithin
               PROVE  \E at \in [DOMAIN Returned(answers) -> DOMAIN appended] :
                        /\ \A i \in DOMAIN Returned(answers) :
                             Returned(answers)[i] = appended[at[i]] /\ WholeInFile(at[i])
                        /\ \A i, j \in DOMAIN Returned(answers) : i < j => at[i] < at[j]
    BY DEF EventsWereAppended
  <2>1. PICK s \in Seq(Events), r \in Seq(Events) : s = appended /\ r = Returned(answers)
    BY TypedParts DEF OrderInv, LogInv
  <2>2. DOMAIN s = 1 .. Len(s) /\ DOMAIN r = 1 .. Len(r)
    BY LenProperties
  <2>3. PICK at \in [1 .. Len(r) -> Sound(s)] :
           /\ \A i \in 1 .. Len(r) : r[i] = s[at[i]]
           /\ \A i, j \in 1 .. Len(r) : i < j => at[i] < at[j]
    BY <2>1 DEF OrderInv, Ordered, Traced, Doubtful
  <2>4. \A i \in 1 .. Len(r) : WholeInFile(at[i])
    BY <2>1, <2>3, SoundIsWhole DEF OrderInv, LogInv
  <2>5. at \in [1 .. Len(r) -> 1 .. Len(s)]
    BY <2>3 DEF Sound
  <2> QED
    BY <2>1, <2>2, <2>3, <2>4, <2>5
<1> QED
  BY <1>1, OrderCorrect, PTL

-----------------------------------------------------------------------------
(* Whatever the payloads contain *)

\* The cells of a record of e are in the file behind q.
CellsAt(e, q) == \A j \in 1 .. 2 + PayloadCells[e] : file[q + j] = Encoding[e][j]

\* The records of these events are in the file, one behind another, before p.
Found(r, p) ==
  \E at \in [1 .. Len(r) -> Nat] :
    /\ \A i \in 1 .. Len(r) : CellsAt(r[i], at[i]) /\ at[i] + (2 + PayloadCells[r[i]]) <= p
    /\ \A i, j \in 1 .. Len(r) : i < j => at[i] + (2 + PayloadCells[r[i]]) <= at[j]

\* Inside next(), the cells just read are the header of the record.
HeaderBehind ==
  readerPc = "payload" =>
    /\ position - 2 \in Nat
    /\ file[position - 1] = Cell(header, 1) /\ file[position] = Cell(header, 2)

FoundInv == OrderInv /\ HeaderBehind /\ Found(Returned(answers), Reach)

LEMMA NothingFound ==
  ASSUME NEW p
  PROVE  Found(<<>>, p) /\ Found(<<>>, p)'
<1>1. 1 .. Len(<<>>) = {}
  BY EmptySeq
<1>2. PICK at : at = [i \in 1 .. Len(<<>>) |-> 1]
  OBVIOUS
<1>3. at \in [1 .. Len(<<>>) -> Nat]
  BY <1>1, <1>2
<1> QED
  BY <1>1, <1>3 DEF Found

LEMMA FoundFurther ==
  ASSUME NEW r \in Seq(Events), NEW p \in Int, NEW q \in Int, p <= q, Found(r, p)
  PROVE  Found(r, q)
<1>1. PICK at \in [1 .. Len(r) -> Nat] :
         /\ \A i \in 1 .. Len(r) : /\ CellsAt(r[i], at[i])
                                  /\ at[i] + (2 + PayloadCells[r[i]]) <= p
         /\ \A i, j \in 1 .. Len(r) : i < j => at[i] + (2 + PayloadCells[r[i]]) <= at[j]
  BY DEF Found
<1>2. ASSUME NEW i \in 1 .. Len(r) PROVE at[i] + (2 + PayloadCells[r[i]]) <= q
  <2>1. PICK a \in Nat, c \in Nat : a = at[i] /\ c = PayloadCells[r[i]]
    BY Parameters, ElementOfSeq
  <2>2. a + (2 + c) <= p
    BY <1>1, <2>1
  <2>3. a + (2 + c) <= q
    BY <2>2
  <2> QED
    BY <2>1, <2>3
<1> QED
  BY <1>1, <1>2 DEF Found

\* What was found stays where it is while the file grows.
LEMMA FoundGrows ==
  ASSUME ReaderTyped, FileGrows, NEW r \in Seq(Events), NEW p \in Int, p <= Len(file),
         Found(r, p)
  PROVE  Found(r, p)'
<1>1. PICK at \in [1 .. Len(r) -> Nat] :
         /\ \A i \in 1 .. Len(r) : /\ CellsAt(r[i], at[i])
                                  /\ at[i] + (2 + PayloadCells[r[i]]) <= p
         /\ \A i, j \in 1 .. Len(r) : i < j => at[i] + (2 + PayloadCells[r[i]]) <= at[j]
  BY DEF Found
<1>2. PICK l \in Nat : l = Len(file) /\ \A i \in 1 .. l : file'[i] = file[i]
  BY GrowsBy
<1>3. ASSUME NEW i \in 1 .. Len(r) PROVE CellsAt(r[i], at[i])'
  <2>1. PICK a \in Nat, c \in Nat : a = at[i] /\ c = PayloadCells[r[i]]
    BY Parameters, ElementOfSeq
  <2>2. a + (2 + c) <= l
    <3>1. a + (2 + c) <= p
      BY <1>1, <2>1
    <3> QED
      BY <1>2, <3>1
  <2>3. \A j \in 1 .. 2 + c : a + j \in 1 .. l
    BY <2>2
  <2>4. \A j \in 1 .. 2 + c : file'[a + j] = file[a + j]
    BY <1>2, <2>3
  <2>5. \A j \in 1 .. 2 + c : file[a + j] = Encoding[r[i]][j]
    BY <1>1, <2>1 DEF CellsAt
  <2> QED
    BY <2>1, <2>4, <2>5 DEF CellsAt
<1> QED
  BY <1>1, <1>3 DEF Found

LEMMA FoundMore ==
  ASSUME NEW r \in Seq(Events), NEW e \in Events, NEW p \in Nat, Found(r, p), CellsAt(e, p)
  PROVE  Found(Append(r, e), p + (2 + PayloadCells[e]))
<1>1. PICK at \in [1 .. Len(r) -> Nat] :
         /\ \A i \in 1 .. Len(r) : /\ CellsAt(r[i], at[i])
                                  /\ at[i] + (2 + PayloadCells[r[i]]) <= p
         /\ \A i, j \in 1 .. Len(r) : i < j => at[i] + (2 + PayloadCells[r[i]]) <= at[j]
  BY DEF Found
<1>2. PICK n \in Nat, q \in Nat : n = Len(r) /\ q = p + (2 + PayloadCells[e]) /\ p <= q
  <2>1. PICK c \in Nat : c = PayloadCells[e]
    BY Parameters
  <2>2. p + (2 + c) \in Nat /\ p <= p + (2 + c)
    OBVIOUS
  <2>3. Len(r) \in Nat
    BY LenProperties
  <2> QED
    BY <2>1, <2>2, <2>3
<1>3. PICK t : t = Append(r, e)
  OBVIOUS
<1>4. Len(t) = n + 1 /\ t[n + 1] = e /\ \A i \in 1 .. n : t[i] = r[i]
  BY <1>2, <1>3, AppendProperties
<1>5. PICK new : new = [i \in 1 .. n + 1 |-> IF i = n + 1 THEN p ELSE at[i]]
  OBVIOUS
<1>6. new \in [1 .. n + 1 -> Nat] /\ new[n + 1] = p /\ \A i \in 1 .. n : new[i] = at[i]
  BY <1>1, <1>2, <1>5
<1>7. ASSUME NEW i \in 1 .. n
      PROVE  /\ CellsAt(t[i], new[i]) /\ new[i] + (2 + PayloadCells[t[i]]) <= p
             /\ new[i] + (2 + PayloadCells[t[i]]) <= q
  <2>1. PICK a \in Nat, c \in Nat : a = at[i] /\ c = PayloadCells[r[i]]
    BY <1>2, Parameters, ElementOfSeq
  <2>2. a + (2 + c) <= p /\ CellsAt(r[i], a)
    BY <1>1, <1>2, <2>1
  <2>3. a + (2 + c) <= q
    BY <1>2, <2>2
  <2> QED
    BY <1>4, <1>6, <2>1, <2>2, <2>3
<1>8. ASSUME NEW i \in 1 .. n + 1
      PROVE  CellsAt(t[i], new[i]) /\ new[i] + (2 + PayloadCells[t[i]]) <= q
  <2>1. CASE i = n + 1
    BY <1>2, <1>4, <1>6, <2>1
  <2>2. CASE i # n + 1
    <3>1. i \in 1 .. n
      BY <2>2
    <3> QED
      BY <1>7, <3>1
  <2> QED
    BY <2>1, <2>2
<1>9. ASSUME NEW i \in 1 .. n + 1, NEW j \in 1 .. n + 1, i < j
      PROVE  new[i] + (2 + PayloadCells[t[i]]) <= new[j]
  <2>1. i \in 1 .. n
    BY <1>9
  <2>2. CASE j = n + 1
    BY <1>6, <1>7, <2>1, <2>2
  <2>3. CASE j # n + 1
    <3>1. j \in 1 .. n
      BY <2>3
    <3> QED
      BY <1>1, <1>2, <1>4, <1>6, <1>9, <2>1, <3>1
  <2> QED
    BY <2>2, <2>3
<1>10. Found(t, q)
  BY <1>4, <1>6, <1>8, <1>9 DEF Found
<1> QED
  BY <1>2, <1>3, <1>10

LEMMA FoundLeftAlone ==
  ASSUME FoundInv, [Next]_vars, UNCHANGED readerVars
  PROVE  HeaderBehind' /\ Found(Returned(answers), Reach)'
<1>1. Typed /\ ReaderTyped /\ Unread
  BY DEF FoundInv, OrderInv, LogInv, Typed
<1>2. PICK r \in Seq(Events), p \in Int : r = Returned(answers) /\ p = Reach /\ p <= Len(file)
  BY <1>1, TypedParts DEF Reach
<1>3. UNCHANGED <<readerPc, position, header, answers>> /\ UNCHANGED Reach
  BY DEF readerVars, Reach
<1>4. CASE readerPc = "unopened"
  <2>1. answers' = <<>> /\ readerPc' = "unopened"
    BY <1>1, <1>3, <1>4 DEF Unread
  <2>2. Found(<<>>, Reach)'
    <3>1. PICK q : q = Reach'
      OBVIOUS
    <3>2. Found(<<>>, q)'
      BY NothingFound
    <3> QED
      BY <3>1, <3>2
  <2> QED
    BY <2>1, <2>2, ReturnedEmpty DEF HeaderBehind
<1>5. CASE readerPc # "unopened"
  <2>1. FileGrows
    BY <1>1, <1>5, ReadFileGrows
  <2>2. Found(r, p)'
    BY <1>1, <1>2, <2>1, FoundGrows DEF FoundInv
  <2>3. Found(Returned(answers), Reach)'
    BY <1>2, <1>3, <2>2
  <2>4. HeaderBehind'
    <3>1. PICK l \in Nat : l = Len(file) /\ \A i \in 1 .. l : file'[i] = file[i]
      BY <1>1, <2>1, GrowsBy
    <3>2. position \in Nat /\ position <= l
      BY <1>1, <3>1, TypedParts
    <3>3. position - 2 \in Nat => position - 1 \in 1 .. l /\ position \in 1 .. l
      BY <3>2
    <3> QED
      BY <1>3, <3>1, <3>3 DEF FoundInv, HeaderBehind
  <2> QED
    BY <2>3, <2>4
<1> QED
  BY <1>4, <1>5

LEMMA ReadFound ==
  ASSUME FoundInv, ReadNext
  PROVE  HeaderBehind' /\ Found(Returned(answers), Reach)'
<1>1. Typed /\ ReaderTyped /\ UNCHANGED file /\ NextRecord
  BY DEF FoundInv, OrderInv, LogInv, Typed, ReadNext, writerVars
<1>2. PICK r \in Seq(Events), p \in Int :
         r = Returned(answers) /\ p = Reach /\ p <= position /\ Found(r, p)
  BY <1>1, TypedParts DEF FoundInv, Reach
<1>3. position \in Nat /\ position \in Int /\ Len(file) \in Nat
  BY <1>1, TypedParts
<1>4. \A q, x : Found(x, q)' <=> Found(x, q)
  BY <1>1 DEF Found, CellsAt
<1>5. Accepts \/ Returns \/ Gives("end") \/ Gives("format") \/ Gives("crc")
  BY <1>1, NextRecordIs
<1>6. CASE Accepts
  <2>1. PICK e \in Events : Cells(2) = RecordHeader(e) /\ header' = e
    BY <1>6 DEF Accepts
  <2>2. file[position + 1] = Cell(e, 1) /\ file[position + 2] = Cell(e, 2)
    BY <1>1, <2>1, HeaderRead DEF RecordHeader
  <2>3. /\ position' = position + 2 /\ readerPc' = "payload" /\ answers' = answers
        /\ position' - 2 = position /\ position' - 1 = position + 1
    BY <1>3, <1>6 DEF Accepts
  <2>4. HeaderBehind'
    BY <1>1, <1>3, <2>1, <2>2, <2>3 DEF HeaderBehind
  <2>5. Found(r, position)
    BY <1>2, <1>3, FoundFurther
  <2>6. Reach' = position
    BY <2>3 DEF Reach
  <2> QED
    BY <1>2, <1>4, <2>3, <2>4, <2>5, <2>6
<1>7. CASE Returns
  <2>1. PICK e \in Events, c \in Nat : e = header /\ c = PayloadCells[e]
    BY <1>7, Parameters DEF Returns
  <2>2. /\ readerPc = "payload" /\ readerPc' = "idle" /\ position' = position + c
        /\ answers' = Append(answers, e)
    BY <1>7, <2>1 DEF Returns
  <2>3. PICK q \in Nat : /\ q = position - 2 /\ position = q + 2 /\ position - 1 = q + 1
                         /\ file[q + 1] = Cell(e, 1) /\ file[q + 2] = Cell(e, 2) /\ q = p
    <3>1. position - 2 \in Nat /\ position = (position - 2) + 2
          /\ position - 1 = (position - 2) + 1
      BY <1>3, <2>2 DEF FoundInv, HeaderBehind
    <3>2. file[position - 1] = Cell(e, 1) /\ file[position] = Cell(e, 2)
      BY <2>1, <2>2 DEF FoundInv, HeaderBehind
    <3> QED
      BY <1>2, <2>2, <3>1, <3>2 DEF Reach
  <2>4. \A j \in 1 .. c : file[position + j] = Encoding[e][2 + j]
    BY <1>1, <1>7, <2>1, PayloadRead DEF Returns
  <2>5. ASSUME NEW j \in 1 .. 2 + c PROVE file[q + j] = Encoding[e][j]
    <3>1. Encoding[e][1] = Cell(e, 1) /\ Encoding[e][2] = Cell(e, 2)
      BY EncodingTyped
    <3>2. CASE j <= 2
      <4>1. j = 1 \/ j = 2
        BY <3>2
      <4> QED
        BY <2>3, <3>1, <4>1
    <3>3. CASE ~(j <= 2)
      <4>1. j - 2 \in 1 .. c /\ position + (j - 2) = q + j /\ 2 + (j - 2) = j
        BY <2>3, <3>3
      <4> QED
        BY <2>4, <4>1
    <3> QED
      BY <3>2, <3>3
  <2>6. CellsAt(e, q)
    BY <2>1, <2>5 DEF CellsAt
  <2>7. Found(Append(r, e), q + (2 + c))
    BY <1>2, <2>1, <2>3, <2>6, FoundMore
  <2>8. Reach' = q + (2 + c)
    <3>1. position + c = q + (2 + c)
      BY <2>3
    <3> QED
      BY <2>2, <3>1 DEF Reach
  <2>9. Returned(answers') = Append(r, e)
    BY <1>1, <1>2, <2>2, OneReturned
  <2> QED
    BY <1>4, <2>2, <2>7, <2>8, <2>9 DEF HeaderBehind
<1>8. CASE Gives("end") \/ Gives("format") \/ Gives("crc")
  <2>1. PICK a \in {"end", "format", "crc"} : Gives(a)
    BY <1>8
  <2>2. Returned(answers') = r
    BY <1>1, <1>2, <2>1, NothingReturned DEF Gives
  <2>3. readerPc' = "idle" /\ Reach' = position' /\ position' \in Nat /\ position <= position'
    BY <2>1 DEF Gives, Reach
  <2>4. p <= position' /\ position' \in Int
    BY <1>2, <1>3, <2>3
  <2>5. Found(r, position')
    BY <1>2, <2>4, FoundFurther
  <2> QED
    BY <1>4, <2>2, <2>3, <2>5 DEF HeaderBehind
<1> QED
  BY <1>5, <1>6, <1>7, <1>8

LEMMA FoundInit == Init => FoundInv
<1> SUFFICES ASSUME Init PROVE FoundInv
  OBVIOUS
<1>1. answers = <<>> /\ readerPc = "unopened"
  BY DEF Init, ReaderInit
<1> QED
  BY <1>1, OrderInit, ReturnedEmpty, NothingFound DEF FoundInv, HeaderBehind

LEMMA FoundNext == FoundInv /\ [Next]_vars => FoundInv'
<1> SUFFICES ASSUME FoundInv, [Next]_vars PROVE FoundInv'
  OBVIOUS
<1>1. OrderInv'
  BY OrderNext DEF FoundInv
<1>2. CASE UNCHANGED readerVars
  BY <1>1, <1>2, FoundLeftAlone DEF FoundInv
<1>3. CASE OpenReader
  <2>1. answers' = <<>> /\ readerPc' \in {"idle", "rejected"}
    BY <1>3 DEF OpenReader, Open, OpenRejected, FoundInv, OrderInv, Unread
  <2>2. Found(<<>>, Reach)'
    <3>1. PICK q : q = Reach'
      OBVIOUS
    <3>2. Found(<<>>, q)'
      BY NothingFound
    <3> QED
      BY <3>1, <3>2
  <2> QED
    BY <1>1, <2>1, <2>2, ReturnedEmpty DEF FoundInv, HeaderBehind
<1>4. CASE ReadNext
  BY <1>1, <1>4, ReadFound DEF FoundInv
<1>5. OpenReader \/ ReadNext \/ UNCHANGED readerVars
  BY DEF Next, AppendNext, Flush, Close, Destroy, Crash, PowerLoss, Rot, Terminated, vars
<1> QED
  BY <1>2, <1>3, <1>4, <1>5

\* Whatever the payloads contain, and however often a caller goes on after an
\* exception: every event it gets lies whole and intact in the file, in a place
\* of its own, in the order of these places.
LEMMA EventsFromFile == Spec => []EventsAreInFile
<1>1. FoundInv => EventsAreInFile
  <2> SUFFICES ASSUME FoundInv PROVE EventsAreInFile
    OBVIOUS
  <2> DEFINE places == {p \in 0 .. Len(file) : \E e \in Events : RecordAt(e, p)}
  <2>1. Typed /\ Reach <= Len(file) /\ Reach \in Int /\ Len(file) \in Nat
    BY TypedParts DEF FoundInv, OrderInv, LogInv, Reach
  <2>2. PICK r \in Seq(Events) : r = Returned(answers) /\ Found(r, Reach)
    BY <2>1, TypedParts DEF FoundInv
  <2>3. PICK at \in [1 .. Len(r) -> Nat] :
           /\ \A i \in 1 .. Len(r) : /\ CellsAt(r[i], at[i])
                                    /\ at[i] + (2 + PayloadCells[r[i]]) <= Reach
           /\ \A i, j \in 1 .. Len(r) : i < j => at[i] + (2 + PayloadCells[r[i]]) <= at[j]
    BY <2>2 DEF Found
  <2>4. ASSUME NEW i \in 1 .. Len(r)
        PROVE  /\ RecordAt(r[i], at[i]) /\ at[i] \in places
               /\ Len(Encoding[r[i]]) = 2 + PayloadCells[r[i]]
    <3>1. PICK e \in Events, a \in Nat, l \in Nat :
             e = r[i] /\ a = at[i] /\ l = 2 + PayloadCells[e] /\ l = Len(Encoding[e])
      BY EncodingTyped, ElementOfSeq
    <3>2. a + l <= Len(file) /\ \A j \in 1 .. l : file[a + j] = Encoding[e][j]
      <4>1. a + l <= Reach
        BY <2>3, <3>1
      <4> QED
        BY <2>1, <2>3, <3>1, <4>1 DEF CellsAt
    <3>3. RecordAt(e, a)
      BY <2>1, <3>1, <3>2, CellsAreRecord
    <3>4. a \in 0 .. Len(file)
      BY <2>1, <3>2
    <3> QED
      BY <3>1, <3>3, <3>4
  <2>5. at \in [1 .. Len(r) -> places] /\ DOMAIN r = 1 .. Len(r)
    BY <2>3, <2>4, LenProperties
  <2>6. \A i, j \in 1 .. Len(r) : i < j => at[i] + Len(Encoding[r[i]]) <= at[j]
    BY <2>3, <2>4
  <2> QED
    BY <2>2, <2>4, <2>5, <2>6 DEF EventsAreInFile
<1> QED
  BY <1>1, FoundInit, FoundNext, PTL DEF Spec

\* A reader returns only events whose records are whole and intact in the file,
\* in their order, whatever it went on behind; and if no payload in the log
\* contains the header of a record, only events that were appended, none twice
\* and none out of order.
THEOREM OrderOfEvents == Spec => []ReadsInOrder
<1>1. EventsAreInFile /\ (~Repeated /\ NoRecordWithin => EventsWereAppended) => ReadsInOrder
  BY DEF ReadsInOrder
<1> QED
  BY <1>1, EventsFromFile, EventsFromLog, PTL

-----------------------------------------------------------------------------
(* What info() says *)

\* The events whose timestamp is not taken for "none yet".
Dated == {e \in Events : Timestamp[e] # 0}

Spanned ==
  /\ info.last = IF Returned(answers) = <<>> THEN 0 ELSE Timestamp[Last(Returned(answers))]
  /\ info.first = IF Only(answers, Dated) = <<>> THEN 0
                  ELSE Timestamp[Head(Only(answers, Dated))]

InfoInv == Typed /\ Spanned

LEMMA SpannedReturns ==
  ASSUME Typed, Spanned, Returns
  PROVE  Spanned'
<1>1. PICK e \in Events, as \in Seq(Answers), r \in Seq(Events), d \in Seq(Dated) :
         e = header /\ as = answers /\ r = Returned(answers) /\ d = Only(answers, Dated)
  BY ReturnedTyped, OnlyTyped DEF Typed, ReaderTyped, Returns
<1>2. /\ answers' = Append(as, e)
      /\ info'.first = (IF info.first = 0 THEN Timestamp[e] ELSE info.first)
      /\ info'.last = Timestamp[e]
  BY <1>1 DEF Returns
<1>3. Timestamp[e] \in Nat /\ e \in Answers
  BY Parameters DEF Answers
<1>4. Returned(answers') = Append(r, e)
  BY <1>1, <1>2, OneReturned DEF Typed
<1>5. Append(r, e) # <<>> /\ Last(Append(r, e)) = e
  <2>1. Len(Append(r, e)) = Len(r) + 1 /\ Len(r) \in Nat /\ Append(r, e)[Len(r) + 1] = e
    BY AppendProperties, LenProperties
  <2>2. Append(r, e) # <<>>
    BY <2>1, EmptySeq
  <2> QED
    BY <2>1, <2>2 DEF Last
<1>6. PICK k \in Seq(Dated) : k = Kernel(e, Dated) /\ Only(answers', Dated) = d \o k
  <2>1. Only(answers', Dated) = Only(as, Dated) \o Kernel(e, Dated)
    BY <1>2, <1>3, OnlyAppend
  <2>2. Kernel(e, Dated) \in Seq(Dated)
    BY <1>3, KernelTyped
  <2> QED
    BY <1>1, <2>1, <2>2
<1>7. info'.first = IF d \o k = <<>> THEN 0 ELSE Timestamp[Head(d \o k)]
  <2>1. CASE d = <<>>
    <3>1. d \o k = k /\ info.first = 0
      BY <1>1, <2>1, ConcatEmptySeq DEF Spanned
    <3>2. CASE e \in Dated
      <4>1. k = <<e>>
        BY <1>6, <3>2 DEF Kernel
      <4>2. <<e>> # <<>> /\ Head(<<e>>) = e
        OBVIOUS
      <4> QED
        BY <1>2, <3>1, <4>1, <4>2
    <3>3. CASE e \notin Dated
      <4>1. k = <<>> /\ Timestamp[e] = 0
        BY <1>6, <3>3 DEF Kernel, Dated
      <4> QED
        BY <1>2, <3>1, <4>1
    <3> QED
      BY <3>2, <3>3
  <2>2. CASE d # <<>>
    <3>1. Len(d) \in Nat /\ 1 \in 1 .. Len(d) /\ d[1] \in Dated /\ Head(d) = d[1]
      BY <2>2, LenProperties, EmptySeq, ElementOfSeq, HeadTailProperties
    <3>2. info.first = Timestamp[d[1]] /\ info.first # 0
      BY <1>1, <2>2, <3>1 DEF Spanned, Dated
    <3>3. /\ Len(d \o k) = Len(d) + Len(k) /\ Len(k) \in Nat /\ d \o k \in Seq(Dated)
          /\ (d \o k)[1] = d[1]
      BY <3>1, ConcatProperties, LenProperties
    <3>4. d \o k # <<>> /\ Head(d \o k) = d[1]
      BY <3>1, <3>3, EmptySeq, HeadTailProperties
    <3> QED
      BY <1>2, <3>2, <3>4
  <2> QED
    BY <2>1, <2>2
<1> QED
  BY <1>2, <1>4, <1>5, <1>6, <1>7 DEF Spanned

LEMMA SpannedGives ==
  ASSUME Typed, Spanned, NEW a \in {"end", "format", "crc"}, Gives(a)
  PROVE  Spanned'
<1>1. answers' = Append(answers, a) /\ info' = info /\ answers \in Seq(Answers)
  BY DEF Gives, Typed, ReaderTyped
<1>2. a \in Answers /\ a \notin Dated
  BY Parameters DEF Answers, Dated
<1>3. Returned(answers') = Returned(answers)
  BY <1>1, NothingReturned DEF Typed
<1>4. Only(answers', Dated) = Only(answers, Dated) \o <<>> /\ Only(answers, Dated) \in Seq(Dated)
  <2>1. Kernel(a, Dated) = <<>>
    BY <1>2 DEF Kernel
  <2> QED
    BY <1>1, <1>2, <2>1, OnlyAppend
<1>5. Only(answers', Dated) = Only(answers, Dated)
  BY <1>4, ConcatEmptySeq
<1> QED
  BY <1>1, <1>3, <1>5 DEF Spanned

LEMMA InfoNext == InfoInv /\ [Next]_vars => InfoInv'
<1> SUFFICES ASSUME InfoInv, [Next]_vars PROVE InfoInv'
  OBVIOUS
<1>1. Typed' /\ Typed
  BY TypedNext DEF InfoInv
<1>2. CASE UNCHANGED readerVars
  BY <1>1, <1>2 DEF InfoInv, Spanned, readerVars
<1>3. CASE OpenReader
  BY <1>1, <1>3 DEF InfoInv, Spanned, OpenReader, Open, OpenRejected
<1>4. CASE ReadNext
  <2>1. Accepts \/ Returns \/ Gives("end") \/ Gives("format") \/ Gives("crc")
    BY <1>1, <1>4, NextRecordIs DEF ReadNext, writerVars, Typed
  <2>3. CASE Accepts
    BY <1>1, <2>3 DEF InfoInv, Spanned, Accepts
  <2>4. CASE Returns
    BY <1>1, <2>4, SpannedReturns DEF InfoInv
  <2>5. CASE Gives("end") \/ Gives("format") \/ Gives("crc")
    BY <1>1, <2>5, SpannedGives DEF InfoInv
  <2> QED
    BY <2>1, <2>3, <2>4, <2>5
<1>5. OpenReader \/ ReadNext \/ UNCHANGED readerVars
  BY DEF Next, AppendNext, Flush, Close, Destroy, Crash, PowerLoss, Rot, Terminated, vars
<1> QED
  BY <1>2, <1>3, <1>4, <1>5

LEMMA InfoInit == Init => InfoInv
<1> SUFFICES ASSUME Init PROVE InfoInv
  OBVIOUS
<1>1. answers = <<>> /\ info = [first |-> 0, last |-> 0]
  BY DEF Init, ReaderInit
<1>2. Returned(<<>>) = <<>> /\ Only(<<>>, Dated) = <<>>
  BY ReturnedEmpty, OnlyEmpty
<1> QED
  BY <1>1, <1>2, TypedInit DEF InfoInv, Spanned

\* info() ends at the last event a caller got and begins at the first one whose
\* timestamp is not 0; a call that throws leaves it alone.
THEOREM InfoCorrect == Spec => []InfoSpansReturned
<1>1. InfoInv => InfoSpansReturned
  BY DEF InfoInv, Spanned, InfoSpansReturned, Dated
<1> QED
  BY <1>1, InfoInit, InfoNext, PTL DEF Spec

-----------------------------------------------------------------------------
(* Until the first exception *)

PayloadGood == readerPc = "payload" => inState = "good"

\* Where a reader is that has met no exception and returned k records.
At(k) ==
  inState = "good" /\ readerPc \in {"idle", "payload"} =>
    position = Place(appended, k) + (IF readerPc = "payload" THEN 2 ELSE 0)

Faithful ==
  ~Repeated =>
    \E k \in 0 .. Len(appended) :
      /\ Returned(Before(answers)) = First(appended, k)
      /\ Clean(answers) => At(k)

PrefixInv == OrderInv /\ PayloadGood /\ Faithful

LEMMA PrefixLeftAlone ==
  ASSUME PrefixInv, [Next]_vars, UNCHANGED readerVars
  PROVE  PayloadGood' /\ Faithful'
<1>1. LogInv /\ Typed /\ appended \in Seq(Events)
  BY TypedParts DEF PrefixInv, OrderInv, LogInv
<1>2. UNCHANGED <<readerPc, position, inState, answers>>
  BY DEF readerVars
<1>3. PayloadGood'
  BY <1>2 DEF PrefixInv, PayloadGood
<1>4. Repeated => Repeated'
  BY <1>1, LogGrows DEF PrefixInv, OrderInv
<1>5. SUFFICES ASSUME ~Repeated'
               PROVE  \E k \in 0 .. Len(appended') :
                        /\ Returned(Before(answers')) = First(appended', k)
                        /\ Clean(answers') => At(k)'
  BY <1>3 DEF Faithful
<1>6. PICK k \in 0 .. Len(appended) :
         /\ Returned(Before(answers)) = First(appended, k)
         /\ Clean(answers) => At(k)
  BY <1>4, <1>5 DEF PrefixInv, Faithful
<1>7. CASE appended' = appended
  <2>1. At(k)' <=> At(k)
    BY <1>2, <1>7 DEF At
  <2> QED
    BY <1>2, <1>6, <1>7, <2>1
<1>8. CASE \E e \in Events : appended' = Append(appended, e)
  <2>1. PICK e \in Events : appended' = Append(appended, e)
    BY <1>8
  <2>2. PICK s \in Seq(Events), t \in Seq(Events) : s = appended /\ t = Append(s, e)
    BY <1>1, AppendProperties
  <2>3. First(t, k) = First(s, k) /\ Place(t, k) = Place(s, k)
    BY <2>2, FirstStays, PlaceStays
  <2>4. k \in 0 .. Len(t)
    <3>1. Len(s) \in Nat /\ Len(t) = Len(s) + 1
      BY <2>2, LenProperties
    <3> QED
      BY <2>2, <3>1
  <2>5. At(k)' <=> At(k)
    BY <1>2, <2>1, <2>2, <2>3 DEF At
  <2> QED
    BY <1>2, <1>6, <2>1, <2>2, <2>3, <2>4, <2>5
<1> QED
  BY <1>1, <1>7, <1>8, LogGrows DEF PrefixInv, OrderInv

LEMMA OpenFaithful ==
  ASSUME PrefixInv, OpenReader
  PROVE  PayloadGood' /\ Faithful'
<1>1. LogInv /\ Typed /\ appended \in Seq(Events)
  BY TypedParts DEF PrefixInv, OrderInv, LogInv
<1>2. readerPc = "unopened" /\ position = 0 /\ inState = "good" /\ answers = <<>>
  BY <1>1
  DEF OpenReader, Open, OpenRejected, Typed, ReaderTyped, PrefixInv, OrderInv, Unread
<1>3. answers' = <<>> /\ appended' = appended /\ readerPc' \in {"idle", "rejected"}
  BY <1>2 DEF OpenReader, Open, OpenRejected
<1>4. Clean(<<>>)
  BY EmptySeq DEF Clean
<1>5. Returned(Before(answers')) = First(appended, 0)
  <2>1. Before(answers') = <<>>
    BY <1>3, <1>4, BeforeClean
  <2>2. First(appended, 0) = <<>>
    BY SubSeqEmpty DEF First
  <2> QED
    BY <2>1, <2>2, ReturnedEmpty
<1>6. At(0)'
  <2>1. CASE Open
    <3>1. Got(2) = 2
      BY <1>1, <2>1, HeaderRead DEF Typed, Open, FileCells
    <3>2. position' = 2
      BY <1>2, <2>1, <3>1 DEF Open, Read
    <3>3. Place(appended, 0) = 2
      BY <1>1, PlaceEnds
    <3> QED
      BY <1>3, <3>2, <3>3 DEF At
  <2>2. CASE OpenRejected
    BY <2>2 DEF OpenRejected, At
  <2> QED
    BY <2>1, <2>2 DEF OpenReader
<1>7. 0 \in 0 .. Len(appended')
  BY <1>1, <1>3, LenProperties
<1> QED
  BY <1>3, <1>5, <1>6, <1>7 DEF Faithful, PayloadGood

\* A record more, when it is the next one.
LEMMA ReturnsNext ==
  ASSUME PrefixInv, ReadNext, Returns, ~Repeated, Clean(answers),
         NEW k \in 0 .. Len(appended), Returned(Before(answers)) = First(appended, k), At(k)
  PROVE  /\ k + 1 \in 0 .. Len(appended) /\ Clean(answers')
         /\ Returned(Before(answers')) = First(appended, k + 1)
         /\ position' = Place(appended, k + 1)
<1>1. LogInv /\ Typed
  BY DEF PrefixInv, OrderInv, LogInv
<1>2. PICK s \in Seq(Events), r \in Seq(Events) :
         s = appended /\ r = Returned(answers) /\ Before(answers) = answers
  BY <1>1, TypedParts, BeforeClean
<1>3. /\ position' = position + PayloadCells[header] /\ header \in Events
      /\ readerPc = "payload" /\ answers' = Append(answers, header)
  BY DEF Returns
<1>4. PICK l \in 0 .. Len(s) : l < Len(s) /\ s[l + 1] = header /\ position = Place(s, l) + 2
  BY <1>2, <1>3 DEF PrefixInv, OrderInv, Heading, Doubtful
<1>5. position = Place(s, k) + 2
  BY <1>2, <1>3 DEF PrefixInv, PayloadGood, At
<1>6. l = k
  <2>1. Len(s) \in Nat /\ k \in Nat /\ l \in Nat /\ k \in 0 .. Len(s)
    BY <1>2, LenProperties
  <2>2. PICK x \in Nat, y \in Nat : x = Place(s, k) /\ y = Place(s, l)
    BY <2>1, PlaceEnds
  <2>3. x = y
    BY <1>4, <1>5, <2>2
  <2>4. ~(k < l)
    <3>1. k < l => x < y
      BY <2>1, <2>2, PlaceOrdered
    <3> QED
      BY <2>3, <3>1
  <2>5. ~(l < k)
    <3>1. l < k => y < x
      BY <2>1, <2>2, PlaceOrdered
    <3> QED
      BY <2>3, <3>1
  <2> QED
    BY <2>1, <2>4, <2>5
<1>7. /\ k + 1 \in 0 .. Len(s) /\ PayloadCells[header] \in Nat /\ Place(s, k) \in Nat
      /\ Place(s, k + 1) = Place(s, k) + (2 + PayloadCells[header])
  BY <1>4, <1>6, PlaceNext, PlaceEnds
<1>8. position' = Place(s, k + 1)
  <2>1. PICK p \in Nat, c \in Nat : p = Place(s, k) /\ c = PayloadCells[header]
    BY <1>7
  <2>2. position = p + 2 /\ position' = position + c /\ Place(s, k + 1) = p + (2 + c)
    BY <1>3, <1>5, <1>7, <2>1
  <2>3. \A i, j \in Nat : (i + 2) + j = i + (2 + j)
    OBVIOUS
  <2> QED
    BY <2>2, <2>3
<1>9. header \in Answers /\ header \notin Errors
  <2>1. "format" \notin Events /\ "crc" \notin Events
    BY Parameters
  <2> QED
    BY <1>3, <2>1 DEF Answers, Errors
<1>10. Clean(answers') /\ Before(answers') = answers'
  BY <1>1, <1>3, <1>9, BeforeAppend DEF Typed, ReaderTyped
<1>11. Returned(answers') = Append(r, header)
  BY <1>1, <1>2, <1>3, OneReturned DEF Typed
<1>12. First(s, k + 1) = r \o <<header>>
  <2>1. r = First(s, k)
    BY <1>2
  <2>2. First(s, k + 1) = First(s, k) \o <<s[k + 1]>>
    BY <1>4, <1>6, FirstNext
  <2> QED
    BY <1>4, <1>6, <2>1, <2>2
<1>13. Append(r, header) = r \o <<header>>
  BY <1>3, AppendIsConcat
<1> QED
  BY <1>2, <1>7, <1>8, <1>10, <1>11, <1>12, <1>13

LEMMA ReadFaithful ==
  ASSUME PrefixInv, ReadNext
  PROVE  PayloadGood' /\ Faithful'
<1>1. LogInv /\ Typed /\ NextRecord /\ UNCHANGED <<file, appended, writerPc, streamOk>>
  BY DEF PrefixInv, OrderInv, LogInv, ReadNext, writerVars, logVars
<1>2. Accepts \/ Returns \/ Gives("end") \/ Gives("format") \/ Gives("crc")
  BY <1>1, NextRecordIs DEF Typed
<1>3. PayloadGood'
  BY <1>2 DEF Accepts, Returns, Gives, PayloadGood
<1>4. Repeated' <=> Repeated
  BY <1>1 DEF Repeated
<1>5. SUFFICES ASSUME ~Repeated
               PROVE  \E k \in 0 .. Len(appended) :
                        /\ Returned(Before(answers')) = First(appended, k)
                        /\ Clean(answers') => At(k)'
  BY <1>1, <1>3, <1>4 DEF Faithful
<1>6. PICK k \in 0 .. Len(appended) :
         /\ Returned(Before(answers)) = First(appended, k)
         /\ Clean(answers) => At(k)
  BY <1>5 DEF PrefixInv, Faithful
<1>7. CASE Accepts
  <2>1. answers' = answers /\ position' = position + 2 /\ readerPc' = "payload"
        /\ readerPc = "idle" /\ inState = "good"
    BY <1>7 DEF Accepts
  <2>2. Clean(answers) => At(k)'
    <3>1. Clean(answers) => position = Place(appended, k) + 0
      BY <1>6, <2>1 DEF At
    <3>2. Place(appended, k) \in Nat
      BY <1>1, TypedParts, PlaceEnds
    <3>3. Clean(answers) => position' = Place(appended, k) + 2
      BY <2>1, <3>1, <3>2
    <3> QED
      BY <1>1, <2>1, <3>3 DEF At
  <2> QED
    BY <1>6, <2>1, <2>2
<1>8. CASE ~Clean(answers) /\ ~Accepts
  <2>1. PICK a \in Answers : answers' = Append(answers, a)
    BY <1>2, <1>8 DEF Returns, Gives, Answers
  <2>2. ~Clean(answers') /\ Before(answers') = Before(answers)
    BY <1>1, <1>8, <2>1, BeforeAppend DEF Typed, ReaderTyped
  <2> QED
    BY <1>6, <2>2
<1>9. CASE Clean(answers) /\ Returns
  <2>1. /\ k + 1 \in 0 .. Len(appended)
        /\ Returned(Before(answers')) = First(appended, k + 1)
        /\ position' = Place(appended, k + 1)
    BY <1>5, <1>6, <1>9, ReturnsNext
  <2>2. At(k + 1)'
    <3>1. Place(appended, k + 1) \in Nat
      BY <1>1, <2>1, TypedParts, PlaceEnds
    <3> QED
      BY <1>1, <1>9, <2>1, <3>1 DEF At, Returns
  <2> QED
    BY <2>1, <2>2
<1>10. CASE Clean(answers) /\ Gives("end")
  <2>1. NextEnd
    BY <1>1, <1>10, EndIsNextEnd DEF Gives, Typed
  <2>2. At(k)'
    BY <2>1 DEF NextEnd, At
  <2>3. "end" \in Answers /\ "end" \notin Errors
    BY DEF Answers, Errors
  <2>4. Before(answers') = answers' /\ Before(answers) = answers
    BY <1>1, <1>10, <2>3, BeforeAppend, BeforeClean DEF Gives, Typed, ReaderTyped
  <2>5. Returned(answers') = Returned(answers)
    BY <1>1, <1>10, NothingReturned DEF Gives, Typed
  <2> QED
    BY <1>6, <2>2, <2>4, <2>5
<1>11. CASE Clean(answers) /\ (Gives("format") \/ Gives("crc"))
  <2>1. PICK a \in {"format", "crc"} : answers' = Append(answers, a)
    BY <1>11 DEF Gives
  <2>2. a \in Answers /\ a \in Errors
    BY DEF Answers, Errors
  <2>3. ~Clean(answers') /\ Before(answers') = answers /\ Before(answers) = answers
    BY <1>1, <1>11, <2>1, <2>2, BeforeAppend, BeforeClean DEF Typed, ReaderTyped
  <2> QED
    BY <1>6, <2>3
<1> QED
  BY <1>2, <1>7, <1>8, <1>9, <1>10, <1>11

LEMMA PrefixInit == Init => PrefixInv
<1> SUFFICES ASSUME Init PROVE PrefixInv
  OBVIOUS
<1>1. OrderInv /\ Typed
  BY OrderInit, TypedInit
<1>2. answers = <<>> /\ readerPc = "unopened" /\ appended = <<>>
  BY DEF Init, ReaderInit
<1>3. Clean(<<>>) /\ Before(<<>>) = <<>>
  <2>1. Clean(<<>>)
    BY EmptySeq DEF Clean
  <2> QED
    BY <2>1, BeforeClean
<1>4. First(appended, 0) = <<>> /\ 0 \in 0 .. Len(appended)
  BY <1>1, SubSeqEmpty, TypedParts, LenProperties DEF First
<1>5. At(0)
  BY <1>2 DEF At
<1> QED
  BY <1>1, <1>2, <1>3, <1>4, <1>5, ReturnedEmpty DEF PrefixInv, PayloadGood, Faithful

LEMMA PrefixNext == PrefixInv /\ [Next]_vars => PrefixInv'
<1> SUFFICES ASSUME PrefixInv, [Next]_vars PROVE PrefixInv'
  OBVIOUS
<1>1. OrderInv'
  BY OrderNext DEF PrefixInv
<1>2. CASE UNCHANGED readerVars
  BY <1>1, <1>2, PrefixLeftAlone DEF PrefixInv
<1>3. CASE OpenReader
  BY <1>1, <1>3, OpenFaithful DEF PrefixInv
<1>4. CASE ReadNext
  BY <1>1, <1>4, ReadFaithful DEF PrefixInv
<1>5. OpenReader \/ ReadNext \/ UNCHANGED readerVars
  BY
  DEF Next, AppendNext, Flush, Close, Destroy, Crash, PowerLoss, Rot, Terminated, vars
<1> QED
  BY <1>2, <1>3, <1>4, <1>5

LEMMA PrefixCorrect == Spec => []PrefixInv
BY PrefixInit, PrefixNext, PTL DEF Spec

\* Until its first exception a reader has returned the first events that were
\* appended, whole and in order, whatever happened to the log.
THEOREM PrefixOfEvents == Spec => []ReadsAPrefix
<1>1. PrefixInv => ReadsAPrefix
  <2> SUFFICES ASSUME PrefixInv, ~Repeated
               PROVE  IsPrefix(Returned(BeforeError), appended)
    BY DEF ReadsAPrefix
  <2>1. PICK s \in Seq(Events) : s = appended
    BY TypedParts DEF PrefixInv, OrderInv, LogInv
  <2>2. PICK k \in 0 .. Len(s) : Returned(Before(answers)) = First(s, k)
    BY <2>1 DEF PrefixInv, Faithful
  <2>3. First(s, k) \in Seq(Events) /\ Len(First(s, k)) = k
    BY FirstTyped
  <2>4. SubSeq(First(s, k), 1, k) = First(s, k)
    BY <2>3, SubSeqFull
  <2>5. k <= Len(s)
    BY LenProperties
  <2>6. IsPrefix(First(s, k), s)
    BY <2>3, <2>4, <2>5 DEF IsPrefix, First
  <2> QED
    BY <2>1, <2>2, <2>6, BeforeIs
<1> QED
  BY <1>1, PrefixCorrect, PTL

-----------------------------------------------------------------------------
(* The end *)

\* A device error is remembered by the stream.
FaultSeen == ioErrors => inState = "bad"

\* A reader that met no exception took what it returned.
Consumed ==
  Clean(answers) /\ inState = "good" =>
    /\ readerPc = "idle" => First(file, position) = Taken
    /\ readerPc = "payload" => First(file, position) = Joint(Taken, RecordHeader(header))

EndInv == PrefixInv /\ FaultSeen /\ Consumed

LEMMA FaultsSeen ==
  ASSUME Typed, FaultSeen, NextRecord \/ Open \/ OpenRejected
  PROVE  FaultSeen'
BY DEF NextRecord, NextEnd, NextTruncatedHeader, NextHeader, NextBadHeader,
       NextTruncatedPayload, NextBadPayload, NextEvent, Open, OpenRejected,
       Read, ReadFault, FaultSeen

LEMMA EndLeftAlone ==
  ASSUME EndInv, [Next]_vars, UNCHANGED readerVars
  PROVE  FaultSeen' /\ Consumed'
<1>1. Typed
  BY DEF EndInv, PrefixInv, OrderInv, LogInv
<1>2. UNCHANGED <<readerPc, position, inState, header, answers, ioErrors>>
  BY DEF readerVars
<1>3. FaultSeen'
  BY <1>2 DEF EndInv, FaultSeen
<1>4. Taken' = Taken
  BY <1>2 DEF Taken
<1>5. readerPc # "unopened" => First(file', position) = First(file, position)
  BY <1>1, ReadFileGrows, GrowsFirst DEF Typed
<1>6. Consumed'
  BY <1>2, <1>4, <1>5 DEF EndInv, Consumed
<1> QED
  BY <1>3, <1>6

LEMMA OpenEnd ==
  ASSUME EndInv, OpenReader
  PROVE  FaultSeen' /\ Consumed'
<1>1. Typed /\ FaultSeen /\ readerPc = "unopened" /\ answers = <<>>
  BY DEF EndInv, PrefixInv, OrderInv, Unread, LogInv, OpenReader, Open, OpenRejected
<1>2. FaultSeen'
  BY <1>1, FaultsSeen DEF OpenReader
<1>3. CASE OpenRejected
  BY <1>2, <1>3 DEF OpenRejected, Consumed
<1>4. CASE Open
  <2>1. First(file, position') = Taken'
    BY <1>1, <1>4, TakenOpen DEF Typed
  <2>2. readerPc' = "idle" /\ UNCHANGED file
    BY <1>4 DEF Open, OpenReader, writerVars
  <2> QED
    BY <1>2, <2>1, <2>2 DEF Consumed
<1> QED
  BY <1>3, <1>4 DEF OpenReader

LEMMA ReadEnd ==
  ASSUME EndInv, ReadNext
  PROVE  FaultSeen' /\ Consumed'
<1>1. Typed /\ FaultSeen /\ NextRecord /\ UNCHANGED file
  BY DEF EndInv, PrefixInv, OrderInv, LogInv, ReadNext, writerVars
<1>2. FaultSeen'
  BY <1>1, FaultsSeen
<1>3. Accepts \/ Returns \/ Gives("end") \/ Gives("format") \/ Gives("crc")
  BY <1>1, NextRecordIs DEF Typed
<1>6. CASE Accepts
  <2>1. /\ inState = "good" /\ readerPc = "idle" /\ readerPc' = "payload"
        /\ answers' = answers
    BY <1>6 DEF Accepts
  <2>2. Clean(answers) => First(file, position') = Joint(Taken', RecordHeader(header'))
    BY <1>1, <1>6, <2>1, TakenAccepts DEF Typed, EndInv, Consumed
  <2> QED
    BY <1>1, <1>2, <2>1, <2>2 DEF Consumed
<1>7. CASE Returns
  <2>1. /\ header \in Events /\ inState' = inState /\ readerPc = "payload"
        /\ readerPc' = "idle" /\ answers' = Append(answers, header)
    BY <1>7 DEF Returns
  <2>2. Clean(answers') => Clean(answers)
    BY <1>1, <2>1, BeforeAppend DEF Typed, ReaderTyped, Answers
  <2>3. Clean(answers) /\ inState = "good" => First(file, position') = Taken'
    BY <1>1, <1>7, <2>1, TakenReturns DEF Typed, EndInv, Consumed
  <2> QED
    BY <1>1, <1>2, <2>1, <2>2, <2>3 DEF Consumed
<1>8. CASE Gives("end")
  <2>1. NextEnd
    BY <1>1, <1>8, EndIsNextEnd DEF Gives, Typed
  <2> QED
    BY <1>2, <2>1 DEF NextEnd, Consumed
<1>9. CASE Gives("format") \/ Gives("crc")
  <2>1. PICK a \in {"format", "crc"} : answers' = Append(answers, a)
    BY <1>9 DEF Gives
  <2>2. a \in Answers /\ a \in Errors
    BY DEF Answers, Errors
  <2>3. ~Clean(answers')
    BY <1>1, <2>1, <2>2, BeforeAppend DEF Typed, ReaderTyped
  <2> QED
    BY <1>2, <2>3 DEF Consumed
<1> QED
  BY <1>3, <1>6, <1>7, <1>8, <1>9

LEMMA EndInit == Init => EndInv
BY PrefixInit DEF Init, ReaderInit, EndInv, FaultSeen, Consumed

LEMMA EndNext == EndInv /\ [Next]_vars => EndInv'
<1> SUFFICES ASSUME EndInv, [Next]_vars PROVE EndInv'
  OBVIOUS
<1>1. PrefixInv'
  BY PrefixNext DEF EndInv
<1>2. CASE UNCHANGED readerVars
  BY <1>1, <1>2, EndLeftAlone DEF EndInv
<1>3. CASE OpenReader
  BY <1>1, <1>3, OpenEnd DEF EndInv
<1>4. CASE ReadNext
  BY <1>1, <1>4, ReadEnd DEF EndInv
<1>5. OpenReader \/ ReadNext \/ UNCHANGED readerVars
  BY
  DEF Next, AppendNext, Flush, Close, Destroy, Crash, PowerLoss, Rot, Terminated, vars
<1> QED
  BY <1>2, <1>3, <1>4, <1>5

LEMMA EndCorrect == Spec => []EndInv
BY EndInit, EndNext, PTL DEF Spec

\* The end that a step answers with.
TellsTheEnd ==
  answers' = Append(answers, "end") =>
    /\ ~ioErrors'
    /\ BeforeError = answers /\ inState = "good"
         => file = FileCells \o Records(Returned(answers))

\* The first end of a reader that met no exception is answered when the file
\* holds the records returned and nothing else; after a device error there is
\* no end.
THEOREM EndIsTheTruth == Spec => EndIsHonest
<1>1. EndInv /\ [Next]_vars => [TellsTheEnd]_vars
  <2> SUFFICES ASSUME EndInv, [Next]_vars, answers' = Append(answers, "end")
               PROVE  TellsTheEnd
    BY DEF TellsTheEnd
  <2>1. Typed
    BY DEF EndInv, PrefixInv, OrderInv, LogInv
  <2>2. answers' # answers
    <3>1. Len(Append(answers, "end")) = Len(answers) + 1 /\ Len(answers) \in Nat
      BY <2>1 DEF Typed, ReaderTyped
    <3> QED
      BY <3>1
  <2>3. ReadNext
    BY <2>2
    DEF Next, AppendNext, Flush, Close, Destroy, Crash, PowerLoss, Rot, OpenReader,
                Open, OpenRejected, Terminated, vars, readerVars
  <2>4. NextEnd
    BY <2>1, <2>3, EndIsNextEnd DEF ReadNext, Typed
  <2>5. ~ioErrors'
    BY <2>4 DEF NextEnd, Read, EndInv, FaultSeen
  <2>6. ASSUME BeforeError = answers, inState = "good"
        PROVE  file = FileCells \o Records(Returned(answers))
    <3>1. Clean(answers)
      <4>1. ASSUME ~Clean(answers) PROVE FALSE
        <5>1. PICK m \in Nat : FirstError(answers, m)
          BY <2>1, <4>1, FirstErrorExists DEF Typed, ReaderTyped
        <5>2. Before(answers) # answers
          BY <2>1, <5>1, BeforeFirst DEF Typed, ReaderTyped
        <5> QED
          BY <2>6, <5>2, BeforeIs
      <4> QED
        BY <4>1
    <3>2. Got(2) = 0 /\ readerPc = "idle"
      BY <2>4 DEF NextEnd
    <3>3. position = Len(file)
      BY <2>1, <2>6, <3>2, GotBounds DEF Got, Typed
    <3>4. First(file, position) = file
      BY <2>1, <3>3, SubSeqFull DEF First, Typed, ReaderTyped
    <3> QED
      BY <2>6, <3>1, <3>2, <3>4 DEF EndInv, Consumed, Taken, Joint
  <2> QED
    BY <2>5, <2>6 DEF TellsTheEnd
<1>2. Spec => [][TellsTheEnd]_vars
  BY <1>1, EndCorrect, PTL DEF Spec
<1> QED
  BY <1>2 DEF EndIsHonest, TellsTheEnd

-----------------------------------------------------------------------------
(* A closed log *)

\* What was true when the reader was opened stays so.
Sealed == sealed => logClosed /\ ~powerLost /\ damaged = 0 /\ readerPc # "unopened"

ReadsBack ==
  sealed /\ ~ioErrors =>
    /\ readerPc # "rejected" /\ Clean(answers) /\ inState # "bad"
    /\ inState = "eof" => Returned(answers) = appended
    /\ inState # "eof" => \A i \in 1 .. Len(answers) : answers[i] # "end"

ClosedInv == PrefixInv /\ Sealed /\ ReadsBack

\* All of a closed log is in its file.
LEMMA ClosedFile ==
  ASSUME LogInv, logClosed, ~powerLost, damaged = 0
  PROVE  file = LogOf(appended) /\ ~Repeated /\ appended \in Seq(Events)
<1>1. Typed /\ streamOk /\ pending = <<>> /\ buffer = <<>>
  BY DEF LogInv, Closed
<1>2. file \in Seq(Units) /\ appended \in Seq(Events)
  BY <1>1 DEF Typed, ReaderTyped
<1>3. CompleteLog = Joint(file, Joint(<<>>, <<>>))
  BY <1>1 DEF LogInv, Whole, Travelling
<1>4. <<>> \o <<>> = <<>> /\ file \o <<>> = file
  BY <1>2, ConcatEmptySeq, EmptySeq
<1> QED
  BY <1>1, <1>2, <1>3, <1>4 DEF Joint, CompleteLog, LogOf, Repeated

\* A log that is closed stays closed and takes no more events.
LEMMA ClosedStays ==
  ASSUME [Next]_vars, logClosed
  PROVE  logClosed' /\ appended' = appended
<1>1. CASE AppendNext
  BY <1>1
  DEF AppendNext, AppendBuffered, AppendWritten, AppendIoError, AppendFormatError,
              AppendClosed, writerVars
<1>2. CASE Flush
  BY <1>2 DEF Flush, FlushOk, FlushIoError, FlushClosed, writerVars, logVars
<1>3. CASE Close
  BY <1>3
  DEF Close, CloseOk, CloseIoError, FlushIoError, CloseAgain, writerVars, logVars
<1>4. CASE Destroy
  BY <1>4 DEF Destroy, DestroyOk, DestroyIoError, CloseOk, CloseIoError, FlushIoError,
              CloseAgain, writerVars
<1>5. CASE ~(AppendNext \/ Flush \/ Close \/ Destroy)
  BY <1>5 DEF Next, Crash, PowerLoss, Rot, OpenReader, Open, OpenRejected, ReadNext,
              Terminated, vars, writerVars, logVars
<1> QED
  BY <1>1, <1>2, <1>3, <1>4, <1>5

LEMMA SealedNext ==
  ASSUME Sealed, [Next]_vars
  PROVE  Sealed'
<1>1. CASE OpenReader
  BY <1>1 DEF OpenReader, Open, OpenRejected, Sealed, writerVars
<1>2. CASE ~OpenReader
  <2>1. sealed' = sealed
    BY <1>2
    DEF Next, AppendNext, Flush, Close, Destroy, Crash, PowerLoss, Rot, ReadNext,
                Terminated, vars, logVars
  <2>2. readerPc # "unopened" =>
          UNCHANGED <<powerLost, damaged>> /\ readerPc' # "unopened"
    <3>1. CASE ReadNext
      BY <3>1 DEF ReadNext, NextRecord, NextEnd, NextTruncatedHeader, NextHeader,
                  NextBadHeader, NextTruncatedPayload, NextBadPayload, NextEvent, Answer,
                  logVars
    <3>2. CASE ~ReadNext
      BY <1>2, <3>2 DEF Next, AppendNext, Flush, Close, Destroy, Crash, PowerLoss, Rot,
                        Terminated, vars, readerVars, logVars
    <3> QED
      BY <3>1, <3>2
  <2> QED
    BY <2>1, <2>2, ClosedStays DEF Sealed
<1> QED
  BY <1>1, <1>2

\* Cells that are where they should be are read as what they should be.
LEMMA ReadAsWritten ==
  ASSUME Typed, inState = "good", NEW n \in Nat, NEW c \in Seq(Units), Len(c) = n,
         position + n <= Len(file), \A j \in 1 .. n : file[position + j] = c[j]
  PROVE  Got(n) = n /\ Cells(n) = c
<1>1. position \in Nat /\ Len(file) \in Nat
  BY GotBounds DEF Typed
<1>2. Got(n) = n
  BY <1>1 DEF Got
<1>3. /\ Cells(n) \in Seq(Units) /\ Len(Cells(n)) = n
      /\ \A j \in 1 .. n : Cells(n)[j] = file[position + j]
  BY <1>2, CellsRead DEF Typed
<1>4. \A j \in 1 .. Len(Cells(n)) : Cells(n)[j] = c[j]
  BY <1>3
<1> QED
  BY <1>2, <1>3, <1>4, SeqEqual

LEMMA ClosedLeftAlone ==
  ASSUME ClosedInv, [Next]_vars, UNCHANGED readerVars, ~OpenReader
  PROVE  ReadsBack'
<1>1. UNCHANGED <<readerPc, inState, answers, ioErrors>>
  BY DEF readerVars
<1>2. sealed' = sealed
  BY DEF Next, AppendNext, Flush, Close, Destroy, Crash, PowerLoss, Rot, ReadNext,
         Terminated, vars, logVars
<1>3. sealed => appended' = appended
  BY ClosedStays DEF ClosedInv, Sealed
<1> QED
  BY <1>1, <1>2, <1>3 DEF ClosedInv, ReadsBack

LEMMA OpenClosed ==
  ASSUME ClosedInv, OpenReader
  PROVE  ReadsBack'
<1> SUFFICES ASSUME sealed', ~ioErrors' PROVE ReadsBack'
  BY DEF ReadsBack
<1>1. LogInv /\ Typed /\ logClosed /\ ~powerLost /\ damaged = 0
  BY DEF ClosedInv, PrefixInv, OrderInv, LogInv, OpenReader
<1>2. readerPc = "unopened" /\ position = 0 /\ inState = "good" /\ answers = <<>>
  BY <1>1
  DEF OpenReader, Open, OpenRejected, Typed, ReaderTyped, ClosedInv, PrefixInv,
      OrderInv, Unread
<1>3. file = LogOf(appended) /\ appended \in Seq(Events)
  BY <1>1, ClosedFile
<1>4. Got(2) = 2 /\ Cells(2) = FileCells
  <2>1. /\ FileHeader \in Seq(Units) /\ Records(appended) \in Seq(Units)
        /\ Len(FileHeader) = 2 /\ FileHeader = FileCells
    BY <1>3, HeaderTyped, RecordsTyped, Parameters
  <2>2. Agrees(FileHeader, LogOf(appended))
    BY <2>1, StartAgrees DEF LogOf, Joint
  <2>3. 0 + 2 <= Len(file) /\ \A j \in 1 .. 2 : file[0 + j] = FileHeader[j]
    BY <1>3, <2>1, <2>2 DEF Agrees
  <2> QED
    BY <1>1, <1>2, <2>1, <2>3, ReadAsWritten
<1>5. inState' = "good" /\ readerPc' = "idle" /\ answers' = <<>>
  <2>1. ~ReadFault
    BY DEF ReadFault
  <2> QED
    BY <1>2, <1>4, <2>1 DEF OpenReader, Open, OpenRejected, Read
<1>6. Clean(<<>>) /\ \A i \in 1 .. Len(<<>>) : <<>>[i] # "end"
  BY EmptySeq DEF Clean
<1> QED
  BY <1>5, <1>6 DEF ReadsBack

\* A call that answers with the end, or with one record more.
LEMMA EndsBack ==
  ASSUME Typed, Clean(answers), Answer("end"), inState' = "eof", UNCHANGED appended,
         Returned(answers) = appended
  PROVE  ReadsBack'
<1>1. "end" \in Answers /\ "end" \notin Errors
  BY DEF Answers, Errors
<1>2. answers' = Append(answers, "end") /\ readerPc' = "idle"
  BY DEF Answer
<1>3. Clean(answers')
  BY <1>1, <1>2, BeforeAppend DEF Typed, ReaderTyped
<1>4. Returned(answers') = Returned(answers)
  BY <1>2, NothingReturned DEF Typed
<1> QED
  BY <1>2, <1>3, <1>4 DEF ReadsBack

LEMMA ReadClosed ==
  ASSUME ClosedInv, ReadNext
  PROVE  ReadsBack'
<1> SUFFICES ASSUME sealed', ~ioErrors' PROVE ReadsBack'
  BY DEF ReadsBack
<1>1. /\ LogInv /\ Typed /\ NextRecord /\ sealed /\ logClosed /\ ~powerLost /\ damaged = 0
      /\ UNCHANGED <<file, appended>>
  BY DEF ClosedInv, PrefixInv, OrderInv, LogInv, Sealed, ReadNext, logVars, writerVars
<1>2. ~ioErrors /\ ~ReadFault
  BY <1>1 DEF NextRecord, NextEnd, NextTruncatedHeader, NextHeader, NextBadHeader,
              NextTruncatedPayload, NextBadPayload, NextEvent, Read, ReadFault
<1>3. /\ Clean(answers) /\ inState # "bad"
      /\ inState = "eof" => Returned(answers) = appended
      /\ inState # "eof" => \A i \in 1 .. Len(answers) : answers[i] # "end"
  BY <1>1, <1>2 DEF ClosedInv, ReadsBack
<1>4. PICK s \in Seq(Events) : s = appended /\ file = LogOf(s)
  BY <1>1, ClosedFile
<1>5. ~Repeated /\ Before(answers) = answers
  BY <1>1, <1>3, ClosedFile, BeforeClean
<1>6. inState \in {"good", "eof"} /\ position \in Nat /\ Len(file) \in Nat
  BY <1>1, <1>3, GotBounds DEF Typed, ReaderTyped
<1>7. CASE readerPc = "idle" /\ inState = "eof"
  <2>1. Got(2) = 0
    BY <1>7 DEF Got
  <2>2. NextEnd
    BY <1>1, <1>2, <1>7, <2>1
    DEF NextRecord, NextTruncatedHeader, NextHeader, NextBadHeader, NextTruncatedPayload,
        NextBadPayload, NextEvent
  <2> QED
    BY <1>1, <1>3, <1>7, <2>2, EndsBack DEF NextEnd
<1>8. CASE readerPc = "idle" /\ inState = "good"
  <2>1. PICK k \in 0 .. Len(s) : Returned(answers) = First(s, k) /\ position = Place(s, k) + 0
    BY <1>3, <1>4, <1>5, <1>8 DEF ClosedInv, PrefixInv, Faithful, At
  <2>2. PICK p \in Nat : p = Place(s, k) /\ position = p
    BY <2>1, PlaceEnds
  <2>3. CASE k = Len(s)
    <3>1. position = Len(file)
      BY <1>4, <2>2, <2>3, PlaceEnds
    <3>2. Got(2) = 0
      BY <1>6, <1>8, <3>1 DEF Got
    <3>3. NextEnd
      BY <1>1, <1>2, <1>8, <3>2
      DEF NextRecord, NextTruncatedHeader, NextHeader, NextBadHeader, NextTruncatedPayload,
          NextBadPayload, NextEvent
    <3>4. First(s, k) = s
      BY <2>3, SubSeqFull DEF First
    <3> QED
      BY <1>1, <1>3, <1>4, <2>1, <3>3, <3>4, EndsBack DEF NextEnd
  <2>4. CASE k # Len(s)
    <3>1. k < Len(s)
      BY <2>4, LenProperties
    <3>2. PICK e \in Events, c \in Nat :
             /\ e = s[k + 1] /\ c = PayloadCells[e] /\ p + (2 + c) <= Len(file)
             /\ \A j \in 1 .. 2 + c : file[p + j] = Encoding[e][j]
      <4>1. /\ s[k + 1] \in Events /\ PayloadCells[s[k + 1]] \in Nat
            /\ Place(s, k + 1) = Place(s, k) + (2 + PayloadCells[s[k + 1]])
            /\ Place(s, k + 1) <= Len(LogOf(s))
            /\ \A j \in 1 .. 2 + PayloadCells[s[k + 1]] :
                 LogOf(s)[Place(s, k) + j] = Encoding[s[k + 1]][j]
        BY <3>1, PlaceNext
      <4> QED
        BY <1>4, <2>2, <4>1
    <3>3. RecordHeader(e) \in Seq(Units) /\ Len(RecordHeader(e)) = 2
          /\ \A j \in 1 .. 2 : RecordHeader(e)[j] = Encoding[e][j]
      <4>1. Cell(e, 1) \in Units /\ Cell(e, 2) \in Units
        BY CellTyped
      <4>2. Encoding[e][1] = Cell(e, 1) /\ Encoding[e][2] = Cell(e, 2)
        BY EncodingTyped
      <4>3. /\ RecordHeader(e) \in Seq(Units) /\ Len(RecordHeader(e)) = 2
            /\ RecordHeader(e)[1] = Cell(e, 1) /\ RecordHeader(e)[2] = Cell(e, 2)
        BY <4>1 DEF RecordHeader
      <4>4. \A j \in 1 .. 2 : j = 1 \/ j = 2
        OBVIOUS
      <4> QED
        BY <4>2, <4>3, <4>4
    <3>4. p + 2 <= Len(file) /\ \A j \in 1 .. 2 : file[p + j] = RecordHeader(e)[j]
      <4>1. \A i, j, m \in Nat : i + (2 + j) <= m => i + 2 <= m
        OBVIOUS
      <4>2. \A j \in 1 .. 2 : j \in 1 .. 2 + c
        OBVIOUS
      <4> QED
        BY <1>6, <3>2, <3>3, <4>1, <4>2
    <3>5. Got(2) = 2 /\ Cells(2) = RecordHeader(e)
      BY <1>1, <1>8, <2>2, <3>3, <3>4, ReadAsWritten
    <3>6. NextHeader
      BY <1>1, <1>2, <1>8, <3>5
      DEF NextRecord, NextEnd, NextTruncatedHeader, NextBadHeader, NextTruncatedPayload,
          NextBadPayload, NextEvent
    <3>7. inState' = "good" /\ answers' = answers /\ readerPc' = "payload"
      BY <1>8, <3>5, <3>6 DEF NextHeader, Read
    <3> QED
      BY <1>3, <1>8, <3>7 DEF ReadsBack
  <2> QED
    BY <2>3, <2>4
<1>9. CASE readerPc = "payload"
  <2>1. inState = "good" /\ header \in Events
    BY <1>1, <1>9 DEF ClosedInv, PrefixInv, PayloadGood, Typed, ReaderTyped
  <2>2. PICK k \in 0 .. Len(s) :
           k < Len(s) /\ s[k + 1] = header /\ position = Place(s, k) + 2
    BY <1>3, <1>4, <1>5, <1>9 DEF ClosedInv, PrefixInv, OrderInv, Heading, Doubtful
  <2>3. PICK p \in Nat, c \in Nat :
           /\ p = Place(s, k) /\ c = PayloadCells[header] /\ p + (2 + c) <= Len(file)
           /\ \A j \in 1 .. 2 + c : file[p + j] = Encoding[header][j]
    <3>1. /\ PayloadCells[s[k + 1]] \in Nat
          /\ Place(s, k + 1) = Place(s, k) + (2 + PayloadCells[s[k + 1]])
          /\ Place(s, k + 1) <= Len(LogOf(s)) /\ Place(s, k) \in Nat
          /\ \A j \in 1 .. 2 + PayloadCells[s[k + 1]] :
               LogOf(s)[Place(s, k) + j] = Encoding[s[k + 1]][j]
      BY <2>2, PlaceNext, PlaceEnds
    <3> QED
      BY <1>4, <2>2, <3>1
  <2>4. /\ Payload[header] \in Seq(Units) /\ Len(Payload[header]) = c
        /\ \A j \in 1 .. c : Payload[header][j] = Encoding[header][2 + j]
    BY <2>1, <2>3, PayloadIs
  <2>5. position = p + 2 /\ position + c <= Len(file)
    <3>1. \A i, j \in Nat : (i + 2) + j = i + (2 + j)
      OBVIOUS
    <3>2. position = p + 2 /\ (p + 2) + c <= Len(file)
      BY <2>2, <2>3, <3>1
    <3> QED
      BY <3>2
  <2>6. ASSUME NEW j \in 1 .. c PROVE file[position + j] = Payload[header][j]
    <3>1. j \in Nat /\ 2 + j \in 1 .. 2 + c
      BY <2>3
    <3>2. (p + 2) + j = p + (2 + j)
      BY <3>1
    <3>3. file[p + (2 + j)] = Encoding[header][2 + j]
      BY <2>3, <3>1
    <3> QED
      BY <2>4, <2>5, <3>2, <3>3
  <2>7. Got(c) = c /\ Cells(c) = Payload[header]
    BY <1>1, <2>1, <2>3, <2>4, <2>5, <2>6, ReadAsWritten
  <2>8. NextEvent
    <3>1. ~(Got(c) < c)
      BY <2>3, <2>7
    <3> QED
      BY <1>1, <1>2, <1>9, <2>3, <2>7, <3>1
      DEF NextRecord, NextEnd, NextTruncatedHeader, NextHeader, NextBadHeader,
          NextTruncatedPayload, NextBadPayload
  <2>9. inState' = "good" /\ readerPc' = "idle" /\ answers' = Append(answers, header)
    <3>1. ~(Got(c) < c)
      BY <2>3, <2>7
    <3> QED
      BY <2>1, <2>3, <2>8, <3>1 DEF NextEvent, Read
  <2>10. header \in Answers /\ header \notin Errors /\ header # "end"
    BY <2>1, Parameters DEF Answers, Errors
  <2>11. Clean(answers')
    BY <1>1, <1>3, <2>9, <2>10, BeforeAppend DEF Typed, ReaderTyped
  <2>12. \A i \in 1 .. Len(answers') : answers'[i] # "end"
    <3>1. PICK n \in Nat : n = Len(answers) /\ answers \in Seq(Answers)
      BY <1>1, LenProperties DEF Typed, ReaderTyped
    <3>2. /\ Len(answers') = n + 1
          /\ \A i \in 1 .. n + 1 : answers'[i] = IF i = n + 1 THEN header ELSE answers[i]
      BY <2>9, <3>1
    <3>3. \A i \in 1 .. n + 1 : i = n + 1 \/ i \in 1 .. n
      BY <3>1
    <3> QED
      BY <1>3, <2>1, <2>10, <3>1, <3>2, <3>3
  <2> QED
    BY <2>9, <2>11, <2>12 DEF ReadsBack
<1> QED
  BY <1>1, <1>6, <1>7, <1>8, <1>9
  DEF NextRecord, NextEnd, NextTruncatedHeader, NextHeader, NextBadHeader,
      NextTruncatedPayload, NextBadPayload, NextEvent

LEMMA ClosedInit == Init => ClosedInv
BY PrefixInit DEF Init, ClosedInv, Sealed, ReadsBack

LEMMA ClosedNext == ClosedInv /\ [Next]_vars => ClosedInv'
<1> SUFFICES ASSUME ClosedInv, [Next]_vars PROVE ClosedInv'
  OBVIOUS
<1>1. PrefixInv' /\ Sealed'
  BY PrefixNext, SealedNext DEF ClosedInv
<1>2. CASE UNCHANGED readerVars /\ ~OpenReader
  BY <1>1, <1>2, ClosedLeftAlone DEF ClosedInv
<1>3. CASE OpenReader
  BY <1>1, <1>3, OpenClosed DEF ClosedInv
<1>4. CASE ReadNext
  BY <1>1, <1>4, ReadClosed DEF ClosedInv
<1>5. OpenReader \/ ReadNext \/ UNCHANGED readerVars
  BY
  DEF Next, AppendNext, Flush, Close, Destroy, Crash, PowerLoss, Rot, Terminated, vars
<1> QED
  BY <1>2, <1>3, <1>4, <1>5

LEMMA ClosedCorrect == Spec => []ClosedInv
BY ClosedInit, ClosedNext, PTL DEF Spec

\* A log that was closed, and that nothing happened to, reads back: every
\* event, no exception, then the end.
THEOREM ClosedReadsBack == Spec => []ClosedLogReadsBack
<1>1. ClosedInv => ClosedLogReadsBack
  <2> SUFFICES ASSUME ClosedInv, sealed, ~ioErrors
               PROVE  /\ readerPc # "rejected"
                      /\ Range(answers) \cap Errors = {}
                      /\ "end" \in Range(answers) => Returned(answers) = appended
    BY DEF ClosedLogReadsBack
  <2>1. /\ readerPc # "rejected" /\ Clean(answers)
        /\ inState = "eof" => Returned(answers) = appended
        /\ inState # "eof" => \A i \in 1 .. Len(answers) : answers[i] # "end"
    BY DEF ClosedInv, ReadsBack
  <2>2. DOMAIN answers = 1 .. Len(answers)
    BY LenProperties DEF ClosedInv, PrefixInv, OrderInv, LogInv, Typed, ReaderTyped
  <2> QED
    BY <2>1, <2>2 DEF Range, Clean
<1> QED
  BY <1>1, ClosedCorrect, PTL
=============================================================================
