----------------------------- MODULE BinaryLog -----------------------------
(***************************************************************************)
(* A log on its way from a BinaryLogWriter through a file to a             *)
(* BinaryLogReader (the shape of tests/test_binary_log.cpp).  One thread   *)
(* owns the writer and makes any sequence of calls; writes may fail, the   *)
(* process may die at any moment, the machine may lose power, a cell of    *)
(* the file may rot; somebody reads the file, while it is being written or *)
(* afterwards, and may go on after an exception.                           *)
(***************************************************************************)
EXTENDS BinaryLogWriter, BinaryLogReader

CONSTANTS Plan,       \* the events offered to append(), in order
          MaxNexts,   \* bound: calls of next()
          Damages     \* bound: cells that rot

ASSUME LogAssumption ==
  /\ Oversized \subseteq Events
  /\ Plan \in Seq(Events)
  /\ RequestedThreshold \in Nat /\ MaxNexts \in Nat /\ Damages \in Nat
  /\ {FlushOnEachEvent, DiskFaults} \subseteq BOOLEAN

VARIABLES writerPc,   \* "alive", "destroyed", "crashed"
          offered,    \* events offered to append() so far
          appended,   \* history: the events whose records were laid out
          powerLost,  \* history: the file lost its end
          damaged,    \* history: cells that rotted
          sealed      \* history: when the reader was opened, the log was
                      \* closed and nothing had happened to the file

logVars == <<writerPc, offered, appended, powerLost, damaged, sealed>>
vars == <<writerVars, readerVars, logVars>>

Init ==
  /\ WriterInit /\ ReaderInit
  /\ writerPc = "alive"
  /\ offered = 0
  /\ appended = <<>>
  /\ powerLost = FALSE
  /\ damaged = 0
  /\ sealed = FALSE

-----------------------------------------------------------------------------
(* The thread that owns the writer *)

AppendNext ==
  /\ writerPc = "alive" /\ offered < Len(Plan)
  /\ LET e == Plan[offered + 1] IN
     \/ /\ AppendBuffered(e) \/ AppendWritten(e) \/ AppendIoError(e)
        /\ appended' = Append(appended, e)
     \/ /\ AppendFormatError(e) \/ AppendClosed
        /\ UNCHANGED appended
  /\ offered' = offered + 1
  /\ UNCHANGED <<readerVars, writerPc, powerLost, damaged, sealed>>

Flush ==
  /\ writerPc = "alive"
  /\ FlushOk \/ FlushIoError \/ FlushClosed
  /\ UNCHANGED <<readerVars, logVars>>

Close ==
  /\ writerPc = "alive"
  /\ CloseOk \/ CloseIoError \/ CloseAgain
  /\ UNCHANGED <<readerVars, logVars>>

Destroy ==
  /\ writerPc = "alive"
  /\ DestroyOk \/ DestroyIoError
  /\ writerPc' = "destroyed"
  /\ UNCHANGED <<readerVars, offered, appended, powerLost, damaged, sealed>>

-----------------------------------------------------------------------------
(* What happens to the process and to the file *)

\* The process is killed: the file stays as it is.
Crash ==
  /\ writerPc = "alive"
  /\ writerPc' = "crashed"
  /\ UNCHANGED <<writerVars, readerVars, offered, appended, powerLost, damaged, sealed>>

\* The machine stops: nothing calls fsync, the file may lose any part of its
\* end, and whoever was reading it is gone too.
PowerLoss ==
  /\ readerPc = "unopened" /\ ~powerLost
  /\ writerPc' = IF writerPc = "alive" THEN "crashed" ELSE writerPc
  /\ \E n \in 0 .. Len(file) : file' = SubSeq(file, 1, n)
  /\ powerLost' = TRUE
  /\ UNCHANGED <<buffer, pending, streamOk, logClosed, writerStats, readerVars,
                 offered, appended, damaged, sealed>>

\* A cell of a file at rest rots.
Rot ==
  /\ writerPc # "alive" /\ readerPc = "unopened"
  /\ damaged < Damages
  /\ \E i \in DOMAIN file : file' = [file EXCEPT ![i].intact = FALSE]
  /\ damaged' = damaged + 1
  /\ UNCHANGED <<buffer, pending, streamOk, logClosed, writerStats, readerVars,
                 writerPc, offered, appended, powerLost, sealed>>

-----------------------------------------------------------------------------
(* The thread that reads *)

OpenReader ==
  /\ Open \/ OpenRejected
  /\ sealed' = (logClosed /\ ~powerLost /\ damaged = 0)
  /\ UNCHANGED <<writerVars, writerPc, offered, appended, powerLost, damaged>>

ReadNext ==
  /\ readerPc = "idle" => Len(answers) < MaxNexts
  /\ NextRecord
  /\ UNCHANGED <<writerVars, logVars>>

Terminated ==
  /\ writerPc # "alive"
  /\ readerPc = "rejected" \/ Len(answers) = MaxNexts
  /\ UNCHANGED vars

Next ==
  \/ AppendNext \/ Flush \/ Close \/ Destroy
  \/ Crash \/ PowerLoss \/ Rot
  \/ OpenReader \/ ReadNext
  \/ Terminated

Spec == Init /\ [][Next]_vars

-----------------------------------------------------------------------------
(* Invariants *)

TypeOK ==
  /\ {file, pending, buffer} \subseteq
       Seq([of : Events \cup {"file"}, part : Nat \ {0}, intact : BOOLEAN])
  /\ readerPc \in {"unopened", "idle", "payload", "rejected"}
  /\ position \in 0 .. Len(file)
  /\ inState \in {"good", "eof", "bad"}
  /\ header \in Events \cup {NoEvent} /\ (readerPc = "payload" => header \in Events)
  /\ info \in [first : Nat, last : Nat]
  /\ answers \in Seq(Events \cup {"end", "format", "crc"})
  /\ writerPc \in {"alive", "destroyed", "crashed"}
  /\ appended \in Seq(Events)
  /\ offered \in 0 .. Len(Plan) /\ damaged \in 0 .. Damages
  /\ eventsWritten \in Nat /\ bytesWritten \in Nat
  /\ {streamOk, logClosed, powerLost, sealed, ioErrors} \subseteq BOOLEAN

Errors == {"format", "crc"}

\* The answers before the first exception: what a caller that stops there got.
BeforeError ==
  LET first == SelectInSeq(answers, LAMBDA a : a \in Errors)
  IN  IF first = 0 THEN answers ELSE SubSeq(answers, 1, first - 1)

\* The last write of a destructor failed: the stream may have repeated there
\* what it had written already.
Repeated == writerPc = "destroyed" /\ ~streamOk

\* The log goes back at one place and repeats a piece: nothing is left out.
StepsBackOnce(f, log) ==
  \E n \in 0 .. Len(f) :
    /\ IsPrefix(SubSeq(f, 1, n), log)
    /\ \E i \in 0 .. n : /\ i + Len(f) - n <= Len(log)
                         /\ SubSeq(f, n + 1, Len(f)) = SubSeq(log, i + 1, i + Len(f) - n)

\* Whatever fails, dies or is cut, the file is the beginning of the log the
\* calls of append() describe: no hole, no repetition, no half record followed
\* by another (binary_log.cpp:163-188).  A destructor that fails may repeat the
\* last piece, but leaves no hole either (binary_log.cpp:104-109).
FileIsPrefix ==
  damaged = 0 =>
    LET log == FileHeader \o Records(appended) IN
    IF Repeated THEN StepsBackOnce(file, log) ELSE IsPrefix(file, log)

\* Until its first exception a reader has returned the first events that were
\* appended, whole and in order, from a live, cut, crashed or damaged log.
ReadsAPrefix == ~Repeated => IsPrefix(Returned(BeforeError), appended)

\* All cells of a record of e are in the file behind p, each one intact.
RecordAt(e, p) ==
  /\ p + Len(Encoding[e]) <= Len(file)
  /\ SubSeq(file, p + 1, p + Len(Encoding[e])) = Encoding[e]

\* The n-th record of the log is in the file, in its place.
WholeInFile(n) ==
  RecordAt(appended[n], Len(FileHeader \o Records(SubSeq(appended, 1, n - 1))))

\* The records of the events returned are in the file, whole and intact, each in
\* a place of its own, in the order of these places.
EventsAreInFile ==
  LET r == Returned(answers)
      places == {p \in 0 .. Len(file) : \E e \in Events : RecordAt(e, p)}
  IN  \E at \in [DOMAIN r -> places] :
        /\ \A i \in DOMAIN r : RecordAt(r[i], at[i])
        /\ \A i, j \in DOMAIN r : i < j => at[i] + Len(Encoding[r[i]]) <= at[j]

\* The payloads in the log do not contain the header of a record.
NoRecordWithin ==
  \A e \in Range(appended), x \in Events : \A i \in 1 .. PayloadCells[e] - 1 :
    SubSeq(Payload[e], i, i + 1) # RecordHeader(x)

\* They were appended, none is returned twice and none out of order.
EventsWereAppended ==
  LET r == Returned(answers) IN
  \E at \in [DOMAIN r -> DOMAIN appended] :
    /\ \A i \in DOMAIN r : r[i] = appended[at[i]] /\ WholeInFile(at[i])
    /\ \A i, j \in DOMAIN r : i < j => at[i] < at[j]

\* Even a caller that goes on after exceptions gets only events whose records are
\* in the file, whole and intact (test_binary_log.cpp:68-97, for any cell of any
\* record), whatever the payloads contain; and these are events that were
\* appended, in order, unless a payload contains the header of a record: after a
\* header it refuses, next() goes on inside the payload (binary_log.cpp:253,
\* 276-296), and a record it finds there is as good as any other.
ReadsInOrder ==
  /\ EventsAreInFile
  /\ ~Repeated /\ NoRecordWithin => EventsWereAppended

\* A closed log reads back: every event, no exception, then the end
\* (test_binary_log.cpp:32-56).
ClosedLogReadsBack ==
  sealed /\ ~ioErrors =>
    /\ readerPc # "rejected"
    /\ Range(answers) \cap Errors = {}
    /\ "end" \in Range(answers) => Returned(answers) = appended

\* The writer's statistics describe the file once it is closed, whatever was
\* refused before.
StatsMatchFile ==
  logClosed /\ ~powerLost =>
    /\ eventsWritten = Len(appended)
    /\ bytesWritten = Len(file)

\* info() ends at the last event returned and begins at the first one returned
\* whose timestamp is not 0, which counts as "none yet" (binary_log.cpp:324); an
\* exception leaves it alone (test_binary_log.cpp:53-54).
InfoSpansReturned ==
  LET r == Returned(answers)
      dated == Only(answers, {e \in Events : Timestamp[e] # 0})
  IN  /\ info.last = IF r = <<>> THEN 0 ELSE Timestamp[Last(r)]
      /\ info.first = IF dated = <<>> THEN 0 ELSE Timestamp[Head(dated)]

-----------------------------------------------------------------------------
(* Action properties *)

\* The first "end" of a reader that met no exception tells the truth: at that
\* moment the file holds the records returned, all of them and nothing else.
\* And a device error, reported as a truncation, is never followed by an "end"
\* (binary_log.cpp:253-262).
EndIsHonest ==
  [][answers' = Append(answers, "end") =>
       /\ ~ioErrors'
       /\ BeforeError = answers /\ inState = "good"
            => file = FileCells \o Records(Returned(answers))]_vars

-----------------------------------------------------------------------------
(* What the documents say and the code does not do *)

\* BINARY_FORMAT.md:55: "The reader stops at end-of-file only when it is
\* positioned exactly at a record boundary."  Stated for an undamaged log.
EndOnlyAtBoundary ==
  damaged = 0 /\ ~Repeated /\ answers # <<>> /\ Last(answers) = "end" =>
    \E n \in 0 .. Len(appended) :
      SubSeq(file, 1, position) = FileCells \o Records(SubSeq(appended, 1, n))
=============================================================================
