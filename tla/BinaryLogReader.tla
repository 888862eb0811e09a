-------------------------- MODULE BinaryLogReader --------------------------
(***************************************************************************)
(* hpblr::BinaryLogReader (src/core/binary_log.cpp) and the std::ifstream  *)
(* under it.  A unit of the file is a cell: a part of the file header or   *)
(* of one record, intact or damaged.  The parts 1 and 2 are the header of  *)
(* a record (1 the magic, 2 everything else).  A payload is opaque: its    *)
(* cells may be anything, the header of a record or a whole record of      *)
(* another event included.  next() reads the header and then the payload,  *)
(* in two steps between which the file may grow.  After a header it        *)
(* refuses, it goes on behind that header, inside the payload.             *)
(*                                                                         *)
(* A CRC-32 stands for what it is used for: it tells an intact header or   *)
(* payload from any other cells in its place.                              *)
(***************************************************************************)
EXTENDS LogFile, SequencesExt

CONSTANTS Payload,       \* event -> Event::payload, as the cells it takes
          Timestamp,     \* event -> Event::timestamp_ns
          NoEvent,
          ReadFaults     \* may a read fail with an I/O error?

VARIABLES readerPc,    \* "unopened", "idle", "payload" (inside next) or "rejected"
          position,    \* cells read so far
          inState,     \* in_: "good", "eof" (eofbit and failbit) or "bad"
          header,      \* the event whose record header has been accepted
          info,        \* info_
          answers,     \* history: what the calls of next() gave, in order
          ioErrors     \* history: a read has failed with an I/O error

readerVars == <<readerPc, position, inState, header, info, answers, ioErrors>>

Cell(owner, n) == [of |-> owner, part |-> n, intact |-> TRUE]
FileCells == <<Cell("file", 1), Cell("file", 2)>>
RecordHeader(e) == <<Cell(e, 1), Cell(e, 2)>>

\* RecordHeader::payload_size, in cells.
PayloadCells == [e \in Events |-> Len(Payload[e])]

ASSUME LayoutAssumption ==
  /\ FileHeader = FileCells
  /\ \A e \in Events : Encoding[e] = RecordHeader(e) \o Payload[e]
  /\ \A e \in Events :
       Payload[e] \in Seq([of : Events \cup {"file"}, part : Nat \ {0}, intact : {TRUE}])
  /\ \A e \in Events : Timestamp[e] \in Nat
  /\ Events \cap {"file", "end", "format", "crc", NoEvent} = {}
  /\ ReadFaults \in BOOLEAN

\* The records of these events, one after another.
Records(events) == FlattenSeq([i \in DOMAIN events |-> Encoding[events[i]]])

\* Those of these items that are in the set, in their order.
Only(items, set) ==
  FlattenSeq([i \in DOMAIN items |-> IF items[i] \in set THEN <<items[i]>> ELSE <<>>])

\* The events among these answers.
Returned(as) == Only(as, Events)

ReaderInit ==
  /\ readerPc = "unopened"
  /\ position = 0
  /\ inState = "good"
  /\ header = NoEvent
  /\ info = [first |-> 0, last |-> 0]
  /\ answers = <<>>
  /\ ioErrors = FALSE

\* How many of n cells in_.read delivers; none once the stream has failed.
Got(n) ==
  IF inState # "good" THEN 0
  ELSE IF Len(file) - position >= n THEN n ELSE Len(file) - position

\* The cells it delivers, and its effect on the stream.
Cells(n) == SubSeq(file, position + 1, position + Got(n))

Read(n) ==
  /\ position' = position + Got(n)
  /\ inState' = IF inState = "good" /\ Got(n) < n THEN "eof" ELSE inState
  /\ UNCHANGED ioErrors

\* The device fails in the middle of in_.read: badbit.
ReadFault ==
  /\ ReadFaults /\ inState = "good"
  /\ inState' = "bad"
  /\ ioErrors' = TRUE
  /\ UNCHANGED position

-----------------------------------------------------------------------------
(* The constructor: read_file_header() *)

Open ==
  /\ readerPc = "unopened"
  /\ Read(2) /\ Cells(2) = FileCells
  /\ readerPc' = "idle"
  /\ UNCHANGED <<header, info, answers>>

\* It throws: the file is short, its header is not one, or the device failed.
OpenRejected ==
  /\ readerPc = "unopened"
  /\ (Read(2) /\ Cells(2) # FileCells) \/ ReadFault
  /\ readerPc' = "rejected"
  /\ UNCHANGED <<header, info, answers>>

-----------------------------------------------------------------------------
(* next() *)

\* next() is over, with this answer: an event, "end" or an exception.
Answer(a) ==
  /\ answers' = Append(answers, a)
  /\ readerPc' = "idle"
  /\ UNCHANGED <<header, info>>

\* Mutated form: any incomplete header is taken for the end.
NextEndLoose ==
  /\ readerPc = "idle"
  /\ Read(2) /\ Got(2) < 2 /\ inState' = "eof"
  /\ Answer("end")

\* gcount() is 0 and eofbit is set: std::nullopt.
NextEnd ==
  /\ readerPc = "idle"
  /\ Read(2) /\ Got(2) = 0 /\ inState' = "eof"
  /\ Answer("end")

\* Fewer cells than a header.
NextTruncatedHeader ==
  /\ readerPc = "idle"
  /\ \/ Read(2) /\ Got(2) = 1
     \/ Read(2) /\ inState = "bad"
     \/ ReadFault
  /\ Answer("format")

\* Mutated form: the payload is read with the sizes of the record before.
NextHeaderStale ==
  /\ readerPc = "idle"
  /\ Read(2) /\ Got(2) = 2
  /\ \E e \in Events : Cells(2) = RecordHeader(e)
  /\ readerPc' = "payload"
  /\ UNCHANGED <<header, info, answers>>

\* Magic, sizes and CRC are right: on to the payload.
NextHeader ==
  /\ readerPc = "idle"
  /\ Read(2) /\ Got(2) = 2
  /\ \E e \in Events : Cells(2) = RecordHeader(e) /\ header' = e
  /\ readerPc' = "payload"
  /\ UNCHANGED <<info, answers>>

\* The magic is checked by value; a payload size out of bounds is found before
\* the CRC is computed.
NextBadHeader ==
  /\ readerPc = "idle"
  /\ Read(2) /\ Got(2) = 2
  /\ \A e \in Events : Cells(2) # RecordHeader(e)
  /\ \/ Answer("format")
     \/ /\ \E e \in Events : Head(Cells(2)) = Cell(e, 1)
        /\ Answer("crc")

NextTruncatedPayload ==
  /\ readerPc = "payload" /\ PayloadCells[header] > 0
  /\ (Read(PayloadCells[header]) /\ Got(PayloadCells[header]) < PayloadCells[header])
       \/ ReadFault
  /\ Answer("format")

\* Mutated form: info_ is updated before the payload is checked.
NextBadPayloadNoted ==
  /\ readerPc = "payload"
  /\ Read(PayloadCells[header]) /\ Got(PayloadCells[header]) = PayloadCells[header]
  /\ Cells(PayloadCells[header]) # Payload[header]
  /\ answers' = Append(answers, "crc")
  /\ readerPc' = "idle"
  /\ info' = [first |-> IF info.first = 0 THEN Timestamp[header] ELSE info.first,
              last |-> Timestamp[header]]
  /\ UNCHANGED header

NextBadPayload ==
  /\ readerPc = "payload"
  /\ Read(PayloadCells[header]) /\ Got(PayloadCells[header]) = PayloadCells[header]
  /\ Cells(PayloadCells[header]) # Payload[header]
  /\ Answer("crc")

\* Mutated form: the CRC of the payload is not compared.
NextEventUnchecked ==
  /\ readerPc = "payload"
  /\ Read(PayloadCells[header]) /\ Got(PayloadCells[header]) = PayloadCells[header]
  /\ answers' = Append(answers, header)
  /\ readerPc' = "idle"
  /\ info' = [first |-> IF info.first = 0 THEN Timestamp[header] ELSE info.first,
              last |-> Timestamp[header]]
  /\ UNCHANGED header

\* The record is whole: the event is returned.
NextEvent ==
  /\ readerPc = "payload"
  /\ Read(PayloadCells[header]) /\ Cells(PayloadCells[header]) = Payload[header]
  /\ answers' = Append(answers, header)
  /\ readerPc' = "idle"
  /\ info' = [first |-> IF info.first = 0 THEN Timestamp[header] ELSE info.first,
              last |-> Timestamp[header]]
  /\ UNCHANGED header

NextRecord ==
  \/ NextEnd \/ NextTruncatedHeader \/ NextHeader \/ NextBadHeader
  \/ NextTruncatedPayload \/ NextBadPayload \/ NextEvent
=============================================================================
