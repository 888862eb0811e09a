-------------------------- MODULE BinaryLogWriter --------------------------
(***************************************************************************)
(* hpblr::BinaryLogWriter (src/core/binary_log.cpp) and the std::ofstream  *)
(* under it.  Bytes travel through three places: buffer_, a vector the     *)
(* writer owns; the put area of the stream; the file.  What the model      *)
(* moves are units, the pieces of a record or of the file header that a    *)
(* write never splits; Encoding says which units append() lays out for an  *)
(* event.                                                                  *)
(*                                                                         *)
(* The module offers the operations of one writer object; the thread that  *)
(* calls them belongs to the module that composes it.                      *)
(***************************************************************************)
EXTENDS LogFile

CONSTANTS Oversized,           \* events with more than kMaxPayloadBytes of payload
          RequestedThreshold,  \* WriterOptions::flush_threshold_bytes, in units
          FlushOnEachEvent,    \* WriterOptions::flush_on_each_event
          DiskFaults           \* may a write to the file fail?

VARIABLES buffer,     \* buffer_
          pending,    \* put area of out_: written to the stream, not to the file
          streamOk,   \* neither failbit nor badbit is set on out_
          logClosed,  \* closed_
          eventsWritten, bytesWritten  \* stats_

writerStats == <<eventsWritten, bytesWritten>>
writerVars == <<buffer, pending, file, streamOk, logClosed, writerStats>>

\* A threshold of 0 is replaced by 1 MiB, more than the model ever buffers.
Threshold == IF RequestedThreshold = 0 THEN 1048576 ELSE RequestedThreshold

-----------------------------------------------------------------------------
(* The stream.  libstdc++'s filebuf copies a small write into its put area *)
(* and sends a large one to the file together with what the put area held. *)

StreamWrite(data) ==
  /\ streamOk
  /\ \/ /\ pending' = pending \o data
        /\ UNCHANGED file
     \/ /\ file' = file \o pending \o data
        /\ pending' = <<>>
  /\ UNCHANGED streamOk

\* The file takes only a part of it.  badbit is set and stays; the put area
\* is not reset.  A stream that is bad already takes nothing.
StreamFail(data) ==
  /\ \/ /\ DiskFaults /\ streamOk
        /\ \E n \in 0 .. Len(pending \o data) :
             /\ n < Len(pending \o data)
             /\ file' = file \o SubSeq(pending \o data, 1, n)
        /\ streamOk' = FALSE
     \/ /\ ~streamOk
        /\ UNCHANGED <<file, streamOk>>
  /\ UNCHANGED pending

-----------------------------------------------------------------------------
(* The constructor: a writer exists only if opening the file and writing   *)
(* its header did not throw.                                               *)

WriterInit ==
  /\ buffer = <<>>
  /\ streamOk = TRUE
  /\ logClosed = FALSE
  /\ eventsWritten = 0
  /\ bytesWritten = Len(FileHeader)
  /\ \/ pending = FileHeader /\ file = <<>>
     \/ pending = <<>> /\ file = FileHeader

-----------------------------------------------------------------------------
(* append(event) *)

\* write_buffer_if_needed(force): the two cases in which it writes.
MustWrite(contents) ==
  (FlushOnEachEvent \/ Len(contents) >= Threshold) /\ contents # <<>>

\* The record is counted as soon as it is in buffer_.
CountRecord(e) ==
  /\ eventsWritten' = eventsWritten + 1
  /\ bytesWritten' = bytesWritten + Len(Encoding[e])

\* The record stays in buffer_.
AppendBuffered(e) ==
  LET contents == buffer \o Encoding[e] IN
  /\ ~logClosed /\ e \notin Oversized
  /\ ~MustWrite(contents)
  /\ buffer' = contents
  /\ CountRecord(e)
  /\ UNCHANGED <<pending, file, streamOk, logClosed>>

\* Mutated forms: buffer_ is not cleared; the new record goes to the stream
\* ahead of what buffer_ holds.
AppendWrittenUncleared(e) ==
  LET contents == buffer \o Encoding[e] IN
  /\ ~logClosed /\ e \notin Oversized
  /\ MustWrite(contents)
  /\ StreamWrite(contents)
  /\ buffer' = contents
  /\ CountRecord(e)
  /\ UNCHANGED logClosed

AppendWrittenAhead(e) ==
  /\ ~logClosed /\ e \notin Oversized
  /\ MustWrite(buffer \o Encoding[e])
  /\ StreamWrite(Encoding[e])
  /\ CountRecord(e)
  /\ UNCHANGED <<buffer, logClosed>>

\* buffer_ goes to the stream and is cleared.
AppendWritten(e) ==
  LET contents == buffer \o Encoding[e] IN
  /\ ~logClosed /\ e \notin Oversized
  /\ MustWrite(contents)
  /\ StreamWrite(contents)
  /\ buffer' = <<>>
  /\ CountRecord(e)
  /\ UNCHANGED logClosed

\* write_all throws IoError: buffer_ keeps everything, the new record too.
AppendIoError(e) ==
  LET contents == buffer \o Encoding[e] IN
  /\ ~logClosed /\ e \notin Oversized
  /\ MustWrite(contents)
  /\ StreamFail(contents)
  /\ buffer' = contents
  /\ CountRecord(e)
  /\ UNCHANGED logClosed

\* Mutated form: the event is counted before its size is checked.
AppendFormatErrorCounted(e) ==
  /\ ~logClosed /\ e \in Oversized
  /\ CountRecord(e)
  /\ UNCHANGED <<buffer, pending, file, streamOk, logClosed>>

\* The payload is too large: FileFormatError, before anything changed.
AppendFormatError(e) ==
  /\ ~logClosed /\ e \in Oversized
  /\ UNCHANGED writerVars

\* Closed: IoError.
AppendClosed ==
  /\ logClosed
  /\ UNCHANGED writerVars

-----------------------------------------------------------------------------
(* flush(): write_buffer_if_needed(true), then out_.flush() *)

\* Mutated forms: buffer_ is not cleared; buffer_ overtakes the put area.
FlushUncleared ==
  /\ ~logClosed /\ streamOk
  /\ file' = file \o pending \o buffer
  /\ pending' = <<>>
  /\ UNCHANGED <<buffer, streamOk, logClosed, writerStats>>

FlushAhead ==
  /\ ~logClosed /\ streamOk
  /\ file' = file \o buffer \o pending
  /\ pending' = <<>>
  /\ buffer' = <<>>
  /\ UNCHANGED <<streamOk, logClosed, writerStats>>

FlushOk ==
  /\ ~logClosed /\ streamOk
  /\ file' = file \o pending \o buffer
  /\ pending' = <<>>
  /\ buffer' = <<>>
  /\ UNCHANGED <<streamOk, logClosed, writerStats>>

FlushIoError ==
  /\ ~logClosed
  /\ \/ /\ buffer # <<>>             \* in write_all: buffer_ is not cleared
        /\ StreamFail(buffer)
        /\ UNCHANGED buffer
     \/ /\ DiskFaults /\ streamOk    \* in out_.flush(): it has been
        /\ pending' = pending \o buffer
        /\ \E n \in 0 .. Len(pending') :
             /\ n < Len(pending')
             /\ file' = file \o SubSeq(pending', 1, n)
        /\ buffer' = <<>>
        /\ streamOk' = FALSE
     \/ /\ buffer = <<>> /\ ~streamOk
        /\ UNCHANGED <<buffer, pending, file, streamOk>>
  /\ UNCHANGED <<logClosed, writerStats>>

FlushClosed ==
  /\ logClosed
  /\ UNCHANGED writerVars

-----------------------------------------------------------------------------
(* close(): flush(), out_.close(), closed_ = true *)

\* Mutated form: close() does not flush.
CloseUnflushed ==
  /\ ~logClosed /\ streamOk
  /\ file' = file \o pending
  /\ pending' = <<>>
  /\ logClosed' = TRUE
  /\ UNCHANGED <<buffer, streamOk, writerStats>>

CloseOk ==
  /\ ~logClosed /\ streamOk
  /\ file' = file \o pending \o buffer
  /\ pending' = <<>>
  /\ buffer' = <<>>
  /\ logClosed' = TRUE
  /\ UNCHANGED <<streamOk, writerStats>>

\* flush() threw, or closing the file fails after all of it was written.
CloseIoError ==
  \/ FlushIoError
  \/ /\ ~logClosed /\ streamOk /\ DiskFaults
     /\ file' = file \o pending \o buffer
     /\ pending' = <<>>
     /\ buffer' = <<>>
     /\ streamOk' = FALSE
     /\ UNCHANGED <<logClosed, writerStats>>

CloseAgain ==
  /\ logClosed
  /\ UNCHANGED writerVars

-----------------------------------------------------------------------------
(* ~BinaryLogWriter(): close(), whose exceptions are swallowed, and then   *)
(* the destructor of out_, which sends what the put area still holds       *)
(* whatever the state bits say.                                            *)

DestroyOk == CloseOk \/ CloseAgain

\* The stream is bad already, or its last write fails: nothing of buffer_
\* is retried, some of the put area may be written a second time.
DestroyIoError ==
  /\ ~logClosed
  /\ ~streamOk \/ DiskFaults
  /\ LET area == IF streamOk THEN pending \o buffer ELSE pending
     IN  \E first \in 0 .. Len(area), again \in 0 .. Len(area) :
           /\ streamOk => first < Len(area)
           /\ ~streamOk => first = 0
           /\ file' = file \o SubSeq(area, 1, first) \o SubSeq(area, 1, again)
  /\ pending' = <<>>
  /\ streamOk' = FALSE
  /\ UNCHANGED <<buffer, logClosed, writerStats>>

=============================================================================
