------------------------ MODULE BinaryLogReaderFacts ------------------------
(***************************************************************************)
(* What is true of the layout of a log, of what a reader takes from it and *)
(* of one call of next(), for all events, whoever else works on the file:  *)
(* the common ground of BinaryLogProofs and LogToolProofs.                 *)
(***************************************************************************)
EXTENDS BinaryLogReader, SequenceFacts

\* What the file consists of.
Units == [of : Events \cup {"file"}, part : Nat \ {0}, intact : BOOLEAN]

-----------------------------------------------------------------------------
(* The layout *)

LEMMA Parameters ==
  /\ FileHeader = FileCells
  /\ \A e \in Events : /\ Encoding[e] = RecordHeader(e) \o Payload[e]
                       /\ Payload[e] \in Seq(Units) /\ PayloadCells[e] = Len(Payload[e])
                       /\ PayloadCells[e] \in Nat /\ Timestamp[e] \in Nat
  /\ {"file", "end", "format", "crc", NoEvent} \cap Events = {}
  /\ ReadFaults \in BOOLEAN
<1>1. ASSUME NEW e \in Events
      PROVE  /\ Payload[e] \in Seq(Units) /\ PayloadCells[e] = Len(Payload[e])
             /\ PayloadCells[e] \in Nat
  <2>1. PICK p \in Seq([of : Events \cup {"file"}, part : Nat \ {0}, intact : {TRUE}]) :
           p = Payload[e]
    BY LayoutAssumption
  <2>2. Len(p) \in Nat /\ p \in [1 .. Len(p) -> Units]
    <3>1. \A i \in 1 .. Len(p) : p[i] \in Units
      <4>1. [of : Events \cup {"file"}, part : Nat \ {0}, intact : {TRUE}] \subseteq Units
        BY DEF Units
      <4> QED
        BY <4>1, ElementOfSeq
    <3> QED
      BY <3>1, LenProperties
  <2>3. p \in Seq(Units)
    BY <2>2, FunctionIsSeq
  <2> QED
    BY <2>1, <2>2, <2>3 DEF PayloadCells
<1> QED
  BY <1>1, LayoutAssumption, Zenon

LEMMA CellTyped ==
  \A e \in Events \cup {"file"}, n \in Nat \ {0} : Cell(e, n) \in Units
BY DEF Cell, Units

LEMMA HeaderTyped ==
  /\ FileHeader \in Seq(Units) /\ Len(FileHeader) = 2
  /\ \A i \in 1 .. 2 : FileHeader[i] = Cell("file", i)
<1>1. Cell("file", 1) \in Units /\ Cell("file", 2) \in Units
  BY CellTyped
<1> QED
  BY <1>1, Parameters DEF FileCells

\* The cells of a record, one after another.
LEMMA EncodingTyped ==
  ASSUME NEW e \in Events
  PROVE  /\ Encoding[e] \in Seq(Units) /\ Len(Encoding[e]) = 2 + PayloadCells[e]
         /\ PayloadCells[e] \in Nat
         /\ Encoding[e][1] = Cell(e, 1) /\ Encoding[e][2] = Cell(e, 2)
         /\ \A i \in 1 .. PayloadCells[e] : Encoding[e][2 + i] = Payload[e][i]
<1>1. /\ PayloadCells[e] \in Nat /\ Encoding[e] = RecordHeader(e) \o Payload[e]
      /\ Payload[e] \in Seq(Units) /\ Len(Payload[e]) = PayloadCells[e]
  BY Parameters
<1>2. /\ RecordHeader(e) \in Seq(Units) /\ Len(RecordHeader(e)) = 2
      /\ RecordHeader(e)[1] = Cell(e, 1) /\ RecordHeader(e)[2] = Cell(e, 2)
  <2>1. Cell(e, 1) \in Units /\ Cell(e, 2) \in Units
    BY CellTyped
  <2> QED
    BY <2>1 DEF RecordHeader
<1>3. PICK h \in Seq(Units), p \in Seq(Units), n \in Nat :
         h = RecordHeader(e) /\ p = Payload[e] /\ n = PayloadCells[e]
  BY <1>1, <1>2
<1>4. /\ h \o p \in Seq(Units) /\ Len(h \o p) = 2 + n
      /\ \A i \in 1 .. 2 + n : (h \o p)[i] = IF i <= 2 THEN h[i] ELSE p[i - 2]
  <2>1. /\ h \o p \in Seq(Units) /\ Len(h \o p) = Len(h) + Len(p)
        /\ \A i \in 1 .. Len(h) + Len(p) :
             (h \o p)[i] = IF i <= Len(h) THEN h[i] ELSE p[i - Len(h)]
    BY ConcatProperties
  <2> QED
    BY <1>1, <1>2, <1>3, <2>1
<1>5. (h \o p)[1] = h[1] /\ (h \o p)[2] = h[2]
  BY <1>4
<1>6. ASSUME NEW i \in 1 .. n PROVE (h \o p)[2 + i] = p[i]
  <2>1. 2 + i \in 1 .. 2 + n /\ ~(2 + i <= 2) /\ (2 + i) - 2 = i
    OBVIOUS
  <2> QED
    BY <1>4, <2>1
<1> QED
  BY <1>1, <1>2, <1>3, <1>4, <1>5, <1>6

\* Records lays out one event after another.
Laid(events) == [i \in DOMAIN events |-> Encoding[events[i]]]

LEMMA LaidTyped ==
  ASSUME NEW s \in Seq(Events)
  PROVE  Laid(s) \in Seq(Seq(Units)) /\ Records(s) = FlattenSeq(Laid(s))
<1>1. Len(s) \in Nat /\ DOMAIN s = 1 .. Len(s) /\ \A i \in 1 .. Len(s) : s[i] \in Events
  BY LenProperties, ElementOfSeq
<1>2. \A i \in 1 .. Len(s) : Encoding[s[i]] \in Seq(Units)
  BY <1>1, EncodingTyped
<1>3. Laid(s) = [i \in 1 .. Len(s) |-> Encoding[s[i]]]
  BY <1>1 DEF Laid
<1> QED
  BY <1>1, <1>2, <1>3 DEF Records, Laid

LEMMA LaidConcat ==
  ASSUME NEW a \in Seq(Events), NEW b \in Seq(Events)
  PROVE  Laid(a \o b) = Laid(a) \o Laid(b)
<1>1. /\ Laid(a) \in Seq(Seq(Units)) /\ Laid(b) \in Seq(Seq(Units))
      /\ a \o b \in Seq(Events) /\ Laid(a \o b) \in Seq(Seq(Units))
      /\ Laid(a) \o Laid(b) \in Seq(Seq(Units))
  BY LaidTyped, Joined
<1>2. /\ Len(a) \in Nat /\ Len(b) \in Nat
      /\ DOMAIN a = 1 .. Len(a) /\ DOMAIN b = 1 .. Len(b)
      /\ Len(a \o b) = Len(a) + Len(b) /\ DOMAIN (a \o b) = 1 .. Len(a) + Len(b)
      /\ \A i \in 1 .. Len(a) + Len(b) :
           (a \o b)[i] = IF i <= Len(a) THEN a[i] ELSE b[i - Len(a)]
  BY <1>1, LenProperties, ConcatProperties
<1>3. Len(Laid(a)) = Len(a) /\ Len(Laid(b)) = Len(b) /\ Len(Laid(a \o b)) = Len(a) + Len(b)
  BY <1>2 DEF Laid
<1>4. ASSUME NEW i \in 1 .. Len(a) + Len(b)
      PROVE  Laid(a \o b)[i] = (Laid(a) \o Laid(b))[i]
  <2>1. Laid(a \o b)[i] = Encoding[(a \o b)[i]]
    BY <1>2 DEF Laid
  <2>2. (Laid(a) \o Laid(b))[i] = IF i <= Len(a) THEN Laid(a)[i] ELSE Laid(b)[i - Len(a)]
    <3>1. PICK n \in Nat, m \in Nat : n = Len(Laid(a)) /\ m = Len(Laid(b))
      BY <1>2, <1>3
    <3>2. \A k \in 1 .. n + m :
            (Laid(a) \o Laid(b))[k] = IF k <= n THEN Laid(a)[k] ELSE Laid(b)[k - n]
      BY <1>1, <3>1, Places
    <3> QED
      BY <1>3, <3>1, <3>2
  <2>3. i <= Len(a) => Laid(a)[i] = Encoding[a[i]]
    BY <1>2 DEF Laid
  <2>4. ~(i <= Len(a)) => Laid(b)[i - Len(a)] = Encoding[b[i - Len(a)]]
    BY <1>2 DEF Laid
  <2>5. (a \o b)[i] = IF i <= Len(a) THEN a[i] ELSE b[i - Len(a)]
    BY <1>2
  <2>6. CASE i <= Len(a)
    BY <2>1, <2>2, <2>3, <2>5, <2>6
  <2>7. CASE ~(i <= Len(a))
    BY <2>1, <2>2, <2>4, <2>5, <2>7
  <2> QED
    BY <2>6, <2>7
<1>5. Len(Laid(a) \o Laid(b)) = Len(a) + Len(b)
  BY <1>1, <1>3, ConcatProperties
<1> QED
  BY <1>1, <1>3, <1>4, <1>5, SeqEqual

LEMMA RecordsTyped ==
  ASSUME NEW s \in Seq(Events)
  PROVE  Records(s) \in Seq(Units)
BY LaidTyped, FlattenTyped

LEMMA RecordsConcat ==
  ASSUME NEW a \in Seq(Events), NEW b \in Seq(Events)
  PROVE  Records(a \o b) = Records(a) \o Records(b)
<1>1. Laid(a) \in Seq(Seq(Units)) /\ Laid(b) \in Seq(Seq(Units)) /\ a \o b \in Seq(Events)
  BY LaidTyped, Joined
<1>2. FlattenSeq(Laid(a) \o Laid(b)) = FlattenSeq(Laid(a)) \o FlattenSeq(Laid(b))
  BY <1>1, FlattenConcat
<1> QED
  BY <1>1, <1>2, LaidConcat, LaidTyped

LEMMA RecordsEmpty == Records(<<>>) = <<>>
<1>1. <<>> \in Seq(Events) /\ Len(<<>>) = 0
  BY EmptySeq
<1>2. Laid(<<>>) = <<>>
  BY DEF Laid
<1> QED
  BY <1>1, <1>2, LaidTyped, FlattenEmpty

LEMMA RecordsOne ==
  ASSUME NEW e \in Events
  PROVE  Records(<<e>>) = Encoding[e]
<1>1. <<e>> \in Seq(Events) /\ Encoding[e] \in Seq(Units)
  BY EncodingTyped
<1>2. Laid(<<e>>) = Append(<<>>, Encoding[e])
  BY DEF Laid
<1>3. <<>> \in Seq(Seq(Units))
  BY EmptySeq
<1>4. FlattenSeq(Laid(<<e>>)) = FlattenSeq(<<>>) \o Encoding[e]
  BY <1>1, <1>2, <1>3, FlattenAppend
<1> QED
  BY <1>1, <1>4, LaidTyped, FlattenEmpty, ConcatEmptySeq

LEMMA RecordsAppend ==
  ASSUME NEW s \in Seq(Events), NEW e \in Events
  PROVE  Records(Append(s, e)) = Records(s) \o Encoding[e]
<1>1. Append(s, e) = s \o <<e>> /\ <<e>> \in Seq(Events)
  BY AppendIsConcat
<1> QED
  BY <1>1, RecordsConcat, RecordsOne

-----------------------------------------------------------------------------
(* Types *)

Answers == Events \cup {"end", "format", "crc"}

\* The file, the reader's place in it and what it answered.
ReaderTyped ==
  /\ file \in Seq(Units)
  /\ readerPc \in {"unopened", "idle", "payload", "rejected"}
  /\ position \in 0 .. Len(file) /\ (readerPc = "unopened" => position = 0)
  /\ inState \in {"good", "eof", "bad"}
  /\ header \in Events \cup {NoEvent} /\ (readerPc = "payload" => header \in Events)
  /\ info \in [first : Nat, last : Nat]
  /\ answers \in Seq(Answers)
  /\ ioErrors \in BOOLEAN

FileGrows == \E more \in Seq(Units) : file' = file \o more

LEMMA GrowsBy ==
  ASSUME ReaderTyped, FileGrows
  PROVE  /\ file' \in Seq(Units) /\ Len(file) \in Nat /\ Len(file') \in Nat
         /\ Len(file) <= Len(file') /\ \A i \in 1 .. Len(file) : file'[i] = file[i]
<1>1. PICK more \in Seq(Units) : file' = file \o more
  BY DEF FileGrows
<1>2. /\ file \o more \in Seq(Units) /\ Len(file \o more) = Len(file) + Len(more)
      /\ Len(file) \in Nat /\ Len(more) \in Nat
      /\ \A i \in 1 .. Len(file) + Len(more) :
           (file \o more)[i] = IF i <= Len(file) THEN file[i] ELSE more[i - Len(file)]
  BY ConcatProperties, LenProperties DEF ReaderTyped
<1> QED
  BY <1>1, <1>2

LEMMA Stays ==
  ASSUME ReaderTyped, UNCHANGED file
  PROVE  FileGrows
<1>1. <<>> \in Seq(Units) /\ file \o <<>> = file
  BY EmptySeq, ConcatEmptySeq DEF ReaderTyped
<1> QED
  BY <1>1 DEF FileGrows

LEMMA GotBounds ==
  ASSUME ReaderTyped, NEW n \in Nat
  PROVE  /\ Got(n) \in 0 .. n /\ position + Got(n) \in 0 .. Len(file)
         /\ position \in Nat /\ Len(file) \in Nat /\ Got(n) \in Nat
BY LenProperties DEF Got, ReaderTyped

LEMMA ReadTyped ==
  ASSUME ReaderTyped, NEW n \in Nat, Read(n) \/ ReadFault
  PROVE  /\ position' \in 0 .. Len(file) /\ inState' \in {"good", "eof", "bad"}
         /\ ioErrors' \in BOOLEAN /\ position <= position'
<1>1. /\ Got(n) \in 0 .. n /\ position + Got(n) \in 0 .. Len(file)
      /\ position \in Nat /\ Len(file) \in Nat
  BY GotBounds
<1>2. CASE Read(n)
  <2>1. position' = position + Got(n) /\ position \in Nat /\ Got(n) \in Nat
    BY <1>1, <1>2 DEF Read
  <2>2. position' \in 0 .. Len(file) /\ position <= position'
    BY <1>1, <2>1
  <2>3. inState' \in {"good", "eof", "bad"} /\ ioErrors' \in BOOLEAN
    BY <1>2 DEF Read, ReaderTyped
  <2> QED
    BY <2>2, <2>3
<1>3. CASE ReadFault
  BY <1>1, <1>3 DEF ReadFault, ReaderTyped
<1> QED
  BY <1>2, <1>3

LEMMA AnswerTyped ==
  ASSUME ReaderTyped, NEW a \in Answers, answers' = Append(answers, a)
  PROVE  answers' \in Seq(Answers)
BY DEF ReaderTyped

LEMMA OpenTyped ==
  ASSUME ReaderTyped, Open \/ OpenRejected, UNCHANGED file
  PROVE  ReaderTyped'
<1>1. Read(2) \/ ReadFault
  BY DEF Open, OpenRejected
<1>2. /\ position' \in 0 .. Len(file) /\ inState' \in {"good", "eof", "bad"}
      /\ ioErrors' \in BOOLEAN
  BY <1>1, ReadTyped
<1> QED
  BY <1>2 DEF Open, OpenRejected, ReaderTyped

LEMMA NextRecordTyped ==
  ASSUME ReaderTyped, NextRecord, UNCHANGED file
  PROVE  ReaderTyped'
<1>1. header \in Events => PayloadCells[header] \in Nat /\ Timestamp[header] \in Nat
  BY Parameters
<1>2. {"end", "format", "crc"} \subseteq Answers /\ Events \subseteq Answers
  BY DEF Answers
<1>3. CASE readerPc = "idle"
  <2>1. Read(2) \/ ReadFault
    BY <1>3 DEF NextRecord, NextEnd, NextTruncatedHeader, NextHeader, NextBadHeader,
                NextTruncatedPayload, NextBadPayload, NextEvent
  <2>2. /\ position' \in 0 .. Len(file) /\ inState' \in {"good", "eof", "bad"}
        /\ ioErrors' \in BOOLEAN
    BY <2>1, ReadTyped
  <2>3. CASE NextHeader
    BY <2>2, <2>3 DEF NextHeader, ReaderTyped
  <2>4. CASE Answer("end") \/ Answer("format") \/ Answer("crc")
    <3>1. answers' \in Seq(Answers)
      BY <1>2, <2>4, AnswerTyped DEF Answer
    <3> QED
      BY <2>2, <2>4, <3>1 DEF Answer, ReaderTyped
  <2> QED
    BY <1>3, <2>3, <2>4
    DEF NextRecord, NextEnd, NextTruncatedHeader, NextBadHeader,
        NextTruncatedPayload, NextBadPayload, NextEvent
<1>4. CASE readerPc = "payload"
  <2>1. header \in Events /\ PayloadCells[header] \in Nat /\ Timestamp[header] \in Nat
    BY <1>1, <1>4 DEF ReaderTyped
  <2>2. Read(PayloadCells[header]) \/ ReadFault
    BY <1>4 DEF NextRecord, NextEnd, NextTruncatedHeader, NextHeader, NextBadHeader,
                NextTruncatedPayload, NextBadPayload, NextEvent
  <2>3. /\ position' \in 0 .. Len(file) /\ inState' \in {"good", "eof", "bad"}
        /\ ioErrors' \in BOOLEAN
    BY <2>1, <2>2, ReadTyped
  <2>4. CASE NextEvent
    <3>1. answers' \in Seq(Answers)
      BY <1>2, <2>1, <2>4, AnswerTyped DEF NextEvent
    <3>2. info' \in [first : Nat, last : Nat]
      BY <2>1, <2>4 DEF NextEvent, ReaderTyped
    <3> QED
      BY <2>3, <2>4, <3>1, <3>2 DEF NextEvent, ReaderTyped
  <2>5. CASE Answer("format") \/ Answer("crc")
    <3>1. answers' \in Seq(Answers)
      BY <1>2, <2>5, AnswerTyped DEF Answer
    <3> QED
      BY <2>3, <2>5, <3>1 DEF Answer, ReaderTyped
  <2> QED
    BY <1>4, <2>4, <2>5
    DEF NextRecord, NextEnd, NextTruncatedHeader, NextHeader, NextBadHeader,
        NextTruncatedPayload, NextBadPayload
<1> QED
  BY <1>3, <1>4
  DEF NextRecord, NextEnd, NextTruncatedHeader, NextHeader, NextBadHeader,
      NextTruncatedPayload, NextBadPayload, NextEvent

-----------------------------------------------------------------------------
(* The beginning of a log, cell by cell *)

Agrees(f, log) == Len(f) <= Len(log) /\ \A j \in 1 .. Len(f) : f[j] = log[j]

LEMMA AgreesIsPrefix ==
  ASSUME NEW f \in Seq(Units), NEW log \in Seq(Units), Agrees(f, log)
  PROVE  IsPrefix(f, log)
<1>1. PICK n \in Nat : n = Len(f)
  BY LenProperties
<1>2. Len(log) \in Nat /\ n <= Len(log) /\ \A j \in 1 .. n : f[j] = log[j]
  BY <1>1, LenProperties DEF Agrees
<1>3. /\ SubSeq(log, 1, n) \in Seq(Units) /\ Len(SubSeq(log, 1, n)) = n
      /\ \A k \in 1 .. n : SubSeq(log, 1, n)[k] = log[k]
  <2>1. /\ SubSeq(log, 1, n) \in Seq(Units) /\ Len(SubSeq(log, 1, n)) = n - 1 + 1
        /\ \A k \in 1 .. n - 1 + 1 : SubSeq(log, 1, n)[k] = log[1 + k - 1]
    BY <1>2, PieceIs
  <2> QED
    BY <2>1
<1>4. f = SubSeq(log, 1, n)
  BY <1>1, <1>2, <1>3, SeqEqual
<1>5. SubSeq(f, 1, Len(f)) = f
  BY SubSeqFull
<1> QED
  BY <1>1, <1>2, <1>4, <1>5 DEF IsPrefix

\* A log is its beginning and the rest of it.
LEMMA StartAgrees ==
  ASSUME NEW f \in Seq(Units), NEW rest \in Seq(Units), NEW log, log = Joint(f, rest)
  PROVE  Agrees(f, log) /\ log \in Seq(Units) /\ Len(log) = Len(f) + Len(rest)
<1>1. /\ f \o rest \in Seq(Units) /\ Len(f \o rest) = Len(f) + Len(rest)
      /\ \A i \in 1 .. Len(f) + Len(rest) :
           (f \o rest)[i] = IF i <= Len(f) THEN f[i] ELSE rest[i - Len(f)]
  BY ConcatProperties
<1>2. Len(f) \in Nat /\ Len(rest) \in Nat
  BY LenProperties
<1> QED
  BY <1>1, <1>2 DEF Joint, Agrees

\* A log that goes on still has the same beginning.
LEMMA LongerAgrees ==
  ASSUME NEW f \in Seq(Units), NEW log \in Seq(Units), NEW d \in Seq(Units), Agrees(f, log)
  PROVE  Agrees(f, Joint(log, d))
<1>1. Agrees(log, Joint(log, d))
  BY StartAgrees
<1>2. Len(f) \in Nat /\ Len(log) \in Nat /\ Joint(log, d) \in Seq(Units)
  BY LenProperties, JointTyped
<1>3. Len(Joint(log, d)) \in Nat
  BY <1>2, LenProperties
<1> QED
  BY <1>1, <1>2, <1>3 DEF Agrees

-----------------------------------------------------------------------------
(* Where the records are *)

\* The first k events of these.
First(s, k) == SubSeq(s, 1, k)

LEMMA FirstTyped ==
  ASSUME NEW S, NEW s \in Seq(S), NEW k \in 0 .. Len(s)
  PROVE  First(s, k) \in Seq(S) /\ Len(First(s, k)) = k
<1>1. Len(s) \in Nat /\ k \in Nat /\ k <= Len(s)
  BY LenProperties
<1>2. \A i \in 1 .. k : s[i] \in S
  BY <1>1, ElementOfSeq
<1>3. /\ SubSeq(s, 1, k) \in Seq(S)
      /\ Len(SubSeq(s, 1, k)) = IF 1 <= k THEN k - 1 + 1 ELSE 0
  BY <1>1, <1>2, SubSeqProperties
<1> QED
  BY <1>1, <1>3 DEF First

LEMMA FirstNext ==
  ASSUME NEW S, NEW s \in Seq(S), NEW k \in 0 .. Len(s), k < Len(s)
  PROVE  First(s, k + 1) = First(s, k) \o <<s[k + 1]>> /\ s[k + 1] \in S
<1>1. Len(s) \in Nat /\ k \in Nat /\ k + 1 \in 1 .. Len(s) /\ 1 \in 1 .. Len(s)
  BY LenProperties
<1>2. SubSeq(s, 1, k + 1) = SubSeq(s, 1, k + 1 - 1) \o <<s[k + 1]>>
  BY <1>1, SubSeqRecursiveSecond
<1>3. k + 1 - 1 = k
  BY <1>1
<1> QED
  BY <1>1, <1>2, <1>3, ElementOfSeq DEF First

\* What is appended does not change what comes first.
LEMMA FirstStays ==
  ASSUME NEW S, NEW s \in Seq(S), NEW e \in S, NEW k \in 0 .. Len(s)
  PROVE  First(Append(s, e), k) = First(s, k)
<1>1. Len(s) \in Nat /\ k \in Nat /\ k <= Len(s)
  BY LenProperties
<1>2. PICK t \in Seq(S) : /\ t = Append(s, e) /\ Len(t) = Len(s) + 1
                          /\ \A i \in 1 .. Len(s) : t[i] = s[i]
  <2>1. /\ Append(s, e) \in Seq(S) /\ Len(Append(s, e)) = Len(s) + 1
        /\ \A i \in 1 .. Len(s) : Append(s, e)[i] = s[i]
    BY AppendProperties
  <2> QED
    BY <2>1
<1>3. /\ First(t, k) \in Seq(S) /\ Len(First(t, k)) = k
      /\ First(s, k) \in Seq(S) /\ Len(First(s, k)) = k
  <2>1. k \in 0 .. Len(t)
    BY <1>1, <1>2
  <2>2. First(t, k) \in Seq(S) /\ Len(First(t, k)) = k
    BY <2>1, FirstTyped
  <2>3. First(s, k) \in Seq(S) /\ Len(First(s, k)) = k
    BY FirstTyped
  <2> QED
    BY <2>2, <2>3
<1>4. \A i \in 1 .. k : First(t, k)[i] = t[i] /\ First(s, k)[i] = s[i]
  BY <1>1, <1>2 DEF First
<1>5. \A i \in 1 .. Len(First(t, k)) : First(t, k)[i] = First(s, k)[i]
  BY <1>1, <1>2, <1>3, <1>4
<1> QED
  BY <1>2, <1>3, <1>5, SeqEqual

\* The log of these events, and where in it the first k of them end.
LogOf(s) == FileHeader \o Records(s)

Place(s, k) == 2 + Len(Records(First(s, k)))

LEMMA PlaceEnds ==
  ASSUME NEW s \in Seq(Events)
  PROVE  /\ Place(s, 0) = 2 /\ Place(s, Len(s)) = Len(LogOf(s))
         /\ LogOf(s) \in Seq(Units) /\ Len(LogOf(s)) \in Nat
         /\ \A k \in 0 .. Len(s) : Place(s, k) \in Nat
<1>1. Len(s) \in Nat
  BY LenProperties
<1>2. First(s, 0) = <<>> /\ First(s, Len(s)) = s
  BY <1>1, SubSeqEmpty, SubSeqFull DEF First
<1>3. FileHeader \in Seq(Units) /\ Len(FileHeader) = 2 /\ Records(s) \in Seq(Units)
  BY HeaderTyped, RecordsTyped
<1>4. LogOf(s) \in Seq(Units) /\ Len(LogOf(s)) = 2 + Len(Records(s)) /\ Len(LogOf(s)) \in Nat
  <2>1. /\ FileHeader \o Records(s) \in Seq(Units)
        /\ Len(FileHeader \o Records(s)) = Len(FileHeader) + Len(Records(s))
    BY <1>3, ConcatProperties
  <2> QED
    BY <1>3, <2>1, LenProperties DEF LogOf
<1>5. ASSUME NEW k \in 0 .. Len(s) PROVE Place(s, k) \in Nat
  <2>1. Records(First(s, k)) \in Seq(Units)
    BY FirstTyped, RecordsTyped
  <2> QED
    BY <2>1, LenProperties DEF Place
<1>6. Len(Records(<<>>)) = 0
  BY RecordsEmpty, EmptySeq
<1> QED
  BY <1>2, <1>4, <1>5, <1>6 DEF Place

\* The next record, cell by cell.
LEMMA PlaceNext ==
  ASSUME NEW s \in Seq(Events), NEW k \in 0 .. Len(s), k < Len(s)
  PROVE  /\ s[k + 1] \in Events /\ k + 1 \in 0 .. Len(s)
         /\ PayloadCells[s[k + 1]] \in Nat
         /\ Place(s, k + 1) = Place(s, k) + (2 + PayloadCells[s[k + 1]])
         /\ Place(s, k + 1) <= Len(LogOf(s))
         /\ \A j \in 1 .. 2 + PayloadCells[s[k + 1]] :
              LogOf(s)[Place(s, k) + j] = Encoding[s[k + 1]][j]
<1>1. Len(s) \in Nat /\ k \in Nat /\ k + 1 \in 0 .. Len(s)
  BY LenProperties
<1>2. PICK e \in Events : e = s[k + 1]
  BY FirstNext
<1>3. PICK a \in Seq(Events) : a = First(s, k)
  BY FirstTyped
<1>4. First(s, k + 1) = a \o <<e>> /\ <<e>> \in Seq(Events)
  BY <1>2, <1>3, FirstNext
<1>5. PICK b \in Seq(Events) : a \o <<e>> \o b = s
  <2>1. /\ SubSeq(s, 1, k + 1) \in Seq(Events)
        /\ SubSeq(s, k + 1 + 1, Len(s)) \in Seq(Events)
        /\ SubSeq(s, 1, k + 1) \o SubSeq(s, k + 1 + 1, Len(s)) = s
    BY <1>1, CutInTwo
  <2>2. SubSeq(s, 1, k + 1) = a \o <<e>>
    BY <1>4 DEF First
  <2> QED
    BY <2>1, <2>2
<1>6. PICK ra \in Seq(Units), re \in Seq(Units), rb \in Seq(Units), h \in Seq(Units) :
         ra = Records(a) /\ re = Encoding[e] /\ rb = Records(b) /\ h = FileHeader
  BY RecordsTyped, EncodingTyped, HeaderTyped
<1>7. Records(a \o <<e>>) = Joint(ra, re)
  BY <1>4, <1>6, RecordsConcat, RecordsOne DEF Joint
<1>8. Records(s) = Joint(Joint(ra, re), rb)
  <2>1. a \o <<e>> \in Seq(Events)
    BY <1>4, Joined
  <2>2. Records(a \o <<e>> \o b) = Records(a \o <<e>>) \o Records(b)
    BY <2>1, RecordsConcat
  <2> QED
    BY <1>5, <1>6, <1>7, <2>2 DEF Joint
<1>9. PICK c \in Seq(Units), ce \in Seq(Units), l \in Seq(Units) :
         c = Joint(h, ra) /\ ce = Joint(c, re) /\ l = Joint(ce, rb)
  <2>1. PICK c \in Seq(Units) : c = Joint(h, ra)
    BY JointTyped
  <2>2. PICK ce \in Seq(Units) : ce = Joint(c, re)
    BY JointTyped
  <2>3. PICK l \in Seq(Units) : l = Joint(ce, rb)
    BY JointTyped
  <2> QED
    BY <2>1, <2>2, <2>3
<1>10. l = LogOf(s)
  <2>1. PICK x \in Seq(Units) : x = Joint(ra, re)
    BY JointTyped
  <2>2. LogOf(s) = Joint(h, Joint(x, rb))
    BY <1>6, <1>8, <2>1 DEF LogOf, Joint
  <2>3. Joint(h, Joint(x, rb)) = Joint(Joint(h, x), rb)
    BY JointAssociative
  <2>4. Joint(h, x) = ce
    BY <1>9, <2>1, JointAssociative
  <2> QED
    BY <1>9, <2>2, <2>3, <2>4
<1>11. PICK n \in Nat, m \in Nat : n = Len(ra) /\ m = PayloadCells[e]
  BY <1>6, EncodingTyped, LenProperties
<1>12. Len(h) = 2 /\ Len(re) = 2 + m
  BY <1>6, <1>11, HeaderTyped, EncodingTyped
<1>13. PICK p \in Nat, q \in Nat : p = 2 + n /\ q = 2 + m
  OBVIOUS
<1>14. Len(c) = p /\ Place(s, k) = p /\ Len(re) = q
  <2>1. Len(Joint(h, ra)) = Len(h) + Len(ra)
    BY StartAgrees
  <2>2. Len(c) = p
    BY <1>9, <1>11, <1>12, <1>13, <2>1
  <2>3. Place(s, k) = p
    BY <1>3, <1>6, <1>11, <1>13 DEF Place
  <2> QED
    BY <1>12, <1>13, <2>2, <2>3
<1>15. /\ Len(ce) = p + q
       /\ \A j \in 1 .. p + q : ce[j] = IF j <= p THEN c[j] ELSE re[j - p]
  <2>1. /\ Len(c \o re) = Len(c) + Len(re)
        /\ \A j \in 1 .. Len(c) + Len(re) :
             (c \o re)[j] = IF j <= Len(c) THEN c[j] ELSE re[j - Len(c)]
    BY ConcatProperties
  <2> QED
    BY <1>9, <1>14, <2>1 DEF Joint
<1>16. Len(ce) <= Len(l) /\ \A j \in 1 .. Len(ce) : ce[j] = l[j]
  <2>1. Agrees(ce, Joint(ce, rb))
    BY StartAgrees
  <2>2. Agrees(ce, l)
    BY <1>9, <2>1
  <2> QED
    BY <2>2 DEF Agrees
<1>17. Place(s, k + 1) = p + q
  <2>1. Len(Joint(ra, re)) = Len(ra) + Len(re)
    BY StartAgrees
  <2>2. Len(Joint(ra, re)) = n + q
    BY <1>11, <1>14, <2>1
  <2>3. Place(s, k + 1) = 2 + (n + q)
    BY <1>4, <1>7, <2>2 DEF Place
  <2> QED
    BY <1>13, <2>3
<1>18. ASSUME NEW j \in 1 .. q PROVE l[p + j] = re[j]
  <2>1. p + j \in 1 .. p + q /\ j \in 1 .. Len(re)
    BY <1>14
  <2>2. (c \o re)[Len(c) + j] = re[j]
    BY <2>1, Behind
  <2>3. ce[p + j] = re[j]
    BY <1>9, <1>14, <2>2 DEF Joint
  <2>4. ce[p + j] = l[p + j]
    BY <1>15, <1>16, <2>1
  <2> QED
    BY <2>3, <2>4
<1>19. q = 2 + PayloadCells[s[k + 1]]
  BY <1>2, <1>11, <1>13
<1>20. /\ \A j \in 1 .. 2 + PayloadCells[s[k + 1]] :
            LogOf(s)[Place(s, k) + j] = Encoding[s[k + 1]][j]
  BY <1>2, <1>6, <1>10, <1>14, <1>18, <1>19
<1>21. Place(s, k + 1) <= Len(LogOf(s))
  BY <1>10, <1>15, <1>16, <1>17
<1>22. Place(s, k + 1) = Place(s, k) + (2 + PayloadCells[s[k + 1]])
  <2>1. Place(s, k + 1) = Place(s, k) + q
    BY <1>14, <1>17
  <2>2. Place(s, k) \in Nat /\ PayloadCells[s[k + 1]] \in Nat
    BY <1>2, <1>11, <1>14
  <2> QED
    BY <1>19, <2>1, <2>2
<1>23. s[k + 1] \in Events /\ PayloadCells[s[k + 1]] \in Nat
  BY <1>2, <1>11
<1> QED
  BY <1>1, <1>20, <1>21, <1>22, <1>23

LEMMA PlaceOrdered ==
  ASSUME NEW s \in Seq(Events)
  PROVE  \A k, m \in 0 .. Len(s) : k < m => Place(s, k) < Place(s, m)
<1> DEFINE P(m) == \A k \in 0 .. Len(s) : k < m => Place(s, k) < Place(s, m)
           T == {m \in Nat : m <= Len(s) => P(m)}
<1>1. Len(s) \in Nat /\ \A k \in 0 .. Len(s) : Place(s, k) \in Nat
  BY LenProperties, PlaceEnds
<1>2. 0 \in T
  BY <1>1
<1>3. ASSUME NEW m \in T PROVE m + 1 \in T
  <2>1. m \in Nat /\ (m <= Len(s) => P(m))
    OBVIOUS
  <2>2. ASSUME m + 1 <= Len(s), NEW k \in 0 .. Len(s), k < m + 1
        PROVE  Place(s, k) < Place(s, m + 1)
    <3>1. m \in 0 .. Len(s) /\ m < Len(s) /\ k <= m /\ m + 1 \in 0 .. Len(s)
      BY <1>1, <2>1, <2>2
    <3>2. PICK c \in Nat : Place(s, m + 1) = Place(s, m) + (2 + c)
      BY <3>1, PlaceNext
    <3>3. Place(s, m) \in Nat /\ Place(s, k) \in Nat /\ Place(s, m + 1) \in Nat
      BY <1>1, <3>1
    <3>4. Place(s, m) < Place(s, m + 1)
      BY <3>2, <3>3
    <3>5. k = m \/ Place(s, k) < Place(s, m)
      BY <1>1, <2>1, <3>1
    <3> QED
      BY <3>3, <3>4, <3>5
  <2>3. m + 1 <= Len(s) => P(m + 1)
    BY <2>2
  <2> QED
    BY <2>1, <2>3
<1>4. T = Nat
  <2> HIDE DEF T
  <2>1. T \in SUBSET Nat
    BY DEF T
  <2> QED
    BY <1>2, <1>3, <2>1, Induction
<1>5. ASSUME NEW k \in 0 .. Len(s), NEW m \in 0 .. Len(s), k < m
      PROVE  Place(s, k) < Place(s, m)
  <2>1. m \in Nat /\ m <= Len(s)
    BY <1>1
  <2>2. m \in T
    <3> HIDE DEF T
    <3> QED
      BY <1>4, <2>1
  <2> QED
    BY <1>5, <2>1, <2>2
<1> QED
  BY <1>5

LEMMA PlaceStays ==
  ASSUME NEW s \in Seq(Events), NEW e \in Events, NEW k \in 0 .. Len(s)
  PROVE  Place(Append(s, e), k) = Place(s, k)
BY FirstStays DEF Place

\* Every cell of the log behind the file header belongs to a record.
LEMMA Owner ==
  ASSUME NEW s \in Seq(Events), NEW q \in 3 .. Len(LogOf(s))
  PROVE  \E k \in 0 .. Len(s), j \in Nat :
           /\ k < Len(s) /\ q = Place(s, k) + j
           /\ j \in 1 .. 2 + PayloadCells[s[k + 1]]
<1> DEFINE T == {k \in 0 .. Len(s) : q <= Place(s, k)}
<1>1. /\ Len(s) \in Nat /\ Place(s, 0) = 2 /\ Place(s, Len(s)) = Len(LogOf(s))
      /\ Len(LogOf(s)) \in Nat /\ \A k \in 0 .. Len(s) : Place(s, k) \in Nat
  BY LenProperties, PlaceEnds
<1>2. Len(s) \in T /\ T \in SUBSET Nat
  BY <1>1
<1>3. PICK m \in T : \A k \in T : ~(k < m)
  BY <1>2, LeastElement
<1>4. m \in 0 .. Len(s) /\ q <= Place(s, m) /\ m # 0
  BY <1>1, <1>3
<1>5. PICK k \in 0 .. Len(s) : k = m - 1 /\ k < Len(s) /\ m = k + 1
  BY <1>1, <1>4
<1>6. Place(s, k) < q
  <2>1. k \notin T
    BY <1>1, <1>3, <1>5
  <2> QED
    BY <1>1, <2>1
<1>7. PICK c \in Nat : c = PayloadCells[s[k + 1]] /\ Place(s, m) = Place(s, k) + (2 + c)
  BY <1>5, PlaceNext
<1>8. PICK p \in Nat : p = Place(s, k)
  BY <1>1
<1>9. q - p \in Nat /\ q = p + (q - p) /\ q - p \in 1 .. 2 + c
  <2>1. p < q /\ q <= p + (2 + c) /\ q \in Nat
    BY <1>1, <1>4, <1>6, <1>7, <1>8
  <2> QED
    BY <2>1
<1> QED
  BY <1>5, <1>7, <1>8, <1>9

\* The payloads of these events do not contain the header of a record.
Plain(s) ==
  \A n \in 1 .. Len(s), x \in Events : \A i \in 1 .. PayloadCells[s[n]] - 1 :
    ~(Payload[s[n]][i] = Cell(x, 1) /\ Payload[s[n]][i + 1] = Cell(x, 2))

\* The magic of a record where a record begins is its magic.
LEMMA MagicAtPlace ==
  ASSUME NEW s \in Seq(Events), NEW k \in 0 .. Len(s), NEW q \in Nat, q = Place(s, k),
         NEW e, NEW n, q + 1 <= Len(LogOf(s)), LogOf(s)[q + 1] = Cell(e, n)
  PROVE  k < Len(s) /\ s[k + 1] = e /\ n = 1
<1>1. Len(s) \in Nat /\ Place(s, Len(s)) = Len(LogOf(s))
  BY LenProperties, PlaceEnds
<1>2. k < Len(s)
  BY <1>1
<1>3. PICK x \in Events, c \in Nat :
         /\ x = s[k + 1] /\ c = PayloadCells[x]
         /\ \A j \in 1 .. 2 + c : LogOf(s)[q + j] = Encoding[x][j]
  BY <1>2, PlaceNext
<1>4. 1 \in 1 .. 2 + c /\ Encoding[x][1] = Cell(x, 1)
  BY <1>3, EncodingTyped
<1>5. Cell(x, 1) = Cell(e, n)
  BY <1>3, <1>4
<1>6. Cell(x, 1).of = x /\ Cell(x, 1).part = 1 /\ Cell(e, n).of = e /\ Cell(e, n).part = n
  BY DEF Cell
<1> QED
  BY <1>2, <1>3, <1>5, <1>6

\* Where the header of a record is, a record begins, unless it is in a payload.
LEMMA HeaderIsPlace ==
  ASSUME NEW s \in Seq(Events), NEW q \in Nat, NEW e \in Events, Plain(s),
         q + 2 <= Len(LogOf(s)),
         LogOf(s)[q + 1] = Cell(e, 1), LogOf(s)[q + 2] = Cell(e, 2)
  PROVE  \E k \in 0 .. Len(s) : q = Place(s, k)
<1>1. \A x, n : Cell(x, n).of = x /\ Cell(x, n).part = n
  BY DEF Cell
<1>2. ~(q + 1 \in 1 .. 2)
  <2>1. FileHeader \in Seq(Units) /\ Records(s) \in Seq(Units) /\ Len(FileHeader) = 2
        /\ \A i \in 1 .. 2 : FileHeader[i] = Cell("file", i)
    BY HeaderTyped, RecordsTyped
  <2>2. Agrees(FileHeader, LogOf(s))
    BY <2>1, StartAgrees DEF LogOf, Joint
  <2>3. ASSUME q + 1 \in 1 .. 2 PROVE FALSE
    <3>1. LogOf(s)[q + 1] = Cell("file", q + 1)
      BY <2>1, <2>2, <2>3 DEF Agrees
    <3>2. e # "file" /\ Cell("file", q + 1).of = "file" /\ Cell(e, 1).of = e
      BY <1>1, Parameters
    <3> QED
      BY <3>1, <3>2
  <2> QED
    BY <2>3
<1>3. Len(LogOf(s)) \in Nat /\ q + 1 \in 3 .. Len(LogOf(s))
  BY <1>2, PlaceEnds
<1>4. PICK k \in 0 .. Len(s), j \in Nat :
         /\ k < Len(s) /\ q + 1 = Place(s, k) + j
         /\ j \in 1 .. 2 + PayloadCells[s[k + 1]]
  BY <1>3, Owner
<1>5. PICK x \in Events, p \in Nat, c \in Nat :
         /\ x = s[k + 1] /\ p = Place(s, k) /\ c = PayloadCells[x]
         /\ Place(s, k + 1) = p + (2 + c) /\ k + 1 \in 0 .. Len(s)
         /\ \A i \in 1 .. 2 + c : LogOf(s)[p + i] = Encoding[x][i]
  <2>1. /\ s[k + 1] \in Events /\ k + 1 \in 0 .. Len(s)
        /\ PayloadCells[s[k + 1]] \in Nat
        /\ Place(s, k + 1) = Place(s, k) + (2 + PayloadCells[s[k + 1]])
        /\ \A i \in 1 .. 2 + PayloadCells[s[k + 1]] :
             LogOf(s)[Place(s, k) + i] = Encoding[s[k + 1]][i]
    BY <1>4, PlaceNext
  <2>2. Place(s, k) \in Nat
    BY PlaceEnds
  <2> QED
    BY <2>1, <2>2
<1>6. /\ Encoding[x][1] = Cell(x, 1) /\ Encoding[x][2] = Cell(x, 2)
      /\ \A i \in 1 .. c : Encoding[x][2 + i] = Payload[x][i]
  BY <1>5, EncodingTyped
<1>7. q + 1 = p + j /\ j \in 1 .. 2 + c /\ Encoding[x][j] = Cell(e, 1)
  BY <1>4, <1>5
<1>8. j # 2
  <2>1. Cell(x, 2) # Cell(e, 1)
    BY <1>1
  <2> QED
    BY <1>6, <1>7, <2>1
<1>9. ASSUME j > 2 PROVE FALSE
  <2>1. PICK i \in 1 .. c : j = 2 + i /\ q + 1 = p + (2 + i)
    <3>1. j - 2 \in 1 .. c /\ j = 2 + (j - 2)
      BY <1>7, <1>9
    <3> QED
      BY <1>7, <3>1
  <2>2. Payload[x][i] = Cell(e, 1)
    BY <1>6, <1>7, <2>1
  <2>3. CASE i < c
    <3>1. i + 1 \in 1 .. c /\ 2 + (i + 1) \in 1 .. 2 + c /\ q + 2 = p + (2 + (i + 1))
      BY <2>1, <2>3
    <3>2. Payload[x][i + 1] = Cell(e, 2)
      BY <1>5, <1>6, <3>1
    <3>3. i \in 1 .. c - 1 /\ k + 1 \in 1 .. Len(s)
      BY <1>4, <2>3, LenProperties
    <3> QED
      BY <1>5, <2>2, <3>2, <3>3 DEF Plain
  <2>4. CASE ~(i < c)
    <3>1. PICK m \in 0 .. Len(s), o \in Nat : m = k + 1 /\ o = Place(s, m) /\ o = q + 1
      <4>1. p + (2 + c) = q + 1
        BY <2>1, <2>4
      <4> QED
        BY <1>5, <4>1
    <3>2. o + 1 = q + 2
      BY <3>1
    <3>3. o + 1 <= Len(LogOf(s)) /\ LogOf(s)[o + 1] = Cell(e, 2)
      BY <3>2
    <3>4. 2 = 1
      BY <3>1, <3>3, MagicAtPlace
    <3> QED
      BY <3>4
  <2> QED
    BY <2>3, <2>4
<1>10. j = 1
  BY <1>7, <1>8, <1>9
<1>11. q = p
  BY <1>7, <1>10
<1> QED
  BY <1>5, <1>11

-----------------------------------------------------------------------------
(* What a read delivers *)

LEMMA CellsRead ==
  ASSUME ReaderTyped, NEW n \in Nat
  PROVE  /\ Cells(n) \in Seq(Units) /\ Len(Cells(n)) = Got(n) /\ Got(n) \in 0 .. n
         /\ position + Got(n) <= Len(file)
         /\ \A j \in 1 .. Got(n) : Cells(n)[j] = file[position + j]
<1>1. /\ Got(n) \in 0 .. n /\ position + Got(n) \in 0 .. Len(file)
      /\ position \in Nat /\ Len(file) \in Nat /\ Got(n) \in Nat
  BY GotBounds
<1>2. PICK g \in Nat, p \in Nat : g = Got(n) /\ p = position
  BY <1>1
<1>3. PICK a \in Nat, b \in Nat : a = p + 1 /\ b = p + g
  OBVIOUS
<1>4. file \in Seq(Units) /\ 1 <= a /\ a <= b + 1 /\ b <= Len(file)
  <2>1. file \in Seq(Units)
    BY DEF ReaderTyped
  <2>2. 1 <= a /\ a <= b + 1
    BY <1>3
  <2>3. b <= Len(file)
    BY <1>1, <1>2, <1>3
  <2> QED
    BY <2>1, <2>2, <2>3
<1>5. /\ SubSeq(file, a, b) \in Seq(Units) /\ Len(SubSeq(file, a, b)) = b - a + 1
      /\ \A j \in 1 .. b - a + 1 : SubSeq(file, a, b)[j] = file[a + j - 1]
  BY <1>4, PieceIs
<1>6. Cells(n) = SubSeq(file, a, b) /\ b - a + 1 = g
  BY <1>2, <1>3 DEF Cells
<1>7. \A j \in 1 .. g : Cells(n)[j] = file[p + j]
  <2>1. \A j \in 1 .. g : a + j - 1 = p + j
    BY <1>3
  <2>2. \A j \in 1 .. g : Cells(n)[j] = file[a + j - 1]
    BY <1>5, <1>6
  <2> QED
    BY <2>1, <2>2
<1>8. Cells(n) \in Seq(Units) /\ Len(Cells(n)) = g
  BY <1>5, <1>6
<1> QED
  BY <1>1, <1>2, <1>7, <1>8

LEMMA HeaderRead ==
  ASSUME ReaderTyped, NEW e, Cells(2) = <<Cell(e, 1), Cell(e, 2)>>
  PROVE  /\ Got(2) = 2 /\ position + 2 <= Len(file)
         /\ file[position + 1] = Cell(e, 1) /\ file[position + 2] = Cell(e, 2)
<1>1. /\ Len(Cells(2)) = Got(2) /\ position + Got(2) <= Len(file)
      /\ \A j \in 1 .. Got(2) : Cells(2)[j] = file[position + j]
  BY CellsRead
<1>2. Len(Cells(2)) = 2 /\ Cells(2)[1] = Cell(e, 1) /\ Cells(2)[2] = Cell(e, 2)
  OBVIOUS
<1> QED
  BY <1>1, <1>2

LEMMA PayloadIs ==
  ASSUME NEW e \in Events
  PROVE  /\ Payload[e] \in Seq(Units) /\ Len(Payload[e]) = PayloadCells[e]
         /\ PayloadCells[e] \in Nat
         /\ \A j \in 1 .. PayloadCells[e] : Payload[e][j] = Encoding[e][2 + j]
BY Parameters, EncodingTyped

LEMMA PayloadRead ==
  ASSUME ReaderTyped, NEW e \in Events, Cells(PayloadCells[e]) = Payload[e]
  PROVE  /\ Got(PayloadCells[e]) = PayloadCells[e]
         /\ position + PayloadCells[e] <= Len(file)
         /\ \A j \in 1 .. PayloadCells[e] : file[position + j] = Encoding[e][2 + j]
<1>1. PICK n \in Nat : n = PayloadCells[e]
  BY PayloadIs
<1>2. /\ Len(Cells(n)) = Got(n) /\ position + Got(n) <= Len(file)
      /\ \A j \in 1 .. Got(n) : Cells(n)[j] = file[position + j]
  BY CellsRead
<1>3. Len(Cells(n)) = n /\ \A j \in 1 .. n : Cells(n)[j] = Encoding[e][2 + j]
  BY <1>1, PayloadIs
<1> QED
  BY <1>1, <1>2, <1>3

\* The file has the cells of this log at their places, but for the rotten ones.
Mirrors(s) ==
  /\ Len(file) <= Len(LogOf(s))
  /\ \A i \in 1 .. Len(file) : file[i] = LogOf(s)[i] \/ ~file[i].intact

\* A record header is accepted only where the log has it: always when the reader
\* is where a record begins, else when no payload contains one.
LEMMA HeaderInLog ==
  ASSUME ReaderTyped, NEW s \in Seq(Events), Mirrors(s),
         NEW e \in Events, Cells(2) = RecordHeader(e),
         Plain(s) \/ \E k \in 0 .. Len(s) : position = Place(s, k)
  PROVE  /\ \E k \in 0 .. Len(s) : k < Len(s) /\ position = Place(s, k) /\ s[k + 1] = e
         /\ position + 2 <= Len(file)
         /\ file[position + 1] = Cell(e, 1) /\ file[position + 2] = Cell(e, 2)
<1>1. /\ position + 2 <= Len(file) /\ file[position + 1] = Cell(e, 1)
      /\ file[position + 2] = Cell(e, 2)
  BY HeaderRead DEF RecordHeader
<1>2. position \in Nat /\ Len(file) \in Nat /\ Len(LogOf(s)) \in Nat
  BY GotBounds, PlaceEnds
<1>3. position + 1 \in 1 .. Len(file) /\ position + 2 \in 1 .. Len(file)
  BY <1>1, <1>2
<1>4. Len(file) <= Len(LogOf(s))
      /\ (file[position + 1] = LogOf(s)[position + 1] \/ ~file[position + 1].intact)
      /\ (file[position + 2] = LogOf(s)[position + 2] \/ ~file[position + 2].intact)
  BY <1>3 DEF Mirrors
<1>5. Cell(e, 1).intact /\ Cell(e, 2).intact
  BY DEF Cell
<1>6. LogOf(s)[position + 1] = Cell(e, 1) /\ LogOf(s)[position + 2] = Cell(e, 2)
  BY <1>1, <1>4, <1>5
<1>7. PICK q \in Nat : /\ q = position /\ q + 2 <= Len(LogOf(s)) /\ q + 1 <= Len(LogOf(s))
                       /\ LogOf(s)[q + 1] = Cell(e, 1) /\ LogOf(s)[q + 2] = Cell(e, 2)
  BY <1>1, <1>2, <1>4, <1>6
<1>8. PICK k \in 0 .. Len(s) : q = Place(s, k)
  BY <1>7, HeaderIsPlace
<1>9. k < Len(s) /\ s[k + 1] = e
  BY <1>7, <1>8, MagicAtPlace
<1> QED
  BY <1>1, <1>7, <1>8, <1>9

-----------------------------------------------------------------------------
(* Picking items *)

Kernel(a, set) == IF a \in set THEN <<a>> ELSE <<>>

Kernels(items, set) == [i \in DOMAIN items |-> Kernel(items[i], set)]

LEMMA KernelTyped ==
  ASSUME NEW set, NEW a
  PROVE  Kernel(a, set) \in Seq(set)
<1>1. CASE a \in set
  <2>1. <<a>> \in Seq(set)
    BY <1>1
  <2> QED
    BY <1>1, <2>1 DEF Kernel
<1>2. CASE a \notin set
  BY <1>2, EmptySeq DEF Kernel
<1> QED
  BY <1>1, <1>2

LEMMA KernelsTyped ==
  ASSUME NEW S, NEW set, NEW items \in Seq(S)
  PROVE  /\ Kernels(items, set) \in Seq(Seq(set)) /\ Len(Kernels(items, set)) = Len(items)
         /\ \A i \in 1 .. Len(items) : Kernels(items, set)[i] = Kernel(items[i], set)
         /\ Only(items, set) = FlattenSeq(Kernels(items, set))
<1>1. Len(items) \in Nat /\ DOMAIN items = 1 .. Len(items)
  BY LenProperties
<1>2. Kernels(items, set) \in [1 .. Len(items) -> Seq(set)]
  BY <1>1, KernelTyped DEF Kernels
<1>3. Kernels(items, set) \in Seq(Seq(set)) /\ Len(Kernels(items, set)) = Len(items)
  BY <1>1, <1>2, FunctionIsSeq
<1>4. \A i \in 1 .. Len(items) : Kernels(items, set)[i] = Kernel(items[i], set)
  BY <1>1 DEF Kernels
<1>5. Only(items, set) = FlattenSeq(Kernels(items, set))
  BY DEF Only, Kernels, Kernel
<1> QED
  BY <1>3, <1>4, <1>5

LEMMA OnlyTyped ==
  ASSUME NEW S, NEW set, NEW items \in Seq(S)
  PROVE  Only(items, set) \in Seq(set)
BY KernelsTyped, FlattenTyped

LEMMA OnlyEmpty ==
  ASSUME NEW set
  PROVE  Only(<<>>, set) = <<>>
<1>1. <<>> \in Seq(set) /\ Len(<<>>) = 0
  BY EmptySeq
<1>2. Kernels(<<>>, set) = <<>>
  BY <1>1, KernelsTyped, EmptySeq
<1> QED
  BY <1>1, <1>2, KernelsTyped, FlattenEmpty

LEMMA OnlyConcat ==
  ASSUME NEW S, NEW set, NEW a \in Seq(S), NEW b \in Seq(S)
  PROVE  Only(a \o b, set) = Only(a, set) \o Only(b, set)
<1>1. /\ a \o b \in Seq(S) /\ Len(a \o b) = Len(a) + Len(b)
      /\ Len(a) \in Nat /\ Len(b) \in Nat
      /\ \A i \in 1 .. Len(a) + Len(b) :
           (a \o b)[i] = IF i <= Len(a) THEN a[i] ELSE b[i - Len(a)]
  BY ConcatProperties, LenProperties
<1>2. PICK n \in Nat, m \in Nat : n = Len(a) /\ m = Len(b)
  BY <1>1
<1>3. PICK c \in Seq(S) :
         /\ c = a \o b /\ Len(c) = n + m
         /\ \A i \in 1 .. n + m : c[i] = IF i <= n THEN a[i] ELSE b[i - n]
  BY <1>1, <1>2
<1>4. PICK x \in Seq(Seq(set)) :
         /\ x = Kernels(a, set) /\ Only(a, set) = FlattenSeq(x) /\ Len(x) = n
         /\ \A i \in 1 .. n : x[i] = Kernel(a[i], set)
  BY <1>2, KernelsTyped
<1>5. PICK y \in Seq(Seq(set)) :
         /\ y = Kernels(b, set) /\ Only(b, set) = FlattenSeq(y) /\ Len(y) = m
         /\ \A i \in 1 .. m : y[i] = Kernel(b[i], set)
  BY <1>2, KernelsTyped
<1>6. PICK z \in Seq(Seq(set)) :
         /\ z = Kernels(c, set) /\ Only(c, set) = FlattenSeq(z) /\ Len(z) = n + m
         /\ \A i \in 1 .. n + m : z[i] = Kernel(c[i], set)
  BY <1>3, KernelsTyped
<1>7. PICK w \in Seq(Seq(set)) :
         /\ w = x \o y /\ Len(w) = n + m
         /\ \A i \in 1 .. n + m : w[i] = IF i <= n THEN x[i] ELSE y[i - n]
  <2>1. /\ x \o y \in Seq(Seq(set)) /\ Len(x \o y) = Len(x) + Len(y)
        /\ \A i \in 1 .. Len(x) + Len(y) :
             (x \o y)[i] = IF i <= Len(x) THEN x[i] ELSE y[i - Len(x)]
    BY ConcatProperties
  <2> QED
    BY <1>4, <1>5, <2>1
<1>8. ASSUME NEW i \in 1 .. n + m PROVE z[i] = w[i]
  <2>1. CASE i <= n
    <3>1. i \in 1 .. n
      BY <1>2, <2>1
    <3>2. c[i] = a[i] /\ w[i] = x[i]
      BY <1>3, <1>7, <2>1
    <3> QED
      BY <1>4, <1>6, <3>1, <3>2
  <2>2. CASE ~(i <= n)
    <3>1. i - n \in 1 .. m
      BY <1>2, <2>2
    <3>2. c[i] = b[i - n] /\ w[i] = y[i - n]
      BY <1>3, <1>7, <2>2
    <3> QED
      BY <1>5, <1>6, <3>1, <3>2
  <2> QED
    BY <2>1, <2>2
<1>9. z = w
  BY <1>6, <1>7, <1>8, SeqEqual
<1>10. FlattenSeq(x \o y) = FlattenSeq(x) \o FlattenSeq(y)
  BY FlattenConcat
<1> QED
  BY <1>3, <1>4, <1>5, <1>6, <1>7, <1>9, <1>10

LEMMA OnlyOne ==
  ASSUME NEW S, NEW set, NEW a \in S
  PROVE  Only(<<a>>, set) = Kernel(a, set)
<1>1. <<a>> \in Seq(S) /\ Len(<<a>>) = 1 /\ <<a>>[1] = a
  OBVIOUS
<1>2. PICK k \in Seq(set) : k = Kernel(a, set)
  BY KernelTyped
<1>3. PICK x \in Seq(Seq(set)) :
         x = Kernels(<<a>>, set) /\ Only(<<a>>, set) = FlattenSeq(x) /\ Len(x) = 1 /\ x[1] = k
  <2>1. PICK items \in Seq(S) : items = <<a>> /\ Len(items) = 1 /\ items[1] = a
    BY <1>1
  <2>2. /\ Kernels(items, set) \in Seq(Seq(set)) /\ Len(Kernels(items, set)) = Len(items)
        /\ \A i \in 1 .. Len(items) : Kernels(items, set)[i] = Kernel(items[i], set)
        /\ Only(items, set) = FlattenSeq(Kernels(items, set))
    BY KernelsTyped
  <2>3. 1 \in 1 .. Len(items)
    BY <2>1
  <2> QED
    BY <1>2, <2>1, <2>2, <2>3
<1>4. x = Append(<<>>, k)
  BY <1>3
<1>5. <<>> \in Seq(Seq(set))
  BY EmptySeq
<1>6. FlattenSeq(Append(<<>>, k)) = FlattenSeq(<<>>) \o k
  BY <1>5, FlattenAppend
<1> QED
  BY <1>2, <1>3, <1>4, <1>6, FlattenEmpty, ConcatEmptySeq

LEMMA OnlyAppend ==
  ASSUME NEW S, NEW set, NEW items \in Seq(S), NEW a \in S
  PROVE  /\ Only(Append(items, a), set) = Only(items, set) \o Kernel(a, set)
         /\ Only(items, set) \in Seq(set)
<1>1. Append(items, a) = items \o <<a>> /\ <<a>> \in Seq(S)
  BY AppendIsConcat
<1>2. Only(items \o <<a>>, set) = Only(items, set) \o Only(<<a>>, set)
  BY <1>1, OnlyConcat
<1>3. Only(<<a>>, set) = Kernel(a, set)
  BY OnlyOne
<1>4. Only(items, set) \in Seq(set)
  BY OnlyTyped
<1> QED
  BY <1>1, <1>2, <1>3, <1>4

-----------------------------------------------------------------------------
(* The events among the answers *)

LEMMA ReturnedTyped ==
  ASSUME NEW got \in Seq(Answers)
  PROVE  Returned(got) \in Seq(Events)
BY OnlyTyped DEF Returned

LEMMA ReturnedEmpty == Returned(<<>>) = <<>>
BY OnlyEmpty DEF Returned

LEMMA ReturnedAppend ==
  ASSUME NEW got \in Seq(Answers), NEW a \in Answers
  PROVE  Returned(Append(got, a)) = Returned(got) \o Kernel(a, Events)
BY OnlyAppend DEF Returned

-----------------------------------------------------------------------------
(* What a call of next() does *)

Accepts ==
  /\ readerPc = "idle" /\ readerPc' = "payload" /\ inState = "good" /\ inState' = "good"
  /\ \E e \in Events : Cells(2) = RecordHeader(e) /\ header' = e
  /\ position' = position + 2 /\ UNCHANGED <<answers, info, ioErrors>>

Returns ==
  /\ readerPc = "payload" /\ readerPc' = "idle" /\ header \in Events
  /\ Cells(PayloadCells[header]) = Payload[header]
  /\ position' = position + PayloadCells[header] /\ inState' = inState
  /\ answers' = Append(answers, header)
  /\ info' = [first |-> IF info.first = 0 THEN Timestamp[header] ELSE info.first,
              last |-> Timestamp[header]]
  /\ UNCHANGED ioErrors

Gives(a) ==
  /\ readerPc \in {"idle", "payload"} /\ readerPc' = "idle"
  /\ position' \in Nat /\ position <= position'
  /\ answers' = Append(answers, a) /\ UNCHANGED info

LEMMA NextRecordIs ==
  ASSUME ReaderTyped, NextRecord, UNCHANGED file
  PROVE  Accepts \/ Returns \/ Gives("end") \/ Gives("format") \/ Gives("crc")
<1>1. position \in Nat /\ Len(file) \in Nat
  BY GotBounds
<1>2. CASE NextHeader
  <2>1. PICK e \in Events : Cells(2) = RecordHeader(e) /\ header' = e
    BY <1>2 DEF NextHeader
  <2>2. Got(2) = 2 /\ Read(2)
    BY <1>2 DEF NextHeader
  <2>3. inState = "good"
    BY <2>2 DEF Got
  <2> QED
    BY <1>2, <2>1, <2>2, <2>3 DEF NextHeader, Read, Accepts
<1>3. CASE NextEvent
  <2>1. header \in Events
    BY <1>3 DEF NextEvent, ReaderTyped
  <2>2. Got(PayloadCells[header]) = PayloadCells[header]
    BY <1>3, <2>1, PayloadRead DEF NextEvent
  <2>3. Read(PayloadCells[header])
    BY <1>3 DEF NextEvent
  <2>4. PayloadCells[header] \in Nat
    BY <2>1, Parameters
  <2>5. ~(Got(PayloadCells[header]) < PayloadCells[header])
    BY <2>2, <2>4
  <2>6. position' = position + PayloadCells[header] /\ inState' = inState /\ UNCHANGED ioErrors
    BY <2>2, <2>3, <2>5 DEF Read
  <2> QED
    BY <1>3, <2>1, <2>6 DEF NextEvent, Returns
<1>4. CASE NextEnd \/ NextTruncatedHeader \/ NextBadHeader \/ NextTruncatedPayload \/ NextBadPayload
  <2>1. PICK n \in Nat : Read(n) \/ ReadFault
    <3>1. CASE readerPc = "idle"
      BY <1>4, <3>1 DEF NextEnd, NextTruncatedHeader, NextBadHeader, NextTruncatedPayload,
                        NextBadPayload
    <3>2. CASE readerPc = "payload"
      <4>1. PayloadCells[header] \in Nat
        BY <3>2, Parameters DEF ReaderTyped
      <4> QED
        BY <1>4, <3>2, <4>1 DEF NextEnd, NextTruncatedHeader, NextBadHeader,
                                NextTruncatedPayload, NextBadPayload
    <3> QED
      BY <1>4, <3>1, <3>2 DEF NextEnd, NextTruncatedHeader, NextBadHeader,
                              NextTruncatedPayload, NextBadPayload
  <2>2. position' \in 0 .. Len(file) /\ position <= position'
    BY <2>1, ReadTyped
  <2>3. Answer("end") \/ Answer("format") \/ Answer("crc")
    BY <1>4 DEF NextEnd, NextTruncatedHeader, NextBadHeader, NextTruncatedPayload,
                NextBadPayload
  <2>4. readerPc \in {"idle", "payload"}
    BY <1>4 DEF NextEnd, NextTruncatedHeader, NextBadHeader, NextTruncatedPayload,
                NextBadPayload
  <2> QED
    BY <1>1, <2>2, <2>3, <2>4 DEF Answer, Gives
<1> QED
  BY <1>2, <1>3, <1>4 DEF NextRecord

\* An exception or the end adds no event.
LEMMA NothingReturned ==
  ASSUME ReaderTyped, NEW a \in {"end", "format", "crc"}, answers' = Append(answers, a)
  PROVE  Returned(answers') = Returned(answers)
<1>1. a \in Answers /\ a \notin Events
  BY Parameters DEF Answers
<1>2. Kernel(a, Events) = <<>>
  BY <1>1 DEF Kernel
<1>3. answers \in Seq(Answers) /\ Returned(answers) \in Seq(Events)
  BY ReturnedTyped DEF ReaderTyped
<1>4. Returned(Append(answers, a)) = Returned(answers) \o <<>>
  BY <1>1, <1>2, <1>3, ReturnedAppend
<1> QED
  BY <1>3, <1>4, ConcatEmptySeq

LEMMA OneReturned ==
  ASSUME ReaderTyped, NEW e \in Events, answers' = Append(answers, e)
  PROVE  /\ Returned(answers') = Append(Returned(answers), e)
         /\ Returned(answers) \in Seq(Events)
<1>1. e \in Answers /\ Kernel(e, Events) = <<e>>
  BY DEF Answers, Kernel
<1>2. answers \in Seq(Answers) /\ Returned(answers) \in Seq(Events)
  BY ReturnedTyped DEF ReaderTyped
<1>3. Returned(Append(answers, e)) = Returned(answers) \o <<e>>
  BY <1>1, <1>2, ReturnedAppend
<1> QED
  BY <1>2, <1>3, AppendIsConcat

\* Only the end of the file is answered with the end.
LEMMA EndIsNextEnd ==
  ASSUME ReaderTyped, NextRecord, answers' = Append(answers, "end")
  PROVE  NextEnd
<1>1. answers \in Seq(Answers) /\ "end" \notin Events
  BY Parameters DEF ReaderTyped
<1>2. \A a : Append(answers, a) = Append(answers, "end") => a = "end"
  <2> SUFFICES ASSUME NEW a, Append(answers, a) = Append(answers, "end") PROVE a = "end"
    OBVIOUS
  <2>1. Append(answers, a)[Len(answers) + 1] = a
    BY <1>1
  <2>2. Append(answers, "end")[Len(answers) + 1] = "end"
    BY <1>1
  <2> QED
    BY <2>1, <2>2
<1>3. answers # Append(answers, "end")
  <2>1. Len(Append(answers, "end")) = Len(answers) + 1 /\ Len(answers) \in Nat
    BY <1>1
  <2> QED
    BY <2>1
<1>4. ~NextHeader
  BY <1>3 DEF NextHeader
<1>5. ~NextEvent
  BY <1>1, <1>2 DEF NextEvent, ReaderTyped
<1>6. ~(Answer("format") \/ Answer("crc"))
  BY <1>2 DEF Answer
<1> QED
  BY <1>4, <1>5, <1>6
  DEF NextRecord, NextTruncatedHeader, NextBadHeader, NextTruncatedPayload, NextBadPayload

LEMMA ReadsOn ==
  ASSUME ReaderTyped, NEW n \in Nat
  PROVE  /\ First(file, position + Got(n)) = Joint(First(file, position), Cells(n))
         /\ First(file, position) \in Seq(Units)
<1>1. /\ Got(n) \in 0 .. n /\ position + Got(n) \in 0 .. Len(file)
      /\ position \in Nat /\ Len(file) \in Nat /\ Got(n) \in Nat
  BY GotBounds
<1>2. PICK g \in Nat, p \in Nat, m \in Nat : g = Got(n) /\ p = position /\ m = Len(file)
  BY <1>1
<1>3. file \in Seq(Units) /\ p + g \in 0 .. m
  BY <1>1, <1>2 DEF ReaderTyped
<1>4. 1 \in 1 .. m + 1 /\ p \in 1 - 1 .. m /\ p + g \in p .. m /\ p \in 0 .. m
  BY <1>3
<1>5. SubSeq(file, 1, p) \o SubSeq(file, p + 1, p + g) = SubSeq(file, 1, p + g)
  BY <1>2, <1>3, <1>4, ConcatAdjacentSubSeq
<1>6. First(file, p) \in Seq(Units)
  BY <1>2, <1>3, <1>4, FirstTyped
<1> QED
  BY <1>2, <1>5, <1>6 DEF First, Joint, Cells

\* A file that grows keeps what was read.
LEMMA GrowsFirst ==
  ASSUME ReaderTyped, FileGrows
  PROVE  First(file', position) = First(file, position)
<1>1. /\ file' \in Seq(Units) /\ Len(file) \in Nat /\ Len(file') \in Nat
      /\ Len(file) <= Len(file') /\ \A i \in 1 .. Len(file) : file'[i] = file[i]
  BY GrowsBy
<1>2. PICK p \in Nat : p = position /\ p \in 0 .. Len(file) /\ p \in 0 .. Len(file')
  BY <1>1 DEF ReaderTyped
<1>3. /\ First(file, p) \in Seq(Units) /\ Len(First(file, p)) = p
      /\ First(file', p) \in Seq(Units) /\ Len(First(file', p)) = p
  BY <1>1, <1>2, FirstTyped DEF ReaderTyped
<1>4. \A i \in 1 .. p : First(file, p)[i] = file[i] /\ First(file', p)[i] = file'[i]
  BY <1>1, <1>2 DEF First
<1>5. \A i \in 1 .. Len(First(file', p)) : First(file', p)[i] = First(file, p)[i]
  BY <1>1, <1>2, <1>3, <1>4
<1>6. First(file', p) = First(file, p)
  BY <1>3, <1>5, SeqEqual
<1> QED
  BY <1>2, <1>6

-----------------------------------------------------------------------------
(* What the reader has taken from the file *)

\* The file header and the records of the events returned.
Taken == Joint(FileCells, Records(Returned(answers)))

LEMMA TakenOpen ==
  ASSUME ReaderTyped, Open, answers = <<>>
  PROVE  First(file, position') = Taken'
<1>1. Got(2) = 2 /\ position = 0 /\ Cells(2) = FileCells
  BY HeaderRead DEF Open, FileCells, ReaderTyped
<1>2. position' = position + Got(2) /\ answers' = <<>>
  BY DEF Open, Read
<1>3. First(file, position') = Joint(First(file, position), FileCells)
  BY <1>1, <1>2, ReadsOn
<1>4. First(file, position) = <<>>
  BY <1>1, SubSeqEmpty DEF First
<1>5. FileCells \in Seq(Units) /\ Records(<<>>) = <<>>
  BY HeaderTyped, Parameters, RecordsEmpty
<1>6. Joint(<<>>, FileCells) = FileCells /\ Joint(FileCells, <<>>) = FileCells
  BY <1>5, ConcatEmptySeq DEF Joint
<1>7. Taken' = FileCells
  BY <1>2, <1>5, <1>6, ReturnedEmpty DEF Taken
<1> QED
  BY <1>3, <1>4, <1>6, <1>7

LEMMA TakenAccepts ==
  ASSUME ReaderTyped, Accepts, First(file, position) = Taken
  PROVE  First(file, position') = Joint(Taken', RecordHeader(header'))
<1>1. PICK e \in Events : Cells(2) = RecordHeader(e) /\ header' = e
  BY DEF Accepts
<1>2. Got(2) = 2
  BY <1>1, HeaderRead DEF RecordHeader
<1>3. position' = position + Got(2) /\ answers' = answers
  BY <1>2 DEF Accepts
<1>4. First(file, position') = Joint(First(file, position), RecordHeader(header'))
  BY <1>1, <1>3, ReadsOn
<1>5. Taken' = Taken
  BY <1>3 DEF Taken
<1> QED
  BY <1>4, <1>5

LEMMA TakenReturns ==
  ASSUME ReaderTyped, Returns, First(file, position) = Joint(Taken, RecordHeader(header))
  PROVE  First(file, position') = Taken'
<1>1. PICK r \in Seq(Events) : r = Returned(answers)
  BY ReturnedTyped DEF ReaderTyped
<1>2. Taken = Joint(FileCells, Records(r)) /\ FileCells \in Seq(Units) /\ Records(r) \in Seq(Units)
  BY <1>1, HeaderTyped, Parameters, RecordsTyped DEF Taken
<1>3. PICK h \in Seq(Units), p \in Seq(Units) :
         h = RecordHeader(header) /\ p = Payload[header] /\ Encoding[header] = Joint(h, p)
  <2>1. header \in Events
    BY DEF Returns
  <2>2. Cell(header, 1) \in Units /\ Cell(header, 2) \in Units
    BY <2>1, CellTyped
  <2>3. RecordHeader(header) \in Seq(Units)
    BY <2>2 DEF RecordHeader
  <2>4. Payload[header] \in Seq(Units)
    BY <2>1, PayloadIs
  <2>5. Encoding[header] = Joint(RecordHeader(header), Payload[header])
    BY <2>1, Parameters DEF Joint
  <2> QED
    BY <2>3, <2>4, <2>5
<1>4. /\ header \in Events /\ Cells(PayloadCells[header]) = p
      /\ position' = position + PayloadCells[header] /\ answers' = Append(answers, header)
  BY <1>3 DEF Returns
<1>5. PayloadCells[header] \in Nat /\ Got(PayloadCells[header]) = PayloadCells[header]
  BY <1>3, <1>4, PayloadRead, Parameters
<1>6. First(file, position') = Joint(First(file, position), p)
  <2>1. First(file, position + Got(PayloadCells[header]))
          = Joint(First(file, position), Cells(PayloadCells[header]))
    BY <1>5, ReadsOn
  <2> QED
    BY <1>4, <1>5, <2>1
<1>7. Returned(answers') = Append(r, header)
  BY <1>1, <1>4, OneReturned
<1>8. Records(Append(r, header)) = Joint(Records(r), Joint(h, p))
  BY <1>3, <1>4, RecordsAppend DEF Joint
<1>9. Taken' = Joint(Joint(Taken, h), p)
  <2>1. PICK c \in Seq(Units), q \in Seq(Units), x \in Seq(Units) :
           c = FileCells /\ q = Records(r) /\ x = Joint(h, p)
    BY <1>2, JointTyped
  <2>2. Taken' = Joint(c, Joint(q, x))
    BY <1>7, <1>8, <2>1 DEF Taken
  <2>3. Joint(c, Joint(q, x)) = Joint(Joint(c, q), x)
    BY JointAssociative
  <2>4. Joint(c, q) \in Seq(Units)
    BY JointTyped
  <2>5. Joint(Joint(c, q), Joint(h, p)) = Joint(Joint(Joint(c, q), h), p)
    BY <2>4, JointAssociative
  <2> QED
    BY <1>2, <2>1, <2>2, <2>3, <2>5
<1> QED
  BY <1>3, <1>6, <1>9

\* The end of the file takes nothing.
LEMMA TakenEnd ==
  ASSUME ReaderTyped, NextEnd
  PROVE  position' = position /\ Taken' = Taken
<1>1. position \in Nat /\ Got(2) = 0 /\ position' = position + Got(2)
  BY GotBounds DEF NextEnd, Read
<1>2. Returned(answers') = Returned(answers)
  BY NothingReturned DEF NextEnd, Answer
<1> QED
  BY <1>1, <1>2 DEF Taken
=============================================================================
