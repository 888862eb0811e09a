---------------------------- MODULE MCBinaryLog ----------------------------
(* Finite instances of BinaryLog for TLC. *)
EXTENDS BinaryLog

\* Records with one and with two cells of payload; one too large.  The payload of
\* "d" is a whole record, without payload, of "b", which is never appended.
\* The first event has timestamp 0, which the reader takes for "not set".
AllEvents == {"a", "b", "c", "d", "huge"}
Contents == [a |-> <<Cell("a", 3)>>, b |-> <<>>, c |-> <<Cell("c", 3), Cell("c", 4)>>,
             d |-> RecordHeader("b"),
             huge |-> <<Cell("huge", 3), Cell("huge", 4), Cell("huge", 5)>>]
Times == [a |-> 0, b |-> 7, c |-> 9, d |-> 10, huge |-> 11]
Layout == [e \in AllEvents |-> RecordHeader(e) \o Contents[e]]
HeaderLayout == FileCells

Offers == <<"a", "huge", "c", "d">>
TooLarge == {"huge"}
=============================================================================
