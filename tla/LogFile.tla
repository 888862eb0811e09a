------------------------------ MODULE LogFile ------------------------------
(***************************************************************************)
(* What the writer and the reader of a log share: the events, how a record *)
(* is laid out, and the file.  Bytes are grouped into units, the pieces    *)
(* that no property needs to see divided.                                  *)
(***************************************************************************)
EXTENDS Naturals, Sequences

CONSTANTS Events,      \* the events that can be recorded
          Encoding,    \* event -> units of its record header and payload
          FileHeader   \* units of the file header

VARIABLE file          \* what the operating system has
=============================================================================
