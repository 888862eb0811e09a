-------------------------- MODULE RecorderContract --------------------------
(***************************************************************************)
(* What hpblr::AsyncRecorder promises to its callers, without its queue,   *)
(* its thread, its buffers or its locks (include/hpblr/async_recorder.hpp, *)
(* src/core/async_recorder.cpp:24-47).  AsyncRecorder implements this      *)
(* module; the applications are built on it.                               *)
(***************************************************************************)
EXTENDS Naturals, SequencesExt

CONSTANTS Submitters,  \* the threads that call submit()
          Records      \* the events they submit

VARIABLES accepted,     \* the events taken so far, in order
          saved,        \* those the file holds
          taken,        \* submitters whose event is in, their call not back yet
          results,      \* what each submitter's calls gave
          failure,      \* "none", or the exception the writer thread kept
          stopping,     \* stop() or the destructor has been called
          stopResults,  \* what the calls of stop() gave
          destroyed     \* the recorder is no more

contractVars == <<accepted, saved, taken, results, failure, stopping,
                  stopResults, destroyed>>

ContractInit ==
  /\ accepted = <<>> /\ saved = <<>>
  /\ taken = {}
  /\ results = [p \in Submitters |-> <<>>]
  /\ failure = "none"
  /\ stopping = FALSE
  /\ stopResults = <<>>
  /\ destroyed = FALSE

\* stop() has returned normally: the log is complete, for good.
Complete == "ok" \in Range(stopResults)

-----------------------------------------------------------------------------
(* submit(e) by p: the event gets in, and the call returns *)

\* Mutated form: the last event in goes first.
AcceptFirst(p, e) ==
  /\ ~destroyed /\ ~Complete /\ p \notin taken
  /\ accepted' = <<e>> \o accepted
  /\ taken' = taken \cup {p}
  /\ UNCHANGED <<saved, results, failure, stopping, stopResults, destroyed>>

Accept(p, e) ==
  /\ ~destroyed /\ ~Complete /\ p \notin taken
  /\ accepted' = Append(accepted, e)
  /\ taken' = taken \cup {p}
  /\ UNCHANGED <<saved, results, failure, stopping, stopResults, destroyed>>

AnswerWith(p, answer) ==
  /\ results' = [results EXCEPT ![p] = Append(@, answer)]
  /\ UNCHANGED <<accepted, saved, failure, stopping, stopResults, destroyed>>

AnswerTrue(p) ==
  /\ p \in taken /\ taken' = taken \ {p}
  /\ AnswerWith(p, "true")

\* Refused: the recorder is stopping, or the writer has failed.
AnswerFalse(p) ==
  /\ ~destroyed /\ p \notin taken
  /\ stopping \/ failure # "none"
  /\ AnswerWith(p, "false")
  /\ UNCHANGED taken

AnswerThrew(p) ==
  /\ ~destroyed /\ p \notin taken
  /\ failure # "none"
  /\ AnswerWith(p, "threw")
  /\ UNCHANGED taken

-----------------------------------------------------------------------------
(* The background thread *)

\* More of the accepted events are in the file, in order.
Save ==
  /\ ~destroyed
  /\ \E n \in Len(saved) + 1 .. Len(accepted) : saved' = SubSeq(accepted, 1, n)
  /\ UNCHANGED <<accepted, taken, results, failure, stopping, stopResults, destroyed>>

\* The first exception is kept.
Fail ==
  /\ failure = "none" /\ ~Complete /\ ~destroyed
  /\ failure' \in {"io", "format"}
  /\ UNCHANGED <<accepted, saved, taken, results, stopping, stopResults, destroyed>>

-----------------------------------------------------------------------------
(* stop() and the destructor *)

StopBegins ==
  /\ ~destroyed
  /\ stopping' = TRUE
  /\ UNCHANGED <<accepted, saved, taken, results, failure, stopResults, destroyed>>

StopOk ==
  /\ stopping /\ ~destroyed /\ failure = "none"
  /\ saved = accepted
  /\ stopResults' = Append(stopResults, "ok")
  /\ UNCHANGED <<accepted, saved, taken, results, failure, stopping, destroyed>>

StopThrew ==
  /\ stopping /\ ~destroyed /\ failure # "none"
  /\ stopResults' = Append(stopResults, "threw")
  /\ UNCHANGED <<accepted, saved, taken, results, failure, stopping, destroyed>>

\* Without a failure everything accepted is in the file by then.
Destroyed ==
  /\ stopping /\ ~destroyed /\ taken = {}
  /\ \E n \in Len(saved) .. Len(accepted) :
       /\ failure = "none" => n = Len(accepted)
       /\ saved' = SubSeq(accepted, 1, n)
  /\ destroyed' = TRUE
  /\ UNCHANGED <<accepted, taken, results, failure, stopping, stopResults>>

-----------------------------------------------------------------------------

ContractNext ==
  \/ \E p \in Submitters :
       \/ \E e \in Records : Accept(p, e)
       \/ AnswerTrue(p) \/ AnswerFalse(p) \/ AnswerThrew(p)
  \/ Save \/ Fail
  \/ StopBegins \/ StopOk \/ StopThrew \/ Destroyed

ContractSpec == ContractInit /\ [][ContractNext]_contractVars
=============================================================================
