------------------------------ MODULE Channel ------------------------------
(***************************************************************************)
(* What a bounded, closable FIFO promises to the threads that use it, with *)
(* no mutex, no condition variable and no parked thread in sight: values   *)
(* come out in the order they went in, at most Bound of them are inside,   *)
(* nothing enters once the channel is shut, and a reader is told "no more" *)
(* only when everything that was accepted has been delivered.              *)
(***************************************************************************)
EXTENDS Naturals, Sequences

CONSTANTS Values, Readers, Bound

VARIABLES accepted,   \* every value taken in, in order
          delivered,  \* every value handed out, in order
          shut,       \* no further value is accepted
          ended       \* the readers that were told there is no more

channelVars == <<accepted, delivered, shut, ended>>

Init ==
  /\ accepted = <<>>
  /\ delivered = <<>>
  /\ shut = FALSE
  /\ ended = {}

Accept(v) ==
  /\ ~shut
  /\ Len(accepted) - Len(delivered) < Bound
  /\ accepted' = Append(accepted, v)
  /\ UNCHANGED <<delivered, shut, ended>>

Deliver ==
  /\ Len(delivered) < Len(accepted)
  /\ delivered' = Append(delivered, accepted[Len(delivered) + 1])
  /\ UNCHANGED <<accepted, shut, ended>>

Shut ==
  /\ shut' = TRUE
  /\ UNCHANGED <<accepted, delivered, ended>>

End(r) ==
  /\ shut
  /\ delivered = accepted
  /\ ended' = ended \cup {r}
  /\ UNCHANGED <<accepted, delivered, shut>>

Next ==
  \/ \E v \in Values : Accept(v)
  \/ Deliver
  \/ Shut
  \/ \E r \in Readers : End(r)

Spec == Init /\ [][Next]_channelVars
=============================================================================
