-------------------------- MODULE MCAsyncRecorder --------------------------
(* Finite instances of AsyncRecorder for TLC. *)
EXTENDS AsyncRecorder

\* Two producers of two events each.
TwoProducers == {"p1", "p2"}
FourEvents == {"a1", "a2", "b1", "b2"}
TwoEach == [p1 |-> <<"a1", "a2">>, p2 |-> <<"b1", "b2">>]
TwoAndOne == [p1 |-> <<"a1", "a2">>, p2 |-> <<"b1">>]

OneUnitEach == [e \in FourEvents |-> <<e>>]
OneHeader == <<"header">>

\* The second event of p1 has a payload of more than kMaxPayloadBytes.
TooLarge == {"a2"}
=============================================================================
