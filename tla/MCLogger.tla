------------------------------ MODULE MCLogger ------------------------------
(* Finite instance of Logger for TLC. *)
EXTENDS Logger

SomeThreads == {"t1", "t2", "t3"}
SomeLevels == {1, 2}
=============================================================================
