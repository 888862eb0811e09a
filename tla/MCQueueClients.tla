--------------------------- MODULE MCQueueClients ---------------------------
(* Finite instance of QueueClients for TLC. *)
EXTENDS QueueClients, TLC

\* Threads of one kind run the same code: sound for the safety runs only.
Symmetry == Permutations(Producers) \cup Permutations(Consumers)
            \cup Permutations(Closers)
=============================================================================
