---------------------------- MODULE MCRecordApp ----------------------------
(* Finite instances of RecordApp for TLC. *)
EXTENDS RecordApp

TwoProducers == 0 .. 1
AllRecords == [producer : TwoProducers, sequence : Nat]

Numbers == [w \in {"0", "1", "2", "3"} |->
              CASE w = "0" -> 0 [] w = "1" -> 1 [] w = "2" -> 2 [] w = "3" -> 3]

\* Each option with words that are good and bad, missing values, an option given
\* twice, help at each kind of place.
BadLines ==
  {<<"--what">>, <<"--output">>, <<"--producers", "0">>, <<"--events", "x">>,
   <<"--events", "2", "--queue-capacity", "0">>, <<"--flush-bytes", "0">>,
   <<"--help", "--what">>, <<"--events", "--help">>, <<"--output", "">>}
Lines ==
  [record |-> BadLines \cup
     {<<>>, <<"--events", "0">>, <<"--events", "2", "--events", "3">>,
      <<"--events", "2", "--sleep-us", "1", "--json">>,
      <<"--output", "--help", "--log-file", "text", "--producers", "1", "--payload-size", "0">>,
      <<"--output", "log", "--log-file", "log", "--producers", "1">>},
   bench |-> BadLines \cup
     {<<>>, <<"-h">>, <<"--events", "0">>, <<"--json", "--events", "3">>,
      <<"--output", "log", "--report", "log", "--producers", "1">>,
      <<"--json", "--report", "text", "--log-file", "text">>}]
=============================================================================
