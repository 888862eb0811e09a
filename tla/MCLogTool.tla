----------------------------- MODULE MCLogTool -----------------------------
(* Finite instances of LogTool for TLC. *)
EXTENDS LogTool

AllEvents == {"a", "b", "c"}
\* The payload of "c" is the magic of a record.
Contents == [a |-> <<Cell("a", 3)>>, b |-> <<>>, c |-> <<Cell("b", 1)>>]
Times == [a |-> 5, b |-> 7, c |-> 9]
Layout == [e \in AllEvents |-> RecordHeader(e) \o Contents[e]]
HeaderLayout == FileCells
Recorded == <<"a", "b", "c">>
Attributes == [a |-> [producer |-> 0, type |-> 100, severity |-> 2],
               b |-> [producer |-> 1, type |-> 100, severity |-> 4],
               c |-> [producer |-> 0, type |-> 101, severity |-> 4]]

\* 356 does not fit the type of 8 bits, 1024 not the producer of 10 bits.
Words == {<<"0", 0>>, <<"1", 1>>, <<"2", 2>>, <<"4", 4>>, <<"6", 6>>, <<"7", 7>>,
          <<"100", 100>>, <<"356", 356>>, <<"1024", 1024>>}
Numbers == [w \in {p[1] : p \in Words} |-> (CHOOSE p \in Words : p[1] = w)[2]]

\* What may stand behind the log's name: nothing, each option alone with words
\* that are good, too large or no value of it, an option given twice, an option
\* in place of a value, a missing value, an unknown option, all of them at once.
Alone ==
  {<<o, w>> : o \in {"--producer", "--type"}, w \in {"0", "100", "356", "1024", "x"}}
    \cup {<<"--severity", w>> : w \in {"error", "warn", "4", "6", "x"}}
    \cup {<<o, w>> : o \in {"--from-ns", "--to-ns"}, w \in {"7", "x"}}
    \cup {<<"--limit", w>> : w \in {"0", "1", "2", "x"}}
Tails ==
  {<<>>, <<"--limit">>, <<"--what">>, <<"--limit", "1", "--limit", "2">>,
   <<"--input", "other">>, <<"--input", "">>, <<"--severity", "--limit", "1">>,
   <<"--producer", "1", "--type", "100", "--severity", "error",
     "--from-ns", "7", "--to-ns", "7", "--limit", "1">>} \cup Alone
Exports ==
  {<<"--format", f>> : f \in {"csv", "json"}}
    \cup {<<"--format", f, "--output", o>> : f \in {"csv", "json"}, o \in {"log", "out"}}
Lines ==
  {<<>>, <<"-h">>, <<"--help", "x">>, <<"erase">>, <<"dump">>,
   <<"dump", "--format", "csv">>, <<"export", "--input", "log">>,
   <<"export", "--input", "log", "--format", "xml">>}
    \cup {<<"inspect", "--input", "log">> \o t : t \in {<<>>, <<"--limit", "1">>, <<"--type", "100">>}}
    \cup {<<"dump", "--input", "log">> \o t : t \in Tails}
    \cup {<<"export">> \o x \o <<"--input", "log">> \o t :
             x \in Exports, t \in {<<>>, <<"--limit", "1">>, <<"--to-ns", "7">>}}
=============================================================================
