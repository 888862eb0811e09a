------------------------------ MODULE LogTool ------------------------------
(***************************************************************************)
(* hpblr_tool (apps/hpblr_tool.cpp): inspect, dump and export over a       *)
(* BinaryLogReader, from the command line to the exit code.  The log may   *)
(* be whole, cut anywhere or damaged, and may still be growing; the output *)
(* may fail.  What is printed for an event is the event.                   *)
(***************************************************************************)
EXTENDS BinaryLogReader, CommandLine, FiniteSets

CONSTANTS Log,           \* the events the recorder writes, in order
          Fields,        \* event -> [producer, type, severity]
          LogName,       \* the name of the log; no other file can be read
          CommandLines,  \* sequences of words, without the program's name
          NoOption       \* an option that was not given

\* What an output consists of besides events.
Marks == {"columns", "[", ",", "]"}

ASSUME ToolAssumption ==
  /\ Log \in Seq(Events) /\ Marks \cap Events = {}
  /\ \A e \in Events : Fields[e].severity \in Severities
  /\ LogName # "" /\ NoOption \notin Nat
  /\ CommandLines \subseteq Seq(STRING)

VARIABLES commandLine,
          toolPc,
          emitted,   \* emitted
          first,     \* first, in write_json
          output,    \* what the output file holds
          outOk,     \* the output stream has not failed
          count,     \* count and severities of inspect
          severities,
          exitCode   \* "none", "0" or "1"

options == <<commandLine, args, given>>
tally == <<count, severities>>
toolVars == <<options, toolPc, emitted, first, output, outOk, tally, exitCode>>
vars == <<file, readerVars, toolVars>>

Commands == {"inspect", "dump", "export"}
command == Head(commandLine)
limit == given["--limit"]
OnItself == given["--output"] = LogName
\* Which of the four loops runs.
Form == IF command = "export" THEN given["--format"] ELSE command

WholeLog == FileCells \o Records(Log)

\* What a recorder, a crash and one rotten cell may have left.
Damaged(f) == {[f EXCEPT ![i].intact = FALSE] : i \in DOMAIN f}

CommonOptions ==
  [help |-> {}, flag |-> {}, positive |-> {}, text |-> {"--input"},
   u64 |-> {"--from-ns", "--to-ns", "--limit"}, u32 |-> {"--producer"},
   u16 |-> {"--type"}, severity |-> {"--severity"}]

ExportOptions == [CommonOptions EXCEPT !.text = @ \cup {"--format", "--output"}]

Grammar == IF command = "export" THEN ExportOptions ELSE CommonOptions

Defaults ==
  [o \in Valued(ExportOptions) |->
     CASE o \in ExportOptions.text -> "" [] o = "--limit" -> 0 [] OTHER -> NoOption]

Init ==
  /\ file \in Prefixes(WholeLog) \cup UNION {Damaged(f) : f \in Prefixes(WholeLog)}
  /\ ReaderInit
  /\ commandLine \in CommandLines
  /\ args = commandLine /\ given = Defaults
  /\ toolPc = "main"
  /\ emitted = 0 /\ first = TRUE
  /\ output = <<>> /\ outOk = TRUE
  /\ count = 0 /\ severities = [s \in Severities |-> 0]
  /\ exitCode = "none"

-----------------------------------------------------------------------------
(* From main to the command *)

Exit(code) == toolPc' = "exited" /\ exitCode' = code

\* No command, help, or an unknown command.
MainOnly ==
  /\ toolPc = "main"
  /\ \/ commandLine = <<>> /\ Exit("1")
     \/ commandLine # <<>> /\ command \in {"--help", "-h"} /\ Exit("0")
     \/ commandLine # <<>> /\ command \notin {"--help", "-h"} \cup Commands /\ Exit("1")
  /\ UNCHANGED <<file, readerVars, options, emitted, first, output, outOk, tally>>

Dispatch ==
  /\ toolPc = "main"
  /\ commandLine # <<>> /\ command \in Commands
  /\ args' = Tail(args)
  /\ toolPc' = "options"
  /\ UNCHANGED <<file, readerVars, commandLine, given, emitted, first, output,
                 outOk, tally, exitCode>>

ParseOption ==
  /\ toolPc = "options"
  /\ ReadOption(Grammar)
  /\ UNCHANGED <<file, readerVars, commandLine, toolPc, emitted, first, output,
                 outOk, tally, exitCode>>

\* --input is required, and export wants a format.
Sufficient ==
  /\ given["--input"] # ""
  /\ command = "export" => given["--format"] \in {"csv", "json"}

OptionsRefused ==
  /\ toolPc = "options"
  /\ Refused(Grammar) \/ (args = <<>> /\ ~Sufficient)
  /\ Exit("1")
  /\ UNCHANGED <<file, readerVars, options, emitted, first, output, outOk, tally>>

OptionsRead ==
  /\ toolPc = "options"
  /\ args = <<>> /\ Sufficient
  /\ toolPc' = IF given["--output"] = "" THEN "open" ELSE "output"
  /\ UNCHANGED <<file, readerVars, options, emitted, first, output, outOk, tally,
                 exitCode>>

-----------------------------------------------------------------------------

\* Mutated form: the upper bound is exclusive.
MatchesBefore(e) ==
  /\ given["--producer"] \in {NoOption, Fields[e].producer}
  /\ given["--type"] \in {NoOption, Fields[e].type}
  /\ given["--severity"] \in {NoOption, Fields[e].severity}
  /\ given["--from-ns"] # NoOption => Timestamp[e] >= given["--from-ns"]
  /\ given["--to-ns"] # NoOption => Timestamp[e] < given["--to-ns"]

\* EventFilter::matches
Matches(e) ==
  /\ given["--producer"] \in {NoOption, Fields[e].producer}
  /\ given["--type"] \in {NoOption, Fields[e].type}
  /\ given["--severity"] \in {NoOption, Fields[e].severity}
  /\ given["--from-ns"] # NoOption => Timestamp[e] >= given["--from-ns"]
  /\ given["--to-ns"] # NoOption => Timestamp[e] <= given["--to-ns"]

\* out << items: nothing gets out once the stream has failed.
Put(items) == output' = IF outOk THEN output \o items ELSE output

\* Nobody looks at the state of the output: it is never an exception.
OutputFails ==
  /\ toolPc \in {"open", "next", "answer", "leave"} /\ outOk
  /\ outOk' = FALSE
  /\ \E n \in 0 .. Len(output) : output' = SubSeq(output, 1, n)
  /\ UNCHANGED <<file, readerVars, options, toolPc, emitted, first, tally, exitCode>>

-----------------------------------------------------------------------------

\* export: the output is opened, and emptied, before the log is.
OpenOutput ==
  /\ toolPc = "output"
  /\ toolPc' = "open"
  /\ file' = IF OnItself THEN <<>> ELSE file
  /\ UNCHANGED <<readerVars, options, emitted, first, output, outOk, tally, exitCode>>

OpenOutputFails ==
  /\ toolPc = "output"
  /\ Exit("1")
  /\ UNCHANGED <<file, readerVars, options, emitted, first, output, outOk, tally>>

\* The reader is made, then the head of the document is written.
OpenLog ==
  /\ toolPc = "open" /\ given["--input"] = LogName
  /\ Open
  /\ Put(CASE Form = "csv" -> <<"columns">>
           [] Form = "json" -> <<"[">>
           [] OTHER -> <<>>)
  /\ toolPc' = "next"
  /\ UNCHANGED <<file, options, emitted, first, outOk, tally, exitCode>>

\* The file is not there, or is no log.
OpenLogFails ==
  /\ toolPc = "open"
  /\ \/ given["--input"] = LogName /\ OpenRejected
     \/ given["--input"] # LogName /\ UNCHANGED readerVars
  /\ Exit("1")
  /\ UNCHANGED <<file, options, emitted, first, output, outOk, tally>>

\* reader.next()
CallNext ==
  /\ toolPc = "next"
  /\ NextRecord
  /\ toolPc' = IF readerPc' = "idle" THEN "answer" ELSE "next"
  /\ UNCHANGED <<file, options, emitted, first, output, outOk, tally, exitCode>>

\* The loop ends; write_json closes the array.
Leave ==
  /\ Put(IF Form = "json" THEN <<"]">> ELSE <<>>)
  /\ toolPc' = "leave"

AtEnd ==
  /\ toolPc = "answer" /\ Last(answers) = "end"
  /\ Leave
  /\ UNCHANGED <<file, readerVars, options, emitted, first, outOk, tally, exitCode>>

\* Mutated form: a bad record ends the loop.
OnErrorLeave ==
  /\ toolPc = "answer" /\ Last(answers) \in {"format", "crc"}
  /\ Leave
  /\ UNCHANGED <<file, readerVars, options, emitted, first, outOk, tally, exitCode>>

\* An exception goes to the catch clause of main.
OnError ==
  /\ toolPc = "answer" /\ Last(answers) \in {"format", "crc"}
  /\ Exit("1")
  /\ UNCHANGED <<file, readerVars, options, emitted, first, output, outOk, tally>>

\* Mutated form: only the events that match the filter are counted.
CountMatching ==
  /\ toolPc = "answer" /\ Last(answers) \in Events /\ command = "inspect"
  /\ LET e == Last(answers) IN
     /\ count' = count + 1
     /\ severities' = IF Matches(e)
                      THEN [severities EXCEPT ![Fields[e].severity] = @ + 1]
                      ELSE severities
  /\ toolPc' = "next"
  /\ UNCHANGED <<file, readerVars, options, emitted, first, output, outOk, exitCode>>

\* inspect counts every event, whatever filter was given.
Count ==
  /\ toolPc = "answer" /\ Last(answers) \in Events /\ command = "inspect"
  /\ count' = count + 1
  /\ severities' = [severities EXCEPT ![Fields[Last(answers)].severity] = @ + 1]
  /\ toolPc' = "next"
  /\ UNCHANGED <<file, readerVars, options, emitted, first, output, outOk, exitCode>>

Skip ==
  /\ toolPc = "answer" /\ Last(answers) \in Events /\ command # "inspect"
  /\ ~Matches(Last(answers))
  /\ toolPc' = "next"
  /\ UNCHANGED <<file, readerVars, options, emitted, first, output, outOk, tally, exitCode>>

\* Mutated form: the comma comes before the first object too.
CommaAlways == IF Form = "json" THEN <<",">> ELSE <<>>

Comma == IF Form = "json" /\ ~first THEN <<",">> ELSE <<>>

\* The event is printed; the loop ends if it was the last one wanted.
EmitAnd(last) ==
  /\ toolPc = "answer" /\ Last(answers) \in Events /\ command # "inspect"
  /\ Matches(Last(answers))
  /\ emitted' = emitted + 1 /\ first' = FALSE
  /\ Put(Comma \o <<Last(answers)>>
           \o IF last /\ Form = "json" THEN <<"]">> ELSE <<>>)
  /\ toolPc' = IF last THEN "leave" ELSE "next"
  /\ UNCHANGED <<file, readerVars, options, outOk, tally, exitCode>>

\* Mutated form: one event too many.
EmitOneMore == EmitAnd(limit # 0 /\ emitted + 1 > limit)

Emit == EmitAnd(limit # 0 /\ emitted + 1 >= limit)

\* main returns 0; the output stream has been destroyed.
Return ==
  /\ toolPc = "leave"
  /\ Exit("0")
  /\ UNCHANGED <<file, readerVars, options, emitted, first, output, outOk, tally>>

-----------------------------------------------------------------------------

\* The recorder is still at work: the log grows.
Grow ==
  /\ toolPc # "exited" /\ ~OnItself /\ file \in Prefixes(WholeLog)
  /\ \E n \in Len(file) + 1 .. Len(WholeLog) : file' = SubSeq(WholeLog, 1, n)
  /\ UNCHANGED <<readerVars, toolVars>>

Terminated ==
  /\ toolPc = "exited"
  /\ UNCHANGED vars

Next ==
  \/ MainOnly \/ Dispatch \/ ParseOption \/ OptionsRefused \/ OptionsRead
  \/ OpenOutput \/ OpenOutputFails \/ OpenLog \/ OpenLogFails
  \/ CallNext \/ AtEnd \/ OnError \/ Count \/ Skip \/ Emit \/ Return
  \/ OutputFails \/ Grow \/ Terminated

Spec == Init /\ [][Next]_vars

-----------------------------------------------------------------------------
(* Invariants *)

\* The values an option may have, with what it has when it is not given: numbers
\* keep the width of their type.
ValueType(option) ==
  CASE option \in ExportOptions.text -> STRING \cup {""}
    [] option = "--limit" -> Nat
    [] option = "--severity" -> Severities \cup {NoOption}
    [] option = "--producer" -> 0 .. MaxU32 \cup {NoOption}
    [] option = "--type" -> 0 .. MaxU16 \cup {NoOption}
    [] OTHER -> Nat \cup {NoOption}

TypeOK ==
  /\ file \in Seq([of : Events \cup {"file"}, part : Nat \ {0}, intact : BOOLEAN])
  /\ readerPc \in {"unopened", "idle", "payload", "rejected"}
  /\ position \in 0 .. Len(file)
  /\ inState \in {"good", "eof", "bad"} /\ ioErrors \in BOOLEAN
  /\ header \in Events \cup {NoEvent} /\ (readerPc = "payload" => header \in Events)
  /\ info \in [first : Nat, last : Nat]
  /\ answers \in Seq(Events \cup {"end", "format", "crc"})
  /\ commandLine \in Seq(STRING) /\ args \in Seq(STRING)
  /\ DOMAIN given = Valued(ExportOptions)
  /\ \A o \in DOMAIN given : given[o] \in ValueType(o)
  /\ toolPc \in {"main", "options", "output", "open", "next", "answer", "leave", "exited"}
  /\ emitted \in Nat /\ (limit # 0 => emitted <= limit)
  /\ first = (emitted = 0)
  /\ output \in Seq(Events \cup Marks) /\ outOk \in BOOLEAN
  /\ count \in Nat /\ severities \in [Severities -> Nat]
  /\ exitCode \in {"none", "0", "1"}

Printed == Only(output, Events)

\* What the usage text promises: the options on the line must all hold, the
\* bounds are inclusive (hpblr_tool.cpp:62-67); the last use of one counts.
Line == Tail(commandLine)
Wanted(e) ==
  /\ \A n \in AskedNumber(Grammar, Line, "--producer") : Fields[e].producer = n
  /\ \A n \in AskedNumber(Grammar, Line, "--type") : Fields[e].type = n
  /\ \A word \in Asked(Grammar, Line, "--severity") :
       Fields[e].severity \in SeverityFromString(word)
  /\ \A n \in AskedNumber(Grammar, Line, "--from-ns") : Timestamp[e] >= n
  /\ \A n \in AskedNumber(Grammar, Line, "--to-ns") : Timestamp[e] <= n

MostWanted == AskedNumber(Grammar, Line, "--limit") \ {0}

\* Exit code 0 from dump or export: the output is what the options ask for of
\* the events read, at most as many as the limit, and these are the first of
\* the log, in order, however the log was cut, damaged or growing.  An output
\* that failed unnoticed lacks the end of that and nothing else.
ExitZeroMeansSelected ==
  exitCode = "0" /\ command \in {"dump", "export"} =>
    LET wanted == Only(Returned(answers), {e \in Events : Wanted(e)})
        enough == {n \in MostWanted : n <= Len(wanted)}
        selected == IF enough = {} THEN wanted ELSE SubSeq(wanted, 1, CHOOSE n \in enough : TRUE)
    IN
    /\ Asked(Grammar, Line, "--input") = {LogName}
    /\ enough = {} => Last(answers) = "end"
    /\ IF outOk THEN Printed = selected ELSE IsPrefix(Printed, selected)
    /\ IsPrefix(Returned(answers), Log)

\* Exit code 0 is no answer to a damaged or cut log, unless the limit was
\* reached before the damage: all that was read are whole records.
DamageIsReported ==
  exitCode = "0" /\ command \in Commands =>
    SubSeq(file, 1, position) = FileCells \o Records(Returned(answers))

\* A JSON export with exit code 0 is a JSON array.
JsonIsAnArray ==
  exitCode = "0" /\ command = "export" /\ Form = "json" /\ outOk =>
    /\ Len(output) = (IF Printed = <<>> THEN 2 ELSE 2 * Len(Printed) + 1)
    /\ output[1] = "[" /\ Last(output) = "]"
    /\ \A i \in 2 .. Len(output) - 1 : output[i] = "," <=> i % 2 = 1

\* What inspect prints is about the same events throughout.
InspectAddsUp ==
  exitCode = "0" /\ command = "inspect" =>
    LET r == Returned(answers) IN
    /\ count = Len(r)
    /\ \A s \in Severities :
         severities[s] = Cardinality({i \in DOMAIN r : Fields[r[i]].severity = s})
=============================================================================
