----------------------------- MODULE RecordApp -----------------------------
(***************************************************************************)
(* hpblr_record and hpblr_bench (apps/hpblr_record.cpp, apps/              *)
(* hpblr_bench.cpp), from the command line to the exit code.  Producer     *)
(* threads draw sequence numbers from a shared counter and submit events   *)
(* to a recorder, until enough are drawn or, in hpblr_record, a signal     *)
(* asks them to stop; main joins them and stops the recorder.  The         *)
(* recorder is the one RecorderContract promises.                          *)
(***************************************************************************)
EXTENDS RecorderContract, CommandLine, FiniteSets

CONSTANTS CommandLines,     \* program -> sequences of words, without its name
          DefaultProducers, \* the values of --producers and --events that are
          DefaultEvents,    \* not given, scaled down
          DefaultOutput,
          MaxSequence   \* bound: numbers drawn when there is no limit

VARIABLES program,       \* "record" or "bench"
          commandLine,
          stopRequested, \* g_stop_requested
          nextSequence, generated,  \* the shared counters
          pc,            \* where each producer is
          sequence,      \* the number each producer drew last
          mainPc,        \* where main is
          exitCode,      \* "none", "0", "1", or "abort" (std::terminate)
          spoiled,       \* "no", or text in the file of the log: "behind" the
                         \* recording or "over" it
          atSignal       \* history: how many events were accepted by then

options == <<program, commandLine, args, given>>
counters == <<stopRequested, nextSequence, generated, sequence, atSignal>>
appVars == <<options, counters, pc, mainPc, exitCode, spoiled>>
vars == <<contractVars, appVars>>

RecordOptions ==
  [help |-> {"--help", "-h"}, flag |-> {},
   text |-> {"--output", "--log-file"},
   u64 |-> {"--events", "--payload-size", "--sleep-us"},
   positive |-> {"--producers", "--queue-capacity", "--flush-bytes"},
   u32 |-> {}, u16 |-> {}, severity |-> {}]

BenchOptions ==
  [help |-> {"--help", "-h"}, flag |-> {"--json"},
   text |-> {"--output", "--report"},
   u64 |-> {"--payload-size"},
   positive |-> {"--producers", "--events", "--queue-capacity", "--flush-bytes"},
   u32 |-> {}, u16 |-> {}, severity |-> {}]

GrammarOf(name) == IF name = "record" THEN RecordOptions ELSE BenchOptions
Grammar == GrammarOf(program)

\* The options the models look at; the others only have to be valid.
Defaults ==
  [o \in Valued(RecordOptions) \cup Valued(BenchOptions) \cup BenchOptions.flag |->
     CASE o = "--output" -> DefaultOutput
       [] o = "--producers" -> DefaultProducers
       [] o = "--events" -> DefaultEvents
       [] o \in {"--log-file", "--report"} -> ""
       [] o = "--json" -> FALSE
       [] OTHER -> 1]

ASSUME AppAssumption ==
  /\ DefaultProducers \in Nat \ {0} /\ DefaultEvents \in Nat \ {0}
  /\ MaxSequence \in Nat /\ DefaultEvents <= MaxSequence /\ DefaultOutput # ""
  /\ IsFiniteSet(Submitters) /\ Submitters = 0 .. Cardinality(Submitters) - 1
  /\ DefaultProducers <= Cardinality(Submitters)
  /\ \A name \in {"record", "bench"} : \A line \in CommandLines[name] :
       /\ line \in Seq(STRING)
       /\ \A n \in AskedNumber(GrammarOf(name), line, "--producers") :
            n <= Cardinality(Submitters)
       /\ \A n \in AskedNumber(GrammarOf(name), line, "--events") : n <= MaxSequence
  /\ [producer : Submitters,
      sequence : 0 .. MaxSequence + Cardinality(Submitters)] \subseteq Records

limit == given["--events"]
Producers == {p \in Submitters : p < given["--producers"]}
Running == mainPc # "exited"
Goto(p, label) == pc' = [pc EXCEPT ![p] = label]
EventOf(p) == [producer |-> p, sequence |-> sequence[p]]

Init ==
  /\ ContractInit
  /\ program \in {"record", "bench"}
  /\ commandLine \in CommandLines[program]
  /\ args = commandLine /\ given = Defaults
  /\ stopRequested = FALSE
  /\ nextSequence = 0 /\ generated = 0
  /\ pc = [p \in Submitters |-> "unborn"]
  /\ sequence = [p \in Submitters |-> 0]
  /\ mainPc = "options"
  /\ exitCode = "none"
  /\ spoiled = "no"
  /\ atSignal = 0

\* SIGINT or SIGTERM, at any moment once the handler is installed.
SignalHandler ==
  /\ program = "record" /\ mainPc \notin {"options", "exited"} /\ ~stopRequested
  /\ stopRequested' = TRUE
  /\ atSignal' = Len(accepted)
  /\ UNCHANGED <<contractVars, options, nextSequence, generated, pc, sequence,
                 mainPc, exitCode, spoiled>>

-----------------------------------------------------------------------------
(* A producer thread *)

\* The head of its loop; hpblr_bench has while (true), and no counter.
LoopHead == IF program = "record" THEN "flag" ELSE "draw"
AfterSubmit == IF program = "record" THEN "count" ELSE "draw"

\* Mutated form: the loop of hpblr_bench, while (true).
TestFlagNever(p) ==
  /\ Running /\ pc[p] = "flag"
  /\ limit = 0 => nextSequence < MaxSequence
  /\ Goto(p, "draw")
  /\ UNCHANGED <<contractVars, options, counters, mainPc, exitCode, spoiled>>

\* while (g_stop_requested == 0)
TestFlag(p) ==
  /\ Running /\ pc[p] = "flag"
  /\ limit = 0 /\ ~stopRequested => nextSequence < MaxSequence
  /\ Goto(p, IF stopRequested THEN "done" ELSE "draw")
  /\ UNCHANGED <<contractVars, options, counters, mainPc, exitCode, spoiled>>

\* Mutated form: the increment is not atomic, one may be lost.
DrawTorn(p) ==
  /\ Running /\ pc[p] = "draw"
  /\ sequence' = [sequence EXCEPT ![p] = nextSequence]
  /\ nextSequence' \in {nextSequence, nextSequence + 1}
  /\ Goto(p, IF limit # 0 /\ nextSequence >= limit THEN "done" ELSE "submit")
  /\ UNCHANGED <<contractVars, options, stopRequested, generated, mainPc,
                 exitCode, spoiled, atSignal>>

\* next_sequence.fetch_add(1)
Draw(p) ==
  /\ Running /\ pc[p] = "draw"
  /\ sequence' = [sequence EXCEPT ![p] = nextSequence]
  /\ nextSequence' = nextSequence + 1
  /\ Goto(p, IF limit # 0 /\ nextSequence >= limit THEN "done" ELSE "submit")
  /\ UNCHANGED <<contractVars, options, stopRequested, generated, mainPc,
                 exitCode, spoiled, atSignal>>

\* recorder.submit(generator.next(sequence)): in, back, or refused.
Submit(p) ==
  /\ Running /\ pc[p] = "submit"
  /\ \/ Accept(p, EventOf(p)) /\ UNCHANGED pc
     \/ AnswerTrue(p) /\ Goto(p, AfterSubmit)
     \/ AnswerFalse(p) /\ Goto(p, "done")
  /\ UNCHANGED <<options, counters, mainPc, exitCode, spoiled>>

\* payload.resize throws in generator.next: std::terminate as well.
GeneratorThrows(p) ==
  /\ Running /\ pc[p] = "submit" /\ p \notin taken
  /\ given["--payload-size"] > 0
  /\ mainPc' = "exited" /\ exitCode' = "abort"
  /\ UNCHANGED <<contractVars, options, counters, pc, spoiled>>

\* It throws: nothing in the thread catches, std::terminate ends the process.
SubmitThrows(p) ==
  /\ Running /\ pc[p] = "submit"
  /\ AnswerThrew(p)
  /\ mainPc' = "exited" /\ exitCode' = "abort"
  /\ UNCHANGED <<options, counters, pc, spoiled>>

\* generated.fetch_add(1)
CountGenerated(p) ==
  /\ Running /\ pc[p] = "count"
  /\ generated' = generated + 1
  /\ Goto(p, "flag")
  /\ UNCHANGED <<contractVars, options, stopRequested, nextSequence, sequence,
                 mainPc, exitCode, spoiled, atSignal>>

Submits == \E p \in Submitters : Submit(p) \/ SubmitThrows(p)
Produce(p) == TestFlag(p) \/ Draw(p) \/ CountGenerated(p)

-----------------------------------------------------------------------------
(* main: options, log file, recorder *)

MainGoto(label) == mainPc' = label /\ UNCHANGED <<program, commandLine, counters>>
Exit(code) == exitCode' = code /\ MainGoto("exited")

ParseOption ==
  /\ mainPc = "options"
  /\ ReadOption(Grammar)
  /\ MainGoto("options")
  /\ UNCHANGED <<contractVars, pc, exitCode, spoiled>>

\* usage and std::exit(0), whatever comes behind.
AskedForHelp ==
  /\ mainPc = "options" /\ Help(Grammar)
  /\ Exit("0")
  /\ UNCHANGED <<contractVars, args, given, pc, spoiled>>

OptionsRefused ==
  /\ mainPc = "options" /\ Refused(Grammar)
  /\ Exit("1")
  /\ UNCHANGED <<contractVars, args, given, pc, spoiled>>

OptionsRead ==
  /\ mainPc = "options" /\ args = <<>>
  /\ MainGoto("open")
  /\ UNCHANGED <<contractVars, args, given, pc, exitCode, spoiled>>

\* The log file is opened, then the recorder is made.
StartRecorder ==
  /\ mainPc = "open" /\ given["--output"] # ""
  /\ MainGoto("spawn")
  /\ UNCHANGED <<contractVars, args, given, pc, exitCode, spoiled>>

\* set_file, or the constructor of the recorder, throws.
StartFails ==
  /\ mainPc = "open"
  /\ Exit("1")
  /\ UNCHANGED <<contractVars, args, given, pc, spoiled>>

-----------------------------------------------------------------------------
(* main: the producers *)

Unborn == {p \in Producers : pc[p] = "unborn"}

Spawn ==
  /\ mainPc = "spawn" /\ Unborn # {}
  /\ \E p \in Unborn : (\A q \in Unborn : p <= q) /\ Goto(p, LoopHead)
  /\ MainGoto("spawn")
  /\ UNCHANGED <<contractVars, args, given, exitCode, spoiled>>

\* reserve or emplace_back throws: no more memory or threads to be had.  Those
\* that run are joined when the vector is destroyed, on the way to the catch
\* clause.
SpawnFails ==
  /\ mainPc = "spawn" /\ Unborn # {}
  /\ MainGoto("unwind")
  /\ UNCHANGED <<contractVars, args, given, pc, exitCode, spoiled>>

\* Mutated form: the recorder is stopped while the producers run.
JoinProducersLate ==
  /\ mainPc = "spawn" /\ Unborn = {}
  /\ StopBegins
  /\ MainGoto("stop")
  /\ UNCHANGED <<args, given, pc, exitCode, spoiled>>

\* Mutated form: main waits until the number asked for has been drawn.
JoinWhenAllDrawn ==
  /\ mainPc = "spawn"
  /\ \A p \in Producers : pc[p] = "done"
  /\ limit # 0 => nextSequence >= limit
  /\ StopBegins
  /\ MainGoto("stop")
  /\ UNCHANGED <<args, given, pc, exitCode, spoiled>>

\* producers.clear() returns when all of them have ended; stop() begins.
JoinProducers ==
  /\ mainPc = "spawn"
  /\ \A p \in Producers : pc[p] = "done"
  /\ StopBegins
  /\ MainGoto("stop")
  /\ UNCHANGED <<args, given, pc, exitCode, spoiled>>

-----------------------------------------------------------------------------
(* main: the end *)

\* stop() returns, or its exception goes to the catch clause.
RecorderStopped ==
  /\ mainPc = "stop"
  /\ \/ StopOk /\ MainGoto("report") /\ UNCHANGED exitCode
     \/ StopThrew /\ MainGoto("leave") /\ exitCode' = "1"
  /\ UNCHANGED <<args, given, pc, spoiled>>

\* Mutated form: the log file is opened as the report is.
ReportTruncates ==
  /\ mainPc = "report"
  /\ exitCode' = "0"
  /\ spoiled' = IF given["--output"] \in {given["--report"], given["--log-file"]}
                THEN "over" ELSE "no"
  /\ MainGoto("leave")
  /\ UNCHANGED <<contractVars, args, given, pc>>

\* The last line goes to the end of the log file (std::ios::app), or the
\* results into the report, whose std::ofstream empties the file it opens; this
\* may be the log itself.  Nobody looks whether they got there.
Report ==
  /\ mainPc = "report"
  /\ exitCode' = "0"
  /\ spoiled' = CASE given["--report"] = given["--output"] -> "over"
                  [] given["--log-file"] = given["--output"] -> "behind"
                  [] OTHER -> "no"
  /\ MainGoto("leave")
  /\ UNCHANGED <<contractVars, args, given, pc>>

\* hpblr_bench: file_size throws, or the report cannot be opened.
ReportFails ==
  /\ mainPc = "report" /\ program = "bench"
  /\ exitCode' = "1"
  /\ MainGoto("leave")
  /\ UNCHANGED <<contractVars, args, given, pc, spoiled>>

Unwind ==
  /\ mainPc = "unwind"
  /\ \A p \in Producers : pc[p] \in {"unborn", "done"}
  /\ StopBegins
  /\ exitCode' = "1"
  /\ MainGoto("leave")
  /\ UNCHANGED <<args, given, pc, spoiled>>

\* The recorder is destroyed when main's block is left.
Leave ==
  /\ mainPc = "leave"
  /\ Destroyed
  /\ MainGoto("exited")
  /\ UNCHANGED <<args, given, pc, exitCode, spoiled>>

Main ==
  \/ ParseOption \/ AskedForHelp \/ OptionsRefused \/ OptionsRead
  \/ StartRecorder \/ StartFails
  \/ Spawn \/ SpawnFails \/ JoinProducers
  \/ RecorderStopped \/ Report \/ ReportFails \/ Unwind \/ Leave

-----------------------------------------------------------------------------

RecorderThread ==
  /\ mainPc \notin {"options", "open", "exited"}
  /\ Save \/ Fail
  /\ UNCHANGED appVars

Terminated ==
  /\ mainPc = "exited"
  /\ UNCHANGED vars

Next ==
  \/ \E p \in Submitters :
       Produce(p) \/ Submit(p) \/ SubmitThrows(p) \/ GeneratorThrows(p)
  \/ Main \/ SignalHandler \/ RecorderThread
  \/ Terminated

Spec == Init /\ [][Next]_vars

\* Every thread that can run does.  A call of submit() comes back for some
\* producer, not for each (the queue's mutex makes no such promise), and a
\* recorder that is stopping saves what it has accepted.
Fairness ==
  /\ \A p \in Submitters : WF_vars(Produce(p))
  /\ WF_vars(Submits)
  /\ WF_vars(Main)
  /\ WF_vars(stopping /\ RecorderThread)

FairSpec == Spec /\ Fairness

-----------------------------------------------------------------------------
(* Invariants *)

Numbered == [producer : Submitters, sequence : Nat]

TypeOK ==
  /\ accepted \in Seq(Numbered) /\ saved \in Seq(Numbered)
  /\ taken \subseteq {p \in Producers : pc[p] = "submit"}
  /\ failure \in {"none", "io", "format"}
  /\ generated <= nextSequence
  /\ pc \in [Submitters -> {"unborn", "flag", "draw", "submit", "count", "done"}]
  /\ \A p \in Submitters : sequence[p] <= nextSequence
  /\ mainPc \in {"options", "open", "spawn", "unwind", "stop", "report", "leave", "exited"}
  /\ exitCode \in {"none", "0", "1", "abort"}
  /\ {stopRequested, stopping, destroyed} \subseteq BOOLEAN
  /\ spoiled \in {"no", "behind", "over"}

Sequences(log) == {log[i].sequence : i \in DOMAIN log}

HelpIsAsked ==
  \E i \in DOMAIN commandLine :
    commandLine[i] \in Grammar.help /\ IsOption(Grammar, commandLine)[i]

\* The events a reader of the output file finds, up to its first exception.
Recording == IF spoiled = "over" THEN <<>> ELSE saved

\* What a recording has to be when stop() returns without an exception
\* (hpblr_record.cpp:152-177, hpblr_bench.cpp:148-170): the numbers 0 to n - 1
\* are in the file, each once, none missing in the middle whenever the signal
\* came; no event was refused; n is the count hpblr_record prints and, without a
\* signal, the limit, which is then not "none".
LogComplete ==
  /\ Sequences(Recording) = 0 .. Len(Recording) - 1
  /\ \A p \in Submitters : Range(results[p]) \subseteq {"true"}
  /\ program = "record" => generated = Len(Recording)
  /\ ~stopRequested => limit # 0 /\ Len(Recording) = limit

\* A recording that was stopped and left with exit code 0 is complete, a text
\* log behind it or not (hpblr_record.cpp:157-177, hpblr_bench.cpp:152-213),
\* unless hpblr_bench was told to write its report over it.
StoppedMeansComplete ==
  exitCode = "0" /\ stopping /\ given["--report"] # given["--output"] => LogComplete

\* Exit code 0 is a promise about the file: it is complete, and the limit is the
\* one the command line asked for.
ExitZeroMeansComplete ==
  /\ StoppedMeansComplete
  /\ exitCode = "0" /\ ~HelpIsAsked =>
       LET asked == AskedNumber(Grammar, commandLine, "--events")
       IN  stopping /\ limit \in IF asked = {} THEN {DefaultEvents} ELSE asked

\* Once the signal has come, no producer submits more than one event
\* (ROBUSTNESS.md:39, "asking producers to stop").
SignalStopsProducers ==
  stopRequested =>
    \A i, j \in atSignal + 1 .. Len(accepted) :
      accepted[i].producer = accepted[j].producer => i = j

\* One producer's events keep their order in the file.
OrderPerProducer ==
  \A i, j \in DOMAIN saved :
    i < j /\ saved[i].producer = saved[j].producer
      => saved[i].sequence < saved[j].sequence

-----------------------------------------------------------------------------
(* Liveness *)

\* A signal ends the program, also when producers run without limit, and so
\* does a limit.
ProgramEnds ==
  (stopRequested \/ (mainPc = "spawn" /\ limit # 0)) ~> (mainPc = "exited")

-----------------------------------------------------------------------------
(* What the documents say and the code does not do *)

\* TECHNICAL_DESIGN.md:67: "The CLI catches `std::exception` at the boundary
\* and exits with code `1` on failure."  Here: on a failure of the recorder.
FailureExitsWithOne == mainPc = "exited" /\ failure # "none" => exitCode = "1"
=============================================================================
