-------------------------- MODULE RecordAppProofs --------------------------
(***************************************************************************)
(* Proofs about RecordApp, for both programs, every number of producers    *)
(* and all command lines.                                                  *)
(***************************************************************************)
EXTENDS RecordApp, SequenceFacts, FiniteSetTheorems

\* What the proofs use of AppAssumption.
LEMMA Parameters ==
  /\ DefaultProducers \in Nat \ {0} /\ DefaultEvents \in Nat \ {0}
  /\ IsFiniteSet(Submitters) /\ Submitters = 0 .. Cardinality(Submitters) - 1
  /\ DefaultProducers <= Cardinality(Submitters)
BY AppAssumption, Zenon

LEMMA SubmittersFinite ==
  /\ IsFiniteSet(Submitters) /\ Cardinality(Submitters) \in Nat
  /\ Submitters \subseteq Nat /\ 0 \in Submitters
<1>1. IsFiniteSet(Submitters) /\ Submitters = 0 .. Cardinality(Submitters) - 1
  BY Parameters
<1>2. Cardinality(Submitters) \in Nat
  BY <1>1, FS_CardinalityType
<1>3. 1 <= Cardinality(Submitters)
  BY <1>2, Parameters
<1> QED
  BY <1>1, <1>2, <1>3

-----------------------------------------------------------------------------
(* Types *)

\* The two options the models look at are numbers, one of them not zero.
OptionsTyped ==
  /\ {"--events", "--producers"} \subseteq DOMAIN given
  /\ given["--events"] \in Nat /\ given["--producers"] \in Nat \ {0}

Labels == {"unborn", "flag", "draw", "submit", "count", "done"}
MainLabels ==
  {"options", "open", "spawn", "unwind", "stop", "report", "leave", "exited"}
Answers == {"true", "false", "threw"}

Typed ==
  /\ accepted \in Seq(Numbered) /\ saved \in Seq(Numbered)
  /\ results \in [Submitters -> Seq(Answers)]
  /\ stopResults \in Seq({"ok", "threw"})
  /\ taken \subseteq Submitters
  /\ failure \in {"none", "io", "format"}
  /\ pc \in [Submitters -> Labels] /\ sequence \in [Submitters -> Nat]
  /\ mainPc \in MainLabels /\ exitCode \in {"none", "0", "1", "abort"}
  /\ {stopRequested, stopping, destroyed} \subseteq BOOLEAN
  /\ spoiled \in {"no", "behind", "over"}
  /\ nextSequence \in Nat /\ generated \in Nat /\ atSignal \in Nat
  /\ program \in {"record", "bench"}
  /\ OptionsTyped

LEMMA EventTyped ==
  ASSUME Typed, NEW p \in Submitters
  PROVE  EventOf(p) \in Numbered
BY DEF Typed, EventOf, Numbered

LEMMA NumbersAreNatural == \A word : Number(word) \subseteq Nat
BY NumberAssumption DEF Number

LEMMA ValuesTyped ==
  /\ \A word : Values(Grammar, "--events", word) \subseteq Nat
  /\ \A word : Values(Grammar, "--producers", word) \subseteq Nat \ {0}
<1>1. \A word : Values(RecordOptions, "--events", word) \subseteq Nat
  BY NumbersAreNatural DEF Values, RecordOptions
<1>2. \A word : Values(BenchOptions, "--events", word) \subseteq Nat
  BY NumbersAreNatural DEF Values, BenchOptions
<1>3. \A word : Values(RecordOptions, "--producers", word) \subseteq Nat \ {0}
  BY NumbersAreNatural DEF Values, RecordOptions
<1>4. \A word : Values(BenchOptions, "--producers", word) \subseteq Nat \ {0}
  BY NumbersAreNatural DEF Values, BenchOptions
<1>5. Grammar \in {RecordOptions, BenchOptions}
  BY DEF Grammar, GrammarOf
<1> HIDE DEF RecordOptions, BenchOptions
<1> QED
  BY <1>1, <1>2, <1>3, <1>4, <1>5

LEMMA OptionsInit == given = Defaults => OptionsTyped
<1> SUFFICES ASSUME given = Defaults PROVE OptionsTyped
  OBVIOUS
<1> DEFINE D == Valued(RecordOptions) \cup Valued(BenchOptions) \cup BenchOptions.flag
<1>1. {"--events", "--producers"} \subseteq D
  BY DEF Valued, RecordOptions, BenchOptions
<1>2. DefaultEvents \in Nat /\ DefaultProducers \in Nat \ {0}
  BY Parameters
<1> HIDE DEF D
<1>3. DOMAIN Defaults = D
  BY DEF Defaults, D
<1>4. Defaults["--events"] = DefaultEvents /\ Defaults["--producers"] = DefaultProducers
  BY <1>1 DEF Defaults, D
<1> QED
  BY <1>1, <1>2, <1>3, <1>4 DEF OptionsTyped

LEMMA OptionsStep ==
  ASSUME OptionsTyped, ReadOption(Grammar)
  PROVE  OptionsTyped'
<1>1. CASE ReadValue(Grammar)
  <2>1. PICK option, word : \E value \in Values(Grammar, option, word) :
                              given' = [given EXCEPT ![option] = value]
    BY <1>1 DEF ReadValue
  <2>2. PICK value \in Values(Grammar, option, word) :
               given' = [given EXCEPT ![option] = value]
    BY <2>1
  <2>3. /\ option = "--events" => value \in Nat
        /\ option = "--producers" => value \in Nat \ {0}
    BY <2>2, ValuesTyped
  <2> QED
    BY <2>2, <2>3 DEF OptionsTyped
<1>2. CASE ReadFlag(Grammar)
  <2>1. args[1] \in Grammar.flag /\ given' = [given EXCEPT ![args[1]] = TRUE]
    BY <1>2 DEF ReadFlag
  <2>2. args[1] \notin {"--events", "--producers"}
    BY <2>1 DEF Grammar, GrammarOf, RecordOptions, BenchOptions
  <2> QED
    BY <2>1, <2>2 DEF OptionsTyped
<1> QED
  BY <1>1, <1>2 DEF ReadOption

LEMMA TypedInit == Init => Typed
<1> SUFFICES ASSUME Init PROVE Typed
  OBVIOUS
<1>1. OptionsTyped
  BY OptionsInit DEF Init
<1>2. /\ accepted \in Seq(Numbered) /\ saved \in Seq(Numbered)
      /\ results \in [Submitters -> Seq(Answers)]
      /\ stopResults \in Seq({"ok", "threw"})
  BY DEF Init, ContractInit
<1>3. pc \in [Submitters -> Labels] /\ sequence \in [Submitters -> Nat]
  BY DEF Init, Labels
<1> QED
  BY <1>1, <1>2, <1>3 DEF Init, ContractInit, Typed, MainLabels

\* A beginning of the accepted events is a sequence of events.
LEMMA BeginningTyped ==
  ASSUME Typed, NEW n \in Nat, n <= Len(accepted)
  PROVE  SubSeq(accepted, 1, n) \in Seq(Numbered)
<1>1. accepted \in Seq(Numbered) /\ n \in 0 .. Len(accepted)
  BY LenProperties DEF Typed
<1> QED
  BY <1>1, CutInTwo

LEMMA AnswerTyped ==
  ASSUME Typed, NEW p \in Submitters, NEW answer \in Answers,
         AnswerWith(p, answer)
  PROVE  results' \in [Submitters -> Seq(Answers)]
<1>1. results[p] \in Seq(Answers)
  BY DEF Typed
<1>2. Append(results[p], answer) \in Seq(Answers)
  BY <1>1, AppendProperties
<1> QED
  BY <1>2 DEF AnswerWith, Typed

LEMMA TypedProducer ==
  ASSUME Typed, NEW p \in Submitters,
         Produce(p) \/ Submit(p) \/ SubmitThrows(p) \/ GeneratorThrows(p)
  PROVE  Typed'
<1> USE DEF contractVars, options, counters, Goto, Labels, MainLabels
<1>1. CASE TestFlag(p)
  BY <1>1 DEF TestFlag, Typed, OptionsTyped
<1>2. CASE Draw(p)
  BY <1>2 DEF Draw, Typed, OptionsTyped
<1>3. CASE CountGenerated(p)
  BY <1>3 DEF CountGenerated, Typed, OptionsTyped
<1>4. CASE Submit(p)
  <2>1. CASE Accept(p, EventOf(p)) /\ UNCHANGED pc
    <3>1. accepted' \in Seq(Numbered)
      BY <2>1, EventTyped, AppendProperties DEF Accept, Typed
    <3> QED
      BY <1>4, <2>1, <3>1 DEF Submit, Accept, Typed, OptionsTyped
  <2>2. CASE AnswerTrue(p) /\ Goto(p, AfterSubmit)
    <3>1. results' \in [Submitters -> Seq(Answers)]
      BY <2>2, AnswerTyped DEF AnswerTrue, Answers
    <3> QED
      BY <1>4, <2>2, <3>1 DEF Submit, AnswerTrue, AnswerWith, AfterSubmit, Typed,
                              OptionsTyped
  <2>3. CASE AnswerFalse(p) /\ Goto(p, "done")
    <3>1. results' \in [Submitters -> Seq(Answers)]
      BY <2>3, AnswerTyped DEF AnswerFalse, Answers
    <3> QED
      BY <1>4, <2>3, <3>1 DEF Submit, AnswerFalse, AnswerWith, Typed, OptionsTyped
  <2> QED
    BY <1>4, <2>1, <2>2, <2>3 DEF Submit
<1>5. CASE SubmitThrows(p)
  <2>1. results' \in [Submitters -> Seq(Answers)]
    BY <1>5, AnswerTyped DEF SubmitThrows, AnswerThrew, Answers
  <2> QED
    BY <1>5, <2>1 DEF SubmitThrows, AnswerThrew, AnswerWith, Typed, OptionsTyped
<1>6. CASE GeneratorThrows(p)
  BY <1>6 DEF GeneratorThrows, counters, Typed, OptionsTyped
<1> QED
  BY <1>1, <1>2, <1>3, <1>4, <1>5, <1>6 DEF Produce

LEMMA TypedMain == ASSUME Typed, Main PROVE Typed'
<1> USE DEF contractVars, counters, Exit, MainGoto, Labels, MainLabels
<1>1. CASE ParseOption
  <2>1. OptionsTyped'
    BY <1>1, OptionsStep DEF ParseOption, Typed
  <2> QED
    BY <1>1, <2>1 DEF ParseOption, Typed
<1>2. CASE AskedForHelp \/ OptionsRefused \/ OptionsRead \/ StartRecorder \/ StartFails
  BY <1>2 DEF AskedForHelp, OptionsRefused, OptionsRead, StartRecorder, StartFails,
              Typed, OptionsTyped
<1>3. CASE Spawn
  BY <1>3 DEF Spawn, Unborn, Producers, Goto, LoopHead, Typed, OptionsTyped
<1>4. CASE SpawnFails \/ JoinProducers \/ Unwind
  BY <1>4 DEF SpawnFails, JoinProducers, Unwind, StopBegins, Typed, OptionsTyped
<1>5. CASE RecorderStopped
  <2>1. Append(stopResults, "ok") \in Seq({"ok", "threw"})
    BY AppendProperties DEF Typed
  <2>2. Append(stopResults, "threw") \in Seq({"ok", "threw"})
    BY AppendProperties DEF Typed
  <2> QED
    BY <1>5, <2>1, <2>2 DEF RecorderStopped, StopOk, StopThrew, Typed, OptionsTyped
<1>6. CASE Report
  <2>1. spoiled' \in {"no", "behind", "over"}
    BY <1>6, Zenon DEF Report
  <2>2. /\ exitCode' = "0" /\ mainPc' = "leave"
        /\ UNCHANGED <<contractVars, args, given, pc, program, commandLine, counters>>
    BY <1>6 DEF Report
  <2> QED
    BY <2>1, <2>2 DEF Typed, OptionsTyped
<1>8. CASE ReportFails
  BY <1>8 DEF ReportFails, Typed, OptionsTyped
<1>7. CASE Leave
  <2>1. PICK n \in Len(saved) .. Len(accepted) : saved' = SubSeq(accepted, 1, n)
    BY <1>7 DEF Leave, Destroyed
  <2>2. Len(saved) \in Nat
    BY LenProperties DEF Typed
  <2>3. saved' \in Seq(Numbered)
    BY <2>1, <2>2, BeginningTyped
  <2> QED
    BY <1>7, <2>3 DEF Leave, Destroyed, Typed, OptionsTyped
<1> QED
  BY <1>1, <1>2, <1>3, <1>4, <1>5, <1>6, <1>7, <1>8 DEF Main

LEMMA TypedStep == Typed /\ [Next]_vars => Typed'
<1> SUFFICES ASSUME Typed, [Next]_vars PROVE Typed'
  OBVIOUS
<1> USE DEF contractVars, appVars, options, counters
<1>1. CASE UNCHANGED vars \/ Terminated
  BY <1>1 DEF Terminated, vars, Typed, OptionsTyped
<1>2. CASE SignalHandler
  <2>1. Len(accepted) \in Nat
    BY LenProperties DEF Typed
  <2> QED
    BY <1>2, <2>1 DEF SignalHandler, Typed, OptionsTyped
<1>3. CASE RecorderThread
  <2>1. CASE Save
    <3>1. PICK n \in Len(saved) + 1 .. Len(accepted) : saved' = SubSeq(accepted, 1, n)
      BY <2>1 DEF Save
    <3>2. Len(saved) \in Nat
      BY LenProperties DEF Typed
    <3>3. saved' \in Seq(Numbered)
      BY <3>1, <3>2, BeginningTyped
    <3> QED
      BY <1>3, <2>1, <3>3 DEF RecorderThread, Save, Typed, OptionsTyped
  <2>2. CASE Fail
    BY <1>3, <2>2 DEF RecorderThread, Fail, Typed, OptionsTyped
  <2> QED
    BY <1>3, <2>1, <2>2 DEF RecorderThread
<1> QED
  BY <1>1, <1>2, <1>3, TypedProducer, TypedMain DEF Next

-----------------------------------------------------------------------------
(* Where everybody is *)

ProducersDone == \A p \in Producers : pc[p] = "done"
Before == mainPc \in {"options", "open"}

\* Nothing happens before the recorder is there, and it is stopped when all
\* producers that were born have ended; exit code 0 needs a normal end.
Phase ==
  /\ Before => /\ nextSequence = 0 /\ generated = 0 /\ accepted = <<>> /\ taken = {}
               /\ \A p \in Submitters : pc[p] = "unborn"
  /\ \A p \in taken : pc[p] = "submit"
  /\ \A p \in Submitters : pc[p] # "unborn" => p \in Producers
  /\ stopRequested => program = "record"
  /\ stopping => /\ mainPc \in {"stop", "report", "leave", "exited"}
                 /\ \A p \in Submitters : pc[p] \in {"unborn", "done"}
  /\ mainPc \in {"stop", "report", "leave"} => stopping
  /\ mainPc \in {"stop", "report"} \/ Complete => stopping /\ ProducersDone
  /\ mainPc = "report" => Complete
  /\ exitCode = "0" => Complete \/ (mainPc = "exited" /\ ~stopping)

\* A step that touches neither the producers nor their events.
Quiet ==
  /\ UNCHANGED <<accepted, taken, results, pc, sequence, nextSequence, generated,
                 stopRequested, atSignal, program, given>>
  /\ failure' = failure \/ (failure = "none" /\ failure' # "none")

\* The steps that do.
Loud ==
  \/ \E p \in Submitters :
       \/ TestFlag(p) \/ Draw(p) \/ CountGenerated(p) \/ SubmitThrows(p)
       \/ /\ Running /\ pc[p] = "submit"
          /\ \/ Accept(p, EventOf(p)) /\ UNCHANGED pc
             \/ AnswerTrue(p) /\ Goto(p, AfterSubmit)
             \/ AnswerFalse(p) /\ Goto(p, "done")
          /\ UNCHANGED <<options, counters, mainPc, exitCode, spoiled>>
  \/ ParseOption \/ SignalHandler \/ Spawn

LEMMA QuietMain ==
  ASSUME Main
  PROVE  Quiet \/ ParseOption \/ Spawn
<1> USE DEF contractVars, counters, Exit, MainGoto, Quiet
<1>1. CASE AskedForHelp \/ OptionsRefused \/ OptionsRead \/ StartRecorder \/ StartFails
  BY <1>1 DEF AskedForHelp, OptionsRefused, OptionsRead, StartRecorder, StartFails
<1>2. CASE SpawnFails \/ JoinProducers \/ Unwind
  BY <1>2 DEF SpawnFails, JoinProducers, Unwind, StopBegins
<1>3. CASE RecorderStopped
  BY <1>3 DEF RecorderStopped, StopOk, StopThrew
<1>4. CASE Report \/ ReportFails
  BY <1>4 DEF Report, ReportFails
<1>5. CASE Leave
  BY <1>5 DEF Leave, Destroyed
<1> QED
  BY <1>1, <1>2, <1>3, <1>4, <1>5 DEF Main

LEMMA Steps ==
  ASSUME [Next]_vars
  PROVE  Quiet \/ Loud
<1>1. CASE UNCHANGED vars \/ Terminated
  BY <1>1 DEF vars, Terminated, contractVars, appVars, options, counters, Quiet
<1>2. CASE RecorderThread
  BY <1>2 DEF RecorderThread, Save, Fail, appVars, options, counters, Quiet
<1>3. CASE Main
  BY <1>3, QuietMain DEF Loud
<1>4. CASE \E p \in Submitters : Produce(p) \/ Submit(p) \/ SubmitThrows(p)
  BY <1>4 DEF Produce, Submit, Loud
<1>5. CASE \E p \in Submitters : GeneratorThrows(p)
  BY <1>5 DEF GeneratorThrows, contractVars, options, counters, Quiet
<1> QED
  BY <1>1, <1>2, <1>3, <1>4, <1>5 DEF Next, Loud

LEMMA PhaseInit == Init => Phase
BY EmptySeq DEF Init, ContractInit, Phase, Before, ProducersDone, Complete, Range

LEMMA CompleteGrows ==
  ASSUME Typed, NEW answer,
         stopResults' = Append(stopResults, answer)
  PROVE  Complete' <=> Complete \/ answer = "ok"
<1>1. /\ Len(stopResults) \in Nat
      /\ DOMAIN stopResults = 1 .. Len(stopResults)
      /\ DOMAIN stopResults' = 1 .. Len(stopResults) + 1
      /\ \A i \in DOMAIN stopResults : stopResults'[i] = stopResults[i]
      /\ stopResults'[Len(stopResults) + 1] = answer
  BY LenProperties DEF Typed
<1> QED
  BY <1>1 DEF Complete, Range

LEMMA PhaseProducer ==
  ASSUME Typed, Phase, NEW p \in Submitters,
         Produce(p) \/ Submit(p) \/ SubmitThrows(p) \/ GeneratorThrows(p)
  PROVE  Phase'
<1>1. stopResults' = stopResults /\ stopping' = stopping /\ given' = given
  BY DEF Produce, TestFlag, Draw, CountGenerated, Submit, SubmitThrows, GeneratorThrows,
         Accept, AnswerTrue, AnswerFalse, AnswerThrew, AnswerWith, contractVars, options
<1>2. /\ ~stopping /\ ~Before
      /\ mainPc \in MainLabels
  BY DEF Produce, TestFlag, Draw, CountGenerated, Submit, SubmitThrows, GeneratorThrows,
         Phase, Typed
<1>3. ~Complete /\ ~Complete' /\ mainPc \notin {"stop", "report", "leave"}
  BY <1>1, <1>2 DEF Phase, Complete
<1>4. p \in Producers /\ Producers' = Producers
  BY <1>1 DEF Producers, Produce, TestFlag, Draw, CountGenerated, Submit,
              SubmitThrows, GeneratorThrows, Phase
<1> USE DEF contractVars, options, counters, Goto, Phase, Before, MainLabels
<1>5. CASE TestFlag(p)
  BY <1>1, <1>2, <1>3, <1>4, <1>5 DEF TestFlag, Typed
<1>6. CASE Draw(p)
  BY <1>1, <1>2, <1>3, <1>4, <1>6 DEF Draw, Typed
<1>7. CASE CountGenerated(p)
  BY <1>1, <1>2, <1>3, <1>4, <1>7 DEF CountGenerated, Typed
<1>8. CASE Submit(p)
  BY <1>1, <1>2, <1>3, <1>4, <1>8
  DEF Submit, Accept, AnswerTrue, AnswerFalse, AnswerWith, AfterSubmit, Typed
<1>9. CASE SubmitThrows(p)
  BY <1>1, <1>2, <1>3, <1>4, <1>9 DEF SubmitThrows, AnswerThrew, AnswerWith, Typed
<1>10. CASE GeneratorThrows(p)
  BY <1>1, <1>2, <1>3, <1>4, <1>10 DEF GeneratorThrows, Typed
<1> QED
  BY <1>5, <1>6, <1>7, <1>8, <1>9, <1>10 DEF Produce

LEMMA PhaseMain == ASSUME Typed, Phase, Main PROVE Phase'
<1> USE DEF contractVars, counters, Exit, MainGoto, Before, MainLabels
<1>1. CASE ParseOption
  <2>1. Before /\ Before' /\ UNCHANGED <<contractVars, counters, program, pc, exitCode, mainPc>>
    BY <1>1 DEF ParseOption
  <2>2. ~Complete /\ ~Complete' /\ ~stopping
    BY <2>1 DEF Phase, Complete
  <2> QED
    BY <2>1, <2>2 DEF Phase, Complete
<1>2. CASE AskedForHelp \/ OptionsRefused \/ OptionsRead \/ StartRecorder \/ StartFails
  <2>1. /\ Before /\ mainPc' \in {"open", "spawn", "exited"}
        /\ UNCHANGED <<contractVars, counters, program, given, pc>>
        /\ exitCode' # exitCode => mainPc' = "exited"
    BY <1>2 DEF AskedForHelp, OptionsRefused, OptionsRead, StartRecorder, StartFails
  <2>2. ~Complete /\ ~Complete' /\ ~stopping
    BY <2>1 DEF Phase, Complete
  <2> QED
    BY <2>1, <2>2 DEF Phase, ProducersDone, Producers
<1>3. CASE Spawn
  <2>1. PICK p \in Unborn : pc' = [pc EXCEPT ![p] = LoopHead]
    BY <1>3 DEF Spawn, Goto
  <2>2. /\ mainPc = "spawn" /\ mainPc' = "spawn" /\ LoopHead \in {"flag", "draw"}
        /\ UNCHANGED <<contractVars, counters, program, given, exitCode>>
    BY <1>3 DEF Spawn, LoopHead
  <2>3. ~stopping /\ ~Complete /\ ~Complete'
    BY <2>2 DEF Phase, Complete
  <2> QED
    BY <2>1, <2>2, <2>3 DEF Phase, Unborn, Producers, Typed
<1>4. CASE SpawnFails
  BY <1>4 DEF SpawnFails, Phase, Complete, ProducersDone, Producers
<1>5. CASE JoinProducers \/ Unwind
  <2>1. /\ mainPc \in {"spawn", "unwind"} /\ stopping'
        /\ UNCHANGED <<accepted, saved, taken, results, stopResults, counters,
                       program, given, pc>>
        /\ JoinProducers => mainPc' = "stop" /\ exitCode' = exitCode /\ ProducersDone
        /\ Unwind => mainPc' = "leave" /\ exitCode' = "1"
        /\ \A p \in Producers : pc[p] \in {"unborn", "done"}
    BY <1>5 DEF JoinProducers, Unwind, StopBegins, ProducersDone
  <2>2. ~Complete /\ ~Complete' /\ ~stopping /\ exitCode # "0"
    BY <2>1 DEF Phase, Complete
  <2>3. \A p \in Submitters : pc[p] \in {"unborn", "done"}
    BY <2>1 DEF Phase
  <2> QED
    BY <1>5, <2>1, <2>2, <2>3 DEF Phase, ProducersDone, Producers
<1>6. CASE RecorderStopped
  <2>1. /\ mainPc = "stop"
        /\ UNCHANGED <<accepted, saved, taken, results, failure, stopping, destroyed,
                       counters, program, given, pc>>
    BY <1>6 DEF RecorderStopped, StopOk, StopThrew
  <2>2. CASE StopOk /\ MainGoto("report") /\ UNCHANGED exitCode
    <3>1. Complete'
      BY <2>2, CompleteGrows DEF StopOk
    <3> QED
      BY <2>1, <2>2, <3>1 DEF Phase, ProducersDone, Producers
  <2>3. CASE StopThrew /\ MainGoto("leave") /\ exitCode' = "1"
    <3>1. Complete' <=> Complete
      BY <2>3, CompleteGrows DEF StopThrew
    <3> QED
      BY <2>1, <2>3, <3>1 DEF Phase, ProducersDone, Producers
  <2> QED
    BY <1>6, <2>2, <2>3 DEF RecorderStopped
<1>7. CASE Report \/ ReportFails
  BY <1>7 DEF Report, ReportFails, Phase, Complete, ProducersDone, Producers
<1>8. CASE Leave
  BY <1>8 DEF Leave, Destroyed, Phase, Complete, ProducersDone, Producers
<1> QED
  BY <1>1, <1>2, <1>3, <1>4, <1>5, <1>6, <1>7, <1>8 DEF Main

LEMMA PhaseStep == Typed /\ Phase /\ [Next]_vars => Phase'
<1> SUFFICES ASSUME Typed, Phase, [Next]_vars PROVE Phase'
  OBVIOUS
<1> USE DEF contractVars, appVars, options, counters
<1>1. CASE UNCHANGED vars \/ Terminated
  BY <1>1 DEF Terminated, vars, Phase, Before, Complete, ProducersDone, Producers
<1>2. CASE SignalHandler
  BY <1>2 DEF SignalHandler, Phase, Before, Complete, ProducersDone, Producers
<1>3. CASE RecorderThread
  BY <1>3 DEF RecorderThread, Save, Fail, Phase, Before, Complete, ProducersDone, Producers
<1> QED
  BY <1>1, <1>2, <1>3, PhaseProducer, PhaseMain DEF Next

-----------------------------------------------------------------------------
(* The numbers *)

\* A number drawn whose event is not in the recorder yet.
Held(p) == pc[p] = "submit" /\ p \notin taken

InLimit(n) == limit = 0 \/ n < limit

\* No number is drawn twice, accepted twice, or beyond the limit.
Numbers ==
  /\ \A p \in Submitters : sequence[p] <= nextSequence
  /\ \A i \in DOMAIN accepted :
       accepted[i].sequence < nextSequence /\ InLimit(accepted[i].sequence)
  /\ \A p \in Submitters :
       Held(p) => sequence[p] < nextSequence /\ InLimit(sequence[p])
  /\ \A p \in Submitters, i \in DOMAIN accepted :
       Held(p) => accepted[i].sequence # sequence[p]
  /\ \A p, q \in Submitters :
       Held(p) /\ Held(q) /\ sequence[p] = sequence[q] => p = q
  /\ \A i, j \in DOMAIN accepted :
       accepted[i].sequence = accepted[j].sequence => i = j

\* What a producer holds is newer than all it has handed over.
Ordered ==
  /\ \A p \in Submitters, i \in DOMAIN accepted :
       Held(p) /\ accepted[i].producer = p => accepted[i].sequence < sequence[p]
  /\ \A i, j \in DOMAIN accepted :
       i < j /\ accepted[i].producer = accepted[j].producer
         => accepted[i].sequence < accepted[j].sequence

\* The event that p holds goes in.
HandsOver(p) ==
  /\ pc[p] = "submit" /\ Accept(p, EventOf(p))
  /\ UNCHANGED <<pc, options, counters, mainPc, exitCode, spoiled>>

\* No number is drawn or handed over.
NumbersStay ==
  /\ UNCHANGED <<accepted, nextSequence, sequence, given>>
  /\ \A p \in Submitters : Held(p)' => Held(p)

LEMMA Kinds ==
  ASSUME Typed, [Next]_vars
  PROVE  \/ NumbersStay \/ ParseOption
         \/ \E p \in Submitters : Draw(p) \/ HandsOver(p)
<1> USE DEF NumbersStay, Held, contractVars, options, counters, Goto
<1>1. CASE Quiet
  BY <1>1 DEF Quiet
<1>2. CASE Loud
  <2>1. CASE SignalHandler
    BY <2>1 DEF SignalHandler
  <2>2. CASE Spawn
    BY <2>2 DEF Spawn, MainGoto, LoopHead, Typed
  <2>3. ASSUME NEW p \in Submitters, TestFlag(p) \/ CountGenerated(p)
        PROVE  NumbersStay
    BY <2>3 DEF TestFlag, CountGenerated, Typed
  <2>4. ASSUME NEW p \in Submitters, SubmitThrows(p)
        PROVE  NumbersStay
    BY <2>4 DEF SubmitThrows, AnswerThrew, AnswerWith
  <2>5. ASSUME NEW p \in Submitters, Running, pc[p] = "submit",
               UNCHANGED <<options, counters, mainPc, exitCode, spoiled>>,
               AnswerTrue(p) /\ Goto(p, AfterSubmit)
        PROVE  NumbersStay
    BY <2>5 DEF AnswerTrue, AnswerWith, AfterSubmit, Typed
  <2>6. ASSUME NEW p \in Submitters, Running, pc[p] = "submit",
               UNCHANGED <<options, counters, mainPc, exitCode, spoiled>>,
               AnswerFalse(p) /\ Goto(p, "done")
        PROVE  NumbersStay
    BY <2>6 DEF AnswerFalse, AnswerWith, Typed
  <2>7. ASSUME NEW p \in Submitters, Running, pc[p] = "submit",
               UNCHANGED <<options, counters, mainPc, exitCode, spoiled>>,
               Accept(p, EventOf(p)) /\ UNCHANGED pc
        PROVE  HandsOver(p)
    BY <2>7 DEF HandsOver
  <2> HIDE DEF NumbersStay, Held, contractVars, options, counters, Goto
  <2> QED
    BY <1>2, <2>1, <2>2, <2>3, <2>4, <2>5, <2>6, <2>7 DEF Loud
<1> QED
  BY <1>1, <1>2, Steps

\* The accepted events and what their numbers are, one by one.
LEMMA AcceptedTyped ==
  ASSUME Typed
  PROVE  /\ Len(accepted) \in Nat /\ DOMAIN accepted = 1 .. Len(accepted)
         /\ \A i \in DOMAIN accepted : accepted[i].sequence \in Nat
         /\ \A i \in DOMAIN accepted : accepted[i].producer \in Submitters
<1>1. \A i \in 1 .. Len(accepted) : accepted[i] \in Numbered
  BY ElementOfSeq DEF Typed
<1> QED
  BY <1>1, LenProperties DEF Typed, Numbered

LEMMA AcceptedGrows ==
  ASSUME Typed, NEW p \in Submitters, HandsOver(p)
  PROVE  /\ DOMAIN accepted' = 1 .. Len(accepted) + 1
         /\ Len(accepted') = Len(accepted) + 1
         /\ \A i \in DOMAIN accepted : accepted'[i] = accepted[i]
         /\ accepted'[Len(accepted) + 1].sequence = sequence[p]
         /\ accepted'[Len(accepted) + 1].producer = p
         /\ Held(p) /\ ~Held(p)'
         /\ \A q \in Submitters : Held(q)' => Held(q)
         /\ UNCHANGED <<nextSequence, sequence, given>>
<1>1. accepted' = Append(accepted, EventOf(p)) /\ accepted \in Seq(Numbered)
  BY DEF HandsOver, Accept, Typed
<1>2. EventOf(p) = [producer |-> p, sequence |-> sequence[p]] /\ EventOf(p) \in Numbered
  BY EventTyped DEF EventOf
<1>3. /\ Held(p) /\ ~Held(p)'
      /\ \A q \in Submitters : Held(q)' => Held(q)
      /\ UNCHANGED <<nextSequence, sequence, given>>
  BY DEF HandsOver, Accept, Held, options, counters
<1> QED
  BY <1>1, <1>2, <1>3, AppendProperties, AcceptedTyped

LEMMA NumbersInit == Init => Numbers /\ Ordered
<1> SUFFICES ASSUME Init PROVE Numbers /\ Ordered
  OBVIOUS
<1>1. DOMAIN accepted = {} /\ \A p \in Submitters : ~Held(p)
  BY DEF Init, ContractInit, Held
<1>2. \A p \in Submitters : sequence[p] <= nextSequence
  BY DEF Init
<1> QED
  BY <1>1, <1>2 DEF Numbers, Ordered

LEMMA NumbersStep == Typed /\ Phase /\ Numbers /\ [Next]_vars => Numbers'
<1> SUFFICES ASSUME Typed, Phase, Numbers, [Next]_vars PROVE Numbers'
  OBVIOUS
<1>1. CASE NumbersStay
  BY <1>1 DEF NumbersStay, Numbers, InLimit, limit
<1>2. CASE ParseOption
  <2>1. DOMAIN accepted' = {} /\ \A p \in Submitters : ~Held(p)'
    BY <1>2 DEF ParseOption, Phase, Before, contractVars, Held
  <2>2. UNCHANGED <<sequence, nextSequence>>
    BY <1>2 DEF ParseOption, MainGoto, counters
  <2> QED
    BY <2>1, <2>2 DEF Numbers
<1>3. ASSUME NEW p \in Submitters, Draw(p) PROVE Numbers'
  <2>1. /\ UNCHANGED <<accepted, given>>
        /\ nextSequence' = nextSequence + 1 /\ nextSequence \in Nat
        /\ sequence' = [sequence EXCEPT ![p] = nextSequence]
        /\ \A q \in Submitters : Held(q)' /\ q # p => Held(q)
        /\ Held(p)' => InLimit(nextSequence)
    BY <1>3 DEF Draw, Goto, Typed, Held, InLimit, contractVars, options, OptionsTyped,
                limit
  <2>2. /\ \A q \in Submitters : q # p => sequence'[q] = sequence[q]
        /\ sequence'[p] = nextSequence
        /\ \A q \in Submitters : sequence[q] \in Nat
    BY <2>1 DEF Typed
  <2> QED
    BY <2>1, <2>2, AcceptedTyped DEF Numbers, InLimit, limit
<1>4. ASSUME NEW p \in Submitters, HandsOver(p) PROVE Numbers'
  BY <1>4, AcceptedGrows, AcceptedTyped DEF Numbers, InLimit, limit
<1> QED
  BY <1>1, <1>2, <1>3, <1>4, Kinds

LEMMA OrderedStep == Typed /\ Phase /\ Numbers /\ Ordered /\ [Next]_vars => Ordered'
<1> SUFFICES ASSUME Typed, Phase, Numbers, Ordered, [Next]_vars PROVE Ordered'
  OBVIOUS
<1>1. CASE NumbersStay
  BY <1>1 DEF NumbersStay, Ordered
<1>2. CASE ParseOption
  <2>1. DOMAIN accepted' = {} /\ \A p \in Submitters : ~Held(p)'
    BY <1>2 DEF ParseOption, Phase, Before, contractVars, Held
  <2> QED
    BY <2>1 DEF Ordered
<1>3. ASSUME NEW p \in Submitters, Draw(p) PROVE Ordered'
  <2>1. /\ accepted' = accepted
        /\ sequence' = [sequence EXCEPT ![p] = nextSequence]
        /\ \A q \in Submitters : Held(q)' /\ q # p => Held(q)
    BY <1>3 DEF Draw, Goto, Typed, Held, contractVars
  <2>2. /\ \A q \in Submitters : q # p => sequence'[q] = sequence[q]
        /\ sequence'[p] = nextSequence
    BY <2>1 DEF Typed
  <2> QED
    BY <2>1, <2>2, AcceptedTyped DEF Ordered, Numbers
<1>4. ASSUME NEW p \in Submitters, HandsOver(p) PROVE Ordered'
  BY <1>4, AcceptedGrows, AcceptedTyped DEF Ordered
<1> QED
  BY <1>1, <1>2, <1>3, <1>4, Kinds

-----------------------------------------------------------------------------
(* The file *)

\* The file is a beginning of what was accepted, and all of it after a stop
\* that returned normally.
Follows ==
  /\ Len(saved) <= Len(accepted)
  /\ \A i \in 1 .. Len(saved) : saved[i] = accepted[i]
  /\ Complete => saved = accepted /\ failure = "none"

LEMMA FollowsInit == Init => Follows
BY EmptySeq DEF Init, ContractInit, Follows, Complete, Range

\* Saving more of it changes nothing about that.
LEMMA SavesMore ==
  ASSUME Typed, Follows, NEW n \in Len(saved) .. Len(accepted),
         saved' = SubSeq(accepted, 1, n),
         UNCHANGED <<accepted, failure, stopResults>>
  PROVE  Follows'
<1>1. /\ Len(saved) \in Nat /\ Len(accepted) \in Nat /\ accepted \in Seq(Numbered)
  BY LenProperties DEF Typed
<1>2. \A i \in 1 .. n : accepted[i] \in Numbered
  BY <1>1, ElementOfSeq
<1>3. /\ Len(SubSeq(accepted, 1, n)) = n
      /\ \A i \in 1 .. n : SubSeq(accepted, 1, n)[i] = accepted[i]
  BY <1>1, <1>2, SubSeqProperties
<1>4. Complete => n = Len(accepted) /\ SubSeq(accepted, 1, n) = accepted
  <2> SUFFICES ASSUME Complete PROVE n = Len(accepted) /\ SubSeq(accepted, 1, n) = accepted
    OBVIOUS
  <2>1. n = Len(accepted)
    BY <1>1 DEF Follows
  <2>2. SubSeq(accepted, 1, n) \in Seq(Numbered)
    BY <1>1, CutInTwo
  <2> QED
    BY <1>1, <1>3, <2>1, <2>2, SeqEqual
<1> QED
  BY <1>1, <1>3, <1>4 DEF Follows, Complete

LEMMA FollowsMain == ASSUME Typed, Follows, Main PROVE Follows'
<1> USE DEF contractVars, Exit, MainGoto
<1>1. CASE ParseOption \/ AskedForHelp \/ OptionsRefused \/ OptionsRead
           \/ StartRecorder \/ StartFails
  BY <1>1 DEF ParseOption, AskedForHelp, OptionsRefused, OptionsRead,
              StartRecorder, StartFails, Follows, Complete
<1>2. CASE Spawn \/ SpawnFails \/ JoinProducers \/ Unwind
  BY <1>2 DEF Spawn, SpawnFails, JoinProducers, Unwind, StopBegins, Follows, Complete
<1>3. CASE RecorderStopped
  <2>1. CASE StopOk
    BY <2>1 DEF StopOk, Follows, Complete
  <2>2. CASE StopThrew
    <3>1. Complete' <=> Complete
      BY <2>2, CompleteGrows DEF StopThrew
    <3> QED
      BY <2>2, <3>1 DEF StopThrew, Follows
  <2> QED
    BY <1>3, <2>1, <2>2 DEF RecorderStopped
<1>4. CASE Report \/ ReportFails
  BY <1>4 DEF Report, ReportFails, Follows, Complete
<1>5. CASE Leave
  BY <1>5, SavesMore DEF Leave, Destroyed
<1> QED
  BY <1>1, <1>2, <1>3, <1>4, <1>5 DEF Main

LEMMA FollowsStep == Typed /\ Phase /\ Follows /\ [Next]_vars => Follows'
<1> SUFFICES ASSUME Typed, Phase, Follows, [Next]_vars PROVE Follows'
  OBVIOUS
<1> USE DEF contractVars
<1>1. CASE UNCHANGED vars \/ Terminated \/ SignalHandler
  BY <1>1 DEF Terminated, vars, SignalHandler, Follows, Complete
<1>2. CASE RecorderThread
  <2>1. CASE Save
    <3>1. PICK n \in Len(saved) + 1 .. Len(accepted) : saved' = SubSeq(accepted, 1, n)
      BY <2>1 DEF Save
    <3>2. n \in Len(saved) .. Len(accepted)
      BY <3>1, LenProperties DEF Typed
    <3> QED
      BY <2>1, <3>1, <3>2, SavesMore DEF Save
  <2>2. CASE Fail
    BY <2>2 DEF Fail, Follows, Complete
  <2> QED
    BY <1>2, <2>1, <2>2 DEF RecorderThread
<1>3. ASSUME NEW p \in Submitters, Produce(p) PROVE Follows'
  BY <1>3 DEF Produce, TestFlag, Draw, CountGenerated, Follows, Complete
<1>4. ASSUME NEW p \in Submitters, Submit(p) \/ SubmitThrows(p) PROVE Follows'
  <2>1. CASE Accept(p, EventOf(p))
    <3>1. /\ accepted \in Seq(Numbered) /\ EventOf(p) \in Numbered
          /\ Len(saved) \in Nat /\ Len(accepted) \in Nat
      BY EventTyped, LenProperties DEF Typed
    <3>2. /\ Len(accepted') = Len(accepted) + 1
          /\ \A i \in 1 .. Len(accepted) : accepted'[i] = accepted[i]
      BY <2>1, <3>1, AppendProperties DEF Accept
    <3> QED
      BY <2>1, <3>1, <3>2 DEF Accept, Follows, Complete
  <2>2. CASE AnswerTrue(p) \/ AnswerFalse(p) \/ AnswerThrew(p)
    BY <2>2 DEF AnswerTrue, AnswerFalse, AnswerThrew, AnswerWith, Follows, Complete
  <2> QED
    BY <1>4, <2>1, <2>2 DEF Submit, SubmitThrows
<1>5. ASSUME NEW p \in Submitters, GeneratorThrows(p) PROVE Follows'
  BY <1>5 DEF GeneratorThrows, contractVars, Follows, Complete
<1> QED
  BY <1>1, <1>2, <1>3, <1>4, <1>5, FollowsMain DEF Next

-----------------------------------------------------------------------------
(* Nothing is missing *)

Arrived(n) == \E i \in DOMAIN accepted : accepted[i].sequence = n
InHand(n) == \E p \in Submitters : Held(p) /\ sequence[p] = n

\* While the writer works, every number drawn is in the recorder or on its way
\* there, nobody is refused, and only a signal or the limit ends a producer.
Healthy ==
  failure = "none" =>
    /\ \A p \in Submitters : Range(results[p]) \subseteq {"true"}
    /\ \A n \in 0 .. nextSequence - 1 : InLimit(n) => Arrived(n) \/ InHand(n)
    /\ ~stopRequested =>
         \A p \in Submitters : pc[p] = "done" => limit # 0 /\ nextSequence >= limit

LEMMA HealthyInit == Init => Healthy
<1> SUFFICES ASSUME Init PROVE Healthy
  OBVIOUS
<1>1. \A p \in Submitters : results[p] = <<>> /\ pc[p] = "unborn"
  BY DEF Init, ContractInit
<1>2. 0 .. nextSequence - 1 = {}
  BY DEF Init
<1> QED
  BY <1>1, <1>2 DEF Healthy, Range

\* A step that leaves the numbers, the events in hand and the results alone.
LEMMA HealthyStays ==
  ASSUME Typed, Healthy,
         UNCHANGED <<accepted, nextSequence, sequence, given, results>>,
         failure' = "none" => failure = "none",
         \A p \in Submitters : Held(p) => Held(p)',
         stopRequested => stopRequested',
         ~stopRequested' => \A p \in Submitters : pc'[p] = "done" => pc[p] = "done"
  PROVE  Healthy'
BY DEF Healthy, Arrived, InHand, InLimit, limit, Typed

LEMMA HealthyDraw ==
  ASSUME Typed, Phase, Healthy, NEW p \in Submitters, Draw(p)
  PROVE  Healthy'
<1> SUFFICES ASSUME failure = "none" PROVE Healthy'
  BY DEF Healthy, Draw, contractVars
<1>1. /\ UNCHANGED <<accepted, taken, results, given, stopRequested>>
      /\ pc[p] = "draw" /\ nextSequence' = nextSequence + 1
      /\ sequence' = [sequence EXCEPT ![p] = nextSequence]
      /\ pc' = [pc EXCEPT ![p] = IF limit # 0 /\ nextSequence >= limit
                                 THEN "done" ELSE "submit"]
  BY DEF Draw, Goto, contractVars, options
<1>2. p \notin taken /\ nextSequence \in Nat /\ limit \in Nat /\ limit' = limit
  BY <1>1 DEF Phase, Typed, OptionsTyped, limit
<1>3. /\ \A q \in Submitters : Held(q) => q # p /\ Held(q)'
      /\ \A q \in Submitters : q # p => sequence'[q] = sequence[q]
      /\ sequence'[p] = nextSequence
  BY <1>1 DEF Held, Typed
<1>4. ASSUME NEW n \in 0 .. nextSequence' - 1, InLimit(n)' PROVE Arrived(n)' \/ InHand(n)'
  <2>1. CASE n = nextSequence
    <3>1. Held(p)'
      BY <1>1, <1>2, <1>4, <2>1 DEF Held, InLimit, Typed
    <3> QED
      BY <1>3, <2>1, <3>1 DEF InHand
  <2>2. CASE n # nextSequence
    <3>1. n \in 0 .. nextSequence - 1 /\ InLimit(n)
      BY <1>1, <1>2, <1>4, <2>2 DEF InLimit
    <3>2. Arrived(n) \/ InHand(n)
      BY <3>1 DEF Healthy
    <3> QED
      BY <1>1, <1>3, <3>2 DEF Arrived, InHand
  <2> QED
    BY <2>1, <2>2
<1>5. ASSUME ~stopRequested', NEW q \in Submitters, pc'[q] = "done"
      PROVE  limit' # 0 /\ nextSequence' >= limit'
  <2>1. CASE q = p
    BY <1>1, <1>2, <1>5, <2>1 DEF Typed
  <2>2. CASE q # p
    <3>1. pc[q] = "done" /\ ~stopRequested
      BY <1>1, <1>5, <2>2 DEF Typed
    <3> QED
      BY <1>1, <1>2, <3>1 DEF Healthy
  <2> QED
    BY <2>1, <2>2
<1>6. \A q \in Submitters : Range(results'[q]) \subseteq {"true"}
  BY <1>1 DEF Healthy
<1> QED
  BY <1>4, <1>5, <1>6 DEF Healthy

LEMMA HealthyHandsOver ==
  ASSUME Typed, Healthy, NEW p \in Submitters, HandsOver(p)
  PROVE  Healthy'
<1> SUFFICES ASSUME failure = "none" PROVE Healthy'
  BY DEF Healthy, HandsOver, Accept
<1>1. UNCHANGED <<results, given, stopRequested, pc>>
  BY DEF HandsOver, Accept, options, counters
<1>2. \A q \in Submitters : Held(q) /\ q # p => Held(q)'
  BY DEF HandsOver, Accept, Held
<1>3. ASSUME NEW n \in 0 .. nextSequence' - 1, InLimit(n)' PROVE Arrived(n)' \/ InHand(n)'
  <2>1. n \in 0 .. nextSequence - 1 /\ InLimit(n)
    BY <1>1, <1>3, AcceptedGrows DEF InLimit, limit
  <2>2. CASE Arrived(n)
    BY <2>2, AcceptedGrows, AcceptedTyped DEF Arrived
  <2>3. CASE sequence[p] = n
    BY <2>3, AcceptedGrows, AcceptedTyped DEF Arrived
  <2>4. CASE \E q \in Submitters : q # p /\ Held(q) /\ sequence[q] = n
    BY <1>2, <2>4, AcceptedGrows DEF InHand
  <2> QED
    BY <2>1, <2>2, <2>3, <2>4 DEF Healthy, InHand
<1> QED
  BY <1>1, <1>3, AcceptedGrows DEF Healthy, limit

LEMMA HealthyAnswer ==
  ASSUME Typed, Healthy, NEW p \in Submitters,
         UNCHANGED <<options, counters>>,
         AnswerTrue(p) /\ Goto(p, AfterSubmit)
  PROVE  Healthy'
<1>1. /\ p \in taken /\ taken' = taken \ {p}
      /\ results' = [results EXCEPT ![p] = Append(results[p], "true")]
      /\ pc' = [pc EXCEPT ![p] = AfterSubmit] /\ AfterSubmit # "done"
      /\ UNCHANGED <<accepted, failure, nextSequence, sequence, given, stopRequested>>
  BY DEF AnswerTrue, AnswerWith, Goto, AfterSubmit, options, counters
<1>2. \A q \in Submitters : Held(q) => Held(q)'
  BY <1>1 DEF Held, Typed
<1>3. \A q \in Submitters : pc'[q] = "done" => pc[q] = "done"
  BY <1>1 DEF Typed
<1>4. ASSUME failure = "none", NEW q \in Submitters
      PROVE  Range(results'[q]) \subseteq {"true"}
  <2>1. Range(results[q]) \subseteq {"true"} /\ results[p] \in Seq(Answers)
    BY <1>4 DEF Healthy, Typed
  <2>2. CASE q = p
    <3> DEFINE r == results[p]
    <3>1. results'[p] = Append(r, "true") /\ r \in Seq(Answers)
      BY <1>1, <2>1 DEF Typed
    <3>2. /\ DOMAIN r = 1 .. Len(r) /\ Len(r) \in Nat
          /\ DOMAIN Append(r, "true") = 1 .. Len(r) + 1
          /\ \A i \in 1 .. Len(r) : Append(r, "true")[i] = r[i]
          /\ Append(r, "true")[Len(r) + 1] = "true"
      BY <3>1, LenProperties, AppendProperties
    <3>3. \A i \in DOMAIN r : r[i] = "true"
      BY <2>1, <2>2 DEF Range
    <3> QED
      BY <2>2, <3>1, <3>2, <3>3 DEF Range
  <2>3. CASE q # p
    BY <1>1, <2>1, <2>3 DEF Typed
  <2> QED
    BY <2>2, <2>3
<1> QED
  BY <1>1, <1>2, <1>3, <1>4 DEF Healthy, Arrived, InHand, InLimit, limit

LEMMA HealthyStep == Typed /\ Phase /\ Healthy /\ [Next]_vars => Healthy'
<1> SUFFICES ASSUME Typed, Phase, Healthy, [Next]_vars PROVE Healthy'
  OBVIOUS
<1>1. CASE Quiet
  BY <1>1, HealthyStays DEF Quiet, Held
<1>2. CASE ParseOption
  <2>1. /\ UNCHANGED <<results, failure, nextSequence, pc, stopRequested>>
        /\ nextSequence = 0 /\ \A p \in Submitters : pc[p] = "unborn"
    BY <1>2 DEF ParseOption, MainGoto, contractVars, counters, Phase, Before
  <2> QED
    BY <2>1 DEF Healthy
<1>3. CASE SignalHandler
  BY <1>3, HealthyStays DEF SignalHandler, contractVars, options, Held
<1>4. CASE Spawn
  <2>1. PICK p \in Unborn : pc' = [pc EXCEPT ![p] = LoopHead]
    BY <1>4 DEF Spawn, Goto
  <2>2. /\ UNCHANGED <<contractVars, given, counters>> /\ LoopHead # "done"
        /\ pc[p] = "unborn" /\ p \in Submitters
    BY <1>4, <2>1 DEF Spawn, MainGoto, LoopHead, Unborn, Producers
  <2> QED
    BY <2>1, <2>2, HealthyStays DEF contractVars, counters, Held, Typed
<1>5. ASSUME NEW p \in Submitters, TestFlag(p) \/ CountGenerated(p) PROVE Healthy'
  <2>1. /\ UNCHANGED <<contractVars, options, nextSequence, sequence, stopRequested>>
        /\ pc[p] \in {"flag", "count"}
        /\ \/ pc' = [pc EXCEPT ![p] = "done"] /\ stopRequested
           \/ pc' = [pc EXCEPT ![p] = "draw"]
           \/ pc' = [pc EXCEPT ![p] = "flag"]
    BY <1>5 DEF TestFlag, CountGenerated, Goto, counters
  <2> QED
    BY <2>1, HealthyStays DEF contractVars, options, Held, Typed
<1>6. ASSUME NEW p \in Submitters, Draw(p) PROVE Healthy'
  BY <1>6, HealthyDraw
<1>7. ASSUME NEW p \in Submitters, SubmitThrows(p) PROVE Healthy'
  BY <1>7 DEF SubmitThrows, AnswerThrew, AnswerWith, Healthy
<1>8. ASSUME NEW p \in Submitters, pc[p] = "submit",
             UNCHANGED <<options, counters, mainPc, exitCode, spoiled>>,
             \/ Accept(p, EventOf(p)) /\ UNCHANGED pc
             \/ AnswerTrue(p) /\ Goto(p, AfterSubmit)
             \/ AnswerFalse(p) /\ Goto(p, "done")
      PROVE  Healthy'
  <2>1. CASE Accept(p, EventOf(p)) /\ UNCHANGED pc
    BY <1>8, <2>1, HealthyHandsOver DEF HandsOver
  <2>2. CASE AnswerTrue(p) /\ Goto(p, AfterSubmit)
    BY <1>8, <2>2, HealthyAnswer
  <2>3. CASE AnswerFalse(p)
    <3>1. ~stopping
      BY <1>8 DEF Phase
    <3> QED
      BY <2>3, <3>1 DEF AnswerFalse, AnswerWith, Healthy
  <2> QED
    BY <1>8, <2>1, <2>2, <2>3
<1> QED
  BY <1>1, <1>2, <1>3, <1>4, <1>5, <1>6, <1>7, <1>8, Steps DEF Loud

-----------------------------------------------------------------------------
(* How many there are *)

\* Producers whose event is in and not counted yet.
Uncounted == {p \in Submitters : p \in taken \/ pc[p] = "count"}

Counted ==
  /\ generated + Cardinality(Uncounted) <= Len(accepted)
  /\ program = "record" => generated + Cardinality(Uncounted) = Len(accepted)

\* Producers that will submit without another look at the flag.
Carrying == {p \in Submitters : pc[p] = "draw" \/ Held(p)}

\* The events accepted since the signal, and whether one of them is p's.
Late == atSignal + 1 .. Len(accepted)
HasSubmitted(p) == \E i \in Late : accepted[i].producer = p

Signalled ==
  stopRequested =>
    /\ atSignal <= Len(accepted)
    /\ \A i, j \in Late : accepted[i].producer = accepted[j].producer => i = j
    /\ \A p \in Carrying : ~HasSubmitted(p)

LEMMA SetsFinite ==
  /\ IsFiniteSet(Uncounted) /\ Cardinality(Uncounted) \in Nat
  /\ IsFiniteSet(Uncounted') /\ Cardinality(Uncounted') \in Nat
  /\ IsFiniteSet(Carrying) /\ Cardinality(Carrying) \in Nat
  /\ Cardinality(Carrying) <= Cardinality(Submitters)
  /\ IsFiniteSet(Carrying') /\ Cardinality(Carrying') \in Nat
<1>1. /\ Uncounted \subseteq Submitters /\ Uncounted' \subseteq Submitters
      /\ Carrying \subseteq Submitters /\ Carrying' \subseteq Submitters
  BY DEF Uncounted, Carrying
<1> HIDE DEF Uncounted, Carrying
<1> QED
  BY <1>1, SubmittersFinite, FS_Subset, FS_CardinalityType

LEMMA CountsInit == Init => Counted /\ Signalled
<1> SUFFICES ASSUME Init PROVE Counted /\ Signalled
  OBVIOUS
<1>1. Uncounted = {}
  BY DEF Init, ContractInit, Uncounted
<1> QED
  BY <1>1, FS_EmptySet DEF Init, ContractInit, Counted, Signalled

LEMMA CountedStays ==
  ASSUME Counted, UNCHANGED <<generated, accepted, program>>, Uncounted' = Uncounted
  PROVE  Counted'
BY DEF Counted

\* submit() comes back: hpblr_record counts the event next, hpblr_bench never.
LEMMA CountedAnswer ==
  ASSUME Typed, Phase, Counted, NEW p \in Submitters, pc[p] = "submit",
         UNCHANGED <<options, counters>>,
         AnswerTrue(p) /\ Goto(p, AfterSubmit)
  PROVE  Counted'
<1>1. /\ UNCHANGED <<generated, accepted, program>> /\ taken' = taken \ {p}
      /\ p \in taken /\ pc' = [pc EXCEPT ![p] = AfterSubmit]
  BY DEF AnswerTrue, AnswerWith, Goto, options, counters
<1>2. CASE program = "record"
  <2>1. Uncounted' = Uncounted
    BY <1>1, <1>2 DEF Uncounted, AfterSubmit, Typed
  <2> QED
    BY <1>1, <2>1, CountedStays
<1>3. CASE program # "record"
  <2>1. Uncounted' = Uncounted \ {p}
    BY <1>1, <1>3 DEF Uncounted, AfterSubmit, Typed
  <2>2. Cardinality(Uncounted') <= Cardinality(Uncounted)
    BY <2>1, SetsFinite, FS_RemoveElement
  <2>3. generated \in Nat /\ Len(accepted) \in Nat
    BY AcceptedTyped DEF Typed
  <2> QED
    BY <1>1, <1>3, <2>2, <2>3, SetsFinite DEF Counted
<1> QED
  BY <1>2, <1>3

LEMMA CountedStep == Typed /\ Phase /\ Counted /\ [Next]_vars => Counted'
<1> SUFFICES ASSUME Typed, Phase, Counted, [Next]_vars PROVE Counted'
  OBVIOUS
<1> USE DEF contractVars, options, counters, Goto
<1>1. CASE Quiet
  BY <1>1, CountedStays DEF Quiet, Uncounted
<1>2. CASE ParseOption \/ SignalHandler
  BY <1>2, CountedStays DEF ParseOption, SignalHandler, MainGoto, Uncounted
<1>3. CASE Spawn
  <2>1. PICK p \in Unborn : pc' = [pc EXCEPT ![p] = LoopHead]
    BY <1>3 DEF Spawn
  <2>2. /\ UNCHANGED <<contractVars, program, counters>> /\ LoopHead # "count"
        /\ pc[p] = "unborn" /\ p \in Submitters
    BY <1>3, <2>1 DEF Spawn, MainGoto, LoopHead, Unborn, Producers
  <2>3. Uncounted' = Uncounted
    BY <2>1, <2>2 DEF Uncounted, Typed
  <2> QED
    BY <2>2, <2>3, CountedStays
<1>4. ASSUME NEW p \in Submitters, TestFlag(p) \/ Draw(p) PROVE Counted'
  <2>1. Uncounted' = Uncounted
    BY <1>4 DEF TestFlag, Draw, Uncounted, Typed
  <2> QED
    BY <1>4, <2>1, CountedStays DEF TestFlag, Draw
<1>5. ASSUME NEW p \in Submitters, CountGenerated(p) PROVE Counted'
  <2>1. p \in Uncounted /\ Uncounted' = Uncounted \ {p}
    BY <1>5 DEF CountGenerated, Uncounted, Typed, Phase
  <2>2. Cardinality(Uncounted') = Cardinality(Uncounted) - 1
    BY <2>1, SetsFinite, FS_RemoveElement
  <2>3. generated' = generated + 1 /\ generated \in Nat /\ UNCHANGED <<accepted, program>>
    BY <1>5 DEF CountGenerated, Typed
  <2> QED
    BY <2>2, <2>3, SetsFinite DEF Counted
<1>6. ASSUME NEW p \in Submitters, SubmitThrows(p) PROVE Counted'
  <2>1. Uncounted' = Uncounted
    BY <1>6 DEF SubmitThrows, AnswerThrew, AnswerWith, Uncounted
  <2> QED
    BY <1>6, <2>1, CountedStays DEF SubmitThrows, AnswerThrew, AnswerWith
<1>7. ASSUME NEW p \in Submitters, pc[p] = "submit",
             UNCHANGED <<options, counters, mainPc, exitCode, spoiled>>,
             \/ Accept(p, EventOf(p)) /\ UNCHANGED pc
             \/ AnswerTrue(p) /\ Goto(p, AfterSubmit)
             \/ AnswerFalse(p) /\ Goto(p, "done")
      PROVE  Counted'
  <2>1. CASE Accept(p, EventOf(p)) /\ UNCHANGED pc
    <3>1. HandsOver(p)
      BY <1>7, <2>1 DEF HandsOver
    <3>2. p \notin Uncounted /\ Uncounted' = Uncounted \cup {p}
      BY <1>7, <2>1 DEF Accept, Uncounted
    <3>3. Cardinality(Uncounted') = Cardinality(Uncounted) + 1
      BY <3>2, SetsFinite, FS_AddElement
    <3>4. UNCHANGED <<generated, program>> /\ generated \in Nat /\ Len(accepted) \in Nat
      BY <1>7, AcceptedTyped DEF Typed
    <3> QED
      BY <3>1, <3>3, <3>4, SetsFinite, AcceptedGrows DEF Counted
  <2>2. CASE AnswerTrue(p) /\ Goto(p, AfterSubmit)
    BY <1>7, <2>2, CountedAnswer
  <2>3. CASE AnswerFalse(p) /\ Goto(p, "done")
    <3>1. Uncounted' = Uncounted
      BY <1>7, <2>3 DEF AnswerFalse, AnswerWith, Uncounted, Typed
    <3> QED
      BY <1>7, <2>3, <3>1, CountedStays DEF AnswerFalse, AnswerWith
  <2> QED
    BY <1>7, <2>1, <2>2, <2>3
<1> QED
  BY <1>1, <1>2, <1>3, <1>4, <1>5, <1>6, <1>7, Steps DEF Loud

\* After the signal nobody gets a new event to carry.
LEMMA SignalledStays ==
  ASSUME Typed, Signalled, UNCHANGED <<accepted, atSignal>>,
         stopRequested', stopRequested, Carrying' \subseteq Carrying
  PROVE  Signalled'
BY DEF Signalled, Late, HasSubmitted

LEMMA SignalComes == ASSUME Typed, SignalHandler PROVE Signalled'
<1>1. accepted' = accepted /\ atSignal' = Len(accepted) /\ Len(accepted) \in Nat
  BY AcceptedTyped DEF SignalHandler, contractVars
<1>2. Late' = {} /\ atSignal' <= Len(accepted)'
  BY <1>1 DEF Late
<1> QED
  BY <1>2 DEF Signalled, HasSubmitted

\* A producer that carries an event hands it over: its first since the signal.
LEMMA LastSubmit ==
  ASSUME Typed, Signalled, stopRequested, UNCHANGED atSignal,
         NEW p \in Carrying, HandsOver(p), Carrying' = Carrying \ {p}
  PROVE  Signalled'
<1>1. /\ Len(accepted) \in Nat /\ Len(accepted') = Len(accepted) + 1 /\ p \in Submitters
      /\ DOMAIN accepted = 1 .. Len(accepted) /\ atSignal \in Nat
      /\ \A i \in DOMAIN accepted : accepted'[i] = accepted[i]
      /\ accepted'[Len(accepted) + 1].producer = p
  BY AcceptedTyped, AcceptedGrows DEF Typed, Carrying
<1>2. /\ atSignal <= Len(accepted) /\ ~HasSubmitted(p)
      /\ \A i, j \in Late : accepted[i].producer = accepted[j].producer => i = j
      /\ \A q \in Carrying : ~HasSubmitted(q)
  BY DEF Signalled
<1>3. /\ Late' = Late \cup {Len(accepted) + 1} /\ Len(accepted) + 1 \notin Late
      /\ \A i \in Late : accepted'[i] = accepted[i] /\ accepted[i].producer # p
  BY <1>1, <1>2 DEF Late, HasSubmitted
<1>4. \A i, j \in Late' : accepted'[i].producer = accepted'[j].producer => i = j
  BY <1>1, <1>2, <1>3
<1>5. \A q \in Carrying' : ~HasSubmitted(q)'
  <2> SUFFICES ASSUME NEW q \in Carrying', NEW i \in Late', accepted'[i].producer = q
               PROVE  FALSE
    BY DEF HasSubmitted
  <2>1. q \in Carrying /\ q # p
    OBVIOUS
  <2>2. i \in Late /\ accepted[i].producer = q
    BY <1>1, <1>3, <2>1
  <2> QED
    BY <1>2, <2>1, <2>2 DEF HasSubmitted
<1>6. atSignal' <= Len(accepted')
  BY <1>1, <1>2
<1> QED
  BY <1>4, <1>5, <1>6 DEF Signalled

LEMMA SignalledStep == Typed /\ Phase /\ Signalled /\ [Next]_vars => Signalled'
<1> SUFFICES ASSUME Typed, Phase, Signalled, [Next]_vars, stopRequested' PROVE Signalled'
  BY DEF Signalled
<1> USE DEF contractVars, options, counters, Goto, Held
<1>1. CASE SignalHandler
  BY <1>1, SignalComes
<1>2. CASE ~SignalHandler
  <2>1. stopRequested /\ UNCHANGED <<stopRequested, atSignal>>
    BY <1>2, Steps DEF Quiet, Loud, ParseOption, Spawn, TestFlag, Draw, CountGenerated,
                       SubmitThrows, MainGoto
  <2>2. program = "record"
    BY <2>1 DEF Phase
  <2>3. CASE Quiet
    BY <2>1, <2>3, SignalledStays DEF Quiet, Carrying
  <2>4. CASE ParseOption
    BY <2>1, <2>4, SignalledStays DEF ParseOption, MainGoto, Carrying
  <2>5. CASE Spawn
    <3>1. PICK p \in Unborn : pc' = [pc EXCEPT ![p] = "flag"]
      BY <2>2, <2>5 DEF Spawn, LoopHead
    <3>2. UNCHANGED <<accepted, taken>>
      BY <2>5 DEF Spawn
    <3>3. Carrying' \subseteq Carrying
      BY <3>1, <3>2 DEF Carrying, Typed
    <3> QED
      BY <2>1, <3>2, <3>3, SignalledStays
  <2>6. ASSUME NEW p \in Submitters, TestFlag(p) \/ Draw(p) \/ CountGenerated(p)
        PROVE  Signalled'
    <3>1. UNCHANGED <<accepted, taken>>
      BY <2>6 DEF TestFlag, Draw, CountGenerated
    <3>2. CASE TestFlag(p)
      <4>1. Carrying' \subseteq Carrying
        BY <2>1, <3>1, <3>2 DEF TestFlag, Carrying, Typed
      <4> QED
        BY <2>1, <3>1, <4>1, SignalledStays
    <3>3. CASE Draw(p)
      <4>1. Carrying' \subseteq Carrying
        BY <3>1, <3>3 DEF Draw, Carrying, Typed
      <4> QED
        BY <2>1, <3>1, <4>1, SignalledStays
    <3>4. CASE CountGenerated(p)
      <4>1. Carrying' \subseteq Carrying
        BY <3>1, <3>4 DEF CountGenerated, Carrying, Typed
      <4> QED
        BY <2>1, <3>1, <4>1, SignalledStays
    <3> QED
      BY <2>6, <3>2, <3>3, <3>4
  <2>7. ASSUME NEW p \in Submitters, SubmitThrows(p) PROVE Signalled'
    BY <2>1, <2>7, SignalledStays DEF SubmitThrows, AnswerThrew, AnswerWith, Carrying
  <2>8. ASSUME NEW p \in Submitters, pc[p] = "submit",
               UNCHANGED <<options, counters, mainPc, exitCode, spoiled>>,
               \/ Accept(p, EventOf(p)) /\ UNCHANGED pc
               \/ AnswerTrue(p) /\ Goto(p, AfterSubmit)
               \/ AnswerFalse(p) /\ Goto(p, "done")
        PROVE  Signalled'
    <3>1. CASE Accept(p, EventOf(p)) /\ UNCHANGED pc
      <4>1. HandsOver(p)
        BY <2>8, <3>1 DEF HandsOver
      <4>2. p \in Carrying /\ Carrying' = Carrying \ {p}
        BY <2>8, <3>1 DEF Accept, Carrying
      <4> QED
        BY <2>1, <4>1, <4>2, LastSubmit
    <3>2. CASE AnswerTrue(p) /\ Goto(p, AfterSubmit)
      <4>1. Carrying' \subseteq Carrying
        BY <2>2, <2>8, <3>2 DEF AnswerTrue, AnswerWith, AfterSubmit, Carrying, Typed
      <4> QED
        BY <2>1, <3>2, <4>1, SignalledStays DEF AnswerTrue, AnswerWith
    <3>3. CASE AnswerFalse(p) /\ Goto(p, "done")
      <4>1. Carrying' \subseteq Carrying
        BY <2>8, <3>3 DEF AnswerFalse, AnswerWith, Carrying, Typed
      <4> QED
        BY <2>1, <3>3, <4>1, SignalledStays DEF AnswerFalse, AnswerWith
    <3> QED
      BY <2>8, <3>1, <3>2, <3>3
  <2> HIDE DEF contractVars, options, counters, Goto, Held
  <2> QED
    BY <1>2, <2>3, <2>4, <2>5, <2>6, <2>7, <2>8, Steps DEF Loud
<1> QED
  BY <1>1, <1>2

\* Different numbers below m: there are m at most, and m if none is missing.
LEMMA NumbersFit ==
  ASSUME Typed, Numbers, NEW m \in Nat,
         \A i \in DOMAIN accepted : accepted[i].sequence < m
  PROVE  /\ Len(accepted) <= m
         /\ (\A n \in 0 .. m - 1 : Arrived(n)) => Len(accepted) = m
<1> DEFINE S == 1 .. Len(accepted)
           T == 0 .. m - 1
           f == [i \in S |-> accepted[i].sequence]
<1>1. /\ Len(accepted) \in Nat /\ DOMAIN accepted = S
      /\ \A i \in S : accepted[i].sequence \in T
  BY AcceptedTyped
<1>2. \A i, j \in S : accepted[i].sequence = accepted[j].sequence => i = j
  BY <1>1 DEF Numbers
<1>3. f \in Injection(S, T)
  BY <1>1, <1>2 DEF Injection, IsInjective
<1>4. IsFiniteSet(T) /\ Cardinality(S) = Len(accepted) /\ Cardinality(T) = m
  <2>1. Len(accepted) \in Int /\ m - 1 \in Int /\ 0 \in Int /\ 1 \in Int
    BY <1>1
  <2>2. Cardinality(1 .. Len(accepted)) = IF 1 > Len(accepted) THEN 0 ELSE Len(accepted) - 1 + 1
    BY <2>1, FS_Interval
  <2>3. /\ IsFiniteSet(0 .. m - 1)
        /\ Cardinality(0 .. m - 1) = IF 0 > m - 1 THEN 0 ELSE m - 1 - 0 + 1
    BY <2>1, FS_Interval
  <2> QED
    BY <1>1, <2>2, <2>3
<1>5. (\A n \in T : Arrived(n)) => f \in Surjection(S, T)
  BY <1>1, <1>3 DEF Arrived, Injection, Surjection
<1> HIDE DEF S, T, f
<1>6. /\ Cardinality(S) <= Cardinality(T)
      /\ Cardinality(S) = Cardinality(T) <=> f \in Surjection(S, T)
  BY <1>3, <1>4, FS_Injection
<1> QED
  BY <1>4, <1>5, <1>6 DEF T

-----------------------------------------------------------------------------
(* The theorems *)

IInv ==
  /\ Typed /\ Phase /\ Numbers /\ Ordered
  /\ Follows /\ Healthy /\ Counted /\ Signalled

LEMMA Invariance == Spec => []IInv
<1>1. Init => IInv
  BY TypedInit, PhaseInit, NumbersInit, FollowsInit, HealthyInit, CountsInit DEF IInv
<1>2. IInv /\ [Next]_vars => IInv'
  BY TypedStep, PhaseStep, NumbersStep, OrderedStep, FollowsStep, HealthyStep,
     CountedStep, SignalledStep DEF IInv
<1> QED
  BY <1>1, <1>2, PTL DEF Spec

\* The type invariant: no count is ahead of the numbers drawn, and an event is
\* only ever in the recorder's hands while its producer is inside submit()
\* (hpblr_record.cpp:128-150).
THEOREM TypeCorrect == Spec => []TypeOK
<1>1. IInv => TypeOK
  <2> SUFFICES ASSUME IInv PROVE TypeOK
    OBVIOUS
  <2>1. Len(accepted) <= nextSequence
    BY NumbersFit DEF IInv, Typed, Numbers
  <2>2. generated <= nextSequence
    BY <2>1, SetsFinite, AcceptedTyped DEF IInv, Counted, Typed
  <2>3. taken \subseteq {p \in Producers : pc[p] = "submit"}
    BY DEF IInv, Phase, Typed
  <2>4. \A p \in Submitters : sequence[p] <= nextSequence
    BY DEF IInv, Numbers
  <2> QED
    BY <2>2, <2>3, <2>4 DEF IInv, Typed, TypeOK, Labels, MainLabels
<1> QED
  BY <1>1, Invariance, PTL

\* What one producer drew stays in order in the file, however the producers
\* overtake each other between the counter and the queue.
THEOREM OrderKept == Spec => []OrderPerProducer
<1>1. IInv => OrderPerProducer
  <2> SUFFICES ASSUME IInv PROVE OrderPerProducer
    OBVIOUS
  <2>1. /\ DOMAIN saved = 1 .. Len(saved) /\ Len(saved) \in Nat
        /\ \A i \in DOMAIN saved : i \in DOMAIN accepted /\ saved[i] = accepted[i]
    <3>1. DOMAIN saved = 1 .. Len(saved) /\ Len(saved) \in Nat
      BY LenProperties DEF IInv, Typed
    <3>2. DOMAIN accepted = 1 .. Len(accepted) /\ Len(accepted) \in Nat
      BY AcceptedTyped DEF IInv
    <3> QED
      BY <3>1, <3>2 DEF IInv, Follows
  <2> QED
    BY <2>1 DEF IInv, Ordered, OrderPerProducer
<1> QED
  BY <1>1, Invariance, PTL

\* Of the events accepted after the signal, no two are of the same producer
\* (the loop of hpblr_record.cpp:152).
THEOREM SignalBounds == Spec => []SignalStopsProducers
<1>1. IInv => SignalStopsProducers
  BY DEF IInv, Signalled, SignalStopsProducers, Late
<1> QED
  BY <1>1, Invariance, PTL

\* A stop that returned normally leaves a complete recording: all producers have
\* ended, so no number is in hand, and what has arrived has no gap and no double.
LEMMA CompleteIsLogComplete ==
  ASSUME IInv, Complete, spoiled # "over"
  PROVE  LogComplete
<1>1. /\ Typed /\ Phase /\ Numbers /\ Follows /\ Healthy /\ Counted
  BY DEF IInv
<1>2. /\ saved = accepted /\ failure = "none" /\ stopping /\ ProducersDone
  BY <1>1 DEF Follows, Phase
<1>3. \A p \in Submitters : pc[p] \in {"unborn", "done"}
  BY <1>1, <1>2 DEF Phase
<1>4. \A n : ~InHand(n)
  BY <1>3 DEF InHand, Held
<1>5. \A n \in 0 .. nextSequence - 1 : InLimit(n) => Arrived(n)
  BY <1>1, <1>2, <1>4 DEF Healthy
<1> DEFINE m == IF limit = 0 \/ nextSequence <= limit THEN nextSequence ELSE limit
<1>6. limit \in Nat /\ nextSequence \in Nat
  BY <1>1 DEF Typed, OptionsTyped, limit
<1>7. m \in Nat
  BY <1>6
<1>8. \A i \in DOMAIN accepted : accepted[i].sequence < m
  BY <1>1, <1>6, AcceptedTyped DEF Numbers, InLimit
<1>9. \A n \in 0 .. m - 1 : Arrived(n)
  BY <1>5, <1>6 DEF InLimit
<1>10. ~stopRequested => limit # 0 /\ m = limit
  <2> SUFFICES ASSUME ~stopRequested PROVE limit # 0 /\ m = limit
    OBVIOUS
  <2>1. 0 \in Producers
    BY <1>1, SubmittersFinite DEF Typed, OptionsTyped, Producers
  <2>2. pc[0] = "done" /\ 0 \in Submitters
    BY <1>2, <2>1 DEF ProducersDone, Producers
  <2>3. limit # 0 /\ nextSequence >= limit
    BY <1>1, <1>2, <2>2 DEF Healthy
  <2> QED
    BY <1>6, <2>3
<1> HIDE DEF m
<1>11. Len(accepted) = m
  BY <1>1, <1>7, <1>8, <1>9, NumbersFit
<1>12. Sequences(saved) = 0 .. Len(saved) - 1
  <2>1. \A i \in DOMAIN accepted : accepted[i].sequence \in 0 .. m - 1
    BY <1>1, <1>7, <1>8, AcceptedTyped
  <2> QED
    BY <1>2, <1>9, <1>11, <2>1 DEF Sequences, Arrived
<1>13. program = "record" => generated = Len(saved)
  <2>1. Uncounted = {}
    BY <1>1, <1>3 DEF Uncounted, Phase, Typed
  <2>2. Cardinality(Uncounted) = 0 /\ generated \in Nat
    BY <1>1, <2>1, FS_EmptySet DEF Typed
  <2> QED
    BY <1>1, <1>2, <2>2 DEF Counted
<1>14. \A p \in Submitters : Range(results[p]) \subseteq {"true"}
  BY <1>1, <1>2 DEF Healthy
<1>15. Recording = saved
  BY DEF Recording
<1> QED
  BY <1>2, <1>10, <1>11, <1>12, <1>13, <1>14, <1>15 DEF LogComplete

-----------------------------------------------------------------------------
(* The command line *)

\* The word behind the last --events of the first n words.
Asking(n) == LastUse(commandLine, Grammar.flag, "--events", n)

\* The first n words are flags, options and their values, and the limit is the
\* one given last or, if none was, the default.
ReadUpTo(n) ==
  /\ n \in 0 .. Len(commandLine) /\ OptionNext(commandLine, Grammar.flag, n)
  /\ \/ Asking(n) = {} /\ limit = DefaultEvents
     \/ \E word \in STRING : Asking(n) = {word} /\ limit \in Values(Grammar, "--events", word)

\* hpblr_bench was told to write its report into the output file.
OverTheLog == given["--report"] = given["--output"]

\* What has been read of the line, what exit code 0 needs, and who overwrites.
LineRead ==
  /\ commandLine \in Seq(STRING)
  /\ mainPc = "options" =>
       \E n \in 0 .. Len(commandLine) :
         ReadUpTo(n) /\ args = SubSeq(commandLine, n + 1, Len(commandLine))
  /\ mainPc \notin {"options", "exited"} => ReadUpTo(Len(commandLine))
  /\ mainPc \notin {"leave", "exited"} => exitCode = "none" /\ spoiled # "over"
  /\ spoiled = "over" => OverTheLog
  /\ exitCode = "0" => HelpIsAsked \/ (stopping /\ ReadUpTo(Len(commandLine)))

LEMMA LineAsks ==
  ASSUME commandLine \in Seq(STRING)
  PROVE  /\ Asked(Grammar, commandLine, "--events") = Asking(Len(commandLine))
         /\ \A i \in 1 .. Len(commandLine) :
              IsOption(Grammar, commandLine)[i] <=> i \in Turns(commandLine, Grammar.flag)
<1>1. IsOption(Grammar, commandLine) = TurnsOf(commandLine, Grammar.flag)
  BY DEF IsOption, TurnsOf
<1>2. DOMAIN commandLine = 1 .. Len(commandLine)
  BY LenProperties
<1>3. \A i \in DOMAIN commandLine :
         i \in Turns(commandLine, Grammar.flag) <=> IsOption(Grammar, commandLine)[i]
  BY <1>1, Zenon DEF Turns
<1>4. {i \in DOMAIN commandLine :
         commandLine[i] = "--events" /\ IsOption(Grammar, commandLine)[i]}
        = {i \in 1 .. Len(commandLine) :
             commandLine[i] = "--events" /\ i \in Turns(commandLine, Grammar.flag)}
  BY <1>2, <1>3, Zenon
<1>5. Asked(Grammar, commandLine, "--events") = Asking(Len(commandLine))
  BY <1>4, Zenon DEF Asked, Asking, LastUse
<1> QED
  BY <1>2, <1>3, <1>5, Zenon

LEMMA LineInit ==
  ASSUME Init
  PROVE  LineRead
<1>1. commandLine \in Seq(STRING)
  <2>1. \A name \in {"record", "bench"} : \A line \in CommandLines[name] : line \in Seq(STRING)
    BY AppAssumption, Zenon
  <2> QED
    BY <2>1 DEF Init
<1>2. limit = DefaultEvents
  <2>1. "--events" \in Valued(RecordOptions) \cup Valued(BenchOptions) \cup BenchOptions.flag
    BY DEF Valued, RecordOptions, BenchOptions
  <2>2. Defaults["--events"] = DefaultEvents
    BY <2>1 DEF Defaults
  <2> QED
    BY <2>2 DEF Init, limit
<1>3. OptionNext(commandLine, Grammar.flag, 0) /\ Asking(0) = {}
  BY <1>1, NoneUsed DEF Asking
<1>4. ReadUpTo(0) /\ 0 \in 0 .. Len(commandLine)
  BY <1>1, <1>2, <1>3, LenProperties DEF ReadUpTo
<1>5. args = SubSeq(commandLine, 0 + 1, Len(commandLine))
  BY <1>1, SubSeqFull DEF Init
<1> QED
  BY <1>1, <1>4, <1>5 DEF Init, LineRead

\* Where main is on the line, and what is left of it.
LEMMA LeftToRead ==
  ASSUME LineRead, mainPc = "options"
  PROVE  \E line \in Seq(STRING), n \in Nat :
           /\ line = commandLine /\ n <= Len(line) /\ ReadUpTo(n)
           /\ args \in Seq(STRING) /\ Len(args) = Len(line) - n
           /\ \A i \in 1 .. Len(line) - n : args[i] = line[n + i]
           /\ \A k \in Nat : k <= Len(args) =>
                SubSeq(args, k + 1, Len(args)) = SubSeq(line, (n + k) + 1, Len(line))
<1>1. PICK line \in Seq(STRING) : line = commandLine
  BY DEF LineRead
<1>2. PICK l \in Nat : l = Len(line)
  BY LenProperties
<1>3. PICK n \in 0 .. l : ReadUpTo(n) /\ args = SubSeq(line, n + 1, Len(line))
  BY <1>1, <1>2 DEF LineRead
<1>4. n \in Nat /\ n <= Len(line) /\ 0 \in Nat
  BY <1>2, <1>3
<1>5. args \in Seq(STRING) /\ Len(args) = Len(line) - n
  <2>1. Len(SubSeq(line, n + 1, Len(line))) \in Nat
    BY <1>2, <1>3, <1>4, SubSeqProperties, ElementOfSeq
  <2>2. 0 <= Len(args)
    BY <1>3, <2>1
  <2> QED
    BY <1>3, <1>4, <2>2, RestOfRest
<1>6. \A i \in 1 .. Len(line) - n : args[i] = line[n + i]
  <2>1. 0 <= Len(args)
    BY <1>5, LenProperties
  <2> QED
    BY <1>3, <1>4, <2>1, RestOfRest
<1>7. ASSUME NEW k \in Nat, k <= Len(args)
      PROVE  SubSeq(args, k + 1, Len(args)) = SubSeq(line, (n + k) + 1, Len(line))
  BY <1>3, <1>4, <1>7, RestOfRest
<1> QED
  BY <1>1, <1>3, <1>4, <1>5, <1>6, <1>7

LEMMA ReadMore ==
  ASSUME Typed, LineRead, ParseOption
  PROVE  LineRead'
<1>1. /\ mainPc = "options" /\ mainPc' = "options" /\ exitCode = "none" /\ exitCode' = "none"
      /\ UNCHANGED <<program, commandLine>> /\ spoiled' # "over" /\ ReadOption(Grammar)
  BY DEF ParseOption, MainGoto, LineRead
<1>2. PICK line \in Seq(STRING), n \in Nat :
         /\ line = commandLine /\ n <= Len(line) /\ ReadUpTo(n)
         /\ args \in Seq(STRING) /\ Len(args) = Len(line) - n
         /\ \A i \in 1 .. Len(line) - n : args[i] = line[n + i]
         /\ \A k \in Nat : k <= Len(args) =>
              SubSeq(args, k + 1, Len(args)) = SubSeq(line, (n + k) + 1, Len(line))
  BY <1>1, LeftToRead
<1>3. PICK l \in Nat, a \in Nat : l = Len(line) /\ a = Len(args)
  BY <1>2, LenProperties
<1>4. PICK flags \in {Grammar.flag} : flags = Grammar.flag /\ Grammar' = Grammar
  BY <1>1 DEF Grammar
<1>5. OptionNext(line, flags, n) /\ "--events" \notin flags
  BY <1>2, <1>4 DEF ReadUpTo, Grammar, GrammarOf, RecordOptions, BenchOptions
<1>6. CASE ReadFlag(Grammar)
  <2>1. args # <<>> /\ args[1] \in flags /\ args' = Tail(args)
        /\ given' = [given EXCEPT ![args[1]] = TRUE]
    BY <1>4, <1>6 DEF ReadFlag
  <2>2. a >= 1 /\ 1 \in 1 .. l - n
    <3>1. a # 0
      BY <1>2, <1>3, <2>1, EmptySeq
    <3> QED
      BY <1>2, <1>3, <3>1
  <2>3. n + 1 <= Len(line) /\ args[1] = line[n + 1] /\ line[n + 1] \in flags
    BY <1>2, <1>3, <2>1, <2>2
  <2>4. args' = SubSeq(line, (n + 1) + 1, Len(line))
    <3>1. PICK s \in Seq(STRING) : s = args
      BY <1>2
    <3>2. Tail(s) = SubSeq(s, 2, Len(s))
      BY <2>1, <3>1, TailIsSubSeq
    <3>3. 1 \in Nat /\ 1 <= Len(args) /\ 1 + 1 = 2
      BY <1>3, <2>2
    <3>4. SubSeq(args, 1 + 1, Len(args)) = SubSeq(line, (n + 1) + 1, Len(line))
      BY <1>2, <3>3
    <3>5. args' = SubSeq(args, 2, Len(args))
      <4>1. args' = Tail(args)
        BY <2>1
      <4> QED
        BY <3>1, <3>2, <4>1
    <3> QED
      BY <3>3, <3>4, <3>5
  <2>5. /\ OptionNext(line, flags, n + 1)
        /\ LastUse(line, flags, "--events", n + 1) = LastUse(line, flags, "--events", n)
    BY <1>5, <2>3, FlagUsed
  <2>6. limit' = limit
    BY <1>5, <2>1 DEF limit, Typed, OptionsTyped
  <2>7. ReadUpTo(n + 1)' /\ n + 1 \in 0 .. Len(line)
    <3>1. n + 1 \in 0 .. Len(line)
      BY <1>2, <1>3, <2>3
    <3>2. Asking(n + 1)' = Asking(n) /\ OptionNext(commandLine, Grammar.flag, n + 1)'
      BY <1>1, <1>2, <1>4, <2>5 DEF Asking
    <3> QED
      BY <1>1, <1>2, <1>4, <2>6, <3>1, <3>2 DEF ReadUpTo
  <2> QED
    BY <1>1, <1>2, <2>4, <2>7 DEF LineRead
<1>7. CASE ReadValue(Grammar)
  <2>1. /\ a >= 2 /\ args[1] \in Valued(Grammar)
        /\ args' = SubSeq(args, 2 + 1, Len(args))
    BY <1>3, <1>7 DEF ReadValue
  <2>2. PICK value \in Values(Grammar, args[1], args[2]) :
               given' = [given EXCEPT ![args[1]] = value]
    BY <1>7 DEF ReadValue
  <2>3. n + 2 <= Len(line) /\ args[1] = line[n + 1] /\ args[2] = line[n + 2]
        /\ n + 2 \in 1 .. l
    <3>1. 1 \in 1 .. l - n /\ 2 \in 1 .. l - n
      BY <1>2, <1>3, <2>1
    <3> QED
      BY <1>2, <1>3, <2>1, <3>1
  <2>4. args' = SubSeq(line, (n + 2) + 1, Len(line))
    BY <1>2, <1>3, <2>1
  <2>5. line[n + 1] \notin flags
    BY <1>4, <2>1, <2>3 DEF Valued, Grammar, GrammarOf, RecordOptions, BenchOptions
  <2>6. /\ OptionNext(line, flags, n + 2)
        /\ \A option : LastUse(line, flags, option, n + 2) =
             IF option = line[n + 1] THEN {line[n + 2]} ELSE LastUse(line, flags, option, n)
    BY <1>5, <2>3, <2>5, ValueUsed
  <2>7. args[2] \in STRING
    BY <1>2, <1>3, <2>3, ElementOfSeq
  <2>8. \/ /\ LastUse(line, flags, "--events", n + 2) = {}
           /\ limit' = DefaultEvents
        \/ \E word \in STRING : /\ LastUse(line, flags, "--events", n + 2) = {word}
                                /\ limit' \in Values(Grammar, "--events", word)
    <3>1. CASE args[1] = "--events"
      <4>1. LastUse(line, flags, "--events", n + 2) = {args[2]}
        BY <2>3, <2>6, <3>1
      <4>2. limit' \in Values(Grammar, "--events", args[2])
        BY <2>2, <3>1 DEF limit, Typed, OptionsTyped
      <4> QED
        BY <2>7, <4>1, <4>2
    <3>2. CASE args[1] # "--events"
      <4>1. LastUse(line, flags, "--events", n + 2) = LastUse(line, flags, "--events", n)
        BY <2>3, <2>6, <3>2
      <4>2. limit' = limit
        BY <2>2, <3>2 DEF limit, Typed, OptionsTyped
      <4>3. Asking(n) = LastUse(line, flags, "--events", n)
        BY <1>2, <1>4 DEF Asking
      <4>4. \/ Asking(n) = {} /\ limit = DefaultEvents
            \/ \E word \in STRING : Asking(n) = {word} /\ limit \in Values(Grammar, "--events", word)
        BY <1>2 DEF ReadUpTo
      <4> QED
        BY <4>1, <4>2, <4>3, <4>4, Zenon
    <3> QED
      BY <3>1, <3>2
  <2>9. ReadUpTo(n + 2)' /\ n + 2 \in 0 .. Len(line)
    <3>1. n + 2 \in 0 .. Len(line)
      BY <1>3, <2>3
    <3>2. Asking(n + 2)' = LastUse(line, flags, "--events", n + 2)
      BY <1>1, <1>2, <1>4 DEF Asking
    <3> QED
      BY <1>1, <1>2, <1>4, <2>6, <2>8, <3>1, <3>2 DEF ReadUpTo
  <2> QED
    BY <1>1, <1>2, <2>4, <2>9 DEF LineRead
<1> QED
  BY <1>1, <1>6, <1>7 DEF ReadOption

\* usage is asked for where an option may stand.
LEMMA HelpRead ==
  ASSUME LineRead, AskedForHelp
  PROVE  LineRead'
<1>1. /\ mainPc = "options" /\ mainPc' = "exited" /\ exitCode' = "0" /\ spoiled' # "over"
      /\ UNCHANGED <<program, commandLine>> /\ args # <<>> /\ args[1] \in Grammar.help
  BY DEF AskedForHelp, Exit, MainGoto, LineRead, Help
<1>2. PICK line \in Seq(STRING), n \in Nat :
         /\ line = commandLine /\ n <= Len(line) /\ ReadUpTo(n)
         /\ args \in Seq(STRING) /\ Len(args) = Len(line) - n
         /\ \A i \in 1 .. Len(line) - n : args[i] = line[n + i]
  BY <1>1, LeftToRead
<1>3. PICK l \in Nat, a \in Nat : l = Len(line) /\ a = Len(args)
  BY <1>2, LenProperties
<1>4. a # 0
  BY <1>1, <1>2, <1>3, EmptySeq
<1>5. n + 1 <= Len(line) /\ line[n + 1] \in Grammar.help /\ n + 1 \in 1 .. l
  <2>1. 1 \in 1 .. l - n /\ n + 1 <= l
    BY <1>2, <1>3, <1>4
  <2> QED
    BY <1>1, <1>2, <1>3, <2>1
<1>6. n + 1 \in Turns(line, Grammar.flag)
  BY <1>2, <1>5 DEF ReadUpTo, OptionNext
<1>7. IsOption(Grammar, commandLine)[n + 1] /\ n + 1 \in DOMAIN commandLine
  <2>1. commandLine \in Seq(STRING) /\ n + 1 \in 1 .. Len(commandLine)
    BY <1>2, <1>3, <1>5
  <2>2. n + 1 \in Turns(commandLine, Grammar.flag)
    BY <1>2, <1>6
  <2>3. \A i \in 1 .. Len(commandLine) :
           IsOption(Grammar, commandLine)[i] <=> i \in Turns(commandLine, Grammar.flag)
    BY <2>1, LineAsks
  <2> QED
    BY <2>1, <2>2, <2>3, LenProperties, Zenon
<1>8. HelpIsAsked
  <2>1. commandLine[n + 1] \in Grammar.help
    BY <1>2, <1>5
  <2> QED
    BY <1>7, <2>1, Zenon DEF HelpIsAsked
<1>9. HelpIsAsked'
  BY <1>1, <1>8 DEF HelpIsAsked, Grammar
<1> QED
  BY <1>1, <1>2, <1>9 DEF LineRead

\* The words are used up.
LEMMA ReadAll ==
  ASSUME LineRead, OptionsRead
  PROVE  LineRead'
<1>1. /\ mainPc = "options" /\ mainPc' = "open" /\ exitCode' = "none" /\ spoiled' # "over"
      /\ UNCHANGED <<program, commandLine, given>> /\ args = <<>>
  BY DEF OptionsRead, MainGoto, LineRead
<1>2. PICK line \in Seq(STRING), n \in Nat :
         /\ line = commandLine /\ n <= Len(line) /\ ReadUpTo(n)
         /\ Len(args) = Len(line) - n
  BY <1>1, LeftToRead
<1>3. n = Len(line)
  BY <1>1, <1>2, EmptySeq, LenProperties
<1>4. ReadUpTo(Len(commandLine))'
  BY <1>1, <1>2, <1>3 DEF ReadUpTo, Asking, Grammar, limit
<1> QED
  BY <1>1, <1>2, <1>4 DEF LineRead

\* Once read, the options stay what they are.
LEMMA LineKept ==
  ASSUME LineRead, UNCHANGED <<program, commandLine, given>>,
         mainPc' = "options" => UNCHANGED <<mainPc, args>>,
         mainPc' \notin {"options", "exited"} => mainPc \notin {"options", "exited"},
         mainPc' \notin {"leave", "exited"} =>
           mainPc \notin {"leave", "exited"} /\ UNCHANGED <<exitCode, spoiled>>,
         spoiled' = "over" => spoiled = "over" \/ OverTheLog,
         exitCode' = "0" =>
           \/ exitCode = "0" /\ (stopping => stopping')
           \/ mainPc \notin {"options", "exited"} /\ stopping'
  PROVE  LineRead'
<1>1. /\ Grammar' = Grammar /\ OverTheLog' = OverTheLog /\ HelpIsAsked' = HelpIsAsked
      /\ limit' = limit
  BY DEF Grammar, OverTheLog, HelpIsAsked, limit
<1>2. \A n \in 0 .. Len(commandLine) : ReadUpTo(n) => ReadUpTo(n)'
  BY <1>1 DEF ReadUpTo, Asking
<1>3. ReadUpTo(Len(commandLine)) => ReadUpTo(Len(commandLine))'
  BY <1>1 DEF ReadUpTo, Asking
<1> QED
  BY <1>1, <1>2, <1>3 DEF LineRead

LEMMA LineStep ==
  ASSUME Typed, Phase, LineRead, [Next]_vars
  PROVE  LineRead'
<1>1. CASE ParseOption
  BY <1>1, ReadMore
<1>2. CASE AskedForHelp
  BY <1>2, HelpRead
<1>3. CASE OptionsRead
  BY <1>3, ReadAll
<1>4. CASE OptionsRefused \/ StartFails \/ StartRecorder \/ Spawn \/ SpawnFails \/ JoinProducers
  <2>1. /\ UNCHANGED <<program, commandLine, given, spoiled>>
        /\ mainPc' \in {"exited", "spawn", "unwind", "stop"}
        /\ mainPc' # "exited" => UNCHANGED exitCode /\ mainPc \in {"open", "spawn"}
        /\ exitCode' = "0" => exitCode = "0" /\ mainPc \in {"open", "spawn"}
    BY <1>4 DEF OptionsRefused, StartFails, StartRecorder, Spawn, SpawnFails, JoinProducers,
                Exit, MainGoto
  <2>2. exitCode' # "0"
    BY <2>1 DEF LineRead
  <2> QED
    BY <2>1, <2>2, LineKept
<1>5. CASE RecorderStopped \/ Report \/ ReportFails \/ Unwind \/ Leave
  <2>1. /\ UNCHANGED <<program, commandLine, given>>
        /\ mainPc \in {"stop", "report", "unwind", "leave"}
        /\ mainPc' \in {"report", "leave", "exited"}
        /\ mainPc' = "report" => mainPc = "stop" /\ UNCHANGED <<exitCode, spoiled>>
        /\ exitCode' = "0" => exitCode = "0" \/ mainPc = "report"
        /\ stopping \/ mainPc = "unwind" => stopping'
        /\ spoiled' = "over" => spoiled = "over" \/ OverTheLog
    <3>1. CASE RecorderStopped
      BY <3>1 DEF RecorderStopped, MainGoto, StopOk, StopThrew
    <3>2. CASE Report
      <4>1. spoiled' = "over" => OverTheLog
        <5>1. OverTheLog \/ spoiled' \in {"behind", "no"}
          BY <3>2, Zenon DEF Report, OverTheLog
        <5> QED
          BY <5>1
      <4> QED
        BY <3>2, <4>1 DEF Report, MainGoto, contractVars
    <3>3. CASE ReportFails
      BY <3>3 DEF ReportFails, MainGoto, contractVars
    <3>4. CASE Unwind \/ Leave
      BY <3>4 DEF Unwind, Leave, MainGoto, StopBegins, Destroyed
    <3> QED
      BY <1>5, <3>1, <3>2, <3>3, <3>4
  <2>2. mainPc = "report" => stopping
    BY DEF Phase
  <2> QED
    BY <2>1, <2>2, LineKept
<1>6. ASSUME NEW p \in Submitters,
             Produce(p) \/ Submit(p) \/ SubmitThrows(p) \/ GeneratorThrows(p)
      PROVE  LineRead'
  <2>1. /\ UNCHANGED <<program, commandLine, given, args, spoiled, stopping>>
        /\ \/ UNCHANGED <<mainPc, exitCode>>
           \/ mainPc' = "exited" /\ exitCode' = "abort"
    BY <1>6 DEF Produce, TestFlag, Draw, CountGenerated, Submit, SubmitThrows,
                GeneratorThrows, options, contractVars, Accept, AnswerTrue, AnswerFalse, AnswerThrew, AnswerWith
  <2> QED
    BY <2>1, LineKept
<1>7. CASE SignalHandler \/ RecorderThread \/ Terminated \/ UNCHANGED vars
  <2>1. UNCHANGED <<program, commandLine, given, args, spoiled, stopping, mainPc, exitCode>>
    BY <1>7 DEF SignalHandler, RecorderThread, Terminated, vars, appVars, options,
                contractVars, Save, Fail
  <2> QED
    BY <2>1, LineKept
<1> QED
  BY <1>1, <1>2, <1>3, <1>4, <1>5, <1>6, <1>7 DEF Next, Main

LEMMA LineInvariant == Spec => []LineRead
<1>1. IInv /\ LineRead /\ [Next]_vars => LineRead'
  BY LineStep DEF IInv
<1> QED
  BY LineInit, Invariance, <1>1, PTL DEF Spec

\* Exit code 0 of a recording: the file holds the numbers 0 to n - 1, each once,
\* where n is the limit or, after a signal, what hpblr_record says it is, unless
\* hpblr_bench was told to write its report over it (hpblr_bench.cpp:179).
THEOREM ExitZeroIsComplete == Spec => []StoppedMeansComplete
<1>1. IInv /\ LineRead => StoppedMeansComplete
  <2> SUFFICES ASSUME IInv, LineRead, exitCode = "0", stopping, ~OverTheLog
               PROVE  LogComplete
    BY DEF StoppedMeansComplete, OverTheLog
  <2>1. Complete
    BY DEF IInv, Phase
  <2>2. spoiled # "over"
    BY DEF LineRead
  <2> QED
    BY <2>1, <2>2, CompleteIsLogComplete
<1> QED
  BY <1>1, Invariance, LineInvariant, PTL

\* Exit code 0 without a question for help is a promise about the file: the
\* recorder was stopped, the recording is complete unless the report went over
\* it, and the limit is the one the command line asks for (parse_options,
\* hpblr_record.cpp:157-177, hpblr_bench.cpp:152-213).
THEOREM ExitZeroIsPromise == Spec => []ExitZeroMeansComplete
<1>1. IInv /\ LineRead /\ StoppedMeansComplete => ExitZeroMeansComplete
  <2> SUFFICES ASSUME IInv, LineRead, exitCode = "0", ~HelpIsAsked
               PROVE  /\ stopping
                      /\ limit \in IF AskedNumber(Grammar, commandLine, "--events") = {}
                                   THEN {DefaultEvents}
                                   ELSE AskedNumber(Grammar, commandLine, "--events")
    BY Zenon DEF ExitZeroMeansComplete
  <2>1. stopping /\ ReadUpTo(Len(commandLine)) /\ commandLine \in Seq(STRING)
    BY DEF LineRead
  <2>2. Asked(Grammar, commandLine, "--events") = Asking(Len(commandLine))
    BY <2>1, LineAsks
  <2>3. CASE Asking(Len(commandLine)) = {} /\ limit = DefaultEvents
    BY <2>1, <2>2, <2>3 DEF AskedNumber
  <2>4. ASSUME NEW word \in STRING, Asking(Len(commandLine)) = {word},
               limit \in Values(Grammar, "--events", word)
        PROVE  limit \in AskedNumber(Grammar, commandLine, "--events")
    <3>1. "--events" \notin Grammar.text /\ "--events" \notin Grammar.severity
      BY DEF Grammar, GrammarOf, RecordOptions, BenchOptions
    <3>2. limit \in Number(word)
      BY <2>4, <3>1 DEF Values
    <3> QED
      BY <2>2, <2>4, <3>2 DEF AskedNumber
  <2> QED
    BY <2>1, <2>3, <2>4 DEF ReadUpTo
<1> QED
  BY <1>1, Invariance, LineInvariant, ExitZeroIsComplete, PTL
=============================================================================
