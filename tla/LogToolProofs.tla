--------------------------- MODULE LogToolProofs ---------------------------
(***************************************************************************)
(* Proofs about LogTool, for every log, every damage to it, every command  *)
(* line and any moment at which the output fails.                          *)
(***************************************************************************)
EXTENDS LogTool, BinaryLogReaderFacts, FiniteSetTheorems

Options == Valued(ExportOptions)
OptionValues == STRING \cup {""} \cup Nat \cup {NoOption}

\* No answer has been asked for, the loop is on, and main is over.
Preparing == toolPc \in {"main", "options", "output", "open"}
Looping == toolPc \in {"next", "answer"}

\* TypeOK, with the types of all the variables and what the place in the
\* program says about the reader, the tally and the limit.
Typed ==
  /\ ReaderTyped
  /\ commandLine \in Seq(STRING) /\ args \in Seq(STRING)
  /\ given \in [Options -> OptionValues] /\ limit \in Nat
  /\ \A o \in Options : given[o] \in ValueType(o)
  /\ Preparing \/ Looping \/ toolPc \in {"leave", "exited"}
  /\ emitted \in Nat /\ first \in BOOLEAN /\ (first <=> emitted = 0)
  /\ limit # 0 => emitted <= limit
  /\ output \in Seq(Events \cup Marks) /\ outOk \in BOOLEAN
  /\ count \in Nat /\ severities \in [Severities -> Nat]
  /\ exitCode \in {"none", "0", "1"} /\ (toolPc = "exited" <=> exitCode # "none")
  /\ toolPc \notin {"main", "exited"} => command \in Commands
  /\ Preparing => emitted = 0 /\ output = <<>> /\ readerPc = "unopened" /\ answers = <<>>
  /\ Looping => (limit # 0 => emitted < limit)
  /\ toolPc = "main" => args = commandLine
  /\ toolPc = "next" => readerPc \in {"idle", "payload"}
  /\ toolPc = "answer" => readerPc = "idle" /\ answers # <<>>

LEMMA ToolParameters ==
  /\ Log \in Seq(Events) /\ Marks \cap Events = {} /\ CommandLines \subseteq Seq(STRING)
  /\ \A e \in Events : Fields[e].severity \in Severities
  /\ LogName # "" /\ NoOption \notin Nat
BY ToolAssumption

\* The nine options, each with its type.
LEMMA TypesOfOptions ==
  /\ Options = {"--input", "--format", "--output", "--from-ns", "--to-ns", "--limit",
                "--producer", "--type", "--severity"}
  /\ \A o \in {"--input", "--format", "--output"} : ValueType(o) = STRING \cup {""}
  /\ \A o \in {"--from-ns", "--to-ns"} : ValueType(o) = Nat \cup {NoOption}
  /\ ValueType("--limit") = Nat
  /\ ValueType("--producer") = 0 .. MaxU32 \cup {NoOption}
  /\ ValueType("--type") = 0 .. MaxU16 \cup {NoOption}
  /\ ValueType("--severity") = Severities \cup {NoOption}
<1>1. ExportOptions.text = {"--input", "--format", "--output"}
  BY DEF ExportOptions, CommonOptions
<1>2. Options = {"--input", "--format", "--output", "--from-ns", "--to-ns", "--limit",
                 "--producer", "--type", "--severity"}
  BY DEF Options, Valued, ExportOptions, CommonOptions
<1>3. \A o \in {"--input", "--format", "--output"} : ValueType(o) = STRING \cup {""}
  BY <1>1 DEF ValueType
<1>4. /\ ValueType("--limit") = Nat /\ ValueType("--severity") = Severities \cup {NoOption}
      /\ ValueType("--producer") = 0 .. MaxU32 \cup {NoOption}
      /\ ValueType("--type") = 0 .. MaxU16 \cup {NoOption}
  BY <1>1 DEF ValueType
<1>5. \A o \in {"--from-ns", "--to-ns"} : ValueType(o) = Nat \cup {NoOption}
  BY <1>1 DEF ValueType
<1> QED
  BY <1>2, <1>3, <1>4, <1>5

-----------------------------------------------------------------------------
(* The files the tool may find *)

LEMMA WholeLogTyped ==
  /\ WholeLog = LogOf(Log) /\ WholeLog \in Seq(Units) /\ Len(WholeLog) \in Nat
<1>1. Log \in Seq(Events)
  BY ToolParameters
<1>2. WholeLog = LogOf(Log)
  BY Parameters DEF WholeLog, LogOf
<1> QED
  BY <1>1, <1>2, PlaceEnds

\* The beginning of a log, and the same with one cell damaged, mirror it.
LEMMA PrefixMirrors ==
  ASSUME NEW f \in Prefixes(WholeLog)
  PROVE  /\ f \in Seq(Units) /\ Len(f) <= Len(WholeLog)
         /\ f = SubSeq(WholeLog, 1, Len(f)) /\ Len(f) \in Nat
         /\ \A i \in 1 .. Len(f) : f[i] = WholeLog[i]
<1>1. PICK n \in 0 .. Len(WholeLog) : f = SubSeq(WholeLog, 1, n)
  BY DEF Prefixes
<1>2. n \in Nat /\ n <= Len(WholeLog) /\ WholeLog \in Seq(Units) /\ Len(WholeLog) \in Nat
  BY WholeLogTyped
<1>3. /\ SubSeq(WholeLog, 1, n) \in Seq(Units) /\ Len(SubSeq(WholeLog, 1, n)) = n - 1 + 1
      /\ \A k \in 1 .. n - 1 + 1 : SubSeq(WholeLog, 1, n)[k] = WholeLog[1 + k - 1]
  BY <1>2, PieceIs
<1>4. n - 1 + 1 = n /\ \A k \in 1 .. n : 1 + k - 1 = k
  BY <1>2
<1> QED
  BY <1>1, <1>2, <1>3, <1>4

LEMMA DamagedMirrors ==
  ASSUME NEW f \in Prefixes(WholeLog), NEW g \in Damaged(f)
  PROVE  /\ g \in Seq(Units) /\ Len(g) = Len(f)
         /\ \A i \in 1 .. Len(g) : g[i] = WholeLog[i] \/ ~g[i].intact
<1>1. PICK i \in DOMAIN f : g = [f EXCEPT ![i].intact = FALSE]
  BY DEF Damaged
<1>2. f \in Seq(Units) /\ Len(f) \in Nat /\ DOMAIN f = 1 .. Len(f)
  BY PrefixMirrors, LenProperties
<1>3. f[i] \in Units /\ [f[i] EXCEPT !.intact = FALSE] \in Units
  <2>1. f[i] \in Units
    BY <1>1, <1>2, ElementOfSeq
  <2> QED
    BY <2>1 DEF Units
<1>4. f \in [1 .. Len(f) -> Units]
  BY <1>2
<1>5. g = [f EXCEPT ![i] = [f[i] EXCEPT !.intact = FALSE]]
  BY <1>1
<1>6. g \in [1 .. Len(f) -> Units]
  BY <1>3, <1>4, <1>5
<1>7. g \in Seq(Units) /\ Len(g) = Len(f)
  BY <1>2, <1>6, FunctionIsSeq
<1>8. \A j \in 1 .. Len(f) : g[j] = f[j] \/ ~g[j].intact
  <2> SUFFICES ASSUME NEW j \in 1 .. Len(f), g[j] # f[j]
               PROVE  ~g[j].intact
    OBVIOUS
  <2>1. j = i
    BY <1>2, <1>5
  <2>2. g[j] = [f[i] EXCEPT !.intact = FALSE]
    BY <1>2, <1>5, <2>1
  <2> QED
    BY <1>3, <2>2 DEF Units
<1> QED
  BY <1>7, <1>8, PrefixMirrors

LEMMA InitialFile ==
  ASSUME Init
  PROVE  file \in Seq(Units) /\ Mirrors(Log)
<1>1. CASE file \in Prefixes(WholeLog)
  BY <1>1, PrefixMirrors, WholeLogTyped DEF Mirrors
<1>2. CASE file \in UNION {Damaged(f) : f \in Prefixes(WholeLog)}
  <2>1. PICK f \in Prefixes(WholeLog) : file \in Damaged(f)
    BY <1>2
  <2> QED
    BY <2>1, DamagedMirrors, PrefixMirrors, WholeLogTyped DEF Mirrors
<1> QED
  BY <1>1, <1>2 DEF Init

\* A recorder still at work only adds to the file.
LEMMA GrowIsGrowth ==
  ASSUME Grow
  PROVE  /\ FileGrows /\ file' \in Seq(Units) /\ Len(file) <= Len(file')
         /\ Len(file) \in Nat /\ Len(file') \in Nat /\ Mirrors(Log)'
<1>1. PICK n \in Len(file) + 1 .. Len(WholeLog) : file' = SubSeq(WholeLog, 1, n)
  BY DEF Grow
<1>2. /\ file \in Seq(Units) /\ file = SubSeq(WholeLog, 1, Len(file)) /\ Len(file) \in Nat
      /\ Len(file) <= Len(WholeLog)
  BY PrefixMirrors DEF Grow
<1>3. WholeLog \in Seq(Units) /\ Len(WholeLog) \in Nat
  BY WholeLogTyped
<1>4. n \in 0 .. Len(WholeLog) /\ Len(file) < n
  BY <1>2, <1>3
<1>5. file' \in Prefixes(WholeLog)
  BY <1>1, <1>4 DEF Prefixes
<1>6. /\ file' \in Seq(Units) /\ Len(file') <= Len(WholeLog) /\ Len(file') \in Nat
      /\ \A i \in 1 .. Len(file') : file'[i] = WholeLog[i]
  BY <1>5, PrefixMirrors
<1>7. Len(file') = n
  <2>1. n \in Nat /\ n <= Len(WholeLog) /\ 1 <= n + 1
    BY <1>2, <1>4
  <2>2. Len(SubSeq(WholeLog, 1, n)) = n - 1 + 1
    BY <1>3, <2>1, PieceIs
  <2> QED
    BY <1>1, <2>1, <2>2
<1>8. SubSeq(file', 1, Len(file)) = file
  <2>1. Len(file) \in 0 .. Len(file')
    BY <1>2, <1>4, <1>7
  <2>2. /\ SubSeq(file', 1, Len(file)) \in Seq(Units)
        /\ Len(SubSeq(file', 1, Len(file))) = Len(file)
        /\ \A k \in 1 .. Len(file) : SubSeq(file', 1, Len(file))[k] = file'[k]
    <3>1. /\ SubSeq(file', 1, Len(file)) \in Seq(Units)
          /\ Len(SubSeq(file', 1, Len(file))) = Len(file) - 1 + 1
          /\ \A k \in 1 .. Len(file) - 1 + 1 :
               SubSeq(file', 1, Len(file))[k] = file'[1 + k - 1]
      BY <1>2, <1>6, <2>1, PieceIs
    <3>2. Len(file) - 1 + 1 = Len(file) /\ \A k \in 1 .. Len(file) : 1 + k - 1 = k
      BY <1>2
    <3> QED
      BY <3>1, <3>2
  <2>3. \A k \in 1 .. Len(file) : file'[k] = file[k]
    BY <1>2, <1>4, <1>6, <1>7, PrefixMirrors DEF Grow
  <2> QED
    BY <1>2, <2>2, <2>3, SeqEqual
<1>9. FileGrows
  <2>1. Len(file) \in 0 .. Len(file')
    BY <1>2, <1>4, <1>7
  <2>2. /\ SubSeq(file', Len(file) + 1, Len(file')) \in Seq(Units)
        /\ SubSeq(file', 1, Len(file)) \o SubSeq(file', Len(file) + 1, Len(file')) = file'
    BY <1>6, <2>1, CutInTwo
  <2> QED
    BY <1>8, <2>2 DEF FileGrows
<1> QED
  BY <1>2, <1>4, <1>6, <1>7, <1>9, WholeLogTyped DEF Mirrors
-----------------------------------------------------------------------------
(* Types *)

LEMMA LimitIsNumber ==
  ASSUME command \in Commands, NEW word \in STRING
  PROVE  /\ Values(Grammar, "--limit", word) \subseteq Nat
         /\ \A o \in Valued(Grammar) :
              o \in Options /\ Values(Grammar, o, word) \subseteq OptionValues
<1>1. \A o : Values(Grammar, o, word) \subseteq STRING \cup Nat
  <2>1. Number(word) \subseteq Nat
    BY NumberAssumption DEF Number
  <2>2. SeverityFromString(word) \subseteq Nat
    BY <2>1 DEF SeverityFromString, Names, ShortNames, SeverityFromU16, Severities
  <2> QED
    BY <2>1, <2>2 DEF Values
<1>2. "--limit" \notin Grammar.text /\ "--limit" \notin Grammar.severity
  BY DEF Grammar, ExportOptions, CommonOptions
<1>3. Values(Grammar, "--limit", word) \subseteq Number(word)
  BY <1>2 DEF Values
<1>4. Number(word) \subseteq Nat
  BY NumberAssumption DEF Number
<1>5. Valued(Grammar) \subseteq Options
  BY DEF Grammar, ExportOptions, CommonOptions, Valued, Options
<1> QED
  BY <1>1, <1>3, <1>4, <1>5 DEF OptionValues

\* What parse_u32, parse_u16 and the others let through has the option's type.
LEMMA ValuesTyped ==
  ASSUME NEW word \in STRING, NEW o \in Valued(Grammar)
  PROVE  Values(Grammar, o, word) \subseteq ValueType(o)
<1>1. /\ o \in Options /\ Number(word) \subseteq Nat
      /\ SeverityFromString(word) \subseteq Severities
  <2>1. Valued(Grammar) \subseteq Options
    BY DEF Grammar, ExportOptions, CommonOptions, Valued, Options
  <2>2. Number(word) \subseteq Nat
    BY NumberAssumption DEF Number
  <2>3. SeverityFromString(word) \subseteq Severities
    BY DEF SeverityFromString, Names, ShortNames, SeverityFromU16, Severities
  <2> QED
    BY <2>1, <2>2, <2>3
<1>2. /\ Grammar.text \subseteq {"--input", "--format", "--output"}
      /\ Grammar.u64 = {"--from-ns", "--to-ns", "--limit"} /\ Grammar.positive = {}
      /\ Grammar.u32 = {"--producer"} /\ Grammar.u16 = {"--type"}
      /\ Grammar.severity = {"--severity"}
  BY DEF Grammar, ExportOptions, CommonOptions
<1>3. CASE o \in {"--input", "--format", "--output"}
  <2>1. Values(Grammar, o, word) \subseteq {word}
    BY <1>2, <1>3 DEF Values
  <2> QED
    BY <1>3, <2>1, TypesOfOptions
<1>4. CASE o \in {"--from-ns", "--to-ns", "--limit"}
  <2>1. Values(Grammar, o, word) \subseteq Number(word)
    BY <1>2, <1>4 DEF Values
  <2> QED
    BY <1>1, <1>4, <2>1, TypesOfOptions
<1>5. CASE o = "--producer"
  <2>1. Values(Grammar, o, word) \subseteq {n \in Number(word) : n <= MaxU32}
    BY <1>2, <1>5 DEF Values
  <2>2. \A n \in Nat : n <= MaxU32 => n \in 0 .. MaxU32
    BY WidthAssumption
  <2> QED
    BY <1>1, <1>5, <2>1, <2>2, TypesOfOptions
<1>6. CASE o = "--type"
  <2>1. Values(Grammar, o, word) \subseteq {n \in Number(word) : n <= MaxU16}
    BY <1>2, <1>6 DEF Values
  <2>2. \A n \in Nat : n <= MaxU16 => n \in 0 .. MaxU16
    BY WidthAssumption
  <2> QED
    BY <1>1, <1>6, <2>1, <2>2, TypesOfOptions
<1>7. CASE o = "--severity"
  <2>1. Values(Grammar, o, word) \subseteq SeverityFromString(word)
    BY <1>2, <1>7 DEF Values
  <2> QED
    BY <1>1, <1>7, <2>1, TypesOfOptions
<1> QED
  BY <1>1, <1>3, <1>4, <1>5, <1>6, <1>7, TypesOfOptions

\* Reading an option keeps the options' types.
LEMMA ReadOptionTyped ==
  ASSUME Typed, command \in Commands, ReadOption(Grammar)
  PROVE  /\ args' \in Seq(STRING) /\ given' \in [Options -> OptionValues]
         /\ given'["--limit"] \in Nat /\ \A o \in Options : given'[o] \in ValueType(o)
<1>1. ReadValue(Grammar)
  <2>1. Grammar.flag = {}
    BY DEF Grammar, ExportOptions, CommonOptions
  <2> QED
    BY <2>1 DEF ReadOption, ReadFlag
<1>2. args \in Seq(STRING) /\ Len(args) \in Nat /\ Len(args) >= 2
  BY <1>1, LenProperties DEF Typed, ReadValue
<1>3. args' \in Seq(STRING)
  BY <1>1, <1>2, SubSeqProperties DEF ReadValue
<1>4. args[1] \in STRING /\ args[2] \in STRING
  BY <1>2, ElementOfSeq
<1>5. PICK value \in Values(Grammar, args[1], args[2]) :
         given' = [given EXCEPT ![args[1]] = value]
  BY <1>1 DEF ReadValue
<1>6. args[1] \in Options /\ value \in OptionValues
  BY <1>1, <1>4, <1>5, LimitIsNumber DEF ReadValue
<1>7. given' \in [Options -> OptionValues]
  BY <1>5, <1>6 DEF Typed
<1>8. given'["--limit"] \in Nat
  <2>1. "--limit" \in Options
    BY DEF Options, Valued, ExportOptions, CommonOptions
  <2>2. CASE args[1] = "--limit"
    BY <1>4, <1>5, <2>1, <2>2, LimitIsNumber DEF Typed
  <2>3. CASE args[1] # "--limit"
    BY <1>5, <2>1, <2>3 DEF Typed, limit
  <2> QED
    BY <2>2, <2>3
<1>9. \A o \in Options : given'[o] \in ValueType(o)
  <2>1. args[1] \in Valued(Grammar) /\ value \in ValueType(args[1])
    BY <1>1, <1>4, <1>5, ValuesTyped DEF ReadValue
  <2> QED
    BY <1>5, <1>6, <2>1 DEF Typed
<1> QED
  BY <1>3, <1>7, <1>8, <1>9

LEMMA InitTyped ==
  ASSUME Init
  PROVE  Typed
<1>1. ReaderTyped
  <2>1. file \in Seq(Units) /\ Len(file) \in Nat
    BY InitialFile, LenProperties
  <2> QED
    <3>1. answers \in Seq(Answers)
      BY EmptySeq DEF Init, ReaderInit
    <3>2. info \in [first : Nat, last : Nat]
      BY DEF Init, ReaderInit
    <3>3. position \in 0 .. Len(file)
      BY <2>1 DEF Init, ReaderInit
    <3> QED
      BY <2>1, <3>1, <3>2, <3>3 DEF Init, ReaderInit, ReaderTyped
<1>2. given \in [Options -> OptionValues] /\ limit \in Nat
  <2>1. "--limit" \in Options /\ "--limit" \notin ExportOptions.text
    BY DEF Options, Valued, ExportOptions, CommonOptions
  <2>2. \A o \in Options : Defaults[o] \in OptionValues
    <3> SUFFICES ASSUME NEW o \in Options
                 PROVE  Defaults[o] \in OptionValues
      OBVIOUS
    <3>1. CASE o \in ExportOptions.text
      BY <3>1 DEF Defaults, Options, OptionValues
    <3>2. CASE o \notin ExportOptions.text /\ o = "--limit"
      BY <3>2 DEF Defaults, Options, OptionValues
    <3>3. CASE o \notin ExportOptions.text /\ o # "--limit"
      BY <3>3 DEF Defaults, Options, OptionValues
    <3> QED
      BY <3>1, <3>2, <3>3
  <2>3. Defaults["--limit"] = 0
    BY <2>1 DEF Defaults, Options
  <2> QED
    <3>1. Defaults \in [Options -> OptionValues]
      BY <2>2 DEF Defaults, Options
    <3> QED
      BY <2>3, <3>1 DEF Init, limit
<1>5. \A o \in Options : given[o] \in ValueType(o)
  <2> SUFFICES ASSUME NEW o \in Options
               PROVE  Defaults[o] \in ValueType(o)
    BY DEF Init
  <2>1. ExportOptions.text = {"--input", "--format", "--output"}
    BY DEF ExportOptions, CommonOptions
  <2>2. CASE o \in ExportOptions.text
    <3>1. Defaults[o] \in STRING \cup {""}
      BY <2>1, <2>2 DEF Defaults, Options
    <3>2. ValueType(o) = STRING \cup {""}
      BY <2>1, <2>2, TypesOfOptions
    <3> QED
      BY <3>1, <3>2
  <2>3. CASE o \notin ExportOptions.text /\ o = "--limit"
    BY <2>3, TypesOfOptions DEF Defaults, Options
  <2>4. CASE o \notin ExportOptions.text /\ o # "--limit"
    <3>1. Defaults[o] = NoOption
      BY <2>4 DEF Defaults, Options
    <3>2. o \in {"--from-ns", "--to-ns", "--producer", "--type", "--severity"}
      BY <2>1, <2>4, TypesOfOptions
    <3> QED
      BY <3>1, <3>2, TypesOfOptions
  <2> QED
    BY <2>2, <2>3, <2>4
<1>3. commandLine \in Seq(STRING) /\ args \in Seq(STRING)
  BY ToolParameters DEF Init
<1>4. output \in Seq(Events \cup Marks) /\ severities \in [Severities -> Nat]
  BY EmptySeq DEF Init
<1> QED
  BY <1>1, <1>2, <1>3, <1>4, <1>5 DEF Init, ReaderInit, Typed, Preparing, Looping

LEMMA OneIsSeq ==
  ASSUME NEW S, NEW x \in S
  PROVE  <<x>> \in Seq(S)
OBVIOUS

LEMMA MarkTyped ==
  ASSUME NEW mark \in Marks
  PROVE  <<mark>> \in Seq(Events \cup Marks)
BY OneIsSeq

\* What is put into the output is typed.
LEMMA PutTyped ==
  ASSUME Typed, NEW items \in Seq(Events \cup Marks), Put(items)
  PROVE  output' \in Seq(Events \cup Marks)
BY Joined DEF Put, Typed

\* From main to the opened log.
LEMMA CommandLineTyped ==
  ASSUME Typed, MainOnly \/ Dispatch \/ ParseOption \/ OptionsRefused \/ OptionsRead
  PROVE  Typed'
<1>1. ReaderTyped'
  BY DEF Typed, ReaderTyped, readerVars, MainOnly, Dispatch, ParseOption, OptionsRefused,
         OptionsRead
<1>2. CASE MainOnly
  BY <1>1, <1>2 DEF MainOnly, Exit, Typed, readerVars, options, tally, Preparing, Looping,
                    limit, command
<1>3. CASE Dispatch
  <2>1. args \in Seq(STRING) /\ args # <<>>
    BY <1>3 DEF Typed, Dispatch
  <2>2. Tail(args) \in Seq(STRING)
    BY <2>1, HeadThenTail
  <2> QED
    BY <1>1, <1>3, <2>2 DEF Dispatch, Typed, readerVars, tally, Preparing, Looping, limit,
                            command
<1>4. CASE ParseOption
  <2>1. /\ args' \in Seq(STRING) /\ given' \in [Options -> OptionValues]
        /\ given'["--limit"] \in Nat /\ \A o \in Options : given'[o] \in ValueType(o)
    BY <1>4, ReadOptionTyped DEF ParseOption, Typed
  <2> QED
    BY <1>1, <1>4, <2>1 DEF ParseOption, Typed, readerVars, tally, Preparing, Looping, limit,
                            command
<1>5. CASE OptionsRefused
  BY <1>1, <1>5 DEF OptionsRefused, Exit, Typed, readerVars, options, tally, Preparing,
                    Looping, limit, command
<1>6. CASE OptionsRead
  BY <1>1, <1>6 DEF OptionsRead, Typed, readerVars, options, tally, Preparing, Looping,
                    limit, command
<1> QED
  BY <1>2, <1>3, <1>4, <1>5, <1>6

LEMMA OpeningTyped ==
  ASSUME Typed, OpenOutput \/ OpenOutputFails \/ OpenLog \/ OpenLogFails
  PROVE  Typed'
<1>1. CASE OpenOutput
  <2>1. ReaderTyped'
    <3>1. file' \in Seq(Units) /\ Len(file') \in Nat
      BY <1>1, EmptySeq, LenProperties DEF OpenOutput, Typed, ReaderTyped
    <3> QED
      BY <1>1, <3>1 DEF OpenOutput, Typed, ReaderTyped, readerVars, Preparing
  <2> QED
    BY <1>1, <2>1 DEF OpenOutput, Typed, readerVars, options, tally, Preparing, Looping,
                      limit, command
<1>2. CASE OpenOutputFails
  BY <1>2 DEF OpenOutputFails, Exit, Typed, ReaderTyped, readerVars, options, tally,
              Preparing, Looping, limit, command
<1>3. CASE OpenLog
  <2>1. ReaderTyped'
    BY <1>3, OpenTyped DEF OpenLog, Typed
  <2>2. PICK head \in {<<"columns">>, <<"[">>, <<>>} : Put(head)
    BY <1>3 DEF OpenLog
  <2>3. head \in Seq(Events \cup Marks)
    BY <2>2, MarkTyped, EmptySeq DEF Marks
  <2>4. output' \in Seq(Events \cup Marks)
    BY <2>2, <2>3, PutTyped
  <2> QED
    BY <1>3, <2>1, <2>4 DEF OpenLog, Open, Typed, options, tally, Preparing, Looping, limit,
                            command
<1>4. CASE OpenLogFails
  <2>1. ReaderTyped'
    BY <1>4, OpenTyped DEF OpenLogFails, Typed, ReaderTyped, readerVars
  <2> QED
    BY <1>4, <2>1 DEF OpenLogFails, Exit, Typed, options, tally, Preparing, Looping, limit,
                      command
<1> QED
  BY <1>1, <1>2, <1>3, <1>4

LEMMA CallNextTyped ==
  ASSUME Typed, CallNext
  PROVE  Typed'
<1>1. ReaderTyped'
  BY NextRecordTyped DEF Typed, CallNext
<1>2. Accepts \/ Returns \/ Gives("end") \/ Gives("format") \/ Gives("crc")
  BY NextRecordIs DEF Typed, CallNext
<1>3. /\ readerPc' \in {"idle", "payload"}
      /\ readerPc' = "idle" => \E a \in Answers : answers' = Append(answers, a)
  BY <1>2 DEF Accepts, Returns, Gives, Answers
<1>4. ASSUME NEW a \in Answers, answers' = Append(answers, a)
      PROVE  answers' # <<>>
  BY <1>4, AppendProperties DEF Typed, ReaderTyped
<1> QED
  BY <1>1, <1>3, <1>4 DEF CallNext, Typed, options, tally, Preparing, Looping, limit, command

\* Where the loop deals with an answer.
LEMMA AnswerIs ==
  ASSUME Typed, toolPc = "answer"
  PROVE  Last(answers) \in Answers
<1>1. answers \in Seq(Answers) /\ answers # <<>>
  BY DEF Typed, ReaderTyped
<1>2. Len(answers) \in 1 .. Len(answers)
  BY <1>1, EmptySeq, LenProperties
<1> QED
  BY <1>1, <1>2, ElementOfSeq DEF Last

LEMMA AnswerTypedTool ==
  ASSUME Typed, AtEnd \/ OnError \/ Count \/ Skip
  PROVE  Typed'
<1>1. ReaderTyped'
  BY DEF Typed, ReaderTyped, readerVars, AtEnd, OnError, Count, Skip
<1>2. CASE AtEnd
  <2>1. PICK foot \in {<<"]">>, <<>>} : Put(foot)
    BY <1>2 DEF AtEnd, Leave
  <2>2. foot \in Seq(Events \cup Marks)
    BY <2>1, MarkTyped, EmptySeq DEF Marks
  <2>3. output' \in Seq(Events \cup Marks)
    BY <2>1, <2>2, PutTyped
  <2> QED
    BY <1>1, <1>2, <2>3 DEF AtEnd, Leave, Typed, options, tally, Preparing, Looping, limit,
                            command
<1>3. CASE OnError
  BY <1>1, <1>3 DEF OnError, Exit, Typed, readerVars, options, tally, Preparing, Looping,
                    limit, command
<1>4. CASE Count
  <2>1. Fields[Last(answers)].severity \in Severities
    BY <1>4, ToolParameters DEF Count
  <2>2. severities' \in [Severities -> Nat] /\ count' \in Nat
    BY <1>4, <2>1 DEF Count, Typed
  <2> QED
    BY <1>1, <1>4, <2>2 DEF Count, Typed, readerVars, options, Preparing, Looping, limit,
                            command
<1>5. CASE Skip
  BY <1>1, <1>5 DEF Skip, Typed, readerVars, options, tally, Preparing, Looping, limit,
                    command
<1> QED
  BY <1>2, <1>3, <1>4, <1>5

\* What is put into the output for an event, and whether it is the last one.
Lasts == limit # 0 /\ emitted + 1 >= limit
Foot == IF Lasts /\ Form = "json" THEN <<"]">> ELSE <<>>

LEMMA EmitIs ==
  ASSUME Typed, Emit
  PROVE  /\ Last(answers) \in Events /\ Matches(Last(answers)) /\ command \in Commands \ {"inspect"}
         /\ Comma \in Seq(Events \cup Marks) /\ <<Last(answers)>> \in Seq(Events \cup Marks)
         /\ Foot \in Seq(Events \cup Marks)
         /\ Put(Comma \o <<Last(answers)>> \o Foot)
         /\ toolPc = "answer" /\ toolPc' = IF Lasts THEN "leave" ELSE "next"
         /\ emitted' = emitted + 1 /\ first' = FALSE
         /\ UNCHANGED <<file, readerVars, options, outOk, tally, exitCode>>
<1>1. Last(answers) \in Events
  BY DEF Emit, EmitAnd
<1>2. /\ Comma \in Seq(Events \cup Marks) /\ <<Last(answers)>> \in Seq(Events \cup Marks)
      /\ Foot \in Seq(Events \cup Marks)
  <2>1. <<Last(answers)>> \in Seq(Events \cup Marks)
    BY <1>1, OneIsSeq
  <2>2. Comma \in {<<",">>, <<>>} /\ Foot \in {<<"]">>, <<>>}
    BY DEF Comma, Foot
  <2>3. Comma \in Seq(Events \cup Marks)
    BY <2>2, MarkTyped, EmptySeq DEF Marks
  <2>4. Foot \in Seq(Events \cup Marks)
    BY <2>2, MarkTyped, EmptySeq DEF Marks
  <2> QED
    BY <2>1, <2>3, <2>4
<1>3. Put(Comma \o <<Last(answers)>> \o Foot)
  BY DEF Emit, EmitAnd, Foot, Lasts
<1> QED
  BY <1>1, <1>2, <1>3 DEF Emit, EmitAnd, Lasts, Typed

LEMMA EmitTyped ==
  ASSUME Typed, Emit
  PROVE  Typed'
<1>1. ReaderTyped'
  BY EmitIs DEF Typed, ReaderTyped, readerVars
<1>2. output' \in Seq(Events \cup Marks)
  BY EmitIs, Joined, PutTyped
<1>3. /\ emitted' \in Nat /\ first' = FALSE /\ emitted' # 0
      /\ limit # 0 => emitted' <= limit
      /\ ~Lasts => (limit # 0 => emitted' < limit)
  <2>1. emitted \in Nat /\ limit \in Nat /\ (limit # 0 => emitted < limit)
    BY EmitIs DEF Typed, Looping
  <2> QED
    BY <2>1, EmitIs DEF Lasts
<1> QED
  BY <1>1, <1>2, <1>3, EmitIs DEF Typed, readerVars, options, tally, Preparing, Looping,
                                  limit, command

LEMMA RestTyped ==
  ASSUME Typed, Return \/ OutputFails \/ Grow \/ Terminated
  PROVE  Typed'
<1>1. CASE Return
  BY <1>1 DEF Return, Exit, Typed, ReaderTyped, readerVars, options, tally, Preparing,
              Looping, limit, command
<1>2. CASE OutputFails
  <2>1. output' \in Seq(Events \cup Marks) /\ (output = <<>> => output' = <<>>)
    <3>1. PICK n \in 0 .. Len(output) : output' = SubSeq(output, 1, n)
      BY <1>2 DEF OutputFails
    <3>2. output \in Seq(Events \cup Marks)
      BY DEF Typed
    <3> QED
      BY <3>1, <3>2, CutInTwo, EmptySeq
  <2>2. /\ ReaderTyped' /\ commandLine' = commandLine /\ args' = args /\ given' = given
        /\ toolPc' = toolPc /\ emitted' = emitted /\ first' = first /\ outOk' \in BOOLEAN
        /\ count' = count /\ severities' = severities /\ exitCode' = exitCode
        /\ readerPc' = readerPc /\ answers' = answers
    BY <1>2 DEF OutputFails, Typed, ReaderTyped, readerVars, options, tally
  <2> QED
    BY <2>1, <2>2 DEF Typed, Preparing, Looping, limit, command
<1>3. CASE Grow
  <2>1. ReaderTyped'
    BY <1>3, GrowIsGrowth DEF Grow, Typed, ReaderTyped, readerVars
  <2> QED
    BY <1>3, <2>1 DEF Grow, Typed, readerVars, toolVars, options, tally, Preparing, Looping,
                      limit, command
<1>4. CASE Terminated
  BY <1>4 DEF Terminated, vars, Typed, ReaderTyped, readerVars, toolVars, options, tally,
              Preparing, Looping, limit, command
<1> QED
  BY <1>1, <1>2, <1>3, <1>4

LEMMA StepTyped ==
  ASSUME Typed, [Next]_vars
  PROVE  Typed'
<1>1. CASE UNCHANGED vars
  BY <1>1 DEF vars, Typed, ReaderTyped, readerVars, toolVars, options, tally, Preparing,
              Looping, limit, command
<1>2. CASE Next
  BY <1>2, CommandLineTyped, OpeningTyped, CallNextTyped, AnswerTypedTool, EmitTyped,
     RestTyped DEF Next
<1> QED
  BY <1>1, <1>2

\* Whatever the command line, the log and the damage to it: every variable
\* keeps its type and never more events are printed than --limit allows
\* (dump_events, write_csv and write_json).
THEOREM TypeCorrect == Spec => []TypeOK
<1>1. Typed => TypeOK
  <2>1. ReaderTyped =>
          /\ file \in Seq([of : Events \cup {"file"}, part : Nat \ {0}, intact : BOOLEAN])
          /\ readerPc \in {"unopened", "idle", "payload", "rejected"}
          /\ position \in 0 .. Len(file)
          /\ inState \in {"good", "eof", "bad"} /\ ioErrors \in BOOLEAN
          /\ header \in Events \cup {NoEvent} /\ (readerPc = "payload" => header \in Events)
          /\ info \in [first : Nat, last : Nat]
          /\ answers \in Seq(Events \cup {"end", "format", "crc"})
    BY DEF ReaderTyped, Units, Answers
  <2>2. Typed => DOMAIN given = Valued(ExportOptions) /\ \A o \in DOMAIN given : given[o] \in ValueType(o)
    BY DEF Typed, Options
  <2> QED
    BY <2>1, <2>2 DEF Typed, TypeOK, Preparing, Looping
<1> QED
  BY <1>1, InitTyped, StepTyped, PTL DEF Spec
-----------------------------------------------------------------------------
(* The events the loop has dealt with *)

LEMMA FrontOfAppend ==
  ASSUME NEW S, NEW s \in Seq(S), NEW a \in S
  PROVE  Front(Append(s, a)) = s /\ Last(Append(s, a)) = a
<1>1. /\ Append(s, a) \in Seq(S) /\ Len(Append(s, a)) = Len(s) + 1 /\ Len(s) \in Nat
      /\ Append(s, a)[Len(s) + 1] = a
  BY AppendProperties, LenProperties
<1>2. SubSeq(Append(s, a), 1, Len(s)) = SubSeq(s, 1, Len(s))
  BY <1>1, FirstOnes
<1>3. SubSeq(s, 1, Len(s)) = s
  BY SubSeqFull
<1>4. Len(s) + 1 - 1 = Len(s)
  BY <1>1
<1> QED
  BY <1>1, <1>2, <1>3, <1>4 DEF Front, Last

LEMMA FrontThenLast ==
  ASSUME NEW S, NEW s \in Seq(S), s # <<>>
  PROVE  /\ Front(s) \in Seq(S) /\ Last(s) \in S /\ s = Append(Front(s), Last(s))
<1>1. Len(s) \in Nat /\ Len(s) # 0 /\ DOMAIN s = 1 .. Len(s)
  BY LenProperties, EmptySeq
<1>2. PICK n \in Nat : Len(s) = n + 1
  <2>1. Len(s) - 1 \in Nat /\ Len(s) = (Len(s) - 1) + 1
    BY <1>1
  <2> QED
    BY <2>1
<1>3. Len(s) - 1 = n /\ n \in 0 .. Len(s)
  BY <1>2
<1>4. Front(s) \in Seq(S) /\ Len(Front(s)) = n
  BY <1>3, CutInTwo, FirstOnesLength DEF Front
<1>5. Last(s) = s[n + 1] /\ Last(s) \in S
  <2>1. n + 1 \in 1 .. Len(s)
    BY <1>2
  <2>2. s[n + 1] \in S
    BY <2>1, ElementOfSeq
  <2> QED
    BY <1>2, <2>2 DEF Last
<1>6. /\ Append(Front(s), Last(s)) \in Seq(S) /\ Len(Append(Front(s), Last(s))) = n + 1
      /\ Append(Front(s), Last(s))[n + 1] = s[n + 1]
      /\ \A i \in 1 .. n : Append(Front(s), Last(s))[i] = Front(s)[i]
  BY <1>4, <1>5, AppendProperties
<1>7. \A i \in 1 .. n : Front(s)[i] = s[i]
  BY <1>3 DEF Front
<1>8. \A i \in 1 .. n + 1 : i \in 1 .. n \/ i = n + 1
  BY <1>2
<1>9. \A i \in 1 .. Len(s) : s[i] = Append(Front(s), Last(s))[i]
  BY <1>2, <1>6, <1>7, <1>8
<1>10. s = Append(Front(s), Last(s))
  BY <1>2, <1>6, <1>9, SeqEqual
<1> QED
  BY <1>4, <1>5, <1>10

\* The answer in hand is not dealt with yet.
Handled == Returned(IF toolPc = "answer" THEN Front(answers) ELSE answers)

LEMMA HandledTyped ==
  ASSUME Typed
  PROVE  Handled \in Seq(Events)
<1>1. CASE toolPc = "answer"
  <2>1. Front(answers) \in Seq(Answers)
    BY <1>1, FrontThenLast DEF Typed, ReaderTyped
  <2> QED
    BY <1>1, <2>1, ReturnedTyped DEF Handled
<1>2. CASE toolPc # "answer"
  BY <1>2, ReturnedTyped DEF Handled, Typed, ReaderTyped
<1> QED
  BY <1>1, <1>2

\* Before an answer is dealt with and after.
LEMMA HandledAnswer ==
  ASSUME Typed, toolPc = "answer", UNCHANGED answers, toolPc' # "answer"
  PROVE  Handled' = Handled \o Kernel(Last(answers), Events)
<1>1. /\ Front(answers) \in Seq(Answers) /\ Last(answers) \in Answers
      /\ answers = Append(Front(answers), Last(answers))
  BY FrontThenLast DEF Typed, ReaderTyped
<1>2. Handled = Returned(Front(answers)) /\ Handled' = Returned(answers)
  BY DEF Handled
<1> QED
  BY <1>1, <1>2, ReturnedAppend

\* An event is dealt with by Count, Skip or Emit.
LEMMA HandledEvent ==
  ASSUME Typed, Count \/ Skip \/ Emit
  PROVE  /\ Last(answers) \in Events /\ toolPc = "answer" /\ toolPc' \in {"next", "leave"}
         /\ Handled \in Seq(Events) /\ Handled' = Append(Handled, Last(answers))
<1>1. /\ Last(answers) \in Events /\ toolPc = "answer" /\ toolPc' \in {"next", "leave"}
      /\ UNCHANGED answers
  BY EmitIs DEF Count, Skip, readerVars
<1>2. Handled' = Handled \o <<Last(answers)>>
  BY <1>1, HandledAnswer DEF Kernel
<1>3. Handled \in Seq(Events)
  BY HandledTyped
<1> QED
  BY <1>1, <1>2, <1>3, AppendIsConcat

\* Nothing else deals with an event.
LEMMA HandledKept ==
  ASSUME Typed, [Next]_vars, ~Count, ~Skip, ~Emit
  PROVE  Handled' = Handled
<1>1. CASE CallNext
  <2>1. Accepts \/ Returns \/ Gives("end") \/ Gives("format") \/ Gives("crc")
    BY <1>1, NextRecordIs DEF Typed, CallNext
  <2>2. CASE Accepts
    BY <1>1, <2>2 DEF Accepts, CallNext, Handled
  <2>3. CASE Returns \/ Gives("end") \/ Gives("format") \/ Gives("crc")
    <3>1. PICK a \in Answers : answers' = Append(answers, a)
      BY <2>3 DEF Returns, Gives, Answers
    <3>2. toolPc = "next" /\ toolPc' = "answer"
      BY <1>1, <2>3 DEF CallNext, Returns, Gives
    <3>3. Front(answers') = answers
      BY <3>1, FrontOfAppend DEF Typed, ReaderTyped
    <3> QED
      BY <3>2, <3>3 DEF Handled
  <2> QED
    BY <2>1, <2>2, <2>3
<1>2. CASE AtEnd \/ OnError
  <2>1. /\ toolPc = "answer" /\ UNCHANGED answers /\ toolPc' # "answer"
        /\ Last(answers) \in {"end", "format", "crc"}
    BY <1>2 DEF AtEnd, OnError, Leave, Exit, readerVars
  <2>2. Last(answers) \notin Events
    BY <2>1, Parameters
  <2>3. Kernel(Last(answers), Events) = <<>>
    BY <2>2 DEF Kernel
  <2>4. Handled \in Seq(Events) /\ Handled' = Handled \o <<>>
    BY <2>1, <2>3, HandledAnswer, HandledTyped
  <2> QED
    BY <2>4, ConcatEmptySeq
<1>3. CASE OpenLog \/ OpenLogFails
  <2>1. toolPc # "answer" /\ toolPc' # "answer" /\ UNCHANGED answers
    BY <1>3 DEF OpenLog, OpenLogFails, Open, OpenRejected, Exit, readerVars
  <2> QED
    BY <2>1 DEF Handled
<1>4. CASE \/ MainOnly \/ Dispatch \/ ParseOption \/ OptionsRefused \/ OptionsRead
           \/ OpenOutput \/ OpenOutputFails \/ Return
  <2>1. toolPc # "answer" /\ toolPc' # "answer" /\ UNCHANGED answers
    BY <1>4 DEF MainOnly, Dispatch, ParseOption, OptionsRefused, OptionsRead,
                OpenOutput, OpenOutputFails, Return, Exit, readerVars
  <2> QED
    BY <2>1 DEF Handled
<1>5. CASE OutputFails \/ Grow \/ Terminated \/ UNCHANGED vars
  BY <1>5 DEF OutputFails, Grow, Terminated, vars, toolVars, readerVars, Handled
<1> QED
  BY <1>1, <1>2, <1>3, <1>4, <1>5 DEF Next
-----------------------------------------------------------------------------
(* inspect *)

\* Where in these events one of this severity is.
With(s, severity) == {i \in DOMAIN s : Fields[s[i]].severity = severity}

LEMMA WithAppend ==
  ASSUME NEW s \in Seq(Events), NEW e \in Events, NEW severity
  PROVE  /\ Cardinality(With(s, severity)) \in Nat
         /\ Cardinality(With(Append(s, e), severity)) =
              Cardinality(With(s, severity)) + (IF Fields[e].severity = severity THEN 1 ELSE 0)
<1>1. /\ Append(s, e) \in Seq(Events) /\ Len(s) \in Nat /\ Len(Append(s, e)) = Len(s) + 1
      /\ Append(s, e)[Len(s) + 1] = e /\ \A i \in 1 .. Len(s) : Append(s, e)[i] = s[i]
      /\ DOMAIN s = 1 .. Len(s) /\ DOMAIN Append(s, e) = 1 .. Len(s) + 1
  BY AppendProperties, LenProperties
<1>2. 1 .. Len(s) + 1 = (1 .. Len(s)) \cup {Len(s) + 1} /\ Len(s) + 1 \notin 1 .. Len(s)
  BY <1>1
<1>3. IsFiniteSet(With(s, severity)) /\ Cardinality(With(s, severity)) \in Nat
  <2>1. IsFiniteSet(1 .. Len(s))
    BY <1>1, FS_Interval
  <2>2. With(s, severity) \in SUBSET (1 .. Len(s))
    BY <1>1 DEF With
  <2> QED
    BY <2>1, <2>2, FS_Subset, FS_CardinalityType
<1>4. CASE Fields[e].severity = severity
  <2>1. With(Append(s, e), severity) = With(s, severity) \cup {Len(s) + 1}
    BY <1>1, <1>2, <1>4 DEF With
  <2>2. Len(s) + 1 \notin With(s, severity)
    BY <1>1, <1>2 DEF With
  <2> QED
    BY <1>3, <1>4, <2>1, <2>2, FS_AddElement
<1>5. CASE Fields[e].severity # severity
  <2>1. With(Append(s, e), severity) = With(s, severity)
    BY <1>1, <1>2, <1>5 DEF With
  <2> QED
    BY <1>3, <1>5, <2>1
<1> QED
  BY <1>4, <1>5

LEMMA WithNone ==
  ASSUME NEW severity
  PROVE  Cardinality(With(<<>>, severity)) = 0
<1>1. With(<<>>, severity) = {}
  BY DEF With
<1> QED
  BY <1>1, FS_EmptySet

\* Count and tally are those of the events dealt with.
Tallied ==
  command = "inspect" =>
    /\ count = Len(Handled)
    /\ \A s \in Severities : severities[s] = Cardinality(With(Handled, s))

\* Before the first answer, there is nothing to count.
LEMMA NothingHandled ==
  ASSUME Init
  PROVE  Handled = <<>>
BY ReturnedEmpty DEF Init, ReaderInit, Handled

LEMMA TalliedStep ==
  ASSUME Typed, Tallied, [Next]_vars
  PROVE  Tallied'
<1>1. CASE Count
  <2>1. /\ Last(answers) \in Events /\ Handled \in Seq(Events)
        /\ Handled' = Append(Handled, Last(answers))
    BY <1>1, HandledEvent
  <2>2. PICK e \in Events : e = Last(answers)
    BY <2>1
  <2>3. Fields[e].severity \in Severities
    BY ToolParameters
  <2>4. /\ count = Len(Handled) /\ \A s \in Severities : severities[s] = Cardinality(With(Handled, s))
        /\ command = "inspect" /\ count' = count + 1
        /\ severities' = [severities EXCEPT ![Fields[e].severity] = @ + 1]
        /\ severities \in [Severities -> Nat]
    BY <1>1, <2>2 DEF Count, Tallied, Typed
  <2>5. count' = Len(Handled')
    BY <2>1, <2>4, AppendProperties
  <2>6. ASSUME NEW s \in Severities
        PROVE  severities'[s] = Cardinality(With(Handled', s))
    <3>1. /\ Cardinality(With(Handled, s)) \in Nat
          /\ Cardinality(With(Handled', s)) =
               Cardinality(With(Handled, s)) + (IF Fields[e].severity = s THEN 1 ELSE 0)
      BY <2>1, <2>2, WithAppend
    <3>2. severities'[s] = severities[s] + (IF Fields[e].severity = s THEN 1 ELSE 0)
      BY <2>3, <2>4
    <3> QED
      BY <2>4, <3>1, <3>2
  <2> QED
    BY <2>5, <2>6 DEF Tallied
<1>2. CASE Skip \/ Emit
  BY <1>2 DEF Skip, Emit, EmitAnd, Tallied, options, command
<1>3. CASE ~Count /\ ~Skip /\ ~Emit
  <2>1. Handled' = Handled
    BY <1>3, HandledKept
  <2>2. UNCHANGED <<count, severities, commandLine>>
    BY <1>3 DEF Next, MainOnly, Dispatch, ParseOption, OptionsRefused, OptionsRead, OpenOutput,
       OpenOutputFails, OpenLog, OpenLogFails, CallNext, AtEnd, OnError, Return, OutputFails,
       Grow, Terminated, vars, toolVars, options, tally
  <2> QED
    BY <2>1, <2>2 DEF Tallied, command
<1> QED
  BY <1>1, <1>2, <1>3

\* What inspect prints is about the events it read, all of them and each once:
\* the count and the histogram (inspect, hpblr_tool.cpp:130-157).
THEOREM InspectCorrect == Spec => []InspectAddsUp
<1>1. Init => Typed /\ Tallied
  <2> SUFFICES ASSUME Init
               PROVE  Tallied
    BY InitTyped
  <2>1. Len(Handled) = 0
    BY NothingHandled, EmptySeq
  <2>2. \A s \in Severities : severities[s] = 0
    BY DEF Init
  <2> QED
    BY <2>1, <2>2, NothingHandled, WithNone DEF Init, Tallied
<1>2. Typed /\ Tallied /\ [Next]_vars => (Typed /\ Tallied)'
  BY StepTyped, TalliedStep
<1>3. Typed /\ Tallied => InspectAddsUp
  <2> SUFFICES ASSUME Typed, Tallied, exitCode = "0", command = "inspect"
               PROVE  /\ count = Len(Returned(answers))
                      /\ \A s \in Severities :
                           severities[s] = Cardinality(With(Returned(answers), s))
    BY DEF InspectAddsUp, With
  <2>1. Handled = Returned(answers)
    BY DEF Typed, Handled
  <2> QED
    BY <2>1 DEF Tallied
<1> QED
  BY <1>1, <1>2, <1>3, PTL DEF Spec
-----------------------------------------------------------------------------
(* Damage *)

\* No exception has been met, the loop is on or over.
Undamaged ==
  \/ toolPc = "next" /\ readerPc = "idle"
  \/ toolPc = "answer" /\ Last(answers) \notin {"format", "crc"}
  \/ toolPc = "leave"
  \/ exitCode = "0" /\ command \in Commands

\* All that has been read of the file are whole records, up to the header of
\* the record in hand.
Consumed ==
  /\ Undamaged => First(file, position) = Taken
  /\ toolPc = "next" /\ readerPc = "payload" =>
       First(file, position) = Joint(Taken, RecordHeader(header))

LEMMA ConsumedNext ==
  ASSUME Typed, Consumed, CallNext
  PROVE  Consumed'
<1>1. Accepts \/ Returns \/ Gives("end") \/ Gives("format") \/ Gives("crc")
  BY NextRecordIs DEF Typed, CallNext
<1>2. toolPc = "next" /\ ReaderTyped /\ NextRecord /\ UNCHANGED <<file, exitCode>> /\ exitCode = "none"
  BY DEF CallNext, Typed
<1>3. CASE Accepts
  <2>1. First(file, position) = Taken /\ toolPc' = "next" /\ readerPc' = "payload"
    BY <1>2, <1>3 DEF Accepts, Consumed, Undamaged, CallNext
  <2>2. First(file, position') = Joint(Taken', RecordHeader(header'))
    BY <1>2, <1>3, <2>1, TakenAccepts
  <2> QED
    BY <1>2, <2>1, <2>2 DEF Consumed, Undamaged, First
<1>4. CASE Returns
  <2>1. First(file, position) = Joint(Taken, RecordHeader(header))
    BY <1>2, <1>4 DEF Returns, Consumed
  <2>2. First(file, position') = Taken' /\ toolPc' = "answer"
    BY <1>2, <1>4, <2>1, TakenReturns DEF CallNext, Returns
  <2> QED
    BY <1>2, <2>2 DEF Consumed, Undamaged, First
<1>5. CASE Gives("end")
  <2>1. NextEnd
    BY <1>2, <1>5, EndIsNextEnd DEF Gives
  <2>2. position' = position /\ Taken' = Taken /\ readerPc = "idle" /\ toolPc' = "answer"
    BY <1>2, <1>5, <2>1, TakenEnd DEF NextEnd, CallNext, Gives
  <2>3. First(file, position) = Taken
    BY <1>2, <2>2 DEF Consumed, Undamaged
  <2> QED
    BY <1>2, <2>2, <2>3 DEF Consumed, Undamaged, First
<1>6. ASSUME NEW a \in {"format", "crc"}, Gives(a)
      PROVE  Consumed'
  <2>1. toolPc' = "answer"
    BY <1>2, <1>6 DEF CallNext, Gives
  <2>2. Last(answers') = a
    BY <1>6, FrontOfAppend DEF Gives, Typed, ReaderTyped, Answers
  <2> QED
    BY <1>2, <1>6, <2>1, <2>2 DEF Consumed, Undamaged
<1> QED
  BY <1>1, <1>3, <1>4, <1>5, <1>6

LEMMA ConsumedStep ==
  ASSUME Typed, Consumed, [Next]_vars
  PROVE  Consumed'
<1>1. CASE CallNext
  BY <1>1, ConsumedNext
<1>2. CASE OpenLog
  <2>1. ReaderTyped /\ Open /\ answers = <<>> /\ UNCHANGED <<file, exitCode>> /\ toolPc' = "next"
    BY <1>2 DEF OpenLog, Typed, Preparing
  <2>2. First(file, position') = Taken' /\ readerPc' = "idle"
    BY <2>1, TakenOpen DEF Open
  <2> QED
    BY <2>1, <2>2 DEF Consumed, First
<1>3. CASE AtEnd \/ Count \/ Skip \/ Emit
  <2>1. /\ toolPc = "answer" /\ Last(answers) \notin {"format", "crc"}
        /\ UNCHANGED <<file, readerVars, exitCode>> /\ toolPc' \in {"next", "leave"}
    <3>1. CASE AtEnd
      BY <3>1 DEF AtEnd, Leave
    <3>2. CASE Count \/ Skip \/ Emit
      BY <3>2, Parameters, EmitIs DEF Count, Skip
    <3> QED
      BY <1>3, <3>1, <3>2
  <2>2. First(file, position) = Taken /\ readerPc = "idle"
    BY <2>1 DEF Consumed, Undamaged, Typed
  <2>3. (First(file, position) = Taken)' /\ readerPc' = "idle"
    BY <2>1, <2>2 DEF readerVars, First, Taken
  <2> QED
    BY <2>1, <2>3 DEF Consumed
<1>4. CASE Return
  <2>1. /\ toolPc = "leave" /\ UNCHANGED <<file, readerVars, options>> /\ toolPc' = "exited"
    BY <1>4 DEF Return, Exit
  <2>2. First(file, position) = Taken
    BY <2>1 DEF Consumed, Undamaged
  <2>3. (First(file, position) = Taken)'
    BY <2>1, <2>2 DEF readerVars, First, Taken
  <2> QED
    BY <2>1, <2>3 DEF Consumed
<1>5. CASE MainOnly
  BY <1>5 DEF MainOnly, Exit, Consumed, Undamaged, options, command, Commands
<1>6. CASE OptionsRefused \/ OpenOutputFails \/ OpenLogFails \/ OnError
  BY <1>6 DEF OptionsRefused, OpenOutputFails, OpenLogFails, OnError, Exit, Consumed, Undamaged
<1>7. CASE Dispatch \/ ParseOption \/ OptionsRead \/ OpenOutput
  BY <1>7 DEF Dispatch, ParseOption, OptionsRead, OpenOutput, Consumed, Undamaged, Typed
<1>8. CASE OutputFails \/ Terminated \/ UNCHANGED vars
  BY <1>8 DEF OutputFails, Terminated, vars, toolVars, readerVars, options, Consumed, Undamaged,
              First, Taken, command
<1>9. CASE Grow
  <2>1. FileGrows /\ UNCHANGED <<readerVars, toolVars>>
    BY <1>9, GrowIsGrowth DEF Grow
  <2>2. First(file', position) = First(file, position)
    BY <2>1, GrowsFirst DEF Typed
  <2> QED
    BY <2>1, <2>2 DEF readerVars, toolVars, options, Consumed, Undamaged, First, Taken, command
<1> QED
  BY <1>1, <1>2, <1>3, <1>4, <1>5, <1>6, <1>7, <1>8, <1>9 DEF Next

\* Exit code 0 is no answer to a damaged or cut log: all the tool has read of
\* the file are whole records, and they are the events it returned
\* (docs/ROBUSTNESS.md, every check of BinaryLogReader::next).
THEOREM DamageReported == Spec => []DamageIsReported
<1>1. Init => Typed /\ Consumed
  BY InitTyped DEF Init, Consumed, Undamaged
<1>2. Typed /\ Consumed /\ [Next]_vars => (Typed /\ Consumed)'
  BY StepTyped, ConsumedStep
<1>3. Typed /\ Consumed => DamageIsReported
  BY DEF Consumed, Undamaged, DamageIsReported, First, Taken, Joint
<1> QED
  BY <1>1, <1>2, <1>3, PTL DEF Spec
-----------------------------------------------------------------------------
(* What is printed *)

Matching == {e \in Events : Matches(e)}

\* The events of those dealt with that the options choose.
Chosen == Only(Handled, Matching)

LEMMA ChosenTyped ==
  ASSUME Typed
  PROVE  Chosen \in Seq(Events) /\ Chosen \in Seq(Matching)
<1>1. Chosen \in Seq(Matching)
  BY HandledTyped, OnlyTyped DEF Chosen
<1>2. Matching \subseteq Events
  BY DEF Matching
<1> QED
  BY <1>1, <1>2

\* Options are read before the first event is.
LEMMA ChosenKept ==
  ASSUME Typed, [Next]_vars, ~Count, ~Skip, ~Emit
  PROVE  Chosen' = Chosen
<1>1. Handled' = Handled
  BY HandledKept
<1>2. CASE ParseOption
  <2>1. answers = <<>> /\ toolPc = "options"
    BY <1>2 DEF ParseOption, Typed, Preparing
  <2>2. Handled = <<>>
    BY <2>1, ReturnedEmpty DEF Handled
  <2>3. \A set : Only(<<>>, set) = <<>>
    BY OnlyEmpty
  <2> QED
    BY <1>1, <2>2, <2>3 DEF Chosen
<1>3. CASE ~ParseOption
  <2>1. UNCHANGED given
    BY <1>3 DEF Next, MainOnly, Dispatch, OptionsRefused, OptionsRead, OpenOutput,
       OpenOutputFails, OpenLog, OpenLogFails, CallNext, AtEnd, OnError, Return, OutputFails,
       Grow, Terminated, vars, toolVars, options
  <2>2. Matching' = Matching
    BY <2>1 DEF Matching, Matches
  <2> QED
    BY <1>1, <2>2 DEF Chosen
<1> QED
  BY <1>2, <1>3

\* An event is added to them exactly if it matches.
LEMMA ChosenEvent ==
  ASSUME Typed, Count \/ Skip \/ Emit
  PROVE  Chosen' = Chosen \o Kernel(Last(answers), Matching)
<1>1. /\ Last(answers) \in Events /\ Handled \in Seq(Events)
      /\ Handled' = Append(Handled, Last(answers))
  BY HandledEvent
<1>2. UNCHANGED given
  BY EmitIs DEF Count, Skip, options
<1>3. Matching' = Matching
  BY <1>2 DEF Matching, Matches
<1> QED
  BY <1>1, <1>3, OnlyAppend DEF Chosen

\* What comes from a mark, an event, an output that is written.
LEMMA MarkPrintsNothing ==
  ASSUME NEW mark \in Marks
  PROVE  Only(<<mark>>, Events) = <<>>
<1>1. mark \notin Events
  BY ToolParameters
<1>2. mark \in Events \cup Marks
  OBVIOUS
<1> QED
  BY <1>1, <1>2, OnlyOne DEF Kernel

LEMMA PutPrints ==
  ASSUME Typed, NEW items \in Seq(Events \cup Marks), Put(items)
  PROVE  /\ Printed \in Seq(Events) /\ Only(items, Events) \in Seq(Events)
         /\ Printed' = IF outOk THEN Printed \o Only(items, Events) ELSE Printed
<1>1. output \in Seq(Events \cup Marks)
  BY DEF Typed
<1> QED
  BY <1>1, OnlyConcat, OnlyTyped DEF Put, Printed

LEMMA FootPrintsNothing ==
  ASSUME Typed, NEW foot \in {<<"columns">>, <<"[">>, <<"]">>, <<",">>, <<>>}
  PROVE  Only(foot, Events) = <<>> /\ foot \in Seq(Events \cup Marks)
<1>1. CASE foot = <<>>
  BY <1>1, OnlyEmpty, EmptySeq
<1>2. CASE foot # <<>>
  <2>1. PICK mark \in Marks : foot = <<mark>>
    BY <1>2 DEF Marks
  <2> QED
    BY <2>1, MarkPrintsNothing, MarkTyped
<1> QED
  BY <1>1, <1>2

LEMMA EmitPrints ==
  ASSUME Typed, Emit
  PROVE  /\ Printed \in Seq(Events) /\ Last(answers) \in Events
         /\ Printed' = IF outOk THEN Append(Printed, Last(answers)) ELSE Printed
<1>1. PICK e \in Events : e = Last(answers)
  BY EmitIs
<1>2. /\ Comma \in Seq(Events \cup Marks) /\ <<e>> \in Seq(Events \cup Marks)
      /\ Foot \in Seq(Events \cup Marks) /\ Put(Comma \o <<e>> \o Foot)
  BY <1>1, EmitIs
<1>3. Only(Comma, Events) = <<>> /\ Only(Foot, Events) = <<>>
  BY FootPrintsNothing DEF Comma, Foot
<1>4. Only(<<e>>, Events) = <<e>>
  BY OnlyOne DEF Kernel
<1>5. <<e>> \in Seq(Events)
  BY OneIsSeq
<1>6. Only(Comma \o <<e>>, Events) = <<e>> /\ Comma \o <<e>> \in Seq(Events \cup Marks)
  <2>1. Comma \o <<e>> \in Seq(Events \cup Marks)
    BY <1>2, Joined
  <2>2. Only(Comma \o <<e>>, Events) = Only(Comma, Events) \o Only(<<e>>, Events)
    BY <1>2, OnlyConcat
  <2>3. <<>> \o <<e>> = <<e>>
    BY <1>5, ConcatEmptySeq
  <2> QED
    BY <1>3, <1>4, <2>1, <2>2, <2>3
<1>7. Only(Comma \o <<e>> \o Foot, Events) = <<e>>
  <2>1. Only(Comma \o <<e>> \o Foot, Events) = Only(Comma \o <<e>>, Events) \o Only(Foot, Events)
    BY <1>2, <1>6, OnlyConcat
  <2>2. <<e>> \o <<>> = <<e>>
    BY <1>5, ConcatEmptySeq
  <2> QED
    BY <1>3, <1>6, <2>1, <2>2
<1>8. Comma \o <<e>> \o Foot \in Seq(Events \cup Marks)
  BY <1>2, <1>6, Joined
<1>9. /\ Printed \in Seq(Events)
      /\ Printed' = IF outOk THEN Printed \o <<e>> ELSE Printed
  BY <1>2, <1>7, <1>8, PutPrints
<1> QED
  BY <1>1, <1>9, AppendIsConcat

\* The output has the events chosen, or the first of them once it has failed.
Matched ==
  command # "inspect" =>
    /\ emitted = Len(Chosen)
    /\ outOk => Printed = Chosen
    /\ \E rest \in Seq(Events) : Chosen = Printed \o rest

LEMMA PrintedTyped ==
  ASSUME Typed
  PROVE  Printed \in Seq(Events)
BY OnlyTyped DEF Printed, Typed

LEMMA MatchedEmit ==
  ASSUME Typed, Matched, Emit
  PROVE  Matched'
<1>1. PICK e \in Events : e = Last(answers)
  BY EmitIs
<1>2. Matches(e) /\ command # "inspect" /\ emitted' = emitted + 1 /\ UNCHANGED outOk
  BY <1>1, EmitIs
<1>3. Kernel(e, Matching) = <<e>>
  BY <1>2 DEF Kernel, Matching
<1>4. Chosen' = Chosen \o <<e>>
  BY <1>1, <1>3, ChosenEvent
<1>5. Chosen \in Seq(Events) /\ Chosen' = Append(Chosen, e)
  BY <1>4, ChosenTyped, AppendIsConcat
<1>6. emitted' = Len(Chosen')
  BY <1>2, <1>5, AppendProperties DEF Matched
<1>7. /\ Printed \in Seq(Events)
      /\ Printed' = IF outOk THEN Append(Printed, e) ELSE Printed
  BY <1>1, EmitPrints
<1>8. outOk' => Printed' = Chosen'
  BY <1>2, <1>5, <1>7 DEF Matched
<1>9. \E rest \in Seq(Events) : Chosen' = Printed' \o rest
  <2>1. CASE outOk
    <3>1. Chosen' \in Seq(Events) /\ Printed' = Chosen'
      BY <1>2, <1>5, <1>8, <2>1, AppendProperties
    <3> QED
      BY <3>1, ConcatEmptySeq, EmptySeq
  <2>2. CASE ~outOk
    <3>1. PICK rest \in Seq(Events) : Chosen = Printed \o rest
      BY <1>2 DEF Matched
    <3>2. rest \o <<e>> \in Seq(Events) /\ <<e>> \in Seq(Events)
      BY OneIsSeq, Joined
    <3>3. Chosen' = Printed' \o (rest \o <<e>>)
      BY <1>4, <1>7, <2>2, <3>1, <3>2, Regrouped
    <3> QED
      BY <3>2, <3>3
  <2> QED
    BY <2>1, <2>2
<1> QED
  BY <1>6, <1>8, <1>9 DEF Matched

LEMMA MatchedFails ==
  ASSUME Typed, Matched, OutputFails
  PROVE  Matched'
<1>1. Chosen' = Chosen /\ UNCHANGED <<command, emitted>> /\ outOk' = FALSE /\ outOk
  <2>1. ~Count /\ ~Skip /\ ~Emit
    BY DEF OutputFails, Count, Skip, Emit, EmitAnd
  <2> QED
    BY <2>1, ChosenKept DEF Next, OutputFails, options, command
<1>2. PICK n \in 0 .. Len(output) : output' = SubSeq(output, 1, n)
  BY DEF OutputFails
<1>3. /\ output' \in Seq(Events \cup Marks)
      /\ SubSeq(output, n + 1, Len(output)) \in Seq(Events \cup Marks)
      /\ output = output' \o SubSeq(output, n + 1, Len(output))
  BY <1>2, CutInTwo DEF Typed
<1>4. /\ Printed = Printed' \o Only(SubSeq(output, n + 1, Len(output)), Events)
      /\ Only(SubSeq(output, n + 1, Len(output)), Events) \in Seq(Events)
  BY <1>3, OnlyConcat, OnlyTyped DEF Printed
<1> QED
  BY <1>1, <1>4 DEF Matched

LEMMA MatchedStep ==
  ASSUME Typed, Matched, [Next]_vars
  PROVE  Matched'
<1>1. CASE Emit
  BY <1>1, MatchedEmit
<1>2. CASE OutputFails
  BY <1>2, MatchedFails
<1>3. CASE Count
  BY <1>3 DEF Count, Matched, options, command
<1>4. CASE Skip
  <2>1. Kernel(Last(answers), Matching) = <<>>
    BY <1>4 DEF Skip, Kernel, Matching
  <2>2. Chosen \in Seq(Events) /\ Chosen' = Chosen \o <<>>
    BY <1>4, <2>1, ChosenEvent, ChosenTyped
  <2>3. Chosen' = Chosen
    BY <2>2, ConcatEmptySeq
  <2> QED
    BY <1>4, <2>3 DEF Skip, Matched, options, command, Printed
<1>5. CASE ~Count /\ ~Skip /\ ~Emit /\ ~OutputFails
  <2>1. Chosen' = Chosen
    BY <1>5, ChosenKept
  <2>2. UNCHANGED <<commandLine, emitted, outOk>>
    BY <1>5 DEF Next, MainOnly, Dispatch, ParseOption, OptionsRefused, OptionsRead, OpenOutput,
       OpenOutputFails, OpenLog, OpenLogFails, CallNext, AtEnd, Leave, OnError, Return,
       Grow, Terminated, vars, toolVars, options
  <2>3. Printed' = Printed
    <3>1. ASSUME NEW foot \in {<<"columns">>, <<"[">>, <<"]">>, <<",">>, <<>>}, Put(foot)
          PROVE  Printed' = Printed
      <4>1. Only(foot, Events) = <<>> /\ foot \in Seq(Events \cup Marks)
        BY <3>1, FootPrintsNothing
      <4>2. /\ Printed \in Seq(Events)
            /\ Printed' = IF outOk THEN Printed \o Only(foot, Events) ELSE Printed
        BY <3>1, <4>1, PutPrints
      <4> QED
        BY <4>1, <4>2, ConcatEmptySeq
    <3>2. CASE OpenLog
      <4>1. PICK foot \in {<<"columns">>, <<"[">>, <<>>} : Put(foot)
        BY <3>2 DEF OpenLog
      <4> QED
        BY <3>1, <4>1
    <3>3. CASE AtEnd
      <4>1. PICK foot \in {<<"]">>, <<>>} : Put(foot)
        BY <3>3 DEF AtEnd, Leave
      <4> QED
        BY <3>1, <4>1
    <3>4. CASE ~OpenLog /\ ~AtEnd
      <4>1. UNCHANGED output
        BY <1>5, <3>4 DEF Next, MainOnly, Dispatch, ParseOption, OptionsRefused, OptionsRead,
           OpenOutput, OpenOutputFails, OpenLogFails, CallNext, OnError, Return,
           Grow, Terminated, vars, toolVars
      <4> QED
        BY <4>1 DEF Printed
    <3> QED
      BY <3>2, <3>3, <3>4
  <2> QED
    BY <2>1, <2>2, <2>3 DEF Matched, command
<1> QED
  BY <1>1, <1>2, <1>3, <1>4, <1>5

LEMMA MatchedInit ==
  ASSUME Init
  PROVE  Matched
<1>1. Chosen = <<>> /\ Printed = <<>> /\ emitted = 0
  BY NothingHandled, OnlyEmpty DEF Init, Chosen, Printed
<1>2. Chosen = Printed \o <<>> /\ <<>> \in Seq(Events) /\ Len(Chosen) = 0
  BY <1>1, EmptySeq, ConcatEmptySeq
<1> QED
  BY <1>1, <1>2 DEF Matched
-----------------------------------------------------------------------------
(* The JSON array *)

\* The mark between two objects; its name keeps the literal, which the SMT
\* backend cannot read, out of the other obligations.
Between == ","

LEMMA BetweenIsMark ==
  /\ Between \in Marks /\ \A e \in Events : e # Between
  /\ Comma = IF Form = "json" /\ ~first THEN <<Between>> ELSE <<>>
<1>1. Between \in Marks
  BY Zenon DEF Between, Marks
<1>2. \A e \in Events : e # Between
  BY <1>1, ToolParameters
<1>3. Comma = IF Form = "json" /\ ~first THEN <<Between>> ELSE <<>>
  BY Zenon DEF Between, Comma
<1> QED
  BY <1>1, <1>2, <1>3

\* An array that is still open, of n objects.
OpenArray(items, n) ==
  /\ Len(items) = (IF n = 0 THEN 1 ELSE 2 * n)
  /\ items[1] = "["
  /\ \A i \in 2 .. Len(items) : items[i] = Between <=> i % 2 = 1

\* One item more.
LEMMA OneBehind ==
  ASSUME NEW S, NEW s \in Seq(S), NEW m \in Nat, Len(s) = m, NEW x \in S
  PROVE  /\ s \o <<x>> \in Seq(S) /\ Len(s \o <<x>>) = m + 1 /\ (s \o <<x>>)[m + 1] = x
         /\ \A i \in 1 .. m : (s \o <<x>>)[i] = s[i]
<1>1. s \o <<x>> = Append(s, x)
  BY AppendIsConcat
<1> QED
  BY <1>1, AppendProperties

LEMMA FirstObject ==
  ASSUME NEW items \in Seq(Events \cup Marks), OpenArray(items, 0), NEW e \in Events
  PROVE  OpenArray(items \o <<e>>, 1)
<1>1. e # Between
  BY BetweenIsMark
<1>2. PICK more : more = items \o <<e>>
  OBVIOUS
<1>3. Len(items) = 1 /\ items[1] = "[" /\ e \in Events \cup Marks
  BY DEF OpenArray
<1>4. Len(more) = 2 /\ more[1] = "[" /\ more[2] = e
  <2>1. /\ Len(more) = 1 + 1 /\ more[1 + 1] = e /\ \A i \in 1 .. 1 : more[i] = items[i]
    BY <1>2, <1>3, OneBehind
  <2>2. 1 + 1 = 2 /\ 1 \in 1 .. 1
    OBVIOUS
  <2> QED
    BY <1>3, <2>1, <2>2
<1>5. \A i \in 2 .. 2 : i = 2
  OBVIOUS
<1>6. 2 % 2 # 1
  OBVIOUS
<1>7. \A i \in 2 .. Len(more) : more[i] = Between <=> i % 2 = 1
  <2> SUFFICES ASSUME NEW i \in 2 .. 2
               PROVE  more[i] = Between <=> i % 2 = 1
    BY <1>4
  <2>1. i = 2 /\ more[i] = e /\ i % 2 # 1
    BY <1>4, <1>5, <1>6
  <2> QED
    BY <1>1, <2>1
<1>8. Len(more) = (IF 1 = 0 THEN 1 ELSE 2 * 1)
  BY <1>4
<1>9. OpenArray(more, 1)
  BY <1>4, <1>7, <1>8 DEF OpenArray
<1> QED
  BY <1>2, <1>9

LEMMA TwoBehind ==
  ASSUME NEW S, NEW s \in Seq(S), NEW m \in Nat, m = Len(s), NEW x \in S, NEW y \in S,
         NEW start, start = Append(s, x), NEW more, more = Append(start, y)
  PROVE  /\ Len(more) = m + 2 /\ more[m + 1] = x /\ more[m + 2] = y
         /\ \A i \in 1 .. m : more[i] = s[i]
<1>1. /\ start \in Seq(S) /\ Len(start) = m + 1 /\ start[m + 1] = x
      /\ \A i \in 1 .. m : start[i] = s[i]
  BY AppendProperties
<1>2. /\ Len(more) = (m + 1) + 1 /\ more[(m + 1) + 1] = y
      /\ \A i \in 1 .. m + 1 : more[i] = start[i]
  BY <1>1, AppendProperties
<1>3. /\ (m + 1) + 1 = m + 2 /\ m + 1 \in 1 .. m + 1
      /\ \A i \in 1 .. m : i \in 1 .. m + 1
  OBVIOUS
<1> QED
  BY <1>1, <1>2, <1>3

LEMMA NextObject ==
  ASSUME NEW S, NEW items \in Seq(S), NEW n \in Nat \ {0}, OpenArray(items, n),
         Between \in S, NEW e \in S, e # Between,
         NEW start, start = Append(items, Between), NEW more, more = Append(start, e)
  PROVE  OpenArray(more, n + 1)
<1>1. PICK m \in Nat : m = Len(items)
  BY LenProperties
<1>2. /\ Len(more) = m + 2 /\ more[m + 1] = Between /\ more[m + 2] = e
      /\ \A i \in 1 .. m : more[i] = items[i]
  BY <1>1, TwoBehind
<1>3. m = 2 * n /\ items[1] = "["
  BY <1>1 DEF OpenArray
<1>4. (m + 1) % 2 = 1 /\ (m + 2) % 2 # 1 /\ 1 \in 1 .. m
  BY <1>3
<1>5. ASSUME NEW i \in 2 .. m + 2
      PROVE  more[i] = Between <=> i % 2 = 1
  <2>1. CASE i <= m
    <3>1. i \in 2 .. Len(items) /\ i \in 1 .. m
      BY <1>1, <2>1
    <3>2. more[i] = items[i]
      BY <1>2, <3>1
    <3> QED
      BY <3>1, <3>2 DEF OpenArray
  <2>2. CASE i = m + 1
    <3>1. more[i] = Between /\ i % 2 = 1
      BY <1>2, <1>4, <2>2
    <3> QED
      BY <3>1
  <2>3. CASE i = m + 2
    <3>1. more[i] = e /\ i % 2 # 1
      BY <1>2, <1>4, <2>3
    <3> QED
      BY <3>1
  <2>4. i <= m \/ i = m + 1 \/ i = m + 2
    OBVIOUS
  <2> QED
    BY <2>1, <2>2, <2>3, <2>4
<1>6. n + 1 \in Nat /\ n + 1 # 0 /\ 2 * (n + 1) = m + 2
  BY <1>3
<1>7. more[1] = "["
  BY <1>2, <1>3, <1>4
<1> QED
  BY <1>2, <1>5, <1>6, <1>7 DEF OpenArray

\* An array of n objects, closed.
ClosedArray(items, n) ==
  \E body \in Seq(Events \cup Marks) : OpenArray(body, n) /\ items = Append(body, "]")

\* write_json, as long as its output has not failed.
Arranged ==
  command = "export" /\ Form = "json" /\ outOk =>
    /\ Looping => OpenArray(output, emitted)
    /\ toolPc = "leave" \/ exitCode = "0" => ClosedArray(output, emitted)

LEMMA ArrangedEmit ==
  ASSUME Typed, Arranged, Emit
  PROVE  Arranged'
<1> SUFFICES ASSUME command = "export", Form = "json", outOk
             PROVE  /\ Looping' => OpenArray(output', emitted')
                    /\ toolPc' = "leave" => ClosedArray(output', emitted')
  <2>1. UNCHANGED <<command, Form, outOk, exitCode>> /\ exitCode = "none"
    BY EmitIs DEF options, command, Form, Typed
  <2> QED
    BY <2>1 DEF Arranged
<1>1. PICK e \in Events : e = Last(answers)
  BY EmitIs
<1>2. /\ Comma \in Seq(Events \cup Marks) /\ <<e>> \in Seq(Events \cup Marks)
      /\ Foot \in Seq(Events \cup Marks) /\ output' = output \o (Comma \o <<e>> \o Foot)
      /\ output \in Seq(Events \cup Marks) /\ emitted' = emitted + 1 /\ emitted \in Nat
      /\ (first <=> emitted = 0) /\ toolPc' = (IF Lasts THEN "leave" ELSE "next")
  BY <1>1, EmitIs DEF Put, Typed
<1>3. PICK body : body = output \o (Comma \o <<e>>)
  OBVIOUS
<1>4. Comma \o <<e>> \in Seq(Events \cup Marks) /\ body \in Seq(Events \cup Marks)
  BY <1>2, <1>3, Joined
<1>5. output' = body \o Foot
  <2>1. PICK a \in Seq(Events \cup Marks), c \in Seq(Events \cup Marks),
             f \in Seq(Events \cup Marks) :
               a = output /\ c = Comma \o <<e>> /\ f = Foot
    BY <1>2, <1>4
  <2>2. a \o c \o f = a \o (c \o f)
    BY Regrouped
  <2>3. output' = a \o (c \o f) /\ body = a \o c
    BY <1>2, <1>3, <2>1
  <2> QED
    BY <2>1, <2>2, <2>3
<1>6. OpenArray(output, emitted)
  BY EmitIs DEF Arranged, Looping
<1>7. OpenArray(body, emitted')
  <2>1. CASE emitted = 0
    <3>1. Comma = <<>>
      BY <1>2, <2>1, BetweenIsMark
    <3>2. <<>> \o <<e>> = <<e>>
      BY <1>2, ConcatEmptySeq
    <3>3. body = output \o <<e>> /\ emitted' = 1
      BY <1>2, <1>3, <2>1, <3>1, <3>2
    <3> QED
      BY <1>2, <1>6, <2>1, <3>3, FirstObject
  <2>2. CASE emitted # 0
    <3>1. Comma = <<Between>>
      BY <1>2, <2>2, BetweenIsMark
    <3>2. Between \in Events \cup Marks
      BY BetweenIsMark
    <3>3. output \o <<Between>> = Append(output, Between) /\ Append(output, Between) \in Seq(Events \cup Marks)
      BY <1>2, <3>2, AppendIsConcat, AppendProperties
    <3>4. Append(output, Between) \o <<e>> = Append(Append(output, Between), e)
      BY <3>3, AppendIsConcat
    <3>5. output \o (Comma \o <<e>>) = output \o Comma \o <<e>>
      BY <1>2, Regrouped
    <3>6. body = Append(Append(output, Between), e)
      BY <1>3, <3>1, <3>3, <3>4, <3>5
    <3> QED
      <4>1. e \in Events \cup Marks /\ e # Between
        BY BetweenIsMark
      <4> QED
        BY <1>2, <1>6, <2>2, <3>2, <3>6, <4>1, NextObject
  <2> QED
    BY <2>1, <2>2
<1>8. CASE Lasts
  <2>1. Foot = <<"]">> /\ toolPc' = "leave"
    BY <1>2, <1>8 DEF Foot
  <2>2. "]" \in Events \cup Marks
    BY DEF Marks
  <2>3. output' = Append(body, "]")
    BY <1>4, <1>5, <2>1, <2>2, AppendIsConcat
  <2> QED
    BY <1>4, <1>7, <2>1, <2>3 DEF ClosedArray, Looping
<1>9. CASE ~Lasts
  <2>1. Foot = <<>> /\ toolPc' = "next"
    BY <1>2, <1>9 DEF Foot
  <2>2. output' = body
    BY <1>4, <1>5, <2>1, ConcatEmptySeq
  <2> QED
    BY <1>7, <2>1, <2>2
<1> QED
  BY <1>8, <1>9

LEMMA ArrangedStep ==
  ASSUME Typed, Arranged, [Next]_vars
  PROVE  Arranged'
<1>1. CASE Emit
  BY <1>1, ArrangedEmit
<1>2. CASE OpenLog
  <2>1. toolPc' = "next" /\ exitCode' = "none" /\ UNCHANGED <<command, Form, outOk, emitted>>
        /\ emitted = 0 /\ output = <<>>
    BY <1>2 DEF OpenLog, Typed, Preparing, options, command, Form
  <2>2. command = "export" /\ Form = "json" /\ outOk => output' = <<"[">>
    <3>1. <<"[">> \in Seq(Events \cup Marks)
      BY MarkTyped DEF Marks
    <3>2. <<>> \o <<"[">> = <<"[">>
      BY <3>1, ConcatEmptySeq
    <3> QED
      BY <1>2, <2>1, <3>2 DEF OpenLog, Put
  <2>3. OpenArray(<<"[">>, 0)
    BY DEF OpenArray
  <2> QED
    BY <2>1, <2>2, <2>3 DEF Arranged
<1>3. CASE AtEnd
  <2>1. /\ toolPc = "answer" /\ toolPc' = "leave" /\ UNCHANGED <<command, Form, outOk, emitted>>
        /\ Put(IF Form = "json" THEN <<"]">> ELSE <<>>)
        /\ exitCode' = "none" /\ output \in Seq(Events \cup Marks)
    BY <1>3 DEF AtEnd, Leave, options, command, Form, Typed
  <2>2. ASSUME command = "export", Form = "json", outOk
        PROVE  ClosedArray(output', emitted')
    <3>1. OpenArray(output, emitted)
      BY <2>1, <2>2 DEF Arranged, Looping
    <3>2. "]" \in Events \cup Marks
      BY DEF Marks
    <3>3. output' = Append(output, "]")
      BY <2>1, <2>2, <3>2, AppendIsConcat DEF Put
    <3> QED
      BY <2>1, <3>1, <3>3 DEF ClosedArray
  <2> QED
    BY <2>1, <2>2 DEF Arranged, Looping
<1>4. CASE OutputFails
  BY <1>4 DEF OutputFails, Arranged
<1>5. CASE MainOnly
  BY <1>5 DEF MainOnly, Exit, Arranged, options, command, Commands, Looping
<1>6. CASE \/ Dispatch \/ ParseOption \/ OptionsRefused \/ OptionsRead \/ OpenOutput
           \/ OpenOutputFails \/ OpenLogFails \/ OnError
  <2>1. ~Looping' /\ toolPc' # "leave" /\ exitCode' # "0"
    BY <1>6 DEF Dispatch, ParseOption, OptionsRefused, OptionsRead, OpenOutput, OpenOutputFails,
                OpenLogFails, OnError, Exit, Looping, Typed
  <2> QED
    BY <2>1 DEF Arranged
<1>7. CASE CallNext \/ Count \/ Skip
  BY <1>7 DEF CallNext, Count, Skip, Arranged, Looping, options, command, Form, Typed
<1>8. CASE Return
  BY <1>8 DEF Return, Exit, Arranged, Looping, options, command, Form
<1>9. CASE Grow \/ Terminated \/ UNCHANGED vars
  BY <1>9 DEF Grow, Terminated, vars, toolVars, Arranged, Looping, options, command, Form
<1> QED
  BY <1>1, <1>2, <1>3, <1>4, <1>5, <1>6, <1>7, <1>8, <1>9 DEF Next

\* A JSON export with exit code 0 is a JSON array: one bracket at each end, and
\* a comma between two objects and nowhere else (write_json), whichever way
\* the loop ends and whatever the filter skips.
THEOREM JsonCorrect == Spec => []JsonIsAnArray
<1>1. Init => Typed /\ Matched /\ Arranged
  <2>1. Init => Arranged
    BY DEF Init, Arranged, Looping
  <2> QED
    BY <2>1, InitTyped, MatchedInit
<1>2. Typed /\ Matched /\ Arranged /\ [Next]_vars => (Typed /\ Matched /\ Arranged)'
  BY StepTyped, MatchedStep, ArrangedStep
<1>3. Typed /\ Matched /\ Arranged => JsonIsAnArray
  <2> SUFFICES ASSUME Typed, Matched, Arranged,
                      exitCode = "0", command = "export", Form = "json", outOk
               PROVE  /\ Len(output) = (IF Printed = <<>> THEN 2 ELSE 2 * Len(Printed) + 1)
                      /\ output[1] = "[" /\ Last(output) = "]"
                      /\ \A i \in 2 .. Len(output) - 1 : output[i] = Between <=> i % 2 = 1
    BY Zenon DEF JsonIsAnArray, Between
  <2>1. PICK body \in Seq(Events \cup Marks) :
               OpenArray(body, emitted) /\ output = Append(body, "]")
    BY DEF Arranged, ClosedArray
  <2>2. "]" \in Events \cup Marks
    BY DEF Marks
  <2>3. /\ Len(output) = Len(body) + 1 /\ output[Len(body) + 1] = "]" /\ Len(body) \in Nat
        /\ \A i \in 1 .. Len(body) : output[i] = body[i]
    BY <2>1, <2>2, AppendProperties, LenProperties
  <2>4. emitted = Len(Printed) /\ Printed \in Seq(Events) /\ emitted \in Nat
    BY PrintedTyped DEF Matched, Typed
  <2>5. Len(body) = (IF emitted = 0 THEN 1 ELSE 2 * emitted) /\ body[1] = "["
        /\ \A i \in 2 .. Len(body) : body[i] = Between <=> i % 2 = 1
    BY <2>1 DEF OpenArray
  <2>6. Printed = <<>> <=> emitted = 0
    BY <2>4, EmptySeq
  <2>7. Len(output) = (IF Printed = <<>> THEN 2 ELSE 2 * Len(Printed) + 1)
    <3>1. CASE emitted = 0
      BY <2>3, <2>5, <2>6, <3>1
    <3>2. CASE emitted # 0
      BY <2>3, <2>4, <2>5, <2>6, <3>2
    <3> QED
      BY <3>1, <3>2
  <2>8. 1 \in 1 .. Len(body) /\ Last(output) = "]"
    <3>1. 1 <= Len(body)
      <4>1. CASE emitted = 0
        BY <2>5, <4>1
      <4>2. CASE emitted # 0
        <5>1. PICK n \in Nat : n = emitted
          BY <2>4
        <5>2. Len(body) = 2 * n /\ n # 0
          BY <2>5, <4>2, <5>1
        <5> QED
          BY <5>2
      <4> QED
        BY <4>1, <4>2
    <3> QED
      BY <2>3, <3>1 DEF Last
  <2>9. ASSUME NEW i \in 2 .. Len(output) - 1
        PROVE  output[i] = Between <=> i % 2 = 1
    <3>1. i \in 2 .. Len(body) /\ i \in 1 .. Len(body)
      BY <2>3
    <3> QED
      BY <2>3, <2>5, <3>1
  <2> QED
    BY <2>3, <2>5, <2>7, <2>8, <2>9
<1> QED
  BY <1>1, <1>2, <1>3, PTL DEF Spec
-----------------------------------------------------------------------------
(* What is read of the log *)

\* While nothing is wrong with the file, the events returned are the first of
\* the log, and the reader is behind the record of the last of them.
Followed ==
  /\ Mirrors(Log)
  /\ Undamaged =>
       \E k \in 0 .. Len(Log) : Returned(answers) = First(Log, k) /\ position = Place(Log, k)
  /\ toolPc = "next" /\ readerPc = "payload" =>
       \E k \in 0 .. Len(Log) :
         /\ k < Len(Log) /\ Returned(answers) = First(Log, k)
         /\ position = Place(Log, k) + 2 /\ header = Log[k + 1]

LEMMA FollowedNext ==
  ASSUME Typed, Followed, CallNext
  PROVE  Followed'
<1>0. Log \in Seq(Events)
  BY ToolParameters
<1>1. Accepts \/ Returns \/ Gives("end") \/ Gives("format") \/ Gives("crc")
  BY NextRecordIs DEF Typed, CallNext
<1>2. /\ toolPc = "next" /\ ReaderTyped /\ NextRecord /\ UNCHANGED <<file, exitCode>>
      /\ exitCode = "none" /\ Mirrors(Log) /\ Mirrors(Log)'
  BY DEF CallNext, Typed, Followed, Mirrors
<1>3. CASE Accepts
  <2>1. PICK k \in 0 .. Len(Log) : Returned(answers) = First(Log, k) /\ position = Place(Log, k)
    BY <1>2, <1>3 DEF Accepts, Followed, Undamaged
  <2>2. PICK e \in Events : Cells(2) = RecordHeader(e) /\ header' = e
    BY <1>3 DEF Accepts
  <2>3. PICK m \in 0 .. Len(Log) : m < Len(Log) /\ position = Place(Log, m) /\ Log[m + 1] = e
    BY <1>0, <1>2, <2>1, <2>2, HeaderInLog
  <2>4. m = k
    <3>1. m \in Int /\ k \in Int /\ (m < k \/ m = k \/ k < m)
      BY <1>0, LenProperties
    <3>2. Place(Log, m) \in Nat /\ Place(Log, k) \in Nat
      BY <1>0, PlaceEnds
    <3>3. ~(Place(Log, m) < Place(Log, k)) /\ ~(Place(Log, k) < Place(Log, m))
      BY <2>1, <2>3, <3>2
    <3> QED
      BY <1>0, <3>1, <3>3, PlaceOrdered
  <2>5. toolPc' = "next" /\ readerPc' = "payload"
    BY <1>3 DEF Accepts, CallNext
  <2>6. Returned(answers') = First(Log, k) /\ position' = Place(Log, k) + 2
    BY <1>3, <2>1 DEF Accepts
  <2> QED
    BY <1>2, <2>2, <2>3, <2>4, <2>5, <2>6 DEF Followed, Undamaged, First, Place
<1>4. CASE Returns
  <2>1. PICK k \in 0 .. Len(Log) :
               /\ k < Len(Log) /\ Returned(answers) = First(Log, k)
               /\ position = Place(Log, k) + 2 /\ header = Log[k + 1]
    BY <1>2, <1>4 DEF Returns, Followed
  <2>2. /\ Log[k + 1] \in Events /\ k + 1 \in 0 .. Len(Log) /\ PayloadCells[Log[k + 1]] \in Nat
        /\ Place(Log, k + 1) = Place(Log, k) + (2 + PayloadCells[Log[k + 1]])
        /\ Place(Log, k) \in Nat
    BY <1>0, <2>1, PlaceNext, PlaceEnds
  <2>3. Returned(answers') = Append(Returned(answers), header) /\ Returned(answers) \in Seq(Events)
    BY <1>2, <1>4, <2>1, <2>2, OneReturned DEF Returns
  <2>4. Returned(answers') = First(Log, k + 1)
    <3>1. First(Log, k + 1) = First(Log, k) \o <<Log[k + 1]>>
      BY <1>0, <2>1, FirstNext
    <3>2. PICK e \in Events : e = Log[k + 1]
      BY <2>2
    <3>3. PICK r \in Seq(Events) : r = Returned(answers)
      BY <2>3
    <3>4. Append(r, e) = r \o <<e>>
      BY AppendIsConcat
    <3> QED
      BY <2>1, <2>3, <3>1, <3>2, <3>3, <3>4
  <2>5. position' = Place(Log, k + 1)
    <3>1. position' = position + PayloadCells[Log[k + 1]]
      BY <1>4, <2>1 DEF Returns
    <3>2. PICK p \in Nat, c \in Nat : p = Place(Log, k) /\ c = PayloadCells[Log[k + 1]]
      BY <2>2
    <3>3. position' = (p + 2) + c /\ Place(Log, k + 1) = p + (2 + c)
      BY <2>1, <2>2, <3>1, <3>2
    <3> QED
      BY <3>3
  <2>6. toolPc' = "answer"
    BY <1>4 DEF CallNext, Returns
  <2> QED
    BY <1>2, <2>2, <2>4, <2>5, <2>6 DEF Followed, Undamaged, First, Place
<1>5. CASE Gives("end")
  <2>1. NextEnd
    BY <1>2, <1>5, EndIsNextEnd DEF Gives
  <2>2. position' = position /\ readerPc = "idle" /\ toolPc' = "answer"
    BY <1>2, <1>5, <2>1, TakenEnd DEF NextEnd, CallNext, Gives
  <2>3. Returned(answers') = Returned(answers)
    BY <1>2, <1>5, NothingReturned DEF Gives
  <2>4. PICK k \in 0 .. Len(Log) : Returned(answers) = First(Log, k) /\ position = Place(Log, k)
    BY <1>2, <2>2 DEF Followed, Undamaged
  <2> QED
    BY <1>2, <2>2, <2>3, <2>4 DEF Followed, Undamaged, First, Place
<1>6. ASSUME NEW a \in {"format", "crc"}, Gives(a)
      PROVE  Followed'
  <2>1. toolPc' = "answer"
    BY <1>2, <1>6 DEF CallNext, Gives
  <2>2. Last(answers') = a
    BY <1>6, FrontOfAppend DEF Gives, Typed, ReaderTyped, Answers
  <2> QED
    BY <1>2, <1>6, <2>1, <2>2 DEF Followed, Undamaged
<1> QED
  BY <1>1, <1>3, <1>4, <1>5, <1>6

\* Steps that neither read nor start: what holds of a reader still holds.
LEMMA FollowedKept ==
  ASSUME Followed, Mirrors(Log)', UNCHANGED readerVars,
         Undamaged' => Undamaged, toolPc' = "next" /\ readerPc' = "payload" => UNCHANGED toolPc
  PROVE  Followed'
BY DEF Followed, readerVars, First, Place

LEMMA FollowedStep ==
  ASSUME Typed, Followed, [Next]_vars
  PROVE  Followed'
<1>0. Log \in Seq(Events) /\ Mirrors(Log)
  BY ToolParameters DEF Followed
<1>1. CASE CallNext
  BY <1>1, FollowedNext
<1>2. CASE OpenLog
  <2>1. /\ ReaderTyped /\ Open /\ answers = <<>> /\ UNCHANGED <<file, exitCode>>
        /\ toolPc' = "next" /\ position = 0 /\ Mirrors(Log)'
    BY <1>0, <1>2 DEF OpenLog, Typed, Preparing, ReaderTyped, Mirrors
  <2>2. Cells(2) = <<Cell("file", 1), Cell("file", 2)>>
    BY <2>1 DEF Open, FileCells
  <2>3. Got(2) = 2
    BY <2>1, <2>2, HeaderRead
  <2>4. position' = 2 /\ readerPc' = "idle" /\ answers' = <<>>
    BY <2>1, <2>3 DEF Open, Read
  <2>5. First(Log, 0) = <<>>
    BY <1>0, SubSeqEmpty DEF First
  <2>6. Returned(answers') = First(Log, 0) /\ position' = Place(Log, 0) /\ 0 \in 0 .. Len(Log)
    BY <1>0, <2>4, <2>5, ReturnedEmpty, PlaceEnds, LenProperties
  <2> QED
    BY <2>1, <2>4, <2>6 DEF Followed, Undamaged, First, Place
<1>3. CASE AtEnd \/ Count \/ Skip \/ Emit
  <2>1. /\ toolPc = "answer" /\ Last(answers) \notin {"format", "crc"}
        /\ UNCHANGED <<file, readerVars, exitCode>>
    <3>1. CASE AtEnd
      BY <3>1 DEF AtEnd, Leave
    <3>2. CASE Count \/ Skip \/ Emit
      BY <3>2, Parameters, EmitIs DEF Count, Skip
    <3> QED
      BY <1>3, <3>1, <3>2
  <2>2. Undamaged /\ readerPc' = "idle"
    BY <2>1 DEF Undamaged, Typed, readerVars
  <2>3. Mirrors(Log)'
    BY <1>0, <2>1 DEF Mirrors
  <2> QED
    BY <2>1, <2>2, <2>3, FollowedKept
<1>4. CASE Return
  <2>1. toolPc = "leave" /\ UNCHANGED <<file, readerVars>> /\ toolPc' = "exited"
    BY <1>4 DEF Return, Exit
  <2>2. Mirrors(Log)' /\ Undamaged
    BY <1>0, <2>1 DEF Mirrors, Undamaged
  <2> QED
    BY <2>1, <2>2, FollowedKept
<1>5. CASE \/ MainOnly \/ OptionsRefused \/ OpenOutputFails \/ OnError
           \/ Dispatch \/ ParseOption \/ OptionsRead
  <2>1. UNCHANGED <<file, readerVars>> /\ ~Undamaged' /\ toolPc' # "next"
    BY <1>5 DEF MainOnly, OptionsRefused, OpenOutputFails, OnError, Dispatch, ParseOption,
                OptionsRead, Exit, Undamaged, options, command, Commands, Typed
  <2>2. Mirrors(Log)'
    BY <1>0, <2>1 DEF Mirrors
  <2> QED
    BY <2>1, <2>2, FollowedKept
<1>6. CASE OpenLogFails
  <2>1. UNCHANGED file /\ ~Undamaged' /\ toolPc' # "next"
    BY <1>6 DEF OpenLogFails, Exit, Undamaged
  <2>2. Mirrors(Log)'
    BY <1>0, <2>1 DEF Mirrors
  <2> QED
    BY <2>1, <2>2 DEF Followed
<1>7. CASE OpenOutput
  <2>1. UNCHANGED <<readerVars, exitCode>> /\ toolPc' = "open" /\ exitCode' = "none"
    BY <1>7 DEF OpenOutput, Typed
  <2>2. Mirrors(Log)'
    <3>1. CASE UNCHANGED file
      BY <1>0, <3>1 DEF Mirrors
    <3>2. CASE file' = <<>>
      <4>1. Len(file') = 0
        BY <3>2, EmptySeq
      <4>2. Len(LogOf(Log)) \in Nat /\ LogOf(Log)' = LogOf(Log)
        BY <1>0, PlaceEnds DEF LogOf
      <4>3. 1 .. 0 = {}
        OBVIOUS
      <4> QED
        BY <4>1, <4>2, <4>3 DEF Mirrors
    <3> QED
      BY <1>7, <3>1, <3>2 DEF OpenOutput
  <2> QED
    BY <2>1, <2>2, FollowedKept DEF Undamaged
<1>8. CASE OutputFails \/ Terminated \/ UNCHANGED vars
  <2>1. UNCHANGED <<file, readerVars, toolPc, exitCode, commandLine>>
    BY <1>8 DEF OutputFails, Terminated, vars, toolVars, options
  <2>2. Mirrors(Log)' /\ (Undamaged' => Undamaged)
    BY <1>0, <2>1 DEF Mirrors, Undamaged, readerVars, command
  <2> QED
    BY <2>1, <2>2, FollowedKept
<1>9. CASE Grow
  <2>1. Mirrors(Log)' /\ UNCHANGED <<readerVars, toolPc, exitCode, commandLine>>
    BY <1>9, GrowIsGrowth DEF Grow, toolVars, options
  <2>2. Undamaged' => Undamaged
    BY <2>1 DEF Undamaged, readerVars, command
  <2> QED
    BY <2>1, <2>2, FollowedKept
<1> QED
  BY <1>1, <1>2, <1>3, <1>4, <1>5, <1>6, <1>7, <1>8, <1>9 DEF Next
-----------------------------------------------------------------------------
(* The command line *)

\* The word that the first n words give an option, the last time they do.
Asking(o, n) == LastUse(Line, {}, o, n)

LEMMA AskedIsAsking ==
  ASSUME NEW S, Line \in Seq(S), NEW o
  PROVE  Asked(Grammar, Line, o) = Asking(o, Len(Line))
<1>1. Grammar.flag = {}
  BY DEF Grammar, ExportOptions, CommonOptions
<1>2. IsOption(Grammar, Line) = TurnsOf(Line, Grammar.flag)
  BY DEF IsOption, TurnsOf
<1>3. DOMAIN Line = 1 .. Len(Line)
  BY LenProperties
<1>4. \A i \in DOMAIN Line : i \in Turns(Line, {}) <=> IsOption(Grammar, Line)[i]
  BY <1>1, <1>2, Zenon DEF Turns
<1>5. {i \in DOMAIN Line : Line[i] = o /\ IsOption(Grammar, Line)[i]}
        = {i \in 1 .. Len(Line) : Line[i] = o /\ i \in Turns(Line, {})}
  BY <1>3, <1>4, Zenon
<1> QED
  BY <1>5, Zenon DEF Asked, Asking, LastUse

\* The first n words are options and their values, each option has the value
\* given last, and what was not given its default.
ReadUpTo(n) ==
  /\ n \in 0 .. Len(Line) /\ OptionNext(Line, {}, n)
  /\ \A o \in Options :
       \/ Asking(o, n) = {} /\ given[o] = Defaults[o]
       \/ \E word \in STRING : Asking(o, n) = {word} /\ given[o] \in Values(Grammar, o, word)

\* What has been read of the command line.
LineRead ==
  /\ commandLine = <<>> => toolPc = "main" \/ exitCode = "1"
  /\ toolPc = "main" => given = Defaults
  /\ toolPc = "options" =>
       \E n \in 0 .. Len(Line) : ReadUpTo(n) /\ args = SubSeq(Line, n + 1, Len(Line))
  /\ \/ toolPc \in {"output", "open", "next", "answer", "leave"}
     \/ exitCode = "0" /\ command \in Commands
     => ReadUpTo(Len(Line))
  /\ \/ toolPc \in {"next", "answer", "leave"}
     \/ exitCode = "0" /\ command \in Commands
     => given["--input"] = LogName

LEMMA LineTyped ==
  ASSUME Typed, commandLine # <<>>
  PROVE  Line \in Seq(STRING) /\ Len(Line) \in Nat /\ DOMAIN Line = 1 .. Len(Line)
<1>1. Line \in Seq(STRING)
  BY HeadTailProperties DEF Line, Typed
<1> QED
  BY <1>1, LenProperties

LEMMA ReadMore ==
  ASSUME Typed, LineRead, ParseOption
  PROVE  LineRead'
<1>1. /\ toolPc = "options" /\ toolPc' = "options" /\ exitCode = "none" /\ exitCode' = "none"
      /\ UNCHANGED commandLine /\ commandLine # <<>> /\ ReadValue(Grammar)
  <2>1. Grammar.flag = {}
    BY DEF Grammar, ExportOptions, CommonOptions
  <2> QED
    BY <2>1 DEF ParseOption, ReadOption, ReadFlag, Typed, LineRead
<1>2. Line \in Seq(STRING) /\ Line' = Line /\ Grammar' = Grammar
  BY <1>1, LineTyped DEF Line, Grammar, command
<1>3. PICK l \in Nat : l = Len(Line)
  BY <1>2, LenProperties
<1>4. PICK n \in 0 .. l : ReadUpTo(n) /\ args = SubSeq(Line, n + 1, Len(Line))
  BY <1>1, <1>3 DEF LineRead
<1>5. PICK a \in Nat : a = Len(args) /\ a >= 2
  BY <1>1, LenProperties DEF ReadValue, Typed
<1>6. /\ a = l - n /\ n \in Nat
      /\ \A i \in 1 .. a : args[i] = Line[n + i]
      /\ SubSeq(args, 2 + 1, Len(args)) = SubSeq(Line, (n + 2) + 1, Len(Line))
  <2>1. n \in Nat /\ n <= Len(Line) /\ 2 \in Nat /\ 2 <= Len(args)
    BY <1>3, <1>4, <1>5
  <2>2. /\ Len(args) = Len(Line) - n
        /\ \A i \in 1 .. Len(Line) - n : args[i] = Line[n + i]
        /\ SubSeq(args, 2 + 1, Len(args)) = SubSeq(Line, (n + 2) + 1, Len(Line))
    <3>1. PICK line \in Seq(STRING), m \in Nat : line = Line /\ m = n
      BY <1>2, <2>1
    <3>2. m <= Len(line) /\ args = SubSeq(line, m + 1, Len(line))
      BY <1>4, <2>1, <3>1
    <3>3. PICK k \in Nat : k = 2
      OBVIOUS
    <3>4. k <= Len(args)
      BY <2>1, <3>3
    <3>5. /\ Len(args) = Len(line) - m
          /\ \A i \in 1 .. Len(line) - m : args[i] = line[m + i]
          /\ SubSeq(args, k + 1, Len(args)) = SubSeq(line, (m + k) + 1, Len(line))
      BY <3>2, <3>4, RestOfRest
    <3> QED
      BY <3>1, <3>3, <3>5
  <2> QED
    BY <1>3, <1>5, <2>1, <2>2
<1>7. args[1] = Line[n + 1] /\ args[2] = Line[n + 2] /\ n + 2 <= Len(Line) /\ n + 2 \in 1 .. l
  <2>1. 1 \in 1 .. a /\ 2 \in 1 .. a /\ n + 2 <= l
    BY <1>5, <1>6
  <2> QED
    BY <1>3, <1>6, <2>1
<1>8. args' = SubSeq(Line, (n + 2) + 1, Len(Line))
  BY <1>1, <1>6 DEF ReadValue
<1>9. /\ OptionNext(Line, {}, n + 2)
      /\ \A o : Asking(o, n + 2) = IF o = Line[n + 1] THEN {Line[n + 2]} ELSE Asking(o, n)
  <2>1. OptionNext(Line, {}, n) /\ Line[n + 1] \notin {}
    BY <1>4 DEF ReadUpTo
  <2>2. PICK line \in Seq(STRING), none \in {{}}, m \in Nat : line = Line /\ none = {} /\ m = n
    BY <1>2, <1>6
  <2>3. m + 2 <= Len(line) /\ OptionNext(line, none, m) /\ line[m + 1] \notin none
    BY <1>7, <2>1, <2>2
  <2>4. /\ OptionNext(line, none, m + 2)
        /\ \A o : LastUse(line, none, o, m + 2) =
                    IF o = line[m + 1] THEN {line[m + 2]} ELSE LastUse(line, none, o, m)
    BY <2>3, ValueUsed
  <2> QED
    BY <2>2, <2>4 DEF Asking
<1>10. PICK value \in Values(Grammar, args[1], args[2]) :
          given' = [given EXCEPT ![args[1]] = value]
  BY <1>1 DEF ReadValue
<1>11. args[2] \in STRING
  BY <1>2, <1>3, <1>7, ElementOfSeq
<1>12. ASSUME NEW o \in Options
       PROVE  \/ Asking(o, n + 2) = {} /\ given'[o] = Defaults[o]
              \/ \E word \in STRING : /\ Asking(o, n + 2) = {word}
                                      /\ given'[o] \in Values(Grammar, o, word)
  <2>1. CASE o = args[1]
    <3>1. Asking(o, n + 2) = {args[2]}
      BY <1>7, <1>9, <2>1
    <3>2. given'[o] \in Values(Grammar, o, args[2])
      BY <1>10, <2>1 DEF Typed
    <3> QED
      BY <1>11, <3>1, <3>2
  <2>2. CASE o # args[1]
    <3>1. Asking(o, n + 2) = Asking(o, n) /\ given'[o] = given[o]
      BY <1>7, <1>9, <1>10, <2>2 DEF Typed
    <3>2. \/ Asking(o, n) = {} /\ given[o] = Defaults[o]
          \/ \E word \in STRING : Asking(o, n) = {word} /\ given[o] \in Values(Grammar, o, word)
      BY <1>4 DEF ReadUpTo
    <3> QED
      BY <3>1, <3>2, Zenon
  <2> QED
    BY <2>1, <2>2
<1>13. ReadUpTo(n + 2)'
  <2>1. \A o \in Options : Asking(o, n + 2)' = Asking(o, n + 2)
    BY <1>2 DEF Asking
  <2>2. n + 2 \in 0 .. Len(Line)
    BY <1>3, <1>7
  <2> QED
    BY <1>2, <1>9, <1>12, <2>1, <2>2 DEF ReadUpTo, Asking
<1> QED
  BY <1>1, <1>2, <1>3, <1>7, <1>8, <1>13 DEF LineRead

LEMMA ReadNothing ==
  ASSUME Typed, LineRead, Dispatch
  PROVE  LineRead'
<1>1. /\ toolPc = "main" /\ toolPc' = "options" /\ exitCode = "none" /\ exitCode' = "none"
      /\ UNCHANGED <<commandLine, given>> /\ commandLine # <<>> /\ args = commandLine
      /\ args' = Tail(args) /\ given = Defaults
  BY DEF Dispatch, Typed, LineRead
<1>2. Line \in Seq(STRING) /\ Line' = Line /\ Len(Line) \in Nat /\ args' = Line
  BY <1>1, LineTyped DEF Line
<1>3. OptionNext(Line, {}, 0) /\ \A o : Asking(o, 0) = {}
  <2>1. OptionNext(Line, {}, 0) /\ \A o : LastUse(Line, {}, o, 0) = {}
    BY <1>2, NoneUsed
  <2> QED
    BY <2>1 DEF Asking
<1>4. ReadUpTo(0)' /\ 0 \in 0 .. Len(Line)
  BY <1>1, <1>2, <1>3 DEF ReadUpTo, Asking
<1>5. SubSeq(Line, 0 + 1, Len(Line)) = Line
  BY <1>2, SubSeqFull
<1> QED
  BY <1>1, <1>2, <1>4, <1>5 DEF LineRead

\* The words are used up: the line has been read.
LEMMA ReadAll ==
  ASSUME Typed, LineRead, OptionsRead
  PROVE  LineRead'
<1>1. /\ toolPc = "options" /\ toolPc' \in {"open", "output"} /\ exitCode = "none"
      /\ exitCode' = "none" /\ UNCHANGED <<commandLine, given>> /\ commandLine # <<>>
      /\ args = <<>>
  BY DEF OptionsRead, options, Typed, LineRead
<1>2. Line \in Seq(STRING) /\ Line' = Line /\ Grammar' = Grammar
  BY <1>1, LineTyped DEF Line, Grammar, command
<1>3. PICK line \in Seq(STRING), l \in Nat : line = Line /\ l = Len(line)
  BY <1>2, LenProperties
<1>4. PICK n \in 0 .. l : ReadUpTo(n) /\ args = SubSeq(line, n + 1, Len(line))
  BY <1>1, <1>3 DEF LineRead
<1>5. n \in Nat /\ n <= Len(line) /\ 0 \in Nat
  BY <1>3, <1>4
<1>6. PICK k \in Nat : k = 0 /\ k <= Len(args)
  BY <1>1, EmptySeq
<1>7. Len(args) = Len(line) - n
  BY <1>4, <1>5, <1>6, RestOfRest
<1>8. n = Len(Line)
  BY <1>1, <1>3, <1>5, <1>7, EmptySeq
<1>9. ReadUpTo(Len(Line))'
  BY <1>1, <1>2, <1>4, <1>8 DEF ReadUpTo, Asking
<1> QED
  BY <1>1, <1>2, <1>9 DEF LineRead

\* Once read, the options stay what they are.
LEMMA LineKept ==
  ASSUME LineRead, UNCHANGED options, commandLine # <<>>,
         toolPc \in {"output", "open", "next", "answer", "leave"},
         \/ toolPc' \in {"output", "open", "next", "answer", "leave"}
         \/ toolPc' = "exited" /\ exitCode' = "0",
         toolPc' \in {"next", "answer", "leave"} \/ exitCode' = "0" =>
           given["--input"] = LogName
  PROVE  LineRead'
<1>1. ReadUpTo(Len(Line))
  BY DEF LineRead
<1>2. Line' = Line /\ Grammar' = Grammar /\ UNCHANGED given
  BY DEF options, Line, Grammar, command
<1>3. ReadUpTo(Len(Line))'
  BY <1>1, <1>2 DEF ReadUpTo, Asking
<1> QED
  BY <1>2, <1>3 DEF LineRead, options

LEMMA LineStep ==
  ASSUME Typed, LineRead, [Next]_vars
  PROVE  LineRead'
<1>1. CASE Dispatch
  BY <1>1, ReadNothing
<1>2. CASE ParseOption
  BY <1>2, ReadMore
<1>3. CASE OptionsRead
  BY <1>3, ReadAll
<1>4. CASE MainOnly \/ OptionsRefused \/ OpenOutputFails \/ OpenLogFails \/ OnError
  <2>1. /\ toolPc' = "exited" /\ UNCHANGED commandLine
        /\ \/ exitCode' = "1"
           \/ exitCode' = "0" /\ commandLine # <<>> /\ command \notin Commands
    BY <1>4 DEF MainOnly, OptionsRefused, OpenOutputFails, OpenLogFails, OnError, Exit,
                options, Commands
  <2> QED
    BY <2>1 DEF LineRead, command
<1>5. CASE OpenOutput \/ OpenLog
  <2>1. /\ toolPc \in {"output", "open"} /\ exitCode = "none" /\ commandLine # <<>>
        /\ toolPc' \in {"open", "next"} /\ exitCode' = "none" /\ UNCHANGED options
        /\ toolPc' = "next" => given["--input"] = LogName
    BY <1>5 DEF OpenOutput, OpenLog, Typed, LineRead
  <2> QED
    BY <2>1, LineKept
<1>6. CASE CallNext \/ AtEnd \/ Count \/ Skip \/ Emit \/ Return
  <2>1. /\ toolPc \in {"next", "answer", "leave"} /\ exitCode = "none" /\ UNCHANGED options
    BY <1>6, EmitIs DEF CallNext, AtEnd, Leave, Count, Skip, Return, Typed
  <2>2. \/ toolPc' \in {"next", "answer", "leave"}
        \/ toolPc' = "exited" /\ exitCode' = "0"
    BY <1>6, EmitIs DEF CallNext, AtEnd, Leave, Count, Skip, Return, Exit
  <2>3. commandLine # <<>> /\ given["--input"] = LogName
    BY <2>1 DEF LineRead
  <2> QED
    BY <2>1, <2>2, <2>3, LineKept
<1>7. CASE OutputFails \/ Grow \/ Terminated \/ UNCHANGED vars
  <2>1. UNCHANGED <<options, toolPc, exitCode>>
    BY <1>7 DEF OutputFails, Grow, Terminated, vars, toolVars
  <2>2. Line' = Line /\ Grammar' = Grammar /\ UNCHANGED <<given, args, commandLine>>
    BY <2>1 DEF options, Line, Grammar, command
  <2>3. \A n \in 0 .. Len(Line) : ReadUpTo(n) => ReadUpTo(n)'
    BY <2>2 DEF ReadUpTo, Asking
  <2>4. ReadUpTo(Len(Line)) => ReadUpTo(Len(Line))'
    BY <2>2 DEF ReadUpTo, Asking
  <2> QED
    BY <2>1, <2>2, <2>3, <2>4 DEF LineRead, command
<1> QED
  BY <1>1, <1>2, <1>3, <1>4, <1>5, <1>6, <1>7 DEF Next

\* Why the loop was left: at the end of the log, or at the limit.
Ended ==
  toolPc = "leave" \/ (exitCode = "0" /\ command \in Commands) =>
    \/ Last(answers) = "end"
    \/ command # "inspect" /\ limit # 0 /\ emitted = limit

LEMMA EndedStep ==
  ASSUME Typed, Ended, [Next]_vars
  PROVE  Ended'
<1>1. CASE AtEnd
  BY <1>1 DEF AtEnd, Leave, readerVars, Ended
<1>2. CASE Emit
  <2>1. /\ toolPc' = (IF Lasts THEN "leave" ELSE "next") /\ emitted' = emitted + 1
        /\ command # "inspect" /\ UNCHANGED <<options, exitCode>> /\ toolPc = "answer"
    BY <1>2, EmitIs
  <2>2. emitted \in Nat /\ limit \in Nat /\ (limit # 0 => emitted < limit) /\ exitCode = "none"
    BY <2>1 DEF Typed, Looping
  <2>3. Lasts => limit # 0 /\ emitted + 1 = limit
    <3>1. PICK m \in Nat, k \in Nat : m = limit /\ k = emitted
      BY <2>2
    <3> QED
      BY <2>2, <3>1 DEF Lasts
  <2> QED
    BY <2>1, <2>2, <2>3 DEF Ended, options, command, limit
<1>3. CASE Return
  BY <1>3 DEF Return, Exit, Ended, readerVars, options, command, limit, Typed
<1>4. CASE CallNext \/ Count \/ Skip
  BY <1>4 DEF CallNext, Count, Skip, Ended, Typed
<1>5. CASE \/ MainOnly \/ OptionsRefused \/ OpenOutputFails \/ OpenLogFails \/ OnError
           \/ Dispatch \/ ParseOption \/ OptionsRead \/ OpenOutput \/ OpenLog
  <2>1. /\ toolPc' # "leave" /\ UNCHANGED commandLine
        /\ exitCode' = "0" => command \notin Commands
    BY <1>5 DEF MainOnly, OptionsRefused, OpenOutputFails, OpenLogFails, OnError, Exit,
                Dispatch, ParseOption, OptionsRead, OpenOutput, OpenLog, options, Commands, Typed
  <2> QED
    BY <2>1 DEF Ended, command
<1>6. CASE OutputFails \/ Grow \/ Terminated \/ UNCHANGED vars
  <2>1. UNCHANGED <<options, toolPc, exitCode, emitted, readerVars>>
    BY <1>6 DEF OutputFails, Grow, Terminated, vars, toolVars
  <2> QED
    BY <2>1 DEF Ended, readerVars, options, command, limit
<1> QED
  BY <1>1, <1>2, <1>3, <1>4, <1>5, <1>6 DEF Next
-----------------------------------------------------------------------------
(* What the options ask for *)

\* Its name keeps the literal out of the other obligations, as with Between.
Nothing == ""

LEMMA DefaultsAre ==
  /\ "--input" \in Options /\ Defaults["--input"] = Nothing /\ LogName # Nothing
  /\ "--limit" \in Options /\ Defaults["--limit"] = 0
  /\ \A o \in {"--producer", "--type", "--severity", "--from-ns", "--to-ns"} :
       o \in Options /\ Defaults[o] = NoOption
<1>1. \A o \in Options : o \notin ExportOptions.text =>
         Defaults[o] = IF o = "--limit" THEN 0 ELSE NoOption
  BY DEF Options, Defaults
<1>2. \A o \in ExportOptions.text : o \in Options /\ Defaults[o] = Nothing
  <2>1. Defaults = [o \in Options |-> CASE o \in ExportOptions.text -> Nothing
                                       [] o = "--limit" -> 0
                                       [] OTHER -> NoOption]
    BY Zenon DEF Defaults, Options, Nothing
  <2>2. \A o \in ExportOptions.text : o \in Options /\ o # "--limit"
    BY DEF Options, Valued, ExportOptions, CommonOptions
  <2> QED
    BY <2>1, <2>2
<1>3. "--input" \in ExportOptions.text /\ LogName # Nothing
  BY ToolParameters DEF ExportOptions, CommonOptions, Nothing
<1>4. \A o \in {"--limit", "--producer", "--type", "--severity", "--from-ns", "--to-ns"} :
         o \in Options /\ o \notin ExportOptions.text
  BY DEF Options, Valued, ExportOptions, CommonOptions
<1> QED
  BY <1>1, <1>2, <1>3, <1>4

\* A word is one number at most.
LEMMA OneNumber ==
  ASSUME NEW word, NEW n \in Number(word)
  PROVE  n \in Nat /\ Number(word) = {n}
BY NumberAssumption DEF Number

LEMMA OneSeverity ==
  ASSUME NEW word, NEW s \in SeverityFromString(word)
  PROVE  s \in Nat /\ SeverityFromString(word) = {s}
<1>1. CASE word \in DOMAIN Names
  <2>1. word \notin DOMAIN ShortNames /\ word \notin DOMAIN NumberOf
    BY <1>1, NumberAssumption DEF Names, ShortNames
  <2>2. SeverityFromString(word) = {Names[word]}
    BY <1>1, <2>1 DEF SeverityFromString, Number
  <2>3. Names[word] \in Nat
    BY <1>1 DEF Names
  <2> QED
    BY <2>2, <2>3
<1>2. CASE word \in DOMAIN ShortNames
  <2>1. word \notin DOMAIN Names /\ word \notin DOMAIN NumberOf
    BY <1>2, NumberAssumption DEF Names, ShortNames
  <2>2. SeverityFromString(word) = {ShortNames[word]}
    BY <1>2, <2>1 DEF SeverityFromString, Number
  <2>3. ShortNames[word] \in Nat
    BY <1>2 DEF ShortNames
  <2> QED
    BY <2>2, <2>3
<1>3. CASE word \notin DOMAIN Names /\ word \notin DOMAIN ShortNames
  <2>1. SeverityFromString(word) = UNION {SeverityFromU16(n) : n \in Number(word)}
    BY <1>3 DEF SeverityFromString
  <2>2. PICK n \in Number(word) : s \in SeverityFromU16(n)
    BY <2>1
  <2>3. Number(word) = {n} /\ s = n /\ s \in Nat
    BY <2>2, OneNumber DEF SeverityFromU16
  <2> QED
    BY <2>1, <2>2, <2>3 DEF SeverityFromU16
<1> QED
  BY <1>1, <1>2, <1>3

\* A number option is not given, or given and in force.
LEMMA NumberAsked ==
  ASSUME Typed, commandLine # <<>>, ReadUpTo(Len(Line)),
         NEW o \in {"--producer", "--type", "--from-ns", "--to-ns", "--limit"}
  PROVE  \/ AskedNumber(Grammar, Line, o) = {} /\ given[o] = Defaults[o]
         \/ AskedNumber(Grammar, Line, o) = {given[o]} /\ given[o] \in Nat
<1>1. Line \in Seq(STRING)
  BY LineTyped
<1>2. o \in Options
  BY DefaultsAre
<1>3. Asked(Grammar, Line, o) = Asking(o, Len(Line))
  BY <1>1, AskedIsAsking
<1>4. CASE Asking(o, Len(Line)) = {} /\ given[o] = Defaults[o]
  BY <1>3, <1>4 DEF AskedNumber
<1>5. ASSUME NEW word \in STRING, Asking(o, Len(Line)) = {word},
             given[o] \in Values(Grammar, o, word)
      PROVE  AskedNumber(Grammar, Line, o) = {given[o]} /\ given[o] \in Nat
  <2>1. o \notin Grammar.text /\ o \notin Grammar.severity
    BY DEF Grammar, ExportOptions, CommonOptions
  <2>2. given[o] \in Number(word)
    BY <1>5, <2>1 DEF Values
  <2>3. AskedNumber(Grammar, Line, o) = Number(word)
    BY <1>3, <1>5 DEF AskedNumber
  <2> QED
    BY <2>2, <2>3, OneNumber
<1> QED
  BY <1>2, <1>4, <1>5 DEF ReadUpTo

LEMMA SeverityAsked ==
  ASSUME Typed, commandLine # <<>>, ReadUpTo(Len(Line))
  PROVE  \/ Asked(Grammar, Line, "--severity") = {} /\ given["--severity"] = NoOption
         \/ \E word : /\ Asked(Grammar, Line, "--severity") = {word}
                      /\ SeverityFromString(word) = {given["--severity"]}
                      /\ given["--severity"] \in Nat
<1>1. Line \in Seq(STRING)
  BY LineTyped
<1>2. PICK o \in Options : o = "--severity" /\ Defaults[o] = NoOption
  BY DefaultsAre
<1>3. Asked(Grammar, Line, o) = Asking(o, Len(Line))
  BY <1>1, AskedIsAsking
<1>4. ASSUME NEW word \in STRING, given[o] \in Values(Grammar, o, word)
      PROVE  SeverityFromString(word) = {given[o]} /\ given[o] \in Nat
  <2>1. /\ o \notin Grammar.text /\ o \notin Grammar.u64 /\ o \notin Grammar.positive
        /\ o \notin Grammar.u32 /\ o \notin Grammar.u16
    BY <1>2 DEF Grammar, ExportOptions, CommonOptions
  <2>2. given[o] \in SeverityFromString(word)
    BY <1>4, <2>1 DEF Values
  <2> QED
    BY <2>2, OneSeverity
<1>5. \/ Asking(o, Len(Line)) = {} /\ given[o] = Defaults[o]
      \/ \E word \in STRING : /\ Asking(o, Len(Line)) = {word}
                              /\ given[o] \in Values(Grammar, o, word)
  BY DEF ReadUpTo
<1> QED
  BY <1>2, <1>3, <1>4, <1>5

LEMMA InputAsked ==
  ASSUME Typed, commandLine # <<>>, ReadUpTo(Len(Line)), given["--input"] = LogName
  PROVE  Asked(Grammar, Line, "--input") = {LogName}
<1>1. Line \in Seq(STRING)
  BY LineTyped
<1>2. PICK o \in Options : o = "--input" /\ Defaults[o] = Nothing /\ LogName # Nothing
  BY DefaultsAre
<1>3. Asked(Grammar, Line, o) = Asking(o, Len(Line))
  BY <1>1, AskedIsAsking
<1>4. PICK word \in STRING : Asking(o, Len(Line)) = {word} /\ given[o] \in Values(Grammar, o, word)
  BY <1>2 DEF ReadUpTo
<1>5. /\ o \notin Grammar.severity /\ o \notin Grammar.u64 /\ o \notin Grammar.positive
      /\ o \notin Grammar.u32 /\ o \notin Grammar.u16
  BY <1>2 DEF Grammar, ExportOptions, CommonOptions
<1>6. given[o] = word
  BY <1>4, <1>5 DEF Values
<1> QED
  BY <1>2, <1>3, <1>4, <1>6

\* The filter is what the line asks for.
LEMMA MatchesWanted ==
  ASSUME Typed, commandLine # <<>>, ReadUpTo(Len(Line))
  PROVE  {e \in Events : Wanted(e)} = Matching
<1>1. NoOption \notin Nat
  BY ToolParameters
<1>2. \A o \in {"--producer", "--type", "--from-ns", "--to-ns"} :
         \/ AskedNumber(Grammar, Line, o) = {} /\ given[o] = NoOption
         \/ AskedNumber(Grammar, Line, o) = {given[o]} /\ given[o] # NoOption
  BY <1>1, NumberAsked, DefaultsAre
<1>3. ASSUME NEW e \in Events
      PROVE  Wanted(e) <=> Matches(e)
  <2>1. (\A n \in AskedNumber(Grammar, Line, "--producer") : Fields[e].producer = n)
          <=> given["--producer"] \in {NoOption, Fields[e].producer}
    BY <1>2
  <2>2. (\A n \in AskedNumber(Grammar, Line, "--type") : Fields[e].type = n)
          <=> given["--type"] \in {NoOption, Fields[e].type}
    BY <1>2
  <2>3. (\A word \in Asked(Grammar, Line, "--severity") :
           Fields[e].severity \in SeverityFromString(word))
          <=> given["--severity"] \in {NoOption, Fields[e].severity}
    BY <1>1, SeverityAsked
  <2>4. (\A n \in AskedNumber(Grammar, Line, "--from-ns") : Timestamp[e] >= n)
          <=> (given["--from-ns"] # NoOption => Timestamp[e] >= given["--from-ns"])
    BY <1>2
  <2>5. (\A n \in AskedNumber(Grammar, Line, "--to-ns") : Timestamp[e] <= n)
          <=> (given["--to-ns"] # NoOption => Timestamp[e] <= given["--to-ns"])
    BY <1>2
  <2> QED
    BY <2>1, <2>2, <2>3, <2>4, <2>5 DEF Wanted, Matches
<1> QED
  BY <1>3 DEF Matching

LEMMA MostIsLimit ==
  ASSUME Typed, commandLine # <<>>, ReadUpTo(Len(Line))
  PROVE  MostWanted = {limit} \ {0}
<1>1. \/ AskedNumber(Grammar, Line, "--limit") = {} /\ limit = 0
      \/ AskedNumber(Grammar, Line, "--limit") = {limit}
  BY NumberAsked, DefaultsAre DEF limit
<1> QED
  BY <1>1 DEF MostWanted
-----------------------------------------------------------------------------
(* What exit code 0 says *)

SelectionInv == Typed /\ Matched /\ Followed /\ LineRead /\ Ended

LEMMA SelectionInit ==
  ASSUME Init
  PROVE  SelectionInv
<1>1. Typed /\ Matched
  BY InitTyped, MatchedInit
<1>2. Followed
  BY InitialFile DEF Followed, Undamaged, Init
<1>3. LineRead /\ Ended
  BY DEF Init, LineRead, Ended
<1> QED
  BY <1>1, <1>2, <1>3 DEF SelectionInv

\* After exit code 0 of dump or export, in terms of the loop.
LEMMA LoopDone ==
  ASSUME SelectionInv, exitCode = "0", command \in {"dump", "export"}
  PROVE  /\ commandLine # <<>> /\ ReadUpTo(Len(Line)) /\ given["--input"] = LogName
         /\ Chosen = Only(Returned(answers), Matching) /\ Chosen \in Seq(Events)
         /\ emitted = Len(Chosen) /\ limit \in Nat /\ emitted \in Nat
         /\ limit # 0 => emitted <= limit
         /\ Last(answers) = "end" \/ (limit # 0 /\ emitted = limit)
         /\ outOk => Printed = Chosen
         /\ IsPrefix(Printed, Chosen)
         /\ IsPrefix(Returned(answers), Log)
<1>1. toolPc = "exited" /\ command \in Commands /\ command # "inspect"
  BY DEF SelectionInv, Typed, Commands
<1>2. Chosen = Only(Returned(answers), Matching)
  BY <1>1 DEF Chosen, Handled
<1>3. IsPrefix(Printed, Chosen)
  <2>1. Printed \in Seq(Events)
    BY PrintedTyped DEF SelectionInv
  <2>2. PICK a \in Seq(Events), rest \in Seq(Events) : a = Printed /\ Chosen = a \o rest
    BY <1>1, <2>1 DEF SelectionInv, Matched
  <2>3. IsPrefix(a, a \o rest)
    BY ContinuedIsPrefix
  <2> QED
    BY <2>2, <2>3
<1>4. IsPrefix(Returned(answers), Log)
  <2>1. PICK k \in 0 .. Len(Log) : Returned(answers) = First(Log, k)
    BY <1>1 DEF SelectionInv, Followed, Undamaged
  <2>2. PICK s \in Seq(Events) : s = Log
    BY ToolParameters
  <2>3. IsPrefix(SubSeq(s, 1, k), s)
    BY <2>2, FirstIsPrefix
  <2> QED
    BY <2>1, <2>2, <2>3 DEF First
<1>5. Chosen \in Seq(Events)
  BY ChosenTyped DEF SelectionInv
<1> QED
  BY <1>1, <1>2, <1>3, <1>4, <1>5 DEF SelectionInv, Typed, Matched, LineRead, Ended

\* Exit code 0 from dump or export: the output is exactly what the options on
\* the command line ask for of the events read, in order and at most --limit of
\* them, and these are the first of the log (dump_events, write_csv, write_json
\* and EventFilter::matches); an output that failed unnoticed only lacks the end.
THEOREM SelectionCorrect == Spec => []ExitZeroMeansSelected
<1>1. Init => SelectionInv
  BY SelectionInit
<1>2. SelectionInv /\ [Next]_vars => SelectionInv'
  BY StepTyped, MatchedStep, FollowedStep, LineStep, EndedStep DEF SelectionInv
<1>3. SelectionInv => ExitZeroMeansSelected
  <2> SUFFICES ASSUME SelectionInv, exitCode = "0", command \in {"dump", "export"}
               PROVE  ExitZeroMeansSelected
    BY DEF ExitZeroMeansSelected
  <2>0. Typed /\ commandLine # <<>> /\ ReadUpTo(Len(Line)) /\ given["--input"] = LogName
    BY LoopDone DEF SelectionInv
  <2>1. Only(Returned(answers), {e \in Events : Wanted(e)}) = Chosen
    BY <2>0, MatchesWanted, LoopDone
  <2>2. MostWanted = {limit} \ {0} /\ Asked(Grammar, Line, "--input") = {LogName}
    BY <2>0, MostIsLimit, InputAsked
  <2>3. PICK c \in Seq(Events), l \in Nat : c = Chosen /\ l = limit
    BY LoopDone
  <2>4. /\ Len(c) = emitted /\ Len(c) \in Nat /\ (l # 0 => Len(c) <= l)
        /\ Last(answers) = "end" \/ (l # 0 /\ Len(c) = l)
    BY <2>3, LoopDone
  <2> DEFINE enough == {n \in {l} \ {0} : n <= Len(c)}
             selected == IF enough = {} THEN c
                         ELSE SubSeq(c, 1, CHOOSE n \in enough : TRUE)
  <2>5. enough = (IF l # 0 /\ Len(c) = l THEN {l} ELSE {})
    BY <2>4
  <2>6. selected = c
    <3>1. CASE l # 0 /\ Len(c) = l
      <4>1. enough = {l} /\ (CHOOSE n \in enough : TRUE) = Len(c)
        BY <2>5, <3>1
      <4>2. SubSeq(c, 1, Len(c)) = c
        BY SubSeqFull
      <4> QED
        BY <4>1, <4>2
    <3>2. CASE ~(l # 0 /\ Len(c) = l)
      BY <2>5, <3>2
    <3> QED
      BY <3>1, <3>2
  <2>7. enough = {} => Last(answers) = "end"
    BY <2>4, <2>5
  <2>8. /\ IF outOk THEN Printed = selected ELSE IsPrefix(Printed, selected)
        /\ IsPrefix(Returned(answers), Log)
    BY <2>3, <2>6, LoopDone
  <2> HIDE DEF selected, enough
  <2> DEFINE wanted == Only(Returned(answers), {e \in Events : Wanted(e)})
  <2>9. wanted = c /\ MostWanted = {l} \ {0}
    BY <2>1, <2>2, <2>3
  <2> HIDE DEF wanted
  <2>10. /\ enough = {n \in MostWanted : n <= Len(wanted)}
         /\ selected = IF enough = {} THEN wanted
                       ELSE SubSeq(wanted, 1, CHOOSE n \in enough : TRUE)
    <3>1. enough = {n \in MostWanted : n <= Len(wanted)}
      BY <2>9 DEF enough
    <3>2. selected = IF enough = {} THEN wanted
                     ELSE SubSeq(wanted, 1, CHOOSE n \in enough : TRUE)
      BY <2>9 DEF selected
    <3> QED
      BY <3>1, <3>2
  <2> QED
    BY <2>2, <2>7, <2>8, <2>10, Zenon DEF ExitZeroMeansSelected, wanted
<1> QED
  BY <1>1, <1>2, <1>3, PTL DEF Spec
=============================================================================
