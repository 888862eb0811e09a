# HPBLR verification project

TLA+ models of the HPBLR event recorder (a C++20 program that records binary
events from several producer threads into one append-only log file), model
checked with TLC and proved with TLAPS: every safety property and both
refinements that TLC finds to hold on a small instance are theorems, for every
value of the constants. Paths below are relative to the
repository's root (`src/` there is `src/src/` in `PROJECT.json`, whose paths are
relative to the directory above it).

## 1. Inventory

| Component | State | Operations | Interacts with |
|---|---|---|---|
| `BlockingQueue<T>` (`include/hpblr/blocking_queue.hpp`) | `queue_`, `closed_`, the threads parked on `not_empty_` and `not_full_`, one mutex | `push`, `try_push`, `pop`, `close`; reads: `closed`, `size`, `capacity` | producer threads, the writer thread |
| `AsyncRecorder` (`src/core/async_recorder.cpp`) | `stopping_`, three counters, `writer_error_`, the `jthread` | constructor, `submit`, `run`, `stop`, destructor; read: `stats` | queue (shared), writer (owned by the background thread), callers |
| `BinaryLogWriter` (`src/core/binary_log.cpp:90-200`) | `buffer_`, `out_` (put area, error bits, file), `closed_`, statistics | constructor, `append`, `flush`, `close`, destructor | the file |
| `BinaryLogReader` (`src/core/binary_log.cpp:202-329`) | stream position and error bits, `info_` | constructor, `next` | the file a writer left |
| `hpblr_record` (`apps/hpblr_record.cpp`) | options, `g_stop_requested`, shared counters | `parse_options`, signal handler, producer threads, `main` | `AsyncRecorder`, `Logger` |
| `hpblr_bench` (`apps/hpblr_bench.cpp`) | options, shared sequence counter, report | `parse_options`, producer threads, `main` | `AsyncRecorder` |
| `hpblr_tool` (`apps/hpblr_tool.cpp`) | options, output stream | `main`, `parse_common`, `inspect`, `dump`, `export_events` | `BinaryLogReader`, `EventFilter`, severities |
| `Logger` (`src/core/logger.cpp`) | `min_level_`, `file_`, one mutex | `set_level`, `set_file`, `log` | all threads |
| `EventFilter`, severities, CRC-32, generator | none, or one counter | pure functions; `EventGenerator::next` allocates | reader, tool, producers |

What is hard here: the queue's two condition variables with several producers;
`submit` reading two flags before a push that may sleep; the writer thread
failing while producers sleep on a full queue; `stop` racing `submit`;
a write that fails half way, with bytes in three places; a file cut in the
middle of a record. `PROJECT.json` lists each such place under `hazards`, with
the property that watches it or the reason why none does yet.

What makes each part correct:

- queue: first in first out, bounded, closed for good, no lost wakeup, nobody
  left blocked after `close`;
- recorder: an accepted event is in the file when `stop` returns normally,
  nothing is lost in silence, every call of `stop` says the same, a failed
  writer frees the producers, the counters agree with the results;
- writer: what is in the file is the beginning of what was appended, in order,
  without hole or repetition, even when a write failed;
- reader: exactly the whole records before the first damage, then an error;
- applications: every generated event is submitted once, the exit code tells
  whether it worked, and what was done is what the command line asked for;
- logger: the log file is a copy of the console, and a level that changes
  meanwhile neither hides nor shows a line it should not.

## 2. Modules

| Module | Models |
|---|---|
| `BlockingQueue` | The queue's operations, one step per critical section. A module that owns threads composes them. |
| `QueueClients` | `BlockingQueue` with producers (`push` and `try_push`), consumers (loop on `pop`) and closers: the shape of `tests/test_queue.cpp`. |
| `Channel` | What the queue promises: a bounded, closable FIFO without threads, locks or notifications. |
| `QueueClientsProofs` | The TLAPS proofs about `QueueClients`. |
| `BinaryLogWriter` | The writer's operations and the output stream under it. |
| `AsyncRecorder` | `BlockingQueue` and `BinaryLogWriter` joined by `submit`, `run`, `stop` and the destructor. |
| `AsyncRecorderProofs` | The TLAPS proofs about `AsyncRecorder`: the file, then what its callers see. |
| `SequenceFacts` | Facts that the proofs share: pieces of sequences, induction over natural numbers stated about a set, and where the options are on a command line. |
| `LogFile` | What the writer and the reader share: events, record layout, the file. |
| `BinaryLogReader` | The reader's constructor and `next`, the input stream under it. |
| `BinaryLog` | Writer, file and reader together, with a crash of the process, a power loss, a rotten cell, a device that fails to read: the shape of `tests/test_binary_log.cpp`. |
| `BinaryLogReaderFacts` | The layout of a log, what a reader takes from it and what one call of `next` does, for both modules with proofs about readers. |
| `BinaryLogProofs` | The TLAPS proofs about `BinaryLog`: the writer and its file; what a reader returns. |
| `RecorderContract` | What the recorder promises its callers, without queue, thread, buffers or locks. `AsyncRecorder` implements it. |
| `Event` | The severities and the words that name them, numbers on a command line. |
| `CommandLine` | The option loops of the three programs, over a grammar that says which option takes what; and, for the properties, what a line asks for. |
| `RecordApp` | `hpblr_record` and `hpblr_bench` on top of `RecorderContract` and `CommandLine`: `main`, its producer threads and the signal handler. |
| `RecordAppProofs` | The TLAPS proofs about `RecordApp`. |
| `LogTool` | `hpblr_tool` (`inspect`, `dump`, `export`) on top of `BinaryLogReader` and `CommandLine`, with `EventFilter`. |
| `LogToolProofs` | The TLAPS proofs about `LogTool`. |
| `Logger` | `Logger` with any number of threads that log, set the level and set the file. |
| `LoggerProofs` | The TLAPS proofs about `Logger`. |
| `MCQueueClients`, `MCAsyncRecorder`, `MCBinaryLog`, `MCRecordApp`, `MCLogTool`, `MCLogger` | The finite instances TLC checks. |

### How the code maps to the queue's steps

A critical section runs under `mutex_` from its first statement to its last and
touches nothing outside the queue, so it is one step. `condition_variable::wait`
gives the mutex up: testing the predicate and parking (`PushWait`, `PopWait`)
is one step, the rest of `push`/`pop` after the predicate held (`PushAccept`,
`PushClosed`, `PopTake`, `PopEnd`) another. A thread in `notFullWaiters` or
`notEmptyWaiters` can do nothing until a notification removes it; it then tests
the predicate again, together with every other thread that wants the mutex
(there is no hand-over). `notify_one` removes any one waiter and does nothing
when there is none. `close()` sets the flag under the mutex and notifies after
it has released it: three steps. With `SpuriousWakeups = TRUE`, `wait` may also
return unnotified.

### How the code maps to the recorder's steps

Every access to an atomic, every critical section of `error_mutex_` or of the
queue, and every call of the writer is a step; `pc` names where each thread is.
`submit` is `CallSubmit`, `CheckError`, `CheckStopping`, `Push`, `Count`;
`run` is `RunPop`, `RunAppend`, `RunCount`, `RunFlush` and, for its catch
clause, `RunCatch`; `stop` is `CallStop`, `StopClose`, `StopJoin`,
`StopRethrow`; the destructor is `CallDestructor`, the same steps, and
`DestroyWriter`. The writer is used by the background thread only, and by the
destructor after the join, so its calls need not be split.

A record is one unit in the recorder's instances: the cut inside a record
belongs to the reader's model. The writer keeps units in `buffer` (`buffer_`),
`pending` (the put area of `out_`, where a write leaves data until a flush or a
larger write) and `file`. A failing write may have sent any strict prefix.

### How the code maps to the log's steps

One thread uses a writer, so each of its calls is a step. Here a record is two
units for its 48-byte header (the magic, the rest) and any number for its
payload, none included; the file header is two. A unit is `intact` or not. A CRC
stands for its purpose, to tell intact contents from anything else: which
damaged bytes collide is not modelled. A payload is opaque: its units may be
anything, the header of a record or a whole record of another event included.
This matters after an exception, because a reader that goes on behind a header
it has refused goes on inside the payload, and takes what looks like a record
there for one. (Where units begin is fixed: a record that begins in the middle
of a payload unit is the same case as one that begins with it.) `next` is two
steps, because it calls `in_.read` twice and the file may grow, while it is
being written, between them: `NextHeader`, then `NextEvent`,
`NextTruncatedPayload` or `NextBadPayload`; the other ways out are one step.
`inState` keeps the stream's bits: a stream that has met its end delivers
nothing ever after. The check of the severity is not separate: a writer only
encodes severities that exist, and a damaged one fails the header's CRC first.
(Only something inside a payload could be a header with a right CRC and no
severity. Here `next` throws at once, in the code behind the payload; neither
returns an event.)

`Rot` and `PowerLoss` happen before the file is opened for reading, `Crash` at
any time.

### How the code maps to the application's steps

A producer's loop is `TestFlag`, `Draw`, `Submit`, `CountGenerated`: one step
per access to something shared. `submit` is what the contract makes of it: the
event gets in at some moment (`Accept`), later the call returns, or it is
refused, or it throws. The last ends the process (`SubmitThrows`): the function
of a `std::jthread` that is left by an exception calls `std::terminate`. So does
a generator that finds no memory for a payload (`GeneratorThrows`). `main` reads
its options, opens the log file and the recorder, starts the producers one by
one, which may fail, joins them (`producers.clear()`), stops the recorder,
reports and leaves its block, where the recorder is destroyed. The signal may
come at any moment once its handler is installed. `hpblr_bench` is the same
program (`program`) with another grammar, without the flag, the counter
`generated` and the handler, and with a report that may fail. `spoiled` says
what became of the recording when other text went to its file, which is opened
by name only: `"behind"`, the last line of the log file was appended to it;
`"over"`, the report of `hpblr_bench`, whose `std::ofstream` empties the file it
opens, has replaced it. What is left of it then is `Recording`.

### How the code maps to the options' steps

`args` holds the words not read yet, `given` the options' values. `ReadOption`
is one turn of the loop: an option and the word behind it, whatever that word
looks like, or a flag. What a word is worth (`Values`) is `parse_u64` and its
narrower forms or `severity_from_string`; a word that is worth nothing, an
unknown option or a missing value is an exception (`Refused`), `--help` an exit
(`Help`). `NumberOf` gives the words `std::from_chars` accepts; the widths of
`std::uint16_t` and `std::uint32_t` are scaled down (`MaxU16`, `MaxU32`). The
properties do not read `given`: `Asked` looks at the line as a whole, and the
last use of an option counts.

### How the code maps to the tool's steps

`main` picks the command (`MainOnly`, `Dispatch`), the options are read, and an
export with `--output` opens its output first (`OpenOutput`). The three commands
share one loop (`CallNext`, then `AtEnd`, `OnError`, `Count`,
`Skip` or `Emit`), so `LogTool` has it once, with the command as a value. The
log starts in any state `BinaryLog` shows a file can be in (cut anywhere, one
rotten unit) and may grow while it is intact. What is printed for an event is
the event; the punctuation of JSON is kept, because a property is about it. The
output may fail at any moment and then loses any part of its end (`OutputFails`).

### How the code maps to the logger's steps

`log` reads `min_level_` in a step of its own (`TestLevel`), waits for the mutex
(`Lock`) and writes to the console and to the file in two steps, the second of
which gives the mutex back. `set_level` and `set_file` are `Lock` and one step.
The unprotected read is a data race, undefined by the standard; what the build
can produce is the value stored last (an aligned `int`, made visible by the
unlock of `set_level`, read anew in each call, which is in another translation
unit than its callers). The stream is a file or none (`fileOpen`) and its error
bits (`fileGood`): a write without a file sets `badbit`, `open` clears it, but
fails on a stream that is open.

History variables, which no step reads: `accepted`, `delivered` (queue);
`appended`, `powerLost`, `damaged` (except as a bound), `sealed`, `answers`
(except its length, a bound) and `ioErrors` (log); `atSignal` (application);
`accepted`, `stopResults` and the contents of `results` (recorder; its length
is how far the producer's plan has come); `inForce` and `broken` (logger).

## 3. Runs

| Run | Question | Bounds |
|---|---|---|
| `queue_safety` | Is a notification lost, does anybody deadlock, do the values keep their order (the abstract channel, with room for two)? | 3 producers, 2 consumers, 2 closers, capacity 2, 2 values each, no spurious wakeups (they would hide a deadlock), symmetry |
| `queue_live` | Is it the abstract channel with a requested capacity of 0 too, is there progress, does `close` release everybody? | 2 producers, 2 consumers, 1 closer, requested capacity 0, 2 values each, spurious wakeups |
| `recorder_faults` | Are the file, the counters and the results right whatever fails and whenever `stop` comes? Does the recorder implement its contract? | 2 producers of 2 events, capacity 1, threshold of 2 records, any write may fail, one event too large, 2 calls of `stop`, destructor |
| `recorder_live` | Does everything end? | as above, with 2 and 1 events, a threshold of 1 (so that the first write may fail while the queue is full), one `stop`, spurious wakeups |
| `binary_log` | Is what a reader returns what was appended, whatever happened to the writer and to the file? | 4 appends (one refused as too large), payloads of 1, 2 and 2 units, of which the last is a whole record of an event that is never appended, a threshold of 5 units, any write or read may fail, one crash, one power loss, one rotten unit, 5 calls of `next` |
| `binary_log_boundary` | Is the end only reported at a record boundary? No: see the findings. | undamaged, disk healthy |
| `record_app` | Does exit code 0 mean a log without gaps, as long as was asked for? Does a signal stop the producers, does a signal or a limit end the program? | both programs, 30 command lines (each kind of option, good, bad, missing, twice, help), 1 or 2 producers, `--events` 2, 3 or unlimited (then at most 3 numbers are drawn before the signal, `MaxSequence`), the recorder may fail and threads may not start at any moment |
| `record_app_failure` | Does a failure end in exit code 1? No: see the findings. | the same |
| `log_tool` | What does exit code 0 say about the output? | 60 command lines: each option alone with good words, words that are no value and numbers too large for the field, options twice, missing, unknown, all at once; 3 records, the log cut at each unit, each unit rotten, or growing; reads and outputs may fail |
| `logger` | Is the log file a copy of the console, is each line judged by a level in force? | 3 threads of 2 calls each, any of `log`, `set_level`, `set_file`; two levels, so that a line may be below, at or above the one in force; the device may fail |
| `recorder_refusal` | Does `false` mean "stopping"? No: see the findings. | healthy disk, one event too large |
| `recorder_shutdown` | Does shutdown keep every accepted event? No: see the findings. | the same |

Why the bounds are enough: two producers and a capacity of one reach "one is
parked, one barges in, one slot is freed"; three producers on two slots reach
"two wakeups due to different pops". Two events per producer let the threshold
be reached with one record buffered before it and one after it, and put events
behind the one that fails. Two calls of `stop` and the destructor give all three
ways into `join`. In the log, three records of different sizes and a threshold
between one and two of them make some records wait in `buffer_` while others are
written, and a cut can fall on each kind of boundary; five calls of `next` are
three events, the end and one call after it, or leave two calls after an
exception: with a rotten header in the last record a reader that goes on meets
the record in its payload, which has no payload itself. The first event has
timestamp 0, the value the reader takes for "not set". Two producers and two or
three numbers let each producer go round its loop twice with the signal in
between.

Fairness: weak fairness of each thread that is inside a call (`Push`, `Pop`,
`Submit`, `Run`, `Stop`) says that the scheduler runs every runnable thread;
calling `push`, `submit`, `stop` or `close` is never assumed. A mutex makes no
promise to a particular producer, so no property says that a given `push`
returns on an open queue, only that some value gets in (`PushProgress`).

In `RecordApp` the fairness of `Submits` is that of all producers together, for
the same reason, and a stopping recorder saves what it accepted, which
`recorder_live` (`StopReturns`) and `recorder_faults` (`StopIsABarrier`) show of
the recorder itself. The signal is never assumed to come.

Deadlock is checked in every run; the models rest only in `Terminated`.

One limit of the properties about the file: when the last write of a writer's
destructor fails, the stream's own destructor sends its put area again, and part
of it may be in the file twice. The model does this (`DestroyIoError`).
`FileIsPrefix` of `BinaryLog` says what such a file is: it goes back at one
place, repeats a piece from there on and leaves nothing out (`StepsBackOnce`).
What is said of the reader, and of the recorder's file, speaks of every other
case (`Repeated` in `BinaryLog`, `pc[Owner] # "destroyed"` in `AsyncRecorder`).

## 4. Findings

- `FalseMeansStopping` (`recorder_refusal`): `submit` also returns `false` when
  the writer thread failed and closed the queue, with nobody stopping;
  `include/hpblr/async_recorder.hpp:69` names stopping as the only reason.
  What does hold is `NoSilentRefusal`: the exception is stored by then.
- `ShutdownPreservesSubmitted` (`recorder_shutdown`): `submit` accepts an event
  of more than `kMaxPayloadBytes`; the writer thread then ends and the accepted
  events behind it are dropped, on a healthy disk, where
  `docs/ROBUSTNESS.md:31-36` says shutdown drains all queued events.

- `EndOnlyAtBoundary` (`binary_log_boundary`): after the exception about a
  truncated record, the next call of `next` returns `std::nullopt`, the normal
  end, in the middle of a record; `docs/BINARY_FORMAT.md:55` says the reader
  stops at end-of-file only at a record boundary. What does hold is
  `EndIsHonest`, about a reader that has met no exception.
- `FailureExitsWithOne` (`record_app_failure`): a writer failure seen by
  `submit` leaves the function of a producer thread, which is `std::terminate`,
  an abort (`apps/hpblr_record.cpp:157`, `apps/hpblr_bench.cpp:161`; the trace is
  of `hpblr_bench`); `docs/TECHNICAL_DESIGN.md:67` says the CLI exits with code 1.
  Only a failure that `stop` reports first does. A producer whose generator
  throws ends the process in the same way.

Met on the way, with no run of its own:

- `next` looks at `gcount()` only, so a device error is thrown as
  `FileFormatError` ("truncated"), never as the `IoError` that
  `include/hpblr/binary_log.hpp:115` documents. What does hold is that it is
  never taken for the end (`EndIsHonest`);
- the tool does not look at its output stream after opening it, so a cut export
  ends with exit code 0 (`OutputFails`). What does hold is that only its end is
  missing: `ExitZeroMeansSelected` says that what was printed is a beginning of
  what was selected, and all of it if the output did not fail; an export onto
  the log itself empties the log before reading it (`OpenOutput`);
- `hpblr_bench --report` with the name of the recording replaces it by the
  report, `hpblr_record --log-file` writes its last line behind it, both with
  exit code 0 (`Report`, `spoiled`). What does hold is `StoppedMeansComplete`,
  about every line that does not name the recording as the report;
- a caller that goes on calling `next` after an exception may be given an event
  that was never appended, from inside a payload (`binary_log.cpp:253-296`).
  What does hold is `ReadsInOrder`: the event's record is whole and intact in the
  file, and it was appended if no payload contains the header of a record;
- `info().first_timestamp_ns` is that of a later event when the first one
  returned has timestamp 0 (`binary_log.cpp:324`); `InfoSpansReturned` says so;
- `include/hpblr/logger.hpp:29` says the logger's mutex protects the
  configuration; `log` reads `min_level_` without it (`logger.cpp:54`), so a
  line may be written after `set_level` has raised the level above it. What
  does hold is `LevelInForce`;
- a second `set_file` throws and ends the first file as well (`OpenFileFails`).

## 5. Proofs

`QueueClientsProofs` proves, for every requested capacity, every finite set of
producers and consumers, every set of closers and every number of values, with
and without spurious wakeups:

- `TypeCorrect`: `TypeOK`, which is inductive;
- `ProducersNeverStranded`, `ConsumersNeverStranded`: the two wakeup
  invariants, each inductive together with `TypeOK`. They bound what is
  available (free slots, elements) by the number of threads that are awake
  inside the call. A step either frees one more and wakes one more, or takes one
  and lets one leave; the lemmas `WakeOnePusher`, `PushersGrow` and their
  counterparts are these cases;
- `QueueImplementsChannel`: the refinement of `Channel`, from the invariant
  `Fifo` (`delivered \o queue = accepted`) and two lemmas about sequences.

They assume `CapacityAssumption`, `ClientsAssumption` and `MaxSendsAssumption`
of the modules: a capacity is a natural number, threads of different kinds are
different, producers and consumers are finitely many.

`AsyncRecorderProofs` proves, for every finite set of producers and every plan
of theirs, every capacity and threshold, any set of oversized events, with and
without failing writes and spurious wakeups: `TypeCorrect` (`TypeOK`),
`EventsConserved` (`Conservation`), `NoHole` (`FileIsPrefix`), `Barrier`
(`StopIsABarrier`), `StopAnswersAgree` (`StopIsConsistent`), `LossIsReported`
(`NoSilentLoss`) and `RefusalHasReason` (`NoSilentRefusal`). None of these is
inductive by itself. The inductive invariant `IInv` has six parts:

- `Typed`: `TypeOK`, with the labels each kind of thread can be at, and that a
  producer inside `submit` has an event left;
- `Phase`: what the label of the writer thread says about the exception in
  flight and the one stored (none in the loop, equal once it has been stored),
  and that nobody is past `join` before the writer thread is done;
- `Drained`: at `flush()` the queue is closed and empty, and after a normal end
  nothing is left in `buffer_` and in the stream either; then the destructor of
  the writer has nothing to write and cannot fail (`EmptyDestroy`);
- `Reasons`: a closed queue means a stop or a stored exception. This is where
  the order of the catch clause, store first and close second, is needed;
- `Conserved`: `Conservation`, and that the refused payload in the writer's
  hands is an event. The lemmas `PushConserves`, `PopConserves`,
  `AppendConserves` and `FlushConserves` are its cases: pieces of one sequence
  are cut and put together elsewhere. `SequenceFacts` has the facts about that,
  with `Joint` for `\o` so that the provers need not look into the pieces, and
  `PiecesRegrouped` says that the six pieces may be grouped in any way;
- `Continued`: the complete log continues the file. A failing write may leave
  any beginning of what it was given (`FailedWriteContinues`), and a stream that
  is bad takes nothing more.

`QueueFrame`, `WriterFrame` and `ResultsFrame` say which actions touch which
state, `ProducerGoes`, `WriterGoes` and `OwnerGoes` what a thread's step does to
the labels; they keep the case analysis short.

The proofs assume, besides those above, `RecorderAssumption` (the producers, the
writer thread and the owner are different threads; plans are sequences of
events) and `WriterAssumption` (a record is one unit, the header is a sequence).
The model has one thread that calls `stop` and the destructor, and so have the
theorems.

The second part of the module adds, under the same assumptions, what the callers
see:

- `CountersRight` (`CountersAgree`). `Counts` ties the two counters of `submit`
  to the results that have been returned, and the accepted events to `submitted`
  and to the producers between `push` and the increment; `Flow` says that until
  the writer thread meets an exception every accepted event is counted as
  written, in its hands or in the queue. Neither is inductive without `IInv`;
- `KeepsItsContract` (`ImplementsContract`): the refinement of
  `RecorderContract`. `ReadableAll` says which accepted events the file holds
  (`Held`): a beginning, because of `Continued`. Each step is then matched with
  the contract's: a push that succeeds is `Accept`, which is never late because
  a log completed by a normal stop has its queue closed (`CompleteMeans`); a
  write is `Save` or, when it sends the header only, not seen (`FileSaves`); a
  normal stop finds all events in the file (`ReadableComplete`); a destructor
  whose last write fails takes no event away (`DestroyReadable`). `Leaving` is
  the part of the invariant about the end: nobody is inside `submit` once the
  destructor has begun.

`RecordAppProofs` proves, for both programs, any number of producer threads, every
limit and all command lines: `TypeCorrect` (`TypeOK`), `OrderKept`
(`OrderPerProducer`), `SignalBounds` (`SignalStopsProducers`),
`ExitZeroIsComplete` (`StoppedMeansComplete`: after exit code 0 of a recording
the file holds the numbers 0 to n-1, each once, n being the limit unless a signal
came, provided that the report has a file other than the output) and, with it,
`ExitZeroIsPromise` (`ExitZeroMeansComplete`: unless help was asked for there was
a recording, and the limit is what the command line asks for). The inductive
invariant has these parts:

- `Typed` and `Phase`: types, and where the producers are while `main` is
  somewhere: none before the recorder is there, all ended when it is stopped;
- `Numbers` and `Ordered`: no number is drawn twice, and what a producer holds
  is newer than what it has handed over;
- `Follows`: the file is a beginning of what the recorder accepted, all of it
  after a `stop` that returned normally;
- `Healthy`: as long as the writer works, every number drawn is in the recorder
  or in the hands of its producer, and a producer only ends on a signal or at
  the limit. With `Numbers` this is why nothing is missing when all have ended;
- `Counted`: `generated` against the accepted events, with the cardinality of
  the producers between two of their steps;
- `Signalled`: no two of the events accepted since the signal (`Late`) come from
  the same producer, and one that still carries an event there has not submitted
  any (`HasSubmitted`). `LastSubmit` is the step that hands one over;
- `LineRead`: behind the words read so far an option may stand, and the limit is
    worth what the last `--events` among them says (see below); a recording is only
  replaced when the report has the name of the output (`OverTheLog`).

`Kinds`, `Quiet` and `Loud` say which steps touch which of these. Last,
`NumbersFit` counts: as many events as numbers, no number twice. The proofs
assume `AppAssumption`, `NumberAssumption` and `WidthAssumption`, and rest on
`RecorderContract`, which `KeepsItsContract` shows the recorder to implement.

`BinaryLogProofs` proves, for every set of events with encodings of any length,
every threshold and any sequence of calls, failures, crashes and damage:
`TypeCorrect` (`TypeOK`), `FileCorrect` (`FileIsPrefix`) and `StatsCorrect`
(`StatsMatchFile`). The inductive invariant `LogInv` follows the pieces of the
log on their way from `buffer_` through the put area into the file:

- `Typed`, `Closed`, `Gone`: types; a closed log has nothing left in `buffer_`
  and the put area; a file is only cut or damaged when its writer has gone;
- `Counted`, `Measured`: the statistics against the events appended and the
  units that have been laid out;
- `Whole`, `Mirror`: until a write fails file, put area and `buffer_` make the
  whole log; afterwards the file still has the units of the log, each at its
  place, but for rotten ones;
- `Kept`, `Back`: what the put area of a failed stream keeps is a piece of the
  log that does not begin behind the end of the file, so a destructor that
  sends it once more repeats a piece and leaves none out.

The second part of the module is about the reader, in any interleaving with the
writer: `OrderOfEvents` (`ReadsInOrder`), `PrefixOfEvents` (`ReadsAPrefix`),
`EndIsTheTruth` (`EndIsHonest`), `InfoCorrect` (`InfoSpansReturned`) and
`ClosedReadsBack` (`ClosedLogReadsBack`). What it needs of the layout and of one
call of `next` is in `BinaryLogReaderFacts`.

- `Place` is where a record begins in the complete log. Until its first exception
  a reader is at one (`Aligned`), whatever the payloads are. Later it may be
  anywhere, and `HeaderIsPlace` says that the intact header of a record is at
  such a place unless it is in a payload (`Plain`). `Doubtful` is the rest: a
  reader that goes on in a log with such a payload;
- `Heading` and `Traced` tie the header in hand and the events returned to their
  places, which grow (`Ordered`), and say that each of their units was in the
  file and intact. Nothing rots under a reader, so they still are: the second part
  of `ReadsInOrder`;
- `HeaderBehind` and `Found` say less, but of every reader, a doubtful one
  included: each event returned is a record the file has, somewhere, behind those
  of the events before it, the first part of `ReadsInOrder`;
- `Spanned`: `info_` against the events returned. The last one gives `last`; the
  first one whose timestamp is not 0 gives `first` (`InfoSpansReturned`);
- `Clean`: before the first exception the position is the place behind the
  events returned (`Before`, `At`), and these are the first ones (`Faithful`);
- `FaultSeen`: a failed read has set a bit that no step clears, and no end is
  told on such a stream; `Consumed`: an end is told where the file ends;
- `Sealed`: a closed, undisturbed log is the complete one and stays it, so that
  no branch that throws is open (`ReadsBack`).

They assume `LayoutAssumption` (the file header is two units, a record two for
its header and those of its payload, which may be any units; an event is none of
the answers that are not events) and `LogAssumption`.

`LogToolProofs` proves, for every log, every command line, every place where the
log is cut, every rotten unit, any growth of the file and any moment at which the
output fails: `TypeCorrect` (`TypeOK`, with the variables of the reader and each
option's type), `DamageReported` (`DamageIsReported`),
`InspectCorrect` (`InspectAddsUp`), `JsonCorrect` (`JsonIsAnArray`) and
`SelectionCorrect` (`ExitZeroMeansSelected`). All rest on `Typed`, which says what
each place in the program knows (no event printed before the log is open, fewer
than the limit while the loop is on), and on one notion: `Handled`, the events
the loop is done with, all those returned but the one in hand. `HandledEvent`
and `HandledKept` say which steps add one. On top of it:

- `Tallied`: count and histogram of `inspect` are those of `Handled`;
- `Consumed`: until an exception is met, what has been read of the file are the
  records of the events returned, and the header in hand;
- `Matched`: the number printed is that of the events in `Handled` that match, and
  the output has them, or a beginning of them once it has failed;
- `Arranged`: the brackets and commas around them (`OpenArray`, `ClosedArray`),
  for the empty array too, and whether the limit or the end closes it;
- `Followed`: the events returned are the first of the log, and the reader is
  behind the last of them: the tool leaves its loop at the first exception, so it
  is always where a record begins, whatever the payloads are;
- `LineRead`: the words read so far, as below; later, each option's value is what
  the last use of it on the line says, or its default;
- `Ended`: the loop was left at the end of the log or at the limit.

`MatchesWanted` then says that `EventFilter::matches`, which looks at the values
read, agrees with `Wanted`, which looks at the line only: a word is at most one
number and one severity (`OneNumber`, `OneSeverity`).

Where the options are on a command line is a recursive function of the words
before (`IsOption`). `SequenceFacts` turns it into a set of places (`Turns`), shows
by induction that it obeys its rule, and has one lemma for each turn of
the loop: nothing read (`NoneUsed`), a flag (`FlagUsed`), an option and its value
(`ValueUsed`). They say what that turn does to the last use of an option
(`LastUse`), and that an option may stand behind it (`OptionNext`); a value that
looks like an option is not taken for one.

The proofs about the two applications assume, besides `LayoutAssumption`,
`NumberAssumption` (a word that is a number is a natural number and not the name
of a severity), `WidthAssumption` (the largest numbers of the two narrow types
are natural numbers) and `ToolAssumption` or `AppAssumption` (command lines are
sequences of words, the log is a sequence of events, an event is no bracket, comma
or column line, an option not given differs from every number; there are as many
threads as any of the command lines asks for).

`LoggerProofs` proves, for every set of threads, levels and calls, `TypeCorrect`
(with mutual exclusion), `FileIsACopy` (`FileFollowsConsole`) and
`LevelHonoured` (`LevelInForce`). `FileIsACopy` needs `Healthy`: a stream with a
file has an error bit exactly if a line was missed, so a stream that is written
to has missed none; the line in hand is one at most, because of the mutex.
`LevelHonoured` needs `Informed`: the level stored is among those in force for
each thread that is about to test it, whoever stores in between. They assume
`LoggerAssumption` only.

The provers cannot use the library's induction theorems, which take an operator.
`SequenceFacts!Induction` states induction about a set of numbers and is derived
from a well-founded order; the facts that need it here (the length of a log, the
places of its records, the places of the options on a line) are about recursive
functions, written as sums or as sets.

Only model checked: liveness (`PushProgress`, `CloseReleasesAll`,
`FailureReleasesProducers`, `StopReturns`, `AcceptedIsWritten`, `ProgramEnds`),
which is out of the prover's reach. The four properties of section 4 do not hold.

## 6. Not modelled

- `Crc32`: arithmetic on 32 bits without state. The reader uses a CRC to tell
  intact bytes from others, and that is how it is modelled; how many damaged
  bytes it detects is a fact about the polynomial.
- `EventGenerator`, but for `EventOf` (the producer and the number of the event
  it makes) and `GeneratorThrows`: timestamps, types, severities and
  pseudo-random payloads, which nothing between the generator and the file looks
  into.
- `time_utils`, exception types, `severity_to_string`, `bytes_to_hex`, usage
  texts and printed lines: formatting, the clock and types.
- Two threads that call `stop()` at once: no caller in the repository does.
- The time of a log line, which `log` takes before it waits for the mutex: lines
  may be out of time order, and nothing promises otherwise.
