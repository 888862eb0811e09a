------------------------------- MODULE Logger -------------------------------
(***************************************************************************)
(* hpblr::Logger (src/core/logger.cpp): threads that log, set the level    *)
(* and set the file.  log() reads min_level_ before it takes the mutex:    *)
(* the read is a step of its own and gives what another thread stored last *)
(* (an aligned int; the unlock of set_level makes the store visible).      *)
(* A line is who wrote it, with which call and at which level; its text    *)
(* and time are left out.                                                  *)
(***************************************************************************)
EXTENDS Integers, SequencesExt

CONSTANTS LogThreads,
          Levels,    \* those of enum class LogLevel that are used
          NoThread,
          MaxCalls   \* bound: calls of each thread

ASSUME LoggerAssumption ==
  /\ Levels \subseteq 0 .. 3 /\ 1 \in Levels
  /\ NoThread \notin LogThreads /\ MaxCalls \in Nat

VARIABLES minLevel,  \* min_level_
          holder,    \* who has mutex_
          fileOpen,  \* file_ has a file
          fileGood,  \* file_ has neither failbit nor badbit
          file,      \* the whole lines in the log file since it was opened
          console,   \* the lines on std::cerr since then
          pc, calls,
          level,     \* the argument of each thread's call
          inForce,   \* history: the values of min_level_ during each call of log
          broken     \* history: since it was opened, a write or a set_file failed

callVars == <<pc, calls, level>>
vars == <<minLevel, holder, fileOpen, fileGood, file, console, callVars,
          inForce, broken>>

Goto(t, label) == pc' = [pc EXCEPT ![t] = label]
Line(t) == [thread |-> t, call |-> calls[t], level |-> level[t]]

Init ==
  /\ minLevel = 1
  /\ holder = NoThread
  /\ fileOpen = FALSE /\ fileGood = TRUE
  /\ file = <<>> /\ console = <<>>
  /\ pc = [t \in LogThreads |-> "idle"]
  /\ calls = [t \in LogThreads |-> 0]
  /\ level = [t \in LogThreads |-> 1]
  /\ inForce = [t \in LogThreads |-> {}]
  /\ broken = FALSE

-----------------------------------------------------------------------------
(* The mutex *)

\* Mutated form: no lock_guard.
LockAnyway(t) ==
  /\ pc[t] \in {"log", "set_level", "set_file"}
  /\ holder' = t
  /\ Goto(t, CASE pc[t] = "log" -> "console"
               [] pc[t] = "set_level" -> "store"
               [] pc[t] = "set_file" -> "open")
  /\ UNCHANGED <<minLevel, fileOpen, fileGood, file, console, calls, level,
                 inForce, broken>>

\* std::lock_guard
Lock(t) ==
  /\ pc[t] \in {"log", "set_level", "set_file"} /\ holder = NoThread
  /\ holder' = t
  /\ Goto(t, CASE pc[t] = "log" -> "console"
               [] pc[t] = "set_level" -> "store"
               [] pc[t] = "set_file" -> "open")
  /\ UNCHANGED <<minLevel, fileOpen, fileGood, file, console, calls, level,
                 inForce, broken>>

\* The call is over, normally or with an exception.
Unlock(t) ==
  /\ holder' = NoThread
  /\ Goto(t, "idle")
  /\ UNCHANGED <<calls, level>>

-----------------------------------------------------------------------------
(* log(level) *)

Call(t, label, l) ==
  /\ pc[t] = "idle" /\ calls[t] < MaxCalls
  /\ Goto(t, label)
  /\ calls' = [calls EXCEPT ![t] = @ + 1]
  /\ level' = [level EXCEPT ![t] = l]
  /\ UNCHANGED <<minLevel, holder, fileOpen, fileGood, file, console, broken>>

CallLog(t, l) ==
  /\ Call(t, "test", l)
  /\ inForce' = [inForce EXCEPT ![t] = {minLevel}]

\* Mutated form: a line at the lowest level wanted is dropped too.
TestLevelStrict(t) ==
  /\ pc[t] = "test"
  /\ Goto(t, IF level[t] <= minLevel THEN "idle" ELSE "log")
  /\ UNCHANGED <<minLevel, holder, fileOpen, fileGood, file, console, calls,
                 level, inForce, broken>>

\* Without the mutex: level < min_level_, or the line is made.
TestLevel(t) ==
  /\ pc[t] = "test"
  /\ Goto(t, IF level[t] < minLevel THEN "idle" ELSE "log")
  /\ UNCHANGED <<minLevel, holder, fileOpen, fileGood, file, console, calls,
                 level, inForce, broken>>

WriteConsole(t) ==
  /\ pc[t] = "console"
  /\ console' = Append(console, Line(t))
  /\ Goto(t, "file")
  /\ UNCHANGED <<minLevel, holder, fileOpen, fileGood, file, calls, level,
                 inForce, broken>>

\* Written and flushed.
WriteFile(t) ==
  /\ pc[t] = "file" /\ fileGood /\ fileOpen
  /\ file' = Append(file, Line(t))
  /\ Unlock(t)
  /\ UNCHANGED <<minLevel, fileOpen, fileGood, console, inForce, broken>>

\* The device fails, or there is no file: the insertion sets badbit.
WriteFileFails(t) ==
  /\ pc[t] = "file" /\ fileGood
  /\ fileGood' = FALSE
  /\ broken' = TRUE
  /\ Unlock(t)
  /\ UNCHANGED <<minLevel, fileOpen, file, console, inForce>>

\* The stream has failed before: if (file_) is false.
NoFile(t) ==
  /\ pc[t] = "file" /\ ~fileGood
  /\ Unlock(t)
  /\ UNCHANGED <<minLevel, fileOpen, fileGood, file, console, inForce, broken>>

-----------------------------------------------------------------------------
(* set_level(level) and set_file(path) *)

CallSetLevel(t, l) == Call(t, "set_level", l) /\ UNCHANGED inForce

StoreLevel(t) ==
  /\ pc[t] = "store"
  /\ minLevel' = level[t]
  /\ inForce' = [u \in LogThreads |-> inForce[u] \cup {level[t]}]
  /\ Unlock(t)
  /\ UNCHANGED <<fileOpen, fileGood, file, console, broken>>

CallSetFile(t) == Call(t, "set_file", 1) /\ UNCHANGED inForce

\* Mutated form: the error bits of a stream that has its file are cleared.
OpenFileAgain(t) ==
  /\ pc[t] = "open"
  /\ fileOpen' = TRUE /\ fileGood' = TRUE /\ broken' = FALSE
  /\ UNCHANGED <<file, console>>
  /\ Unlock(t)
  /\ UNCHANGED <<minLevel, inForce>>

\* The stream has no file: it gets one, and its error bits are cleared.
OpenFile(t) ==
  /\ pc[t] = "open" /\ ~fileOpen
  /\ fileOpen' = TRUE /\ fileGood' = TRUE /\ broken' = FALSE
  /\ file' = <<>> /\ console' = <<>>
  /\ Unlock(t)
  /\ UNCHANGED <<minLevel, inForce>>

\* The file cannot be opened, or the stream has one already: failbit is set
\* and an exception thrown.  The file it has stays open and gets nothing more.
OpenFileFails(t) ==
  /\ pc[t] = "open"
  /\ fileGood' = FALSE
  /\ broken' = TRUE
  /\ Unlock(t)
  /\ UNCHANGED <<minLevel, fileOpen, file, console, inForce>>

-----------------------------------------------------------------------------

Log(t) == TestLevel(t) \/ WriteConsole(t) \/ WriteFile(t) \/ WriteFileFails(t) \/ NoFile(t)
SetUp(t) == StoreLevel(t) \/ OpenFile(t) \/ OpenFileFails(t)

Terminated ==
  /\ \A t \in LogThreads : pc[t] = "idle" /\ calls[t] = MaxCalls
  /\ UNCHANGED vars

Next ==
  \/ \E t \in LogThreads :
       \/ \E l \in Levels : CallLog(t, l) \/ CallSetLevel(t, l)
       \/ CallSetFile(t) \/ Lock(t) \/ Log(t) \/ SetUp(t)
  \/ Terminated

Spec == Init /\ [][Next]_vars

-----------------------------------------------------------------------------
(* Properties *)

Inside == {"console", "file", "store", "open"}
Lines == [thread : LogThreads, call : 1 .. MaxCalls, level : Levels]

\* Every variable keeps its type, and who is inside holds the mutex.
TypeOK ==
  /\ minLevel \in Levels
  /\ pc \in [LogThreads -> Inside \cup {"idle", "test", "log", "set_level", "set_file"}]
  /\ \A t \in LogThreads : pc[t] \in Inside <=> holder = t
  /\ holder \in LogThreads \cup {NoThread}
  /\ {fileOpen, fileGood, broken} \subseteq BOOLEAN
  /\ file \in Seq(Lines) /\ console \in Seq(Lines)
  /\ calls \in [LogThreads -> 0 .. MaxCalls]
  /\ \A t \in LogThreads : pc[t] # "idle" => calls[t] > 0
  /\ level \in [LogThreads -> Levels]
  /\ inForce \in [LogThreads -> SUBSET Levels]

\* The line that is on the console and not yet in the file.
InHand == {Line(t) : t \in {u \in LogThreads : pc[u] = "file"}}

\* The log file is a copy of the console (logger.hpp:6): what it holds are the
\* first lines the console has shown since it was opened, in the same order; and
\* all of them, but for the one being written, as long as no write failed and
\* nobody called set_file again (logger.cpp:45-66).
FileFollowsConsole ==
  /\ IsPrefix(file, console)
  /\ fileOpen /\ ~broken =>
       \/ InHand = {} /\ console = file
       \/ \E line \in InHand : console = Append(file, line)

\* Although the level is read outside the mutex, each call goes by a level that
\* was in force while it ran (logger.cpp:54-56): a line is dropped only below
\* such a level, and shown only at or above one.
LevelInForce ==
  [][\A t \in LogThreads :
       /\ pc[t] = "test" /\ pc'[t] = "idle" => \E l \in inForce[t] : level[t] < l
       /\ pc[t] = "console" /\ pc'[t] = "file" => \E l \in inForce[t] : level[t] >= l]_vars
=============================================================================
