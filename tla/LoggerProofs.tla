---------------------------- MODULE LoggerProofs ----------------------------
(***************************************************************************)
(* Proofs about Logger, for every set of threads, every set of levels and  *)
(* every number of calls.                                                  *)
(***************************************************************************)
EXTENDS Logger, SequenceFacts

-----------------------------------------------------------------------------
(* Types, and who holds the mutex *)

LEMMA TypeInit == Init => TypeOK
<1> SUFFICES ASSUME Init PROVE TypeOK
  OBVIOUS
<1>1. \A t \in LogThreads : pc[t] \notin Inside /\ holder # t
  BY LoggerAssumption DEF Init, Inside
<1>2. file \in Seq(Lines) /\ console \in Seq(Lines)
  BY DEF Init
<1>3. calls \in [LogThreads -> 0 .. MaxCalls] /\ level \in [LogThreads -> Levels]
  BY LoggerAssumption DEF Init
<1> QED
  BY <1>1, <1>2, <1>3, LoggerAssumption DEF Init, TypeOK

\* A line is made of its thread, the number of its call and its level.
LEMMA LineType ==
  ASSUME TypeOK, NEW t \in LogThreads, pc[t] # "idle"
  PROVE  Line(t) \in Lines
<1>1. calls[t] \in 1 .. MaxCalls /\ level[t] \in Levels
  BY LoggerAssumption DEF TypeOK
<1> QED
  BY <1>1 DEF Line, Lines

LEMMA TypeStep == TypeOK /\ [Next]_vars => TypeOK'
<1> SUFFICES ASSUME TypeOK, [Next]_vars PROVE TypeOK'
  OBVIOUS
<1> USE LoggerAssumption
<1>1. CASE UNCHANGED vars \/ Terminated
  BY <1>1 DEF TypeOK, vars, callVars, Terminated
<1>2. ASSUME NEW t \in LogThreads,
             NEW label \in {"test", "set_level", "set_file"},
             NEW l \in Levels, Call(t, label, l),
             inForce' \in [LogThreads -> SUBSET Levels]
      PROVE  TypeOK'
  BY <1>2 DEF TypeOK, Call, Goto, Inside
<1>3. ASSUME NEW t \in LogThreads, NEW l \in Levels, CallLog(t, l) PROVE TypeOK'
  BY <1>2, <1>3 DEF CallLog, TypeOK
<1>4. ASSUME NEW t \in LogThreads, NEW l \in Levels, CallSetLevel(t, l) PROVE TypeOK'
  BY <1>2, <1>4 DEF CallSetLevel, TypeOK
<1>5. ASSUME NEW t \in LogThreads, CallSetFile(t) PROVE TypeOK'
  BY <1>2, <1>5 DEF CallSetFile, TypeOK
<1>6. ASSUME NEW t \in LogThreads, Lock(t) PROVE TypeOK'
  BY <1>6 DEF Lock, Goto, TypeOK, Inside
<1>7. ASSUME NEW t \in LogThreads, TestLevel(t) PROVE TypeOK'
  BY <1>7 DEF TestLevel, Goto, TypeOK, Inside
<1>8. ASSUME NEW t \in LogThreads, WriteConsole(t) PROVE TypeOK'
  <2>1. Append(console, Line(t)) \in Seq(Lines)
    BY <1>8, LineType, AppendProperties DEF WriteConsole, TypeOK
  <2> QED
    BY <1>8, <2>1 DEF WriteConsole, Goto, TypeOK, Inside
<1>9. ASSUME NEW t \in LogThreads, pc[t] \in Inside, Unlock(t),
             minLevel' \in Levels, inForce' \in [LogThreads -> SUBSET Levels],
             {fileOpen', fileGood', broken'} \subseteq BOOLEAN,
             file' \in Seq(Lines) /\ console' \in Seq(Lines)
      PROVE  TypeOK'
  BY <1>9 DEF Unlock, Goto, TypeOK, Inside
<1>10. ASSUME NEW t \in LogThreads, WriteFile(t) PROVE TypeOK'
  <2>1. Append(file, Line(t)) \in Seq(Lines)
    BY <1>10, LineType, AppendProperties DEF WriteFile, TypeOK
  <2> QED
    BY <1>9, <1>10, <2>1 DEF WriteFile, TypeOK, Inside
<1>11. ASSUME NEW t \in LogThreads, WriteFileFails(t) \/ NoFile(t) PROVE TypeOK'
  BY <1>9, <1>11 DEF WriteFileFails, NoFile, TypeOK, Inside
<1>12. ASSUME NEW t \in LogThreads, StoreLevel(t) PROVE TypeOK'
  BY <1>9, <1>12 DEF StoreLevel, TypeOK, Inside
<1>13. ASSUME NEW t \in LogThreads, OpenFile(t) \/ OpenFileFails(t) PROVE TypeOK'
  <2>1. <<>> \in Seq(Lines)
    OBVIOUS
  <2>2. CASE OpenFile(t)
    BY <1>9, <2>1, <2>2 DEF OpenFile, TypeOK, Inside
  <2>3. CASE OpenFileFails(t)
    BY <1>9, <2>3 DEF OpenFileFails, TypeOK, Inside
  <2> QED
    BY <1>13, <2>2, <2>3
<1> QED
  BY <1>1, <1>3, <1>4, <1>5, <1>6, <1>7, <1>8, <1>10, <1>11, <1>12, <1>13
  DEF Next, Log, SetUp

\* Every variable keeps its type, and a thread is inside a critical section of
\* Logger exactly while it holds mutex_: two never are.
THEOREM TypeCorrect == Spec => []TypeOK
BY TypeInit, TypeStep, PTL DEF Spec

-----------------------------------------------------------------------------
(* The log file is a copy of the console *)

\* A stream with a file has missed a line exactly if it has an error bit.
Healthy == fileOpen => (fileGood <=> ~broken)

CopyInv == TypeOK /\ Healthy /\ FileFollowsConsole

\* A sequence begins with itself, and with whatever a shorter one begins with.
LEMMA PrefixOfItself ==
  ASSUME NEW S, NEW s \in Seq(S)
  PROVE  IsPrefix(s, s)
BY LenProperties DEF IsPrefix

LEMMA PrefixGrows ==
  ASSUME NEW S, NEW s \in Seq(S), NEW t \in Seq(S), IsPrefix(s, t), NEW e \in S
  PROVE  IsPrefix(s, Append(t, e))
<1>1. /\ Append(t, e) \in Seq(S) /\ Len(Append(t, e)) = Len(t) + 1
      /\ \A i \in 1 .. Len(t) : Append(t, e)[i] = t[i]
  BY AppendProperties
<1>2. Len(s) \in Nat /\ Len(t) \in Nat /\ Len(s) <= Len(t)
  BY LenProperties DEF IsPrefix
<1>3. SubSeq(Append(t, e), 1, Len(s)) = SubSeq(t, 1, Len(s))
  BY <1>1, <1>2
<1> QED
  BY <1>1, <1>2, <1>3 DEF IsPrefix

\* Who is about to write its line to the file is alone inside.
LEMMA OneInHand ==
  ASSUME TypeOK, NEW t \in LogThreads, pc[t] = "file"
  PROVE  InHand = {Line(t)}
<1>1. \A u \in LogThreads : pc[u] = "file" => u = t
  BY DEF TypeOK, Inside
<1> QED
  BY <1>1 DEF InHand

\* Who is inside elsewhere has no line in hand, and neither has anybody else.
LEMMA NoneInHand ==
  ASSUME TypeOK, NEW t \in LogThreads, pc[t] \in Inside \ {"file"}
  PROVE  InHand = {}
<1>1. \A u \in LogThreads : pc[u] # "file"
  BY DEF TypeOK, Inside
<1> QED
  BY <1>1 DEF InHand

\* A step that moves no thread to or from the write keeps the line in hand.
LEMMA SameInHand ==
  ASSUME \A u \in LogThreads : pc'[u] = "file" <=> pc[u] = "file",
         \A u \in LogThreads : pc[u] = "file" => Line(u)' = Line(u)
  PROVE  InHand' = InHand
BY DEF InHand

LEMMA CopyInit == Init => CopyInv
<1> SUFFICES ASSUME Init PROVE Healthy /\ FileFollowsConsole
  BY TypeInit DEF CopyInv
<1>1. IsPrefix(file, console)
  BY DEF Init, IsPrefix
<1> QED
  BY <1>1 DEF Init, Healthy, FileFollowsConsole

LEMMA CopyStep == CopyInv /\ [Next]_vars => CopyInv'
<1> SUFFICES ASSUME CopyInv, [Next]_vars PROVE Healthy' /\ FileFollowsConsole'
  BY TypeStep DEF CopyInv
<1>1. TypeOK /\ TypeOK' /\ Healthy /\ FileFollowsConsole
  BY TypeStep DEF CopyInv
<1>2. file \in Seq(Lines) /\ console \in Seq(Lines)
  BY <1>1 DEF TypeOK
\* Nothing the property is about changes.
<1>3. ASSUME UNCHANGED <<fileOpen, fileGood, file, console, broken>>, InHand' = InHand
      PROVE  Healthy' /\ FileFollowsConsole'
  BY <1>1, <1>3 DEF Healthy, FileFollowsConsole
<1>4. CASE UNCHANGED vars \/ Terminated
  BY <1>3, <1>4 DEF vars, callVars, Terminated, InHand, Line
<1>5. ASSUME NEW t \in LogThreads, NEW label \in {"test", "set_level", "set_file"},
             NEW l \in Levels, Call(t, label, l)
      PROVE  Healthy' /\ FileFollowsConsole'
  <2>1. InHand' = InHand
    BY <1>1, <1>5, SameInHand DEF Call, Goto, TypeOK, Line
  <2> QED
    BY <1>3, <1>5, <2>1 DEF Call
<1>6. ASSUME NEW t \in LogThreads, NEW l \in Levels,
             CallLog(t, l) \/ CallSetLevel(t, l)
      PROVE  Healthy' /\ FileFollowsConsole'
  BY <1>5, <1>6 DEF CallLog, CallSetLevel
<1>15. ASSUME NEW t \in LogThreads, CallSetFile(t)
       PROVE  Healthy' /\ FileFollowsConsole'
  BY <1>5, <1>15, LoggerAssumption DEF CallSetFile
<1>7. ASSUME NEW t \in LogThreads, Lock(t) \/ TestLevel(t)
      PROVE  Healthy' /\ FileFollowsConsole'
  <2>1. InHand' = InHand
    BY <1>1, <1>7, SameInHand DEF Lock, TestLevel, Goto, TypeOK, Line
  <2> QED
    BY <1>3, <1>7, <2>1 DEF Lock, TestLevel
<1>8. ASSUME NEW t \in LogThreads, WriteConsole(t)
      PROVE  Healthy' /\ FileFollowsConsole'
  <2>1. Line(t) \in Lines
    BY <1>1, <1>8, LineType DEF WriteConsole
  <2>2. IsPrefix(file, console)'
    BY <1>1, <1>2, <1>8, <2>1, PrefixGrows DEF WriteConsole, FileFollowsConsole
  <2>3. InHand = {}
    BY <1>1, <1>8, NoneInHand DEF WriteConsole, Inside
  <2>4. Line(t) \in InHand'
    BY <1>1, <1>8 DEF WriteConsole, Goto, TypeOK, InHand, Line
  <2>5. fileOpen' /\ ~broken' => console' = Append(file', Line(t))
    BY <1>1, <1>8, <2>3 DEF WriteConsole, FileFollowsConsole
  <2> QED
    BY <1>1, <1>8, <2>2, <2>4, <2>5 DEF WriteConsole, Healthy, FileFollowsConsole
<1>9. ASSUME NEW t \in LogThreads, pc[t] \in Inside, Unlock(t)
      PROVE  InHand' = {}
  <2>1. \A u \in LogThreads : pc'[u] # "file"
    BY <1>1, <1>9 DEF Unlock, Goto, TypeOK, Inside
  <2> QED
    BY <2>1 DEF InHand
<1>10. ASSUME NEW t \in LogThreads, WriteFile(t)
       PROVE  Healthy' /\ FileFollowsConsole'
  <2>1. InHand = {Line(t)} /\ InHand' = {}
    BY <1>1, <1>9, <1>10, OneInHand DEF WriteFile, Inside
  <2>2. fileOpen /\ ~broken
    BY <1>1, <1>10 DEF WriteFile, Healthy
  <2>3. file' = console /\ console' = console
    BY <1>1, <1>10, <2>1, <2>2 DEF WriteFile, FileFollowsConsole
  <2>4. IsPrefix(file, console)'
    BY <1>2, <2>3, PrefixOfItself
  <2> QED
    BY <1>1, <1>10, <2>1, <2>3, <2>4 DEF WriteFile, Healthy, FileFollowsConsole
<1>11. ASSUME NEW t \in LogThreads, WriteFileFails(t) \/ OpenFileFails(t)
       PROVE  Healthy' /\ FileFollowsConsole'
  BY <1>1, <1>11 DEF WriteFileFails, OpenFileFails, Healthy, FileFollowsConsole
<1>12. ASSUME NEW t \in LogThreads, NoFile(t)
       PROVE  Healthy' /\ FileFollowsConsole'
  <2>1. fileOpen => broken
    BY <1>1, <1>12 DEF NoFile, Healthy
  <2> QED
    BY <1>1, <1>12, <2>1 DEF NoFile, Healthy, FileFollowsConsole
<1>13. ASSUME NEW t \in LogThreads, StoreLevel(t)
       PROVE  Healthy' /\ FileFollowsConsole'
  <2>1. InHand' = {} /\ InHand = {}
    BY <1>1, <1>9, <1>13, NoneInHand DEF StoreLevel, Inside
  <2> QED
    BY <1>3, <1>13, <2>1 DEF StoreLevel
<1>14. ASSUME NEW t \in LogThreads, OpenFile(t)
       PROVE  Healthy' /\ FileFollowsConsole'
  <2>1. InHand' = {}
    BY <1>1, <1>9, <1>14 DEF OpenFile, Inside
  <2>2. IsPrefix(file, console)'
    BY <1>14 DEF OpenFile, IsPrefix
  <2> QED
    BY <1>14, <2>1, <2>2 DEF OpenFile, Healthy, FileFollowsConsole
<1> QED
  BY <1>4, <1>6, <1>7, <1>8, <1>10, <1>11, <1>12, <1>13, <1>14, <1>15
  DEF Next, Log, SetUp

\* The log file is a copy of the console, for any number of threads.
THEOREM FileIsACopy == Spec => []FileFollowsConsole
<1>1. CopyInv => FileFollowsConsole
  BY DEF CopyInv
<1> QED
  BY <1>1, CopyInit, CopyStep, PTL DEF Spec

-----------------------------------------------------------------------------
(* The level read outside the mutex *)

\* A thread that is about to test the level knows the current one to be in
\* force, and one that goes on with a line has seen a level that lets it through.
Informed ==
  \A t \in LogThreads :
    /\ pc[t] = "test" => minLevel \in inForce[t]
    /\ pc[t] \in {"log", "console"} => \E l \in inForce[t] : level[t] >= l

LevelInv == TypeOK /\ Informed

LEMMA InformedStep == LevelInv /\ [Next]_vars => LevelInv'
<1> SUFFICES ASSUME LevelInv, [Next]_vars PROVE Informed'
  BY TypeStep DEF LevelInv
<1>1. TypeOK /\ Informed
  BY DEF LevelInv
<1>2. \A t \in LogThreads : level[t] \in Int
  <2>1. level \in [LogThreads -> Levels]
    BY <1>1 DEF TypeOK
  <2>2. \A l \in Levels : l \in Int
    BY LoggerAssumption
  <2> QED
    BY <2>1, <2>2
<1>3. CASE UNCHANGED vars \/ Terminated
  BY <1>1, <1>3 DEF vars, callVars, Terminated, Informed
<1>4. ASSUME NEW t \in LogThreads, NEW label \in {"set_level", "set_file"},
             NEW l \in Levels, Call(t, label, l), UNCHANGED inForce
      PROVE  Informed'
  BY <1>1, <1>4 DEF Call, Goto, TypeOK, Informed
<1>5. ASSUME NEW t \in LogThreads, NEW l \in Levels, CallLog(t, l) PROVE Informed'
  BY <1>1, <1>5 DEF CallLog, Call, Goto, TypeOK, Informed
<1>6. ASSUME NEW t \in LogThreads, NEW l \in Levels, CallSetLevel(t, l) PROVE Informed'
  BY <1>4, <1>6 DEF CallSetLevel
<1>7. ASSUME NEW t \in LogThreads, CallSetFile(t) PROVE Informed'
  BY <1>4, <1>7, LoggerAssumption DEF CallSetFile
<1>8. ASSUME NEW t \in LogThreads, Lock(t) PROVE Informed'
  <2>1. \A u \in LogThreads :
          /\ pc'[u] = "test" => pc[u] = "test"
          /\ pc'[u] \in {"log", "console"} => pc[u] \in {"log", "console"}
    <3>1. \A u \in LogThreads \ {t} : pc'[u] = pc[u]
      BY <1>1, <1>8 DEF Lock, Goto, TypeOK
    <3>2. CASE pc[t] = "log"
      BY <3>1, <3>2, <1>1, <1>8 DEF Lock, Goto, TypeOK
    <3>3. CASE pc[t] = "set_level"
      BY <3>1, <3>3, <1>1, <1>8 DEF Lock, Goto, TypeOK
    <3>4. CASE pc[t] = "set_file"
      BY <3>1, <3>4, <1>1, <1>8 DEF Lock, Goto, TypeOK
    <3> QED
      BY <1>8, <3>2, <3>3, <3>4 DEF Lock
  <2> QED
    BY <1>1, <1>8, <2>1 DEF Lock, Informed
<1>9. ASSUME NEW t \in LogThreads, TestLevel(t) PROVE Informed'
  <2>1. minLevel \in inForce[t] /\ minLevel \in Int
    BY <1>1, <1>9, LoggerAssumption DEF TestLevel, TypeOK, Informed
  <2> QED
    BY <1>1, <1>2, <1>9, <2>1 DEF TestLevel, Goto, TypeOK, Informed
<1>10. ASSUME NEW t \in LogThreads, WriteConsole(t) PROVE Informed'
  BY <1>1, <1>10 DEF WriteConsole, Goto, TypeOK, Informed
<1>11. ASSUME NEW t \in LogThreads, Unlock(t), UNCHANGED <<minLevel, inForce>>
       PROVE  Informed'
  BY <1>1, <1>11 DEF Unlock, Goto, TypeOK, Informed
<1>12. ASSUME NEW t \in LogThreads,
              \/ WriteFile(t) \/ WriteFileFails(t) \/ NoFile(t)
              \/ OpenFile(t) \/ OpenFileFails(t)
       PROVE  Informed'
  BY <1>11, <1>12 DEF WriteFile, WriteFileFails, NoFile, OpenFile, OpenFileFails
<1>13. ASSUME NEW t \in LogThreads, StoreLevel(t) PROVE Informed'
  BY <1>1, <1>13 DEF StoreLevel, Unlock, Goto, TypeOK, Informed
<1> QED
  BY <1>3, <1>5, <1>6, <1>7, <1>8, <1>9, <1>10, <1>12, <1>13 DEF Next, Log, SetUp

\* Every call of log goes by a level that was in force while it ran, although
\* the read of min_level_ is not protected.
THEOREM LevelHonoured == Spec => LevelInForce
<1>1. Init => LevelInv
  BY TypeInit DEF Init, LevelInv, Informed
<1>2. LevelInv /\ [Next]_vars =>
        [\A t \in LogThreads :
           /\ pc[t] = "test" /\ pc'[t] = "idle" => \E l \in inForce[t] : level[t] < l
           /\ pc[t] = "console" /\ pc'[t] = "file" =>
                \E l \in inForce[t] : level[t] >= l]_vars
  <2> SUFFICES ASSUME LevelInv, [Next]_vars, NEW t \in LogThreads
               PROVE  /\ pc[t] = "test" /\ pc'[t] = "idle" =>
                           \E l \in inForce[t] : level[t] < l
                      /\ pc[t] = "console" /\ pc'[t] = "file" =>
                           \E l \in inForce[t] : level[t] >= l
    OBVIOUS
  <2>1. pc[t] = "console" => \E l \in inForce[t] : level[t] >= l
    BY DEF LevelInv, Informed
  <2>2. ASSUME pc[t] = "test", pc'[t] = "idle"
        PROVE  level[t] < minLevel /\ minLevel \in inForce[t]
    <3>1. TestLevel(t)
      BY <2>2 DEF LevelInv, TypeOK, Next, Log, SetUp, CallLog, CallSetLevel,
         CallSetFile, Call, Lock, TestLevel, WriteConsole, WriteFile, WriteFileFails,
         NoFile, StoreLevel, OpenFile, OpenFileFails, Unlock, Goto, Terminated,
         vars, callVars
    <3> QED
      BY <2>2, <3>1 DEF TestLevel, Goto, LevelInv, TypeOK, Informed
  <2> QED
    BY <2>1, <2>2
<1> QED
  BY <1>1, <1>2, InformedStep, PTL DEF Spec, LevelInForce
=============================================================================
