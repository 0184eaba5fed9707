---------------------------- MODULE EarlierProofs ----------------------------
(***************************************************************************)
(* Proofs about EarlierProgram for every set of clients and of             *)
(* configurations.  The invariant says of each subscriber what a reported  *)
(* duration and a set end_time imply (SubsInv), of each publisher that it  *)
(* has reported nothing before it runs on (PubsInv), and of main what it   *)
(* has found out by the time it is where it is (MainInv).                  *)
(***************************************************************************)
EXTENDS EarlierProgram, FiniteSetTheorems, TLAPS

\* What a reported duration, a set end_time and a wanted lock stand for.
ResultInv(s) ==
  /\ run[s] # "new" => s \in opts.subs
  /\ run[s] \in {"new", "connect"} => ~endTime[s]
  /\ results[s] \in {0, 1}
  /\ run[s] \in {"new", "connect", "poll", "raised"} => results[s] = 0
  /\ run[s] \in {"join", "returned"} => results[s] = 1
  /\ results[s] = 1 => endTime[s]
  /\ endTime[s] => count[s] >= SubCount
  /\ net[s] = "acquire" => count[s] >= SubCount
  /\ net[s] = "acquire" /\ endTime[s] => count[s] > SubCount

\* Where end_time leaves the network thread, and who never gets there.
StopInv(s) ==
  /\ opts.program = "timer" /\ endTime[s] => net[s] = "dead"
  /\ opts.program \in {"post", "script"} /\ ~Writes /\ endTime[s] =>
       net[s] \in {"stopped", "dead"}
  /\ Deaf => count[s] = 0

\* The feeder that holds the lock has a row to write.
WriterInv(s) == s \in writer => sent[s] < Rows(s)

SubsInv == \A s \in Subs : ResultInv(s) /\ StopInv(s) /\ WriterInv(s)

\* A publisher that has not reported has put nothing into PUB_QUEUE.
PubsInv == \A p \in Pubs : pub[p] \in {"new", "running"} => rounds[p] = 0

InContainer == opts.program \in {"script", "timer"}
AllReported == \A s \in opts.subs : results[s] > 0

\* Nothing runs before main has started it.
StartInv ==
  pc = "start" => /\ \A s \in Subs : run[s] = "new"
                  /\ \A p \in Pubs : pub[p] = "new"

\* The sizes have been compared, or the durations waited for.
CheckedInv ==
  Drained \/ (pc = "drainSubs" /\ opts.program # "original") => AllReported

\* `joined' is still TRUE after the joins if every subscriber had ended.
JoinedInv ==
  pc \notin {"start", "joinSubs"} /\ pc \notin {"failed", "over"} /\ joined =>
    \A s \in opts.subs : run[s] = "dead"

MeanInv == Drained /\ (InContainer => joined /\ killed = {}) => times = NrSubs

\* In a container the csv file is written on the way to the last loop.
PhaseInv ==
  InContainer => /\ csv # -1 <=> pc = "finish"
                 /\ finished => csv # -1

MainInv == StartInv /\ CheckedInv /\ JoinedInv /\ MeanInv /\ PhaseInv

IInv == TypeOK /\ SubsInv /\ PubsInv /\ MainInv

LEMMA OptsType ==
  ASSUME opts \in Configurations
  PROVE  /\ opts.program \in Programs
         /\ opts.subs \subseteq Subs /\ opts.pubs \subseteq Pubs
         /\ opts.inbox \in 0..MaxInbox
<1>1. opts \in Options
  BY EarlierAssumption DEF EarlierAssumption
<1>2. \E program \in Programs : \E topics, envs :
        opts \in CommandLine(program, topics, envs)
  BY <1>1 DEF Options, OriginalOptions, NetAnalysisOptions, PostOptions,
              ScriptOptions, TimerOptions, Programs
<1>3. QED
  BY <1>2 DEF CommandLine

LEMMA InitIInv == Init => IInv
<1> SUFFICES ASSUME Init PROVE IInv
  OBVIOUS
<1> USE EarlierAssumption DEF EarlierAssumption, Init, ClientsInit
<1>1. opts.subs \subseteq Subs /\ opts.inbox \in 0..MaxInbox
  BY OptsType
<1>2. inbox \in [Subs -> 0..MaxInbox]
  BY <1>1
<1>3. \A s \in Subs : Rows(s) = 0
  BY DEF Rows
<1>4. sent \in [Subs -> Nat] /\ \A s \in Subs : sent[s] <= Rows(s)
  BY <1>3
<1>5. {startTime, endTime, stopFlag} \subseteq [Subs -> BOOLEAN]
  OBVIOUS
<1>6. rounds \in [Pubs -> 0..MaxRounds] /\ count \in [Subs -> Nat]
      /\ results \in [Subs -> Nat]
  OBVIOUS
<1>7. ClientsTypeOK
  BY <1>2, <1>4, <1>5, <1>6 DEF ClientsTypeOK
<1>8. TypeOK
  BY <1>7 DEF TypeOK
<1>9. SubsInv
  BY DEF SubsInv, ResultInv, StopInv, WriterInv
<1>10. PubsInv /\ MainInv
  BY DEF PubsInv, MainInv, StartInv, CheckedInv, JoinedInv, MeanInv, PhaseInv,
         Drained
<1>11. QED
  BY <1>8, <1>9, <1>10 DEF IInv

-----------------------------------------------------------------------------
(* The steps of the subscribers.                                           *)

\* What a step of s leaves alone, and what it can only add to.
Monotone(s) ==
  /\ UNCHANGED <<opts, logs, pub, rounds>>
  /\ run[s] # "new" /\ killed \subseteq killed'
  /\ \A t \in Subs : /\ results[t] <= results'[t]
                     /\ run[t] = "dead" => run'[t] = "dead"

\* The steps of run.
LEMMA RunStep ==
  ASSUME IInv, NEW s \in Subs,
         Connect(s) \/ Report(s) \/ HitTimeout(s) \/ JoinThread(s) \/ ExitSub(s)
  PROVE  ClientsTypeOK' /\ SubsInv' /\ Monotone(s)
<1> USE EarlierAssumption DEF EarlierAssumption, IInv, TypeOK, ClientsTypeOK,
        SubsInv, Rows, Writes, Qos, Deaf, threadVars, queueVars, pubVars
<1>1. CASE Connect(s)
  <2>1. ClientsTypeOK'
    BY <1>1 DEF Connect, WriterInv
  <2>2. \A t \in Subs : ResultInv(t)'
    BY <1>1 DEF Connect, ResultInv, StopInv
  <2>3. \A t \in Subs : StopInv(t)'
    BY <1>1 DEF Connect, StopInv, ResultInv
  <2>4. \A t \in Subs : WriterInv(t)'
    BY <1>1 DEF Connect, WriterInv
  <2>5. Monotone(s)
    BY <1>1 DEF Connect, Monotone
  <2>6. QED
    BY <2>1, <2>2, <2>3, <2>4, <2>5
<1>2. CASE Report(s)
  <2>1. ClientsTypeOK'
    BY <1>2 DEF Report, WriterInv
  <2>2. \A t \in Subs : ResultInv(t)'
    BY <1>2 DEF Report, ResultInv, StopInv
  <2>3. \A t \in Subs : StopInv(t)'
    BY <1>2 DEF Report, StopInv, ResultInv
  <2>4. \A t \in Subs : WriterInv(t)'
    BY <1>2 DEF Report, WriterInv
  <2>5. Monotone(s)
    BY <1>2 DEF Report, Monotone
  <2>6. QED
    BY <2>1, <2>2, <2>3, <2>4, <2>5
<1>3. CASE HitTimeout(s)
  <2>1. ClientsTypeOK'
    BY <1>3 DEF HitTimeout, WriterInv
  <2>2. \A t \in Subs : ResultInv(t)'
    BY <1>3 DEF HitTimeout, ResultInv, StopInv
  <2>3. \A t \in Subs : StopInv(t)'
    BY <1>3 DEF HitTimeout, StopInv, ResultInv
  <2>4. \A t \in Subs : WriterInv(t)'
    BY <1>3 DEF HitTimeout, WriterInv
  <2>5. Monotone(s)
    BY <1>3 DEF HitTimeout, Monotone
  <2>6. QED
    BY <2>1, <2>2, <2>3, <2>4, <2>5
<1>4. CASE JoinThread(s)
  <2>1. ClientsTypeOK'
    BY <1>4 DEF JoinThread, WriterInv
  <2>2. \A t \in Subs : ResultInv(t)'
    BY <1>4 DEF JoinThread, ResultInv, StopInv
  <2>3. \A t \in Subs : StopInv(t)'
    BY <1>4 DEF JoinThread, StopInv, ResultInv
  <2>4. \A t \in Subs : WriterInv(t)'
    BY <1>4 DEF JoinThread, WriterInv
  <2>5. Monotone(s)
    BY <1>4 DEF JoinThread, Monotone
  <2>6. QED
    BY <2>1, <2>2, <2>3, <2>4, <2>5
<1>5. CASE ExitSub(s)
  <2>1. ClientsTypeOK'
    BY <1>5 DEF ExitSub, WriterInv
  <2>2. \A t \in Subs : ResultInv(t)'
    BY <1>5 DEF ExitSub, ResultInv, StopInv
  <2>3. \A t \in Subs : StopInv(t)'
    BY <1>5 DEF ExitSub, StopInv, ResultInv
  <2>4. \A t \in Subs : WriterInv(t)'
    BY <1>5 DEF ExitSub, WriterInv
  <2>5. Monotone(s)
    BY <1>5 DEF ExitSub, Monotone
  <2>6. QED
    BY <2>1, <2>2, <2>3, <2>4, <2>5
<1>q. QED
  BY <1>1, <1>2, <1>3, <1>4, <1>5

\* The steps of the network thread that every program has.
LEMMA NetStep ==
  ASSUME IInv, NEW s \in Subs,
         LoseConnection(s) \/ LeaveLoop(s) \/ ParseFails(s)
  PROVE  ClientsTypeOK' /\ SubsInv' /\ Monotone(s)
<1> USE EarlierAssumption DEF EarlierAssumption, IInv, TypeOK, ClientsTypeOK,
        SubsInv, Rows, Writes, Qos, Deaf, threadVars, queueVars, pubVars
<1>1. CASE LoseConnection(s)
  <2>1. ClientsTypeOK'
    BY <1>1 DEF LoseConnection, NetRuns, WriterInv
  <2>2. \A t \in Subs : ResultInv(t)'
    BY <1>1 DEF LoseConnection, NetRuns, ResultInv, StopInv
  <2>3. \A t \in Subs : StopInv(t)'
    BY <1>1 DEF LoseConnection, NetRuns, StopInv, ResultInv
  <2>4. \A t \in Subs : WriterInv(t)'
    BY <1>1 DEF LoseConnection, NetRuns, WriterInv
  <2>5. Monotone(s)
    BY <1>1 DEF LoseConnection, NetRuns, Monotone
  <2>6. QED
    BY <2>1, <2>2, <2>3, <2>4, <2>5
<1>2. CASE LeaveLoop(s)
  <2>1. ClientsTypeOK'
    BY <1>2 DEF LeaveLoop, NetRuns, WriterInv
  <2>2. \A t \in Subs : ResultInv(t)'
    BY <1>2 DEF LeaveLoop, NetRuns, ResultInv, StopInv
  <2>3. \A t \in Subs : StopInv(t)'
    BY <1>2 DEF LeaveLoop, NetRuns, StopInv, ResultInv
  <2>4. \A t \in Subs : WriterInv(t)'
    BY <1>2 DEF LeaveLoop, NetRuns, WriterInv
  <2>5. Monotone(s)
    BY <1>2 DEF LeaveLoop, NetRuns, Monotone
  <2>6. QED
    BY <2>1, <2>2, <2>3, <2>4, <2>5
<1>3. CASE ParseFails(s)
  <2>1. ClientsTypeOK'
    BY <1>3 DEF ParseFails, ReadMessage, NetRuns, WriterInv
  <2>2. \A t \in Subs : ResultInv(t)'
    BY <1>3 DEF ParseFails, ReadMessage, NetRuns, ResultInv, StopInv
  <2>3. \A t \in Subs : StopInv(t)'
    BY <1>3 DEF ParseFails, ReadMessage, NetRuns, StopInv, ResultInv
  <2>4. \A t \in Subs : WriterInv(t)'
    BY <1>3 DEF ParseFails, ReadMessage, NetRuns, WriterInv
  <2>5. Monotone(s)
    BY <1>3 DEF ParseFails, ReadMessage, NetRuns, Monotone
  <2>6. QED
    BY <2>1, <2>2, <2>3, <2>4, <2>5
<1>q. QED
  BY <1>1, <1>2, <1>3

\* The timers and the feeder of LOG_QUEUE.
LEMMA OtherStep ==
  ASSUME IInv, NEW s \in Subs,
         MessageTimer(s) \/ ParentTimer(s) \/ TakeWriter(s) \/ WriteRow(s)
  PROVE  ClientsTypeOK' /\ SubsInv' /\ Monotone(s)
<1> USE EarlierAssumption DEF EarlierAssumption, IInv, TypeOK, ClientsTypeOK,
        SubsInv, Rows, Writes, Qos, Deaf, threadVars, queueVars, pubVars
<1>1. CASE MessageTimer(s)
  <2>1. ClientsTypeOK'
    BY <1>1 DEF MessageTimer, NetRuns, WriterInv
  <2>2. \A t \in Subs : ResultInv(t)'
    BY <1>1 DEF MessageTimer, NetRuns, ResultInv, StopInv
  <2>3. \A t \in Subs : StopInv(t)'
    BY <1>1 DEF MessageTimer, NetRuns, StopInv, ResultInv
  <2>4. \A t \in Subs : WriterInv(t)'
    BY <1>1 DEF MessageTimer, NetRuns, WriterInv
  <2>5. Monotone(s)
    BY <1>1 DEF MessageTimer, NetRuns, Monotone
  <2>6. QED
    BY <2>1, <2>2, <2>3, <2>4, <2>5
<1>2. CASE ParentTimer(s)
  <2>1. ClientsTypeOK'
    BY <1>2 DEF ParentTimer, SubAlive, WriterInv
  <2>2. \A t \in Subs : ResultInv(t)'
    BY <1>2 DEF ParentTimer, SubAlive, ResultInv, StopInv
  <2>3. \A t \in Subs : StopInv(t)'
    BY <1>2 DEF ParentTimer, SubAlive, StopInv, ResultInv
  <2>4. \A t \in Subs : WriterInv(t)'
    BY <1>2 DEF ParentTimer, SubAlive, WriterInv
  <2>5. Monotone(s)
    BY <1>2 DEF ParentTimer, SubAlive, Monotone
  <2>6. QED
    BY <2>1, <2>2, <2>3, <2>4, <2>5
<1>3. CASE TakeWriter(s)
  <2>1. ClientsTypeOK'
    BY <1>3 DEF TakeWriter, SubAlive, WriterInv
  <2>2. \A t \in Subs : ResultInv(t)'
    BY <1>3 DEF TakeWriter, SubAlive, ResultInv, StopInv
  <2>3. \A t \in Subs : StopInv(t)'
    BY <1>3 DEF TakeWriter, SubAlive, StopInv, ResultInv
  <2>4. \A t \in Subs : WriterInv(t)'
    BY <1>3 DEF TakeWriter, SubAlive, WriterInv
  <2>5. Monotone(s)
    BY <1>3 DEF TakeWriter, SubAlive, Monotone
  <2>6. QED
    BY <2>1, <2>2, <2>3, <2>4, <2>5
<1>4. CASE WriteRow(s)
  <2>1. ClientsTypeOK'
    BY <1>4 DEF WriteRow, SubAlive, WriterInv
  <2>2. \A t \in Subs : ResultInv(t)'
    BY <1>4 DEF WriteRow, SubAlive, ResultInv, StopInv
  <2>3. \A t \in Subs : StopInv(t)'
    BY <1>4 DEF WriteRow, SubAlive, StopInv, ResultInv
  <2>4. \A t \in Subs : WriterInv(t)'
    BY <1>4 DEF WriteRow, SubAlive, WriterInv
  <2>5. Monotone(s)
    BY <1>4 DEF WriteRow, SubAlive, Monotone
  <2>6. QED
    BY <2>1, <2>2, <2>3, <2>4, <2>5
<1>q. QED
  BY <1>1, <1>2, <1>3, <1>4

LEMMA WritesKept == ASSUME UNCHANGED opts PROVE UNCHANGED Writes
BY DEF Writes, Qos

\* on_message before max_count.
LEMMA CountStep ==
  ASSUME IInv, NEW s \in Subs, ~Deaf,
         CountMessage(s)
  PROVE  ClientsTypeOK' /\ SubsInv' /\ Monotone(s)
<1> USE EarlierAssumption DEF EarlierAssumption, IInv, TypeOK, ClientsTypeOK,
        SubsInv, Rows, Deaf, threadVars, queueVars, pubVars
<1>1. CASE CountMessage(s)
  <2>1. ClientsTypeOK'
    BY <1>1 DEF CountMessage, ReadMessage, NetRuns, AfterPass, WriterInv
  <2>2. \A t \in Subs : ResultInv(t)'
    BY <1>1 DEF CountMessage, ReadMessage, NetRuns, AfterPass, ResultInv, StopInv
  <2>3. \A t \in Subs : StopInv(t)'
    <3>1. UNCHANGED Writes
      BY <1>1, WritesKept DEF CountMessage, ReadMessage
    <3>2. QED
      BY <1>1, <3>1 DEF CountMessage, ReadMessage, NetRuns, AfterPass, StopInv, ResultInv
  <2>4. \A t \in Subs : WriterInv(t)'
    BY <1>1 DEF CountMessage, ReadMessage, NetRuns, AfterPass, WriterInv
  <2>5. Monotone(s)
    BY <1>1 DEF CountMessage, ReadMessage, NetRuns, AfterPass, Monotone
  <2>6. QED
    BY <2>1, <2>2, <2>3, <2>4, <2>5
<1>q. QED
  BY <1>1

\* on_message at max_count: what stops the thread in the later programs.
LEMMA MaxCountStep ==
  ASSUME IInv, NEW s \in Subs, NEW stops \in BOOLEAN, NEW terminates \in BOOLEAN,
         opts.program \in {"post", "script"} => stops,
         opts.program = "timer" => terminates,
         AtMaxCount(s, stops, terminates)
  PROVE  ClientsTypeOK' /\ SubsInv' /\ Monotone(s)
<1> USE EarlierAssumption DEF EarlierAssumption, IInv, TypeOK, ClientsTypeOK,
        SubsInv, Rows, Deaf, threadVars, queueVars, pubVars
<1>1. CASE AtMaxCount(s, stops, terminates)
  <2>1. ClientsTypeOK'
    BY <1>1 DEF AtMaxCount, NetRuns, AfterPass, WriterInv
  <2>2. \A t \in Subs : ResultInv(t)'
    BY <1>1 DEF AtMaxCount, NetRuns, AfterPass, ResultInv, StopInv
  <2>3. \A t \in Subs : StopInv(t)'
    <3>1. UNCHANGED Writes
      BY <1>1, WritesKept DEF AtMaxCount
    <3>2. QED
      BY <1>1, <3>1 DEF AtMaxCount, NetRuns, AfterPass, StopInv, ResultInv
  <2>4. \A t \in Subs : WriterInv(t)'
    BY <1>1 DEF AtMaxCount, NetRuns, AfterPass, WriterInv
  <2>5. Monotone(s)
    BY <1>1 DEF AtMaxCount, NetRuns, AfterPass, Monotone
  <2>6. QED
    BY <2>1, <2>2, <2>3, <2>4, <2>5
<1>q. QED
  BY <1>1

LEMMA SubStepKeeps ==
  ASSUME IInv, NEW s \in Subs, SubStep(s)
  PROVE  ClientsTypeOK' /\ SubsInv' /\ Monotone(s)
<1> USE RunStep, NetStep, OtherStep, CountStep, MaxCountStep DEF CommonSub, Deaf
<1>1. CASE opts.program = "original" /\ OriginalSub(s)
  BY <1>1 DEF OriginalSub
<1>2. CASE opts.program = "net_analysis" /\ NetAnalysisSub(s)
  BY <1>2 DEF NetAnalysisSub
<1>3. CASE opts.program = "post" /\ PostSub(s)
  BY <1>3 DEF PostSub, LogFeeder
<1>4. CASE opts.program = "script" /\ ScriptSub(s)
  BY <1>4 DEF ScriptSub, LogFeeder
<1>5. CASE opts.program = "timer" /\ TimerSub(s)
  BY <1>5 DEF TimerSub, LogFeeder
<1>6. QED
  BY <1>1, <1>2, <1>3, <1>4, <1>5 DEF SubStep

LEMMA SubStepInv ==
  ASSUME IInv, NEW s \in Subs, SubStep(s), UNCHANGED mainVars
  PROVE  IInv' /\ UNCHANGED opts
<1>1. ClientsTypeOK' /\ SubsInv' /\ Monotone(s)
  BY SubStepKeeps
<1>2. TypeOK'
  BY <1>1 DEF IInv, TypeOK, mainVars
<1>3. PubsInv'
  BY <1>1 DEF IInv, PubsInv, Monotone
<1>4. opts.subs \subseteq Subs
  BY OptsType DEF IInv, TypeOK, ClientsTypeOK
<1>5. results \in [Subs -> Nat] /\ results' \in [Subs -> Nat]
  BY <1>1 DEF IInv, TypeOK, ClientsTypeOK
<1>6. AllReported => AllReported'
  BY <1>1, <1>4, <1>5 DEF AllReported, Monotone
<1>7. StartInv' /\ JoinedInv'
  BY <1>1, <1>4 DEF IInv, MainInv, StartInv, JoinedInv, Monotone, mainVars
<1>8. CheckedInv'
  BY <1>1, <1>6 DEF IInv, MainInv, CheckedInv, Drained, Monotone, mainVars
<1>9. MeanInv' /\ PhaseInv'
  BY <1>1 DEF IInv, MainInv, MeanInv, PhaseInv, InContainer, Drained, NrSubs,
              Monotone, mainVars
<1>10. QED
  BY <1>1, <1>2, <1>3, <1>7, <1>8, <1>9 DEF IInv, MainInv, Monotone

-----------------------------------------------------------------------------
(* The steps of the publishers.                                            *)

LEMMA PubStepInv ==
  ASSUME IInv, NEW p \in Pubs, PubStep(p), UNCHANGED mainVars
  PROVE  IInv' /\ UNCHANGED opts
<1>1. PybenchPub(p) \/ CallbackPub(p)
  BY DEF PubStep, OriginalPub, NetAnalysisPub, PostPub, ScriptPub, TimerPub
<1>2. UNCHANGED <<opts, threadVars, queueVars, killed>>
  BY <1>1 DEF PybenchPub, CallbackPub
<1>3. /\ pub' \in [Pubs -> {"new", "running", "reported", "returned", "raised"}]
      /\ rounds' \in [Pubs -> 0..MaxRounds] /\ PubsInv'
  <2> USE EarlierAssumption
      DEF EarlierAssumption, IInv, TypeOK, ClientsTypeOK, PubsInv
  <2>1. CASE PybenchPub(p)
    BY <2>1 DEF PybenchPub
  <2>2. CASE CallbackPub(p)
    BY <2>2 DEF CallbackPub
  <2>3. QED
    BY <1>1, <2>1, <2>2
<1>4. TypeOK'
  BY <1>2, <1>3 DEF IInv, TypeOK, ClientsTypeOK, Rows, threadVars, queueVars,
                    mainVars
<1>5. SubsInv'
  BY <1>2 DEF IInv, SubsInv, ResultInv, StopInv, WriterInv, Rows, Writes, Qos,
                           Deaf,
              threadVars, queueVars
<1>6. StartInv'
  BY <1>1 DEF IInv, MainInv, StartInv, PybenchPub, CallbackPub, mainVars
<1>7. MainInv'
  BY <1>2, <1>6 DEF IInv, MainInv, CheckedInv, AllReported, JoinedInv, MeanInv, PhaseInv, InContainer, Drained, NrSubs, threadVars, mainVars
<1>8. QED
  BY <1>2, <1>3, <1>4, <1>5, <1>7 DEF IInv

-----------------------------------------------------------------------------
(* The steps of main.                                                      *)

\* The comparison in Complete is one of numbers; since a subscriber reports
\* at most once, it finds everyone.
LEMMA SizesMeanEveryone ==
  ASSUME IInv, SubsReported >= NrSubs
  PROVE  AllReported
<1> SUFFICES ASSUME NEW s \in opts.subs, ~(results[s] > 0) PROVE FALSE
  BY DEF AllReported
<1> DEFINE Others == opts.subs \ {s}
<1>1. opts.subs \subseteq Subs /\ IsFiniteSet(opts.subs)
  BY OptsType, EarlierAssumption, FS_Subset
     DEF IInv, TypeOK, ClientsTypeOK, EarlierAssumption
<1>2. IsFiniteSet(Others) /\ Cardinality(Others) = NrSubs - 1
  BY <1>1, FS_RemoveElement DEF NrSubs
<1>3. IsFiniteSet({1}) /\ Cardinality({1}) = 1
  BY FS_Singleton
<1>4. IsFiniteSet(Others \X {1})
      /\ Cardinality(Others \X {1}) = Cardinality(Others) * Cardinality({1})
  BY <1>2, <1>3, FS_Product
<1>5. Durations(results, Subs) \subseteq Others \X {1}
  <2> SUFFICES ASSUME NEW d \in Durations(results, Subs)
               PROVE  d \in Others \X {1}
    OBVIOUS
  <2>1. PICK t \in Subs, n \in 1..MaxRounds : d = <<t, n>> /\ n <= results[t]
    BY DEF Durations
  <2>2. results[t] \in {0, 1} /\ (results[t] = 1 => t \in opts.subs)
    BY DEF IInv, SubsInv, ResultInv
  <2>3. n = 1 /\ results[t] = 1
    BY <2>1, <2>2
  <2>4. t # s
    BY <2>3
  <2>5. QED
    BY <2>1, <2>2, <2>3, <2>4
<1>6. SubsReported <= Cardinality(Others \X {1}) /\ SubsReported \in Nat
  BY <1>4, <1>5, FS_Subset, FS_CardinalityType DEF SubsReported
<1>7. NrSubs \in Nat
  BY <1>1, FS_CardinalityType DEF NrSubs
<1>8. Cardinality(Others) * Cardinality({1}) = NrSubs - 1
  BY <1>2, <1>3, <1>7
<1>9. QED
  BY <1>4, <1>6, <1>7, <1>8

\* main at its start, and when it fails: the clients' part.
LEMMA StartStep ==
  ASSUME IInv, pc = "start", StartAll \/ StartSubsOnly
  PROVE  IInv' /\ UNCHANGED opts
<1> USE DEF IInv
<1>1. opts.subs \subseteq Subs /\ opts.pubs \subseteq Pubs
  BY OptsType DEF TypeOK, ClientsTypeOK
<1>2. \A s \in Subs : run[s] = "new"
  BY DEF MainInv, StartInv
<1>3. ClientsTypeOK' /\ TypeOK'
  BY <1>1 DEF StartAll, StartSubsOnly, StartSubs, TypeOK, ClientsTypeOK, Rows,
              queueVars, pubVars
<1>4. SubsInv'
  <2> SUFFICES ASSUME NEW s \in Subs
               PROVE  (ResultInv(s) /\ StopInv(s) /\ WriterInv(s))'
    BY DEF SubsInv
  <2> DEFINE began == IF s \in opts.subs THEN "connect" ELSE "new"
  <2>1. /\ UNCHANGED <<opts, net, count, endTime, results, sent, writer>>
        /\ run'[s] = began
    BY DEF StartAll, StartSubsOnly, StartSubs, queueVars
  <2>2. run[s] = "new" /\ ResultInv(s) /\ StopInv(s) /\ WriterInv(s)
    BY <1>2 DEF SubsInv
  <2>3. ResultInv(s)'
    BY <2>1, <2>2 DEF ResultInv
  <2>4. StopInv(s)' /\ WriterInv(s)'
    BY <2>1, <2>2 DEF StopInv, WriterInv, Rows, Writes, Qos,
                           Deaf
  <2>5. QED
    BY <2>3, <2>4
<1>5. PubsInv'
  BY DEF StartAll, StartSubsOnly, PubsInv, pubVars, MainInv, StartInv
<1>6. MainInv'
  BY DEF StartAll, StartSubsOnly, MainInv, StartInv, CheckedInv, JoinedInv,
         MeanInv, PhaseInv, InContainer, Drained
<1>7. QED
  BY <1>3, <1>4, <1>5, <1>6 DEF StartAll, StartSubsOnly

\* The other steps of main leave the clients alone.
LEMMA ClientsUntouched ==
  ASSUME IInv, UNCHANGED <<opts, threadVars, sent, writer, killed, pubVars>>,
         logs' \in Nat
  PROVE  ClientsTypeOK' /\ SubsInv' /\ PubsInv'
BY DEF IInv, TypeOK, ClientsTypeOK, SubsInv, ResultInv, StopInv, WriterInv,
       Rows, Writes, Qos, Deaf, PubsInv, threadVars, pubVars

\* Where main goes and what it knows there.
MainKeeps ==
  /\ UNCHANGED <<opts, threadVars, sent, writer, killed, pubVars>>
  /\ logs' \in Nat
  /\ <<pc, joined, times, csv, finished>>' \in
       {"start", "joinSubs", "joinPubs", "check", "drainSubs", "drainPubs",
        "drainLog", "write", "statistics", "finish", "failed", "over"}
       \X BOOLEAN \X (Nat \cup {-1}) \X (Nat \cup {-1}) \X BOOLEAN
  /\ MainInv'

LEMMA MainKeepsIInv == ASSUME IInv, MainKeeps PROVE IInv' /\ UNCHANGED opts
<1>1. ClientsTypeOK' /\ SubsInv' /\ PubsInv'
  BY ClientsUntouched DEF MainKeeps
<1>2. TypeOK'
  BY <1>1 DEF TypeOK, MainKeeps
<1>3. QED
  BY <1>1, <1>2 DEF IInv, MainKeeps

LEMMA NrSubsNat ==
  ASSUME IInv
  PROVE  /\ IsFiniteSet(opts.subs) /\ NrSubs \in Nat
         /\ \A A \in SUBSET opts.subs : Cardinality(A) \in Nat
<1>1. IsFiniteSet(opts.subs)
  BY OptsType, EarlierAssumption, FS_Subset
     DEF IInv, TypeOK, ClientsTypeOK, EarlierAssumption
<1>2. QED
  BY <1>1, FS_Subset, FS_CardinalityType DEF NrSubs

LEMMA JoinStep ==
  ASSUME IInv, Joins
  PROVE  MainKeeps
<1> USE DEF IInv, TypeOK, ClientsTypeOK
<1>1. /\ UNCHANGED <<opts, clientVars, times, csv, finished>>
      /\ pc \in {"joinSubs", "joinPubs"} /\ pc' \in {"joinPubs", "check"}
  BY DEF Joins, JoinSubs, JoinPubs
<1>2. joined' \in BOOLEAN
  BY DEF Joins, JoinSubs, JoinPubs
<1>3. JoinedInv'
  <2>1. CASE JoinSubs
    <3>1. CASE joined' = FALSE
      BY <3>1 DEF JoinedInv
    <3>2. CASE joined' = \A s \in opts.subs : run[s] = "dead"
      BY <1>1, <3>2 DEF JoinedInv, clientVars, threadVars
    <3>3. QED
      BY <2>1, <3>1, <3>2 DEF JoinSubs
  <2>2. CASE JoinPubs
    BY <2>2 DEF JoinPubs, MainInv, JoinedInv, clientVars, threadVars
  <2>3. QED
    BY <2>1, <2>2 DEF Joins
<1>4. MainInv'
  BY <1>1, <1>3 DEF MainInv, StartInv, CheckedInv, MeanInv, PhaseInv,
                    InContainer, Drained
<1>5. QED
  BY <1>1, <1>2, <1>4 DEF MainKeeps, clientVars, threadVars, queueVars, pubVars

LEMMA FailStep ==
  ASSUME IInv, pc \in {"start", "check"}, Fail
  PROVE  MainKeeps
BY DEF Fail, MainKeeps, IInv, TypeOK, ClientsTypeOK, MainInv, StartInv,
       CheckedInv, JoinedInv, MeanInv, PhaseInv, InContainer, Drained,
       clientVars, threadVars, queueVars, pubVars

LEMMA PassStep ==
  ASSUME IInv, pc = "check", Pass, opts.program # "original" => Complete
  PROVE  MainKeeps
<1>1. opts.program # "original" => AllReported
  BY SizesMeanEveryone DEF Complete
<1>2. MainInv'
  BY <1>1 DEF Pass, IInv, MainInv, StartInv, CheckedInv, AllReported,
       JoinedInv, MeanInv, PhaseInv, InContainer, Drained,
       clientVars, threadVars, queueVars, pubVars
<1>3. QED
  BY <1>2 DEF Pass, MainKeeps, IInv, TypeOK, ClientsTypeOK,
       clientVars, threadVars, queueVars, pubVars

\* The blocking gets wait for everybody; in a container nobody is missing, and
\* a get gives up only on a subscriber that was late or killed.
LEMMA DrainSubsStep ==
  ASSUME IInv, NEW blocking \in BOOLEAN, DrainSubs(blocking),
         blocking <=> ~InContainer
  PROVE  MainKeeps
<1>1. UNCHANGED <<opts, clientVars, joined, csv, finished>> /\ pc' = "drainPubs"
      /\ pc = "drainSubs"
  BY DEF DrainSubs
<1>2. AllReported
  BY SizesMeanEveryone DEF DrainSubs, IInv, MainInv, CheckedInv, InContainer
<1>3. times' \in Nat
  BY NrSubsNat DEF DrainSubs
<1>4. blocking => times' = NrSubs
  BY DEF DrainSubs
<1>5. ASSUME ~blocking, joined, killed = {} PROVE times' = NrSubs
  <2>1. \A s \in opts.subs : run[s] = "dead"
    BY <1>1, <1>5 DEF IInv, MainInv, JoinedInv
  <2>2. {s \in opts.subs : run[s] = "dead" /\ results[s] > 0 /\ s \notin killed}
          = opts.subs
    BY <1>2, <1>5, <2>1 DEF AllReported
  <2>3. QED
    BY <1>5, <2>2, NrSubsNat DEF DrainSubs, NrSubs
<1>6. MainInv'
  BY <1>1, <1>2, <1>4, <1>5 DEF IInv, MainInv, StartInv, CheckedInv, AllReported,
       JoinedInv, MeanInv, PhaseInv, InContainer, Drained, NrSubs,
       clientVars, threadVars, queueVars, pubVars
<1>7. QED
  BY <1>1, <1>3, <1>6 DEF MainKeeps, IInv, TypeOK, ClientsTypeOK,
       clientVars, threadVars, queueVars, pubVars

LEMMA DrainPubsStep ==
  ASSUME IInv, NEW blocking, NEW next \in {"statistics", "drainLog"},
         DrainPubs(blocking, next)
  PROVE  MainKeeps
BY DEF DrainPubs, MainKeeps, IInv, TypeOK, ClientsTypeOK, MainInv, StartInv,
       CheckedInv, AllReported, JoinedInv, MeanInv, PhaseInv, InContainer,
       Drained, NrSubs, clientVars, threadVars, queueVars, pubVars

LEMMA DrainLogStep ==
  ASSUME IInv, DrainLog
  PROVE  MainKeeps
BY DEF DrainLog, MainKeeps, IInv, TypeOK, ClientsTypeOK, MainInv, StartInv,
       CheckedInv, AllReported, JoinedInv, MeanInv, PhaseInv, InContainer,
       Drained, NrSubs, clientVars, threadVars, queueVars, pubVars

LEMMA WriteStep ==
  ASSUME IInv, NEW next \in {"statistics", "finish"}, WriteCsv(next),
         InContainer => next = "finish"
  PROVE  MainKeeps
BY DEF WriteCsv, MainKeeps, IInv, TypeOK, ClientsTypeOK, MainInv, StartInv,
       CheckedInv, AllReported, JoinedInv, MeanInv, PhaseInv, InContainer,
       Drained, NrSubs, clientVars, threadVars, queueVars, pubVars

LEMMA EndStep ==
  ASSUME IInv, Finish \/ Exit
  PROVE  MainKeeps
<1> USE DEF IInv, TypeOK, ClientsTypeOK
<1>1. UNCHANGED <<opts, clientVars, joined, times, csv>>
  BY DEF Finish, Exit
<1>2. finished' \in BOOLEAN
  BY DEF Finish, Exit
<1>3. \/ pc = "finish" /\ UNCHANGED pc
      \/ pc \in {"statistics", "failed"} /\ pc' = "over" /\ UNCHANGED finished
  BY DEF Finish, Exit
<1>4. MainInv'
  BY <1>1, <1>3 DEF MainInv, StartInv, CheckedInv, AllReported, JoinedInv,
         MeanInv, PhaseInv, InContainer, Drained, NrSubs, clientVars,
         threadVars, queueVars, pubVars
<1>5. QED
  BY <1>1, <1>2, <1>3, <1>4
     DEF MainKeeps, clientVars, threadVars, queueVars, pubVars

LEMMA MainStepInv == ASSUME IInv, MainStep PROVE IInv' /\ UNCHANGED opts
<1> USE JoinStep, FailStep, PassStep, DrainSubsStep, DrainPubsStep,
        DrainLogStep, WriteStep, EndStep DEF InContainer
<1>1. CASE opts.program = "original" /\ OriginalMain
  <2>1. (pc = "start" /\ (StartAll \/ StartSubsOnly)) \/ MainKeeps
    BY <1>1 DEF OriginalMain, OriginalStart
  <2>2. QED
    BY <2>1, StartStep, MainKeepsIInv
<1>2. CASE opts.program = "net_analysis" /\ NetAnalysisMain
  <2>1. (pc = "start" /\ (StartAll \/ StartSubsOnly)) \/ MainKeeps
    BY <1>2 DEF NetAnalysisMain, NetAnalysisStart, NetAnalysisCheck
  <2>2. QED
    BY <2>1, StartStep, MainKeepsIInv
<1>3. CASE opts.program = "post" /\ PostMain
  <2>1. (pc = "start" /\ (StartAll \/ StartSubsOnly)) \/ MainKeeps
    BY <1>3 DEF PostMain, PostStart
  <2>2. QED
    BY <2>1, StartStep, MainKeepsIInv
<1>4. CASE opts.program \in {"script", "timer"} /\ (ContainerStart \/ ContainerMain)
  <2>1. (pc = "start" /\ (StartAll \/ StartSubsOnly)) \/ MainKeeps
    BY <1>4 DEF ContainerStart, ContainerMain
  <2>2. QED
    BY <2>1, StartStep, MainKeepsIInv
<1>5. QED
  BY <1>1, <1>2, <1>3, <1>4
     DEF MainStep, ScriptStart, ScriptMain, TimerStart, TimerMain

LEMMA NextIInv == IInv /\ [Next]_vars => IInv' /\ UNCHANGED opts
<1> SUFFICES ASSUME IInv, [Next]_vars PROVE IInv' /\ UNCHANGED opts
  OBVIOUS
<1>1. CASE MainStep
  BY <1>1, MainStepInv
<1>2. CASE ClientStep
  BY <1>2, SubStepInv, PubStepInv DEF ClientStep
<1>3. CASE Waiting \/ UNCHANGED vars
  <2>1. UNCHANGED <<clientVars, mainVars, opts>>
    BY <1>3 DEF Waiting, vars
  <2>2. ClientsTypeOK' /\ SubsInv' /\ PubsInv'
    BY <2>1, ClientsUntouched DEF IInv, TypeOK, ClientsTypeOK, clientVars, queueVars
  <2>3. TypeOK' /\ MainInv'
    BY <2>1, <2>2 DEF IInv, TypeOK, MainInv, StartInv, CheckedInv, AllReported,
         JoinedInv, MeanInv, PhaseInv, InContainer, Drained, NrSubs,
         clientVars, mainVars, threadVars, queueVars, pubVars
  <2>4. QED
    BY <2>1, <2>2, <2>3 DEF IInv
<1>4. QED
  BY <1>1, <1>2, <1>3 DEF Next

LEMMA Inductive == Spec => []IInv
<1>1. IInv /\ [Next]_vars => IInv'
  BY NextIInv
<1>2. QED
  BY InitIInv, <1>1, PTL DEF Spec

-----------------------------------------------------------------------------
(* The rows of the log, which nothing of the above depends on.             *)

\* A subscriber that ended by itself has left no row behind.
RowsInv ==
  \A s \in Subs :
    /\ run[s] = "new" => count[s] = 0 /\ sent[s] = 0
    /\ run[s] = "dead" /\ s \notin killed => sent[s] = Rows(s)

HasLog == opts.program \in {"post", "script", "timer"}

\* From the end of the drain on nobody is alive who could add a row.
CsvInv ==
  /\ pc \in {"drainLog", "write"} => HasLog /\ csv = -1
  /\ csv # -1 => HasLog /\ pc \in {"statistics", "finish", "over"}
  /\ joined /\ csv # -1 => \A s \in opts.subs : run[s] = "dead"
  /\ joined /\ killed = {} =>
       /\ pc = "write" => logs = SumFunction(count)
       /\ csv # -1 => csv = SumFunction(count)

LogInv == RowsInv /\ CsvInv

\* What a step of s does to the rows of the subscribers.
LEMMA RowsStep ==
  ASSUME IInv, RowsInv, NEW s \in Subs, SubStep(s)
  PROVE  RowsInv' /\ (UNCHANGED count \/ run[s] \in {"poll", "join"})
<1> USE DEF RowsInv, IInv, TypeOK, ClientsTypeOK, Rows, SubsInv, ResultInv,
            threadVars, queueVars, pubVars
<1>1. CASE Connect(s) \/ Report(s) \/ HitTimeout(s) \/ JoinThread(s)
  BY <1>1 DEF Connect, Report, HitTimeout, JoinThread
<1>2. CASE ExitSub(s)
  BY <1>2 DEF ExitSub
<1>3. CASE LoseConnection(s) \/ LeaveLoop(s) \/ MessageTimer(s)
  BY <1>3 DEF LoseConnection, LeaveLoop, MessageTimer, NetRuns
<1>4. CASE ParseFails(s)
  BY <1>4 DEF ParseFails, ReadMessage, NetRuns
<1>5. CASE CountMessage(s)
  <2>1. /\ UNCHANGED <<opts, run, sent, killed>> /\ run[s] \in {"poll", "join"}
        /\ count' = [count EXCEPT ![s] = @ + 1]
    BY <1>5 DEF CountMessage, ReadMessage, NetRuns
  <2>2. QED
    BY <2>1
<1>6. ASSUME NEW stops \in BOOLEAN, NEW terminates \in BOOLEAN,
             AtMaxCount(s, stops, terminates)
      PROVE  RowsInv' /\ UNCHANGED count
  BY <1>6 DEF AtMaxCount
<1>7. CASE ParentTimer(s)
  BY <1>7 DEF ParentTimer, SubAlive
<1>8. CASE TakeWriter(s) \/ WriteRow(s)
  BY <1>8 DEF TakeWriter, WriteRow, SubAlive
<1>9. QED
  BY <1>1, <1>2, <1>3, <1>4, <1>5, <1>6, <1>7, <1>8
     DEF SubStep, OriginalSub, NetAnalysisSub, PostSub, ScriptSub, TimerSub,
         CommonSub, LogFeeder

LEMMA ClientLogInv ==
  ASSUME IInv, LogInv, ClientStep
  PROVE  LogInv'
<1>1. ASSUME NEW s \in Subs, SubStep(s) PROVE LogInv'
  <2>1. RowsInv' /\ (UNCHANGED count \/ run[s] \in {"poll", "join"})
    BY <1>1, RowsStep DEF LogInv
  <2>2. Monotone(s) /\ UNCHANGED mainVars
    BY <1>1, SubStepKeeps DEF ClientStep
  <2>3. opts.subs \subseteq Subs /\ (run[s] # "new" => s \in opts.subs)
    BY OptsType DEF IInv, TypeOK, ClientsTypeOK, SubsInv, ResultInv
  <2>4. joined /\ (pc = "write" \/ csv # -1) => UNCHANGED count
    <3>1. joined /\ (pc = "write" \/ csv # -1) => \A t \in opts.subs : run[t] = "dead"
      BY DEF LogInv, CsvInv, IInv, MainInv, JoinedInv
    <3>2. QED
      BY <2>1, <2>3, <3>1
  <2>5. CsvInv'
    BY <2>2, <2>3, <2>4 DEF LogInv, CsvInv, HasLog, Monotone, mainVars
  <2>6. QED
    BY <2>1, <2>5 DEF LogInv
<1>2. ASSUME NEW p \in Pubs, PubStep(p) PROVE LogInv'
  <2>1. UNCHANGED <<opts, threadVars, queueVars, killed, mainVars>>
    BY <1>2 DEF PubStep, OriginalPub, NetAnalysisPub, PostPub, ScriptPub,
                TimerPub, PybenchPub, CallbackPub, ClientStep
  <2>2. QED
    BY <2>1 DEF LogInv, RowsInv, CsvInv, HasLog, Rows, threadVars, queueVars, mainVars
<1>3. QED
  BY <1>1, <1>2 DEF ClientStep

LEMMA MainLogInv ==
  ASSUME IInv, LogInv, MainStep
  PROVE  LogInv'
<1> USE DEF LogInv, RowsInv, CsvInv, HasLog, Rows
<1>1. CASE pc = "start" /\ (StartAll \/ StartSubsOnly)
  BY <1>1 DEF StartAll, StartSubsOnly, StartSubs, queueVars, IInv, MainInv, StartInv
<1>2. ASSUME UNCHANGED <<opts, clientVars, csv>>,
             \/ UNCHANGED pc /\ UNCHANGED joined
             \/ csv = -1 /\ pc' \notin {"drainLog", "write"}
             \/ pc = "drainPubs" /\ pc' = "drainLog" /\ HasLog /\ UNCHANGED joined
             \/ pc \in {"statistics", "failed"} /\ pc' = "over" /\ UNCHANGED joined
      PROVE  LogInv'
  BY <1>2 DEF clientVars, threadVars, queueVars
<1>3. CASE DrainLog
  <2>1. /\ UNCHANGED <<opts, run, count, sent, killed, joined, csv>>
        /\ pc = "drainLog" /\ pc' \in {"drainLog", "write"}
        /\ pc' = "write" => logs' = SumFunction(sent)
    BY <1>3 DEF DrainLog, LogEmpty, threadVars
  <2>2. ASSUME joined, killed = {} PROVE sent = count
    <3>1. \A s \in Subs : run[s] = "dead" \/ run[s] = "new"
      BY <2>1, <2>2 DEF IInv, MainInv, JoinedInv, SubsInv, ResultInv
    <3>2. \A s \in Subs : sent[s] = count[s]
      BY <2>1, <2>2, <3>1
    <3>3. QED
      BY <3>2 DEF IInv, TypeOK, ClientsTypeOK
  <2>3. QED
    BY <2>1, <2>2
<1>4. ASSUME NEW next \in {"statistics", "finish"}, WriteCsv(next) PROVE LogInv'
  <2>1. /\ UNCHANGED <<opts, run, count, sent, killed, joined>>
        /\ pc = "write" /\ pc' = next /\ csv' = logs
    BY <1>4 DEF WriteCsv, clientVars, threadVars, queueVars
  <2>2. joined => \A s \in opts.subs : run[s] = "dead"
    BY <2>1 DEF IInv, MainInv, JoinedInv
  <2>3. QED
    BY <2>1, <2>2
<1>5. QED
  <2> USE <1>1, <1>2, <1>3, <1>4 DEF Joins, JoinSubs, JoinPubs, Fail, Pass, DrainSubs,
          DrainPubs, Finish, Exit
  <2>1. CASE opts.program = "original" /\ OriginalMain
    BY <2>1 DEF OriginalMain, OriginalStart
  <2>2. CASE opts.program = "net_analysis" /\ NetAnalysisMain
    BY <2>2 DEF NetAnalysisMain, NetAnalysisStart, NetAnalysisCheck
  <2>3. CASE opts.program = "post" /\ PostMain
    BY <2>3 DEF PostMain, PostStart
  <2>4. CASE opts.program \in {"script", "timer"} /\ (ContainerStart \/ ContainerMain)
    BY <2>4 DEF ContainerStart, ContainerMain
  <2>5. QED
    BY <2>1, <2>2, <2>3, <2>4
       DEF MainStep, ScriptStart, ScriptMain, TimerStart, TimerMain

LEMMA InductiveLog == Spec => []LogInv
<1>1. Init => LogInv
  BY DEF Init, ClientsInit, LogInv, RowsInv, CsvInv
<1>2. IInv /\ LogInv /\ [Next]_vars => LogInv'
  <2>1. ASSUME LogInv, Waiting \/ UNCHANGED vars PROVE LogInv'
    BY <2>1 DEF Waiting, vars, mainVars, clientVars, threadVars, queueVars,
                LogInv, RowsInv, CsvInv, HasLog, Rows
  <2>2. QED
    BY <2>1, ClientLogInv, MainLogInv DEF Next
<1>3. QED
  BY <1>1, <1>2, Inductive, PTL DEF Spec

-----------------------------------------------------------------------------

\* Every reachable state has the declared types.
THEOREM TypeCorrect == Spec => []TypeOK
<1>1. IInv => TypeOK
  BY DEF IInv
<1>2. QED
  BY Inductive, <1>1, PTL

\* A duration in SUB_QUEUE is one of a complete reception, whatever the
\* program, and a subscriber puts no second one.
THEOREM ReportsOnceComplete == Spec => []ReportedOnceComplete
<1>1. IInv => ReportedOnceComplete
  BY DEF IInv, SubsInv, ResultInv, ReportedOnceComplete
<1>2. QED
  BY Inductive, <1>1, PTL

\* The deadlock of run and on_message takes more messages than --sub-count;
\* loop_stop in on_message leaves it to clients with packets of their own,
\* and terminate rules it out.
THEOREM DeadlockIsNarrow == Spec => []DeadlockNarrowed
<1>1. IInv => DeadlockNarrowed
  <2> SUFFICES ASSUME IInv, NEW s \in Subs, Deadlocked(s)
               PROVE  /\ count[s] > SubCount
                      /\ opts.program # "timer"
                      /\ opts.program \in {"post", "script"} => Writes
    BY DEF DeadlockNarrowed
  <2>1. endTime[s] /\ net[s] = "acquire"
    BY DEF IInv, SubsInv, ResultInv, Deadlocked
  <2>2. QED
    BY <2>1 DEF IInv, SubsInv, ResultInv, StopInv
<1>2. QED
  BY Inductive, <1>1, PTL

\* No program prints statistics with a subscriber missing.
THEOREM StatisticsAreOfAll == Spec => []StatisticsOfAll
<1>1. IInv => StatisticsOfAll
  BY DEF IInv, MainInv, CheckedInv, AllReported, StatisticsOfAll
<1>2. QED
  BY Inductive, <1>1, PTL

\* The mean is one over all subscribers, except where get can give up.
THEOREM MeanIsOverAll == Spec => []MeanOverAll
<1>1. IInv => MeanOverAll
  BY DEF IInv, MainInv, MeanInv, InContainer, MeanOverAll
<1>2. QED
  BY Inductive, <1>1, PTL

\* Unless a join timed out or a subscriber was killed the csv file has every
\* row that was put into LOG_QUEUE, although empty() looks at the pipe only.
THEOREM CsvHasEveryRow == Spec => []CsvComplete
<1>1. LogInv => CsvComplete
  BY DEF LogInv, CsvInv, CsvComplete
<1>2. QED
  BY InductiveLog, <1>1, PTL

\* Where publishers and subscribers given the same topic do not meet, main
\* never has results.
THEOREM DeafStaysDeaf == Spec => []DeafNeverFinishes
<1>1. IInv => DeafNeverFinishes
  <2> SUFFICES ASSUME IInv, Deaf, Drained, NEW s \in opts.subs PROVE FALSE
    BY DEF DeafNeverFinishes
  <2>1. s \in Subs
    BY OptsType DEF IInv, TypeOK, ClientsTypeOK
  <2>2. results[s] > 0
    BY DEF IInv, MainInv, CheckedInv, AllReported
  <2>3. count[s] >= SubCount
    BY <2>1, <2>2 DEF IInv, SubsInv, ResultInv
  <2>4. count[s] = 0
    BY <2>1 DEF IInv, SubsInv, StopInv
  <2>5. QED
    BY <2>3, <2>4, EarlierAssumption DEF EarlierAssumption
<1>2. QED
  BY Inductive, <1>1, PTL

-----------------------------------------------------------------------------
(* The promise of Container.                                               *)

\* A subscriber that is not alive takes no step.
LEMMA OnlyTheLiving ==
  ASSUME NEW s, SubStep(s)
  PROVE  SubAlive(s)
BY DEF SubStep, OriginalSub, NetAnalysisSub, PostSub, ScriptSub, TimerSub, CommonSub, LogFeeder,
       Connect, Report, HitTimeout, JoinThread, ExitSub, LoseConnection, LeaveLoop, CountMessage,
       ParseFails, ReadMessage, AtMaxCount, MessageTimer, ParentTimer, TakeWriter, WriteRow,
       NetRuns, SubAlive

\* The joins are made once, and the line is printed when nobody is left.
LineInv ==
  /\ pc \in {"start", "joinSubs"} => joined
  /\ pc = "finish" => csv # -1
  /\ finished => pc = "finish" /\ NobodyAlive

\* Once all subscribers are dead, none takes a step.
LEMMA NobodyMoves ==
  ASSUME IInv, NobodyAlive, ClientStep
  PROVE  UNCHANGED <<opts, threadVars, queueVars, killed, mainVars>>
<1>1. ASSUME NEW s \in Subs, SubStep(s) PROVE FALSE
  <2>1. s \in opts.subs
    BY <1>1, OnlyTheLiving DEF SubAlive, IInv, SubsInv, ResultInv
  <2>2. QED
    BY <1>1, <2>1, OnlyTheLiving DEF NobodyAlive
<1>2. QED
  BY <1>1 DEF ClientStep, PubStep, OriginalPub, NetAnalysisPub, PostPub, ScriptPub, TimerPub,
              PybenchPub, CallbackPub

\* What a step of main leaves of the phase's variables.
LEMMA MainPhaseSteps ==
  ASSUME MainStep
  PROVE  \/ Finish
         \/ Exit /\ UNCHANGED joined
         \/ JoinSubs
         \/ \E next \in {"statistics", "finish"} : WriteCsv(next)
         \/ /\ UNCHANGED <<opts, killed, joined, csv, finished>>
            /\ pc \notin {"finish", "over"}
            /\ pc' \notin {"start", "finish", "over"}
            /\ pc' = "joinSubs" => pc = "start"
<1> USE DEF Joins, JoinSubs, JoinPubs, Fail, Pass, DrainSubs, DrainPubs, DrainLog, Exit,
        StartAll, StartSubsOnly, clientVars, WriteCsv
<1>1. CASE opts.program = "original" /\ OriginalMain
  BY <1>1 DEF OriginalMain, OriginalStart
<1>2. CASE opts.program = "net_analysis" /\ NetAnalysisMain
  BY <1>2 DEF NetAnalysisMain, NetAnalysisStart, NetAnalysisCheck
<1>3. CASE opts.program = "post" /\ PostMain
  BY <1>3 DEF PostMain, PostStart
<1>4. CASE ContainerStart \/ ContainerMain
  BY <1>4 DEF ContainerStart, ContainerMain
<1>5. QED
  BY <1>1, <1>2, <1>3, <1>4 DEF MainStep, ScriptStart, ScriptMain, TimerStart, TimerMain

LEMMA InductiveLine == Spec => []LineInv
<1>1. Init => LineInv
  BY DEF Init, LineInv
<1>2. IInv /\ LineInv /\ [Next]_vars => LineInv'
  <2> SUFFICES ASSUME IInv, LineInv, [Next]_vars PROVE LineInv'
    OBVIOUS
  <2>1. TypeOK'
    BY NextIInv DEF IInv
  <2>2. CASE ClientStep
    <3>1. UNCHANGED mainVars
      BY <2>2 DEF ClientStep
    <3>2. finished => UNCHANGED <<opts, run>>
      BY <2>2, NobodyMoves DEF LineInv, threadVars
    <3>3. QED
      BY <3>1, <3>2 DEF LineInv, NobodyAlive, SubAlive, mainVars
  <2>3. CASE MainStep
    <3>1. CASE Finish
      BY <3>1 DEF Finish, LineInv, NobodyAlive, SubAlive, clientVars, threadVars
    <3>2. CASE Exit
      BY <3>2 DEF Exit, LineInv
    <3>3. CASE JoinSubs
      BY <3>3 DEF JoinSubs, LineInv
    <3>4. ASSUME NEW next \in {"statistics", "finish"}, WriteCsv(next) PROVE LineInv'
      <4>1. csv' # -1
        BY <3>4 DEF WriteCsv, IInv, TypeOK, ClientsTypeOK
      <4>2. QED
        BY <3>4, <4>1 DEF WriteCsv, LineInv
    <3>5. CASE /\ UNCHANGED <<opts, killed, joined, csv, finished>>
               /\ pc \notin {"finish", "over"}
               /\ pc' \notin {"start", "finish", "over"}
               /\ pc' = "joinSubs" => pc = "start"
      BY <3>5 DEF LineInv
    <3>6. QED
      BY <2>3, <3>1, <3>2, <3>3, <3>4, <3>5, MainPhaseSteps
  <2>4. CASE UNCHANGED vars
    BY <2>4 DEF vars, mainVars, clientVars, threadVars, LineInv, NobodyAlive, SubAlive
  <2>5. QED
    BY <2>2, <2>3, <2>4 DEF Next, Waiting
<1>3. QED
  BY <1>1, <1>2, Inductive, PTL DEF Spec

PromiseInv == IInv /\ LogInv /\ LineInv

\* Each program keeps the promise that local_subscriber relies on: its marker
\* comes only when no subscriber is alive and the csv file is on disk, and the
\* file has every row unless a join timed out or a subscriber was killed.
THEOREM RefinesContainer == Spec => ImplementsContainer
<1>1. Init => AbstractContainer!Init
  BY DEF Init, ClientsInit, AbstractContainer!Init, phase, InTime
<1>2. PromiseInv /\ PromiseInv' /\ [Next]_vars => [AbstractContainer!Next]_phase
  <2> SUFFICES ASSUME PromiseInv, PromiseInv', [Next]_vars
               PROVE  AbstractContainer!Next \/ UNCHANGED phase
    OBVIOUS
  <2> USE DEF AbstractContainer!Next, AbstractContainer!BeLate, AbstractContainer!WriteCsv,
              AbstractContainer!PrintFinished, AbstractContainer!Crash
  <2>0. /\ LineInv /\ LineInv' /\ CsvInv /\ CsvInv'
        /\ csv \in Nat \cup {-1} /\ joined \in BOOLEAN /\ finished \in BOOLEAN
    BY DEF PromiseInv, IInv, TypeOK, LogInv
  <2>1. ASSUME UNCHANGED <<csv, finished>>, pc' # "over" /\ pc # "over",
               csv # -1 => (InTime' <=> InTime), ~InTime => ~InTime'
        PROVE  AbstractContainer!Next \/ UNCHANGED phase
    BY <2>0, <2>1 DEF phase, LineInv, CsvInv, InTime
  <2>2. CASE ClientStep
    <3>1. UNCHANGED mainVars /\ (~InTime => ~InTime')
      <4>1. killed \subseteq killed'
        BY <2>2, SubStepKeeps DEF ClientStep, PubStep, OriginalPub, NetAnalysisPub, PostPub, ScriptPub,
           TimerPub, PybenchPub, CallbackPub, Monotone, PromiseInv
      <4>2. QED
        BY <2>2, <4>1 DEF ClientStep, InTime, mainVars
    <3>2. CASE csv = -1 /\ pc = "over"
      BY <3>1, <3>2 DEF phase, mainVars
    <3>3. CASE csv # -1 /\ InTime
      <4>1. NobodyAlive
        BY <2>0, <3>3 DEF CsvInv, InTime, NobodyAlive, SubAlive
      <4>2. UNCHANGED killed
        BY <2>2, <4>1, NobodyMoves DEF PromiseInv
      <4>3. InTime' = InTime
        BY <3>1, <4>2 DEF InTime, mainVars
      <4>4. QED
        BY <2>0, <3>1, <3>3, <4>3 DEF phase, LineInv, CsvInv, InTime, mainVars
    <3>4. CASE csv # -1 /\ ~InTime
      BY <2>0, <3>1, <3>4 DEF phase, LineInv, mainVars
    <3>5. CASE csv = -1 /\ pc # "over"
      BY <2>1, <3>1, <3>5 DEF mainVars
    <3>6. QED
      BY <3>2, <3>3, <3>4, <3>5
  <2>3. CASE MainStep
    <3>1. CASE Finish
      <4>1. UNCHANGED <<csv, joined, killed, pc>> /\ pc = "finish" /\ (finished => finished')
        BY <3>1 DEF Finish, clientVars
      <4>2. QED
        BY <2>0, <4>1 DEF phase, LineInv, CsvInv, InTime
    <3>2. CASE Exit /\ UNCHANGED joined
      <4>1. UNCHANGED <<csv, joined, killed, finished>> /\ pc' = "over" /\ pc \in {"statistics", "failed"}
        BY <3>2 DEF Exit, clientVars
      <4>2. QED
        BY <2>0, <4>1 DEF phase, LineInv, CsvInv, InTime
    <3>3. CASE JoinSubs
      <4>1. UNCHANGED <<csv, finished, killed>> /\ pc = "joinSubs" /\ pc' = "joinPubs"
        BY <3>3 DEF JoinSubs, clientVars
      <4>2. csv = -1 /\ joined
        BY <2>0, <4>1 DEF CsvInv, LineInv
      <4>3. QED
        BY <2>1, <4>1, <4>2 DEF InTime
    <3>4. ASSUME NEW next \in {"statistics", "finish"}, WriteCsv(next)
          PROVE  AbstractContainer!Next \/ UNCHANGED phase
      <4>1. UNCHANGED <<finished, joined, killed>> /\ pc = "write" /\ csv' # -1 /\ csv = -1
        BY <2>0, <3>4 DEF WriteCsv, clientVars, PromiseInv, IInv, TypeOK, ClientsTypeOK, CsvInv
      <4>2. QED
        BY <2>0, <4>1 DEF phase, LineInv, CsvInv, InTime
    <3>5. CASE /\ UNCHANGED <<opts, killed, joined, csv, finished>>
               /\ pc \notin {"finish", "over"}
               /\ pc' \notin {"start", "finish", "over"}
               /\ pc' = "joinSubs" => pc = "start"
      BY <2>1, <3>5 DEF InTime
    <3>6. QED
      BY <2>3, <3>1, <3>2, <3>3, <3>4, <3>5, MainPhaseSteps
  <2>4. CASE UNCHANGED vars
    <3>1. UNCHANGED <<csv, finished, joined, pc, killed>>
      BY <2>4 DEF vars, mainVars, clientVars
    <3>2. CASE csv = -1 /\ pc = "over"
      BY <3>1, <3>2 DEF phase
    <3>3. CASE ~(csv = -1 /\ pc = "over")
      BY <2>0, <3>1, <3>3 DEF phase, LineInv, CsvInv, InTime
    <3>4. QED
      BY <3>2, <3>3
  <2>5. QED
    BY <2>2, <2>3, <2>4 DEF Next, Waiting
<1>3. Spec => []PromiseInv
  BY Inductive, InductiveLog, InductiveLine, PTL DEF PromiseInv
<1>4. QED
  BY <1>1, <1>2, <1>3, PTL DEF Spec, ImplementsContainer, AbstractContainer!Spec
=============================================================================
