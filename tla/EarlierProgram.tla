--------------------------- MODULE EarlierProgram ---------------------------
(***************************************************************************)
(* main() of the five earlier programs: it starts the clients, joins them, *)
(* checks and drains the result queues and prints statistics.  The later   *)
(* ones also write a csv file, and the last two then stay and print that   *)
(* they have finished once no subscriber is alive.                         *)
(*                                                                         *)
(* A loop over the clients is one step here: Harness takes the same loops  *)
(* apart for the program that is used today.                               *)
(***************************************************************************)
EXTENDS EarlierClients, Integers

CONSTANT
  PubCount    \* --pub-count

ASSUME PubCountAssumption == PubCount \in Nat \ {0}

VARIABLES
  pc,         \* where main is
  joined,     \* did every join of a subscriber return in time?
  times,      \* length of sub_times, -1 before SUB_QUEUE is drained
  csv,        \* rows in the csv file, -1 before it is written
  finished    \* has "finished its operation" been printed?

mainVars == <<pc, joined, times, csv, finished>>
vars == <<opts, clientVars, mainVars>>

TypeOK ==
  /\ ClientsTypeOK
  /\ pc \in {"start", "joinSubs", "joinPubs", "check", "drainSubs",
             "drainPubs", "drainLog", "write", "statistics", "finish",
             "failed", "over"}
  /\ joined \in BOOLEAN
  /\ times \in Nat \cup {-1} /\ csv \in Nat \cup {-1}
  /\ finished \in BOOLEAN

Init ==
  /\ ClientsInit
  /\ pc = "start" /\ joined = TRUE /\ times = -1 /\ csv = -1
  /\ finished = FALSE

\* The durations in a result queue, and its qsize().
Durations(put, clients) ==
  {d \in clients \X (1..MaxRounds) : d[2] <= put[d[1]]}
SubsReported == Cardinality(Durations(results, Subs))
PubsReported == Cardinality(Durations(rounds, Pubs))

NrSubs == Cardinality(opts.subs)
NrPubs == Cardinality(opts.pubs)

-----------------------------------------------------------------------------
(* The steps main is made of.                                              *)

StartSubs == run' = [s \in Subs |-> IF s \in opts.subs THEN "connect" ELSE "new"]

\* Every client is constructed and started.
StartAll ==
  /\ StartSubs
  /\ pub' = [p \in Pubs |-> IF p \in opts.pubs THEN "running" ELSE "new"]
  /\ pc' = "joinSubs"
  /\ UNCHANGED <<opts, net, inbox, count, startTime, endTime, stopFlag,
                 results, queueVars, killed, rounds, joined, times, csv,
                 finished>>

\* A constructor of a publisher raises: the subscribers run already.
StartSubsOnly ==
  /\ StartSubs
  /\ pc' = "failed"
  /\ UNCHANGED <<opts, net, inbox, count, startTime, endTime, stopFlag,
                 results, queueVars, killed, pubVars, joined, times, csv,
                 finished>>

\* exit(1) or an exception.
Fail ==
  /\ pc' = "failed"
  /\ UNCHANGED <<opts, clientVars, joined, times, csv, finished>>

\* join(timeout) for each subscriber: over early when it is dead.  The test
\* for the timeout subtracts the wrong way round and never raises.
JoinSubs ==
  /\ pc = "joinSubs"
  /\ joined' \in {FALSE, \A s \in opts.subs : run[s] = "dead"}
  /\ pc' = "joinPubs"
  /\ UNCHANGED <<opts, clientVars, times, csv, finished>>

JoinPubs ==
  /\ pc = "joinPubs"
  /\ pc' = "check"
  /\ UNCHANGED <<opts, clientVars, joined, times, csv, finished>>

Joins == JoinSubs \/ JoinPubs

Pass ==
  /\ pc' = "drainSubs"
  /\ UNCHANGED <<opts, clientVars, joined, times, csv, finished>>

\* Mutant of Complete: the publishers' queue is compared twice.
CompletePubs == PubsReported >= NrPubs

\* qsize() of both queues against the numbers of clients.
Complete == SubsReported >= NrSubs /\ PubsReported >= NrPubs

\* Mutant of DrainSubs: the loop goes on without the durations.
DrainSubsAnyway(blocking) ==
  /\ pc = "drainSubs"
  /\ times' = SubsReported
  /\ pc' = "drainPubs"
  /\ UNCHANGED <<opts, clientVars, joined, csv, finished>>

\* get for each subscriber.  get(sub_timeout) takes the timeout for `block'
\* and waits for ever; get(timeout=...) gives up on a duration whose process
\* is late to move it to the pipe, or was killed before it did.
DrainSubs(blocking) ==
  /\ pc = "drainSubs"
  /\ IF blocking
       THEN SubsReported >= NrSubs /\ times' = NrSubs
       ELSE times' \in
              Cardinality({s \in opts.subs : run[s] = "dead" /\ results[s] > 0
                                               /\ s \notin killed})..NrSubs
  /\ pc' = "drainPubs"
  /\ UNCHANGED <<opts, clientVars, joined, csv, finished>>

DrainPubs(blocking, next) ==
  /\ pc = "drainPubs"
  /\ blocking => PubsReported >= NrPubs
  /\ pc' = next
  /\ UNCHANGED <<opts, clientVars, joined, times, csv, finished>>

LogEmpty == logs = SumFunction(sent)

\* while not LOG_QUEUE.empty(): one row, or the loop is over.
DrainLog ==
  /\ pc = "drainLog"
  /\ IF LogEmpty THEN pc' = "write" /\ UNCHANGED logs
                 ELSE logs' = logs + 1 /\ UNCHANGED pc
  /\ UNCHANGED <<opts, threadVars, sent, writer, killed, pubVars, joined,
                 times, csv, finished>>

\* Mutant of WriteCsv: the rows are not written.
WriteNothing(next) ==
  /\ pc = "write"
  /\ pc' = next
  /\ UNCHANGED <<opts, clientVars, joined, times, csv, finished>>

WriteCsv(next) ==
  /\ pc = "write"
  /\ csv' = logs
  /\ pc' = next
  /\ UNCHANGED <<opts, clientVars, joined, times, finished>>

NobodyAlive == \A s \in opts.subs : ~SubAlive(s)

\* Every two seconds, for ever.
Finish ==
  /\ pc = "finish"
  /\ finished' = (finished \/ NobodyAlive)
  /\ UNCHANGED <<opts, clientVars, pc, joined, times, csv>>

\* main is over; the interpreter exits when all its children have ended.
Exit ==
  /\ pc \in {"statistics", "failed"}
  /\ NobodyAlive /\ \A p \in Pubs : PubEnded(p)
  /\ pc' = "over"
  /\ UNCHANGED <<opts, clientVars, joined, times, csv, finished>>

-----------------------------------------------------------------------------
(* main of the five programs.                                              *)

\* It refuses to start clients that cannot reach --sub-count.  Pub gets the
\* QoS as its message size: with a positive one its constructor looks for
\* string.lowercase, which Python 3 does not have.
OriginalStart ==
  /\ pc = "start"
  /\ IF ~opts.accepted \/ PubCount * NrPubs < SubCount THEN Fail
     ELSE IF opts.qos > 0 /\ opts.pubs # {} THEN StartSubsOnly
     ELSE StartAll

\* It does not compare the queues with the clients.
OriginalMain ==
  \/ OriginalStart \/ Joins
  \/ pc = "check" /\ Pass
  \/ DrainSubs(TRUE) \/ DrainPubs(TRUE, "statistics")
  \/ Exit

NetAnalysisStart ==
  /\ pc = "start"
  /\ IF ~opts.accepted THEN Fail
     ELSE IF opts.qos > 0 /\ opts.pubs # {} THEN StartSubsOnly
     ELSE StartAll

\* Mutant of NetAnalysisCheck: as it was in the original program.
NetAnalysisUnchecked == pc = "check" /\ Pass

\* --msg is asked for when everything has been published.
NetAnalysisCheck ==
  pc = "check" /\ IF opts.msg /\ Complete THEN Pass ELSE Fail

NetAnalysisMain ==
  \/ NetAnalysisStart \/ Joins \/ NetAnalysisCheck
  \/ DrainSubs(TRUE) \/ DrainPubs(TRUE, "statistics")
  \/ Exit

\* A QoS that is no number is refused.
PostStart ==
  pc = "start" /\ IF opts.accepted /\ Qos # {} THEN StartAll ELSE Fail

PostMain ==
  \/ PostStart \/ Joins
  \/ pc = "check" /\ IF Complete THEN Pass ELSE Fail
  \/ DrainSubs(TRUE) \/ DrainPubs(TRUE, "drainLog")
  \/ DrainLog \/ WriteCsv("statistics")
  \/ Exit

\* One loop with a single topic, or one for each cluster of a document;
\* there is no topic that is taken when none is given.
ContainerStart == pc = "start" /\ IF opts.accepted THEN StartAll ELSE Fail

\* The main that container_python.py has today.
ContainerMain ==
  \/ Joins
  \/ pc = "check" /\ IF Complete THEN Pass ELSE Fail
  \/ DrainSubs(FALSE) \/ DrainPubs(FALSE, "drainLog")
  \/ DrainLog \/ WriteCsv("finish")
  \/ Finish \/ Exit

ScriptStart == opts.program = "script" /\ ContainerStart
ScriptMain == opts.program = "script" /\ ContainerMain
TimerStart == opts.program = "timer" /\ ContainerStart
TimerMain == opts.program = "timer" /\ ContainerMain

MainStep ==
  \/ opts.program = "original" /\ OriginalMain
  \/ opts.program = "net_analysis" /\ NetAnalysisMain
  \/ opts.program = "post" /\ PostMain
  \/ ScriptStart \/ ScriptMain
  \/ TimerStart \/ TimerMain

\* main may wait for a result, the interpreter for a child, for ever.
Waiting == pc \in {"drainSubs", "drainPubs", "statistics", "failed", "over"}
           /\ UNCHANGED vars

ClientStep ==
  /\ \/ \E s \in Subs : SubStep(s)
     \/ \E p \in Pubs : PubStep(p)
  /\ UNCHANGED mainVars

TimerFires(s) ==
  opts.program = "timer" /\ ParentTimer(s) /\ UNCHANGED mainVars

Next == MainStep \/ ClientStep \/ Waiting

Spec == Init /\ [][Next]_vars

\* main runs, and so do the timers in its process; clients need not.
FairSpec ==
  /\ Spec
  /\ WF_vars(MainStep)
  /\ \A s \in Subs : WF_vars(TimerFires(s))

-----------------------------------------------------------------------------
(* Properties.                                                             *)

\* In all five programs a duration in SUB_QUEUE is one of a complete
\* reception, and a subscriber puts no second one: qsize() counts them.
ReportedOnceComplete ==
  \A s \in Subs :
    results[s] > 0 => results[s] = 1 /\ endTime[s] /\ count[s] >= SubCount

\* A subscriber that joins its network thread while that thread waits for
\* end_time_lock, which run holds, hangs for good.
Deadlocked(s) == run[s] = "join" /\ net[s] = "acquire"

\* It takes more messages than --sub-count.  loop_stop in on_message (post)
\* leaves it to clients that have packets of their own; terminate (timer)
\* rules it out.
DeadlockNarrowed ==
  \A s \in Subs : Deadlocked(s) =>
    /\ count[s] > SubCount
    /\ opts.program # "timer"
    /\ opts.program \in {"post", "script"} => Writes

Drained ==
  pc \in {"drainPubs", "drainLog", "write", "statistics", "finish"}

\* No program goes on to statistics with a subscriber missing: the original
\* one waits for its duration, the others have compared the sizes.
StatisticsOfAll ==
  Drained => \A s \in opts.subs : results[s] > 0

\* The mean is one over all subscribers, except where get can give up: on a
\* subscriber that was late or that main itself has killed.
MeanOverAll ==
  Drained /\ (opts.program \in {"script", "timer"} => joined /\ killed = {})
    => times = NrSubs

\* A row put into LOG_QUEUE is missing in the csv file only if a join timed
\* out or main's process has killed a subscriber.
CsvComplete ==
  csv # -1 /\ joined /\ killed = {} => csv = SumFunction(count)

\* A subscriber that does not subscribe to the topic it is given never gets a
\* result: in the original program a topic outside pybench/, in script a plain
\* one.
Deaf ==
  \/ opts.program = "original" /\ opts.topic = "plain"
  \/ opts.program = "script" /\ opts.topic = "plain"
DeafNeverFinishes == Deaf /\ opts.subs # {} => ~Drained

\* All five programs keep the promise of Container: a csv file, where there is
\* one, has every row and gets no other if every join was in time and main's
\* process has killed nobody, and when the line is printed no subscriber is
\* alive.  What breaks this is no phase.
InTime == joined /\ killed = {}
phase ==
  CASE csv = -1 /\ pc = "over" -> "exited"
    [] csv = -1 /\ pc # "over" /\ ~finished /\ InTime -> "running"
    [] csv = -1 /\ pc # "over" /\ ~finished /\ ~InTime -> "late"
    [] csv # -1 /\ ~finished /\ InTime /\ csv = SumFunction(count) -> "written"
    [] csv # -1 /\ ~finished /\ ~InTime -> "partial"
    [] csv # -1 /\ finished /\ NobodyAlive /\ InTime
         /\ csv = SumFunction(count) -> "finished"
    [] csv # -1 /\ finished /\ NobodyAlive /\ ~InTime -> "finishedPartial"
    [] OTHER -> "broken"
AbstractContainer == INSTANCE Container
ImplementsContainer == AbstractContainer!Spec

\* The comparison of the sizes is what keeps main from waiting for ever.
MainEnds ==
  opts.program # "original" => <>(pc \in {"statistics", "finish", "failed"})

\* The timers in main's process end every subscriber, even one whose feeder
\* waits for a lock that died with another: "finished its operation" always
\* comes once the results are complete.
TimersFinish ==
  opts.program = "timer" /\ pc = "finish" ~> finished
=============================================================================
