------------------------------ MODULE Harness -------------------------------
(***************************************************************************)
(* main() of clients/container_python.py: the program one container runs.  *)
(*                                                                         *)
(* main starts the subscriber and publisher processes, joins them with a   *)
(* timeout, compares the sizes of the result queues with the number of     *)
(* processes, drains the queues, writes the csv file and then prints, for  *)
(* ever, that it has finished once no subscriber is alive.                 *)
(*                                                                         *)
(* The processes are the abstract ones of Worker.  A subscriber also puts  *)
(* rows into LOG_QUEUE.  A multiprocessing.Queue is external: put leaves   *)
(* the item with a feeder thread of the putting process, which moves it to *)
(* a pipe of bounded size; qsize counts both, empty looks at the pipe      *)
(* only, and a process exits only after its feeder has moved everything.   *)
(***************************************************************************)
EXTENDS Integers, Functions

CONSTANTS
  NSubs, NPubs,     \* processes started
  ActiveSubs,       \* _active_sub_clients: all of them with a single topic,
  ActivePubs,       \*   those of the clusters with multiple topics
  MaxRows,          \* bound: rows a subscriber puts into LOG_QUEUE
  PipeSize,         \* rows the pipe of LOG_QUEUE holds
  MaxRounds         \* bound: durations a publisher puts (one per connection)

ASSUME HarnessAssumption ==
  /\ {NSubs, NPubs, MaxRows} \subseteq Nat
  /\ ActiveSubs \in 0..NSubs /\ ActivePubs \in 0..NPubs
  /\ {PipeSize, MaxRounds} \subseteq Nat \ {0}

Subs == 1..NSubs
Pubs == 1..NPubs

VARIABLES
  pc,          \* where main is
  k,           \* loop variable of main: 1-based index of the current client
  timeouts,    \* joins of the current loop that timed out
  sub, pub,    \* status of each process, "new" before start()
  subQueue,    \* durations in SUB_QUEUE
  pubQueue,    \* durations in PUB_QUEUE
  rounds,      \* durations each publisher has put
  rows,        \* rows each subscriber has put into LOG_QUEUE
  sent,        \* of those, rows its feeder has moved to the pipe
  logs,        \* rows main has taken out of LOG_QUEUE
  csv,         \* rows in the csv file, -1 before it is written
  joined,      \* did every join of a subscriber return in time?
  finished     \* has "finished its operation" been printed?

mainVars == <<pc, k, timeouts, logs, csv, joined, finished>>
workerVars == <<sub, pub, rounds, rows, sent>>
queueVars == <<subQueue, pubQueue>>
vars == <<mainVars, workerVars, queueVars>>

WorkerStatuses == {"new", "running", "reported", "returned", "raised"}

TypeOK ==
  /\ pc \in {"startSubs", "startPubs", "joinSubs", "joinPubs", "checkSubs",
             "checkPubs", "drainSubs", "drainPubs", "drainLog", "write",
             "finish", "error", "timedOut", "exited"}
  /\ k \in Nat \ {0}
  /\ timeouts \in Nat
  /\ sub \in [Subs -> WorkerStatuses]
  /\ pub \in [Pubs -> WorkerStatuses]
  /\ subQueue \in Nat /\ pubQueue \in Nat
  /\ rounds \in [Pubs -> 0..MaxRounds]
  /\ rows \in [Subs -> 0..MaxRows]
  /\ sent \in [Subs -> 0..MaxRows] /\ \A s \in Subs : sent[s] <= rows[s]
  /\ logs \in Nat /\ csv \in Nat \cup {-1}
  /\ joined \in BOOLEAN /\ finished \in BOOLEAN

Init ==
  /\ pc = "startSubs" /\ k = 1 /\ timeouts = 0
  /\ sub = [s \in Subs |-> "new"] /\ pub = [p \in Pubs |-> "new"]
  /\ subQueue = 0 /\ pubQueue = 0
  /\ rounds = [p \in Pubs |-> 0]
  /\ rows = [s \in Subs |-> 0] /\ sent = [s \in Subs |-> 0]
  /\ logs = 0 /\ csv = -1 /\ joined = TRUE /\ finished = FALSE

\* Rows in the pipe of LOG_QUEUE.
InPipe == SumFunction(sent) - logs

SubAlive(s) == sub[s] \in {"running", "reported"} \/ sent[s] < rows[s]

\* Mutant of PubAlive: a process that raised is taken for alive.
PubAliveUnlessReturned(p) == pub[p] \in {"running", "reported", "raised"}

PubAlive(p) == pub[p] \in {"running", "reported"}

-----------------------------------------------------------------------------
(* The processes, as Worker describes them.                                *)

\* write_to_log: a row of a received message.  With QoS 1 and 2 rows can
\* still come after the duration (see SubClient).
PutRow(s) ==
  /\ sub[s] \in {"running", "reported"} /\ rows[s] < MaxRows
  /\ rows' = [rows EXCEPT ![s] = @ + 1]
  /\ UNCHANGED <<mainVars, queueVars, sub, pub, rounds, sent>>

\* The feeder thread of the subscriber moves a row to the pipe if it fits.
Feed(s) ==
  /\ sent[s] < rows[s] /\ InPipe < PipeSize
  /\ sent' = [sent EXCEPT ![s] = @ + 1]
  /\ UNCHANGED <<mainVars, queueVars, sub, pub, rounds, rows>>

SubReport(s) ==
  /\ sub[s] = "running"
  /\ sub' = [sub EXCEPT ![s] = "reported"]
  /\ subQueue' = subQueue + 1
  /\ UNCHANGED <<mainVars, pubQueue, pub, rounds, rows, sent>>

\* The process ends: run returns after its report or raises without one.
SubEnd(s) ==
  /\ \/ sub[s] = "reported" /\ sub' = [sub EXCEPT ![s] = "returned"]
     \/ sub[s] = "running" /\ sub' = [sub EXCEPT ![s] = "raised"]
  /\ UNCHANGED <<mainVars, queueVars, pub, rounds, rows, sent>>

\* A publisher that reconnects reports again (see PubClient).
PubReport(p) ==
  /\ pub[p] \in {"running", "reported"} /\ rounds[p] < MaxRounds
  /\ pub' = [pub EXCEPT ![p] = "reported"]
  /\ rounds' = [rounds EXCEPT ![p] = @ + 1]
  /\ pubQueue' = pubQueue + 1
  /\ UNCHANGED <<mainVars, subQueue, sub, rows, sent>>

PubEnd(p) ==
  /\ \/ pub[p] = "reported" /\ pub' = [pub EXCEPT ![p] = "returned"]
     \/ pub[p] = "running" /\ pub' = [pub EXCEPT ![p] = "raised"]
  /\ UNCHANGED <<mainVars, queueVars, sub, rounds, rows, sent>>

WorkerStep ==
  \/ \E s \in Subs : PutRow(s) \/ SubReport(s) \/ SubEnd(s)
  \/ \E p \in Pubs : PubReport(p) \/ PubEnd(p)

-----------------------------------------------------------------------------
(* main().                                                                 *)

\* The loops of main over its clients: where, how many turns, what is next.
Loops == {
  <<"startSubs", NSubs, "startPubs">>, <<"startPubs", NPubs, "joinSubs">>,
  <<"joinSubs", NSubs, "joinPubs">>, <<"joinPubs", NPubs, "checkSubs">>,
  <<"drainSubs", ActiveSubs, "drainPubs">>,
  <<"drainPubs", ActivePubs, "drainLog">> }

\* A loop is over; start_timer is set anew before each loop of joins.
EndLoop ==
  /\ \E loop \in Loops : pc = loop[1] /\ k > loop[2] /\ pc' = loop[3]
  /\ k' = 1 /\ timeouts' = 0
  /\ UNCHANGED <<logs, csv, joined, finished, queueVars, workerVars>>

StartSub ==
  /\ pc = "startSubs" /\ k <= NSubs
  /\ sub' = [sub EXCEPT ![k] = "running"]
  /\ k' = k + 1
  /\ UNCHANGED <<pc, timeouts, logs, csv, joined, finished, queueVars, pub,
                 rounds, rows, sent>>

StartPub ==
  /\ pc = "startPubs" /\ k <= NPubs
  /\ pub' = [pub EXCEPT ![k] = "running"]
  /\ k' = k + 1
  /\ UNCHANGED <<pc, timeouts, logs, csv, joined, finished, queueVars, sub,
                 rounds, rows, sent>>

\* delta = start_timer - curr_time; delta.total_seconds() >= sub_timeout, in
\* multiples of the timeout: a join that timed out took one of them.
Raises(n) == 0 - n >= 1

\* Mutant of Join: join() without its timeout.
JoinForever(alive) ==
  /\ ~alive /\ k' = k + 1
  /\ UNCHANGED <<pc, timeouts, logs, csv, joined, finished, queueVars,
                 workerVars>>

\* join(timeout) returns when the process is dead, or after the timeout; then
\* comes the test that is to raise 'Timed out waiting for threads to return'.
Join(alive) ==
  /\ \/ ~alive /\ UNCHANGED <<timeouts, joined>>
     \/ alive /\ timeouts' = timeouts + 1
           /\ joined' = (joined /\ pc # "joinSubs")
  /\ IF Raises(timeouts') THEN pc' = "timedOut" /\ UNCHANGED k
                          ELSE k' = k + 1 /\ UNCHANGED pc
  /\ UNCHANGED <<logs, csv, finished, queueVars, workerVars>>

JoinSub == pc = "joinSubs" /\ k <= NSubs /\ Join(SubAlive(k))
JoinPub == pc = "joinPubs" /\ k <= NPubs /\ Join(PubAlive(k))

\* Mutant of TooFew: the comparison lets one result be missing.
TooFewButOne(size, active) == size + 1 < active

\* qsize() < number of active clients: raise ContainersQueueError.
TooFew(size, active) == size < active

CheckSubs ==
  /\ pc = "checkSubs"
  /\ pc' = IF TooFew(subQueue, ActiveSubs) THEN "error" ELSE "checkPubs"
  /\ UNCHANGED <<k, timeouts, logs, csv, joined, finished, queueVars,
                 workerVars>>

CheckPubs ==
  /\ pc = "checkPubs"
  /\ pc' = IF TooFew(pubQueue, ActivePubs) THEN "error" ELSE "drainSubs"
  /\ UNCHANGED <<k, timeouts, logs, csv, joined, finished, queueVars,
                 workerVars>>

\* get(timeout): an item, or queue.Empty if the feeder of a process that is
\* still alive is late, which the loop skips.
Get(queue, lagging) ==
  \/ queue > 0 /\ queue' = queue - 1
  \/ lagging /\ UNCHANGED queue

DrainSubs ==
  /\ pc = "drainSubs" /\ k <= ActiveSubs
  /\ Get(subQueue, \E s \in Subs : SubAlive(s))
  /\ k' = k + 1
  /\ UNCHANGED <<pc, timeouts, logs, csv, joined, finished, pubQueue,
                 workerVars>>

DrainPubs ==
  /\ pc = "drainPubs" /\ k <= ActivePubs
  /\ Get(pubQueue, \E p \in Pubs : PubAlive(p))
  /\ k' = k + 1
  /\ UNCHANGED <<pc, timeouts, logs, csv, joined, finished, subQueue,
                 workerVars>>

\* Mutant of LogEmpty: the loop takes one row.
LogEmptyAfterOne == logs = SumFunction(sent) \/ logs > 0

LogEmpty == logs = SumFunction(sent)

\* while not LOG_QUEUE.empty(): logs.append(LOG_QUEUE.get(...)).
DrainLog ==
  /\ pc = "drainLog"
  /\ IF LogEmpty THEN pc' = "write" /\ UNCHANGED logs
                 ELSE logs' = logs + 1 /\ UNCHANGED pc
  /\ UNCHANGED <<k, timeouts, csv, joined, finished, queueVars, workerVars>>

\* write(log_file, logs), then the statistics.
Write ==
  /\ pc = "write"
  /\ csv' = logs
  /\ pc' = "finish"
  /\ UNCHANGED <<k, timeouts, logs, joined, finished, queueVars, workerVars>>

AllSubsDead == \A s \in Subs : ~SubAlive(s)

\* Mutant of Finish: the line is printed at once.
FinishAtOnce ==
  /\ pc = "finish"
  /\ finished' = TRUE
  /\ UNCHANGED <<pc, k, timeouts, logs, csv, joined, queueVars, workerVars>>

\* The last loop, every two seconds for ever.
Finish ==
  /\ pc = "finish"
  /\ finished' = (finished \/ AllSubsDead)
  /\ UNCHANGED <<pc, k, timeouts, logs, csv, joined, queueVars, workerVars>>

\* An exception left main: multiprocessing joins the children, which are not
\* daemons, before the interpreter exits.
Exit ==
  /\ pc \in {"error", "timedOut"}
  /\ AllSubsDead /\ \A p \in Pubs : ~PubAlive(p)
  /\ pc' = "exited"
  /\ UNCHANGED <<k, timeouts, logs, csv, joined, finished, queueVars,
                 workerVars>>

Waiting == pc = "error" /\ UNCHANGED vars
Over == pc = "exited" /\ UNCHANGED vars

MainStep ==
  \/ EndLoop \/ StartSub \/ StartPub \/ JoinSub \/ JoinPub
  \/ CheckSubs \/ CheckPubs \/ DrainSubs \/ DrainPubs \/ DrainLog
  \/ Write \/ Finish \/ Exit

Next ==
  MainStep \/ WorkerStep \/ (\E s \in Subs : Feed(s)) \/ Waiting \/ Over

Spec == Init /\ [][Next]_vars

\* main and the feeder threads run; a process may take for ever.
FairSpec ==
  Spec /\ WF_vars(MainStep) /\ \A s \in Subs : WF_vars(Feed(s))

-----------------------------------------------------------------------------
(* Properties.                                                             *)

Reported(status) == status \in {"reported", "returned"}
AfterChecks ==
  pc \in {"drainSubs", "drainPubs", "drainLog", "write", "finish"}

\* main() compares the sizes of the queues with numbers of processes.  For the
\* subscribers the comparison is exact when all of them are counted: there are
\* no statistics unless every one has reported.  A publisher may report again
\* after a reconnection; as long as none has, no publisher is missing either.
EverySubReported == ActiveSubs = NSubs => \A s \in Subs : Reported(sub[s])
EveryPubReported ==
  ActivePubs = NPubs /\ (\A p \in Pubs : rounds[p] <= 1)
    => \A p \in Pubs : Reported(pub[p])
EveryClientReported == AfterChecks => EverySubReported /\ EveryPubReported

\* LOG_QUEUE.empty() is no evidence that nothing more will come, but when all
\* joins of subscribers returned in time the csv file holds every row put.
CompleteLog ==
  csv # -1 /\ joined => csv = SumFunction(rows)

\* The container keeps the promise of Container towards local_subscriber: with
\* all joins in time its csv file has every row and gets no other, and when
\* the line is printed no subscriber is alive.  What breaks this is no phase.
Complete == csv = SumFunction(rows)
phase ==
  CASE pc = "exited" -> "exited"
    [] pc # "exited" /\ csv = -1 /\ ~finished /\ joined -> "running"
    [] pc # "exited" /\ csv = -1 /\ ~finished /\ ~joined -> "late"
    [] csv # -1 /\ ~finished /\ joined /\ Complete -> "written"
    [] csv # -1 /\ ~finished /\ ~joined -> "partial"
    [] csv # -1 /\ finished /\ AllSubsDead /\ joined /\ Complete -> "finished"
    [] csv # -1 /\ finished /\ AllSubsDead /\ ~joined -> "finishedPartial"
    [] OTHER -> "broken"
AbstractContainer == INSTANCE Container
ImplementsContainer == AbstractContainer!Spec

\* Whatever the processes do, main reaches its last loop or an exception: all
\* its waits are bounded.
MainEnds == <>(pc \in {"finish", "error", "timedOut"})

\* After ContainersQueueError nobody takes rows out of LOG_QUEUE any more, and
\* the interpreter joins its children.  If they have all returned or raised and
\* it still does not exit, then rows are waiting for a pipe that is full.
ClientsOver ==
  /\ \A s \in Subs : sub[s] \in {"returned", "raised"}
  /\ \A p \in Pubs : pub[p] \in {"returned", "raised"}
HangsOnFullPipe ==
  <>[](pc = "error" /\ ClientsOver) => <>[](InPipe = PipeSize)
=============================================================================
