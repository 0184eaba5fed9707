# Verification of mqttbench_docker

The repository benchmarks clusters of MQTT brokers.  `multi_container.py` starts
a network of brokers on containernet.  The benchmark itself is a set of Python
scripts under `containers`: two orchestrators, started by hand, each start
docker containers, and each container runs subscriber and publisher clients
against a broker, measures them and writes a csv file with the messages
received.  Five earlier programs that did this in one process are kept beside
it.  This directory holds TLA+ modules of these programs, TLC configurations
that check them, and proofs.

Paths below are relative to `src/Python/network_analysis/containers` unless they
begin with `src`; `multi_container.py`, `net_analysis.py` and `net_analysis_post.py`
are in the directory above it.

## 1. The system

| part | state | operations | interacts by |
| --- | --- | --- | --- |
| `Sub` (clients/container_python.py 496-659) | start_time, end_time, msg_count, `__end_time_lock` | run, on_connect, on_message, on_disconnect, stop_client | two threads on one object; `SUB_QUEUE`, `LOG_QUEUE` |
| `Pub` (662-743) | start_time, end_time | run, on_connect, publish_msg | two threads on one object; `PUB_QUEUE` |
| `main()` of the container (938-1240) | process lists, queues, csv file | start, join, check, drain, write, print marker | multiprocessing queues; its output, which docker keeps |
| `Subscribers` (local_subscriber.py 747-837) | containers, container_finished, ready flag, csv files, archive | kill, create, poll, collect | docker; `docker logs`; a shared Value |
| `Publishers` (local_publisher.py 778-831) | containers | kill, create, sleep, print, kill | docker |
| `main.py` | - | start, poll the ready flag, start | the two processes |
| command lines, environment, `set_value` | dictionaries of parameters | parse, hand on, prefer | environment of the containers |
| `MultipleTopics`, `MultipleContainers`, `ContainerClients` | parsed json | validation, expansion | values handed to the above |
| earlier programs: `net_analysis.py`, `net_analysis_post.py`, `home/script.py`, `src/Python/net_analysis.py`, `src/Python/containers/containers/clients/container_python.py` | as Sub, Pub and main() | as these, with inter-message timers in the last two | threads, queues, timers in two processes |
| `multi_container.py` (network_analysis) | configuration files, containers, links | write a file, add, link, start, stop | mininet, docker, the brokers |
| HiveMQ DNS discovery extension, broker entrypoints | vendors' code | start and watch one broker | signals, DNS |
| shell scripts, small tools, charts, data | none | command lists | docker, pumba |

What is hard in it: the two threads of a client and the lock between them;
the network thread, which paho restarts nothing of when a callback raises;
reconnections, after which paho calls on_connect again; timeouts that race
completion; multiprocessing queues, whose items may still be with a feeder
thread while `empty()` says there are none and while the putting process cannot
exit; docker calls that fail half way through a list of containers; files and
containers that an earlier run left; two orchestrators that take a container for
their own when its name contains both prefixes; a flag shared across fork; timers
that live in another process than the client they stop; documents that
two programs check, each by its own copy of the rules, and that travel between
them in files whose names both orchestrators use.

What makes each part correct:

* a client reports one duration, only when it has done all its work, and then
  its process ends (`Worker` is the promise, `SubClient` and `PubClient` keep it);
* the container program computes statistics from all its clients and prints
  "finished its operation" only when the csv file is on disk and no subscriber
  is alive; the file has every row unless a subscriber had not ended when its
  join timed out, which nothing in the output tells (`Container` is the promise,
  `Harness` keeps it);
* the orchestrators find the container names they need free, collect from
  finished containers only, mix in nothing of earlier runs, remove nothing that
  is not archived, whatever the other removes meanwhile, and end;
* an accepted configuration yields the containers it asks for, on distinct
  brokers, each container starts the clients of its own section, and the numbers
  the user asked for reach them;
* the brokers of a network are told of each other, under the names they have,
  and of no other node.

Where the code falls short of this, the failing runs and the divergences listed in
section 3 say how.

## 2. Modules

`Worker` and `Container` are abstract specifications; the others are one module
per component.

* **Worker** - status and number of durations of one client process: report
  once, then return, or raise without a report.  `main()` compares
  `qsize()` with numbers of processes, which is meaningful only for such
  processes.
* **SubClient** - class Sub.  `main` is where `Sub.run` is, `net` where paho's
  network thread and the callback it executes are; `lock` is
  `__end_time_lock`.  `Report`, `Join`: lines 647-653 (the duration is put and
  loop_stop joins with the lock held); `CountMessage`, `NetAcquire`,
  `SetEndTime`, `StopClient`: on_message (586-628); `ParseFails`: parse_msg
  raising; `OnDisconnect`: terminate() raising in the child.  paho is external:
  `EndOfPass`, `Leaves`, `WritePackets` are its loop, whose thread leaves when
  the stop flag is set and nothing is left to write.  `startTime` and `endTime`
  are kept as "set or not", elapsed time as `late`.
* **PubClient** - class Pub.  `OnConnect`, `PublishMsg`, `ReportDuration` are
  on_connect and publish_msg (691-721) with the loop variable `i`, the position
  `topic` in the batch and a counter per topic; `Deliver`, `LoseConnection`,
  `Reconnect`, `LeaveLoop` are paho's loop.
* **Container** - running, csv written, marker printed, or gone.  The first
  three are there twice, for a container in which every subscriber ended in time
  (`running`, `written`, `finished`: the csv file has every row) and for one
  where that is not so (`late`, `partial`, `finishedPartial`).  The mapping
  `phase` of Harness and of EarlierProgram gives a state that breaks the promise,
  such as rows missing without a late subscriber or a marker while one is
  alive, no phase at all.
* **Harness** - main().  `pc` and `k` are the control of main, `sub` and `pub`
  the status of the processes.  `rows` put into LOG_QUEUE and `sent` to its
  pipe are counted apart, because `empty()` sees the pipe only and a process
  with rows left cannot exit.  `Exit` is not code of main: when an exception has
  left it, the interpreter joins the children first.  The processes do the steps
  of Worker, which
  SubClient is proved to refine; a publisher may report again, as PubClient
  shows it can after a lost connection.
* **Subscribers** - run() of the orchestrator and the functions it calls, over
  containers that behave as `Container` says.  `tries` and `todo` are the
  retry loop of kill_containers_with_prefix: two protected passes, and the
  unprotected one that follows whenever nr_tries is 2.  `KillFails` is any call
  of docker that raises there, and it may happen at any time and in every pass:
  `containers.list(all=True)` inspects the containers one by one and raises when
  any of them has vanished, whatever its name; stop and remove are two calls;
  remove is refused while someone else's removal is in progress, and the
  retries follow without delay.  `LosesRace` is the one failure that is certain.
  `disk` and `archive` hold whose csv file is where.
* **MainScript** - main.py with Subscribers; the flag is a pair, the shared
  Value and the one the child put in its place.
* **Publishers** - run() of the other orchestrator; its killing neither
  catches nor repeats anything, so that a container lost to the other
  orchestrator (`LosesRace`) ends it.
* **Orchestrators** - both on one docker.  `docker` and `pubDocker` are the
  containers each of them lists; what one removes disappears from the other's
  (`OtherRemoves` in the two modules).
* **MultipleContainers** - the classes MultipleContainers and ContainerClients
  as operators: `ValidConfig` with one operator per validator, `GetContainers`.
  Addresses are numbers; a way to refuse is not told from another.
* **MultipleTopics** - check_json_format of the container (`CheckJsonFormat`) and
  the loops of main() that start clients: `ClusterClients`, `DefaultClients`,
  `SingleTopicClients` are sets of clients with kind, id and topics.  The counter
  that a loop carries along is the function `PlacesUpTo` of the clusters done.
* **Parameters** - the numbers that travel: command line or section, the
  table of variables of the orchestrator (`Written`), the environment, the table
  of the container (`Read`), and `SetValue`, which prefers the container's own
  command line with its defaults.
* **Deployment** - composes the three: `Validate`, `Expand`, `FromCommandLine`, one
  `Create...` action per kind of topic, and `Main`, the program of a container,
  which reads whatever its mounted file holds at that time.
* **EarlierClients**, **EarlierProgram** - the five earlier programs.  Each
  program's subscriber is a list of shared steps (`OriginalSub` to `TimerSub`) and
  so is each main (`OriginalMain` to `TimerMain`); what run does with the lock in
  one turn is one step here, because SubClient takes it apart.  New against
  SubClient and Harness are the feeders' shared lock (`writer`), the timers
  (`MessageTimer` in the subscriber, `ParentTimer` in main's process) and the
  get() that waits for ever.
* **BrokerNetwork** - multi_container.py.  `file` is what a broker's
  configuration file lists; `ParseTemplate` and `RemoveNode` are the loop of
  start_hivemq that removes elements from the list it iterates, `CopyConf` and
  `AppendNodes` start_rabbitmq; `Fail` and `Again` interrupt the program anywhere
  and run it again over the files it left.
* **MCOrchestrators**, **MCMainScript**, **MCDeployment**, **MCEarlier**,
  **MCBrokerNetwork** - instances for TLC.
* **SubClientProofs**, **PubClientProofs**, **HarnessProofs**, **SubscribersProofs**,
  **OrchestratorsProofs**, **DeploymentProofs**, **EarlierProofs**,
  **BrokerNetworkProofs** - theorems.

In each module an operator whose comment begins with "Mutant of" is a wrong
variant of the operator that follows; replacing the one by the other must break
a property, which shows that the property depends on that line of the code.

## 3. Runs

| run | bounds | shows |
| --- | --- | --- |
| sub | MaxCount 2, up to 4 messages, QoS 0, no ping | results are complete, nothing is counted beyond max_count, no join of a blocked thread, refinement of Worker, end once a first message came |
| sub_deadlock | MaxCount 2, up to 4 messages, QoS 1 | *fails*: a subscriber that counted everything need not end |
| pub | 5 messages, 3 topics, QoS 1, 2 losses | fair shares, clean exits deliver everything, one duration per complete round, Worker until a loss, end once reported |
| pub_reconnect | 3 messages, 2 topics, QoS 0, 1 loss | *fails*: a second duration after a reconnection |
| pub_timeout | 3 messages, 2 topics, no loss | *fails*: the timeout does not end the process |
| harness | 2 subscribers, 2 publishers, 2 rows each, pipe of 3, 2 reports per publisher | statistics of all clients, complete csv, refinement of Container, bounded waits, what a hang after ContainersQueueError comes from |
| orchestrators | 2 + 2 containers, 2 more that both orchestrators remove (one with the longer prefix), 3 csv names, docker failing anywhere and any number of times | free names, finished containers only, fresh archive, no publisher left, nothing lost, both end |
| earlier | five programs, 1 or 2 subscribers, 1 publisher, 2 messages wanted and up to 3 sent, QoS 0 and 1, pipe of 1 row | one complete duration each, where a deadlock takes what, statistics, mean and csv of all, deaf subscribers never finish, Container, main ends, the timers let it finish |
| broker_network | 3 brokers, 8 ways to type the type, templates of up to 3 nodes, 2 runs interrupted anywhere | the brokers can form one cluster (except RABBITMQ in capitals), nothing foreign reaches them (except from even places of a template) |
| main_ready | 1 container | *fails*: publishers are never started |
| deployment | 2119 configurations: up to 3 containers on 3 brokers, documents of up to 2 clusters; 110 command lines | as many containers as asked, distinct brokers, agreement of the two checks, all clients started, ids, expected results, where topics meet, that numbers and timeouts arrive |
| config_shared | 2 orchestrators, 1 container each | *fails*: a container works on the other's document |

Why the bounds are enough.  Two messages give a first, which sets start_time,
and a last, which sets end_time; two more are read by passes of the loop after
the last, before and after the stop flag is set.  Five messages over three
topics give a full and a partial batch; two losses give a reconnection before
and after a report.  Two subscribers with two rows each and a pipe of three let
one process wait for its feeder while the other has ended; a second publisher
is what one that reports twice can hide.  Two containers can finish in either
order and the third csv name may be left by an earlier run; a foreign container whose
name contains `sub` but not `sub_` tells the two prefixes apart.  Three containers
let a list and a range of two share the number, a list be too long, and ranges
be empty, too short or overlapping; two clusters give a second one numbered on
from the first, and sections with places left, with none left and with too few.
Two containers that both orchestrators remove, one for each prefix, let a pass
lose one to the other orchestrator and go on with the next.  In `earlier`, three messages are one too many, two subscribers
let one feeder hold the lock another waits for when it is killed, and a pipe of
one row makes it wait there.  Three nodes in a template are the fewest of which
the loop leaves one between two it removes; two runs let an interrupted one
leave a file half written.

Fairness.  The threads of a process are scheduled (WF of MainStep and NetStep),
the clock passes the timeout (WF of Tick).  NetAcquire is strongly fair: run
sleeps one second with the lock free in each turn.  ReadMessage is strongly
fair: select reports a socket that has data.  In Harness, main and the feeder
threads run but a client may take for ever: `MainEnds` must not depend on it,
and `HangsOnFullPipe` says of a container that hangs after all its clients have
ended by themselves that the pipe of LOG_QUEUE is full.
In Orchestrators each of the two processes is fair, docker and the containers
promise nothing; BothEnd assumes, for the subscribers' process, that containers
finish.  In the earlier programs main is fair and so are the timers in its
process, clients need not be.  No liveness is claimed of Deployment and
BrokerNetwork.

The failing runs state what the repository says of itself:

* `sub_deadlock`: `--sub-count` is "the number of messages each subscriber
  client will wait to recieve before completing".  run holds the lock when it
  joins the network thread; one more message and on_message waits for it.  The
  silent clients of run `sub` escape, because their thread leaves after its
  pass; with acknowledgements to write it makes another pass.
* `pub_reconnect`: "pub_times is the overall publish time for each of the
  clients"; on_connect knows nothing of the first connection.
* `pub_timeout`: `--pub-timeout` bounds how long a client waits to publish;
  the exception is raised in a callback, ends that thread and leaves run polling.
* `config_shared`: "we have store it in a json to pass to the container"; the
  name of the file has the index only, and both orchestrators count from 0.
* `main_ready`: "once the python scripts are running, subscribers are ready";
  the child assigns a new Value to its own attribute.

Other divergences that the modelling brought up and for which no run is kept.

*In a container* (clients/container_python.py): a subscriber never times out before
its first message (655); the publish duration ends before anything is sent
(719); `delta` at 1081 and 1089 has the wrong sign, so "Timed out waiting for
threads to return" is never raised (`Raises` in Harness, the lemma
NeverRaises); a publisher that reported twice hides one that did not (1112,
the condition on `rounds` in EveryClientReported); with multiple topics the
clients of the default topic are not counted (1097, the condition `ActiveSubs =
NSubs`); a mean of 0 makes the division at 1184 fail after the csv file is
written; two clients of a container have one id (1048, SameIdOnlyAtTheSeam says
which); `append(*_all)` fails unless `all` is one topic (999, 1029), and such a
container never finishes; a cluster whose topic is a string subscribes to its
letters (995); without a topic nobody is started and ContainersQueueError ends
main.

*Between orchestrator and container*: port and QoS of an orchestrator never
reach a client, because the container's own parser has defaults for both, which
set_value prefers (771-799), against the help texts "The port to use for
connecting to the broker" (880) and "The qos level to use for the benchmark"
(928): ParametersReach leaves them out; validate_parameters (281), which would set the credentials,
has no caller; a list of topics travels as one text, in which subscribers find
the names and publishers do not, so that they never meet (TopicsMeet); any
`--msg-size` is refused; `--multiple-topics` on an orchestrator's command line
raises TypeError; csv files of one name overwrite each other (local_subscriber.py
531, the condition `DistinctCsv`); `default` or `all` with a hostname is accepted
and then fails, because hasattr is true of a property that is None (376, 388);
a listed container with a range has no hostname (197 accepts it); a prefix is
looked for anywhere in a name (674), so that each orchestrator removes containers
of the other; the publishers' process dies of the first failure this causes
(local_publisher.py 708-713), the subscribers' one of a third, and one container
can be behind all three; a container that died is polled for ever
(local_subscriber.py 805); publishers
are removed after two seconds (local_publisher.py 815-831).

*In the earlier programs*: the original one subscribes to `pybench/#` whatever
`--topic` says, and home/script.py replaces a plain topic by an empty list
(DeafNeverFinishes); net_analysis_post.py takes a QoS of 0 for none and refuses
to run without CLIENT_QOS; net_analysis.py asks for `--msg` after everything has been
published (241-246), and its publishers need `string.lowercase` (108), which
Python 3 does not have, when the subscribers run already; `get(sub_timeout)` takes
the timeout for `block` and waits for ever (262); the timer that `__init__`
starts kills a subscriber from main's process, in the middle of anything.

*In multi_container.py*: RABBITMQ typed in capitals, as the help text has it,
never clusters, because the containers are named as the type was typed and the
files say `rabbitmq` (61, the exception in OneCluster); start_hivemq removes
elements from the list it iterates over (90-92), under the comment "Remove the
existing elements": every second node of a template survives, and the brokers are
told of it (NoForeignNode does not rule these out; the template that is kept, in
`src/config`, has one node); any `-n` or `-d` arrives as a text and raises TypeError, and so does
an unknown type; after an exception there is no net.stop(), and a new run needs
`mn -c` first.

## 4. Proofs

Each proof module has an inductive invariant (`IInv`; in OrchestratorsProofs its
part `PubInv` beside that of SubscribersProofs), lemmas that the
initial states satisfy it and that every step keeps it, and theorems for all values of
the constants.  All safety properties of the passing runs are theorems, and so are
the type invariants, which no run repeats.  For the runs that find a violation there
are theorems that say what one counterexample cannot: that the bad state is
never left, when it is reached, or that nothing but the exception the run shows
leads to it.

* **SubClientProofs** - from `SubAssumption` (max_count positive, QoS 0 to 2).
  TypeCorrect, ResultIsComplete, SilentStops, SilentNeverDeadlocks,
  SubImplementsWorker.  ResultAfterMaxCount is not inductive: one needs that
  end_time set implies msg_count >= MaxCount, that the network thread past
  CountMessage has counted enough, and who holds the lock at each pc; for
  silent clients also that nothing is outgoing and that a thread which leaves
  on_message with the stop flag set does not come back.  These theorems hold
  for QoS 1 and 2 as well, except where they say silent.  DeadlockIsForever belongs to
  the run sub_deadlock: whatever else happens to a client in `Deadlocked`, it stays
  there, because Join needs a thread that has stopped and NetAcquire a lock that
  only the main thread could release.
* **PubClientProofs** - from `PubAssumption`.  TypeCorrect, RoundsReported,
  CleanExit, WorkerKept, SharesAreEven, LateMessageHangs, TimeoutIsNotSeen.  The strengthening counts the messages of the round
  from `i` and `topic` (`Published`) and says that without a loss each is
  queued or delivered; results are bounded by losses + 1 because a connection
  that has not reported has at most `losses` earlier reports.  `ShareInv` is the
  invariant of the batches: `i` is a multiple of the number of topics, and the
  topics before `topic` have one message more than the others; by `Quotient`, which
  recognises a quotient by the two multiples its dividend lies between, the counters
  at the end of a round are the shares.  LateMessageHangs and
  TimeoutIsNotSeen belong to the run pub_timeout: without a lost connection, a
  network thread that its timeout has killed leaves `Stuck` behind, and nothing leads
  out of `Stuck`.
* **SubscribersProofs** - from `SubscribersAssumption`.  TypeCorrect,
  NamesAreFree, CollectsOnlyFinished, ArchiveIsFresh, NothingLost,
  ArchiveOfEveryName, ArchiveIsComplete.  NamesFree
  needs that during each killing pass docker holds only what the pass has still
  to visit, and that a failing pass takes a new listing.  `FileInv` follows
  the csv files into the archive: each is under its name in the directory, and every
  name that was extracted to is taken.  ArchiveOfEveryName does without
  DistinctCsv and says how much is lost when names collide: all but one file per
  name.
* **HarnessProofs** - from `HarnessAssumption`.  TypeCorrect, EveryoneReported,
  LogIsComplete, HarnessImplementsContainer.  The sizes of the queues and the
  rows are sums over the processes, written with SumFunction, so that a step
  of one process changes the sum by what it changes there.  The invariant says
  that SUB_QUEUE counts the reported subscribers and PUB_QUEUE the rounds, which
  makes the comparison of sizes say that nobody is missing; that clients before
  `k` in a loop of joins that all returned in time are dead; and that the log
  taken is all that was sent once `empty()` was seen after such joins.  For
  HarnessImplementsContainer `DeadInv` is added, that no subscriber is alive when
  the line has been printed: one that is dead when main is in its last loop stays
  dead (DeadStaysDead).  With it no reachable state is without a phase, and each
  step of main or of a client is one of Container or leaves the phase alone.
* **OrchestratorsProofs** - from `OrchestratorsAssumption` and
  `SubscribersAssumption`.  SubscribersAsAlone: a step of the publishers' process is, for
  the other, a stutter or `OtherRemoves`, so that all theorems of
  SubscribersProofs hold beside it; PublishersAsAlone is the same the other way round.
  SubscribersUnderMain puts that process under main.py, and PublishersNeverStart
  settles what the run main_ready shows: by `FlagInv` the flag in shared memory is
  never set, so that the publishers are not merely late.  NamesAlwaysFree and NoPublisherLeft follow from
  `PubInv`: in a killing pass docker holds only what is still to visit.  That the
  subscribers' process survives the other's removals is not claimed.
* **DeploymentProofs** - from `DeploymentAssumption`, which types the json
  values, and `CommandLineAssumption`.  TypeCorrect, AsManyAsAsked,
  OneContainerPerBroker, AcceptedTwice, NamesMeetListsDoNot, NumbersReachClients,
  ClientsAllStarted, OnlyTheSeamRepeats, NoResultTooMany, OwnDocumentUnlessTwo,
  NoneRefusedUnlessTwo.
  GetContainersSeq and
  GetContainersDistinct are the facts about ValidConfig and GetContainers: the
  range of an accepted configuration has as many addresses as the list leaves,
  which needs that the list is not longer than the number, and none of the list.
  The invariant says that containers follow the sections in order (`IInv`) and that
  each is made of its section's arguments, and has run on them (`AllRight`).
  ReadsBack, that no two numbers share a variable of the environment, carries the
  theorems about what reaches the clients; GetContainersValid, that whatever ends
  in a container has been checked, the one about documents.
  The three theorems about clients count them by their ids (`CountByIds`): the
  clients of the first clusters have the ids from 1 to `PlacesUpTo`, those of one more
  cluster the next ones, so that none is counted twice.  `PlacesUpTo` is a recursive
  function, which for a prover is only a choice among the functions that satisfy
  its equation; `PartialSums` shows that there is one, by induction on the
  clusters.  The induction is over a set of numbers (`SetInduction`), whose least
  missing element comes from the library's WFMin.  They need
  `DocTyped`, that clusters have natural numbers of clients, in the assumption.
  NoResultTooMany is also why HarnessAssumption may bound the numbers main waits
  for by the clients it starts.  `FilesOwn` is the invariant of OwnDocumentUnlessTwo:
  with one orchestrator that has a configuration (`OneConfigured`) each file is
  what its section says, from its creation on; two of them are the run
  config_shared.
* **EarlierProofs** - from `EarlierAssumption` and `PubCountAssumption`.  TypeCorrect,
  ReportsOnceComplete, DeadlockIsNarrow, StatisticsAreOfAll, MeanIsOverAll,
  CsvHasEveryRow, DeafStaysDeaf, RefinesContainer, for all five programs at once: the lemmas are about
  the shared steps, so that a program's case only cites those it is made of.
  SizesMeanEveryone is the counting argument: no subscriber puts a second
  duration, so as many durations as subscribers are one of each.  `LogInv` carries
  the csv file: a subscriber that ended by itself has moved all its rows to the pipe,
  the pipe holds the sum of those less what main took, and nobody is left to
  write after joins that all returned in time.  RefinesContainer combines it with
  `LineInv`, that nobody is alive once the line is printed, and OnlyTheLiving, that
  a subscriber which is not alive takes no step and cannot be killed either.
* **BrokerNetworkProofs** - from `BrokerNetworkAssumption`.  TypeCorrect, OneClusterForms,
  NoForeignNodes.  `LoopInv` describes the list halfway through the loop that
  removes from it: before the place `at` the even elements of the template, from
  there on the untouched rest; so NoForeignNodes can say that a foreign node was
  at an even place.  `Written` says what a finished file lists, and
  the invariant that all brokers before `cnt` have one, whatever an interrupted
  run left.

Only model-checked: liveness (EndsOnceStarted, EndsOnceReported, MainEnds of both
programs, HangsOnFullPipe, BothEnd, TimersFinish), which no installed prover reaches, and that the
violated properties of the five failing runs are violated, which takes a behaviour
and not a proof.

## 5. Not modelled, and what is next

Not modelled:

* the HiveMQ DNS discovery extension and the entrypoints of the EMQ, VerneMQ, RabbitMQ
  and HiveMQ images: vendors' code that is kept in the repository, which no
  program of it calls and which starts or watches one broker;
* copies: `src/Python/containers` has the same `net_analysis*.py`, `multi_container.py`
  and orchestrators again, `local_*_back*.py` are earlier states of the orchestrators,
  and `src/python_docker/py_mqtt_clients.py` is nearly `net_analysis.py` (other
  help texts and message contents); the modules follow the files that are in use;
* MultipleTopics and the messages' validation as home/script.py has them: the
  documents of EarlierClients have a place for every client;
* the shell scripts, which are lists of docker and pumba commands, the one-shot tools,
  Dockerfiles, charts, logs and data;
* payload contents and sizes (create_msg), formatting, and the arithmetic of the
  statistics, which change no state.

Configurations with negative counts, empty hostnames or json values of other
types than the validators name are not enumerated.  That publishers may have
published little when they are removed after two seconds has no property: the
code promises nothing about it.

Next: the copy of MultipleTopics in home/script.py.
