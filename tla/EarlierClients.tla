--------------------------- MODULE EarlierClients ---------------------------
(***************************************************************************)
(* The subscriber and publisher processes of the programs that came before *)
(* clients/container_python.py.  The repository keeps five of them:        *)
(*   original      Python/net_analysis.py, the imported benchmark          *)
(*   net_analysis  network_analysis/net_analysis.py                        *)
(*   post          network_analysis/net_analysis_post.py                   *)
(*   script        network_analysis/containers/home/script.py              *)
(*   timer         Python/containers/containers/clients/container_python.py*)
(* They differ in how a subscriber stops, so each program's subscriber is  *)
(* a list of the steps below, and a step that differs takes the difference *)
(* as its argument.                                                        *)
(*                                                                         *)
(* A subscriber has the same two threads as in SubClient, seen with less   *)
(* detail: what run does with end_time_lock in one turn of its loop is one *)
(* step, and so is what on_message does with it, for nobody else looks in  *)
(* between; the lock stays taken only while run is in `join'.  paho and    *)
(* multiprocessing.Queue are external (see SubClient and Harness), but the *)
(* feeder threads of LOG_QUEUE now show the lock they share for writing.   *)
(***************************************************************************)
EXTENDS Naturals, FiniteSets, Functions

CONSTANTS
  Subs, Pubs,       \* the clients a run may have
  Configurations,   \* the runs considered, each a member of Options
  SubCount,         \* --sub-count
  MaxInbox,         \* bound: messages the broker has for a subscriber
  MaxRounds,        \* bound: durations a publisher reports
  PipeSize          \* rows the pipe of LOG_QUEUE holds

Programs == {"original", "net_analysis", "post", "script", "timer"}

-----------------------------------------------------------------------------
(* What the command line and the environment decide.  A value that may be  *)
(* missing is a set, empty or with the value in it.                        *)

CommandLine(program, topics, envs) ==
  [program : {program},
   subs : SUBSET Subs, pubs : SUBSET Pubs,  \* --sub-clients, --pub-clients
   qos : 0..2,                 \* --qos, which has the default 0
   env : envs,                 \* the environment's CLIENT_QOS
   topic : topics,             \* none, a name, a list of names in one string,
                               \*   or a document with a place for each client
   msg : BOOLEAN,              \* is --msg given?
   accepted : BOOLEAN,         \* are host, numbers and document accepted?
   pings : BOOLEAN,            \* may the run outlast paho's keep-alive?
   inbox : 0..MaxInbox]        \* messages the broker has for a subscriber

NoEnvironment == {{}}
AnyQos == {{}} \cup {{q} : q \in 0..2}

OriginalOptions == CommandLine("original", {"base", "plain"}, NoEnvironment)
NetAnalysisOptions ==
  CommandLine("net_analysis", {"base", "plain"}, NoEnvironment)
PostOptions == CommandLine("post", {"base", "plain"}, AnyQos)
ScriptOptions == CommandLine("script", {"plain", "list", "document"}, AnyQos)
TimerOptions == CommandLine("timer", {"plain", "list", "document"}, AnyQos)

Options == OriginalOptions \cup NetAnalysisOptions \cup PostOptions
           \cup ScriptOptions \cup TimerOptions

ASSUME EarlierAssumption ==
  /\ Configurations \subseteq Options
  /\ IsFiniteSet(Subs) /\ IsFiniteSet(Pubs)
  /\ SubCount \in Nat \ {0}
  /\ MaxInbox \in Nat
  /\ {MaxRounds, PipeSize} \subseteq Nat \ {0}

VARIABLES
  opts,       \* the configuration of this run
  run,        \* where each subscriber's run is, or what became of it
  net,        \* where its network thread is
  inbox,      \* messages the broker has for it
  count,      \* msg_count; from post on also the rows put into LOG_QUEUE
  startTime,  \* is start_time set?
  endTime,    \* is end_time set?
  stopFlag,   \* paho's _thread_terminate
  sent,       \* rows its feeder has moved to the pipe
  results,    \* durations it has put into SUB_QUEUE
  killed,     \* subscribers killed by the timer in main's process
  writer,     \* who holds LOG_QUEUE's lock for writing: a set, at most one
  logs,       \* rows main has taken out of LOG_QUEUE
  pub,        \* status of each publisher
  rounds      \* durations it has put into PUB_QUEUE

threadVars == <<run, net, inbox, count, startTime, endTime, stopFlag,
                results>>
queueVars == <<sent, writer, logs>>
pubVars == <<pub, rounds>>
clientVars == <<threadVars, queueVars, killed, pubVars>>

\* write_to_log: a row for each message, in the programs that have a log.
Rows(s) == IF opts.program \in {"original", "net_analysis"} THEN 0 ELSE count[s]

ClientsTypeOK ==
  /\ opts \in Configurations
  /\ run \in [Subs -> {"new", "connect", "poll", "join", "returned",
                       "raised", "dead"}]
  /\ net \in [Subs -> {"none", "loop", "acquire", "stopped", "dead"}]
  /\ inbox \in [Subs -> 0..MaxInbox]
  /\ count \in [Subs -> Nat]
  /\ {startTime, endTime, stopFlag} \subseteq [Subs -> BOOLEAN]
  /\ sent \in [Subs -> Nat] /\ \A s \in Subs : sent[s] <= Rows(s)
  /\ results \in [Subs -> Nat]
  /\ killed \subseteq Subs
  /\ writer \subseteq Subs
  /\ logs \in Nat
  /\ pub \in [Pubs -> {"new", "running", "reported", "returned", "raised"}]
  /\ rounds \in [Pubs -> 0..MaxRounds]

ClientsInit ==
  /\ opts \in Configurations
  /\ run = [s \in Subs |-> "new"] /\ net = [s \in Subs |-> "none"]
  /\ inbox = [s \in Subs |-> IF s \in opts.subs THEN opts.inbox ELSE 0]
  /\ count = [s \in Subs |-> 0]
  /\ startTime = [s \in Subs |-> FALSE] /\ endTime = [s \in Subs |-> FALSE]
  /\ stopFlag = [s \in Subs |-> FALSE]
  /\ sent = [s \in Subs |-> 0] /\ results = [s \in Subs |-> 0]
  /\ killed = {} /\ writer = {} /\ logs = 0
  /\ pub = [p \in Pubs |-> "new"] /\ rounds = [p \in Pubs |-> 0]

SubAlive(s) == run[s] \notin {"new", "dead"}
PubEnded(p) == pub[p] \in {"new", "returned", "raised"}

-----------------------------------------------------------------------------
(* set_value, which decides between command line and environment.          *)

\* In post: cmd_par or env_par.  A 0 of the command line counts as none.
PostSetValue(cmd, env, default) ==
  IF cmd = {} /\ env = {} THEN {default}
  ELSE IF cmd \subseteq {0} THEN env ELSE cmd

\* From script on: the command line, if it gives a value.
ScriptSetValue(cmd, env, default) ==
  IF cmd = {} /\ env = {} THEN {default}
  ELSE IF cmd = {} THEN env ELSE cmd

\* The QoS of the clients, or none.
Qos == IF opts.program = "post" THEN PostSetValue({opts.qos}, opts.env, 0)
                                ELSE ScriptSetValue({opts.qos}, opts.env, 0)

\* Has a client packets of its own to write: acknowledgements or pings?
Writes == Qos \ {0} # {} \/ opts.pings

-----------------------------------------------------------------------------
(* The main thread of a subscriber: run.                                   *)

\* connect and loop_start, or connect raises.  The network thread is in its
\* loop until the connection stands (a refused one is tried again) and
\* on_connect has subscribed: then messages come.
Connect(s) ==
  /\ run[s] = "connect"
  /\ \/ /\ run' = [run EXCEPT ![s] = "poll"]
        /\ net' = [net EXCEPT ![s] = "loop"]
     \/ run' = [run EXCEPT ![s] = "raised"] /\ UNCHANGED net
  /\ UNCHANGED <<opts, inbox, count, startTime, endTime, stopFlag, results,
                 queueVars, killed, pubVars>>

\* A turn of the loop finds end_time set: SUB_QUEUE.put, then loop_stop sets
\* the flag and joins the network thread.  The lock stays taken.
Report(s) ==
  /\ run[s] = "poll" /\ endTime[s]
  /\ results' = [results EXCEPT ![s] = @ + 1]
  /\ stopFlag' = [stopFlag EXCEPT ![s] = TRUE]
  /\ run' = [run EXCEPT ![s] = "join"]
  /\ UNCHANGED <<opts, net, inbox, count, startTime, endTime, queueVars,
                 killed, pubVars>>

\* Time passes start_time + timeout: a turn that does not find end_time set
\* finds that out after it has released the lock.
HitTimeout(s) ==
  /\ run[s] = "poll" /\ startTime[s]
  /\ run' = [run EXCEPT ![s] = "raised"]
  /\ UNCHANGED <<opts, net, inbox, count, startTime, endTime, stopFlag,
                 results, queueVars, killed, pubVars>>

JoinThread(s) ==
  /\ run[s] = "join" /\ net[s] \in {"stopped", "dead"}
  /\ run' = [run EXCEPT ![s] = "returned"]
  /\ UNCHANGED <<opts, net, inbox, count, startTime, endTime, stopFlag,
                 results, queueVars, killed, pubVars>>

-----------------------------------------------------------------------------
(* The network thread of a subscriber, a daemon: it ends with run.         *)

NetRuns(s) == run[s] \in {"poll", "join"}

\* The connection is lost and with it messages not read yet; none of these
\* subscribers has an on_disconnect, so paho reconnects, and on_connect
\* subscribes again, unless the thread is to stop.
LoseConnection(s) ==
  /\ NetRuns(s) /\ net[s] = "loop"
  /\ inbox' \in {[inbox EXCEPT ![s] = n] : n \in 0..inbox[s]}
  /\ net' = [net EXCEPT ![s] = IF stopFlag[s] THEN "stopped" ELSE "loop"]
  /\ UNCHANGED <<opts, run, count, startTime, endTime, stopFlag, results,
                 queueVars, killed, pubVars>>

\* Where the thread may be after a pass: a client with packets of its own
\* goes on although it has been told to stop.
AfterPass(stop) ==
  IF ~stop THEN {"loop"}
  ELSE IF Writes THEN {"loop", "stopped"} ELSE {"stopped"}

\* A pass that reads nothing ends with the flag set.
LeaveLoop(s) ==
  /\ NetRuns(s) /\ net[s] = "loop" /\ stopFlag[s]
  /\ net' = [net EXCEPT ![s] = "stopped"]
  /\ UNCHANGED <<opts, run, inbox, count, startTime, endTime, stopFlag,
                 results, queueVars, killed, pubVars>>

\* A pass reads a message.
ReadMessage(s) ==
  /\ NetRuns(s) /\ net[s] = "loop" /\ inbox[s] > 0
  /\ inbox' = [inbox EXCEPT ![s] = @ - 1]
  /\ startTime' = [startTime EXCEPT ![s] = TRUE]
  /\ UNCHANGED <<opts, run, endTime, stopFlag, results, queueVars, killed,
                 pubVars>>

\* Mutant of CountMessage: max_count is taken for reached one message early.
CountMessageEarly(s) ==
  /\ ReadMessage(s)
  /\ count' = [count EXCEPT ![s] = @ + 1]
  /\ net' \in IF count'[s] + 1 >= SubCount
                THEN {[net EXCEPT ![s] = "acquire"]}
                ELSE {[net EXCEPT ![s] = n] : n \in AfterPass(stopFlag[s])}

\* on_message sets start_time and counts the message; at max_count the
\* thread wants the lock.
CountMessage(s) ==
  /\ ReadMessage(s)
  /\ count' = [count EXCEPT ![s] = @ + 1]
  /\ net' \in IF count'[s] >= SubCount
                THEN {[net EXCEPT ![s] = "acquire"]}
                ELSE {[net EXCEPT ![s] = n] : n \in AfterPass(stopFlag[s])}

\* on_message sets start_time, and parse_msg raises on a payload it does not
\* expect.
ParseFails(s) ==
  /\ ReadMessage(s)
  /\ net' = [net EXCEPT ![s] = "dead"]
  /\ UNCHANGED count

\* Mutant of AtMaxCount: nothing but end_time, whatever the program.
AtMaxCountGoOn(s, stops, terminates) ==
  /\ NetRuns(s) /\ net[s] = "acquire" /\ run[s] # "join"
  /\ endTime' = [endTime EXCEPT ![s] = TRUE]
  /\ net' \in {[net EXCEPT ![s] = n] : n \in AfterPass(stopFlag[s])}
  /\ UNCHANGED <<opts, run, inbox, count, startTime, stopFlag, results,
                 queueVars, killed, pubVars>>

\* The lock is free: end_time is set, the lock released.  Then, depending on
\* the program, loop_stop, which sets the flag, and terminate, which raises
\* AttributeError out of the thread (a child has no _popen).
AtMaxCount(s, stops, terminates) ==
  /\ NetRuns(s) /\ net[s] = "acquire" /\ run[s] # "join"
  /\ endTime' = [endTime EXCEPT ![s] = TRUE]
  /\ stopFlag' = [stopFlag EXCEPT ![s] = @ \/ stops]
  /\ net' \in {[net EXCEPT ![s] = n] : n \in IF terminates THEN {"dead"}
                                             ELSE AfterPass(stopFlag'[s])}
  /\ UNCHANGED <<opts, run, inbox, count, startTime, results, queueVars,
                 killed, pubVars>>

-----------------------------------------------------------------------------
(* The inter-message timers.                                               *)

\* on_message starts a timer in the subscriber's process, in place of the one
\* before.  It expires: loop_stop; the AttributeError of terminate is caught.
MessageTimer(s) ==
  /\ NetRuns(s) /\ startTime[s]
  /\ stopFlag' = [stopFlag EXCEPT ![s] = TRUE]
  /\ UNCHANGED <<opts, run, net, inbox, count, startTime, endTime, results,
                 queueVars, killed, pubVars>>

\* Mutant of ParentTimer: the timer belongs to the subscriber's process,
\* where terminate raises.
ParentTimerInChild(s) ==
  /\ SubAlive(s) /\ net[s] # "none"
  /\ stopFlag' = [stopFlag EXCEPT ![s] = TRUE]
  /\ UNCHANGED <<opts, run, net, inbox, count, startTime, endTime, results,
                 queueVars, killed, pubVars>>

\* The timer that __init__ started runs in main's process, which constructed
\* the object: there _popen is set, and terminate kills the subscriber,
\* whatever it is doing.  on_message cannot cancel it: fork has copied the
\* object without its thread.
ParentTimer(s) ==
  /\ SubAlive(s)
  /\ run' = [run EXCEPT ![s] = "dead"]
  /\ killed' = killed \cup {s}
  /\ UNCHANGED <<opts, net, inbox, count, startTime, endTime, stopFlag,
                 results, queueVars, pubVars>>

-----------------------------------------------------------------------------
(* LOG_QUEUE: the feeder of a process takes the lock all of them share,    *)
(* writes one row, waiting for room in the pipe, and releases the lock.    *)

InPipe == SumFunction(sent) - logs

TakeWriter(s) ==
  /\ SubAlive(s) /\ writer = {} /\ sent[s] < Rows(s)
  /\ writer' = {s}
  /\ UNCHANGED <<opts, threadVars, sent, logs, killed, pubVars>>

WriteRow(s) ==
  /\ SubAlive(s) /\ writer = {s} /\ InPipe < PipeSize
  /\ sent' = [sent EXCEPT ![s] = @ + 1]
  /\ writer' = {}
  /\ UNCHANGED <<opts, threadVars, logs, killed, pubVars>>

LogFeeder(s) == TakeWriter(s) \/ WriteRow(s)

\* Mutant of ExitSub: the process does not wait for its feeder.
ExitSubAtOnce(s) ==
  /\ run[s] \in {"returned", "raised"}
  /\ run' = [run EXCEPT ![s] = "dead"]
  /\ writer' = writer \ {s}
  /\ UNCHANGED <<opts, net, inbox, count, startTime, endTime, stopFlag,
                 results, sent, logs, killed, pubVars>>

\* run is over; the process ends when its feeder has moved every row.
ExitSub(s) ==
  /\ run[s] \in {"returned", "raised"} /\ sent[s] = Rows(s)
  /\ run' = [run EXCEPT ![s] = "dead"]
  /\ UNCHANGED <<opts, net, inbox, count, startTime, endTime, stopFlag,
                 results, queueVars, killed, pubVars>>

-----------------------------------------------------------------------------
(* The subscribers of the five programs.                                   *)

\* What every subscriber does, and what ends it.
CommonSub(s) ==
  \/ Connect(s) \/ Report(s) \/ HitTimeout(s) \/ JoinThread(s) \/ ExitSub(s)
  \/ LoseConnection(s) \/ LeaveLoop(s)

\* It subscribes to pybench/# whatever --topic says, and never stops its
\* loop by itself.
OriginalSub(s) ==
  \/ CommonSub(s)
  \/ opts.topic = "base" /\ CountMessage(s)
  \/ AtMaxCount(s, FALSE, FALSE)

NetAnalysisSub(s) ==
  CommonSub(s) \/ CountMessage(s) \/ AtMaxCount(s, FALSE, FALSE)

\* Each message is parsed and logged; the loop is stopped at max_count.
PostSub(s) ==
  \/ CommonSub(s) \/ CountMessage(s) \/ ParseFails(s)
  \/ AtMaxCount(s, TRUE, FALSE)
  \/ LogFeeder(s)

\* Mutant of ScriptSub: an empty list of topics is not taken for one.
ScriptSubPlain(s) ==
  \/ CommonSub(s) \/ CountMessage(s) \/ ParseFails(s)
  \/ AtMaxCount(s, TRUE, FALSE)
  \/ LogFeeder(s)

\* _json_str_to_list finds no names in a plain topic and returns [], which is
\* not None: the topic is replaced by it and on_connect subscribes to nothing.
\* The topics a document gives are a list already.
\* A timer that expires is only noted.
ScriptSub(s) ==
  \/ CommonSub(s)
  \/ opts.topic # "plain" /\ (CountMessage(s) \/ ParseFails(s))
  \/ AtMaxCount(s, TRUE, FALSE)
  \/ LogFeeder(s)

\* Timers in both processes, and terminate after loop_stop.
TimerSub(s) ==
  \/ CommonSub(s) \/ CountMessage(s) \/ ParseFails(s)
  \/ AtMaxCount(s, TRUE, TRUE)
  \/ LogFeeder(s)
  \/ MessageTimer(s) \/ ParentTimer(s)

SubStep(s) ==
  \/ opts.program = "original" /\ OriginalSub(s)
  \/ opts.program = "net_analysis" /\ NetAnalysisSub(s)
  \/ opts.program = "post" /\ PostSub(s)
  \/ opts.program = "script" /\ ScriptSub(s)
  \/ opts.program = "timer" /\ TimerSub(s)

-----------------------------------------------------------------------------
(* The publishers.                                                         *)

\* publish.single for each message, then PUB_QUEUE.put and the end; or a
\* refused connection or the timeout raises.
PybenchPub(p) ==
  /\ pub[p] = "running"
  /\ \/ /\ pub' = [pub EXCEPT ![p] = "returned"]
        /\ rounds' = [rounds EXCEPT ![p] = @ + 1]
     \/ pub' = [pub EXCEPT ![p] = "raised"] /\ UNCHANGED rounds
  /\ UNCHANGED <<opts, threadVars, queueVars, killed>>

\* on_connect publishes everything and reports; it does so again after a
\* reconnection (see PubClient).  A timeout or a refusal leaves run polling.
CallbackPub(p) ==
  /\ \/ /\ pub[p] \in {"running", "reported"} /\ rounds[p] < MaxRounds
        /\ pub' = [pub EXCEPT ![p] = "reported"]
        /\ rounds' = [rounds EXCEPT ![p] = @ + 1]
     \/ /\ pub[p] = "reported" /\ pub' = [pub EXCEPT ![p] = "returned"]
        /\ UNCHANGED rounds
     \/ /\ pub[p] = "running" /\ pub' = [pub EXCEPT ![p] = "raised"]
        /\ UNCHANGED rounds
  /\ UNCHANGED <<opts, threadVars, queueVars, killed>>

OriginalPub(p) == opts.program = "original" /\ PybenchPub(p)
NetAnalysisPub(p) == opts.program = "net_analysis" /\ PybenchPub(p)
PostPub(p) == opts.program = "post" /\ CallbackPub(p)
ScriptPub(p) == opts.program = "script" /\ CallbackPub(p)
TimerPub(p) == opts.program = "timer" /\ CallbackPub(p)

PubStep(p) ==
  \/ OriginalPub(p) \/ NetAnalysisPub(p) \/ PostPub(p) \/ ScriptPub(p)
  \/ TimerPub(p)
=============================================================================
