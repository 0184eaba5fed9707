----------------------------- MODULE PubClient ------------------------------
(***************************************************************************)
(* One publisher process of clients/container_python.py (class Pub).       *)
(*                                                                         *)
(* Pub.run connects, starts paho's network thread and polls end_time once  *)
(* a second.  All the publishing is done by the network thread inside      *)
(* on_connect, which paho calls again after every reconnection.            *)
(*                                                                         *)
(* paho is external.  What publish is given inside a callback is queued    *)
(* and leaves the client after the callback has returned; a reconnection   *)
(* drops the queue at QoS 0 and sends it again at QoS 1 and 2; loop_stop   *)
(* makes the thread leave once the queue is empty and keeps it from        *)
(* reconnecting; an exception out of a callback ends the thread.           *)
(***************************************************************************)
EXTENDS Integers

CONSTANTS
  MaxCount,    \* --pub-count: messages the publisher is to publish
  NTopics,     \* number of topics (1 for a single topic)
  QoS,         \* quality of service of its messages
  MaxLosses    \* bound: how often the connection is lost

ASSUME PubAssumption ==
  /\ MaxCount \in Nat \ {0}
  /\ NTopics \in Nat \ {0}
  /\ QoS \in {0, 1, 2}
  /\ MaxLosses \in Nat

VARIABLES
  main,        \* where Pub.run is
  net,         \* where the network thread is
  i,           \* on_connect: loop variable, messages of the batches before
  topic,       \* on_connect: next topic of the current batch
  count,       \* messages published to each topic on this connection
  queued,      \* messages published and not delivered yet
  delivered,   \* messages that reached the broker (acknowledged if QoS > 0)
  startTime,   \* is start_time set?
  late,        \* have more than `timeout' seconds passed since start_time?
  endTime,     \* is end_time set?
  stopFlag,    \* paho's _thread_terminate
  results,     \* durations put into PUB_QUEUE
  losses       \* connections lost so far

vars == <<main, net, i, topic, count, queued, delivered, startTime, late,
          endTime, stopFlag, results, losses>>

Topics == 1..NTopics

TypeOK ==
  /\ main \in {"connect", "wait", "join", "returned", "raised"}
  /\ net \in {"none", "connack", "publishing", "loop", "down", "stopped", "dead"}
  /\ i \in Nat
  /\ topic \in Topics
  /\ count \in [Topics -> Nat]
  /\ queued \in Nat
  /\ delivered \in Nat
  /\ startTime \in BOOLEAN
  /\ late \in BOOLEAN
  /\ endTime \in BOOLEAN
  /\ stopFlag \in BOOLEAN
  /\ results \in Nat
  /\ losses \in 0..MaxLosses

Init ==
  /\ main = "connect" /\ net = "none"
  /\ i = 0 /\ topic = 1 /\ count = [t \in Topics |-> 0]
  /\ queued = 0 /\ delivered = 0
  /\ startTime = FALSE /\ late = FALSE /\ endTime = FALSE
  /\ stopFlag = FALSE /\ results = 0 /\ losses = 0

Ended == main \in {"returned", "raised"}

-----------------------------------------------------------------------------
(* The main thread: Pub.run.                                               *)

\* connect and loop_start, or connect raises.
Connect ==
  /\ main = "connect"
  /\ \/ main' = "wait" /\ net' = "connack"
     \/ main' = "raised" /\ UNCHANGED net
  /\ UNCHANGED <<i, topic, count, queued, delivered, startTime, late, endTime,
                 stopFlag, results, losses>>

\* Mutant of StopLoop: the loop is left without a look at end_time.
StopLoopAtOnce ==
  /\ main = "wait"
  /\ stopFlag' = TRUE
  /\ main' = "join"
  /\ UNCHANGED <<net, i, topic, count, queued, delivered, startTime, late,
                 endTime, results, losses>>

\* end_time is set: loop_stop sets the flag and joins the network thread.
StopLoop ==
  /\ main = "wait" /\ endTime
  /\ stopFlag' = TRUE
  /\ main' = "join"
  /\ UNCHANGED <<net, i, topic, count, queued, delivered, startTime, late,
                 endTime, results, losses>>

\* end_time is not set: the next turn of the loop, for ever if need be.
Poll == main = "wait" /\ ~endTime /\ UNCHANGED vars

Join ==
  /\ main = "join" /\ net \in {"stopped", "dead"}
  /\ main' = "returned"
  /\ UNCHANGED <<net, i, topic, count, queued, delivered, startTime, late,
                 endTime, stopFlag, results, losses>>

MainStep == Connect \/ StopLoop \/ Join

-----------------------------------------------------------------------------
(* The network thread.                                                     *)

\* on_connect starts over: start_time is now, whatever rc is, and with rc = 0
\* the loop over the batches begins.
OnConnect ==
  /\ ~Ended /\ net = "connack"
  /\ startTime' = TRUE /\ late' = FALSE
  /\ \/ /\ net' = "publishing"
        /\ i' = 0 /\ topic' = 1 /\ count' = [t \in Topics |-> 0]
     \/ /\ net' = "down"
        /\ UNCHANGED <<i, topic, count>>
  /\ UNCHANGED <<main, queued, delivered, endTime, stopFlag, results, losses>>

\* Mutant of BatchSize: the last batch is published in full.
FullBatch(first) == NTopics

\* _items_to_print: a whole batch, or what is left to reach max_count.
BatchSize(first) ==
  IF MaxCount - first > NTopics THEN NTopics ELSE MaxCount - first

\* publish_msg queues one message, then raises if the timeout has passed.
PublishMsg ==
  /\ ~Ended /\ net = "publishing" /\ i < MaxCount
  /\ count' = [count EXCEPT ![topic] = @ + 1]
  /\ queued' = queued + 1
  /\ net' = IF late THEN "dead" ELSE net
  /\ IF topic < BatchSize(i)
       THEN topic' = topic + 1 /\ UNCHANGED i
       ELSE topic' = 1 /\ i' = i + NTopics
  /\ UNCHANGED <<main, delivered, startTime, late, endTime, stopFlag, results,
                 losses>>

\* Mutant of ReportDuration: end_time is not set.
ReportDurationOnly ==
  /\ ~Ended /\ net = "publishing" /\ i >= MaxCount
  /\ results' = results + 1
  /\ net' = "loop"
  /\ UNCHANGED <<main, i, topic, count, queued, delivered, startTime, late,
                 endTime, stopFlag, losses>>

\* The loop is over: end_time is set and the duration put into PUB_QUEUE.
ReportDuration ==
  /\ ~Ended /\ net = "publishing" /\ i >= MaxCount
  /\ endTime' = TRUE
  /\ results' = results + 1
  /\ net' = "loop"
  /\ UNCHANGED <<main, i, topic, count, queued, delivered, startTime, late,
                 stopFlag, losses>>

InQueue == queued > 0

\* A queued message is written, and acknowledged if its QoS asks for it.
Deliver ==
  /\ ~Ended /\ net = "loop" /\ InQueue
  /\ queued' = queued - 1
  /\ delivered' = delivered + 1
  /\ UNCHANGED <<main, net, i, topic, count, startTime, late, endTime,
                 stopFlag, results, losses>>

\* The connection is lost; Pub has no on_disconnect.
LoseConnection ==
  /\ ~Ended /\ net = "loop" /\ losses < MaxLosses
  /\ net' = "down"
  /\ losses' = losses + 1
  /\ queued' = IF QoS = 0 THEN 0 ELSE queued
  /\ UNCHANGED <<main, i, topic, count, delivered, startTime, late, endTime,
                 stopFlag, results>>

\* loop_forever reconnects unless it has been told to stop.
Reconnect ==
  /\ ~Ended /\ net = "down"
  /\ net' = IF stopFlag THEN "stopped" ELSE "connack"
  /\ UNCHANGED <<main, i, topic, count, queued, delivered, startTime, late,
                 endTime, stopFlag, results, losses>>

\* Mutant of MayLeave: the thread leaves as soon as the flag is set.
MayLeaveAtOnce == stopFlag

\* The test at the end of a pass of paho's loop.
MayLeave == stopFlag /\ ~InQueue

LeaveLoop ==
  /\ ~Ended /\ net = "loop" /\ MayLeave
  /\ net' = "stopped"
  /\ UNCHANGED <<main, i, topic, count, queued, delivered, startTime, late,
                 endTime, stopFlag, results, losses>>

NetStep ==
  OnConnect \/ PublishMsg \/ ReportDuration \/ Deliver \/ Reconnect \/ LeaveLoop

-----------------------------------------------------------------------------
\* The clock passes start_time + timeout.
Tick ==
  /\ ~Ended /\ startTime /\ ~late
  /\ late' = TRUE
  /\ UNCHANGED <<main, net, i, topic, count, queued, delivered, startTime,
                 endTime, stopFlag, results, losses>>

Over == Ended /\ UNCHANGED vars

Next == MainStep \/ Poll \/ NetStep \/ LoseConnection \/ Tick \/ Over

Spec == Init /\ [][Next]_vars

\* Both threads are scheduled, the broker reads what it is sent, time passes.
FairSpec == Spec /\ WF_vars(MainStep) /\ WF_vars(NetStep) /\ WF_vars(Tick)

-----------------------------------------------------------------------------
(* Properties.                                                             *)

\* on_connect spreads max_count messages over the topics in turn: when it
\* reports, topic t got its share of max_count, the first topics one more.
EvenShare ==
  net = "loop" =>
    \A t \in Topics : count[t] = (MaxCount - t + NTopics) \div NTopics

\* A publisher that never lost its connection has delivered exactly max_count
\* messages when its process returns: loop_stop does not cut the queue off.
CleanExitDelivers == main = "returned" /\ losses = 0 => delivered = MaxCount

\* PUB_QUEUE holds a duration only after a complete round of publishing, and
\* not more durations than there were connections.
ResultsAreRounds == results <= losses + 1 /\ (endTime <=> results > 0)

\* As long as its connection is not lost the process keeps the promise of
\* Worker: one duration before it returns, none when it raises.
status ==
  CASE main \in {"returned", "raised"} -> main
    [] results > 0 /\ ~Ended -> "reported"
    [] OTHER -> "running"
AbstractWorker == INSTANCE Worker WITH durations <- results
WorkerUntilLoss ==
  /\ AbstractWorker!Init
  /\ [][losses' = 0 =>
          AbstractWorker!Next \/ UNCHANGED <<status, results>>]_vars

\* A publisher that has reported a duration ends.
EndsOnceReported == results > 0 ~> main = "returned"

\* "pub_times is the overall publish time for each of the clients": a client
\* contributes one duration.
OneDurationPerClient == results <= 1

\* --pub-timeout: "The amount of time, in seconds, a publisher client will
\* wait to successfully publish it's messages."
TimeoutEndsClient == late ~> Ended
=============================================================================
