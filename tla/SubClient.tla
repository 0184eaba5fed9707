----------------------------- MODULE SubClient ------------------------------
(***************************************************************************)
(* One subscriber process of clients/container_python.py (class Sub).      *)
(*                                                                         *)
(* Two threads share the object: the main thread of the process executes   *)
(* Sub.run, and the network thread that paho's loop_start creates executes *)
(* the callbacks on_connect, on_disconnect and on_message.  They meet at   *)
(* the lock __end_time_lock, at start_time and end_time, and at paho's     *)
(* stop flag, which loop_stop sets.  A step is what one thread does        *)
(* between two points where the other can observe or disturb it.           *)
(*                                                                         *)
(* paho is external: only its loop is modelled, from the calls Sub makes.  *)
(* loop_stop sets the stop flag and, unless the network thread itself      *)
(* calls it, joins that thread; the thread leaves its loop after a pass    *)
(* that finds the flag set and no packet of the client left to write; an   *)
(* exception out of a callback ends the thread.                            *)
(*                                                                         *)
(* A row of the log queue is put with each message counted, so msgCount    *)
(* stands for both.                                                        *)
(***************************************************************************)
EXTENDS Naturals

CONSTANTS
  MaxCount,   \* --sub-count: messages the subscriber waits for
  QoS,        \* quality of service of its subscriptions
  Pings,      \* may the run last longer than paho's keep-alive (60 s)?
  MaxInbox    \* bound: messages the broker sends to this subscriber

\* validate_count_clients rejects a count of 0 for a positive number of clients.
ASSUME SubAssumption ==
  /\ MaxCount \in Nat \ {0}
  /\ QoS \in {0, 1, 2}
  /\ Pings \in BOOLEAN
  /\ MaxInbox \in Nat

VARIABLES
  main,       \* where Sub.run is
  net,        \* where the network thread is
  lock,       \* holder of __end_time_lock: "free", "main" or "net"
  inbox,      \* messages sent by the broker and not read yet
  msgCount,   \* messages counted by on_message
  startTime,  \* is start_time set?
  endTime,    \* is end_time set?
  stopFlag,   \* paho's _thread_terminate
  outgoing,   \* has the client a packet (acknowledgement, ping) to write?
  late,       \* have more than `timeout' seconds passed since start_time?
  results     \* durations put into SUB_QUEUE

vars == <<main, net, lock, inbox, msgCount, startTime, endTime, stopFlag,
          outgoing, late, results>>

MainStates == {"connect", "sleep", "check", "timeout", "join",
               "returned", "raised"}
NetStates == {"none", "connack", "loop", "message", "acquire", "locked",
              "stop", "test", "stopped", "dead"}

TypeOK ==
  /\ main \in MainStates
  /\ net \in NetStates
  /\ lock \in {"free", "main", "net"}
  /\ inbox \in Nat
  /\ msgCount \in Nat
  /\ startTime \in BOOLEAN
  /\ endTime \in BOOLEAN
  /\ stopFlag \in BOOLEAN
  /\ outgoing \in BOOLEAN
  /\ late \in BOOLEAN
  /\ results \in Nat

Init ==
  /\ main = "connect" /\ net = "none" /\ lock = "free"
  /\ inbox \in 0..MaxInbox
  /\ msgCount = 0
  /\ startTime = FALSE /\ endTime = FALSE
  /\ stopFlag = FALSE /\ outgoing = FALSE /\ late = FALSE
  /\ results = 0

Ended == main \in {"returned", "raised"}

-----------------------------------------------------------------------------
(* The main thread: Sub.run.                                               *)

\* client.connect succeeds and loop_start creates the network thread, or
\* connect raises and run with it.
Connect ==
  /\ main = "connect"
  /\ \/ main' = "sleep" /\ net' = "connack"
     \/ main' = "raised" /\ UNCHANGED net
  /\ UNCHANGED <<lock, inbox, msgCount, startTime, endTime, stopFlag,
                 outgoing, late, results>>

\* time.sleep(1), then __end_time_lock.acquire().
MainAcquire ==
  /\ main = "sleep" /\ lock = "free"
  /\ main' = "check" /\ lock' = "main"
  /\ UNCHANGED <<net, inbox, msgCount, startTime, endTime, stopFlag,
                 outgoing, late, results>>

\* Mutant of Report: the `break' is missing, the rest of the loop follows.
ReportAndGoOn ==
  /\ main = "check" /\ endTime
  /\ results' = results + 1
  /\ stopFlag' = TRUE
  /\ main' = "timeout" /\ lock' = "free"
  /\ UNCHANGED <<net, inbox, msgCount, startTime, endTime, outgoing, late>>

\* end_time is set: SUB_QUEUE.put(delta), and loop_stop sets the stop flag
\* and starts to join the network thread.  The lock is never released.
Report ==
  /\ main = "check" /\ endTime
  /\ results' = results + 1
  /\ stopFlag' = TRUE
  /\ main' = "join"
  /\ UNCHANGED <<net, lock, inbox, msgCount, startTime, endTime, outgoing,
                 late>>

\* The join returns; terminate_client does nothing (a child has no _popen:
\* the AttributeError is caught) and run breaks out of its loop.
Join ==
  /\ main = "join" /\ net \in {"stopped", "dead"}
  /\ main' = "returned"
  /\ UNCHANGED <<net, lock, inbox, msgCount, startTime, endTime, stopFlag,
                 outgoing, late, results>>

\* end_time is not set: the lock is released.
MainRelease ==
  /\ main = "check" /\ ~endTime
  /\ main' = "timeout" /\ lock' = "free"
  /\ UNCHANGED <<net, inbox, msgCount, startTime, endTime, stopFlag,
                 outgoing, late, results>>

\* Mutant of TimedOut: the elapsed time is compared the wrong way round.
TimedOutReversed == startTime /\ ~late

\* if self.start_time: ... if curr_delta.total_seconds() > self.timeout.
TimedOut == startTime /\ late

\* raise Exception('We hit the sub timeout!') or the next turn of the loop.
CheckTimeout ==
  /\ main = "timeout"
  /\ main' = IF TimedOut THEN "raised" ELSE "sleep"
  /\ UNCHANGED <<net, lock, inbox, msgCount, startTime, endTime, stopFlag,
                 outgoing, late, results>>

MainStep == Connect \/ MainAcquire \/ Report \/ Join \/ MainRelease \/ CheckTimeout

-----------------------------------------------------------------------------
(* The network thread: paho's loop and the callbacks.  It is a daemon and  *)
(* dies with the process.                                                  *)

\* on_connect subscribes when rc is 0.  A refused connection makes paho call
\* on_disconnect, whose terminate() raises AttributeError in this process.
OnConnect ==
  /\ ~Ended /\ net = "connack"
  /\ net' \in {"loop", "dead"}
  /\ UNCHANGED <<main, lock, inbox, msgCount, startTime, endTime, stopFlag,
                 outgoing, late, results>>

\* The connection is lost: on_disconnect raises out of the thread, so paho's
\* reconnection never runs.
OnDisconnect ==
  /\ ~Ended /\ net = "loop"
  /\ net' = "dead"
  /\ UNCHANGED <<main, lock, inbox, msgCount, startTime, endTime, stopFlag,
                 outgoing, late, results>>

Readable == net = "loop" /\ inbox > 0

\* A pass of the loop reads a message; on_message starts and sets start_time.
ReadMessage ==
  /\ ~Ended /\ Readable
  /\ inbox' = inbox - 1
  /\ startTime' = TRUE
  /\ net' = "message"
  /\ UNCHANGED <<main, lock, msgCount, endTime, stopFlag, outgoing, late,
                 results>>

\* A pass that finds no message to read writes what the client has to write.
WritePackets ==
  /\ ~Ended /\ net = "loop"
  /\ outgoing' = FALSE
  /\ net' = "test"
  /\ UNCHANGED <<main, lock, inbox, msgCount, startTime, endTime, stopFlag,
                 late, results>>

\* Mutant of Reached: off by one.
ReachedEarly(n) == n + 1 >= MaxCount

\* if self.msg_count >= self.max_count
Reached(n) == n >= MaxCount

\* paho acknowledges a message of QoS 1 or 2 when on_message has returned.
Acknowledge == outgoing' = (outgoing \/ QoS > 0)

\* parse_msg raises on a payload whose fields are not where it expects them.
ParseFails ==
  /\ ~Ended /\ net = "message"
  /\ net' = "dead"
  /\ UNCHANGED <<main, lock, inbox, msgCount, startTime, endTime, stopFlag,
                 outgoing, late, results>>

\* The row is put into LOG_QUEUE and the message counted.
CountMessage ==
  /\ ~Ended /\ net = "message"
  /\ msgCount' = msgCount + 1
  /\ IF Reached(msgCount')
       THEN net' = "acquire" /\ UNCHANGED outgoing
       ELSE net' = "test" /\ Acknowledge
  /\ UNCHANGED <<main, lock, inbox, startTime, endTime, stopFlag, late,
                 results>>

\* __end_time_lock.acquire() in on_message.
NetAcquire ==
  /\ ~Ended /\ net = "acquire" /\ lock = "free"
  /\ net' = "locked" /\ lock' = "net"
  /\ UNCHANGED <<main, inbox, msgCount, startTime, endTime, stopFlag,
                 outgoing, late, results>>

\* end_time is set if it was not, and the lock released.
SetEndTime ==
  /\ ~Ended /\ net = "locked"
  /\ endTime' = TRUE
  /\ net' = "stop" /\ lock' = "free"
  /\ UNCHANGED <<main, inbox, msgCount, startTime, stopFlag, outgoing, late,
                 results>>

\* Mutant of StopClient: the loop is left running, as before stop_client was
\* called here.
StopNothing ==
  /\ ~Ended /\ net = "stop"
  /\ Acknowledge
  /\ net' = "test"
  /\ UNCHANGED <<main, lock, inbox, msgCount, startTime, endTime, stopFlag,
                 late, results>>

\* stop_client: loop_stop, called by the network thread, only sets the flag.
StopClient ==
  /\ ~Ended /\ net = "stop"
  /\ stopFlag' = TRUE
  /\ Acknowledge
  /\ net' = "test"
  /\ UNCHANGED <<main, lock, inbox, msgCount, startTime, endTime, late,
                 results>>

\* Mutant of Leaves: the thread waits for the connection to fall silent.
LeavesWhenDrained(packets) == stopFlag /\ ~packets /\ inbox = 0

\* The test at the end of a pass of paho's loop.
Leaves(packets) == stopFlag /\ ~packets

\* The end of a pass: the keep-alive check may queue a ping, then the test.
EndOfPass ==
  /\ ~Ended /\ net = "test"
  /\ \E ping \in (IF Pings THEN BOOLEAN ELSE {FALSE}) :
       /\ outgoing' = (outgoing \/ ping)
       /\ net' = IF Leaves(outgoing') THEN "stopped" ELSE "loop"
  /\ UNCHANGED <<main, lock, inbox, msgCount, startTime, endTime, stopFlag,
                 late, results>>

NetStep ==
  \/ OnConnect \/ ReadMessage \/ WritePackets \/ ParseFails \/ CountMessage
  \/ NetAcquire \/ SetEndTime \/ StopClient \/ EndOfPass

-----------------------------------------------------------------------------
\* The clock passes start_time + timeout.
Tick ==
  /\ ~Ended /\ startTime /\ ~late
  /\ late' = TRUE
  /\ UNCHANGED <<main, net, lock, inbox, msgCount, startTime, endTime,
                 stopFlag, outgoing, results>>

\* The process is over: nothing happens any more.
Over == Ended /\ UNCHANGED vars

Next == MainStep \/ NetStep \/ OnDisconnect \/ Tick \/ Over

Spec == Init /\ [][Next]_vars

(***************************************************************************)
(* Both threads are scheduled and time passes.  The main thread sleeps for *)
(* a second between two acquisitions, so a network thread that waits for   *)
(* the lock gets it although it is free only now and then; a message the   *)
(* broker has sent is read although the loop has passes that read none.    *)
(***************************************************************************)
Fairness ==
  /\ WF_vars(MainStep)
  /\ WF_vars(NetStep)
  /\ WF_vars(Tick)
  /\ SF_vars(NetAcquire)
  /\ SF_vars(ReadMessage)

FairSpec == Spec /\ Fairness

-----------------------------------------------------------------------------
(* Properties.                                                             *)

\* A client that never has a packet of its own to write: QoS 0, short run.
Silent == QoS = 0 /\ ~Pings

\* A duration in SUB_QUEUE is the duration of a complete reception: the
\* subscriber counted max_count messages and end_time is set (Sub.run).
ResultAfterMaxCount == results > 0 => endTime /\ msgCount >= MaxCount

\* "after we have reached the max count we stop the loop to continue further"
\* (on_message): a silent client never counts a message beyond max_count.
StopsAtMaxCount == Silent => msgCount <= MaxCount

\* Sub.run joins the network thread with __end_time_lock held; the thread of
\* a silent client is then never waiting for that lock.
NeverJoinsBlockedThread == Silent => ~(main = "join" /\ net = "acquire")

\* SUB_QUEUE.qsize() counts subscribers: the process keeps the promise of
\* Worker, one duration before it returns and none when it raises.
status ==
  CASE main \in {"returned", "raised"} -> main
    [] results > 0 /\ ~Ended -> "reported"
    [] OTHER -> "running"
AbstractWorker == INSTANCE Worker WITH durations <- results
ImplementsWorker == AbstractWorker!Spec

\* A subscriber that has received its first message ends: it completes or it
\* hits its timeout, whatever the broker and the network do afterwards.
EndsOnceStarted == startTime ~> Ended

\* --sub-count: "The number of messages each subscriber client will wait to
\* receive before completing."
CompletesAfterMaxCount == msgCount >= MaxCount ~> Ended
=============================================================================
