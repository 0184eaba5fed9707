-------------------------- MODULE PubClientProofs ---------------------------
(***************************************************************************)
(* Proofs about PubClient for every MaxCount, NTopics, QoS and MaxLosses.  *)
(***************************************************************************)
EXTENDS PubClient, TLAPS

\* Where the main thread may be, given what the network thread has reported.
MainInv ==
  /\ main = "connect" => net = "none"
  /\ stopFlag => endTime
  /\ main \in {"join", "returned"} => stopFlag = TRUE
  /\ main = "returned" => net \in {"stopped", "dead"}

\* A round ends in at most one report, and a connection has one round.
RoundInv ==
  /\ endTime <=> results > 0
  /\ results <= losses + 1
  /\ net \in {"none", "connack", "publishing", "down"} => results <= losses

\* Messages published so far in the current round.
Published == IF i < MaxCount THEN i + topic - 1 ELSE MaxCount

\* As long as no connection was lost, no message is: what was published is
\* queued or delivered.
FlowInv ==
  losses = 0 =>
    /\ net \in {"none", "connack", "down"} => queued = 0 /\ delivered = 0
    /\ net = "publishing" => queued = Published /\ delivered = 0
    /\ net = "loop" => queued + delivered = MaxCount
    /\ net = "stopped" => delivered = MaxCount
    /\ net = "dead" => results = 0

BatchInv ==
  net = "publishing" =>
    IF i < MaxCount THEN topic <= BatchSize(i) ELSE topic = 1

IInv == TypeOK /\ MainInv /\ RoundInv /\ FlowInv /\ BatchInv

LEMMA BatchSizeBounds ==
  ASSUME NEW f \in Nat, f < MaxCount
  PROVE  BatchSize(f) \in 1..NTopics /\ BatchSize(f) <= MaxCount - f
BY PubAssumption DEF PubAssumption, BatchSize

LEMMA InitIInv == Init => IInv
<1> SUFFICES ASSUME Init PROVE IInv
  OBVIOUS
<1> USE PubAssumption DEF PubAssumption, Init
<1>1. TypeOK
  <2>1. topic \in Topics /\ losses \in 0..MaxLosses
    BY DEF Topics
  <2>2. QED
    BY <2>1, Zenon DEF TypeOK
<1>2. MainInv /\ RoundInv /\ FlowInv /\ BatchInv
  BY DEF MainInv, RoundInv, FlowInv, BatchInv
<1>3. QED
  BY <1>1, <1>2 DEF IInv

LEMMA NextIInv == IInv /\ [Next]_vars => IInv'
<1> SUFFICES ASSUME IInv, [Next]_vars PROVE IInv'
  OBVIOUS
<1> USE PubAssumption DEF PubAssumption, IInv, TypeOK, MainInv, RoundInv,
                          FlowInv, BatchInv, Topics, Published, Ended
<1>1. CASE Connect
  <2>1. TypeOK' /\ MainInv' /\ BatchInv'
    BY <1>1 DEF Connect
  <2>2. RoundInv' /\ FlowInv'
    BY <1>1 DEF Connect
  <2>3. QED
    BY <2>1, <2>2
<1>2. CASE StopLoop
  BY <1>2 DEF StopLoop
<1>3. CASE Join
  BY <1>3 DEF Join
<1>4. CASE OnConnect
  <2>1. TypeOK'
    <3>1. topic' \in Topics /\ i' \in Nat /\ count' \in [Topics -> Nat]
      BY <1>4 DEF OnConnect
    <3>2. QED
      BY <3>1, <1>4 DEF OnConnect
  <2>2. MainInv' /\ RoundInv'
    BY <1>4 DEF OnConnect
  <2>3. FlowInv'
    BY <1>4 DEF OnConnect
  <2>4. BatchInv'
    BY <1>4, 0 \in Nat, 0 < MaxCount, BatchSizeBounds DEF OnConnect
  <2>5. QED
    BY <2>1, <2>2, <2>3, <2>4
<1>5. CASE PublishMsg
  <2>0. BatchSize(i) \in 1..NTopics /\ BatchSize(i) <= MaxCount - i
    BY <1>5, BatchSizeBounds DEF PublishMsg
  <2>1. TypeOK'
    BY <1>5, <2>0 DEF PublishMsg
  <2>2. MainInv' /\ RoundInv'
    BY <1>5 DEF PublishMsg
  <2>3. BatchInv'
    BY <1>5, <2>0, BatchSizeBounds DEF PublishMsg
  <2>4. FlowInv'
    <3>1. queued' = queued + 1 /\ losses' = losses /\ delivered' = delivered
          /\ results' = results /\ net' \in {"publishing", "dead"}
      BY <1>5 DEF PublishMsg
    <3>2. Published' = Published + 1
      <4>1. CASE topic < BatchSize(i)
        BY <1>5, <4>1 DEF PublishMsg
      <4>2. CASE ~(topic < BatchSize(i))
        <5>1. topic = BatchSize(i) /\ i' = i + NTopics /\ topic' = 1 /\ i < MaxCount
          BY <1>5, <2>0, <4>2 DEF PublishMsg
        <5>2. QED
          BY <5>1 DEF BatchSize
      <4>3. QED
        BY <4>1, <4>2
    <3>3. QED
      BY <1>5, <3>1, <3>2 DEF PublishMsg
  <2>5. QED
    BY <2>1, <2>2, <2>3, <2>4
<1>6. CASE ReportDuration
  BY <1>6 DEF ReportDuration
<1>7. CASE Deliver
  BY <1>7 DEF Deliver, InQueue
<1>8. CASE LoseConnection
  BY <1>8 DEF LoseConnection
<1>9. CASE Reconnect
  BY <1>9 DEF Reconnect
<1>10. CASE LeaveLoop
  BY <1>10 DEF LeaveLoop, MayLeave, InQueue
<1>11. CASE Tick
  BY <1>11 DEF Tick
<1>12. CASE Poll \/ Over \/ UNCHANGED vars
  <2>1. UNCHANGED vars
    BY <1>12 DEF Poll, Over
  <2>2. TypeOK' /\ MainInv' /\ RoundInv'
    BY <2>1 DEF vars
  <2>3. FlowInv' /\ BatchInv'
    BY <2>1 DEF vars, BatchSize
  <2>4. QED
    BY <2>2, <2>3
<1>13. QED
  BY <1>1, <1>2, <1>3, <1>4, <1>5, <1>6, <1>7, <1>8, <1>9, <1>10, <1>11,
     <1>12 DEF Next, MainStep, NetStep

LEMMA Inductive == Spec => []IInv
BY InitIInv, NextIInv, PTL DEF Spec

\* Every reachable state has the declared types.
THEOREM TypeCorrect == Spec => []TypeOK
<1>1. IInv => TypeOK
  BY DEF IInv
<1>2. QED
  BY Inductive, <1>1, PTL

\* A publisher puts at most one duration per connection, and end_time is set
\* exactly when it has put one (Pub.on_connect).
THEOREM RoundsReported == Spec => []ResultsAreRounds
<1>1. IInv => ResultsAreRounds
  BY DEF IInv, RoundInv, ResultsAreRounds
<1>2. QED
  BY Inductive, <1>1, PTL

\* Without a lost connection a publisher that returns has delivered exactly
\* max_count messages, whatever the number of topics they are spread over.
THEOREM CleanExit == Spec => []CleanExitDelivers
<1>1. IInv => CleanExitDelivers
  BY DEF IInv, MainInv, RoundInv, FlowInv, CleanExitDelivers, TypeOK
<1>2. QED
  BY Inductive, <1>1, PTL

-----------------------------------------------------------------------------
(* The shares of the topics.  A batch counts once for each of its topics,   *)
(* and i \div NTopics batches are complete.                                 *)

Share(t) == (MaxCount - t + NTopics) \div NTopics

ShareInv ==
  /\ net = "publishing" =>
       /\ i = NTopics * (i \div NTopics)
       /\ \A t \in Topics :
            count[t] = IF i >= MaxCount THEN Share(t)
                       ELSE IF t < topic THEN (i \div NTopics) + 1 ELSE i \div NTopics
  /\ net = "loop" => \A t \in Topics : count[t] = Share(t)

\* A quotient is the number with the dividend between its multiple and the next.
LEMMA Quotient ==
  ASSUME NEW n \in Nat \ {0}, NEW x \in Int, NEW q \in Int, n * q <= x, x < n * q + n
  PROVE  x \div n = q
OBVIOUS

\* After one more batch the shares are complete, or the next batch begins.
LEMMA BatchPublished ==
  ASSUME NEW first \in Nat, first < MaxCount, first = NTopics * (first \div NTopics)
  PROVE  LET b == first \div NTopics
             next == first + NTopics IN
         /\ b \in Nat /\ next \div NTopics = b + 1 /\ next = NTopics * (next \div NTopics)
         /\ next < MaxCount => BatchSize(first) = NTopics
         /\ next >= MaxCount =>
              \A t \in Topics : Share(t) = IF t <= BatchSize(first) THEN b + 1 ELSE b
<1> USE PubAssumption DEF PubAssumption
<1> DEFINE b == first \div NTopics
           next == first + NTopics
<1>1. b \in Nat /\ first = NTopics * b
  OBVIOUS
<1> HIDE DEF b
<1>2. NTopics * (b + 1) = first + NTopics /\ NTopics * (b + 2) = first + NTopics + NTopics
  BY <1>1
<1>3. next \div NTopics = b + 1
  BY <1>1, <1>2, Quotient
<1>4. next < MaxCount => BatchSize(first) = NTopics
  BY DEF BatchSize
<1>5. ASSUME next >= MaxCount, NEW t \in Topics
      PROVE  Share(t) = IF t <= BatchSize(first) THEN b + 1 ELSE b
  <2>1. /\ t \in 1..NTopics /\ MaxCount - t + NTopics \in Int
        /\ BatchSize(first) = MaxCount - first
    BY <1>5 DEF Topics, BatchSize
  <2>2. CASE t <= MaxCount - first
    <3>1. /\ NTopics * (b + 1) <= MaxCount - t + NTopics
          /\ MaxCount - t + NTopics < NTopics * (b + 1) + NTopics
      BY <1>1, <1>2, <1>5, <2>1, <2>2
    <3>2. Share(t) = b + 1
      BY <1>1, <2>1, <3>1, Quotient, NTopics \in Nat \ {0}, b + 1 \in Int DEF Share
    <3> QED BY <2>1, <2>2, <3>2
  <2>3. CASE ~(t <= MaxCount - first)
    <3>1. /\ NTopics * b <= MaxCount - t + NTopics
          /\ MaxCount - t + NTopics < NTopics * b + NTopics
      BY <1>1, <1>5, <2>1, <2>3
    <3>2. Share(t) = b
      BY <1>1, <2>1, <3>1, Quotient, NTopics \in Nat \ {0}, b \in Int DEF Share
    <3> QED BY <2>1, <2>3, <3>2
  <2> QED BY <2>2, <2>3
<1> QED BY <1>1, <1>2, <1>3, <1>4, <1>5 DEF b

LEMMA NextShareInv == IInv /\ ShareInv /\ [Next]_vars => ShareInv'
<1> SUFFICES ASSUME IInv, ShareInv, [Next]_vars PROVE ShareInv'
  OBVIOUS
<1> USE PubAssumption DEF PubAssumption
<1>1. CASE OnConnect
  <2>1. net' # "loop" /\ (net' = "publishing" =>
          i' = 0 /\ topic' = 1 /\ count' = [t \in Topics |-> 0])
    BY <1>1 DEF OnConnect
  <2>2. 0 \div NTopics = 0
    BY 0 \in Int, NTopics * 0 = 0, Quotient
  <2>3. \A t \in Topics : ~(t < 1)
    BY DEF Topics
  <2> QED BY <2>1, <2>2, <2>3 DEF ShareInv
<1>2. CASE PublishMsg
  <2> DEFINE b == i \div NTopics
  <2>1. /\ i \in Nat /\ i < MaxCount /\ topic \in Topics /\ topic <= BatchSize(i)
        /\ count \in [Topics -> Nat] /\ i = NTopics * b
        /\ \A t \in Topics : count[t] = IF t < topic THEN b + 1 ELSE b
        /\ net' # "loop"
    BY <1>2 DEF PublishMsg, IInv, TypeOK, BatchInv, ShareInv
  <2>2. \A t \in Topics : count'[t] = IF t < topic + 1 THEN b + 1 ELSE b
    <3> SUFFICES ASSUME NEW t \in Topics
                 PROVE  count'[t] = IF t < topic + 1 THEN b + 1 ELSE b
      OBVIOUS
    <3>1. count'[t] = IF t = topic THEN count[t] + 1 ELSE count[t]
      BY <1>2, <2>1 DEF PublishMsg
    <3> HIDE DEF b
    <3> QED BY <2>1, <3>1 DEF Topics
  <2>3. CASE topic < BatchSize(i)
    BY <1>2, <2>1, <2>2, <2>3 DEF PublishMsg, ShareInv
  <2>4. CASE ~(topic < BatchSize(i))
    <3>1. topic = BatchSize(i) /\ topic' = 1 /\ i' = i + NTopics
      BY <1>2, <2>1, <2>4, BatchSizeBounds DEF PublishMsg, Topics
    <3>2. /\ i' \div NTopics = b + 1 /\ i' = NTopics * (i' \div NTopics)
          /\ i' < MaxCount => topic = NTopics
          /\ i' >= MaxCount => \A t \in Topics : Share(t) = IF t <= topic THEN b + 1 ELSE b
      BY <2>1, <3>1, BatchPublished
    <3>3. \A t \in Topics : (t < topic + 1 <=> t <= topic) /\ t <= NTopics /\ ~(t < 1)
      BY <2>1 DEF Topics
    <3> HIDE DEF b
    <3>4. \A t \in Topics :
            count'[t] = IF i' >= MaxCount THEN Share(t) ELSE i' \div NTopics
      BY <2>1, <2>2, <3>1, <3>2, <3>3
    <3> QED BY <2>1, <3>1, <3>2, <3>3, <3>4 DEF ShareInv, Share
  <2> QED BY <2>3, <2>4
<1>3. CASE ReportDuration
  BY <1>3 DEF ReportDuration, ShareInv, Share
<1>4. CASE UNCHANGED <<i, topic, count>> /\ (net' = net \/ net' \notin {"publishing", "loop"})
  BY <1>4 DEF ShareInv, Share
<1> QED
  BY <1>1, <1>2, <1>3, <1>4 DEF Next, MainStep, NetStep, Connect, StopLoop, Join, Poll, Deliver,
     LoseConnection, Reconnect, LeaveLoop, Tick, Over, vars

\* Every round of publishing gives each topic its share of max_count, the first
\* topics one message more, for all numbers of messages and topics
\* (Pub.on_connect).
THEOREM SharesAreEven == Spec => []EvenShare
<1>1. Init => ShareInv
  BY DEF Init, ShareInv
<1>2. ShareInv => EvenShare
  BY DEF ShareInv, EvenShare, Share
<1> QED BY <1>1, <1>2, Inductive, NextShareInv, PTL DEF Spec

-----------------------------------------------------------------------------
(* Until a connection is lost the process keeps the promise of Worker.     *)

LEMMA InitMapped == Init => AbstractWorker!Init
BY DEF Init, status, AbstractWorker!Init, Ended

LEMMA StepMapped ==
  ASSUME IInv, [Next]_vars, losses' = 0
  PROVE  AbstractWorker!Next \/ UNCHANGED <<status, results>>
<1> USE DEF AbstractWorker!Next, AbstractWorker!Report,
            AbstractWorker!Return, AbstractWorker!Raise
<1>1. CASE Connect
  <2>1. results = 0 /\ results' = 0 /\ main = "connect"
    BY <1>1 DEF Connect, IInv, MainInv, RoundInv, TypeOK
  <2>2. QED
    BY <1>1, <2>1 DEF Connect, status, Ended
<1>2. CASE StopLoop
  BY <1>2 DEF StopLoop, status, Ended
<1>3. CASE Join
  <2>1. results > 0 /\ results' = results
    BY <1>3 DEF Join, IInv, MainInv, RoundInv, TypeOK
  <2>2. QED
    BY <1>3, <2>1 DEF Join, status, Ended
<1>4. CASE ReportDuration
  <2>1. results = 0 /\ results' = 1
    BY <1>4 DEF ReportDuration, IInv, RoundInv, TypeOK
  <2>2. QED
    BY <1>4, <2>1 DEF ReportDuration, status, Ended
<1>5. CASE ~(Connect \/ StopLoop \/ Join \/ ReportDuration)
  <2>1. UNCHANGED <<main, results>>
    BY <1>5 DEF Next, MainStep, NetStep, OnConnect, PublishMsg, Deliver,
                Reconnect, LeaveLoop, LoseConnection, Tick, Poll, Over, vars
  <2>2. QED
    BY <2>1 DEF status, Ended
<1>6. QED
  BY <1>1, <1>2, <1>3, <1>4, <1>5

\* One duration per publisher, put before the process returns, and none when
\* it raises, as long as its connection is not lost.
THEOREM WorkerKept == Spec => WorkerUntilLoss
<1>1. IInv /\ [Next]_vars =>
        [losses' = 0 =>
           AbstractWorker!Next \/ UNCHANGED <<status, results>>]_vars
  BY StepMapped
<1>2. QED
  BY InitMapped, Inductive, <1>1, PTL DEF Spec, WorkerUntilLoss

-----------------------------------------------------------------------------
\* The timeout has killed the network thread; Pub.run polls end_time.
Stuck == net = "dead" /\ main = "wait" /\ ~endTime

\* connect raises before the network thread is there.
RaisedInv == main = "raised" => net = "none"

\* As long as no connection was lost, a message published after the timeout
\* leaves a stuck publisher: only its network thread, which is now dead, would
\* have set the end_time that Pub.run waits for.
THEOREM LateMessageHangs == Spec => [](net = "dead" /\ losses = 0 => Stuck)
<1>1. Init => RaisedInv
  BY DEF Init, RaisedInv
<1>2. IInv /\ RaisedInv /\ [Next]_vars => RaisedInv'
  <2> SUFFICES ASSUME IInv, RaisedInv, [Next]_vars PROVE RaisedInv'
    OBVIOUS
  <2>1. CASE MainStep
    <3>1. CASE Connect
      BY <3>1 DEF Connect, RaisedInv, IInv, MainInv
    <3>2. CASE StopLoop \/ Join
      BY <3>2 DEF StopLoop, Join, RaisedInv
    <3> QED BY <2>1, <3>1, <3>2 DEF MainStep
  <2>2. CASE NetStep \/ LoseConnection
    BY <2>2 DEF NetStep, OnConnect, PublishMsg, ReportDuration, Deliver, Reconnect,
                LeaveLoop, LoseConnection, Ended, RaisedInv
  <2>3. CASE Poll \/ Tick \/ Over \/ UNCHANGED vars
    BY <2>3 DEF Poll, Tick, Over, vars, RaisedInv
  <2> QED BY <2>1, <2>2, <2>3 DEF Next
<1>3. IInv /\ RaisedInv => (net = "dead" /\ losses = 0 => Stuck)
  BY DEF IInv, TypeOK, MainInv, RoundInv, FlowInv, RaisedInv, Stuck
<1> QED BY Inductive, <1>1, <1>2, <1>3, PTL DEF Spec

\* A publisher whose timeout was raised in its network thread (pub_timeout)
\* never returns and never reports: nothing leads out of this state.
THEOREM TimeoutIsNotSeen == Spec => [][Stuck => Stuck' /\ results' = results]_vars
<1>1. [Next]_vars => [Stuck => Stuck' /\ results' = results]_vars
  <2> SUFFICES ASSUME [Next]_vars, Stuck PROVE Stuck' /\ results' = results
    OBVIOUS
  <2> USE DEF Stuck
  <2>1. CASE MainStep
    BY <2>1 DEF MainStep, Connect, StopLoop, Join
  <2>2. CASE NetStep
    BY <2>2 DEF NetStep, OnConnect, PublishMsg, ReportDuration, Deliver, Reconnect,
                LeaveLoop
  <2>3. CASE Poll \/ LoseConnection \/ Tick \/ Over \/ UNCHANGED vars
    BY <2>3 DEF Poll, LoseConnection, Tick, Over, vars
  <2> QED BY <2>1, <2>2, <2>3 DEF Next
<1> QED BY <1>1, PTL DEF Spec
=============================================================================
