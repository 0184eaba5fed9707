-------------------------- MODULE SubClientProofs ---------------------------
(***************************************************************************)
(* Proofs about SubClient for every MaxCount, QoS, Pings and MaxInbox.     *)
(***************************************************************************)
EXTENDS SubClient, TLAPS

\* Who is where when a thread holds __end_time_lock.
LockInv ==
  /\ lock = "main" <=> main \in {"check", "join", "returned"}
  /\ lock = "net" <=> net = "locked"
  /\ main = "connect" => net = "none"

\* What a duration in the queue and a set end_time stand for.
ResultInv ==
  /\ results = IF main \in {"join", "returned"} THEN 1 ELSE 0
  /\ results > 0 => endTime
  /\ endTime => msgCount >= MaxCount
  /\ net \in {"acquire", "locked", "stop"} => msgCount >= MaxCount

\* A silent client has nothing to write, so its network thread leaves the
\* loop in the first pass that ends with the stop flag set: no pass starts
\* after the one that counted message max_count.
SilentInv ==
  Silent =>
    /\ outgoing = FALSE
    /\ msgCount <= MaxCount
    /\ net \in {"none", "connack", "loop", "message"} => msgCount < MaxCount
    /\ net = "test" /\ msgCount >= MaxCount => stopFlag
    /\ net \in {"acquire", "locked"} => ~endTime

IInv == TypeOK /\ LockInv /\ ResultInv /\ SilentInv

LEMMA InitIInv == Init => IInv
<1> SUFFICES ASSUME Init PROVE IInv
  OBVIOUS
<1> USE SubAssumption DEF SubAssumption, Init
<1>1. TypeOK
  <2>1. inbox \in Nat
    OBVIOUS
  <2>2. QED
    BY <2>1, Zenon DEF TypeOK, MainStates, NetStates
<1>2. LockInv
  BY DEF LockInv
<1>3. ResultInv
  BY DEF ResultInv
<1>4. SilentInv
  BY DEF SilentInv
<1>5. QED
  BY <1>1, <1>2, <1>3, <1>4 DEF IInv

LEMMA NextIInv == IInv /\ [Next]_vars => IInv'
<1> SUFFICES ASSUME IInv, [Next]_vars PROVE IInv'
  OBVIOUS
<1> USE SubAssumption DEF SubAssumption, IInv, TypeOK, MainStates, NetStates, LockInv,
                          ResultInv, SilentInv, Silent, Ended
<1>1. CASE Connect
  <2>1. TypeOK'
    BY <1>1 DEF Connect
  <2>2. LockInv'
    BY <1>1 DEF Connect
  <2>3. ResultInv'
    BY <1>1 DEF Connect
  <2>4. SilentInv'
    BY <1>1 DEF Connect
  <2>5. QED
    BY <2>1, <2>2, <2>3, <2>4
<1>2. CASE MainAcquire
  BY <1>2 DEF MainAcquire
<1>3. CASE Report
  BY <1>3 DEF Report
<1>4. CASE Join
  BY <1>4 DEF Join
<1>5. CASE MainRelease
  BY <1>5 DEF MainRelease
<1>6. CASE CheckTimeout
  BY <1>6 DEF CheckTimeout, TimedOut
<1>7. CASE OnConnect
  BY <1>7 DEF OnConnect
<1>8. CASE OnDisconnect
  BY <1>8 DEF OnDisconnect
<1>9. CASE ReadMessage
  BY <1>9 DEF ReadMessage, Readable
<1>10. CASE WritePackets
  <2>1. TypeOK'
    BY <1>10 DEF WritePackets
  <2>2. LockInv'
    BY <1>10 DEF WritePackets
  <2>3. ResultInv'
    BY <1>10 DEF WritePackets
  <2>4. SilentInv'
    BY <1>10 DEF WritePackets
  <2>5. QED
    BY <2>1, <2>2, <2>3, <2>4
<1>11. CASE ParseFails
  BY <1>11 DEF ParseFails
<1>12. CASE CountMessage
  <2>1. TypeOK'
    <3>1. outgoing' \in BOOLEAN
      BY <1>12 DEF CountMessage, Acknowledge
    <3>2. QED
      BY <3>1, <1>12 DEF CountMessage
  <2>2. LockInv'
    BY <1>12 DEF CountMessage, Reached, Acknowledge
  <2>3. ResultInv'
    BY <1>12 DEF CountMessage, Reached, Acknowledge
  <2>4. SilentInv'
    BY <1>12 DEF CountMessage, Reached, Acknowledge
  <2>5. QED
    BY <2>1, <2>2, <2>3, <2>4
<1>13. CASE NetAcquire
  BY <1>13 DEF NetAcquire
<1>14. CASE SetEndTime
  BY <1>14 DEF SetEndTime
<1>15. CASE StopClient
  BY <1>15 DEF StopClient, Acknowledge
<1>16. CASE EndOfPass
  <2>1. TypeOK'
    BY <1>16 DEF EndOfPass, Leaves
  <2>2. LockInv'
    BY <1>16 DEF EndOfPass, Leaves
  <2>3. ResultInv'
    BY <1>16 DEF EndOfPass, Leaves
  <2>4. SilentInv'
    BY <1>16 DEF EndOfPass, Leaves
  <2>5. QED
    BY <2>1, <2>2, <2>3, <2>4
<1>17. CASE Tick
  BY <1>17 DEF Tick
<1>18. CASE Over \/ UNCHANGED vars
  BY <1>18 DEF Over, vars
<1>19. QED
  BY <1>1, <1>2, <1>3, <1>4, <1>5, <1>6, <1>7, <1>8, <1>9, <1>10, <1>11,
     <1>12, <1>13, <1>14, <1>15, <1>16, <1>17, <1>18
     DEF Next, MainStep, NetStep

LEMMA Inductive == Spec => []IInv
BY InitIInv, NextIInv, PTL DEF Spec

\* Every reachable state has the declared types.
THEOREM TypeCorrect == Spec => []TypeOK
<1>1. IInv => TypeOK
  BY DEF IInv
<1>2. QED
  BY Inductive, <1>1, PTL

\* A duration is in SUB_QUEUE only after max_count messages (Sub.run).
THEOREM ResultIsComplete == Spec => []ResultAfterMaxCount
<1>1. IInv => ResultAfterMaxCount
  BY DEF IInv, ResultInv, ResultAfterMaxCount
<1>2. QED
  BY Inductive, <1>1, PTL

\* A silent subscriber never counts a message beyond max_count (on_message).
THEOREM SilentStops == Spec => []StopsAtMaxCount
<1>1. IInv => StopsAtMaxCount
  BY DEF IInv, SilentInv, StopsAtMaxCount
<1>2. QED
  BY Inductive, <1>1, PTL

\* Sub.run never joins a network thread that waits for the lock run holds,
\* if the client is silent.
THEOREM SilentNeverDeadlocks == Spec => []NeverJoinsBlockedThread
<1>1. IInv => NeverJoinsBlockedThread
  BY DEF IInv, SilentInv, ResultInv, NeverJoinsBlockedThread
<1>2. QED
  BY Inductive, <1>1, PTL

-----------------------------------------------------------------------------
(* The process keeps the promise of Worker.                                *)

LEMMA InitMapped == Init => AbstractWorker!Init
BY DEF Init, status, AbstractWorker!Init, Ended

LEMMA StepMapped ==
  IInv /\ [Next]_vars => [AbstractWorker!Next]_<<status, results>>
<1> SUFFICES ASSUME IInv, [Next]_vars
             PROVE  AbstractWorker!Next \/ UNCHANGED <<status, results>>
  OBVIOUS
<1>a. main \in MainStates /\ results = IF main \in {"join", "returned"} THEN 1 ELSE 0
  BY DEF IInv, TypeOK, ResultInv
<1>b. IInv'
  BY NextIInv
<1>c. main' \in MainStates /\ results' = IF main' \in {"join", "returned"} THEN 1 ELSE 0
  BY <1>b DEF IInv, TypeOK, ResultInv
<1>d. status = CASE main = "returned" -> "returned"
                 [] main = "raised" -> "raised"
                 [] main = "join" -> "reported"
                 [] OTHER -> "running"
  BY <1>a DEF status, Ended, MainStates
<1>e. status' = CASE main' = "returned" -> "returned"
                  [] main' = "raised" -> "raised"
                  [] main' = "join" -> "reported"
                  [] OTHER -> "running"
  BY <1>c DEF status, Ended, MainStates
<1> USE DEF AbstractWorker!Next, AbstractWorker!Report,
            AbstractWorker!Return, AbstractWorker!Raise
<1>1. CASE MainStep
  <2>1. CASE Connect
    BY <2>1, <1>a, <1>c, <1>d, <1>e DEF Connect
  <2>2. CASE MainAcquire
    BY <2>2, <1>a, <1>c, <1>d, <1>e DEF MainAcquire
  <2>3. CASE Report
    BY <2>3, <1>a, <1>c, <1>d, <1>e DEF Report
  <2>4. CASE Join
    BY <2>4, <1>a, <1>c, <1>d, <1>e DEF Join
  <2>5. CASE MainRelease
    BY <2>5, <1>a, <1>c, <1>d, <1>e DEF MainRelease
  <2>6. CASE CheckTimeout
    BY <2>6, <1>a, <1>c, <1>d, <1>e DEF CheckTimeout
  <2>7. QED
    BY <1>1, <2>1, <2>2, <2>3, <2>4, <2>5, <2>6 DEF MainStep
<1>2. CASE ~MainStep
  <2>1. UNCHANGED main
    BY <1>2 DEF Next, NetStep, Over, Tick, vars, OnConnect, OnDisconnect,
                ReadMessage, WritePackets, ParseFails, CountMessage,
                NetAcquire, SetEndTime, StopClient, EndOfPass
  <2>2. QED
    BY <2>1, <1>a, <1>c, <1>d, <1>e
<1>3. QED
  BY <1>1, <1>2

\* One duration per subscriber, put before the process returns, and none when
\* it raises: the detailed process implements Worker.
THEOREM SubImplementsWorker == Spec => ImplementsWorker
<1>1. QED
  BY InitMapped, StepMapped, Inductive, PTL
     DEF Spec, ImplementsWorker, AbstractWorker!Spec

-----------------------------------------------------------------------------
\* Sub.run holds the lock and waits for the thread that waits for the lock.
Deadlocked == main = "join" /\ net = "acquire"

\* A client that is not silent may get there (sub_deadlock).  No step of
\* either thread, no loss of the connection and no timeout ever leads out, so
\* its duration is in SUB_QUEUE and its process never returns.
THEOREM DeadlockIsForever ==
  Spec => /\ [][Deadlocked => Deadlocked']_vars
          /\ [](Deadlocked => results = 1 /\ ~Ended)
<1>1. IInv /\ [Next]_vars => [Deadlocked => Deadlocked']_vars
  <2> SUFFICES ASSUME IInv, [Next]_vars, Deadlocked PROVE Deadlocked'
    OBVIOUS
  <2>1. lock = "main" /\ main = "join" /\ net = "acquire"
    BY DEF IInv, LockInv, Deadlocked
  <2>2. CASE MainStep
    BY <2>1, <2>2 DEF MainStep, Connect, MainAcquire, Report, Join, MainRelease,
                      CheckTimeout
  <2>3. CASE NetStep
    BY <2>1, <2>3 DEF NetStep, OnConnect, ReadMessage, Readable, WritePackets,
                      ParseFails, CountMessage, NetAcquire, SetEndTime, StopClient,
                      EndOfPass
  <2>4. CASE OnDisconnect \/ Tick \/ Over \/ UNCHANGED vars
    BY <2>1, <2>4 DEF OnDisconnect, Tick, Over, vars, Deadlocked
  <2> QED BY <2>2, <2>3, <2>4 DEF Next
<1>2. IInv => (Deadlocked => results = 1 /\ ~Ended)
  BY DEF IInv, ResultInv, Deadlocked, Ended
<1> QED BY Inductive, <1>1, <1>2, PTL DEF Spec
=============================================================================
