---------------------------- MODULE HarnessProofs ----------------------------
(***************************************************************************)
(* Proofs about Harness for every number of clients.  The invariant says   *)
(* what the sizes of the result queues count while nothing has been taken  *)
(* out of them (CountInv), what the comparisons have established           *)
(* (CheckedInv), and that joins which all returned in time leave nobody    *)
(* who could still put a row (JoinedInv, CsvInv).                          *)
(***************************************************************************)
EXTENDS Harness, FiniteSetTheorems, TLAPS

SubsDone == {s \in Subs : Reported(sub[s])}
PubsDone == {p \in Pubs : Reported(pub[p])}

\* The process has ended and its feeder has moved every row.
Ended(s) == sub[s] \in {"returned", "raised"} /\ sent[s] = rows[s]

\* Where main is while SUB_QUEUE and PUB_QUEUE have not been drained.
SubsUncompared == {"startSubs", "startPubs", "joinSubs", "joinPubs", "checkSubs"}
PubsUncompared == SubsUncompared \cup {"checkPubs"}

StartInv ==
  /\ \A s \in Subs : sub[s] = "new" => pc = "startSubs"
  /\ pc = "startSubs" => \A s \in Subs : s >= k <=> sub[s] = "new"
  /\ pc = "startSubs" => \A p \in Pubs : pub[p] = "new"
  /\ pc = "startPubs" => \A p \in Pubs : p >= k => pub[p] = "new"
  /\ \A p \in Pubs : rounds[p] > 0 <=> Reported(pub[p])

CountInv ==
  /\ pc \in SubsUncompared => subQueue = Cardinality(SubsDone)
  /\ pc \in PubsUncompared /\ (\A p \in Pubs : rounds[p] <= 1) =>
       pubQueue = Cardinality(PubsDone)

AfterComparing == {"checkPubs", "drainSubs", "drainPubs", "drainLog", "write", "finish"}

CheckedInv ==
  /\ pc \in AfterComparing => EverySubReported
  /\ AfterChecks => EveryPubReported

JoinedInv ==
  joined /\ pc \notin {"startSubs", "startPubs"} =>
    \A s \in Subs : (pc = "joinSubs" => s < k) => Ended(s)

CsvInv ==
  /\ pc = "write" /\ joined => logs = SumFunction(rows)
  /\ csv # -1 /\ joined => csv = SumFunction(rows)
  /\ csv # -1 <=> pc = "finish"
  /\ finished => pc = "finish"

IInv == TypeOK /\ StartInv /\ CountInv /\ CheckedInv /\ JoinedInv /\ CsvInv

LEMMA Constants ==
  /\ NSubs \in Nat /\ NPubs \in Nat /\ MaxRows \in Nat
  /\ MaxRounds \in Nat /\ PipeSize \in Nat
BY HarnessAssumption DEF HarnessAssumption

LEMMA Clients ==
  /\ IsFiniteSet(Subs) /\ Cardinality(Subs) = NSubs
  /\ IsFiniteSet(Pubs) /\ Cardinality(Pubs) = NPubs
BY Constants, FS_Interval DEF Subs, Pubs

\* Sizes of the sets of those that have reported.
LEMMA DoneSizes ==
  /\ IsFiniteSet(SubsDone) /\ Cardinality(SubsDone) <= NSubs
  /\ Cardinality(SubsDone) = NSubs => SubsDone = Subs
  /\ IsFiniteSet(PubsDone) /\ Cardinality(PubsDone) <= NPubs
  /\ Cardinality(PubsDone) = NPubs => PubsDone = Pubs
  /\ Cardinality(SubsDone) \in Nat /\ Cardinality(PubsDone) \in Nat
<1>1. SubsDone \in SUBSET Subs /\ PubsDone \in SUBSET Pubs
  BY DEF SubsDone, PubsDone
<1>2. QED
  BY <1>1, Clients, FS_Subset, FS_CardinalityType

\* Where a loop of main is over, and where main is then.
LEMMA EndLoopCases ==
  ASSUME EndLoop
  PROVE  /\ k' = 1 /\ timeouts' = 0
         /\ UNCHANGED <<logs, csv, joined, finished, queueVars, workerVars>>
         /\ \/ pc = "startSubs" /\ k > NSubs /\ pc' = "startPubs"
            \/ pc = "startPubs" /\ k > NPubs /\ pc' = "joinSubs"
            \/ pc = "joinSubs" /\ k > NSubs /\ pc' = "joinPubs"
            \/ pc = "joinPubs" /\ pc' = "checkSubs"
            \/ pc = "drainSubs" /\ pc' = "drainPubs"
            \/ pc = "drainPubs" /\ pc' = "drainLog"
BY DEF EndLoop, Loops

LEMMA InitIInv == Init => IInv
<1> SUFFICES ASSUME Init PROVE IInv
  OBVIOUS
<1> USE DEF Init
<1>1. TypeOK
  <2>1. /\ [s \in Subs |-> 0] \in [Subs -> 0..MaxRows]
        /\ [p \in Pubs |-> 0] \in [Pubs -> 0..MaxRounds]
    BY Constants
  <2>2. sent = rows /\ \A s \in Subs : sent[s] = 0
    OBVIOUS
  <2>3. sub \in [Subs -> WorkerStatuses] /\ pub \in [Pubs -> WorkerStatuses]
    BY DEF WorkerStatuses
  <2>4. pc \in {"startSubs"} /\ k \in Nat \ {0} /\ timeouts \in Nat /\ logs \in Nat /\ csv \in Nat \cup {-1}
    OBVIOUS
  <2>5. subQueue \in Nat /\ pubQueue \in Nat /\ joined \in BOOLEAN /\ finished \in BOOLEAN
    OBVIOUS
  <2>6. rounds \in [Pubs -> 0..MaxRounds] /\ rows \in [Subs -> 0..MaxRows] /\ sent \in [Subs -> 0..MaxRows]
    BY <2>1
  <2>7. \A s \in Subs : sent[s] <= rows[s]
    BY <2>2
  <2>8. QED
    BY <2>3, <2>4, <2>5, <2>6, <2>7 DEF TypeOK
<1>2. StartInv
  BY DEF StartInv, Reported, Subs, Pubs
<1>3. CountInv
  <2>1. SubsDone = {} /\ PubsDone = {}
    BY DEF SubsDone, PubsDone, Reported
  <2>2. QED
    BY <2>1, FS_EmptySet DEF CountInv
<1>4. CheckedInv
  BY DEF CheckedInv, AfterComparing, AfterChecks
<1>5. JoinedInv /\ CsvInv
  BY DEF JoinedInv, CsvInv
<1>6. QED
  BY <1>1, <1>2, <1>3, <1>4, <1>5 DEF IInv

-----------------------------------------------------------------------------
(* The steps of the processes.                                             *)

LEMMA WorkerIInv == IInv /\ (WorkerStep \/ \E s \in Subs : Feed(s)) => IInv'
<1> SUFFICES ASSUME IInv, WorkerStep \/ \E s \in Subs : Feed(s) PROVE IInv'
  OBVIOUS
<1>1. ASSUME NEW s \in Subs, PutRow(s) PROVE IInv'
  <2> USE <1>1 DEF PutRow, mainVars, queueVars, IInv
  <2>1. TypeOK'
    BY Constants DEF TypeOK
  <2>2. StartInv'
    BY DEF StartInv
  <2>3. CountInv' /\ CheckedInv'
    BY DEF CountInv, SubsDone, PubsDone, CheckedInv, AfterChecks, EverySubReported, EveryPubReported
  <2>4. ~Ended(s)
    BY DEF Ended
  <2>5. JoinedInv'
    BY <2>4 DEF JoinedInv, TypeOK, Ended
  <2>6. CsvInv'
    BY <2>4 DEF JoinedInv, CsvInv
  <2>7. QED
    BY <2>1, <2>2, <2>3, <2>5, <2>6
<1>2. ASSUME NEW s \in Subs, Feed(s) PROVE IInv'
  <2> USE <1>2 DEF Feed, mainVars, queueVars, IInv
  <2>1. TypeOK'
    BY Constants DEF TypeOK
  <2>2. StartInv'
    BY DEF StartInv
  <2>3. CountInv' /\ CheckedInv'
    BY DEF CountInv, SubsDone, PubsDone, CheckedInv, AfterChecks, EverySubReported, EveryPubReported
  <2>4. ~Ended(s)
    BY DEF Ended, TypeOK
  <2>5. JoinedInv'
    BY <2>4 DEF JoinedInv, TypeOK, Ended
  <2>6. CsvInv'
    BY DEF CsvInv
  <2>7. QED
    BY <2>1, <2>2, <2>3, <2>5, <2>6
<1>3. ASSUME NEW s \in Subs, SubReport(s) PROVE IInv'
  <2> USE <1>3 DEF SubReport, mainVars, IInv
  <2>1. TypeOK'
    BY DEF TypeOK, WorkerStatuses
  <2>2. StartInv'
    BY DEF StartInv, TypeOK
  <2>3. SubsDone' = SubsDone \cup {s} /\ s \notin SubsDone /\ PubsDone' = PubsDone
    BY DEF SubsDone, PubsDone, Reported, TypeOK
  <2>4. Cardinality(SubsDone \cup {s}) = Cardinality(SubsDone) + 1
    BY <2>3, DoneSizes, FS_AddElement
  <2>5. CountInv'
    BY <2>3, <2>4 DEF CountInv
  <2>6. CheckedInv'
    BY DEF CheckedInv, AfterChecks, EverySubReported, EveryPubReported, Reported, TypeOK
  <2>7. JoinedInv'
    BY DEF JoinedInv, TypeOK, Ended
  <2>8. CsvInv'
    BY DEF CsvInv
  <2>9. QED
    BY <2>1, <2>2, <2>5, <2>6, <2>7, <2>8
<1>4. ASSUME NEW s \in Subs, SubEnd(s) PROVE IInv'
  <2> USE <1>4 DEF SubEnd, mainVars, queueVars, IInv
  <2>1. TypeOK'
    BY DEF TypeOK, WorkerStatuses
  <2>2. StartInv'
    BY DEF StartInv, TypeOK
  <2>3. SubsDone' = SubsDone /\ PubsDone' = PubsDone
    BY DEF SubsDone, PubsDone, Reported, TypeOK
  <2>5. CountInv'
    BY <2>3 DEF CountInv
  <2>6. CheckedInv'
    BY DEF CheckedInv, AfterChecks, EverySubReported, EveryPubReported, Reported, TypeOK
  <2>7. JoinedInv'
    BY DEF JoinedInv, TypeOK, Ended
  <2>8. CsvInv'
    BY DEF CsvInv
  <2>9. QED
    BY <2>1, <2>2, <2>5, <2>6, <2>7, <2>8
<1>5. ASSUME NEW p \in Pubs, PubReport(p) PROVE IInv'
  <2> USE <1>5 DEF PubReport, mainVars, IInv
  <2>1. TypeOK'
    BY Constants DEF TypeOK, WorkerStatuses
  <2>2. StartInv'
    BY DEF StartInv, TypeOK, Reported
  <2>3. SubsDone' = SubsDone
    BY DEF SubsDone
  <2>4. ASSUME pc \in PubsUncompared, \A q \in Pubs : rounds'[q] <= 1
        PROVE  pubQueue' = Cardinality(PubsDone')
    <3>1. rounds[p] = 0 /\ \A q \in Pubs : rounds[q] <= 1
      BY <2>4 DEF TypeOK
    <3>2. PubsDone' = PubsDone \cup {p} /\ p \notin PubsDone
      BY <3>1 DEF PubsDone, Reported, TypeOK, StartInv
    <3>3. Cardinality(PubsDone \cup {p}) = Cardinality(PubsDone) + 1
      BY <3>2, DoneSizes, FS_AddElement
    <3>4. QED
      BY <2>4, <3>1, <3>2, <3>3 DEF CountInv
  <2>5. CountInv'
    BY <2>3, <2>4 DEF CountInv
  <2>6. CheckedInv'
    BY DEF CheckedInv, AfterChecks, EverySubReported, EveryPubReported, Reported, TypeOK
  <2>7. JoinedInv' /\ CsvInv'
    BY DEF JoinedInv, Ended, CsvInv
  <2>8. QED
    BY <2>1, <2>2, <2>5, <2>6, <2>7
<1>6. ASSUME NEW p \in Pubs, PubEnd(p) PROVE IInv'
  <2> USE <1>6 DEF PubEnd, mainVars, queueVars, IInv
  <2>1. TypeOK'
    BY DEF TypeOK, WorkerStatuses
  <2>2. StartInv'
    BY DEF StartInv, TypeOK, Reported
  <2>3. SubsDone' = SubsDone /\ PubsDone' = PubsDone
    BY DEF SubsDone, PubsDone, Reported, TypeOK
  <2>5. CountInv'
    BY <2>3 DEF CountInv
  <2>6. CheckedInv'
    BY DEF CheckedInv, AfterChecks, EverySubReported, EveryPubReported, Reported, TypeOK
  <2>7. JoinedInv' /\ CsvInv'
    BY DEF JoinedInv, Ended, CsvInv
  <2>8. QED
    BY <2>1, <2>2, <2>5, <2>6, <2>7
<1>7. QED
  BY <1>1, <1>2, <1>3, <1>4, <1>5, <1>6 DEF WorkerStep

-----------------------------------------------------------------------------
(* The steps of main.                                                      *)

\* Steps that leave the processes alone keep what is said of them.
LEMMA SameProcesses ==
  ASSUME UNCHANGED workerVars
  PROVE  /\ SubsDone' = SubsDone /\ PubsDone' = PubsDone
         /\ EverySubReported' <=> EverySubReported
         /\ EveryPubReported' <=> EveryPubReported
         /\ \A s \in Subs : Ended(s)' <=> Ended(s)
         /\ \A s \in Subs : SubAlive(s)' <=> SubAlive(s)
BY DEF workerVars, SubsDone, PubsDone, EverySubReported, EveryPubReported, Ended, SubAlive

LEMMA StartIInv == IInv /\ (StartSub \/ StartPub) => IInv'
<1>1. ASSUME IInv, StartSub PROVE IInv'
  <2> USE <1>1 DEF StartSub, queueVars, IInv
  <2>0. k \in Subs /\ k \in Nat
    BY Constants DEF TypeOK, StartInv, Subs
  <2>1. TypeOK'
    BY <2>0 DEF TypeOK, WorkerStatuses
  <2>2. StartInv'
    BY <2>0, <2>1 DEF StartInv, TypeOK, Subs
  <2>3. SubsDone' = SubsDone /\ PubsDone' = PubsDone
    BY <2>0 DEF SubsDone, PubsDone, Reported, TypeOK, StartInv
  <2>4. CountInv'
    BY <2>3 DEF CountInv
  <2>5. CheckedInv'
    BY DEF CheckedInv, AfterComparing, AfterChecks
  <2>6. JoinedInv' /\ CsvInv'
    BY DEF JoinedInv, CsvInv
  <2>7. QED
    BY <2>1, <2>2, <2>4, <2>5, <2>6
<1>2. ASSUME IInv, StartPub PROVE IInv'
  <2> USE <1>2 DEF StartPub, queueVars, IInv
  <2>0. k \in Pubs /\ k \in Nat
    BY Constants DEF TypeOK, StartInv, Pubs
  <2>1. TypeOK'
    BY <2>0 DEF TypeOK, WorkerStatuses
  <2>2. StartInv'
    BY <2>0, <2>1 DEF StartInv, TypeOK, Pubs, Reported
  <2>3. SubsDone' = SubsDone /\ PubsDone' = PubsDone
    BY <2>0 DEF SubsDone, PubsDone, Reported, TypeOK, StartInv
  <2>4. CountInv'
    BY <2>3 DEF CountInv
  <2>5. CheckedInv'
    BY DEF CheckedInv, AfterComparing, AfterChecks
  <2>6. JoinedInv' /\ CsvInv'
    BY DEF JoinedInv, CsvInv
  <2>7. QED
    BY <2>1, <2>2, <2>4, <2>5, <2>6
<1>3. QED
  BY <1>1, <1>2

LEMMA EndLoopIInv == IInv /\ EndLoop => IInv'
<1> SUFFICES ASSUME IInv, EndLoop PROVE IInv'
  OBVIOUS
<1> USE DEF IInv
<1>1. /\ k' = 1 /\ timeouts' = 0
      /\ UNCHANGED <<logs, csv, joined, finished, subQueue, pubQueue, workerVars>>
      /\ \/ pc = "startSubs" /\ k > NSubs /\ pc' = "startPubs"
         \/ pc = "startPubs" /\ k > NPubs /\ pc' = "joinSubs"
         \/ pc = "joinSubs" /\ k > NSubs /\ pc' = "joinPubs"
         \/ pc = "joinPubs" /\ pc' = "checkSubs"
         \/ pc = "drainSubs" /\ pc' = "drainPubs"
         \/ pc = "drainPubs" /\ pc' = "drainLog"
  BY EndLoopCases DEF queueVars
<1>2. TypeOK'
  BY <1>1 DEF TypeOK, workerVars
<1>3. StartInv'
  <2>1. \A s \in Subs : s <= NSubs /\ s \in Nat
    BY Constants DEF Subs
  <2>2. \A p \in Pubs : p <= NPubs /\ p \in Nat
    BY Constants DEF Pubs
  <2>3. QED
    BY <1>1, <2>1, <2>2, Constants DEF StartInv, TypeOK, workerVars
<1>4. CountInv'
  BY <1>1, SameProcesses DEF CountInv, SubsUncompared, PubsUncompared, workerVars
<1>5. CheckedInv'
  BY <1>1, SameProcesses DEF CheckedInv, AfterComparing, AfterChecks
<1>6. JoinedInv'
  <2>1. \A s \in Subs : s <= NSubs /\ s \in Nat /\ s >= 1
    BY Constants DEF Subs
  <2>2. QED
    BY <1>1, <2>1, Constants DEF JoinedInv, TypeOK, workerVars, Ended
<1>7. CsvInv'
  BY <1>1 DEF CsvInv, workerVars
<1>8. QED
  BY <1>2, <1>3, <1>4, <1>5, <1>6, <1>7

\* The test for the timeout subtracts the wrong way round.
LEMMA NeverRaises == \A n \in Nat : ~Raises(n)
BY DEF Raises

\* A join that returned in time has left an ended process.
LEMMA JoinIInv == IInv /\ (JoinSub \/ JoinPub) => IInv'
<1> SUFFICES ASSUME IInv, JoinSub \/ JoinPub PROVE IInv'
  OBVIOUS
<1> USE DEF IInv
<1>1. /\ UNCHANGED <<logs, csv, finished, subQueue, pubQueue, workerVars>>
      /\ timeouts' \in Nat /\ (joined' => joined) /\ joined' \in BOOLEAN
      /\ pc \in {"joinSubs", "joinPubs"}
      /\ pc = "joinSubs" /\ joined' => ~SubAlive(k)
  <2>1. ASSUME NEW alive \in BOOLEAN, Join(alive)
        PROVE  /\ UNCHANGED <<logs, csv, finished, subQueue, pubQueue, workerVars>>
               /\ timeouts' \in Nat /\ (joined' => joined) /\ joined' \in BOOLEAN
               /\ pc = "joinSubs" /\ joined' => ~alive
    <3>1. timeouts' \in Nat
      BY <2>1 DEF Join, TypeOK
    <3>2. (joined' => joined) /\ (pc = "joinSubs" /\ joined' => ~alive)
      <4>1. joined \in BOOLEAN
        BY DEF TypeOK
      <4>2. CASE ~alive /\ joined' = joined
        BY <4>2
      <4>3. CASE alive /\ joined' = (joined /\ pc # "joinSubs")
        BY <4>1, <4>3
      <4>4. QED
        BY <2>1, <4>2, <4>3 DEF Join
    <3>3. joined' \in BOOLEAN
      BY <2>1 DEF Join, TypeOK
    <3>4. QED
      BY <2>1, <3>1, <3>2, <3>3 DEF Join, queueVars
  <2>2. \A c : SubAlive(c) \in BOOLEAN /\ PubAlive(c) \in BOOLEAN
    BY DEF SubAlive, PubAlive
  <2>3. CASE JoinSub
    BY <2>1, <2>2, <2>3 DEF JoinSub
  <2>4. CASE JoinPub
    BY <2>1, <2>2, <2>4 DEF JoinPub
  <2>5. QED
    BY <2>3, <2>4
<1>2. ~Raises(timeouts')
  BY <1>1, NeverRaises
<1>3. pc' = pc /\ k' = k + 1
  BY <1>2 DEF JoinSub, JoinPub, Join
<1>4. TypeOK'
  BY <1>1, <1>3 DEF TypeOK, workerVars
<1>5. StartInv'
  BY <1>1, <1>3 DEF StartInv, workerVars
<1>6. CountInv'
  BY <1>1, <1>3, SameProcesses DEF CountInv, workerVars
<1>7. CheckedInv'
  BY <1>1, <1>3, SameProcesses DEF CheckedInv, AfterComparing, AfterChecks
<1>8. ASSUME joined', NEW s \in Subs, pc = "joinSubs" => s < k + 1 PROVE Ended(s)'
  <2>1. CASE pc = "joinSubs" /\ s = k
    <3>1. ~SubAlive(s) /\ sub[s] # "new"
      BY <1>1, <1>8, <2>1 DEF StartInv
    <3>2. QED
      BY <1>1, <3>1 DEF SubAlive, Ended, TypeOK, WorkerStatuses, workerVars
  <2>2. CASE pc = "joinSubs" => s < k
    BY <1>1, <1>8, <2>2, SameProcesses DEF JoinedInv
  <2>3. QED
    BY <1>8, <2>1, <2>2, Constants DEF TypeOK, Subs
<1>9. JoinedInv'
  BY <1>3, <1>8 DEF JoinedInv
<1>10. CsvInv'
  BY <1>1, <1>3 DEF CsvInv
<1>11. QED
  BY <1>4, <1>5, <1>6, <1>7, <1>9, <1>10

\* The comparison passes only if the queue holds as many durations as there
\* are processes, so each process has put one.
LEMMA CheckIInv == IInv /\ (CheckSubs \/ CheckPubs) => IInv'
<1>1. ASSUME IInv, CheckSubs PROVE IInv'
  <2> USE <1>1 DEF IInv
  <2>1. /\ UNCHANGED <<k, timeouts, logs, csv, joined, finished, subQueue, pubQueue, workerVars>>
        /\ pc = "checkSubs" /\ pc' \in {"error", "checkPubs"}
        /\ pc' = "checkPubs" => ~TooFew(subQueue, ActiveSubs)
    BY DEF CheckSubs, queueVars
  <2>2. TypeOK'
    BY <2>1 DEF TypeOK, workerVars
  <2>3. StartInv'
    BY <2>1 DEF StartInv, workerVars
  <2>4. CountInv'
    BY <2>1, SameProcesses DEF CountInv, SubsUncompared, PubsUncompared, workerVars
  <2>5. CheckedInv'
    <3>1. ASSUME pc' = "checkPubs", ActiveSubs = NSubs PROVE SubsDone = Subs
      <4>1. subQueue >= NSubs /\ subQueue = Cardinality(SubsDone)
        BY <2>1, <3>1, Constants DEF TooFew, CountInv, SubsUncompared, TypeOK
      <4>2. QED
        BY <4>1, Constants, DoneSizes
    <3>2. pc' = "checkPubs" => EverySubReported
      BY <3>1 DEF EverySubReported, SubsDone
    <3>3. QED
      BY <2>1, <3>2, SameProcesses DEF CheckedInv, AfterComparing, AfterChecks
  <2>6. JoinedInv'
    BY <2>1, SameProcesses DEF JoinedInv
  <2>7. CsvInv'
    BY <2>1 DEF CsvInv, workerVars
  <2>8. QED
    BY <2>2, <2>3, <2>4, <2>5, <2>6, <2>7
<1>2. ASSUME IInv, CheckPubs PROVE IInv'
  <2> USE <1>2 DEF IInv
  <2>1. /\ UNCHANGED <<k, timeouts, logs, csv, joined, finished, subQueue, pubQueue, workerVars>>
        /\ pc = "checkPubs" /\ pc' \in {"error", "drainSubs"}
        /\ pc' = "drainSubs" => ~TooFew(pubQueue, ActivePubs)
    BY DEF CheckPubs, queueVars
  <2>2. TypeOK'
    BY <2>1 DEF TypeOK, workerVars
  <2>3. StartInv'
    BY <2>1 DEF StartInv, workerVars
  <2>4. CountInv'
    BY <2>1 DEF CountInv, SubsUncompared, PubsUncompared
  <2>5. CheckedInv'
    <3>1. ASSUME pc' = "drainSubs", ActivePubs = NPubs, \A p \in Pubs : rounds[p] <= 1
          PROVE  PubsDone = Pubs
      <4>1. pubQueue >= NPubs /\ pubQueue = Cardinality(PubsDone)
        BY <2>1, <3>1, Constants DEF TooFew, CountInv, PubsUncompared, TypeOK
      <4>2. QED
        BY <4>1, Constants, DoneSizes
    <3>2. pc' = "drainSubs" => EveryPubReported
      BY <3>1 DEF EveryPubReported, PubsDone
    <3>3. QED
      BY <2>1, <3>2, SameProcesses DEF CheckedInv, AfterComparing, AfterChecks
  <2>6. JoinedInv'
    BY <2>1, SameProcesses DEF JoinedInv
  <2>7. CsvInv'
    BY <2>1 DEF CsvInv, workerVars
  <2>8. QED
    BY <2>2, <2>3, <2>4, <2>5, <2>6, <2>7
<1>3. QED
  BY <1>1, <1>2

\* Draining, writing and the end.
LEMMA LaterIInv ==
  IInv /\ (DrainSubs \/ DrainPubs \/ DrainLog \/ Write \/ Finish \/ Exit) => IInv'
<1> SUFFICES ASSUME IInv, DrainSubs \/ DrainPubs \/ DrainLog \/ Write \/ Finish \/ Exit
             PROVE  IInv'
  OBVIOUS
<1> USE DEF IInv
<1>1. /\ UNCHANGED <<timeouts, joined, workerVars>>
      /\ \/ pc' = pc /\ pc \in {"drainSubs", "drainPubs", "drainLog", "finish"}
         \/ pc = "drainLog" /\ pc' = "write"
         \/ pc = "write" /\ pc' = "finish"
         \/ pc \in {"error", "timedOut"} /\ pc' = "exited"
  BY DEF DrainSubs, DrainPubs, DrainLog, Write, Finish, Exit
<1>2. TypeOK'
  <2>1. pc' \in {"drainSubs", "drainPubs", "drainLog", "finish", "write", "exited"}
    BY <1>1
  <2>2. k' \in Nat \ {0} /\ logs' \in Nat /\ csv' \in Nat \cup {-1}
    <3>1. CASE DrainSubs \/ DrainPubs
      <4>1. k' = k + 1 /\ logs' = logs /\ csv' = csv
        BY <3>1 DEF DrainSubs, DrainPubs
      <4>2. QED
        BY <4>1 DEF TypeOK
    <3>2. CASE DrainLog
      BY <3>2 DEF DrainLog, TypeOK
    <3>3. CASE Write \/ Finish \/ Exit
      BY <3>3 DEF Write, Finish, Exit, TypeOK
    <3>4. QED
      BY <3>1, <3>2, <3>3
  <2>3. subQueue' \in Nat /\ pubQueue' \in Nat
    BY DEF DrainSubs, DrainPubs, DrainLog, Write, Finish, Exit, Get, TypeOK, queueVars
  <2>4. finished' \in BOOLEAN
    <3>1. CASE Finish
      BY <3>1 DEF Finish, TypeOK
    <3>2. CASE ~Finish
      BY <3>2 DEF DrainSubs, DrainPubs, DrainLog, Write, Exit, TypeOK
    <3>3. QED
      BY <3>1, <3>2
  <2>5. QED
    BY <1>1, <2>1, <2>2, <2>3, <2>4 DEF TypeOK, workerVars
<1>3. StartInv'
  BY <1>1 DEF StartInv, workerVars
<1>4. CountInv'
  BY <1>1 DEF CountInv, SubsUncompared, PubsUncompared
<1>5. CheckedInv'
  BY <1>1, SameProcesses DEF CheckedInv, AfterComparing, AfterChecks
<1>6. JoinedInv'
  BY <1>1, SameProcesses DEF JoinedInv
<1>7. CsvInv'
  <2>1. ASSUME pc = "drainLog", joined PROVE sent = rows
    <3>1. \A s \in Subs : sent[s] = rows[s]
      BY <2>1 DEF JoinedInv, Ended
    <3>2. QED
      BY <3>1 DEF TypeOK
  <2>2. CASE DrainLog
    <3>1. CASE LogEmpty
      BY <1>1, <2>1, <2>2, <3>1 DEF DrainLog, LogEmpty, CsvInv, workerVars
    <3>2. CASE ~LogEmpty
      BY <1>1, <2>2, <3>2 DEF DrainLog, CsvInv, workerVars
    <3>3. QED
      BY <3>1, <3>2
  <2>3. CASE Write
    BY <1>1, <2>3 DEF Write, CsvInv, TypeOK, workerVars
  <2>4. CASE DrainSubs \/ DrainPubs \/ Finish \/ Exit
    <3>1. csv' = csv /\ rows' = rows /\ pc' # "write" /\ (pc = "finish" <=> pc' = "finish")
      BY <2>4 DEF DrainSubs, DrainPubs, Finish, Exit, workerVars
    <3>2. finished' => finished \/ pc = "finish"
      BY <2>4 DEF DrainSubs, DrainPubs, Finish, Exit
    <3>3. QED
      BY <1>1, <3>1, <3>2 DEF CsvInv
  <2>5. QED
    BY <2>2, <2>3, <2>4
<1>8. QED
  BY <1>2, <1>3, <1>4, <1>5, <1>6, <1>7

LEMMA NextIInv == IInv /\ [Next]_vars => IInv'
<1>1. ASSUME IInv, UNCHANGED vars PROVE IInv'
  <2> USE <1>1 DEF IInv, vars, mainVars, queueVars
  <2>1. UNCHANGED workerVars
    OBVIOUS
  <2>2. TypeOK' /\ StartInv'
    BY <2>1 DEF TypeOK, StartInv, workerVars
  <2>3. CountInv' /\ CheckedInv' /\ JoinedInv'
    BY <2>1, SameProcesses DEF CountInv, CheckedInv, AfterChecks, JoinedInv, workerVars
  <2>4. CsvInv'
    BY <2>1 DEF CsvInv, workerVars
  <2>5. QED
    BY <2>2, <2>3, <2>4
<1>2. QED
  BY <1>1, WorkerIInv, StartIInv, EndLoopIInv, JoinIInv, CheckIInv, LaterIInv
     DEF Next, MainStep, Waiting, Over

LEMMA Inductive == Spec => []IInv
BY InitIInv, NextIInv, PTL DEF Spec

-----------------------------------------------------------------------------

\* Every reachable state of Harness has the declared types.
THEOREM TypeCorrect == Spec => []TypeOK
BY Inductive, PTL DEF IInv

\* main computes no statistics before every subscriber it waits for has put
\* its duration, nor, unless a publisher has reported twice, before every
\* publisher has; whatever the numbers of clients are.
THEOREM EveryoneReported == Spec => []EveryClientReported
<1>1. IInv => EveryClientReported
  BY DEF IInv, CheckedInv, EveryClientReported, AfterComparing, AfterChecks
<1>2. QED
  BY <1>1, Inductive, PTL

\* The csv file holds every row the subscribers put, however small the pipe
\* of LOG_QUEUE is, if all joins returned in time.
THEOREM LogIsComplete == Spec => []CompleteLog
<1>1. IInv => CompleteLog
  BY DEF IInv, CsvInv, CompleteLog
<1>2. QED
  BY <1>1, Inductive, PTL

-----------------------------------------------------------------------------
(* The promise of Container.                                               *)

\* Steps of main after the start leave the processes alone.
LEMMA FinishSteps ==
  ASSUME IInv, [Next]_vars, pc = "finish"
  PROVE  \/ WorkerStep
         \/ \E s \in Subs : Feed(s)
         \/ Finish
         \/ UNCHANGED vars
BY DEF Next, MainStep, EndLoop, Loops, StartSub, StartPub, JoinSub, JoinPub, CheckSubs, CheckPubs,
       DrainSubs, DrainPubs, DrainLog, Write, Exit, Waiting, Over

\* A subscriber that is dead when main is in its last loop stays dead.
LEMMA DeadStaysDead ==
  ASSUME IInv, [Next]_vars, pc = "finish", NEW s \in Subs, ~SubAlive(s)
  PROVE  ~SubAlive(s)'
<1>1. sub[s] \in {"returned", "raised"} /\ sent[s] = rows[s]
  <2>1. sub[s] # "new"
    BY DEF IInv, StartInv
  <2>2. QED
    BY <2>1 DEF IInv, TypeOK, SubAlive, WorkerStatuses
<1>2. CASE WorkerStep
  BY <1>1, <1>2 DEF WorkerStep, PutRow, SubReport, SubEnd, PubReport, PubEnd, SubAlive, IInv, TypeOK
<1>3. CASE \E q \in Subs : Feed(q)
  BY <1>1, <1>3 DEF Feed, SubAlive, IInv, TypeOK
<1>4. CASE Finish \/ UNCHANGED vars
  BY <1>4 DEF Finish, vars, workerVars, SubAlive
<1>5. QED
  BY <1>2, <1>3, <1>4, FinishSteps

DeadInv == finished => AllSubsDead

\* The line is never in the log while a subscriber is alive.
LEMMA InductiveDead == Spec => []DeadInv
<1>1. Init => DeadInv
  BY DEF Init, DeadInv
<1>2. IInv /\ DeadInv /\ [Next]_vars => DeadInv'
  <2> SUFFICES ASSUME IInv, DeadInv, [Next]_vars, finished' PROVE AllSubsDead'
    BY DEF DeadInv
  <2>1. pc = "finish" /\ AllSubsDead
    <3>1. CASE Finish
      BY <3>1 DEF Finish, DeadInv
    <3>2. CASE ~Finish
      <4>1. finished' = finished
        BY <3>2 DEF Next, MainStep, EndLoop, StartSub, StartPub, JoinSub, JoinPub, Join, CheckSubs,
                    CheckPubs, DrainSubs, DrainPubs, DrainLog, Write, Exit, Waiting, Over, WorkerStep,
                    PutRow, Feed, SubReport, SubEnd, PubReport, PubEnd, vars, mainVars
      <4>2. QED
        BY <4>1 DEF DeadInv, IInv, CsvInv
    <3>3. QED
      BY <3>1, <3>2
  <2>2. QED
    BY <2>1, DeadStaysDead DEF AllSubsDead
<1>3. QED
  BY <1>1, <1>2, Inductive, PTL DEF Spec

\* The container prints its marker only when no subscriber is alive and the csv
\* file is on disk; the file then has every row, and gets no other, unless a
\* join of a subscriber timed out.  A container whose main raised never prints
\* the marker.
THEOREM HarnessImplementsContainer == Spec => ImplementsContainer
<1>1. Init => AbstractContainer!Init
  BY DEF Init, AbstractContainer!Init, phase
<1>2. IInv /\ DeadInv /\ DeadInv' /\ [Next]_vars => [AbstractContainer!Next]_phase
  <2> SUFFICES ASSUME IInv, DeadInv, DeadInv', [Next]_vars PROVE [AbstractContainer!Next]_phase
    OBVIOUS
  <2> USE DEF AbstractContainer!Next, AbstractContainer!BeLate, AbstractContainer!WriteCsv,
              AbstractContainer!PrintFinished, AbstractContainer!Crash
  <2>0. CsvInv /\ csv \in Nat \cup {-1} /\ joined \in BOOLEAN /\ finished \in BOOLEAN
    BY DEF IInv, TypeOK
  <2>1. IInv' /\ CsvInv'
    BY NextIInv DEF IInv
  <2>2. CASE UNCHANGED <<csv, finished, joined>> /\ pc' # "exited" /\ pc # "exited"
    BY <2>0, <2>1, <2>2 DEF phase, CsvInv, Complete, DeadInv
  <2>3. CASE Write
    BY <2>0, <2>1, <2>3 DEF Write, phase, CsvInv, Complete
  <2>4. CASE Finish
    BY <2>0, <2>1, <2>4 DEF Finish, phase, CsvInv, Complete, DeadInv
  <2>5. CASE Exit
    BY <2>0, <2>1, <2>5 DEF Exit, phase, CsvInv
  <2>6. CASE JoinSub
    BY <2>0, <2>1, <2>6 DEF JoinSub, Join, phase, CsvInv
  <2>7. CASE EndLoop
    BY <2>2, <2>7, EndLoopCases
  <2>8. CASE JoinPub
    <3>1. joined' = joined
      BY <2>0, <2>8 DEF JoinPub, Join
    <3>2. QED
      BY <2>2, <2>8, <3>1 DEF JoinPub, Join
  <2>9. CASE UNCHANGED vars
    <3>1. UNCHANGED <<csv, finished, joined, pc>>
      BY <2>9 DEF vars, mainVars
    <3>2. CASE pc = "exited"
      BY <3>1, <3>2 DEF phase
    <3>3. QED
      BY <2>2, <3>1, <3>2
  <2>10. CASE WorkerStep \/ \E s \in Subs : Feed(s)
    <3>1. UNCHANGED <<csv, finished, joined, pc>>
      BY <2>10 DEF WorkerStep, PutRow, Feed, SubReport, SubEnd, PubReport, PubEnd, mainVars
    <3>2. CASE pc = "exited"
      BY <3>1, <3>2 DEF phase
    <3>3. QED
      BY <2>2, <3>1, <3>2
  <2>11. QED
    BY <2>2, <2>3, <2>4, <2>5, <2>6, <2>7, <2>8, <2>9, <2>10
       DEF Next, MainStep, Waiting, Over, StartSub, StartPub, CheckSubs, CheckPubs, DrainSubs,
           DrainPubs, DrainLog
<1>3. QED
  BY <1>1, <1>2, Inductive, InductiveDead, PTL DEF Spec, ImplementsContainer, AbstractContainer!Spec
=============================================================================
