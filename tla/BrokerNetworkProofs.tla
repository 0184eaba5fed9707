------------------------ MODULE BrokerNetworkProofs -------------------------
(***************************************************************************)
(* Proofs about BrokerNetwork for any number of brokers and any template.  *)
(***************************************************************************)
EXTENDS BrokerNetwork, SequenceTheorems, TLAPS

\* A list without its i-th element: the ones behind it move up.
LEMMA RemoveAtProperties ==
  ASSUME NEW S, NEW s \in Seq(S), NEW i \in 1..Len(s)
  PROVE  /\ RemoveAt(s, i) \in Seq(S)
         /\ Len(RemoveAt(s, i)) = Len(s) - 1
         /\ \A k \in 1..(Len(s) - 1) :
              RemoveAt(s, i)[k] = IF k < i THEN s[k] ELSE s[k + 1]
<1> DEFINE front == SubSeq(s, 1, i - 1)
           back == SubSeq(s, i + 1, Len(s))
<1>1. Len(s) \in Nat /\ \A k \in 1..Len(s) : s[k] \in S
  BY LenProperties, ElementOfSeq
<1>2. /\ front \in Seq(S) /\ Len(front) = i - 1
      /\ \A k \in 1..(i - 1) : front[k] = s[k]
  <2>1. \A k \in 1..(i - 1) : s[k] \in S
    BY <1>1
  <2>2. 1 \in Int /\ i - 1 \in Int
    BY <1>1
  <2>3. /\ front \in Seq(S)
        /\ Len(front) = IF 1 <= i - 1 THEN i - 1 - 1 + 1 ELSE 0
        /\ \A k \in 1..(i - 1 - 1 + 1) : front[k] = s[1 + k - 1]
    BY <2>1, <2>2, SubSeqProperties
  <2> HIDE DEF front
  <2>4. QED
    BY <2>3, <1>1
<1>3. /\ back \in Seq(S) /\ Len(back) = Len(s) - i
      /\ \A k \in 1..(Len(s) - i) : back[k] = s[i + k]
  <2>1. \A k \in (i + 1)..Len(s) : s[k] \in S
    BY <1>1
  <2>2. i + 1 \in Int /\ Len(s) \in Int
    BY <1>1
  <2>3. /\ back \in Seq(S)
        /\ Len(back) = IF i + 1 <= Len(s) THEN Len(s) - (i + 1) + 1 ELSE 0
        /\ \A k \in 1..(Len(s) - (i + 1) + 1) : back[k] = s[i + 1 + k - 1]
    BY <2>1, <2>2, SubSeqProperties
  <2> HIDE DEF back
  <2>4. QED
    BY <2>3, <1>1
<1>4. RemoveAt(s, i) = front \o back
  BY DEF RemoveAt
<1> HIDE DEF front, back
<1>5. /\ front \o back \in Seq(S)
      /\ Len(front \o back) = Len(front) + Len(back)
      /\ \A k \in 1..(Len(front) + Len(back)) :
           (front \o back)[k] = IF k <= Len(front) THEN front[k]
                                                   ELSE back[k - Len(front)]
  BY <1>2, <1>3, ConcatProperties
<1>6. \A k \in 1..(Len(s) - 1) :
        (front \o back)[k] = IF k < i THEN s[k] ELSE s[k + 1]
  <2> TAKE k \in 1..(Len(s) - 1)
  <2>1. CASE k < i
    BY <2>1, <1>1, <1>2, <1>3, <1>5
  <2>2. CASE ~(k < i)
    <3>1. (front \o back)[k] = back[k - (i - 1)]
      BY <2>2, <1>1, <1>2, <1>3, <1>5
    <3>2. k - (i - 1) \in 1..(Len(s) - i)
      BY <2>2, <1>1
    <3>3. back[k - (i - 1)] = s[i + (k - (i - 1))]
      BY <1>3, <3>2
    <3>4. i + (k - (i - 1)) = k + 1
      BY <1>1
    <3>5. QED
      BY <2>2, <3>1, <3>3, <3>4
  <2>3. QED
    BY <2>1, <2>2
<1>7. QED
  BY <1>1, <1>2, <1>3, <1>4, <1>5, <1>6

-----------------------------------------------------------------------------
(* The inductive invariant.                                                *)

\* The nodes that the loop of start_hivemq leaves in the list.
Survivors == {j \in Foreign : \E m \in Nat : 2 * m \in DOMAIN template /\ j = template[2 * m]}

\* Before its at-th turn the loop has removed every other one of the first
\* nodes and has not come to the rest.
LoopInv ==
  /\ at \in Nat \ {0} /\ at <= Len(nodes) + 2
  /\ Len(nodes) = Len(template) - (at - 1)
  /\ \A k \in 1..Len(nodes) :
       nodes[k] = IF k < at THEN template[2 * k] ELSE template[k + at - 1]

\* The file of broker i is written.
Written(i) ==
  /\ Type = "RABBITMQ" => file[i] = {Name("rabbitmq", j) : j \in Others(i)}
  /\ Type = "HIVEMQ" => file[i] = {Address(j) : j \in Brokers \cup Survivors}

\* Where the program is in the loop of cluster_type, and what it has done.
AddInv ==
  /\ pc \in {"add", "remove", "write", "run"} =>
       cnt \in 2..(N + 2) /\ started = {} /\ \A i \in Brokers : i < cnt => Written(i)
  /\ pc \in {"remove", "write", "run"} => cnt \in Brokers
  /\ pc = "remove" => Type = "HIVEMQ" /\ LoopInv
  /\ pc = "write" => Type = "RABBITMQ" /\ file[cnt] = {}
  /\ pc = "run" => Type \in {"RABBITMQ", "HIVEMQ"} /\ Written(cnt)
  /\ cnt # 2 => Type \in Known

\* After it the files of all brokers are written, and stay while one runs.
StartInv ==
  /\ pc \in {"link", "net", "start", "cli"} =>
       Type \in Known /\ \A i \in Brokers : Written(i)
  /\ started # {} => \A i \in Brokers : Written(i)

IInv == TypeOK /\ AddInv /\ StartInv

LEMMA InitIInv == Init => IInv
<1> SUFFICES ASSUME Init PROVE IInv
  OBVIOUS
<1> USE BrokerNetworkAssumption DEF BrokerNetworkAssumption, Init
<1>1. TypeOK
  BY DEF TypeOK, Brokers, Address
<1>2. AddInv /\ StartInv
  BY DEF AddInv, StartInv, Brokers
<1>3. QED
  BY <1>1, <1>2 DEF IInv

\* A step of the loop that removes the nodes.
LEMMA RemoveNodeLoopInv ==
  ASSUME TypeOK, LoopInv, RemoveNode
  PROVE  LoopInv' /\ nodes' \in Seq(Foreign) /\ at' \in Nat
<1>1. /\ nodes \in Seq(Foreign) /\ at \in 1..Len(nodes)
      /\ nodes' = RemoveAt(nodes, at) /\ at' = at + 1 /\ UNCHANGED template
      /\ Len(nodes) \in Nat /\ Len(template) \in Nat
  BY LenProperties, BrokerNetworkAssumption DEF TypeOK, LoopInv, RemoveNode
<1>2. /\ nodes' \in Seq(Foreign) /\ Len(nodes') = Len(nodes) - 1
      /\ \A k \in 1..(Len(nodes) - 1) :
           nodes'[k] = IF k < at THEN nodes[k] ELSE nodes[k + 1]
  BY <1>1, RemoveAtProperties
<1>3. ASSUME NEW k \in 1..Len(nodes')
      PROVE  nodes'[k] = IF k < at' THEN template'[2 * k] ELSE template'[k + at' - 1]
  <2>1. k \in Nat /\ k \in 1..(Len(nodes) - 1) /\ k \in 1..Len(nodes) /\ k + 1 \in 1..Len(nodes)
    BY <1>1, <1>2
  <2>2. CASE k < at
    <3>1. nodes'[k] = nodes[k]
      BY <1>1, <1>2, <2>1, <2>2
    <3>2. nodes[k] = template[2 * k]
      BY <1>1, <2>1, <2>2 DEF LoopInv
    <3>3. k < at'
      BY <1>1, <2>1, <2>2
    <3>4. QED
      BY <1>1, <3>1, <3>2, <3>3
  <2>3. CASE k = at
    <3>1. nodes'[k] = nodes[k + 1]
      BY <1>1, <1>2, <2>1, <2>3
    <3>2. nodes[k + 1] = template[(k + 1) + at - 1]
      BY <1>1, <2>1, <2>3 DEF LoopInv
    <3>3. (k + 1) + at - 1 = 2 * k
      BY <1>1, <2>1, <2>3
    <3>4. QED
      BY <1>1, <2>1, <2>3, <3>1, <3>2, <3>3
  <2>4. CASE k > at
    <3>1. nodes'[k] = nodes[k + 1]
      BY <1>1, <1>2, <2>1, <2>4
    <3>2. nodes[k + 1] = template[(k + 1) + at - 1]
      BY <1>1, <2>1, <2>4 DEF LoopInv
    <3>3. (k + 1) + at - 1 = k + at' - 1 /\ ~(k < at')
      BY <1>1, <2>1, <2>4
    <3>4. QED
      BY <1>1, <3>1, <3>2, <3>3
  <2>5. QED
    BY <1>1, <2>1, <2>2, <2>3, <2>4
<1>4. at' <= Len(nodes') + 2 /\ Len(nodes') = Len(template') - (at' - 1)
  BY <1>1, <1>2 DEF LoopInv
<1>5. at' \in Nat \ {0}
  BY <1>1
<1>6. QED
  BY <1>2, <1>3, <1>4, <1>5 DEF LoopInv

\* What is left when the loop is over.
LEMMA LoopLeaves ==
  ASSUME TypeOK, LoopInv, at > Len(nodes)
  PROVE  {nodes[k] : k \in DOMAIN nodes} = Survivors
<1>1. /\ Len(nodes) \in Nat /\ DOMAIN nodes = 1..Len(nodes)
      /\ Len(template) \in Nat /\ DOMAIN template = 1..Len(template)
      /\ \A k \in DOMAIN nodes : nodes[k] \in Foreign
  BY LenProperties, ElementOfSeq, BrokerNetworkAssumption DEF TypeOK
<1>2. \A k \in DOMAIN nodes : nodes[k] = template[2 * k] /\ 2 * k \in DOMAIN template
  BY <1>1 DEF LoopInv
<1>3. \A k \in DOMAIN nodes : nodes[k] \in Survivors
  BY <1>1, <1>2 DEF Survivors
<1>4. ASSUME NEW m \in Nat, 2 * m \in DOMAIN template
      PROVE  m \in DOMAIN nodes
  BY <1>1, <1>4 DEF LoopInv
<1>5. \A j \in Survivors : \E k \in DOMAIN nodes : j = nodes[k]
  BY <1>2, <1>4 DEF Survivors
<1>6. QED
  BY <1>3, <1>5

\* The arguments and the template stay.
LEMMA Fixed ==
  ASSUME [Next]_vars
  PROVE  /\ UNCHANGED <<args, template>>
         /\ Type' = Type /\ Survivors' = Survivors
<1>1. UNCHANGED <<args, template>>
  BY DEF Next, vars, BadArguments, Raise, CopyConf, AppendNodes, ParseTemplate,
         RemoveNode, WriteNodes, AddDocker, AllAdded, Link, StartNet,
         StartBroker, OpenCli, Stop, Fail, Again, Over
<1>2. QED
  BY <1>1 DEF Type, Survivors

\* A step that leaves the files alone leaves them written.
LEMMA StaysWritten ==
  ASSUME [Next]_vars, NEW i \in Brokers, Written(i), file'[i] = file[i]
  PROVE  Written(i)'
BY Fixed DEF Written

LEMMA NextTypeOK == IInv /\ [Next]_vars => TypeOK'
<1> SUFFICES ASSUME IInv, [Next]_vars PROVE TypeOK'
  OBVIOUS
<1> USE BrokerNetworkAssumption DEF BrokerNetworkAssumption
<1> DEFINE Nodes == {Address(j) : j \in Brokers \cup Foreign}
                      \cup {Name("rabbitmq", j) : j \in Brokers}
<1>1. TypeOK /\ AddInv
  BY DEF IInv
<1>2. UNCHANGED <<args, template>>
  BY Fixed
<1>3. CASE BadArguments \/ Link \/ StartNet \/ OpenCli \/ AllAdded
  BY <1>1, <1>3 DEF TypeOK, BadArguments, Link, Raise, StartNet, OpenCli, AllAdded
<1>4. CASE CopyConf
  BY <1>1, <1>4 DEF TypeOK, CopyConf, Adding
<1>5. CASE AppendNodes
  <2>1. cnt \in Brokers /\ {Name("rabbitmq", i) : i \in Others(cnt)} \subseteq Nodes
    BY <1>1, <1>5 DEF AddInv, AppendNodes, Others
  <2>2. file' \in [Brokers -> SUBSET Nodes]
    BY <1>1, <1>5, <2>1 DEF TypeOK, AppendNodes
  <2>3. QED
    BY <1>1, <1>2, <1>5, <2>2 DEF TypeOK, AppendNodes
<1>6. CASE ParseTemplate
  BY <1>1, <1>6 DEF TypeOK, ParseTemplate
<1>7. CASE RemoveNode
  <2>1. nodes' \in Seq(Foreign) /\ at' \in Nat
    BY <1>1, <1>7, RemoveNodeLoopInv DEF AddInv, RemoveNode
  <2>2. QED
    BY <1>1, <1>2, <1>7, <2>1 DEF TypeOK, RemoveNode
<1>8. CASE WriteNodes
  <2>1. cnt \in Brokers /\ {nodes[k] : k \in DOMAIN nodes} \subseteq Foreign
    BY <1>1, <1>8, LoopLeaves DEF AddInv, WriteNodes, Survivors
  <2>2. {Address(i) : i \in Brokers} \cup {Address(nodes[k]) : k \in DOMAIN nodes}
          \subseteq Nodes
    BY <2>1
  <2>3. file' \in [Brokers -> SUBSET Nodes]
    BY <1>1, <1>8, <2>1, <2>2 DEF TypeOK, WriteNodes
  <2>4. QED
    BY <1>1, <1>2, <1>8, <2>3 DEF TypeOK, WriteNodes
<1>9. CASE AddDocker
  BY <1>1, <1>9 DEF TypeOK, AddDocker
<1>10. CASE StartBroker
  BY <1>1, <1>10 DEF TypeOK, StartBroker
<1>11. CASE Stop
  BY <1>1, <1>11 DEF TypeOK, Stop
<1>12. CASE Fail
  <2>1. CASE pc = "write"
    <3>1. PICK lines \in SUBSET {Name("rabbitmq", i) : i \in Others(cnt)} :
            file' = [file EXCEPT ![cnt] = @ \cup lines]
      BY <1>12, <2>1 DEF Fail
    <3>2. cnt \in Brokers /\ lines \subseteq Nodes
      BY <1>1, <2>1, <3>1 DEF AddInv, Others
    <3>3. file' \in [Brokers -> SUBSET Nodes]
      BY <1>1, <3>1, <3>2 DEF TypeOK
    <3>4. QED
      BY <1>1, <1>2, <1>12, <3>3 DEF TypeOK, Fail
  <2>2. CASE pc # "write"
    BY <1>1, <1>12, <2>2 DEF TypeOK, Fail
  <2>3. QED
    BY <2>1, <2>2
<1>13. CASE Again
  BY <1>1, <1>13 DEF TypeOK, Again
<1>14. CASE Over \/ UNCHANGED vars
  BY <1>1, <1>14 DEF TypeOK, Over, vars
<1>15. QED
  BY <1>3, <1>4, <1>5, <1>6, <1>7, <1>8, <1>9, <1>10, <1>11, <1>12, <1>13,
     <1>14 DEF Next

LEMMA NextAddInv == IInv /\ [Next]_vars => AddInv'
<1> SUFFICES ASSUME IInv, [Next]_vars PROVE AddInv'
  OBVIOUS
<1> USE BrokerNetworkAssumption DEF BrokerNetworkAssumption, Brokers
<1>1. TypeOK /\ AddInv
  BY DEF IInv
<1>2. Type' = Type /\ Survivors' = Survivors
  BY Fixed
<1>3. ASSUME UNCHANGED file, NEW i \in Brokers, Written(i)
      PROVE  Written(i)'
  BY <1>3, StaysWritten
<1>4. CASE BadArguments \/ Link \/ StartNet \/ OpenCli \/ AllAdded
  BY <1>1, <1>2, <1>4 DEF AddInv, BadArguments, Link, Raise, StartNet, OpenCli, AllAdded
<1>5. CASE CopyConf
  <2>1. /\ pc = "add" /\ pc' = "write" /\ cnt \in Brokers /\ Type = "RABBITMQ"
        /\ file' = [file EXCEPT ![cnt] = {}]
        /\ UNCHANGED <<cnt, started>>
    BY <1>5 DEF CopyConf, Adding
  <2>2. file'[cnt] = {} /\ \A i \in Brokers : i < cnt => file'[i] = file[i]
    BY <1>1, <2>1 DEF TypeOK
  <2>3. \A i \in Brokers : i < cnt => Written(i)'
    BY <1>1, <2>1, <2>2, StaysWritten DEF AddInv
  <2>4. QED
    BY <1>1, <1>2, <2>1, <2>2, <2>3 DEF AddInv
<1>6. CASE AppendNodes
  <2>1. /\ pc = "write" /\ pc' = "run" /\ Type = "RABBITMQ" /\ cnt \in Brokers
        /\ file' = [file EXCEPT ![cnt] = @ \cup {Name("rabbitmq", i) : i \in Others(cnt)}]
        /\ UNCHANGED <<cnt, started>> /\ file[cnt] = {}
    BY <1>1, <1>6 DEF AppendNodes, AddInv
  <2>2. /\ file'[cnt] = {Name("rabbitmq", i) : i \in Others(cnt)}
        /\ \A i \in Brokers : i < cnt => file'[i] = file[i]
    BY <1>1, <2>1 DEF TypeOK
  <2>3. Written(cnt)'
    BY <1>2, <2>1, <2>2 DEF Written, Others
  <2>4. \A i \in Brokers : i < cnt => Written(i)'
    BY <1>1, <2>1, <2>2, StaysWritten DEF AddInv
  <2>5. QED
    BY <1>1, <1>2, <2>1, <2>3, <2>4 DEF AddInv
<1>7. CASE ParseTemplate
  <2>1. /\ pc = "add" /\ pc' = "remove" /\ cnt \in Brokers /\ Type = "HIVEMQ"
        /\ nodes' = template /\ at' = 1
        /\ UNCHANGED <<template, cnt, file, started>>
    BY <1>7 DEF ParseTemplate, Adding
  <2>2. LoopInv'
    BY <1>1, <2>1, LenProperties DEF TypeOK, LoopInv
  <2>3. QED
    BY <1>1, <1>2, <1>3, <2>1, <2>2 DEF AddInv
<1>8. CASE RemoveNode
  <2>1. LoopInv'
    BY <1>1, <1>8, RemoveNodeLoopInv DEF AddInv, RemoveNode
  <2>2. QED
    BY <1>1, <1>2, <1>3, <1>8, <2>1 DEF AddInv, RemoveNode
<1>9. CASE WriteNodes
  <2>1. /\ pc = "remove" /\ pc' = "run" /\ Type = "HIVEMQ" /\ cnt \in Brokers
        /\ file' = [file EXCEPT ![cnt] =
             {Address(i) : i \in Brokers} \cup {Address(nodes[k]) : k \in DOMAIN nodes}]
        /\ UNCHANGED <<cnt, started>>
    BY <1>1, <1>9 DEF WriteNodes, AddInv
  <2>2. {nodes[k] : k \in DOMAIN nodes} = Survivors
    BY <1>1, <1>9, LoopLeaves DEF WriteNodes, AddInv, LoopInv
  <2>3. {Address(i) : i \in Brokers} \cup {Address(nodes[k]) : k \in DOMAIN nodes}
          = {Address(j) : j \in Brokers \cup Survivors}
    BY <2>2
  <2>4. /\ file'[cnt] = {Address(j) : j \in Brokers \cup Survivors}
        /\ \A i \in Brokers : i < cnt => file'[i] = file[i]
    <3> DEFINE list == {Address(j) : j \in Brokers \cup Survivors}
    <3>1. file' = [file EXCEPT ![cnt] = list]
      BY <2>1, <2>3
    <3>2. DOMAIN file = Brokers
      BY <1>1 DEF TypeOK
    <3> HIDE DEF list
    <3>3. file'[cnt] = list /\ \A i \in Brokers : i < cnt => file'[i] = file[i]
      BY <1>1, <2>1, <3>1, <3>2 DEF TypeOK
    <3>4. QED
      BY <3>3 DEF list
  <2>5. Written(cnt)'
    BY <1>2, <2>1, <2>4 DEF Written
  <2>6. \A i \in Brokers : i < cnt => Written(i)'
    BY <1>1, <2>1, <2>4, StaysWritten DEF AddInv
  <2>7. QED
    BY <1>1, <1>2, <2>1, <2>5, <2>6 DEF AddInv
<1>10. CASE AddDocker
  <2>1. /\ pc \in {"add", "run"} /\ pc' = "add" /\ cnt \in Brokers /\ cnt' = cnt + 1
        /\ UNCHANGED <<file, started>> /\ Type \in Known
        /\ Written(cnt)
    BY <1>1, <1>10 DEF AddDocker, Adding, AddInv, Known, Written
  <2>2. \A i \in Brokers : i < cnt' => Written(i)'
    <3> TAKE i \in Brokers
    <3>1. CASE i = cnt
      BY <1>3, <2>1, <3>1
    <3>2. CASE i < cnt
      BY <1>1, <1>3, <2>1, <3>2 DEF AddInv
    <3>3. QED
      BY <2>1, <3>1, <3>2
  <2>3. QED
    BY <1>1, <1>2, <2>1, <2>2 DEF AddInv
<1>11. CASE StartBroker \/ Stop \/ Fail
  BY <1>1, <1>2, <1>11 DEF AddInv, StartBroker, Stop, Fail
<1>12. CASE Again
  BY <1>12 DEF AddInv, Again
<1>13. CASE Over \/ UNCHANGED vars
  <2>1. UNCHANGED <<template, pc, cnt, nodes, at, file, started>>
    BY <1>13 DEF Over, vars
  <2>2. LoopInv' = LoopInv
    BY <2>1 DEF LoopInv
  <2>3. QED
    BY <1>1, <1>2, <1>3, <2>1, <2>2 DEF AddInv
<1>14. QED
  BY <1>4, <1>5, <1>6, <1>7, <1>8, <1>9, <1>10, <1>11, <1>12, <1>13 DEF Next

LEMMA NextStartInv == IInv /\ [Next]_vars => StartInv'
<1> SUFFICES ASSUME IInv, [Next]_vars PROVE StartInv'
  OBVIOUS
<1> USE BrokerNetworkAssumption DEF BrokerNetworkAssumption, Brokers
<1>1. TypeOK /\ AddInv /\ StartInv
  BY DEF IInv
<1>2. Type' = Type
  BY Fixed
<1>3. ASSUME UNCHANGED file, NEW i \in Brokers, Written(i)
      PROVE  Written(i)'
  BY <1>3, StaysWritten
<1>4. CASE BadArguments \/ Link \/ StartNet \/ OpenCli \/ StartBroker
  BY <1>1, <1>2, <1>3, <1>4
  DEF StartInv, BadArguments, Link, Raise, StartNet, OpenCli, StartBroker
<1>5. CASE CopyConf \/ AppendNodes \/ ParseTemplate \/ RemoveNode \/ WriteNodes
  BY <1>1, <1>5 DEF StartInv, AddInv, CopyConf, AppendNodes, ParseTemplate,
     RemoveNode, WriteNodes, Adding
<1>6. CASE AddDocker
  BY <1>1, <1>6 DEF StartInv, AddInv, AddDocker, Adding
<1>7. CASE AllAdded
  <2>1. /\ pc = "add" /\ pc' = "link" /\ cnt \notin Brokers /\ cnt \in 2..(N + 2)
        /\ UNCHANGED <<file, started>>
    BY <1>1, <1>7 DEF AllAdded, AddInv
  <2>2. cnt = N + 2 /\ Type \in Known
    BY <1>1, <2>1 DEF AddInv
  <2>3. \A i \in Brokers : Written(i)'
    BY <1>1, <1>3, <2>1, <2>2 DEF AddInv
  <2>4. QED
    BY <1>1, <1>2, <2>1, <2>2, <2>3 DEF StartInv
<1>8. CASE Stop \/ Again
  BY <1>8 DEF StartInv, Stop, Again
<1>9. CASE Fail
  <2>1. CASE started = {}
    BY <1>9, <2>1 DEF StartInv, Fail
  <2>2. CASE started # {}
    <3>1. pc # "write"
      BY <1>1, <2>2 DEF AddInv
    <3>2. UNCHANGED file
      BY <1>9, <3>1 DEF Fail
    <3>3. QED
      BY <1>1, <1>3, <1>9, <2>2, <3>2 DEF StartInv, Fail
  <2>3. QED
    BY <2>1, <2>2
<1>10. CASE Over \/ UNCHANGED vars
  BY <1>1, <1>2, <1>3, <1>10 DEF StartInv, Over, vars
<1>11. QED
  BY <1>4, <1>5, <1>6, <1>7, <1>8, <1>9, <1>10 DEF Next

LEMMA Inductive == Spec => []IInv
<1>1. IInv /\ [Next]_vars => IInv'
  BY NextTypeOK, NextAddInv, NextStartInv DEF IInv
<1>2. QED
  BY InitIInv, <1>1, PTL DEF Spec

-----------------------------------------------------------------------------
(* The theorems.                                                           *)

\* Every reachable state has the declared types.
THEOREM TypeCorrect == Spec => []TypeOK
<1>1. IInv => TypeOK
  BY DEF IInv
<1>2. QED
  BY Inductive, <1>1, PTL

\* At the command line the brokers can form one cluster, for any number of
\* them, unless rabbitmq was asked for in capital letters.
THEOREM OneClusterForms == Spec => []OneCluster
<1>1. ASSUME IInv, pc = "cli" PROVE OneCluster
  <2> USE BrokerNetworkAssumption DEF BrokerNetworkAssumption, Brokers, Others
  <2>1. /\ Type \in Known /\ args.type \in Types
        /\ \A i \in Brokers : Written(i)
    BY <1>1 DEF IInv, StartInv, TypeOK
  <2>2. CASE args.type = "RABBITMQ"
    <3>1. Type = "RABBITMQ"
      BY <2>2 DEF Type, Lower
    <3>2. \A i \in Brokers : file[i] = {Name("rabbitmq", j) : j \in Others(i)}
      BY <2>1, <3>1 DEF Written
    <3>3. \A i \in Brokers : Joins(i) = {}
      BY <2>2, <3>1, <3>2 DEF Joins, Name
    <3>4. QED
      BY <2>2, <3>3 DEF OneCluster
  <2>3. CASE args.type # "RABBITMQ"
    <3>1. 2 \in Brokers
      OBVIOUS
    <3>2. \A i \in Others(2) : 2 \in Joins(i)
      <4>1. CASE Type \in {"EMQX", "VERNEMQ"}
        BY <4>1 DEF Joins
      <4>2. CASE Type = "RABBITMQ"
        <5>1. args.type = "rabbitmq"
          BY <2>1, <2>3, <4>2 DEF Type, Lower, Types, Known
        <5>2. QED
          BY <2>1, <4>2, <5>1 DEF Joins, Written
      <4>3. CASE Type = "HIVEMQ"
        BY <2>1, <4>3 DEF Joins, Written
      <4>4. QED
        BY <2>1, <4>1, <4>2, <4>3 DEF Known
    <3>3. QED
      BY <2>3, <3>1, <3>2 DEF OneCluster
  <2>4. QED
    BY <2>2, <2>3
<1>2. IInv => OneCluster
  BY <1>1 DEF OneCluster
<1>3. QED
  BY Inductive, <1>2, PTL

\* Whatever earlier runs have left, a started broker is told of no node that is
\* not of the network, unless it stands at an even place of hivemq's template.
THEOREM NoForeignNodes == Spec => []NoForeignNode
<1>1. ASSUME IInv PROVE NoForeignNode
  <2> SUFFICES ASSUME Type \in {"RABBITMQ", "HIVEMQ"}, NEW i \in started, NEW j \in Foreign
               PROVE  Address(j) \in file[i] =>
                        /\ Type = "HIVEMQ"
                        /\ \E k \in DOMAIN template : template[k] = j /\ k % 2 = 0
    BY DEF NoForeignNode
  <2>1. i \in Brokers /\ Written(i)
    BY <1>1 DEF IInv, StartInv, TypeOK
  <2>2. j \notin Brokers
    BY BrokerNetworkAssumption DEF BrokerNetworkAssumption, Brokers
  <2>3. CASE Type = "RABBITMQ"
    BY <2>1, <2>3 DEF Written, Address, Name
  <2>4. CASE Type = "HIVEMQ"
    <3>1. Address(j) \in file[i] <=> j \in Survivors
      BY <2>1, <2>2, <2>4 DEF Written, Address
    <3>2. DOMAIN template = 1..Len(template) /\ Len(template) \in Nat
      BY <1>1, BrokerNetworkAssumption, LenProperties
      DEF BrokerNetworkAssumption, IInv, TypeOK
    <3>3. \A k \in DOMAIN template : k % 2 = 0 <=> \E m \in Nat : k = 2 * m
      BY <3>2
    <3>4. j \in Survivors <=> \E k \in DOMAIN template : template[k] = j /\ k % 2 = 0
      BY <3>3 DEF Survivors
    <3>5. QED
      BY <2>4, <3>1, <3>4
  <2>5. QED
    BY <2>3, <2>4
<1>2. QED
  BY Inductive, <1>1, PTL
=============================================================================
