---------------------------- MODULE BrokerNetwork ---------------------------
(***************************************************************************)
(* network_analysis/multi_container.py: a network of brokers on            *)
(* containernet.  For each broker it writes a configuration file, where    *)
(* the type needs one, and adds a container that mounts it; then it links  *)
(* the containers, starts them and hands over to the command line.         *)
(*                                                                         *)
(* Containernet and docker are external: any call may raise, nothing is    *)
(* caught, and the program ends where it is.  The files stay, and the      *)
(* program is run again with the same arguments.                           *)
(***************************************************************************)
EXTENDS Naturals, Sequences, SequencesExt

CONSTANTS
  N,          \* TOTAL_BROKERS
  Foreign,    \* addresses that are not of the network
  Old,        \* of these, the ones earlier networks had
  Templates,  \* lists of nodes that confiles/config-dns.xml may have
  MaxRuns     \* bound: runs of the program

ASSUME BrokerNetworkAssumption ==
  /\ N \in Nat \ {0} /\ MaxRuns \in Nat
  /\ Templates \subseteq Seq(Foreign) /\ Foreign \cap Nat = {}
  /\ Old \subseteq Foreign

VARIABLES
  args,      \* the type as it is typed, and whether -n and -d are given
  template,  \* the list of nodes in confiles/config-dns.xml
  pc,        \* where main() is
  cnt,       \* the broker the loop has come to
  nodes, at, \* cluster_nodes and the place of the loop that removes them
  file,      \* of each broker, the nodes listed in its configuration file
  started,   \* brokers that run
  runs       \* runs so far

vars == <<args, template, pc, cnt, nodes, at, file, started, runs>>

\* Brokers by the number in their names; broker i has the address 250 + i.
\* The file names another by its address or by a name it expects it to have.
Brokers == 2..(N + 1)
Address(i) == <<"address", i>>
Name(type, i) == <<type, i>>

\* args.cluster_type.upper() of a known type.
Known == {"EMQX", "RABBITMQ", "VERNEMQ", "HIVEMQ"}
Lower == [rabbitmq |-> "RABBITMQ", hivemq |-> "HIVEMQ"]
Types == Known \cup DOMAIN Lower \cup {"mosquitto"}
Type == IF args.type \in DOMAIN Lower THEN Lower[args.type] ELSE args.type

Others(i) == Brokers \ {i}

TypeOK ==
  /\ args \in [type : Types, number : BOOLEAN, delay : BOOLEAN]
  /\ template \in Templates /\ nodes \in Seq(Foreign) /\ at \in Nat
  /\ pc \in {"add", "remove", "write", "run", "link", "net", "start", "cli",
             "done", "crashed"}
  /\ cnt \in Nat /\ runs \in 1..MaxRuns
  /\ file \in [Brokers -> SUBSET
       ({Address(j) : j \in Brokers \cup Foreign} \cup {Name("rabbitmq", j) : j \in Brokers})]
  /\ started \subseteq Brokers

\* A file of an earlier run may list nodes that are not there any more, like
\* the files that are kept in src/confiles.
Init ==
  /\ args \in [type : Types, number : BOOLEAN, delay : BOOLEAN]
  /\ template \in Templates /\ nodes = <<>> /\ at = 1
  /\ pc = "add" /\ cnt = 2 /\ started = {} /\ runs = 1
  /\ file \in [Brokers -> SUBSET {Address(j) : j \in Old}]

Raise ==
  pc' = "crashed" /\ UNCHANGED <<args, template, cnt, nodes, at, file, started, runs>>

-----------------------------------------------------------------------------
(* cluster_type: a container for each broker.                              *)

\* -n gives a text, to which the first statement of the loop adds 2; of the
\* function for an unknown type no call has the right number of arguments.
BadArguments == pc = "add" /\ (args.number \/ Type \notin Known) /\ Raise

Adding(type) ==
  pc = "add" /\ cnt \in Brokers /\ ~args.number /\ Type = type

\* Mutant of CopyConf: the new lines go to the end of the old file.
CopyConfNot ==
  /\ Adding("RABBITMQ")
  /\ pc' = "write"
  /\ UNCHANGED <<args, template, cnt, nodes, at, file, started, runs>>

\* start_rabbitmq: a copy of rabbitmq.conf, which names no node.
CopyConf ==
  /\ Adding("RABBITMQ")
  /\ file' = [file EXCEPT ![cnt] = {}] /\ pc' = "write"
  /\ UNCHANGED <<args, template, cnt, nodes, at, started, runs>>

\* Mutant of AppendNodes: the comparison of addresses is reversed.
AppendNodesOwn ==
  /\ pc = "write" /\ Type = "RABBITMQ"
  /\ file' = [file EXCEPT ![cnt] = @ \cup {Name("rabbitmq", cnt)}]
  /\ pc' = "run"
  /\ UNCHANGED <<args, template, cnt, nodes, at, started, runs>>

\* The lines that are appended to it: all nodes but its own.
AppendNodes ==
  /\ pc = "write" /\ Type = "RABBITMQ"
  /\ file' = [file EXCEPT ![cnt] = @ \cup {Name("rabbitmq", i) : i \in Others(cnt)}]
  /\ pc' = "run"
  /\ UNCHANGED <<args, template, cnt, nodes, at, started, runs>>

\* start_hivemq: ET.parse(source_config_file_path).
ParseTemplate ==
  /\ Adding("HIVEMQ")
  /\ nodes' = template /\ at' = 1 /\ pc' = "remove"
  /\ UNCHANGED <<args, template, cnt, file, started, runs>>

\* for node in cluster_nodes: cluster_nodes.remove(node).  The loop goes on
\* with the next place of a list that has become shorter.
RemoveNode ==
  /\ pc = "remove" /\ at <= Len(nodes)
  /\ nodes' = RemoveAt(nodes, at) /\ at' = at + 1
  /\ UNCHANGED <<args, template, pc, cnt, file, started, runs>>

\* The addresses of all brokers are added and the file is written anew.
WriteNodes ==
  /\ pc = "remove" /\ at > Len(nodes)
  /\ file' = [file EXCEPT ![cnt] =
       {Address(i) : i \in Brokers} \cup {Address(nodes[k]) : k \in DOMAIN nodes}]
  /\ pc' = "run"
  /\ UNCHANGED <<args, template, cnt, nodes, at, started, runs>>

\* net.addDocker; start_emqx and start_vernemq need no file.
AddDocker ==
  /\ pc = "run" \/ Adding("EMQX") \/ Adding("VERNEMQ")
  /\ cnt' = cnt + 1 /\ pc' = "add"
  /\ UNCHANGED <<args, template, nodes, at, file, started, runs>>

\* The loop is over.
AllAdded ==
  /\ pc = "add" /\ cnt \notin Brokers /\ ~args.number
  /\ pc' = "link"
  /\ UNCHANGED <<args, template, cnt, nodes, at, file, started, runs>>

-----------------------------------------------------------------------------
(* main.                                                                   *)

\* -d gives a text, which the first link divides by 2.
Link ==
  /\ pc = "link"
  /\ IF args.delay THEN Raise
     ELSE pc' = "net" /\ UNCHANGED <<args, template, cnt, nodes, at, file, started, runs>>

\* net.start(); c.start() in the order of the list; CLI(net); net.stop().
StartNet ==
  /\ pc = "net" /\ pc' = "start"
  /\ UNCHANGED <<args, template, cnt, nodes, at, file, started, runs>>

StartBroker ==
  /\ pc = "start"
  /\ \E i \in Brokers \ started :
       /\ \A j \in Brokers \ started : i <= j
       /\ started' = started \cup {i}
  /\ UNCHANGED <<args, template, pc, cnt, nodes, at, file, runs>>

OpenCli ==
  /\ pc = "start" /\ started = Brokers
  /\ pc' = "cli"
  /\ UNCHANGED <<args, template, cnt, nodes, at, file, started, runs>>

Stop ==
  /\ pc = "cli"
  /\ pc' = "done" /\ started' = {}
  /\ UNCHANGED <<args, template, cnt, nodes, at, file, runs>>

\* containernet, docker or the file system raises; of a file that is being
\* written only some lines may be there.
Fail ==
  /\ pc \notin {"done", "crashed"}
  /\ pc' = "crashed"
  /\ IF pc = "write"
       THEN \E lines \in SUBSET {Name("rabbitmq", i) : i \in Others(cnt)} :
              file' = [file EXCEPT ![cnt] = @ \cup lines]
       ELSE UNCHANGED file
  /\ UNCHANGED <<args, template, cnt, nodes, at, started, runs>>

\* The user runs it again, after mn -c has removed what a failed run left.
Again ==
  /\ pc \in {"done", "crashed"} /\ runs < MaxRuns
  /\ runs' = runs + 1
  /\ pc' = "add" /\ cnt' = 2 /\ started' = {}
  /\ UNCHANGED <<args, template, nodes, at, file>>

Over == pc \in {"done", "crashed"} /\ runs = MaxRuns /\ UNCHANGED vars

Next ==
  \/ BadArguments \/ CopyConf \/ AppendNodes
  \/ ParseTemplate \/ RemoveNode \/ WriteNodes
  \/ AddDocker \/ AllAdded \/ Link \/ StartNet \/ StartBroker \/ OpenCli
  \/ Stop \/ Fail \/ Again \/ Over

Spec == Init /\ [][Next]_vars

-----------------------------------------------------------------------------
(* Properties.                                                             *)

\* The brokers that a started broker is told to join, by the names and
\* addresses they really have: container_name has the type as it is typed.
Joins(i) ==
  CASE Type = "EMQX" -> {2}
    [] Type = "VERNEMQ" -> {2}
    [] Type = "RABBITMQ" -> {j \in Brokers : Name(args.type, j) \in file[i]}
    [] Type = "HIVEMQ" -> {j \in Brokers : Address(j) \in file[i]}

\* When the user gets the command line the brokers can form one cluster: some
\* broker is joined by or joins every other.  The exception is rabbitmq asked
\* for in the capital letters of the help text: none can join another.
OneCluster ==
  pc = "cli" =>
    IF args.type = "RABBITMQ" THEN N > 1 => \A i \in Brokers : Joins(i) \subseteq {i}
    ELSE \E hub \in Brokers : \A i \in Others(hub) : hub \in Joins(i) \/ i \in Joins(hub)

\* A started broker is told of no node that is not of the network, whatever
\* earlier runs, interrupted anywhere, have left in the files.  The existing
\* elements are to be removed from a copy of the template, too, but the loop
\* steps over every second one: nodes at those places are not ruled out here.
NoForeignNode ==
  Type \in {"RABBITMQ", "HIVEMQ"} =>
    \A i \in started : \A j \in Foreign :
      Address(j) \in file[i] =>
        Type = "HIVEMQ" /\ \E k \in DOMAIN template : template[k] = j /\ k % 2 = 0
=============================================================================
