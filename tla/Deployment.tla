----------------------------- MODULE Deployment -----------------------------
(***************************************************************************)
(* From configurations to running clients: an orchestrator reads its       *)
(* configuration (MultipleContainers), creates a container per section     *)
(* (create_containers_from_json in containers/local_subscriber.py and      *)
(* local_publisher.py), or as many equal ones as its command line says     *)
(* (run of Subscribers and Publishers); what a container is to do goes     *)
(* through its environment (Parameters), and its program distributes the   *)
(* clients over topics when it starts (MultipleTopics).                    *)
(*                                                                         *)
(* Orchestrators started in one working directory write the documents of   *)
(* their containers under the same names config_files/config<index>.json;  *)
(* docker mounts the file, so a container reads what is there when its     *)
(* program starts.  Failures of docker are in Subscribers.                 *)
(***************************************************************************)
EXTENDS MultipleContainers, Parameters, FiniteSets

CONSTANTS
  Orchestrators,  \* processes Subscribers or Publishers in one directory
  Sections,       \* sections of configurations
  Configs,        \* configurations they may be given with --json-config
  CommandLines,   \* what they may be given without it
  MaxIndex        \* containers have indexes 1..MaxIndex (0.. in the code)

\* Clusters have numbers of clients.
DocTyped(doc) ==
  doc # None /\ doc.clusters # None =>
    /\ doc.clusters \in Seq(Range(doc.clusters))
    /\ \A c \in DOMAIN doc.clusters : doc.clusters[c].clients \in [Kinds -> Nat]

\* A topic that is not in a document is a name, or a list of names.
TopicTyped(topic) ==
  /\ topic.kind \in {"path", "file", "dict"} => DocTyped(topic.doc)
  /\ topic.kind = "name" => Range(topic.names) # {}
  /\ topic.kind = "list" => topic.names \notin Range(topic.names)

\* The json values: isinstance and IPv4Address refuse others before they are
\* used, and negative numbers of containers are left out.
ASSUME DeploymentAssumption ==
  /\ Configs \subseteq [number : Nat \cup {None}, containers : {None} \cup Seq(Sections),
                       all : {None} \cup Sections, default : {None} \cup Sections]
  /\ \A section \in Sections : section.ip_range # None =>
       section.ip_range \in [start : Int \cup {None, Bad}, stop : Int \cup {None, Bad}]
  /\ \A section \in Sections : \A kind \in Kinds : section.clients[kind] \in Nat
  /\ \A section \in Sections : section.topic # None => TopicTyped(section.topic)

\* Command lines the parsers accept, apart from --msg-size (see below).
ASSUME CommandLineAssumption ==
  \A line \in CommandLines :
       /\ line.kind \in Kinds             \* Subscribers or Publishers
       /\ line.number \in Nat             \* --containers
       /\ line.topic.kind \in {"name", "none"} /\ TopicTyped(line.topic)
       /\ {line.file, line.msg_size} \subseteq BOOLEAN
                                          \* are --multiple-topics, --msg-size given?
       /\ line.msg_size => line.kind = "pub"
       /\ \A key \in Numbers :           \* the other options, e.g. --sub-count
            /\ line.given[key] \subseteq Nat
            /\ \A x, y \in line.given[key] : x = y
            /\ line.given[key] # {} => ProgramDefaults(line.kind)[key] # {} \/ key = "port"

VARIABLES
  pc,          \* where create_containers_from_json is
  config,      \* the configuration or command line each orchestrator was given
  sections,    \* by index, what is to be done in the containers
  config_files,\* by index, the document in the directory config_files
  containers   \* the containers created so far, by index

vars == <<pc, config, sections, config_files, containers>>

\* A container gets a topic in its environment, or a document: in a file of
\* config_files or in a file of the user's.
Container(source, section, environment) ==
  [source |-> source, section |-> section, environment |-> environment,
   status |-> "created", launched |-> {}, doc |-> None, parameters |-> None]

TypeOK ==
  /\ pc \in [Orchestrators -> {"new", "expand", "create", "done", "failed"}]
  /\ config \in [Orchestrators -> Configs \cup CommandLines]
  /\ \A o \in Orchestrators : \A i \in DOMAIN containers[o] :
       /\ i \in DOMAIN sections[o] /\ containers[o][i].section = sections[o][i]
       /\ containers[o][i].status \in {"created", "running", "refused", "crashed"}

Init ==
  /\ pc = [o \in Orchestrators |-> "new"]
  /\ config \in [Orchestrators -> Configs \cup CommandLines]
  /\ sections = [o \in Orchestrators |-> <<>>]
  /\ config_files = [i \in 1..MaxIndex |-> None]
  /\ containers = [o \in Orchestrators |-> <<>>]

-----------------------------------------------------------------------------
(* The orchestrators.                                                      *)

\* MultipleContainers(json_config).
Validate(o) ==
  /\ pc[o] = "new" /\ config[o] \in Configs
  /\ pc' = [pc EXCEPT ![o] = IF ValidConfig(config[o]) THEN "expand" ELSE "failed"]
  /\ UNCHANGED <<config, sections, config_files, containers>>

Expand(o) ==
  /\ pc[o] = "expand"
  /\ IF GetContainersRaises(config[o])
       THEN pc' = [pc EXCEPT ![o] = "failed"] /\ UNCHANGED sections
       ELSE /\ pc' = [pc EXCEPT ![o] = "create"]
            /\ sections' = [sections EXCEPT ![o] = GetContainers(config[o])]
  /\ UNCHANGED <<config, config_files, containers>>

\* Without a configuration all containers get the same.
LineSection(line) ==
  LET number(key) ==
        LET value == LineArguments(line.kind, line.given)[key] IN
        IF value = {} THEN 0 ELSE The1(value) IN
  [broker |-> line.broker, topic |-> line.topic,
   clients |-> [sub |-> number("sub_clients"), pub |-> number("pub_clients")],
   count |-> [sub |-> number("sub_count"), pub |-> number("pub_count")]]

LineSections(line) == [i \in 1..line.number |-> LineSection(line)]

\* run without a configuration.  The parser refuses any --msg-size, for it
\* compares the length of the digits with the limit; --multiple-topics is
\* assigned to an argparse.Namespace as to a dictionary, which raises.
FromCommandLine(o) ==
  /\ pc[o] = "new" /\ config[o] \notin Configs
  /\ IF config[o].msg_size \/ config[o].file
       THEN pc' = [pc EXCEPT ![o] = "failed"] /\ UNCHANGED sections
       ELSE /\ pc' = [pc EXCEPT ![o] = "create"]
            /\ sections' = [sections EXCEPT ![o] = LineSections(config[o])]
  /\ UNCHANGED <<config, config_files, containers>>

\* What create_container is called with.
Arguments(o) ==
  IF config[o] \in Configs
    THEN SectionArguments(sections[o][Len(containers[o]) + 1])
    ELSE LineArguments(config[o].kind, config[o].given)

Add(o, source) ==
  containers' = [containers EXCEPT ![o] =
    Append(@, Container(source, sections[o][Len(@) + 1], Environment(Arguments(o))))]

\* The section of the next container.
Upcoming(o) == sections[o][Len(containers[o]) + 1]

Creating(o) == pc[o] = "create" /\ Len(containers[o]) < Len(sections[o])

\* A topic, or the text of a list of topics, goes into the environment.
CreateWithTopic(o) ==
  /\ Creating(o) /\ Upcoming(o).topic.kind \in {"name", "list", "none"}
  /\ Add(o, "env")
  /\ UNCHANGED <<pc, config, sections, config_files>>

\* A document is written to config_files and mounted from there.
CreateWithDocument(o) ==
  /\ Creating(o) /\ Upcoming(o).topic.kind = "dict"
  /\ config_files' = [config_files EXCEPT ![Len(containers[o]) + 1] = Upcoming(o).topic.doc]
  /\ Add(o, "config_files")
  /\ UNCHANGED <<pc, config, sections>>

\* A name that ends with .json and does not begin with '.' is mounted as it is.
CreateWithFile(o) ==
  /\ Creating(o) /\ Upcoming(o).topic.kind = "file"
  /\ IF Upcoming(o).topic.doc = None
       THEN pc' = [pc EXCEPT ![o] = "failed"] /\ UNCHANGED containers
       ELSE Add(o, "user") /\ UNCHANGED pc
  /\ UNCHANGED <<config, sections, config_files>>

Created(o) ==
  /\ pc[o] = "create" /\ Len(containers[o]) = Len(sections[o])
  /\ pc' = [pc EXCEPT ![o] = "done"]
  /\ UNCHANGED <<config, sections, config_files, containers>>

-----------------------------------------------------------------------------
(* The program of a container.                                             *)

\* What it reads at /home/multiple-topics.json.
Document(o, i) ==
  CASE containers[o][i].source = "env" -> None
    [] containers[o][i].source = "config_files" -> config_files[i]
    [] containers[o][i].source = "user" -> sections[o][i].topic.doc

\* Mutant of EnvTopics: the text of a list is one topic for everybody.
EnvTopicsText(topic, kind) ==
  IF topic.kind = "name" THEN Named(topic) ELSE {[name |-> topic.names, letters |-> FALSE]}

\* What a client makes of the text in the environment: a subscriber finds the
\* names in that of a list, a publisher takes it for one topic.
EnvTopics(topic, kind) ==
  IF topic.kind = "name" \/ kind = "sub" THEN Named(topic)
  ELSE {[name |-> topic.names, letters |-> FALSE]}

\* There is no topic that main() takes by default.
TopicClients(topic, clients) ==
  IF topic.kind = "none" THEN {}
  ELSE UNION {SingleTopicClients(EnvTopics(topic, kind), kind, clients) : kind \in Kinds}

\* initialize_log needs an address; check_json_format exits; append may raise;
\* and main() misses the results of clients that it has no topic for.
Outcome(doc, section, clients) ==
  IF section.broker \in {None, Bad} THEN "crashed"
  ELSE IF doc # None /\ ~CheckJsonFormat(doc, clients) THEN "refused"
  ELSE IF doc # None /\ AppendRaises(doc) THEN "crashed"
  ELSE IF doc = None /\ section.topic.kind = "none" /\ \E kind \in Kinds : clients[kind] # 0
         THEN "crashed"
  ELSE "running"

Launch(doc, section, clients) ==
  IF Outcome(doc, section, clients) # "running" THEN {}
  ELSE IF doc = None THEN TopicClients(section.topic, clients)
  ELSE MultipleTopicsClients(doc, clients)

Main(o, i) ==
  /\ i \in DOMAIN containers[o] /\ containers[o][i].status = "created"
  /\ LET doc == Document(o, i)
         section == containers[o][i].section
         parameters == ClientParameters(containers[o][i].environment)
         clients == ClientsOf(parameters) IN
     containers' = [containers EXCEPT ![o][i] =
       [@ EXCEPT !.status = Outcome(doc, section, clients),
                 !.launched = Launch(doc, section, clients),
                 !.doc = doc, !.parameters = parameters]]
  /\ UNCHANGED <<pc, config, sections, config_files>>

Deployed ==
  /\ \A o \in Orchestrators :
       /\ pc[o] \in {"done", "failed"}
       /\ \A i \in DOMAIN containers[o] : containers[o][i].status # "created"
  /\ UNCHANGED vars

Next ==
  \/ \E o \in Orchestrators :
       \/ Validate(o)
       \/ Expand(o)
       \/ FromCommandLine(o)
       \/ CreateWithTopic(o)
       \/ CreateWithDocument(o)
       \/ CreateWithFile(o)
       \/ Created(o)
       \/ \E i \in 1..MaxIndex : Main(o, i)
  \/ Deployed

Spec == Init /\ [][Next]_vars

-----------------------------------------------------------------------------
(* Properties.                                                             *)

Every == {c \in Orchestrators \X (1..MaxIndex) : c[2] \in DOMAIN containers[c[1]]}
The(c) == containers[c[1]][c[2]]
Launched(c, kind) == {client \in The(c).launched : client.kind = kind}

\* An orchestrator that creates containers creates as many as it is asked
\* for: a range of brokers fills up what the list leaves.
NumberOfContainers ==
  \A o \in Orchestrators :
    /\ pc[o] = "done"
    /\ config[o] \in Configs => config[o].all # None \/ config[o].default # None
    => Len(containers[o]) = config[o].number

\* No two containers of a configuration work on one broker, except where its
\* list says so.
BrokersDistinct ==
  \A c, d \in Every :
    /\ c # d /\ c[1] = d[1] /\ config[c[1]] \in Configs
    /\ The(c).section.broker = The(d).section.broker
    => {c[2], d[2]} \subseteq DOMAIN Listed(config[c[1]])

\* Two programs check a document.  What the orchestrator has let pass, and is
\* not overwritten, the container does not refuse.
CheckedDocumentsAccepted ==
  \A c \in Every :
    The(c).source = "config_files" /\ The(c).doc = The(c).section.topic.doc =>
      The(c).status # "refused"

\* A running container has all the clients its section asks for, except for
\* those that its document has neither a cluster nor a default topic for.
AllClientsLaunched ==
  \A c \in Every : \A kind \in Kinds :
    LET doc == The(c).doc
        wanted == The(c).section.clients[kind] IN
    The(c).status = "running" =>
      Cardinality(Launched(c, kind)) =
        IF doc # None /\ doc.default = None /\ doc.all = None
          THEN Demand(doc, kind) ELSE wanted

\* Clients of one id, of which a broker keeps only the last to connect, are
\* the last client of the clusters and the first one of the default topics.
SameIdOnlyAtTheSeam ==
  \A c \in Every : \A kind \in Kinds : \A p, q \in Launched(c, kind) :
    p # q /\ p.id = q.id =>
      /\ {p.part, q.part} = {"cluster", "default"}
      /\ p.id = Demand(The(c).doc, kind)

\* main() takes no more results than it has started clients: it would end in
\* ContainersQueueError, whatever the clients do.
ResultsOfLaunched ==
  \A c \in Every : \A kind \in Kinds :
    The(c).status = "running" =>
      Active(The(c).doc, The(c).section.clients)[kind] <= Cardinality(Launched(c, kind))

\* Clients that are given the same topic meet on it, in one container or in
\* two: subscribers and publishers with a name do, with a list they never do.
TopicsMeet ==
  \A c, d \in Every : \A p \in Launched(c, "sub"), q \in Launched(d, "pub") :
    The(c).doc = None /\ The(d).doc = None /\ The(c).section.topic = The(d).section.topic =>
      (p.topics \cap q.topics # {} <=> The(c).section.topic.kind = "name")

\* What the user has asked of a container's clients arrives at them through
\* three programs' tables of names: numbers of clients and messages and the
\* timeouts do, and no subscriber gets less time.  Nothing is said of the port
\* and the QoS: for them the container's own command line has defaults, which
\* come before what is asked for.
Asked(c) ==
  LET line == config[c[1]] IN
  IF line \in Configs
    THEN [sub_clients |-> The(c).section.clients.sub, sub_count |-> The(c).section.count.sub,
          pub_clients |-> The(c).section.clients.pub, pub_count |-> The(c).section.count.pub]
    ELSE [key \in {k \in Numbers \ {"port", "qos"} : line.given[k] # {}} |-> The1(line.given[key])]
ParametersReach ==
  \A c \in Every :
    LET parameters == The(c).parameters IN
    The(c).status # "created" =>
      /\ \A key \in DOMAIN Asked(c) : parameters[key] = Asked(c)[key]
      /\ SubTimeout(parameters) >= 2 * parameters.sub_timeout

\* A container works on the document of its own section.
OwnDocument ==
  \A c \in Every :
    The(c).status # "created" /\ The(c).source = "config_files" =>
      The(c).doc = The(c).section.topic.doc
=============================================================================
