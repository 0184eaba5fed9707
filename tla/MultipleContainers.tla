------------------------- MODULE MultipleContainers -------------------------
(***************************************************************************)
(* The configuration of a benchmark (MultipleContainers, ContainerClients  *)
(* and their validators in containers/local_subscriber.py; the copies in   *)
(* local_publisher.py are the same): how many containers, and a section    *)
(* for each that says which broker it works on, with which topics and how  *)
(* many clients.  The sections are listed in `containers`, or one section, *)
(* `default` or `all`, stands for a range of brokers.                      *)
(*                                                                         *)
(* An IPv4 address is a number, None is a missing item and Bad one that is *)
(* no address.  All ways to refuse a configuration, an exception, exit(1)  *)
(* or a failing iteration over None, are one outcome.                      *)
(***************************************************************************)
EXTENDS MultipleTopics

CONSTANT Bad   \* a string or value that ipaddress.IPv4Address refuses

-----------------------------------------------------------------------------
(* ContainerClients.                                                       *)

\* A broker or a range of brokers, not both.
ValidBroker(section) ==
  /\ (section.broker = None) # (section.ip_range = None)
  /\ section.broker # Bad
  /\ section.ip_range # None =>
       {section.ip_range.start, section.ip_range.stop} \cap {None, Bad} = {}

\* validate_sub_pubs and validate_count_clients.
ValidCounts(section) ==
  /\ \E kind \in Kinds : section.clients[kind] # 0
  /\ \A kind \in Kinds : section.clients[kind] > 0 => section.count[kind] # 0

\* The document that a path beginning with '.' names is read in its place.
Resolved(topic) == IF topic.kind = "path" THEN [topic EXCEPT !.kind = "dict"] ELSE topic

\* Mutant of ValidTopics: the clusters are compared one by one.
ValidTopicsSingly(section) ==
  /\ section.topic # None
  /\ LET topic == Resolved(section.topic)
         doc == topic.doc IN
     topic.kind = "dict" =>
       /\ doc # None /\ doc.clusters # None
       /\ \A c \in DOMAIN doc.clusters :
            /\ doc.clusters[c].topic # None
            /\ \E kind \in Kinds : doc.clusters[c].clients[kind] # 0
            /\ \A kind \in Kinds : doc.clusters[c].clients[kind] <= section.clients[kind]

\* __check_json_format.  A topic of another kind is not looked into.
ValidTopics(section) ==
  /\ section.topic # None
  /\ LET topic == Resolved(section.topic)
         doc == topic.doc IN
     topic.kind = "dict" =>
       /\ doc # None /\ doc.clusters # None
       /\ \A c \in DOMAIN doc.clusters :
            /\ doc.clusters[c].topic # None
            /\ \E kind \in Kinds : doc.clusters[c].clients[kind] # 0
       /\ \A kind \in Kinds : Demand(doc, kind) <= section.clients[kind]

ValidSection(section) == ValidCounts(section) /\ ValidBroker(section) /\ ValidTopics(section)

-----------------------------------------------------------------------------
(* MultipleContainers.__validate_json.                                     *)

NrAddresses(range) == range.stop - range.start + 1

Addresses(range) == range.start .. range.stop

Listed(config) == IF config.containers = None THEN <<>> ELSE config.containers

ValidAll(config) ==
  /\ config.containers = None /\ config.default = None
  /\ config.number # 0
  /\ ValidSection(config.all)
  /\ config.all.ip_range # None => NrAddresses(config.all.ip_range) = config.number

\* A list of containers needs a default, even if it is complete.
ValidContainers(config) ==
  Listed(config) # <<>> =>
    /\ Len(config.containers) <= config.number
    /\ config.default # None
    /\ \A i \in DOMAIN config.containers : ValidSection(config.containers[i])

\* Mutant of ValidDefault: brokers of the list may be in the range as well.
ValidDefaultOverlapping(config) ==
  config.default # None =>
    /\ config.number # 0
    /\ ValidSection(config.default)
    /\ config.default.ip_range # None =>
         NrAddresses(config.default.ip_range) = config.number - Len(Listed(config))

\* Mutant of ValidDefault: the range counts for all containers.
ValidDefaultWhole(config) ==
  config.default # None =>
    /\ config.number # 0
    /\ ValidSection(config.default)
    /\ config.default.ip_range # None =>
         /\ NrAddresses(config.default.ip_range) = config.number
         /\ \A i \in DOMAIN Listed(config) :
              config.containers[i].broker \notin Addresses(config.default.ip_range)

ValidDefault(config) ==
  config.default # None =>
    /\ config.number # 0
    /\ ValidSection(config.default)
    /\ config.default.ip_range # None =>
         /\ NrAddresses(config.default.ip_range) = config.number - Len(Listed(config))
         /\ \A i \in DOMAIN Listed(config) :
              config.containers[i].broker \notin Addresses(config.default.ip_range)

ValidConfig(config) ==
  /\ config.number # None
  /\ IF config.all # None THEN ValidAll(config)
                          ELSE ValidContainers(config) /\ ValidDefault(config)

-----------------------------------------------------------------------------
(* MultipleContainers.get_containers.                                      *)

\* hasattr of the property ip_range is true for any section, also for one
\* with a broker, whose ip_range is None and has no attribute get.
GetContainersRaises(config) ==
  \E section \in {config.all, config.default} : section # None /\ section.ip_range = None

\* section() hands on everything but the range.
Section(section, broker) ==
  [broker |-> broker, topic |-> Resolved(section.topic),
   clients |-> section.clients, count |-> section.count]

\* One section per address netaddr.iter_iprange enumerates.
FromRange(section) ==
  [i \in 1..NrAddresses(section.ip_range) |-> Section(section, section.ip_range.start + i - 1)]

GetContainers(config) ==
  IF config.all # None THEN FromRange(config.all)
  ELSE [i \in DOMAIN Listed(config) |-> Section(config.containers[i], config.containers[i].broker)]
         \o (IF config.default = None THEN <<>> ELSE FromRange(config.default))
=============================================================================
