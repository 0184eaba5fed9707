--------------------------- MODULE MultipleTopics ---------------------------
(***************************************************************************)
(* How the container program distributes its clients over topics           *)
(* (clients/container_python.py): the class MultipleTopics checks the      *)
(* document that describes clusters of clients, and main() starts one      *)
(* client per place in a cluster and the remaining ones on the default     *)
(* topics.                                                                 *)
(*                                                                         *)
(* A document has clusters, a sequence or None, and values `all` and       *)
(* `default`, each None, a string or a list of topics.                     *)
(***************************************************************************)
EXTENDS Integers, Sequences, Functions

CONSTANT None   \* what json.get returns for a missing key

Kinds == {"sub", "pub"}

Str(name) == [form |-> "str", names |-> <<name>>]
List(names) == [form |-> "list", names |-> names]

\* A topic is a name, or what list() makes of a string: its letters.
Named(value) == {[name |-> n, letters |-> FALSE] : n \in Range(value.names)}
Letters(value) == {[name |-> n, letters |-> TRUE] : n \in Range(value.names)}

-----------------------------------------------------------------------------
(* MultipleTopics.check_json_format.                                       *)

\* How many clients of a kind the first clusters have a place for, by their
\* number: a sum that the loops over the clusters carry along.
PlacesUpTo(doc, kind) ==
  LET upTo[c \in 0..Len(doc.clusters)] ==
        IF c = 0 THEN 0 ELSE upTo[c - 1] + doc.clusters[c].clients[kind]
  IN  upTo

\* The properties publishers and subscribers.
Demand(doc, kind) == PlacesUpTo(doc, kind)[Len(doc.clusters)]

CheckJsonFormat(doc, clients) ==
  /\ doc.clusters # None
  /\ \A c \in DOMAIN doc.clusters :
       /\ doc.clusters[c].topic # None
       /\ \E kind \in Kinds : doc.clusters[c].clients[kind] # 0
  /\ \A kind \in Kinds : Demand(doc, kind) <= clients[kind]

-----------------------------------------------------------------------------
(* The clients main() starts.  `part` tells the loops that start them      *)
(* apart; main() itself knows a client by its id only.                     *)

Client(kind, id, topics, part) ==
  [kind |-> kind, id |-> id, topics |-> topics, part |-> part]

\* The topics every client of the document gets.
AllTopics(doc) == IF doc.all = None THEN {} ELSE Named(doc.all)

\* append(*_all) takes exactly one argument; it is called for the first
\* cluster and for the default topics, before any client is started.
AppendRaises(doc) ==
  /\ doc.all # None /\ Len(doc.all.names) # 1
  /\ doc.clusters # <<>> \/ doc.default # None

\* list(_cluster[topic]).
ClusterTopics(doc, c) ==
  AllTopics(doc) \cup (IF doc.clusters[c].topic.form = "list"
                         THEN Named(doc.clusters[c].topic)
                         ELSE Letters(doc.clusters[c].topic))

\* Clients of a cluster are numbered on from those of the clusters before it.
ClusterClients(doc, kind) ==
  UNION {{Client(kind, PlacesUpTo(doc, kind)[c - 1] + place, ClusterTopics(doc, c), "cluster")
            : place \in 1..doc.clusters[c].clients[kind]} : c \in DOMAIN doc.clusters}

DefaultTopics(doc) ==
  IF doc.default = None THEN AllTopics(doc)
                        ELSE Named(doc.default) \cup AllTopics(doc)

\* Mutant of DefaultClients: their ids start one lower.
DefaultClientsLower(doc, kind, clients) ==
  IF doc.default = None /\ doc.all = None THEN {}
  ELSE {Client(kind, Demand(doc, kind) - 1 + ind, DefaultTopics(doc), "default")
          : ind \in 0..(clients[kind] - Demand(doc, kind) - 1)}

\* Mutant of DefaultClients: only a default section is served.
DefaultClientsNotAll(doc, kind, clients) ==
  IF doc.default = None THEN {}
  ELSE {Client(kind, Demand(doc, kind) + ind, DefaultTopics(doc), "default")
          : ind \in 0..(clients[kind] - Demand(doc, kind) - 1)}

\* The clients that no cluster has a place for.
DefaultClients(doc, kind, clients) ==
  IF doc.default = None /\ doc.all = None THEN {}
  ELSE {Client(kind, Demand(doc, kind) + ind, DefaultTopics(doc), "default")
          : ind \in 0..(clients[kind] - Demand(doc, kind) - 1)}

MultipleTopicsClients(doc, clients) ==
  UNION {ClusterClients(doc, kind) \cup DefaultClients(doc, kind, clients) : kind \in Kinds}

\* The clients of one kind that the parameter --topic gives their topics.
SingleTopicClients(topics, kind, clients) ==
  {Client(kind, i, topics, "single") : i \in 0..(clients[kind] - 1)}

\* Mutant of Active: with a document, too, main() waits for all its clients.
ActiveAll(doc, clients) == clients

\* _active_sub_clients and _active_pub_clients: how many results main() takes.
Active(doc, clients) ==
  IF doc = None THEN clients ELSE [kind \in Kinds |-> Demand(doc, kind)]
=============================================================================
