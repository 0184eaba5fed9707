---------------------------- MODULE MCDeployment ----------------------------
(* Configurations for Deployment: four addresses, up to three containers.  *)
EXTENDS Deployment

CONSTANTS a, b   \* topics

Clients(sub, pub) == [sub |-> sub, pub |-> pub]
Cluster(topic, sub, pub) == [topic |-> topic, clients |-> Clients(sub, pub)]
Doc(clusters, all, default) == [clusters |-> clusters, all |-> all, default |-> default]

OneCluster == <<Cluster(List(<<a>>), 1, 1)>>
TwoClusters == <<Cluster(List(<<a, b>>), 1, 0), Cluster(Str(a), 1, 1)>>

Values == {None, Str(a), List(<<b>>), List(<<a, b>>), List(<<>>)}

Docs ==
  {Doc(clusters, all, default) :
     clusters \in {<<>>, OneCluster, TwoClusters}, all \in Values, default \in Values}
  \cup {Doc(None, None, Str(a)),
        Doc(<<Cluster(None, 1, 0)>>, None, None),
        Doc(<<Cluster(Str(a), 0, 0)>>, None, Str(b)),
        Doc(<<Cluster(Str(a), 2, 0), Cluster(Str(b), 2, 0)>>, None, None)}

Topic(kind, names, doc) == [kind |-> kind, names |-> names, doc |-> doc]

Topics == {None, Topic("name", <<a>>, None), Topic("list", <<a, b>>, None)}
          \cup {Topic(kind, <<>>, doc) : kind \in {"path", "file"}, doc \in Docs \cup {None}}
          \cup {Topic("dict", <<>>, doc) : doc \in Docs}

MCSection(broker, ip_range, topic, clients, count) ==
  [broker |-> broker, ip_range |-> ip_range, topic |-> topic, clients |-> clients, count |-> count]

Interval(start, stop) == [start |-> start, stop |-> stop]

Plain == Topic("name", <<a>>, None)

Listable ==
  {MCSection(broker, None, Plain, Clients(1, 0), Clients(1, 0)) : broker \in {1, 2, Bad, None}}
Ranged ==
  {MCSection(None, ip_range, Topic("list", <<a, b>>, None), Clients(0, 2), Clients(0, 1)) :
     ip_range \in {Interval(1, 1), Interval(1, 3), Interval(2, 3), Interval(3, 3), Interval(2, 1)}}
Refused ==
  {MCSection(1, Interval(1, 2), Plain, Clients(1, 0), Clients(1, 0)),
   MCSection(None, Interval(1, None), Plain, Clients(1, 0), Clients(1, 0)),
   MCSection(None, Interval(Bad, 2), Plain, Clients(1, 0), Clients(1, 0)),
   MCSection(1, None, Plain, Clients(1, 1), Clients(1, 0))}

\* Sections with topics of all kinds, for the broker 1 or for those of a range.
WithTopic(broker, ip_range, topic) ==
  {MCSection(broker, ip_range, topic, clients, Clients(1, 1)) :
     clients \in {Clients(3, 1), Clients(2, 1), Clients(0, 0)}}

Config(number, list, all, default) ==
  [number |-> number, containers |-> list, all |-> all, default |-> default]

\* The numbers and brokers vary, then the topics and documents.
MCBrokers ==
  {Config(number, None, section, None) :
     number \in {None} \cup 0..3, section \in Ranged \cup Listable \cup Refused}
  \cup {Config(number, list, None, default) :
          number \in 0..3, default \in {None} \cup Listable \cup Ranged,
          list \in {None, <<>>} \cup {<<c>> : c \in Listable \cup Ranged}
                   \cup {<<c, d>> : c, d \in Listable}}
  \cup {Config(3, <<s>>, s, None) : s \in Ranged}

MCTopics ==
  UNION {{Config(1, None, section, None) : section \in WithTopic(None, Interval(1, 1), topic)} : topic \in Topics}
  \cup UNION {{Config(2, <<section>>, None, MCSection(None, Interval(2, 2), topic, Clients(2, 2), Clients(1, 1))) :
                  section \in WithTopic(1, None, Topic("dict", <<>>, Doc(OneCluster, Str(b), None)))} :
                topic \in {Plain} \cup {Topic("file", <<>>, doc) : doc \in {None} \cup Docs}}

MCConfigs == MCBrokers \cup MCTopics

\* Command lines: some with options, some that the programs fail on.
Nothing == [key \in Numbers |-> {}]
Line(kind, number, broker, topic, given, file, msg_size) ==
  [kind |-> kind, number |-> number, broker |-> broker, topic |-> topic,
   given |-> given, file |-> file, msg_size |-> msg_size]
MCGiven ==
  [sub |-> {Nothing, [Nothing EXCEPT !.port = {8883}, !.qos = {1}, !.sub_clients = {3}, !.sub_timeout = {2}],
            [Nothing EXCEPT !.sub_count = {4}, !.sub_timeout = {70}]},
   pub |-> {Nothing, [Nothing EXCEPT !.port = {1}, !.qos = {2}, !.pub_clients = {0}],
            [Nothing EXCEPT !.pub_count = {4}, !.pub_timeout = {10}]}]
MCCommandLines ==
  UNION {{Line(kind, number, broker, topic, given, FALSE, FALSE) :
            number \in 0..2, broker \in {None, Bad, 1}, topic \in {Plain, Topic("none", <<>>, None)},
            given \in MCGiven[kind]} : kind \in Kinds}
  \cup {Line("pub", 1, 1, Plain, Nothing, file, ~file) : file \in BOOLEAN}
MCNoLines == {}

SectionsOf(configs) ==
  UNION {{c.all, c.default} \cup Range(Listed(c)) : c \in configs} \ {None}
MCSections == SectionsOf(MCConfigs)

\* Two orchestrators, each with a document.
MCTwoConfigs ==
  {Config(1, None, MCSection(None, Interval(3, 3), Topic("dict", <<>>, Doc(OneCluster, None, default)),
                             Clients(2, 2), Clients(1, 1)), None) : default \in {None, Str(a), Str(b)}}
MCTwoSections == SectionsOf(MCTwoConfigs)
=============================================================================
