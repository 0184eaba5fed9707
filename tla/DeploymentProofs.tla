-------------------------- MODULE DeploymentProofs --------------------------
(***************************************************************************)
(* Theorems about Deployment, for all sets of configurations and command   *)
(* lines: types, the number of containers, that their brokers are          *)
(* distinct, and which parameters, topics and documents reach them.        *)
(***************************************************************************)
EXTENDS Deployment, FiniteSetTheorems, WellFoundedInduction, TLAPS

\* Ranges of valid sections are intervals of numbers.
LEMMA RangeTyped ==
  ASSUME NEW section \in Sections, ValidSection(section), section.ip_range # None
  PROVE  section.ip_range.start \in Int /\ section.ip_range.stop \in Int
BY DeploymentAssumption DEF ValidSection, ValidBroker

\* One section per address.
LEMMA FromRangeSeq ==
  ASSUME NEW section, NEW n \in Nat, NrAddresses(section.ip_range) = n
  PROVE  /\ FromRange(section) = [i \in 1..n |-> Section(section, section.ip_range.start + i - 1)]
         /\ FromRange(section) \in Seq(Range(FromRange(section)))
         /\ Len(FromRange(section)) = n
<1> DEFINE s == [i \in 1..n |-> Section(section, section.ip_range.start + i - 1)]
<1>1. FromRange(section) = s
  BY DEF FromRange
<1>2. DOMAIN s = 1..n /\ \A i \in 1..n : s[i] \in Range(s)
  BY DEF Range
<1>3. s \in [1..n -> Range(s)]
  <2> HIDE DEF s
  <2>1. s = [i \in DOMAIN s |-> s[i]]
    BY <1>2 DEF s
  <2> QED BY <1>2, <2>1
<1>4. s \in Seq(Range(s)) /\ Len(s) = n
  <2> HIDE DEF s
  <2> QED BY <1>2, <1>3
<1> QED BY <1>1, <1>4

\* Where the elements of a concatenation are.
LEMMA ConcatTyped ==
  ASSUME NEW s, s \in Seq(Range(s)), NEW t, t \in Seq(Range(t))
  PROVE  /\ DOMAIN (s \o t) = 1..(Len(s) + Len(t))
         /\ \A k \in 1..Len(s) : (s \o t)[k] = s[k]
         /\ \A k \in (Len(s) + 1)..(Len(s) + Len(t)) : (s \o t)[k] = t[k - Len(s)]
<1> DEFINE S == Range(s) \cup Range(t)
<1>1. s \in Seq(S) /\ t \in Seq(S)
  OBVIOUS
<1> HIDE DEF S
<1> QED BY <1>1

\* The fields of a configuration.
LEMMA ConfigTyped ==
  ASSUME NEW c \in Configs
  PROVE  /\ c.number \in Nat \cup {None}
         /\ c.containers \in {None} \cup Seq(Sections)
         /\ c.all \in {None} \cup Sections
         /\ c.default \in {None} \cup Sections
         /\ Listed(c) \in Seq(Sections)
         /\ Listed(c) # <<>> => Listed(c) = c.containers
BY DeploymentAssumption DEF Listed

\* An accepted configuration whose sections can be made yields a sequence of
\* them, the listed ones first.
LEMMA GetContainersSeq ==
  ASSUME NEW c \in Configs, ValidConfig(c), ~GetContainersRaises(c)
  PROVE  /\ DOMAIN GetContainers(c) = 1..Len(GetContainers(c))
         /\ Len(GetContainers(c)) \in Nat
         /\ c.all # None \/ c.default # None => Len(GetContainers(c)) = c.number
<1>1. c.number \in Nat
  BY ConfigTyped DEF ValidConfig
<1>2. CASE c.all # None
  <2>1. c.all \in Sections /\ c.all.ip_range # None
    BY <1>2, ConfigTyped DEF GetContainersRaises
  <2>2. NrAddresses(c.all.ip_range) = c.number
    BY <1>2, <2>1 DEF ValidConfig, ValidAll
  <2>3. GetContainers(c) = FromRange(c.all)
    BY <1>2 DEF GetContainers
  <2> QED BY <1>1, <2>2, <2>3, FromRangeSeq
<1>3. CASE c.all = None
  <2> DEFINE first == [i \in DOMAIN Listed(c) |-> Section(c.containers[i], c.containers[i].broker)]
  <2>1. Len(Listed(c)) \in Nat /\ DOMAIN Listed(c) = 1..Len(Listed(c))
    BY ConfigTyped
  <2>2. first \in Seq(Range(first)) /\ Len(first) = Len(Listed(c))
    BY <2>1 DEF Range
  <2>3. Len(Listed(c)) <= c.number
    <3>1. CASE Listed(c) = <<>>
      BY <1>1, <3>1
    <3>2. CASE Listed(c) # <<>>
      BY <1>3, <3>2, ConfigTyped DEF ValidConfig, ValidContainers
    <3> QED BY <3>1, <3>2
  <2>4. CASE c.default = None
    <3>1. GetContainers(c) = first \o <<>>
      BY <1>3, <2>4 DEF GetContainers
    <3> QED BY <1>3, <2>1, <2>2, <2>4, <3>1
  <2>5. CASE c.default # None
    <3> DEFINE rest == FromRange(c.default)
               n == c.number - Len(Listed(c))
    <3>1. c.default \in Sections /\ c.default.ip_range # None
      BY <2>5, ConfigTyped DEF GetContainersRaises
    <3>2. NrAddresses(c.default.ip_range) = n /\ n \in Nat
      BY <1>1, <1>3, <2>1, <2>3, <2>5, <3>1 DEF ValidConfig, ValidDefault
    <3>3. rest \in Seq(Range(rest)) /\ Len(rest) = n
      BY <3>2, FromRangeSeq
    <3>4. GetContainers(c) = first \o rest
      BY <1>3, <2>5 DEF GetContainers
    <3>5. first \in Seq(Range(first) \cup Range(rest)) /\ rest \in Seq(Range(first) \cup Range(rest))
      BY <2>2, <3>3
    <3>6. Len(first \o rest) = Len(first) + Len(rest)
          /\ first \o rest \in Seq(Range(first) \cup Range(rest))
      BY <3>5
    <3> HIDE DEF first, rest
    <3> QED BY <1>1, <2>1, <2>2, <3>2, <3>3, <3>4, <3>6
  <2> QED BY <2>4, <2>5
<1> QED BY <1>2, <1>3

\* Two of them with one broker are both listed.
LEMMA GetContainersDistinct ==
  ASSUME NEW c \in Configs, ValidConfig(c), ~GetContainersRaises(c),
         NEW i \in DOMAIN GetContainers(c), NEW j \in DOMAIN GetContainers(c), i # j,
         GetContainers(c)[i].broker = GetContainers(c)[j].broker
  PROVE  {i, j} \subseteq DOMAIN Listed(c)
<1>1. c.number \in Nat
  BY ConfigTyped DEF ValidConfig
<1>2. CASE c.all # None
  <2>1. c.all \in Sections /\ c.all.ip_range # None
    BY <1>2, ConfigTyped DEF GetContainersRaises
  <2>2. NrAddresses(c.all.ip_range) = c.number /\ ValidSection(c.all)
    BY <1>2, <2>1 DEF ValidConfig, ValidAll
  <2>3. GetContainers(c) = FromRange(c.all)
    BY <1>2 DEF GetContainers
  <2>4. c.all.ip_range.start \in Int
    BY <2>1, <2>2, RangeTyped
  <2>5. i \in Int /\ j \in Int
        /\ FromRange(c.all)[i].broker = c.all.ip_range.start + i - 1
        /\ FromRange(c.all)[j].broker = c.all.ip_range.start + j - 1
    BY <1>1, <2>2, <2>3 DEF FromRange, Section
  <2> QED BY <2>3, <2>4, <2>5
<1>3. CASE c.all = None
  <2> DEFINE first == [k \in DOMAIN Listed(c) |-> Section(c.containers[k], c.containers[k].broker)]
             m == Len(Listed(c))
  <2>1. m \in Nat /\ DOMAIN Listed(c) = 1..m
    BY ConfigTyped
  <2>2. first \in Seq(Range(first)) /\ Len(first) = m
    BY <2>1 DEF Range
  <2>3. CASE c.default = None
    <3>1. GetContainers(c) = first \o <<>>
      BY <1>3, <2>3 DEF GetContainers
    <3>2. DOMAIN (first \o <<>>) = 1..m
      <4> HIDE DEF first
      <4> QED BY <2>1, <2>2
    <3> QED BY <2>1, <3>1, <3>2
  <2>4. CASE c.default # None
    <3> DEFINE rest == FromRange(c.default)
               start == c.default.ip_range.start
               n == NrAddresses(c.default.ip_range)
    <3>1. c.default \in Sections /\ c.default.ip_range # None
      BY <2>4, ConfigTyped DEF GetContainersRaises
    <3>2. /\ ValidSection(c.default) /\ n = c.number - m
          /\ \A k \in 1..m : c.containers[k].broker \notin Addresses(c.default.ip_range)
      BY <1>3, <2>1, <2>4, <3>1 DEF ValidConfig, ValidDefault
    <3>3. start \in Int /\ c.default.ip_range.stop \in Int
      BY <3>1, <3>2, RangeTyped
    <3>4. m <= c.number
      <4>1. CASE Listed(c) = <<>>
        BY <1>1, <4>1
      <4>2. CASE Listed(c) # <<>>
        BY <1>3, <4>2, ConfigTyped DEF ValidConfig, ValidContainers
      <4> QED BY <4>1, <4>2
    <3>5. n \in Nat /\ rest \in Seq(Range(rest)) /\ Len(rest) = n
      BY <1>1, <2>1, <3>2, <3>4, FromRangeSeq
    <3>6. GetContainers(c) = first \o rest
      BY <1>3, <2>4 DEF GetContainers
    <3>7. /\ DOMAIN GetContainers(c) = 1..(m + n)
          /\ \A k \in 1..m : GetContainers(c)[k] = first[k]
          /\ \A k \in (m + 1)..(m + n) : GetContainers(c)[k] = rest[k - m]
      <4>1. Len(first) = m /\ Len(rest) = n /\ m \in Nat /\ n \in Nat
        BY <2>1, <2>2, <3>5
      <4> HIDE DEF first, rest, n, m
      <4>2. /\ DOMAIN (first \o rest) = 1..(Len(first) + Len(rest))
            /\ \A k \in 1..Len(first) : (first \o rest)[k] = first[k]
            /\ \A k \in (Len(first) + 1)..(Len(first) + Len(rest)) :
                 (first \o rest)[k] = rest[k - Len(first)]
        BY <2>2, <3>5, ConcatTyped
      <4> QED BY <3>6, <4>1, <4>2
    <3>8. \A k \in 1..m : GetContainers(c)[k].broker = c.containers[k].broker
      <4> SUFFICES ASSUME NEW k \in 1..m
                   PROVE  GetContainers(c)[k].broker = c.containers[k].broker
        OBVIOUS
      <4>1. first[k] = Section(c.containers[k], c.containers[k].broker)
        BY <2>1
      <4>2. GetContainers(c)[k] = first[k]
        BY <3>7
      <4> HIDE DEF first
      <4> QED BY <4>1, <4>2 DEF Section
    <3>9. \A k \in (m + 1)..(m + n) :
            /\ GetContainers(c)[k].broker = start + (k - m) - 1
            /\ GetContainers(c)[k].broker \in Addresses(c.default.ip_range)
      <4> SUFFICES ASSUME NEW k \in (m + 1)..(m + n)
                   PROVE  /\ GetContainers(c)[k].broker = start + (k - m) - 1
                          /\ GetContainers(c)[k].broker \in Addresses(c.default.ip_range)
        OBVIOUS
      <4>1. k - m \in 1..n
        BY <2>1, <3>5
      <4>2. rest[k - m].broker = start + (k - m) - 1
        BY <4>1 DEF FromRange, Section
      <4>3. GetContainers(c)[k].broker = start + (k - m) - 1
        BY <3>7, <4>2
      <4>4. n = c.default.ip_range.stop - start + 1
        BY DEF NrAddresses
      <4>5. start + (k - m) - 1 \in start .. c.default.ip_range.stop
        <5> HIDE DEF n, m, start
        <5> QED BY <2>1, <3>3, <3>5, <4>1, <4>4
      <4> QED BY <4>3, <4>5 DEF Addresses
    <3>10. CASE i \in 1..m /\ j \in 1..m
      BY <2>1, <3>10
    <3>11. CASE i \in (m + 1)..(m + n) /\ j \in (m + 1)..(m + n)
      BY <2>1, <3>3, <3>5, <3>9, <3>11
    <3>12. CASE i \in 1..m /\ j \in (m + 1)..(m + n)
      BY <3>2, <3>8, <3>9, <3>12
    <3>13. CASE j \in 1..m /\ i \in (m + 1)..(m + n)
      BY <3>2, <3>8, <3>9, <3>13
    <3>14. i \in 1..(m + n) /\ j \in 1..(m + n)
      BY <3>7
    <3> QED BY <2>1, <3>5, <3>10, <3>11, <3>12, <3>13, <3>14
  <2> QED BY <2>3, <2>4
<1> QED BY <1>2, <1>3

-----------------------------------------------------------------------------
(* The inductive invariant: what an orchestrator works through is what its *)
(* accepted configuration yields, and the containers follow it in order.   *)

Types ==
  /\ pc \in [Orchestrators -> {"new", "expand", "create", "done", "failed"}]
  /\ config \in [Orchestrators -> Configs \cup CommandLines]
  /\ DOMAIN sections = Orchestrators
  /\ DOMAIN containers = Orchestrators

Yields(o) ==
  IF config[o] \in Configs
    THEN /\ ValidConfig(config[o]) /\ ~GetContainersRaises(config[o])
         /\ sections[o] = GetContainers(config[o])
    ELSE sections[o] = LineSections(config[o])

SectionsYielded ==
  \A o \in Orchestrators :
    /\ pc[o] = "expand" => config[o] \in Configs /\ ValidConfig(config[o])
    /\ pc[o] \in {"new", "expand"} => containers[o] = <<>>
    /\ pc[o] \in {"create", "done"} => Yields(o)
    /\ containers[o] # <<>> => Yields(o)

InOrder ==
  \A o \in Orchestrators :
    /\ containers[o] \in Seq(Range(containers[o]))
    /\ \A i \in 1..Len(containers[o]) :
         i \in DOMAIN sections[o] /\ containers[o][i].section = sections[o][i]
    /\ pc[o] = "done" => Len(containers[o]) = Len(sections[o])

IInv == Types /\ SectionsYielded /\ InOrder

\* Both kinds of sections are a sequence.
LEMMA YieldsSeq ==
  ASSUME NEW o \in Orchestrators, Yields(o), config[o] \in Configs \cup CommandLines
  PROVE  /\ DOMAIN sections[o] = 1..Len(sections[o]) /\ Len(sections[o]) \in Nat
         /\ config[o] \notin Configs => Len(sections[o]) = config[o].number
<1>1. CASE config[o] \in Configs
  BY <1>1, GetContainersSeq DEF Yields
<1>2. CASE config[o] \notin Configs
  <2> DEFINE line == config[o]
             n == line.number
             section == LineSection(line)
             s == [i \in 1..n |-> section]
  <2>1. n \in Nat
    BY <1>2, CommandLineAssumption
  <2>2. sections[o] = s
    BY <1>2 DEF Yields, LineSections
  <2>3. s \in Seq({section}) /\ Len(s) = n
    <3> HIDE DEF section, n
    <3> QED BY <2>1
  <2> HIDE DEF s
  <2> QED BY <1>2, <2>1, <2>2, <2>3
<1> QED BY <1>1, <1>2

LEMMA InitIInv == Init => IInv
<1> SUFFICES ASSUME Init PROVE IInv
  OBVIOUS
<1> USE DEF Init
<1>1. Types
  BY DEF Types
<1>2. SectionsYielded
  BY DEF SectionsYielded
<1>3. InOrder
  BY DEF InOrder, Range
<1> QED BY <1>1, <1>2, <1>3 DEF IInv

\* A sequence that grows, and one whose elements change.
LEMMA AppendTyped ==
  ASSUME NEW s, s \in Seq(Range(s)), NEW e
  PROVE  LET t == Append(s, e) IN
         /\ t \in Seq(Range(t)) /\ t # <<>>
         /\ Len(t) = Len(s) + 1 /\ t[Len(t)] = e
         /\ \A i \in 1..Len(s) : t[i] = s[i]
<1> DEFINE S == Range(s) \cup {e}
           t == Append(s, e)
<1>1. s \in Seq(S) /\ e \in S
  OBVIOUS
<1>2. /\ t \in Seq(S) /\ Len(t) = Len(s) + 1 /\ t[Len(t)] = e /\ t # <<>>
      /\ \A i \in 1..Len(s) : t[i] = s[i]
  <2> HIDE DEF S
  <2> QED BY <1>1
<1>3. t \in Seq(Range(t))
  <2> HIDE DEF t, S
  <2> QED BY <1>2 DEF Range
<1> QED BY <1>2, <1>3

LEMMA ExceptTyped ==
  ASSUME NEW s, s \in Seq(Range(s)), NEW k \in DOMAIN s, NEW e
  PROVE  LET t == [s EXCEPT ![k] = e] IN
         /\ t \in Seq(Range(t)) /\ t # <<>> /\ s # <<>>
         /\ Len(t) = Len(s) /\ t[k] = e
         /\ \A i \in 1..Len(s) : i # k => t[i] = s[i]
<1> DEFINE S == Range(s) \cup {e}
           t == [s EXCEPT ![k] = e]
<1>1. s \in Seq(S) /\ e \in S
  OBVIOUS
<1>2. /\ t \in Seq(S) /\ Len(t) = Len(s) /\ t[k] = e /\ t # <<>> /\ s # <<>>
      /\ \A i \in 1..Len(s) : i # k => t[i] = s[i]
  <2> HIDE DEF S
  <2> QED BY <1>1
<1>3. t \in Seq(Range(t))
  <2> HIDE DEF t, S
  <2> QED BY <1>2 DEF Range
<1> QED BY <1>2, <1>3

\* Creating appends a container for the next section.
LEMMA AddIInv ==
  ASSUME IInv, NEW o \in Orchestrators, NEW source, Creating(o), Add(o, source),
         UNCHANGED <<pc, config, sections>>
  PROVE  IInv'
<1> DEFINE s == containers[o]
           e == Container(source, sections[o][Len(s) + 1], Environment(Arguments(o)))
<1>1. s \in Seq(Range(s)) /\ Len(s) \in Nat /\ Yields(o) /\ pc[o] = "create"
  BY DEF IInv, SectionsYielded, InOrder, Creating
<1>2. containers' = [containers EXCEPT ![o] = Append(s, e)]
  BY DEF Add
<1>3. containers'[o] = Append(s, e) /\ DOMAIN containers' = Orchestrators
      /\ \A p \in Orchestrators : p # o => containers'[p] = containers[p]
  BY <1>2 DEF IInv, Types
<1>4. config[o] \in Configs \cup CommandLines
  BY DEF IInv, Types
<1>5. Len(s) + 1 \in DOMAIN sections[o]
  BY <1>1, <1>4, YieldsSeq DEF Creating
<1>6. e.section = sections[o][Len(s) + 1]
  BY DEF Container
<1>7. Types'
  BY <1>3 DEF IInv, Types
<1>8. SectionsYielded'
  BY <1>1, <1>3 DEF IInv, SectionsYielded, Yields
<1>9. InOrder'
  <2> SUFFICES ASSUME NEW p \in Orchestrators
               PROVE  /\ containers'[p] \in Seq(Range(containers'[p]))
                      /\ \A i \in 1..Len(containers'[p]) :
                           i \in DOMAIN sections[p] /\ containers'[p][i].section = sections[p][i]
                      /\ pc[p] = "done" => Len(containers'[p]) = Len(sections[p])
    BY DEF InOrder
  <2>1. CASE p # o
    BY <1>3, <2>1 DEF IInv, InOrder
  <2>2. CASE p = o
    <3>1. \A i \in 1..Len(s) : i \in DOMAIN sections[o] /\ s[i].section = sections[o][i]
      BY DEF IInv, InOrder
    <3> DEFINE t == Append(s, e)
    <3>2. /\ t \in Seq(Range(t)) /\ Len(t) = Len(s) + 1 /\ t[Len(t)] = e
          /\ \A i \in 1..Len(s) : t[i] = s[i]
      <4> HIDE DEF s, e
      <4> QED BY <1>1, AppendTyped
    <3>3. containers'[o] = t /\ pc[o] # "done"
      BY <1>1, <1>3
    <3> HIDE DEF s, e, t
    <3> QED BY <1>1, <1>5, <1>6, <2>2, <3>1, <3>2, <3>3
  <2> QED BY <2>1, <2>2
<1> QED BY <1>7, <1>8, <1>9 DEF IInv

LEMMA NextIInv == IInv /\ [Next]_vars => IInv'
<1> SUFFICES ASSUME IInv, [Next]_vars PROVE IInv'
  OBVIOUS
<1>1. CASE UNCHANGED vars
  BY <1>1 DEF vars, IInv, Types, SectionsYielded, InOrder, Yields
<1>2. ASSUME NEW o \in Orchestrators, Validate(o) PROVE IInv'
  BY <1>2 DEF Validate, IInv, Types, SectionsYielded, InOrder, Yields
<1>3. ASSUME NEW o \in Orchestrators, Expand(o) PROVE IInv'
  <2>1. containers[o] = <<>> /\ containers' = containers /\ config' = config
        /\ ValidConfig(config[o]) /\ config[o] \in Configs
    BY <1>3 DEF Expand, IInv, SectionsYielded
  <2>2. Types'
    BY <1>3 DEF Expand, IInv, Types
  <2>3. SectionsYielded'
    BY <1>3, <2>1 DEF Expand, IInv, Types, SectionsYielded, Yields
  <2>4. InOrder'
    BY <1>3, <2>1 DEF Expand, IInv, Types, InOrder
  <2> QED BY <2>2, <2>3, <2>4 DEF IInv
<1>4. ASSUME NEW o \in Orchestrators, CreateWithTopic(o) PROVE IInv'
  BY <1>4, AddIInv DEF CreateWithTopic
<1>5. ASSUME NEW o \in Orchestrators, CreateWithDocument(o) PROVE IInv'
  BY <1>5, AddIInv DEF CreateWithDocument
<1>6. ASSUME NEW o \in Orchestrators, CreateWithFile(o) PROVE IInv'
  <2>1. CASE Upcoming(o).topic.doc = None
    BY <1>6, <2>1 DEF CreateWithFile, IInv, Types, SectionsYielded, InOrder, Yields
  <2>2. CASE Upcoming(o).topic.doc # None
    BY <1>6, <2>2, AddIInv DEF CreateWithFile
  <2> QED BY <2>1, <2>2
<1>7. ASSUME NEW o \in Orchestrators, Created(o) PROVE IInv'
  BY <1>7 DEF Created, IInv, Types, SectionsYielded, InOrder, Yields
<1>8. ASSUME NEW o \in Orchestrators, NEW k \in 1..MaxIndex, Main(o, k) PROVE IInv'
  <2> DEFINE s == containers[o]
  <2>1. PICK e : /\ containers' = [containers EXCEPT ![o] = [s EXCEPT ![k] = e]]
                 /\ e.section = s[k].section
    <3>1. PICK doc, parameters, status, launched :
            containers' = [containers EXCEPT ![o][k] =
              [@ EXCEPT !.status = status, !.launched = launched,
                        !.doc = doc, !.parameters = parameters]]
      BY <1>8 DEF Main
    <3> DEFINE e == [s[k] EXCEPT !.status = status, !.launched = launched,
                                 !.doc = doc, !.parameters = parameters]
    <3>2. containers' = [containers EXCEPT ![o] = [s EXCEPT ![k] = e]]
      BY <1>8, <3>1 DEF Main, IInv, Types
    <3>3. e.section = s[k].section
      OBVIOUS
    <3> QED BY <3>2, <3>3
  <2>2. /\ k \in DOMAIN s /\ s \in Seq(Range(s))
        /\ UNCHANGED <<pc, config, sections>>
    BY <1>8 DEF Main, IInv, InOrder
  <2>3. /\ containers'[o] = [s EXCEPT ![k] = e] /\ DOMAIN containers' = Orchestrators
        /\ \A p \in Orchestrators : p # o => containers'[p] = containers[p]
    BY <2>1 DEF IInv, Types
  <2>4. /\ containers'[o] \in Seq(Range(containers'[o])) /\ s # <<>>
        /\ Len(containers'[o]) = Len(s)
        /\ \A i \in 1..Len(s) : containers'[o][i].section = s[i].section
    <3> DEFINE t == [s EXCEPT ![k] = e]
    <3>1. /\ t \in Seq(Range(t)) /\ s # <<>> /\ Len(t) = Len(s) /\ t[k] = e
          /\ \A i \in 1..Len(s) : i # k => t[i] = s[i]
      <4> HIDE DEF s
      <4> QED BY <2>2, ExceptTyped
    <3>2. containers'[o] = t
      BY <2>3
    <3> HIDE DEF s, t
    <3> QED BY <2>1, <3>1, <3>2
  <2>5. Types'
    BY <2>2, <2>3 DEF IInv, Types
  <2>6. SectionsYielded'
    BY <2>2, <2>3, <2>4 DEF IInv, SectionsYielded, Yields
  <2>7. InOrder'
    BY <2>2, <2>3, <2>4 DEF IInv, InOrder
  <2> QED BY <2>5, <2>6, <2>7 DEF IInv
<1>9. CASE Deployed
  BY <1>1, <1>9 DEF Deployed
<1>10. ASSUME NEW o \in Orchestrators, FromCommandLine(o) PROVE IInv'
  <2>1. containers[o] = <<>> /\ containers' = containers /\ config' = config
        /\ config[o] \notin Configs
    BY <1>10 DEF FromCommandLine, IInv, SectionsYielded
  <2>2. Types'
    BY <1>10 DEF FromCommandLine, IInv, Types
  <2>3. SectionsYielded'
    BY <1>10, <2>1 DEF FromCommandLine, IInv, Types, SectionsYielded, Yields
  <2>4. InOrder'
    BY <1>10, <2>1 DEF FromCommandLine, IInv, Types, InOrder
  <2> QED BY <2>2, <2>3, <2>4 DEF IInv
<1> QED BY <1>1, <1>2, <1>3, <1>4, <1>5, <1>6, <1>7, <1>8, <1>9, <1>10 DEF Next

LEMMA Inductive == Spec => []IInv
BY InitIInv, NextIInv, PTL DEF Spec

-----------------------------------------------------------------------------

\* An orchestrator that has created its containers has created as many as
\* its configuration asks for, whatever ranges and lists it gives.
THEOREM AsManyAsAsked == Spec => []NumberOfContainers
<1>1. IInv => NumberOfContainers
  <2> SUFFICES ASSUME IInv, NEW o \in Orchestrators, pc[o] = "done",
                      config[o] \in Configs => config[o].all # None \/ config[o].default # None
               PROVE  Len(containers[o]) = config[o].number
    BY DEF NumberOfContainers
  <2>1. /\ config[o] \in Configs \cup CommandLines
        /\ Yields(o) /\ Len(containers[o]) = Len(sections[o])
    BY DEF IInv, Types, SectionsYielded, InOrder
  <2>2. CASE config[o] \in Configs
    BY <2>1, <2>2, GetContainersSeq DEF Yields
  <2>3. CASE config[o] \notin Configs
    BY <2>1, <2>3, YieldsSeq
  <2> QED BY <2>2, <2>3
<1> QED BY <1>1, Inductive, PTL

\* Two containers of an orchestrator share a broker only if the list gives it
\* twice: ranges neither repeat an address nor run into the list.
THEOREM OneContainerPerBroker == Spec => []BrokersDistinct
<1>1. IInv => BrokersDistinct
  <2> SUFFICES ASSUME IInv, NEW c \in Every, NEW d \in Every, c # d, c[1] = d[1],
                      config[c[1]] \in Configs,
                      The(c).section.broker = The(d).section.broker
               PROVE  {c[2], d[2]} \subseteq DOMAIN Listed(config[c[1]])
    BY DEF BrokersDistinct
  <2> DEFINE o == c[1]
             i == c[2]
             j == d[2]
  <2>1. /\ o \in Orchestrators /\ d[1] = o /\ i # j
        /\ i \in DOMAIN containers[o] /\ j \in DOMAIN containers[o]
    BY DEF Every
  <2>2. /\ containers[o] \in Seq(Range(containers[o]))
        /\ \A k \in 1..Len(containers[o]) :
             k \in DOMAIN sections[o] /\ containers[o][k].section = sections[o][k]
    BY <2>1 DEF IInv, InOrder
  <2>3. i \in 1..Len(containers[o]) /\ j \in 1..Len(containers[o]) /\ containers[o] # <<>>
    BY <2>1, <2>2
  <2>4. Yields(o) /\ config[o] \in Configs
    BY <2>1, <2>3 DEF IInv, SectionsYielded
  <2>5. sections[o][i].broker = sections[o][j].broker
    BY <2>1, <2>2, <2>3 DEF The
  <2> QED BY <2>1, <2>2, <2>3, <2>4, <2>5, GetContainersDistinct DEF Yields
<1> QED BY <1>1, Inductive, PTL

-----------------------------------------------------------------------------
(* What a container is made of, and what its program made of that.         *)

ArgumentsOf(o, i) ==
  IF config[o] \in Configs THEN SectionArguments(sections[o][i])
                           ELSE LineArguments(config[o].kind, config[o].given)

Fields == {"source", "section", "environment", "status", "launched", "doc", "parameters"}

\* The ways topics of the different kinds take into a container.
Fits(source, topic) ==
  \/ source = "env" /\ topic.kind \in {"name", "list", "none"}
  \/ source = "config_files" /\ topic.kind = "dict"
  \/ source = "user" /\ topic.kind = "file" /\ topic.doc # None

Ran(container) ==
  LET clients == ClientsOf(container.parameters) IN
  /\ container.parameters = ClientParameters(container.environment)
  /\ container.status = Outcome(container.doc, container.section, clients)
  /\ container.launched = Launch(container.doc, container.section, clients)
  /\ container.doc = None => container.source = "env"
  /\ DocTyped(container.doc)

Right(section, arguments, container) ==
  /\ DOMAIN container = Fields
  /\ container.section = section
  /\ container.environment = Environment(arguments)
  /\ Fits(container.source, container.section.topic)
  /\ IF container.status = "created" THEN container.launched = {} ELSE Ran(container)

AllRight ==
  \A o \in Orchestrators : \A i \in 1..Len(containers[o]) :
    Right(sections[o][i], ArgumentsOf(o, i), containers[o][i])

\* Whoever writes a file of config_files writes a document.
FilesWritten ==
  /\ DOMAIN config_files = 1..MaxIndex
  /\ \A i \in 1..MaxIndex : DocTyped(config_files[i])
  /\ \A o \in Orchestrators : \A i \in DOMAIN containers[o] \cap (1..MaxIndex) :
       containers[o][i].source = "config_files" => config_files[i] # None

RInv == IInv /\ AllRight /\ FilesWritten

LEMMA OutcomeTyped ==
  ASSUME NEW doc, NEW section, NEW clients
  PROVE  Outcome(doc, section, clients) \in {"running", "refused", "crashed"}
BY DEF Outcome

\* Where the sections come from: those of a configuration have been checked.
LEMMA GetContainersValid ==
  ASSUME NEW c \in Configs, ValidConfig(c), ~GetContainersRaises(c),
         NEW i \in DOMAIN GetContainers(c)
  PROVE  \E section \in Sections : \E broker :
           ValidSection(section) /\ GetContainers(c)[i] = Section(section, broker)
<1>1. c.number \in Nat
  BY ConfigTyped DEF ValidConfig
<1>2. CASE c.all # None
  <2>1. c.all \in Sections /\ c.all.ip_range # None
    BY <1>2, ConfigTyped DEF GetContainersRaises
  <2>2. NrAddresses(c.all.ip_range) = c.number /\ ValidSection(c.all)
    BY <1>2, <2>1 DEF ValidConfig, ValidAll
  <2>3. GetContainers(c) = FromRange(c.all)
    BY <1>2 DEF GetContainers
  <2>4. GetContainers(c)[i] = Section(c.all, c.all.ip_range.start + i - 1)
    BY <2>3 DEF FromRange
  <2> QED BY <2>1, <2>2, <2>4
<1>3. CASE c.all = None
  <2> DEFINE first == [k \in DOMAIN Listed(c) |-> Section(c.containers[k], c.containers[k].broker)]
             m == Len(Listed(c))
             rest == IF c.default = None THEN <<>> ELSE FromRange(c.default)
             n == Len(rest)
  <2>1. m \in Nat /\ DOMAIN Listed(c) = 1..m
    BY ConfigTyped
  <2>2. first \in Seq(Range(first)) /\ Len(first) = m
    BY <2>1 DEF Range
  <2>3. /\ rest \in Seq(Range(rest)) /\ n \in Nat
        /\ c.default = None => n = 0
        /\ c.default # None => c.default \in Sections /\ ValidSection(c.default)
             /\ \A k \in 1..n : rest[k] = Section(c.default, c.default.ip_range.start + k - 1)
    <3>1. CASE c.default = None
      BY <3>1 DEF Range
    <3>2. CASE c.default # None
      <4>1. c.default \in Sections /\ c.default.ip_range # None
        BY <3>2, ConfigTyped DEF GetContainersRaises
      <4>2. ValidSection(c.default) /\ NrAddresses(c.default.ip_range) = c.number - m
        BY <1>3, <2>1, <3>2, <4>1 DEF ValidConfig, ValidDefault
      <4>3. m <= c.number
        <5>1. CASE Listed(c) = <<>>
          BY <1>1, <5>1
        <5>2. CASE Listed(c) # <<>>
          BY <1>3, <5>2, ConfigTyped DEF ValidConfig, ValidContainers
        <5> QED BY <5>1, <5>2
      <4>4. c.number - m \in Nat
        BY <1>1, <2>1, <4>3
      <4>5. /\ rest \in Seq(Range(rest)) /\ n = c.number - m
            /\ rest = [k \in 1..(c.number - m) |-> Section(c.default, c.default.ip_range.start + k - 1)]
        BY <3>2, <4>2, <4>4, FromRangeSeq
      <4> QED BY <3>2, <4>1, <4>2, <4>4, <4>5
    <3> QED BY <3>1, <3>2
  <2>4. GetContainers(c) = first \o rest
    BY <1>3 DEF GetContainers
  <2>5. /\ DOMAIN GetContainers(c) = 1..(m + n)
        /\ \A k \in 1..m : GetContainers(c)[k] = first[k]
        /\ \A k \in (m + 1)..(m + n) : GetContainers(c)[k] = rest[k - m]
    <3> HIDE DEF first, rest
    <3>1. /\ DOMAIN (first \o rest) = 1..(Len(first) + Len(rest))
          /\ \A k \in 1..Len(first) : (first \o rest)[k] = first[k]
          /\ \A k \in (Len(first) + 1)..(Len(first) + Len(rest)) :
               (first \o rest)[k] = rest[k - Len(first)]
      BY <2>2, <2>3, ConcatTyped
    <3> HIDE DEF m
    <3> QED BY <2>2, <2>4, <3>1
  <2>6. CASE i \in 1..m
    <3>1. Listed(c) = c.containers /\ c.containers[i] \in Sections /\ ValidSection(c.containers[i])
      BY <1>3, <2>1, <2>6, ConfigTyped DEF ValidConfig, ValidContainers
    <3>2. first[i] = Section(c.containers[i], c.containers[i].broker)
      BY <2>1, <2>6
    <3> QED BY <2>5, <2>6, <3>1, <3>2
  <2>7. CASE i \in (m + 1)..(m + n)
    <3> HIDE DEF m, n, first, rest
    <3>1. i - m \in 1..n /\ n # 0
      BY <2>1, <2>3, <2>7
    <3>2. c.default # None
      BY <2>3, <3>1
    <3>3. GetContainers(c)[i] = Section(c.default, c.default.ip_range.start + (i - m) - 1)
      BY <2>3, <2>5, <2>7, <3>1, <3>2
    <3> QED BY <2>3, <3>2, <3>3
  <2> QED
    <3> HIDE DEF m, n, first, rest
    <3> QED BY <2>1, <2>3, <2>5, <2>6, <2>7
<1> QED BY <1>2, <1>3

\* What any section of an orchestrator looks like.
LEMMA SectionsValid ==
  ASSUME NEW o \in Orchestrators, Yields(o), config[o] \in Configs \cup CommandLines,
         NEW i \in DOMAIN sections[o]
  PROVE  /\ config[o] \in Configs =>
              \E section \in Sections : \E broker :
                ValidSection(section) /\ sections[o][i] = Section(section, broker)
         /\ config[o] \notin Configs =>
              config[o] \in CommandLines /\ sections[o][i] = LineSection(config[o])
BY GetContainersValid DEF Yields, LineSections

\* A topic is not None, names are as in the assumptions, and a document has
\* passed the orchestrator's check.
LEMMA TopicsValid ==
  ASSUME NEW o \in Orchestrators, Yields(o), config[o] \in Configs \cup CommandLines,
         NEW i \in DOMAIN sections[o]
  PROVE  LET topic == sections[o][i].topic IN
         /\ TopicTyped(topic)
         /\ topic.kind = "dict" =>
              /\ config[o] \in Configs
              /\ topic.doc # None
              /\ CheckJsonFormat(topic.doc, sections[o][i].clients)
<1> DEFINE s == sections[o][i]
<1>1. CASE config[o] \in Configs
  <2>1. PICK section \in Sections : \E broker : ValidSection(section) /\ s = Section(section, broker)
    BY <1>1, SectionsValid
  <2>2. section.topic # None /\ s.topic = Resolved(section.topic) /\ s.clients = section.clients
    BY <2>1 DEF Section, ValidSection, ValidTopics
  <2>3. TopicTyped(s.topic)
    <3>1. CASE section.topic.kind = "path"
      <4>1. s.topic.kind = "dict" /\ s.topic.doc = section.topic.doc
        BY <2>2, <3>1 DEF Resolved
      <4>2. DocTyped(section.topic.doc)
        BY <2>2, <3>1, DeploymentAssumption DEF TopicTyped
      <4> HIDE DEF s
      <4> QED BY <4>1, <4>2 DEF TopicTyped
    <3>2. CASE section.topic.kind # "path"
      BY <2>2, <3>2, DeploymentAssumption DEF Resolved
    <3> QED BY <3>1, <3>2
  <2>4. s.topic.kind = "dict" => s.topic.doc # None /\ CheckJsonFormat(s.topic.doc, s.clients)
    BY <2>1, <2>2 DEF ValidSection, ValidTopics, CheckJsonFormat
  <2> HIDE DEF s
  <2> QED BY <1>1, <2>3, <2>4 DEF s
<1>2. CASE config[o] \notin Configs
  <2> DEFINE line == config[o]
  <2>1. s = LineSection(line) /\ line \in CommandLines
    BY <1>2, SectionsValid
  <2>2. LineSection(line).topic = line.topic
    BY DEF LineSection
  <2>3. line.topic.kind \in {"name", "none"} /\ TopicTyped(line.topic)
    BY <2>1, CommandLineAssumption
  <2> HIDE DEF s, line
  <2> QED BY <2>1, <2>2, <2>3 DEF s
<1> QED BY <1>1, <1>2

LEMMA InitRInv == Init => RInv
BY InitIInv DEF Init, RInv, AllRight, FilesWritten, DocTyped

\* A container that is created is right, and leaves the others as they are.
LEMMA AddRight ==
  ASSUME RInv, NEW o \in Orchestrators, NEW source, Creating(o), Add(o, source),
         Fits(source, Upcoming(o).topic), UNCHANGED <<pc, config, sections>>,
         DOMAIN config_files' = 1..MaxIndex,
         \A i \in 1..MaxIndex : DocTyped(config_files'[i]),
         \A i \in 1..MaxIndex : config_files[i] # None => config_files'[i] # None,
         source = "config_files" /\ Len(containers[o]) + 1 \in 1..MaxIndex
           => config_files'[Len(containers[o]) + 1] # None
  PROVE  AllRight' /\ FilesWritten'
<1> DEFINE s == containers[o]
           k == Len(s) + 1
           e == Container(source, sections[o][k], Environment(Arguments(o)))
           t == Append(s, e)
<1>1. s \in Seq(Range(s)) /\ Len(s) \in Nat
  BY DEF RInv, IInv, InOrder
<1>2. /\ t \in Seq(Range(t)) /\ Len(t) = k /\ t[k] = e
      /\ \A i \in 1..Len(s) : t[i] = s[i]
  <2> HIDE DEF s, e
  <2> QED BY <1>1, AppendTyped
<1>3. /\ containers'[o] = t
      /\ \A p \in Orchestrators : p # o => containers'[p] = containers[p]
  BY DEF Add, RInv, IInv, Types
<1>4. Right(sections[o][k], ArgumentsOf(o, k), e)
  <2>1. /\ DOMAIN e = Fields /\ e.section = sections[o][k] /\ e.status = "created"
        /\ e.launched = {} /\ e.source = source /\ e.environment = Environment(Arguments(o))
    BY DEF Container, Fields
  <2>2. Arguments(o) = ArgumentsOf(o, k)
    BY DEF Arguments, ArgumentsOf
  <2>3. Fits(source, sections[o][k].topic)
    BY DEF Upcoming
  <2> HIDE DEF e, k
  <2> QED BY <2>1, <2>2, <2>3 DEF Right
<1>5. AllRight'
  <2> SUFFICES ASSUME NEW p \in Orchestrators, NEW i \in 1..Len(containers'[p])
               PROVE  Right(sections[p][i], ArgumentsOf(p, i), containers'[p][i])
    BY DEF AllRight, ArgumentsOf
  <2>1. CASE p # o
    BY <1>3, <2>1 DEF RInv, AllRight
  <2>2. CASE p = o /\ i \in 1..Len(s)
    BY <1>2, <1>3, <2>2 DEF RInv, AllRight
  <2>3. CASE p = o /\ i = k
    <3> HIDE DEF t, e, k
    <3> QED BY <1>2, <1>3, <1>4, <2>3
  <2>4. p = o => i \in 1..k
    <3> HIDE DEF t, k
    <3> QED BY <1>2, <1>3
  <2> HIDE DEF t, s, e
  <2> QED BY <1>1, <2>1, <2>2, <2>3, <2>4
<1>6. FilesWritten'
  <2> SUFFICES ASSUME NEW p \in Orchestrators, NEW i \in DOMAIN containers'[p], i \in 1..MaxIndex,
                      containers'[p][i].source = "config_files"
               PROVE  config_files'[i] # None
    BY DEF FilesWritten, DocTyped
  <2>1. CASE p # o
    BY <1>3, <2>1 DEF RInv, FilesWritten
  <2>2. CASE p = o /\ i \in 1..Len(s)
    <3>1. i \in DOMAIN s /\ s[i].source = "config_files"
      BY <1>1, <1>2, <1>3, <2>2
    <3> QED BY <2>2, <3>1 DEF RInv, FilesWritten
  <2>3. CASE p = o /\ i = k
    <3>1. e.source = source
      BY DEF Container
    <3> HIDE DEF e, t
    <3>2. source = "config_files"
      BY <1>2, <1>3, <2>3, <3>1
    <3> QED BY <2>3, <3>2
  <2>4. p = o => i \in 1..k
    <3> HIDE DEF t, k
    <3> QED BY <1>2, <1>3
  <2> HIDE DEF t, s, e
  <2> QED BY <1>1, <2>1, <2>2, <2>3, <2>4
<1> QED BY <1>5, <1>6

\* So is one whose program has started.
LEMMA MainRight ==
  ASSUME RInv, NEW o \in Orchestrators, NEW k \in 1..MaxIndex, Main(o, k)
  PROVE  AllRight' /\ FilesWritten'
<1> DEFINE s == containers[o]
           doc == Document(o, k)
           parameters == ClientParameters(s[k].environment)
           clients == ClientsOf(parameters)
           status == Outcome(doc, s[k].section, clients)
           launched == Launch(doc, s[k].section, clients)
           e == [s[k] EXCEPT !.status = status, !.launched = launched,
                             !.doc = doc, !.parameters = parameters]
           t == [s EXCEPT ![k] = e]
<1>1. s \in Seq(Range(s)) /\ k \in DOMAIN s /\ k \in 1..Len(s)
  BY DEF Main, RInv, IInv, InOrder
<1>2. Right(sections[o][k], ArgumentsOf(o, k), s[k]) /\ s[k].status = "created"
  BY <1>1 DEF RInv, AllRight, Main
<1>3. /\ containers'[o] = t
      /\ \A p \in Orchestrators : p # o => containers'[p] = containers[p]
      /\ UNCHANGED <<pc, config, sections, config_files>>
  BY DEF Main, RInv, IInv, Types
<1>4. /\ DOMAIN t = DOMAIN s /\ Len(t) = Len(s) /\ t[k] = e
      /\ \A i \in 1..Len(s) : i # k => t[i] = s[i]
  <2> HIDE DEF s, e
  <2>1. /\ t \in Seq(Range(t)) /\ Len(t) = Len(s) /\ t[k] = e
        /\ \A i \in 1..Len(s) : i # k => t[i] = s[i]
    BY <1>1, ExceptTyped
  <2> QED BY <2>1
<1>5. /\ DOMAIN e = Fields
      /\ e.section = s[k].section /\ e.environment = s[k].environment /\ e.source = s[k].source
      /\ e.status = status /\ e.launched = launched /\ e.doc = doc /\ e.parameters = parameters
  <2>1. DOMAIN s[k] = Fields
    BY <1>2 DEF Right
  <2> HIDE DEF s, status, launched, doc, parameters
  <2> QED BY <2>1 DEF Fields
<1>6. status # "created"
  BY OutcomeTyped
<1>7. doc = None => e.source = "env"
  <2>1. CASE s[k].source = "config_files"
    BY <1>1, <2>1 DEF Document, RInv, FilesWritten
  <2>2. CASE s[k].source = "user"
    BY <1>2, <2>2 DEF Document, Right, Fits
  <2>3. s[k].source \in {"env", "config_files", "user"}
    BY <1>2 DEF Right, Fits
  <2> QED BY <1>5, <2>1, <2>2, <2>3
<1>8. DocTyped(doc)
  <2>1. CASE s[k].source = "config_files"
    BY <1>1, <2>1 DEF Document, RInv, FilesWritten
  <2>2. CASE s[k].source = "user"
    <3>1. doc = sections[o][k].topic.doc
      BY <2>2 DEF Document
    <3>2. k \in DOMAIN sections[o] /\ sections[o][k].topic.kind = "file"
      BY <1>1, <1>2, <2>2 DEF Right, Fits, RInv, IInv, InOrder
    <3>3. Yields(o) /\ config[o] \in Configs \cup CommandLines
      BY <1>1 DEF RInv, IInv, Types, SectionsYielded
    <3>4. DocTyped(sections[o][k].topic.doc)
      BY <3>2, <3>3, TopicsValid DEF TopicTyped
    <3> QED BY <3>1, <3>4
  <2>3. CASE s[k].source = "env"
    BY <2>3 DEF Document, DocTyped
  <2>4. s[k].source \in {"env", "config_files", "user"}
    BY <1>2 DEF Right, Fits
  <2> QED BY <2>1, <2>2, <2>3, <2>4
<1>9. Right(sections[o][k], ArgumentsOf(o, k), e)
  <2> HIDE DEF e
  <2>1. Ran(e)
    <3> HIDE DEF doc
    <3> QED BY <1>5, <1>7, <1>8 DEF Ran
  <2> HIDE DEF status, launched, doc, parameters
  <2> QED BY <1>2, <1>5, <1>6, <2>1 DEF Right
<1> HIDE DEF e
<1>10. AllRight'
  <2> SUFFICES ASSUME NEW p \in Orchestrators, NEW i \in 1..Len(containers'[p])
               PROVE  Right(sections[p][i], ArgumentsOf(p, i), containers'[p][i])
    BY <1>3 DEF AllRight, ArgumentsOf
  <2> HIDE DEF t
  <2>1. CASE p # o
    BY <1>3, <2>1 DEF RInv, AllRight
  <2>2. CASE p = o /\ i # k
    BY <1>3, <1>4, <2>2 DEF RInv, AllRight
  <2>3. CASE p = o /\ i = k
    BY <1>3, <1>4, <1>9, <2>3
  <2> QED BY <2>1, <2>2, <2>3
<1>11. FilesWritten'
  <2> SUFFICES ASSUME NEW p \in Orchestrators, NEW i \in DOMAIN containers'[p], i \in 1..MaxIndex,
                      containers'[p][i].source = "config_files"
               PROVE  config_files[i] # None
    BY <1>3 DEF RInv, FilesWritten
  <2>1. i \in DOMAIN containers[p] /\ containers[p][i].source = "config_files"
    <3> HIDE DEF t
    <3>1. CASE p # o
      BY <1>3, <3>1
    <3>2. CASE p = o
      <4>1. i \in DOMAIN s /\ i \in 1..Len(s)
        BY <1>1, <1>3, <1>4, <3>2
      <4> QED BY <1>3, <1>4, <1>5, <3>2, <4>1
    <3> QED BY <3>1, <3>2
  <2> QED BY <2>1 DEF RInv, FilesWritten
<1> QED BY <1>10, <1>11

LEMMA NextRInv == RInv /\ [Next]_vars => RInv'
<1> SUFFICES ASSUME RInv, [Next]_vars PROVE AllRight' /\ FilesWritten'
  BY NextIInv DEF RInv
<1>1. ASSUME UNCHANGED <<config, config_files, containers>>,
             \A p \in Orchestrators : containers[p] # <<>> => sections'[p] = sections[p]
      PROVE  AllRight' /\ FilesWritten'
  <2>1. AllRight'
    <3> SUFFICES ASSUME NEW p \in Orchestrators, NEW i \in 1..Len(containers[p])
                 PROVE  Right(sections'[p][i], ArgumentsOf(p, i)', containers[p][i])
      BY <1>1 DEF AllRight
    <3>1. containers[p] # <<>>
      OBVIOUS
    <3>2. sections'[p] = sections[p] /\ ArgumentsOf(p, i)' = ArgumentsOf(p, i)
      BY <1>1, <3>1 DEF ArgumentsOf
    <3> QED BY <3>2 DEF RInv, AllRight
  <2>2. FilesWritten'
    BY <1>1 DEF RInv, FilesWritten
  <2> QED BY <2>1, <2>2
<1>2. CASE UNCHANGED vars
  BY <1>1, <1>2 DEF vars
<1>3. ASSUME NEW o \in Orchestrators, Validate(o) PROVE AllRight' /\ FilesWritten'
  BY <1>1, <1>3 DEF Validate
<1>4. ASSUME NEW o \in Orchestrators, Expand(o) \/ FromCommandLine(o)
      PROVE  AllRight' /\ FilesWritten'
  <2>1. containers[o] = <<>>
    BY <1>4 DEF Expand, FromCommandLine, RInv, IInv, SectionsYielded
  <2> QED BY <1>1, <1>4, <2>1 DEF Expand, FromCommandLine, RInv, IInv, Types
<1>5. ASSUME NEW o \in Orchestrators, CreateWithTopic(o) PROVE AllRight' /\ FilesWritten'
  BY <1>5, AddRight DEF CreateWithTopic, Fits, RInv, FilesWritten
<1>6. ASSUME NEW o \in Orchestrators, CreateWithDocument(o) PROVE AllRight' /\ FilesWritten'
  <2> DEFINE n == Len(containers[o]) + 1
  <2>1. n \in DOMAIN sections[o] /\ Yields(o) /\ config[o] \in Configs \cup CommandLines
    <3>1. /\ Yields(o) /\ config[o] \in Configs \cup CommandLines
          /\ Len(containers[o]) \in Nat /\ Len(containers[o]) < Len(sections[o])
      BY <1>6 DEF CreateWithDocument, Creating, RInv, IInv, Types, SectionsYielded, InOrder
    <3> QED BY <3>1, YieldsSeq
  <2>2. Upcoming(o).topic.kind = "dict" /\ Upcoming(o).topic.doc # None
    BY <1>6, <2>1, TopicsValid DEF CreateWithDocument, Upcoming
  <2>3. config_files' = [config_files EXCEPT ![n] = Upcoming(o).topic.doc]
        /\ DOMAIN config_files = 1..MaxIndex
    BY <1>6 DEF CreateWithDocument, RInv, FilesWritten
  <2>4. /\ DOMAIN config_files' = 1..MaxIndex
        /\ \A i \in 1..MaxIndex : config_files[i] # None => config_files'[i] # None
        /\ n \in 1..MaxIndex => config_files'[n] # None
    BY <2>2, <2>3
  <2>5. DocTyped(Upcoming(o).topic.doc)
    BY <2>1, <2>2, TopicsValid DEF Upcoming, TopicTyped
  <2>6. \A j \in 1..MaxIndex : DocTyped(config_files'[j])
    BY <2>3, <2>5 DEF RInv, FilesWritten
  <2> QED BY <1>6, <2>2, <2>4, <2>6, AddRight DEF CreateWithDocument, Fits
<1>7. ASSUME NEW o \in Orchestrators, CreateWithFile(o) PROVE AllRight' /\ FilesWritten'
  <2>1. CASE Upcoming(o).topic.doc = None
    BY <1>1, <1>7, <2>1 DEF CreateWithFile
  <2>2. CASE Upcoming(o).topic.doc # None
    BY <1>7, <2>2, AddRight DEF CreateWithFile, Fits, RInv, FilesWritten
  <2> QED BY <2>1, <2>2
<1>8. ASSUME NEW o \in Orchestrators, Created(o) PROVE AllRight' /\ FilesWritten'
  BY <1>1, <1>8 DEF Created
<1>9. ASSUME NEW o \in Orchestrators, NEW k \in 1..MaxIndex, Main(o, k)
      PROVE  AllRight' /\ FilesWritten'
  BY <1>9, MainRight
<1>10. CASE Deployed
  BY <1>2, <1>10 DEF Deployed
<1> QED BY <1>2, <1>3, <1>4, <1>5, <1>6, <1>7, <1>8, <1>9, <1>10 DEF Next

LEMMA RightInductive == Spec => []RInv
BY InitRInv, NextRInv, PTL DEF Spec

\* Every reachable state of Deployment has the declared types, and the
\* containers of an orchestrator are those of its sections, in their order.
THEOREM TypeCorrect == Spec => []TypeOK
<1>1. RInv => TypeOK
  <2> SUFFICES ASSUME RInv, NEW o \in Orchestrators, NEW i \in DOMAIN containers[o]
               PROVE  /\ i \in DOMAIN sections[o] /\ containers[o][i].section = sections[o][i]
                      /\ containers[o][i].status \in {"created", "running", "refused", "crashed"}
    BY DEF TypeOK, RInv, IInv, Types
  <2>1. i \in 1..Len(containers[o])
    BY DEF RInv, IInv, InOrder
  <2>2. containers[o][i].status \in {"created", "running", "refused", "crashed"}
    BY <2>1, OutcomeTyped DEF RInv, AllRight, Right, Ran
  <2> QED BY <2>1, <2>2 DEF RInv, IInv, InOrder
<1> QED BY <1>1, RightInductive, PTL

-----------------------------------------------------------------------------
(* What reaches the clients.                                               *)

LEMMA The1Single == ASSUME NEW x PROVE The1({x}) = x
BY DEF The1

\* The variable of a number holds this number: no two share one.
LEMMA ReadsBack ==
  ASSUME NEW arguments, NEW key \in Numbers
  PROVE  Environment(arguments)[Read[key]] = arguments[key]
<1>1. \A k \in Numbers : Written[k] = Written[key] => k = key
  BY DEF Numbers, Written
<1>2. Read[key] = Written[key]
  BY DEF Read, Written
<1>3. {k \in Numbers : Written[k] = Written[key]} = {key}
  BY <1>1
<1>4. {arguments[k] : k \in {key}} = {arguments[key]} /\ UNION {arguments[key]} = arguments[key]
  OBVIOUS
<1>5. Environment(arguments)[Written[key]]
        = UNION {arguments[k] : k \in {k \in Numbers : Written[k] = Written[key]}}
  BY DEF Environment
<1> QED BY <1>2, <1>3, <1>4, <1>5

\* What the container's program makes of the arguments of create_container.
LEMMA ParametersRead ==
  ASSUME NEW arguments
  PROVE  LET parameters == ClientParameters(Environment(arguments)) IN
         /\ parameters.port = 1883 /\ parameters.qos = 0
         /\ \A key \in Numbers \ {"port", "qos"} :
              parameters[key] = IF arguments[key] = {} THEN Default(key) ELSE The1(arguments[key])
<1> DEFINE parameters == ClientParameters(Environment(arguments))
<1>1. \A key \in Numbers : parameters[key] = SetValue(ContainerLine[key], arguments[key], Default(key))
  BY ReadsBack DEF ClientParameters
<1>2. ContainerLine["port"] = {1883} /\ ContainerLine["qos"] = {0}
      /\ \A key \in Numbers \ {"port", "qos"} : ContainerLine[key] = {}
  BY DEF ContainerLine, Numbers
<1>3. parameters["port"] = 1883 /\ parameters["qos"] = 0
  <2>1. {"port", "qos"} \subseteq Numbers
    BY DEF Numbers
  <2>2. \A key \in {"port", "qos"} :
          /\ ContainerLine[key] # {}
          /\ The1(ContainerLine[key]) \in ContainerLine[key]
    BY <1>2 DEF The1
  <2>3. The1(ContainerLine["port"]) = 1883 /\ The1(ContainerLine["qos"]) = 0
    BY <1>2, <2>2
  <2> HIDE DEF parameters
  <2> QED BY <1>1, <2>1, <2>2, <2>3 DEF SetValue
<1>4. \A key \in Numbers \ {"port", "qos"} :
        parameters[key] = IF arguments[key] = {} THEN Default(key) ELSE The1(arguments[key])
  BY <1>1, <1>2 DEF SetValue
<1> QED BY <1>3, <1>4

\* The numbers of clients and messages of a section are those of the
\* parameters, and no subscriber gets less than the timeout.
LEMMA SectionRead ==
  ASSUME NEW section, \A kind \in Kinds : section.clients[kind] \in Nat
  PROVE  LET parameters == ClientParameters(Environment(SectionArguments(section))) IN
         /\ parameters.sub_clients = section.clients.sub
         /\ parameters.sub_count = section.count.sub
         /\ parameters.pub_clients = section.clients.pub
         /\ parameters.pub_count = section.count.pub
         /\ SubTimeout(parameters) >= 2 * parameters.sub_timeout
<1> DEFINE arguments == SectionArguments(section)
           parameters == ClientParameters(Environment(arguments))
<1>1. /\ arguments["sub_clients"] = {section.clients.sub}
      /\ arguments["sub_count"] = {section.count.sub}
      /\ arguments["pub_clients"] = {section.clients.pub}
      /\ arguments["pub_count"] = {section.count.pub}
      /\ arguments["sub_timeout"] = {}
  BY DEF SectionArguments, Numbers
<1>2. \A key \in {"sub_clients", "sub_count", "pub_clients", "pub_count", "sub_timeout"} :
        /\ parameters[key] = IF arguments[key] = {} THEN Default(key) ELSE The1(arguments[key])
  <2>1. {"sub_clients", "sub_count", "pub_clients", "pub_count", "sub_timeout"}
           \subseteq Numbers \ {"port", "qos"}
    BY DEF Numbers
  <2> HIDE DEF arguments
  <2> QED BY <2>1, ParametersRead
<1> HIDE DEF parameters, arguments
<1>3. \A x : {x} # {} /\ The1({x}) = x
  BY The1Single
<1>4. /\ parameters["sub_clients"] = section.clients.sub
      /\ parameters["sub_count"] = section.count.sub
      /\ parameters["pub_clients"] = section.clients.pub
      /\ parameters["pub_count"] = section.count.pub
  BY <1>1, <1>2, <1>3
<1>5. parameters["sub_timeout"] = 60
  BY <1>1, <1>2 DEF Default
<1>6. section.clients.sub \in Nat
  BY DEF Kinds
<1>7. SubTimeout(parameters) >= 2 * parameters.sub_timeout
  BY <1>4, <1>5, <1>6 DEF SubTimeout
<1> QED BY <1>4, <1>7 DEF parameters, arguments

\* So are those of the command line, where it gives any.
LEMMA LineRead ==
  ASSUME NEW line \in CommandLines
  PROVE  LET parameters == ClientParameters(Environment(LineArguments(line.kind, line.given))) IN
         /\ \A key \in Numbers \ {"port", "qos"} :
              line.given[key] # {} => parameters[key] = The1(line.given[key])
         /\ SubTimeout(parameters) >= 2 * parameters.sub_timeout
<1> DEFINE arguments == LineArguments(line.kind, line.given)
           parameters == ClientParameters(Environment(arguments))
<1>1. \A key \in Numbers : arguments[key]
        = IF line.given[key] # {} THEN line.given[key] ELSE ProgramDefaults(line.kind)[key]
  BY DEF LineArguments
<1>2. \A key \in Numbers \ {"port", "qos"} :
        parameters[key] = IF arguments[key] = {} THEN Default(key) ELSE The1(arguments[key])
  <2> HIDE DEF arguments
  <2> QED BY ParametersRead
<1> HIDE DEF parameters, arguments
<1>3. \A key \in Numbers \ {"port", "qos"} :
        line.given[key] # {} => parameters[key] = The1(line.given[key])
  BY <1>1, <1>2
<1>4. \A key \in {"sub_clients", "sub_timeout"} : parameters[key] \in Nat
  <2> SUFFICES ASSUME NEW key \in {"sub_clients", "sub_timeout"} PROVE parameters[key] \in Nat
    OBVIOUS
  <2>1. key \in Numbers \ {"port", "qos"}
    BY DEF Numbers
  <2>2. CASE line.given[key] # {}
    <3>1. line.given[key] \subseteq Nat
      BY <2>1, CommandLineAssumption
    <3>2. The1(line.given[key]) \in line.given[key]
      BY <2>2 DEF The1
    <3> QED BY <1>3, <2>1, <2>2, <3>1, <3>2
  <2>3. CASE line.given[key] = {}
    <3>1. arguments[key] = ProgramDefaults(line.kind)[key]
      BY <1>1, <2>1, <2>3
    <3>2. arguments[key] \in {{}, {1}, {60}}
      BY <2>1, <3>1 DEF ProgramDefaults
    <3>3. Default(key) \in Nat
      BY DEF Default
    <3>4. The1({1}) = 1 /\ The1({60}) = 60
      BY The1Single
    <3> QED BY <1>2, <2>1, <3>2, <3>3, <3>4
  <2> QED BY <2>2, <2>3
<1>5. SubTimeout(parameters) >= 2 * parameters.sub_timeout
  <2>1. parameters["sub_clients"] \in Nat /\ parameters["sub_timeout"] \in Nat
    BY <1>4
  <2> QED BY <2>1 DEF SubTimeout
<1> QED BY <1>3, <1>5 DEF parameters, arguments

\* The facts about a container of Every that the invariant gives.
LEMMA EveryRight ==
  ASSUME RInv, NEW c \in Every
  PROVE  /\ c[1] \in Orchestrators /\ c[2] \in DOMAIN sections[c[1]]
         /\ Yields(c[1]) /\ config[c[1]] \in Configs \cup CommandLines
         /\ Right(sections[c[1]][c[2]], ArgumentsOf(c[1], c[2]), The(c))
<1>1. c[1] \in Orchestrators /\ c[2] \in DOMAIN containers[c[1]]
  BY DEF Every
<1>2. containers[c[1]] \in Seq(Range(containers[c[1]])) /\ c[2] \in 1..Len(containers[c[1]])
  BY <1>1 DEF RInv, IInv, InOrder
<1>3. containers[c[1]] # <<>>
  BY <1>2
<1> QED BY <1>1, <1>2, <1>3 DEF RInv, IInv, Types, SectionsYielded, InOrder, AllRight, The

\* Sections of a configuration ask for numbers of clients.
LEMMA ClientsTyped ==
  ASSUME NEW o \in Orchestrators, Yields(o), config[o] \in Configs,
         NEW i \in DOMAIN sections[o]
  PROVE  \A kind \in Kinds : sections[o][i].clients[kind] \in Nat
<1>1. PICK section \in Sections : \E broker : sections[o][i] = Section(section, broker)
  BY SectionsValid
<1>2. sections[o][i].clients = section.clients
  BY <1>1 DEF Section
<1> QED BY <1>2, DeploymentAssumption

\* The numbers of clients and messages and the timeouts a user gives in a
\* configuration or on a command line reach the clients through the three
\* programs' tables; a subscriber has at least the time that was asked for.
THEOREM NumbersReachClients == Spec => []ParametersReach
<1>1. RInv => ParametersReach
  <2> SUFFICES ASSUME RInv, NEW c \in Every, The(c).status # "created"
               PROVE  LET parameters == The(c).parameters IN
                      /\ \A key \in DOMAIN Asked(c) : parameters[key] = Asked(c)[key]
                      /\ SubTimeout(parameters) >= 2 * parameters.sub_timeout
    BY DEF ParametersReach
  <2> DEFINE o == c[1]
             i == c[2]
             parameters == The(c).parameters
  <2>1. /\ o \in Orchestrators /\ i \in DOMAIN sections[o]
        /\ Yields(o) /\ config[o] \in Configs \cup CommandLines
        /\ The(c).section = sections[o][i]
        /\ parameters = ClientParameters(Environment(ArgumentsOf(o, i)))
    BY EveryRight DEF Right, Ran
  <2>2. CASE config[o] \in Configs
    <3> DEFINE section == sections[o][i]
    <3>1. parameters = ClientParameters(Environment(SectionArguments(section)))
      BY <2>1, <2>2 DEF ArgumentsOf
    <3>2. \A kind \in Kinds : section.clients[kind] \in Nat
      BY <2>1, <2>2, ClientsTyped
    <3>3. /\ parameters["sub_clients"] = section.clients.sub
          /\ parameters["sub_count"] = section.count.sub
          /\ parameters["pub_clients"] = section.clients.pub
          /\ parameters["pub_count"] = section.count.pub
          /\ SubTimeout(parameters) >= 2 * parameters.sub_timeout
      <4> HIDE DEF section, parameters
      <4> QED BY <3>1, <3>2, SectionRead
    <3>4. Asked(c) = [sub_clients |-> section.clients.sub, sub_count |-> section.count.sub,
                      pub_clients |-> section.clients.pub, pub_count |-> section.count.pub]
      BY <2>1, <2>2 DEF Asked
    <3>5. \A key \in DOMAIN Asked(c) : parameters[key] = Asked(c)[key]
      <4> HIDE DEF parameters, section
      <4> QED BY <3>3, <3>4
    <3> QED BY <3>3, <3>5
  <2>3. CASE config[o] \notin Configs
    <3> DEFINE line == config[o]
    <3>1. line \in CommandLines
          /\ parameters = ClientParameters(Environment(LineArguments(line.kind, line.given)))
      BY <2>1, <2>3 DEF ArgumentsOf
    <3>2. Asked(c) = [key \in {k \in Numbers \ {"port", "qos"} : line.given[k] # {}}
                        |-> The1(line.given[key])]
      BY <2>3 DEF Asked
    <3> HIDE DEF line, parameters
    <3>3. /\ \A key \in Numbers \ {"port", "qos"} :
               line.given[key] # {} => parameters[key] = The1(line.given[key])
          /\ SubTimeout(parameters) >= 2 * parameters.sub_timeout
      BY <3>1, LineRead
    <3>4. \A key \in DOMAIN Asked(c) : parameters[key] = Asked(c)[key]
      BY <3>2, <3>3
    <3> QED BY <3>3, <3>4 DEF parameters
  <2> QED BY <2>2, <2>3
<1> QED BY <1>1, RightInductive, PTL

-----------------------------------------------------------------------------
(* Documents and topics.                                                   *)

\* The container's copy of the rules refuses no document that the
\* orchestrator's has let pass: both have the same numbers to compare with.
THEOREM AcceptedTwice == Spec => []CheckedDocumentsAccepted
<1>1. RInv => CheckedDocumentsAccepted
  <2> SUFFICES ASSUME RInv, NEW c \in Every,
                      The(c).source = "config_files", The(c).doc = The(c).section.topic.doc,
                      The(c).status = "refused"
               PROVE  FALSE
    BY DEF CheckedDocumentsAccepted
  <2> DEFINE o == c[1]
             i == c[2]
             section == sections[o][i]
             parameters == The(c).parameters
             clients == ClientsOf(parameters)
  <2>1. /\ o \in Orchestrators /\ i \in DOMAIN sections[o]
        /\ Yields(o) /\ config[o] \in Configs \cup CommandLines
        /\ The(c).section = section /\ section.topic.kind = "dict"
        /\ parameters = ClientParameters(Environment(ArgumentsOf(o, i)))
        /\ The(c).status = Outcome(The(c).doc, section, clients)
    BY EveryRight DEF Right, Ran, Fits
  <2>2. config[o] \in Configs /\ CheckJsonFormat(section.topic.doc, section.clients)
    BY <2>1, TopicsValid
  <2>3. \A kind \in Kinds : section.clients[kind] \in Nat
    BY <2>1, <2>2, ClientsTyped
  <2>4. parameters = ClientParameters(Environment(SectionArguments(section)))
    BY <2>1, <2>2 DEF ArgumentsOf
  <2>5. \A kind \in Kinds : clients[kind] = section.clients[kind]
    <3>1. parameters.sub_clients = section.clients.sub /\ parameters.pub_clients = section.clients.pub
      <4> HIDE DEF section, parameters
      <4> QED BY <2>3, <2>4, SectionRead
    <3> HIDE DEF section, parameters
    <3> QED BY <3>1 DEF ClientsOf, Kinds
  <2>6. CheckJsonFormat(section.topic.doc, clients)
    <3> HIDE DEF section, clients
    <3> QED BY <2>2, <2>5 DEF CheckJsonFormat
  <2> HIDE DEF section, clients
  <2> QED BY <2>1, <2>6 DEF Outcome
<1> QED BY <1>1, RightInductive, PTL

\* Clients with one topic from the environment meet on it if it is a name;
\* with a list, publishers publish to a topic of its text, which nobody has
\* subscribed to.
THEOREM NamesMeetListsDoNot == Spec => []TopicsMeet
<1>1. RInv => TopicsMeet
  <2> SUFFICES ASSUME RInv, NEW c \in Every, NEW d \in Every,
                      NEW p \in Launched(c, "sub"), NEW q \in Launched(d, "pub"),
                      The(c).doc = None, The(d).doc = None,
                      The(c).section.topic = The(d).section.topic
               PROVE  p.topics \cap q.topics # {} <=> The(c).section.topic.kind = "name"
    BY DEF TopicsMeet
  <2> DEFINE topic == The(c).section.topic
  <2>1. TopicTyped(topic)
    BY EveryRight, TopicsValid DEF Right
  <2>2. ASSUME NEW e \in Every, NEW r \in The(e).launched, The(e).doc = None,
               The(e).section.topic = topic
        PROVE  topic.kind \in {"name", "list"} /\ r.topics = EnvTopics(topic, r.kind)
    <3> DEFINE clients == ClientsOf(The(e).parameters)
    <3>1. Right(sections[e[1]][e[2]], ArgumentsOf(e[1], e[2]), The(e))
      BY EveryRight
    <3>2. Ran(The(e))
      BY <2>2, <3>1 DEF Right
    <3>3. /\ topic.kind \in {"name", "list", "none"}
          /\ The(e).launched = Launch(None, The(e).section, clients)
      BY <2>2, <3>1, <3>2 DEF Right, Ran, Fits
    <3>4. r \in TopicClients(topic, clients)
      BY <2>2, <3>3 DEF Launch
    <3> HIDE DEF topic, clients
    <3>5. topic.kind # "none"
          /\ \E kind \in Kinds : r \in SingleTopicClients(EnvTopics(topic, kind), kind, clients)
      BY <3>4 DEF TopicClients
    <3>6. PICK kind \in Kinds : \E id : r = Client(kind, id, EnvTopics(topic, kind), "single")
      BY <3>5 DEF SingleTopicClients
    <3>7. r.kind = kind /\ r.topics = EnvTopics(topic, kind)
      BY <3>6 DEF Client
    <3> QED BY <3>3, <3>5, <3>7
  <2>3. /\ topic.kind \in {"name", "list"}
        /\ p.topics = EnvTopics(topic, "sub") /\ q.topics = EnvTopics(topic, "pub")
    BY <2>2 DEF Launched
  <2> HIDE DEF topic
  <2>4. p.topics = Named(topic)
    BY <2>3 DEF EnvTopics
  <2>5. CASE topic.kind = "name"
    <3>1. q.topics = Named(topic)
      BY <2>3, <2>5 DEF EnvTopics
    <3>2. PICK n : n \in Range(topic.names)
      BY <2>1, <2>5 DEF TopicTyped
    <3>3. [name |-> n, letters |-> FALSE] \in Named(topic)
      BY <3>2 DEF Named
    <3> QED BY <2>4, <2>5, <3>1, <3>3 DEF topic
  <2>6. CASE topic.kind = "list"
    <3>1. q.topics = {[name |-> topic.names, letters |-> FALSE]}
      BY <2>3, <2>6 DEF EnvTopics
    <3>2. \A t \in Named(topic) : t.name \in Range(topic.names)
      BY DEF Named
    <3>3. topic.names \notin Range(topic.names)
      BY <2>1, <2>6 DEF TopicTyped
    <3>4. [name |-> topic.names, letters |-> FALSE] \notin Named(topic)
      BY <3>2, <3>3
    <3> QED BY <2>4, <2>6, <3>1, <3>4 DEF topic
  <2> QED BY <2>3, <2>5, <2>6
<1> QED BY <1>1, RightInductive, PTL

-----------------------------------------------------------------------------
(* Induction.  A theorem of the library that takes a predicate is of no    *)
(* use here, so a set stands for it.                                       *)

\* Natural numbers are well-founded.
LEMMA Least ==
  ASSUME NEW T, T \subseteq Nat, T # {}
  PROVE  \E m \in T : \A n \in T : m <= n
<1> DEFINE R == OpToRel(<, Nat)
<1>1. IsWellFoundedOn(R, Nat)
  BY NatLessThanWellFounded
<1>2. \A m, n \in Nat : <<m, n>> \in R <=> m < n
  BY DEF OpToRel
<1> HIDE DEF R
<1>3. PICK m \in T : \A n \in T : <<n, m>> \notin R
  BY <1>1, WFMin
<1>4. ASSUME NEW n \in T PROVE m <= n
  <2>1. m \in Nat /\ n \in Nat /\ ~(n < m)
    BY <1>2, <1>3
  <2> QED BY <2>1
<1> QED BY <1>4

LEMMA SetInduction ==
  ASSUME NEW S, 0 \in S, \A n \in Nat : n \in S => n + 1 \in S
  PROVE  Nat \subseteq S
<1> SUFFICES ASSUME Nat \ S # {} PROVE FALSE
  OBVIOUS
<1>1. PICK m \in Nat \ S : \A n \in Nat \ S : m <= n
  BY Least
<1>2. m # 0 /\ m - 1 \in Nat
  BY <1>1
<1>3. m - 1 \in S
  BY <1>1, <1>2
<1> QED BY <1>1, <1>2, <1>3

-----------------------------------------------------------------------------
(* Places in clusters.                                                     *)

\* Numbers have partial sums.
LEMMA PartialSums ==
  ASSUME NEW n \in Nat, NEW a \in [1..n -> Nat]
  PROVE  \E f \in [0..n -> Nat] : f[0] = 0 /\ \A c \in 1..n : f[c] = f[c - 1] + a[c]
<1> DEFINE Sums(f, k) == f \in [0..k -> Nat] /\ f[0] = 0 /\ \A c \in 1..k : f[c] = f[c - 1] + a[c]
           S == {k \in Nat : k <= n => \E f : Sums(f, k)}
<1>1. 0 \in S
  <2> DEFINE f == [c \in 0..0 |-> 0]
  <2>1. f \in [0..0 -> Nat] /\ f[0] = 0 /\ 1..0 = {}
    OBVIOUS
  <2> HIDE DEF f
  <2>2. Sums(f, 0)
    BY <2>1
  <2> HIDE DEF Sums
  <2> QED BY <2>2
<1>2. ASSUME NEW k \in Nat, k \in S PROVE k + 1 \in S
  <2> SUFFICES ASSUME k + 1 <= n PROVE \E f : Sums(f, k + 1)
    <3> HIDE DEF Sums
    <3> QED OBVIOUS
  <2>1. PICK f : Sums(f, k)
    <3> HIDE DEF Sums
    <3> QED BY <1>2
  <2> DEFINE g == [c \in 0..(k + 1) |-> IF c = k + 1 THEN f[k] + a[k + 1] ELSE f[c]]
  <2>2. k + 1 \in 1..n /\ k \in 0..k
    OBVIOUS
  <2>3. g \in [0..(k + 1) -> Nat]
    <3>1. \A c \in 0..(k + 1) : c = k + 1 \/ c \in 0..k
      OBVIOUS
    <3>2. f[k] + a[k + 1] \in Nat
      BY <2>1, <2>2
    <3> QED BY <2>1, <3>1, <3>2
  <2>4. g[0] = 0
    BY <2>1
  <2>5. ASSUME NEW c \in 1..(k + 1) PROVE g[c] = g[c - 1] + a[c]
    <3>1. c - 1 \in 0..k /\ g[c - 1] = f[c - 1]
      OBVIOUS
    <3>2. CASE c = k + 1
      <4>1. c - 1 = k /\ g[c] = f[k] + a[c]
        BY <3>2
      <4> QED BY <3>1, <4>1
    <3>3. CASE c # k + 1
      <4>1. c \in 1..k /\ g[c] = f[c]
        BY <3>3
      <4>2. f[c] = f[c - 1] + a[c]
        BY <2>1, <4>1
      <4> QED BY <3>1, <4>1, <4>2
    <3> QED BY <3>2, <3>3
  <2>6. Sums(g, k + 1)
    <3> HIDE DEF g
    <3> QED BY <2>3, <2>4, <2>5
  <2> QED BY <2>6
<1>3. n \in S
  <2> HIDE DEF S
  <2> QED BY <1>1, <1>2, SetInduction
<1>4. \E f : Sums(f, n)
  <2> HIDE DEF Sums
  <2> QED BY <1>3
<1> QED BY <1>4

\* The document of a container that has one with clusters.
WithClusters(doc) == doc # None /\ doc.clusters # None /\ DocTyped(doc)

Places(doc, kind, c) == doc.clusters[c].clients[kind]

LEMMA PlacesSummed ==
  ASSUME NEW doc, WithClusters(doc), NEW kind \in Kinds
  PROVE  /\ Len(doc.clusters) \in Nat /\ DOMAIN doc.clusters = 1..Len(doc.clusters)
         /\ \A c \in 1..Len(doc.clusters) : Places(doc, kind, c) \in Nat
         /\ PlacesUpTo(doc, kind) \in [0..Len(doc.clusters) -> Nat]
         /\ PlacesUpTo(doc, kind)[0] = 0
         /\ \A c \in 1..Len(doc.clusters) :
              PlacesUpTo(doc, kind)[c] = PlacesUpTo(doc, kind)[c - 1] + Places(doc, kind, c)
<1> DEFINE m == Len(doc.clusters)
           a == [c \in 1..m |-> Places(doc, kind, c)]
           Step(f) == [c \in 0..m |-> IF c = 0 THEN 0 ELSE f[c - 1] + Places(doc, kind, c)]
<1>1. m \in Nat /\ DOMAIN doc.clusters = 1..m
  BY DEF WithClusters, DocTyped
<1>2. \A c \in 1..m : Places(doc, kind, c) \in Nat
  <2>1. \A c \in 1..m : doc.clusters[c].clients \in [Kinds -> Nat]
    BY <1>1 DEF WithClusters, DocTyped
  <2> HIDE DEF m
  <2> QED BY <2>1 DEF Places
<1>3. PlacesUpTo(doc, kind) = CHOOSE f : f = Step(f)
  BY DEF PlacesUpTo, Places
<1> HIDE DEF m
<1>4. PICK f \in [0..m -> Nat] : f[0] = 0 /\ \A c \in 1..m : f[c] = f[c - 1] + a[c]
  <2>1. a \in [1..m -> Nat]
    BY <1>2
  <2> HIDE DEF a
  <2> QED BY <1>1, <2>1, PartialSums
<1>5. f = Step(f)
  <2>1. \A c \in 0..m : c = 0 \/ c \in 1..m
    BY <1>1
  <2>2. \A c \in 0..m : f[c] = Step(f)[c]
    BY <1>4, <2>1
  <2> QED BY <1>4, <2>2
<1> DEFINE U == PlacesUpTo(doc, kind)
<1>6. U = Step(U)
  <2> HIDE DEF Step, U
  <2> QED BY <1>3, <1>5 DEF U
<1> HIDE DEF U
<1>7. U[0] = 0 /\ \A c \in 1..m : U[c] = U[c - 1] + Places(doc, kind, c)
  <2>1. 0 \in 0..m /\ \A c \in 1..m : c \in 0..m /\ c # 0
    BY <1>1
  <2> QED BY <1>6, <2>1
<1>8. U \in [0..m -> Nat]
  <2> DEFINE S == {c \in Nat : c \in 0..m => U[c] \in Nat}
  <2>1. 0 \in S
    BY <1>7
  <2>2. ASSUME NEW c \in Nat, c \in S PROVE c + 1 \in S
    <3>1. CASE c + 1 \in 0..m
      <4>1. c \in 0..m /\ c + 1 \in 1..m /\ (c + 1) - 1 = c
        BY <1>1, <3>1
      <4>2. U[c + 1] = U[c] + Places(doc, kind, c + 1)
        BY <1>7, <4>1
      <4> QED BY <1>2, <2>2, <4>1, <4>2
    <3> QED BY <3>1
  <2>3. Nat \subseteq S
    <3> HIDE DEF S
    <3> QED BY <2>1, <2>2, SetInduction
  <2>4. \A c \in 0..m : U[c] \in Nat
    BY <2>3
  <2>5. DOMAIN U = 0..m /\ U = [c \in 0..m |-> U[c]]
    BY <1>6
  <2> QED BY <2>4, <2>5
<1> QED BY <1>1, <1>2, <1>7, <1>8 DEF m, U

\* A later cluster's places come after those of an earlier one.
LEMMA PlacesMonotone ==
  ASSUME NEW doc, WithClusters(doc), NEW kind \in Kinds, NEW b \in 0..Len(doc.clusters),
         NEW c \in 0..Len(doc.clusters), b <= c
  PROVE  PlacesUpTo(doc, kind)[b] <= PlacesUpTo(doc, kind)[c]
<1> DEFINE m == Len(doc.clusters)
           U == PlacesUpTo(doc, kind)
           S == {d \in Nat : b <= d /\ d <= m => U[b] <= U[d]}
<1>1. /\ m \in Nat /\ U \in [0..m -> Nat]
      /\ \A d \in 1..m : U[d] = U[d - 1] + Places(doc, kind, d) /\ Places(doc, kind, d) \in Nat
  BY PlacesSummed
<1> HIDE DEF m, U
<1>2. b \in 0..m /\ c \in 0..m
  BY DEF m
<1>3. 0 \in S
  BY <1>1, <1>2
<1>4. ASSUME NEW d \in Nat, d \in S PROVE d + 1 \in S
  <2> SUFFICES ASSUME b <= d + 1, d + 1 <= m PROVE U[b] <= U[d + 1]
    OBVIOUS
  <2>1. CASE b = d + 1
    BY <1>1, <1>2, <2>1
  <2>2. CASE b <= d
    <3>1. U[b] <= U[d] /\ d + 1 \in 1..m /\ d \in 0..m /\ (d + 1) - 1 = d
      BY <1>1, <1>4, <2>2
    <3>2. U[d + 1] = U[d] + Places(doc, kind, d + 1) /\ Places(doc, kind, d + 1) \in Nat
      BY <1>1, <3>1
    <3>3. U[b] \in Nat /\ U[d] \in Nat
      BY <1>1, <1>2, <3>1
    <3> QED BY <3>1, <3>2, <3>3
  <2> QED BY <1>2, <2>1, <2>2
<1>5. c \in S
  <2> HIDE DEF S
  <2> QED BY <1>2, <1>3, <1>4, SetInduction
<1> QED BY <1>2, <1>5 DEF U

\* Every place is in a cluster.
LEMMA PlaceFound ==
  ASSUME NEW doc, WithClusters(doc), NEW kind \in Kinds, NEW k \in 1..Demand(doc, kind)
  PROVE  \E c \in 1..Len(doc.clusters) :
           PlacesUpTo(doc, kind)[c - 1] < k /\ k <= PlacesUpTo(doc, kind)[c]
<1> DEFINE m == Len(doc.clusters)
           U == PlacesUpTo(doc, kind)
           T == {c \in 0..m : k <= U[c]}
<1>1. m \in Nat /\ U \in [0..m -> Nat] /\ U[0] = 0
  BY PlacesSummed
<1>2. k <= U[m] /\ k \in Int /\ k >= 1
  BY <1>1 DEF Demand
<1> HIDE DEF m, U
<1>3. PICK c \in T : \A d \in T : c <= d
  <2>1. T \subseteq Nat /\ m \in T
    BY <1>1, <1>2
  <2> HIDE DEF T
  <2> QED BY <2>1, Least
<1>4. c \in 1..m /\ c - 1 \in 0..m
  BY <1>1, <1>2, <1>3
<1>5. c - 1 \notin T
  BY <1>3, <1>4
<1>6. U[c - 1] < k
  BY <1>1, <1>2, <1>4, <1>5
<1> QED BY <1>3, <1>4, <1>6 DEF m, U

\* Things that have the numbers of an interval, each its own, can be counted.
LEMMA CountByIds ==
  ASSUME NEW X, NEW a \in Int, NEW b \in Int, a <= b + 1,
         \A x \in X : x.id \in a..b,
         \A x, y \in X : x.id = y.id => x = y,
         \A i \in a..b : \E x \in X : x.id = i
  PROVE  IsFiniteSet(X) /\ Cardinality(X) = b - a + 1
<1> DEFINE f == [x \in X |-> x.id]
<1>1. f \in [X -> a..b] /\ f \in Injection(X, a..b) /\ f \in Surjection(X, a..b)
  BY DEF Injection, IsInjective, Surjection
<1>2. IsFiniteSet(a..b) /\ Cardinality(a..b) = b - a + 1
  BY FS_Interval
<1> HIDE DEF f
<1> QED BY <1>1, <1>2, FS_Injection

\* The clients of the clusters have the numbers of the places.
LEMMA ClusterClientsCounted ==
  ASSUME NEW doc, WithClusters(doc), NEW kind \in Kinds
  PROVE  LET X == ClusterClients(doc, kind) IN
         /\ Demand(doc, kind) \in Nat
         /\ IsFiniteSet(X) /\ Cardinality(X) = Demand(doc, kind)
         /\ \A x \in X : /\ x.kind = kind /\ x.part = "cluster"
                         /\ x.id \in 1..Demand(doc, kind)
         /\ \A x, y \in X : x.id = y.id => x = y
<1> DEFINE m == Len(doc.clusters)
           U == PlacesUpTo(doc, kind)
           D == Demand(doc, kind)
           X == ClusterClients(doc, kind)
           TheClient(c, place) == Client(kind, U[c - 1] + place, ClusterTopics(doc, c), "cluster")
<1>1. /\ m \in Nat /\ DOMAIN doc.clusters = 1..m
      /\ U \in [0..m -> Nat] /\ U[0] = 0
      /\ \A c \in 1..m : U[c] = U[c - 1] + Places(doc, kind, c) /\ Places(doc, kind, c) \in Nat
  BY PlacesSummed
<1>2. D = U[m]
  BY DEF Demand
<1>3. X = UNION {{TheClient(c, place) : place \in 1..Places(doc, kind, c)} : c \in 1..m}
  BY <1>1 DEF ClusterClients, Places
<1>4. \A c, place : /\ TheClient(c, place).id = U[c - 1] + place
                    /\ TheClient(c, place).kind = kind /\ TheClient(c, place).part = "cluster"
  BY DEF Client
<1>5. \A b, c \in 0..m : b <= c => U[b] <= U[c]
  BY PlacesMonotone
<1>6. \A k \in 1..D : \E c \in 1..m : U[c - 1] < k /\ k <= U[c]
  BY PlaceFound
<1> HIDE DEF m, U, D, X, TheClient
<1>7. D \in Nat
  BY <1>1, <1>2
<1>8. ASSUME NEW x \in X
      PROVE  \E c \in 1..m : \E place \in 1..Places(doc, kind, c) : x = TheClient(c, place)
  BY <1>3
<1>9. ASSUME NEW c \in 1..m, NEW place \in 1..Places(doc, kind, c)
      PROVE  /\ TheClient(c, place).id \in 1..D
             /\ U[c - 1] < TheClient(c, place).id /\ TheClient(c, place).id <= U[c]
  <2>1. c \in 0..m /\ m \in 0..m /\ c - 1 \in 0..m /\ c <= m
    BY <1>1
  <2>2. U[c - 1] \in Nat /\ U[c] \in Nat /\ U[c] <= D
    BY <1>1, <1>2, <1>5, <2>1
  <2>3. place \in Int /\ 1 <= place /\ place <= Places(doc, kind, c)
        /\ U[c] = U[c - 1] + Places(doc, kind, c) /\ Places(doc, kind, c) \in Nat
    BY <1>1
  <2> QED BY <1>4, <1>7, <2>2, <2>3
<1>10. \A x \in X : x.kind = kind /\ x.part = "cluster" /\ x.id \in 1..D
  BY <1>4, <1>8, <1>9
<1>11. ASSUME NEW x \in X, NEW y \in X, x.id = y.id PROVE x = y
  <2>1. PICK c \in 1..m : \E place \in 1..Places(doc, kind, c) : x = TheClient(c, place)
    BY <1>8
  <2>2. PICK p \in 1..Places(doc, kind, c) : x = TheClient(c, p)
    BY <2>1
  <2>3. PICK d \in 1..m : \E place \in 1..Places(doc, kind, d) : y = TheClient(d, place)
    BY <1>8
  <2>4. PICK q \in 1..Places(doc, kind, d) : y = TheClient(d, q)
    BY <2>3
  <2>5. /\ x.id \in Int /\ U[c - 1] < x.id /\ x.id <= U[c]
        /\ U[d - 1] < x.id /\ x.id <= U[d]
    BY <1>9, <2>2, <2>4, <1>11
  <2>6. /\ c \in 0..m /\ d \in 0..m /\ c - 1 \in 0..m /\ d - 1 \in 0..m
        /\ U[c] \in Nat /\ U[d] \in Nat /\ U[c - 1] \in Nat /\ U[d - 1] \in Nat
    BY <1>1
  <2>7. c = d
    <3>1. ~(c <= d - 1)
      BY <1>5, <2>5, <2>6
    <3>2. ~(d <= c - 1)
      BY <1>5, <2>5, <2>6
    <3> QED BY <3>1, <3>2
  <2>8. p = q
    <3>1. U[c - 1] + p = U[c - 1] + q
      BY <1>4, <1>11, <2>2, <2>4, <2>7
    <3>2. p \in Int /\ q \in Int
      BY <2>7
    <3> QED BY <2>6, <3>1, <3>2
  <2> QED BY <2>2, <2>4, <2>7, <2>8
<1>12. ASSUME NEW k \in 1..D PROVE \E x \in X : x.id = k
  <2>1. PICK c \in 1..m : U[c - 1] < k /\ k <= U[c]
    BY <1>6
  <2>2. c - 1 \in 0..m /\ U[c - 1] \in Nat /\ k \in Int
        /\ U[c] = U[c - 1] + Places(doc, kind, c) /\ Places(doc, kind, c) \in Nat
    BY <1>1
  <2>3. k - U[c - 1] \in 1..Places(doc, kind, c) /\ U[c - 1] + (k - U[c - 1]) = k
    BY <2>1, <2>2
  <2>4. TheClient(c, k - U[c - 1]) \in X
    BY <1>3, <2>3
  <2> QED BY <1>4, <2>3, <2>4
<1>13. IsFiniteSet(X) /\ Cardinality(X) = D - 1 + 1
  <2> DEFINE a == 1
  <2>1. a \in Int /\ D \in Int /\ a <= D + 1
    BY <1>7
  <2>2. (\A x \in X : x.id \in a..D) /\ \A k \in a..D : \E x \in X : x.id = k
    BY <1>10, <1>12
  <2> HIDE DEF a
  <2>3. IsFiniteSet(X) /\ Cardinality(X) = D - a + 1
    BY <1>11, <2>1, <2>2, CountByIds
  <2> QED BY <2>3 DEF a
<1> QED BY <1>7, <1>10, <1>11, <1>13 DEF X, D

\* The others are numbered on, from the number of the last place.
LEMMA DefaultClientsCounted ==
  ASSUME NEW doc, NEW kind, NEW clients, Demand(doc, kind) \in Nat, clients[kind] \in Nat,
         Demand(doc, kind) <= clients[kind]
  PROVE  LET X == DefaultClients(doc, kind, clients) IN
         /\ IsFiniteSet(X)
         /\ Cardinality(X) = IF doc.default = None /\ doc.all = None THEN 0
                             ELSE clients[kind] - Demand(doc, kind)
         /\ \A x \in X : x.kind = kind /\ x.part = "default" /\ x.id >= Demand(doc, kind)
         /\ \A x, y \in X : x.id = y.id => x = y
<1> DEFINE D == Demand(doc, kind)
           n == clients[kind]
           X == DefaultClients(doc, kind, clients)
           TheClient(ind) == Client(kind, D + ind, DefaultTopics(doc), "default")
<1>1. CASE doc.default = None /\ doc.all = None
  <2>1. X = {}
    BY <1>1 DEF DefaultClients
  <2> QED BY <1>1, <2>1, FS_EmptySet
<1>2. CASE ~(doc.default = None /\ doc.all = None)
  <2>1. X = {TheClient(ind) : ind \in 0..(n - D - 1)}
    BY <1>2 DEF DefaultClients
  <2>2. \A ind : /\ TheClient(ind).id = D + ind
                 /\ TheClient(ind).kind = kind /\ TheClient(ind).part = "default"
    BY DEF Client
  <2>3. D \in Nat /\ n \in Nat /\ D <= n
    OBVIOUS
  <2> HIDE DEF D, n, X, TheClient
  <2>4. \A x \in X : x.id \in D..(n - 1) /\ x.kind = kind /\ x.part = "default"
    BY <2>1, <2>2, <2>3
  <2>5. \A x, y \in X : x.id = y.id => x = y
    <3> SUFFICES ASSUME NEW i \in 0..(n - D - 1), NEW j \in 0..(n - D - 1), D + i = D + j
                 PROVE  i = j
      BY <2>1, <2>2
    <3> QED BY <2>3
  <2>6. ASSUME NEW k \in D..(n - 1) PROVE \E x \in X : x.id = k
    <3>1. k - D \in 0..(n - D - 1) /\ D + (k - D) = k
      BY <2>3
    <3> QED BY <2>1, <2>2, <3>1
  <2>7. IsFiniteSet(X) /\ Cardinality(X) = (n - 1) - D + 1
    <3>1. D \in Int /\ n - 1 \in Int /\ D <= (n - 1) + 1
      BY <2>3
    <3> QED BY <2>4, <2>5, <2>6, <3>1, CountByIds
  <2>8. Cardinality(X) = n - D /\ \A x \in X : x.id >= D
    BY <2>3, <2>4, <2>7
  <2> QED BY <1>2, <2>4, <2>5, <2>7, <2>8 DEF X, D, n
<1> QED BY <1>1, <1>2

\* With one topic, clients are numbered from zero.
LEMMA SingleTopicClientsCounted ==
  ASSUME NEW topics, NEW kind, NEW clients, clients[kind] \in Nat
  PROVE  LET X == SingleTopicClients(topics, kind, clients) IN
         /\ IsFiniteSet(X) /\ Cardinality(X) = clients[kind]
         /\ \A x \in X : x.kind = kind
         /\ \A x, y \in X : x.id = y.id => x = y
<1> DEFINE n == clients[kind]
           X == SingleTopicClients(topics, kind, clients)
           TheClient(i) == Client(kind, i, topics, "single")
<1>1. X = {TheClient(i) : i \in 0..(n - 1)} /\ n \in Nat
  BY DEF SingleTopicClients
<1>2. \A i : TheClient(i).id = i /\ TheClient(i).kind = kind
  BY DEF Client
<1> HIDE DEF n, X, TheClient
<1>3. \A x \in X : x.id \in 0..(n - 1) /\ x.kind = kind
  BY <1>1, <1>2
<1>4. \A x, y \in X : x.id = y.id => x = y
  BY <1>1, <1>2
<1>5. \A k \in 0..(n - 1) : \E x \in X : x.id = k
  BY <1>1, <1>2
<1>6. IsFiniteSet(X) /\ Cardinality(X) = (n - 1) - 0 + 1
  <2> DEFINE a == 0
             b == n - 1
  <2>1. a \in Int /\ b \in Int /\ a <= b + 1
    BY <1>1
  <2>2. (\A x \in X : x.id \in a..b) /\ \A k \in a..b : \E x \in X : x.id = k
    BY <1>3, <1>5
  <2> HIDE DEF a, b
  <2>3. IsFiniteSet(X) /\ Cardinality(X) = b - a + 1
    BY <1>4, <2>1, <2>2, CountByIds
  <2> QED BY <2>3 DEF a, b
<1> QED BY <1>1, <1>3, <1>4, <1>6 DEF X, n

-----------------------------------------------------------------------------
(* How many clients a container starts, and under which ids.               *)

\* The numbers of clients of the command line, given or by default, are those
\* the container's program reads.
LEMMA LineClients ==
  ASSUME NEW line \in CommandLines, NEW kind \in Kinds
  PROVE  LET parameters == ClientParameters(Environment(LineArguments(line.kind, line.given))) IN
         /\ ClientsOf(parameters)[kind] = LineSection(line).clients[kind]
         /\ ClientsOf(parameters)[kind] \in Nat
<1> DEFINE arguments == LineArguments(line.kind, line.given)
           parameters == ClientParameters(Environment(arguments))
           number(key) == IF arguments[key] = {} THEN 0 ELSE The1(arguments[key])
<1>1. LineSection(line).clients = [sub |-> number("sub_clients"), pub |-> number("pub_clients")]
  BY DEF LineSection
<1>2. \A key \in {"sub_clients", "pub_clients"} : key \in Numbers \ {"port", "qos"} /\ Default(key) = 0
  BY DEF Numbers, Default
<1>3. \A key \in {"sub_clients", "pub_clients"} : parameters[key] = number(key)
  <2>1. \A key \in Numbers \ {"port", "qos"} :
          parameters[key] = IF arguments[key] = {} THEN Default(key) ELSE The1(arguments[key])
    <3> HIDE DEF arguments
    <3> QED BY ParametersRead
  <2> HIDE DEF arguments, parameters
  <2> QED BY <1>2, <2>1
<1>4. \A key \in {"sub_clients", "pub_clients"} : number(key) \in Nat
  <2> SUFFICES ASSUME NEW key \in {"sub_clients", "pub_clients"} PROVE number(key) \in Nat
    OBVIOUS
  <2>1. arguments[key] = IF line.given[key] # {} THEN line.given[key]
                                                 ELSE ProgramDefaults(line.kind)[key]
    BY <1>2 DEF LineArguments
  <2>2. line.given[key] \subseteq Nat
    BY <1>2, CommandLineAssumption
  <2>3. ProgramDefaults(line.kind)[key] \subseteq {1}
    BY <1>2 DEF ProgramDefaults
  <2>4. arguments[key] \subseteq Nat
    <3> HIDE DEF arguments
    <3> QED BY <2>1, <2>2, <2>3
  <2>5. arguments[key] # {} => The1(arguments[key]) \in arguments[key]
    BY DEF The1
  <2> HIDE DEF arguments
  <2> QED BY <2>4, <2>5
<1> HIDE DEF parameters, number
<1>5. ClientsOf(parameters)[kind] = LineSection(line).clients[kind]
      /\ ClientsOf(parameters)[kind] \in Nat
  BY <1>1, <1>3, <1>4 DEF ClientsOf, Kinds
<1> QED BY <1>5 DEF parameters

\* What a program starts with that runs: the numbers of its section, and a
\* document whose places they cover, or a topic, or nothing to do.
LEMMA RunningRight ==
  ASSUME RInv, NEW c \in Every, The(c).status = "running"
  PROVE  LET clients == ClientsOf(The(c).parameters)
             doc == The(c).doc
             topic == The(c).section.topic IN
         /\ \A kind \in Kinds : /\ clients[kind] \in Nat
                                /\ clients[kind] = The(c).section.clients[kind]
         /\ doc # None => /\ The(c).launched = MultipleTopicsClients(doc, clients)
                          /\ WithClusters(doc)
                          /\ \A kind \in Kinds : Demand(doc, kind) <= clients[kind]
         /\ doc = None => /\ The(c).launched = TopicClients(topic, clients)
                          /\ topic.kind = "none" => \A kind \in Kinds : clients[kind] = 0
<1> DEFINE o == c[1]
           i == c[2]
           section == The(c).section
           doc == The(c).doc
           parameters == The(c).parameters
           clients == ClientsOf(parameters)
<1>1. /\ o \in Orchestrators /\ i \in DOMAIN sections[o]
      /\ Yields(o) /\ config[o] \in Configs \cup CommandLines
      /\ section = sections[o][i]
      /\ parameters = ClientParameters(Environment(ArgumentsOf(o, i)))
      /\ Outcome(doc, section, clients) = "running"
      /\ The(c).launched = Launch(doc, section, clients)
      /\ DocTyped(doc)
  BY EveryRight DEF Right, Ran
<1>2. ASSUME NEW kind \in Kinds
      PROVE  clients[kind] \in Nat /\ clients[kind] = section.clients[kind]
  <2>1. CASE config[o] \in Configs
    <3>1. parameters = ClientParameters(Environment(SectionArguments(section)))
      BY <1>1, <2>1 DEF ArgumentsOf
    <3>2. \A k \in Kinds : section.clients[k] \in Nat
      BY <1>1, <2>1, ClientsTyped
    <3>3. parameters.sub_clients = section.clients.sub /\ parameters.pub_clients = section.clients.pub
      <4> HIDE DEF section, parameters
      <4> QED BY <3>1, <3>2, SectionRead
    <3> HIDE DEF section, parameters
    <3> QED BY <3>2, <3>3 DEF ClientsOf, Kinds
  <2>2. CASE config[o] \notin Configs
    <3> DEFINE line == config[o]
    <3>1. /\ line \in CommandLines /\ section = LineSection(line)
          /\ parameters = ClientParameters(Environment(LineArguments(line.kind, line.given)))
      BY <1>1, <2>2, SectionsValid DEF ArgumentsOf
    <3> HIDE DEF section, parameters, line
    <3> QED BY <3>1, LineClients
  <2> QED BY <2>1, <2>2
<1> HIDE DEF section, doc, parameters, clients
<1>3. CASE doc # None
  <2>1. The(c).launched = MultipleTopicsClients(doc, clients) /\ CheckJsonFormat(doc, clients)
    BY <1>1, <1>3 DEF Launch, Outcome
  <2> QED BY <1>1, <1>2, <1>3, <2>1 DEF CheckJsonFormat, WithClusters, section, doc, parameters, clients
<1>4. CASE doc = None
  <2>1. The(c).launched = TopicClients(section.topic, clients)
    BY <1>1, <1>4 DEF Launch
  <2>2. section.topic.kind = "none" => \A kind \in Kinds : clients[kind] = 0
    BY <1>1, <1>4 DEF Outcome
  <2> QED BY <1>2, <1>4, <2>1, <2>2 DEF section, doc, parameters, clients
<1> QED BY <1>3, <1>4

\* Its clients of one kind.
LEMMA LaunchedCounted ==
  ASSUME RInv, NEW c \in Every, The(c).status = "running", NEW kind \in Kinds
  PROVE  LET doc == The(c).doc
             wanted == The(c).section.clients[kind]
             X == Launched(c, kind) IN
         /\ wanted \in Nat
         /\ doc = None => /\ Cardinality(X) = wanted
                          /\ \A x, y \in X : x.id = y.id => x = y
         /\ doc # None =>
              /\ Demand(doc, kind) \in Nat /\ Demand(doc, kind) <= wanted
              /\ Cardinality(X) = IF doc.default = None /\ doc.all = None
                                    THEN Demand(doc, kind) ELSE wanted
              /\ \A x, y \in X : x # y /\ x.id = y.id =>
                   {x.part, y.part} = {"cluster", "default"} /\ x.id = Demand(doc, kind)
<1> DEFINE clients == ClientsOf(The(c).parameters)
           doc == The(c).doc
           topic == The(c).section.topic
           wanted == The(c).section.clients[kind]
           X == Launched(c, kind)
<1>1. /\ \A k \in Kinds : clients[k] \in Nat
      /\ clients[kind] = wanted
      /\ doc # None => /\ The(c).launched = MultipleTopicsClients(doc, clients)
                       /\ WithClusters(doc)
                       /\ \A k \in Kinds : Demand(doc, k) <= clients[k]
      /\ doc = None => /\ The(c).launched = TopicClients(topic, clients)
                       /\ topic.kind = "none" => \A k \in Kinds : clients[k] = 0
  BY RunningRight
<1>2. X = {x \in The(c).launched : x.kind = kind}
  BY DEF Launched
<1> HIDE DEF clients, doc, topic, wanted, X
<1>3. CASE doc = None
  <2>1. CASE topic.kind = "none"
    <3>1. X = {} /\ wanted = 0
      BY <1>1, <1>2, <1>3, <2>1 DEF TopicClients
    <3> QED BY <1>3, <3>1, FS_EmptySet DEF X, doc, wanted
  <2>2. CASE topic.kind # "none"
    <3> DEFINE Y(k) == SingleTopicClients(EnvTopics(topic, k), k, clients)
    <3>1. The(c).launched = UNION {Y(k) : k \in Kinds}
      BY <1>1, <1>3, <2>2 DEF TopicClients
    <3>2. \A k \in Kinds : /\ Cardinality(Y(k)) = clients[k]
                           /\ \A x \in Y(k) : x.kind = k
                           /\ \A x, y \in Y(k) : x.id = y.id => x = y
      BY <1>1, SingleTopicClientsCounted
    <3> HIDE DEF Y
    <3>3. X = Y(kind)
      BY <1>2, <3>1, <3>2
    <3> QED BY <1>1, <1>3, <3>2, <3>3 DEF X, doc, wanted
  <2> QED BY <2>1, <2>2
<1>4. CASE doc # None
  <2> DEFINE D == Demand(doc, kind)
             Y(k) == ClusterClients(doc, k)
             Z(k) == DefaultClients(doc, k, clients)
             rest == IF doc.default = None /\ doc.all = None THEN 0 ELSE clients[kind] - D
  <2>1. \A k \in Kinds :
          /\ Demand(doc, k) \in Nat
          /\ IsFiniteSet(Y(k)) /\ Cardinality(Y(k)) = Demand(doc, k)
          /\ \A x \in Y(k) : x.kind = k /\ x.part = "cluster" /\ x.id \in 1..Demand(doc, k)
          /\ \A x, y \in Y(k) : x.id = y.id => x = y
    BY <1>1, <1>4, ClusterClientsCounted
  <2>2. \A k \in Kinds :
          /\ IsFiniteSet(Z(k))
          /\ Cardinality(Z(k)) = IF doc.default = None /\ doc.all = None THEN 0
                                 ELSE clients[k] - Demand(doc, k)
          /\ \A x \in Z(k) : x.kind = k /\ x.part = "default" /\ x.id >= Demand(doc, k)
          /\ \A x, y \in Z(k) : x.id = y.id => x = y
    BY <1>1, <1>4, <2>1, DefaultClientsCounted
  <2>3. The(c).launched = UNION {Y(k) \cup Z(k) : k \in Kinds}
    BY <1>1, <1>4 DEF MultipleTopicsClients
  <2>4. /\ D \in Nat /\ D <= clients[kind] /\ clients[kind] = wanted /\ wanted \in Nat
        /\ IsFiniteSet(Y(kind)) /\ Cardinality(Y(kind)) = D
        /\ IsFiniteSet(Z(kind)) /\ Cardinality(Z(kind)) = rest
    BY <1>1, <1>4, <2>1, <2>2
  <2>5. X = Y(kind) \cup Z(kind)
    <3> HIDE DEF Y, Z
    <3> QED BY <1>2, <2>1, <2>2, <2>3
  <2>6. Y(kind) \cap Z(kind) = {}
    <3> HIDE DEF Y, Z
    <3> QED BY <2>1, <2>2
  <2>7. Cardinality(X) = D + rest
    <3> HIDE DEF Y, Z, D, rest
    <3>1. Cardinality(X) = Cardinality(Y(kind)) + Cardinality(Z(kind)) - Cardinality(Y(kind) \cap Z(kind))
      BY <2>4, <2>5, FS_Union
    <3>2. Cardinality(Y(kind) \cap Z(kind)) = 0
      BY <2>6, FS_EmptySet
    <3>3. rest \in Nat
      BY <2>4 DEF rest
    <3> QED BY <2>4, <3>1, <3>2, <3>3
  <2>8. Cardinality(X) = IF doc.default = None /\ doc.all = None THEN D ELSE wanted
    <3> HIDE DEF D
    <3> QED BY <2>4, <2>7
  <2>9. ASSUME NEW x \in X, NEW y \in X, x # y, x.id = y.id
        PROVE  {x.part, y.part} = {"cluster", "default"} /\ x.id = D
    <3> HIDE DEF Y, Z, D
    <3>1. ASSUME NEW p \in Y(kind), NEW q \in Z(kind), p.id = q.id
          PROVE  p.part = "cluster" /\ q.part = "default" /\ p.id = D
      <4>1. p.id \in 1..D /\ q.id >= D
        BY <2>1, <2>2 DEF D
      <4> QED BY <2>1, <2>2, <2>4, <3>1, <4>1
    <3>2. ~(x \in Y(kind) /\ y \in Y(kind)) /\ ~(x \in Z(kind) /\ y \in Z(kind))
      BY <2>1, <2>2, <2>9
    <3>3. CASE x \in Y(kind) /\ y \in Z(kind)
      BY <2>9, <3>1, <3>3
    <3>4. CASE x \in Z(kind) /\ y \in Y(kind)
      BY <2>9, <3>1, <3>4
    <3> QED BY <2>5, <3>2, <3>3, <3>4
  <2> HIDE DEF Y, Z, rest
  <2> QED BY <1>4, <2>4, <2>8, <2>9 DEF X, doc, wanted, D
<1> QED BY <1>3, <1>4

LEMMA EveryOutcome ==
  ASSUME RInv, NEW c \in Every, The(c).status # "running"
  PROVE  The(c).launched = {}
<1>1. Right(sections[c[1]][c[2]], ArgumentsOf(c[1], c[2]), The(c))
  BY EveryRight
<1>2. CASE The(c).status = "created"
  BY <1>1, <1>2 DEF Right
<1>3. CASE The(c).status # "created"
  BY <1>1, <1>3 DEF Right, Ran, Launch
<1> QED BY <1>2, <1>3

\* A running container has started every client of its section, or, if its
\* document gives the others no topic, every client of its clusters.
THEOREM ClientsAllStarted == Spec => []AllClientsLaunched
<1>1. RInv => AllClientsLaunched
  BY LaunchedCounted DEF AllClientsLaunched
<1> QED BY <1>1, RightInductive, PTL

\* In a container an id is given twice only to the last client of the clusters
\* and the first one of the default topics.
THEOREM OnlyTheSeamRepeats == Spec => []SameIdOnlyAtTheSeam
<1>1. RInv => SameIdOnlyAtTheSeam
  <2> SUFFICES ASSUME RInv, NEW c \in Every, NEW kind \in Kinds,
                      NEW p \in Launched(c, kind), NEW q \in Launched(c, kind),
                      p # q, p.id = q.id
               PROVE  /\ {p.part, q.part} = {"cluster", "default"}
                      /\ p.id = Demand(The(c).doc, kind)
    BY DEF SameIdOnlyAtTheSeam
  <2>1. The(c).status = "running"
    BY EveryOutcome DEF Launched
  <2> QED BY <2>1, LaunchedCounted
<1> QED BY <1>1, RightInductive, PTL

\* main() waits for no more results than it has started clients.
THEOREM NoResultTooMany == Spec => []ResultsOfLaunched
<1>1. RInv => ResultsOfLaunched
  <2> SUFFICES ASSUME RInv, NEW c \in Every, NEW kind \in Kinds, The(c).status = "running"
               PROVE  Active(The(c).doc, The(c).section.clients)[kind] <= Cardinality(Launched(c, kind))
    BY DEF ResultsOfLaunched
  <2> DEFINE doc == The(c).doc
             wanted == The(c).section.clients[kind]
  <2>1. Active(doc, The(c).section.clients)[kind] = IF doc = None THEN wanted ELSE Demand(doc, kind)
    BY DEF Active
  <2>2. /\ wanted \in Nat
        /\ doc = None => Cardinality(Launched(c, kind)) = wanted
        /\ doc # None =>
             /\ Demand(doc, kind) \in Nat /\ Demand(doc, kind) <= wanted
             /\ Cardinality(Launched(c, kind)) = IF doc.default = None /\ doc.all = None
                                                   THEN Demand(doc, kind) ELSE wanted
    BY LaunchedCounted
  <2> HIDE DEF doc, wanted
  <2> QED BY <2>1, <2>2 DEF doc
<1> QED BY <1>1, RightInductive, PTL

-----------------------------------------------------------------------------
(* Whose document a container works on.                                    *)

\* At most one orchestrator has a configuration, the others a command line.
OneConfigured ==
  \A o, p \in Orchestrators : config[o] \in Configs /\ config[p] \in Configs => o = p

\* A file of config_files is the one its container was created with.
Own(container, i) ==
  container.source = "config_files" =>
    IF container.status = "created" THEN config_files[i] = container.section.topic.doc
                                    ELSE container.doc = container.section.topic.doc

FilesOwn ==
  OneConfigured =>
    \A o \in Orchestrators : \A i \in DOMAIN containers[o] \cap (1..MaxIndex) :
      Own(containers[o][i], i)

\* Only an orchestrator with a configuration mounts files of config_files.
LEMMA OnlyConfigured ==
  ASSUME RInv, NEW o \in Orchestrators, NEW i \in DOMAIN containers[o],
         containers[o][i].source = "config_files"
  PROVE  config[o] \in Configs
<1>1. i \in 1..Len(containers[o]) /\ containers[o] # <<>>
  BY DEF RInv, IInv, InOrder
<1>2. /\ Yields(o) /\ config[o] \in Configs \cup CommandLines
      /\ i \in DOMAIN sections[o] /\ containers[o][i].section = sections[o][i]
  BY <1>1 DEF RInv, IInv, Types, SectionsYielded, InOrder
<1>3. sections[o][i].topic.kind = "dict"
  BY <1>1, <1>2 DEF RInv, AllRight, Right, Fits
<1> QED BY <1>2, <1>3, TopicsValid

\* The new container of an orchestrator, if it has a file, has its own.
LEMMA AddOwn ==
  ASSUME RInv, FilesOwn, NEW o \in Orchestrators, NEW source, Creating(o), Add(o, source),
         UNCHANGED <<pc, config, sections>>,
         source # "config_files" => UNCHANGED config_files,
         source = "config_files" =>
           config[o] \in Configs /\ config_files' = [config_files EXCEPT
             ![Len(containers[o]) + 1] = Upcoming(o).topic.doc]
  PROVE  FilesOwn'
<1> DEFINE s == containers[o]
           k == Len(s) + 1
           e == Container(source, sections[o][k], Environment(Arguments(o)))
           t == Append(s, e)
<1> SUFFICES ASSUME OneConfigured, NEW p \in Orchestrators, NEW i \in DOMAIN containers'[p],
                    i \in 1..MaxIndex, containers'[p][i].source = "config_files"
             PROVE  Own(containers[p][i], i)'
  BY DEF FilesOwn, OneConfigured, Own
<1>1. s \in Seq(Range(s)) /\ Len(s) \in Nat
  BY DEF RInv, IInv, InOrder
<1>2. /\ t \in Seq(Range(t)) /\ Len(t) = k /\ t[k] = e
      /\ \A j \in 1..Len(s) : t[j] = s[j]
  <2> HIDE DEF s, e
  <2> QED BY <1>1, AppendTyped
<1>3. /\ containers'[o] = t
      /\ \A q \in Orchestrators : q # o => containers'[q] = containers[q]
  BY DEF Add, RInv, IInv, Types
<1>4. p # o => config[p] \in Configs
  BY <1>3, OnlyConfigured
<1>5. e.source = source /\ e.status = "created" /\ e.section = sections[o][k]
  BY DEF Container
<1> HIDE DEF e, t
<1>6. CASE p # o
  <2>1. source # "config_files"
    BY <1>4, <1>6 DEF OneConfigured
  <2> QED BY <1>3, <1>6, <2>1 DEF FilesOwn, Own
<1>7. CASE p = o /\ i \in 1..Len(s)
  <2>1. i \in DOMAIN s /\ s[i] = containers'[p][i] /\ i # k
    BY <1>1, <1>2, <1>3, <1>7
  <2>2. Own(s[i], i)
    BY <1>7, <2>1 DEF FilesOwn
  <2>3. config_files'[i] = config_files[i]
    BY <2>1 DEF RInv, FilesWritten
  <2> QED BY <1>7, <2>1, <2>2, <2>3 DEF Own
<1>8. CASE p = o /\ i = k
  <2>1. containers'[p][i] = e
    BY <1>2, <1>3, <1>8
  <2>2. config_files'[k] = sections[o][k].topic.doc
    <3>1. config_files' = [config_files EXCEPT ![k] = sections[o][k].topic.doc]
      BY <1>5, <2>1 DEF Upcoming
    <3> QED BY <1>8, <3>1 DEF RInv, FilesWritten
  <2> QED BY <1>5, <1>8, <2>1, <2>2 DEF Own
<1>9. p = o => i \in 1..k
  BY <1>2, <1>3
<1> HIDE DEF s
<1> QED BY <1>1, <1>6, <1>7, <1>8, <1>9

LEMMA MainOwn ==
  ASSUME RInv, FilesOwn, NEW o \in Orchestrators, NEW k \in 1..MaxIndex, Main(o, k)
  PROVE  FilesOwn'
<1> DEFINE s == containers[o]
           doc == Document(o, k)
           parameters == ClientParameters(s[k].environment)
           clients == ClientsOf(parameters)
           status == Outcome(doc, s[k].section, clients)
           launched == Launch(doc, s[k].section, clients)
           e == [s[k] EXCEPT !.status = status, !.launched = launched,
                             !.doc = doc, !.parameters = parameters]
           t == [s EXCEPT ![k] = e]
<1> SUFFICES ASSUME OneConfigured, NEW p \in Orchestrators, NEW i \in DOMAIN containers'[p],
                    i \in 1..MaxIndex
             PROVE  Own(containers[p][i], i)'
  BY DEF FilesOwn, OneConfigured, Main
<1>1. s \in Seq(Range(s)) /\ k \in DOMAIN s /\ k \in 1..Len(s) /\ s[k].status = "created"
  BY DEF Main, RInv, IInv, InOrder
<1>2. Right(sections[o][k], ArgumentsOf(o, k), s[k])
  BY <1>1 DEF RInv, AllRight
<1>3. /\ containers'[o] = t
      /\ \A q \in Orchestrators : q # o => containers'[q] = containers[q]
      /\ UNCHANGED <<pc, config, sections, config_files>>
  BY DEF Main, RInv, IInv, Types
<1>4. /\ DOMAIN t = DOMAIN s /\ t[k] = e
      /\ \A j \in DOMAIN s : j # k => t[j] = s[j]
  BY <1>1
<1>5. e.source = s[k].source /\ e.section = s[k].section /\ e.status = status /\ e.doc = doc
  <2>1. DOMAIN s[k] = Fields
    BY <1>2 DEF Right
  <2> HIDE DEF s, status, launched, doc, parameters
  <2> QED BY <2>1 DEF Fields
<1>6. status # "created"
  BY OutcomeTyped
<1> HIDE DEF t, e, status
<1>7. CASE p = o /\ i = k
  <2>1. e.source = "config_files" => doc = e.section.topic.doc
    <3> SUFFICES ASSUME s[k].source = "config_files" PROVE doc = s[k].section.topic.doc
      BY <1>5
    <3>1. doc = config_files[k]
      BY DEF Document
    <3>2. Own(s[k], k)
      BY <1>1 DEF FilesOwn
    <3> QED BY <1>1, <3>1, <3>2 DEF Own
  <2> HIDE DEF s, doc
  <2> QED BY <1>3, <1>4, <1>5, <1>6, <1>7, <2>1 DEF Own
<1>8. CASE ~(p = o /\ i = k)
  <2>1. i \in DOMAIN containers[p] /\ containers'[p][i] = containers[p][i]
    BY <1>3, <1>4, <1>8
  <2> QED BY <1>3, <2>1 DEF FilesOwn, Own
<1> QED BY <1>7, <1>8

LEMMA NextFilesOwn == RInv /\ FilesOwn /\ [Next]_vars => FilesOwn'
<1> SUFFICES ASSUME RInv, FilesOwn, [Next]_vars PROVE FilesOwn'
  OBVIOUS
<1>1. CASE UNCHANGED <<config, config_files, containers>>
  BY <1>1 DEF FilesOwn, OneConfigured, Own
<1>2. ASSUME NEW o \in Orchestrators, CreateWithTopic(o) PROVE FilesOwn'
  BY <1>2, AddOwn DEF CreateWithTopic
<1>3. ASSUME NEW o \in Orchestrators, CreateWithDocument(o) PROVE FilesOwn'
  <2> DEFINE n == Len(containers[o]) + 1
  <2>1. n \in DOMAIN sections[o] /\ Yields(o) /\ config[o] \in Configs \cup CommandLines
    <3>1. /\ Yields(o) /\ config[o] \in Configs \cup CommandLines
          /\ Len(containers[o]) \in Nat /\ Len(containers[o]) < Len(sections[o])
      BY <1>3 DEF CreateWithDocument, Creating, RInv, IInv, Types, SectionsYielded, InOrder
    <3> QED BY <3>1, YieldsSeq
  <2>2. config[o] \in Configs
    BY <1>3, <2>1, TopicsValid DEF CreateWithDocument, Upcoming
  <2> QED BY <1>3, <2>2, AddOwn DEF CreateWithDocument
<1>4. ASSUME NEW o \in Orchestrators, CreateWithFile(o) PROVE FilesOwn'
  <2>1. CASE Upcoming(o).topic.doc = None
    BY <1>1, <1>4, <2>1 DEF CreateWithFile
  <2>2. CASE Upcoming(o).topic.doc # None
    BY <1>4, <2>2, AddOwn DEF CreateWithFile
  <2> QED BY <2>1, <2>2
<1>5. ASSUME NEW o \in Orchestrators, NEW k \in 1..MaxIndex, Main(o, k) PROVE FilesOwn'
  BY <1>5, MainOwn
<1> QED
  BY <1>1, <1>2, <1>3, <1>4, <1>5 DEF Next, Validate, Expand, FromCommandLine, Created, Deployed, vars

\* Containers work on the documents of their own sections unless two
\* orchestrators with configurations share the directory: one that has only a
\* command line writes no document.
THEOREM OwnDocumentUnlessTwo == Spec => [](OneConfigured => OwnDocument)
<1>1. Init => FilesOwn
  BY DEF Init, FilesOwn
<1>2. RInv /\ FilesOwn => (OneConfigured => OwnDocument)
  <2> SUFFICES ASSUME RInv, FilesOwn, OneConfigured, NEW c \in Every,
                      The(c).status # "created", The(c).source = "config_files"
               PROVE  The(c).doc = The(c).section.topic.doc
    BY DEF OwnDocument
  <2>1. c[1] \in Orchestrators /\ c[2] \in DOMAIN containers[c[1]] /\ c[2] \in 1..MaxIndex
    BY DEF Every
  <2> QED BY <2>1 DEF FilesOwn, Own, The
<1> QED BY <1>1, <1>2, RightInductive, NextFilesOwn, PTL DEF Spec

\* Then no document that an orchestrator has checked is refused by a container.
COROLLARY NoneRefusedUnlessTwo ==
  Spec => [](OneConfigured =>
               \A c \in Every : The(c).source = "config_files" => The(c).status # "refused")
<1>1. CheckedDocumentsAccepted /\ (OneConfigured => OwnDocument) =>
        (OneConfigured =>
           \A c \in Every : The(c).source = "config_files" => The(c).status # "refused")
  BY DEF CheckedDocumentsAccepted, OwnDocument
<1> QED BY <1>1, AcceptedTwice, OwnDocumentUnlessTwo, PTL
=============================================================================
