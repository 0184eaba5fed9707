------------------------ MODULE OrchestratorsProofs -------------------------
(***************************************************************************)
(* Proofs about Orchestrators, for any number of containers of either      *)
(* process and of others.  What one process does to docker is for the      *)
(* other a step in which someone else removes a container, so each runs as *)
(* it does alone, and what SubscribersProofs says of one holds here.       *)
(* At the end, the other program that starts Subscribers: MainScript.      *)
(***************************************************************************)
EXTENDS Orchestrators, MainScript, SubscribersProofs

-----------------------------------------------------------------------------
(* The publishers' process.                                                *)

\* While old containers are removed none is created; after it none of others
\* is left, and the last listing has all that is left.
PubInv ==
  /\ Publishers!TypeOK
  /\ pubPc \in {"new", "killOld"} => own = {}
  /\ pubPc \in {"killOld", "killOwn"} => pubDocker \subseteq pubTodo
  /\ pubPc = "create" => pubTodo \subseteq PubContainers /\ pubDocker \cap pubTodo = {}
  /\ pubPc = "done" => pubDocker = {}

LEMMA InitPubInv == InitAll => PubInv
BY DEF InitAll, PubInv, Publishers!Init, Publishers!TypeOK

\* The subscribers' process removes nothing but containers of others.
LEMMA SubscribersRemove ==
  ASSUME PubInv, TypeOK, SubscribersGo
  PROVE  /\ UNCHANGED <<pubPc, pubTodo, own, complete>>
         /\ pubDocker' \subseteq pubDocker
BY DEF SubscribersGo

LEMMA NextPubInv == PubInv /\ TypeOK /\ [NextAll]_allVars => PubInv'
<1> SUFFICES ASSUME PubInv, TypeOK, [NextAll]_allVars PROVE PubInv'
  OBVIOUS
<1> USE OrchestratorsAssumption DEF PubInv, Publishers!TypeOK
<1>1. CASE SubscribersGo
  BY <1>1, SubscribersRemove
<1>2. CASE PublishersGo
  <2>1. CASE Publishers!Start
    BY <2>1 DEF Publishers!Start
  <2>2. CASE Publishers!Remove
    BY <2>2 DEF Publishers!Remove, Publishers!Killing
  <2>3. CASE Publishers!LosesRace \/ Publishers!Fail
    BY <2>3 DEF Publishers!LosesRace, Publishers!Fail
  <2>4. CASE Publishers!Killed
    BY <2>4 DEF Publishers!Killed
  <2>5. CASE Publishers!Create
    BY <2>5 DEF Publishers!Create
  <2>6. CASE Publishers!AllCreated
    BY <2>6 DEF Publishers!AllCreated
  <2>7. CASE Publishers!KillOwn
    BY <2>7 DEF Publishers!KillOwn
  <2>8. CASE \E c \in PubContainers : Publishers!Complete(c)
    BY <2>8 DEF Publishers!Complete
  <2>9. QED
    BY <1>2, <2>1, <2>2, <2>3, <2>4, <2>5, <2>6, <2>7, <2>8
    DEF PublishersGo, Publishers!Proceed
<1>3. CASE BothOver \/ UNCHANGED allVars
  BY <1>3 DEF BothOver, Publishers!Over, Publishers!vars, allVars, pubVars
<1>4. QED
  BY <1>1, <1>2, <1>3 DEF NextAll

-----------------------------------------------------------------------------
(* The subscribers' process.                                               *)

\* Nothing of the subscribers' is removed by the publishers' process.
LEMMA PublishersRemove ==
  ASSUME PubInv, TypeOK, PublishersGo
  PROVE  /\ UNCHANGED <<pc, todo, tries, phase, seen, ready, disk, archive>>
         /\ docker' = docker \/ OtherRemoves
<1> USE OrchestratorsAssumption
<1>1. /\ UNCHANGED <<pc, todo, tries, phase, seen, ready, disk, archive>>
      /\ docker' = docker \ (pubDocker \ pubDocker')
  BY DEF PublishersGo
<1>2. CASE Publishers!Remove
  <2>1. PICK c \in pubDocker : pubDocker' = pubDocker \ {c}
    BY <1>2 DEF Publishers!Remove
  <2>2. docker' = docker \ {c}
    BY <1>1, <2>1
  <2>3. CASE c \in docker
    <3>1. c \in Others
      BY <2>1, <2>3 DEF TypeOK, PubInv, Publishers!TypeOK
    <3>2. QED
      BY <1>1, <2>2, <2>3, <3>1 DEF OtherRemoves
  <2>4. QED
    BY <1>1, <2>2, <2>3
<1>3. CASE ~Publishers!Remove
  <2>1. pubDocker \subseteq pubDocker'
    BY <1>3 DEF PublishersGo, Publishers!Proceed, Publishers!Start,
       Publishers!LosesRace, Publishers!Fail, Publishers!Killed,
       Publishers!Create, Publishers!AllCreated, Publishers!KillOwn,
       Publishers!Complete
  <2>2. QED
    BY <1>1, <2>1
<1>4. QED
  BY <1>2, <1>3

LEMMA StepAsAlone == PubInv /\ TypeOK /\ [NextAll]_allVars => [Next]_vars
<1> SUFFICES ASSUME PubInv, TypeOK, [NextAll]_allVars PROVE [Next]_vars
  OBVIOUS
<1>1. CASE SubscribersGo
  BY <1>1 DEF SubscribersGo, Next
<1>2. CASE PublishersGo
  BY <1>2, PublishersRemove DEF Next, vars
<1>3. CASE BothOver \/ UNCHANGED allVars
  BY <1>3 DEF BothOver, Over, allVars, vars
<1>4. QED
  BY <1>1, <1>2, <1>3 DEF NextAll

\* Each process keeps its invariant whatever the other does.
LEMMA BothInv == SpecAll => [](IInv /\ PubInv)
<1>1. InitAll => IInv /\ PubInv
  BY InitIInv, InitPubInv DEF InitAll
<1>2. IInv /\ PubInv /\ [NextAll]_allVars => IInv' /\ PubInv'
  BY NextIInv, NextPubInv, StepAsAlone DEF IInv
<1>3. QED
  BY <1>1, <1>2, PTL DEF SpecAll

\* The subscribers' process runs beside the publishers' as it does alone: its
\* steps are steps of Subscribers, the other's are removals by someone else.
THEOREM SubscribersAsAlone == SpecAll => Spec
<1>1. InitAll => Init
  BY DEF InitAll
<1>2. IInv /\ PubInv /\ [NextAll]_allVars => [Next]_vars
  BY StepAsAlone DEF IInv
<1>3. QED
  BY BothInv, <1>1, <1>2, PTL DEF SpecAll, Spec

\* What the subscribers' process removes from the publishers' listing is one
\* container that is not theirs.
LEMMA PubStepAsAlone ==
  PubInv /\ TypeOK /\ [NextAll]_allVars => [Publishers!Next]_Publishers!vars
<1> SUFFICES ASSUME PubInv, TypeOK, [NextAll]_allVars PROVE [Publishers!Next]_Publishers!vars
  OBVIOUS
<1> USE DEF Publishers!vars
<1>1. CASE SubscribersGo
  <2>1. /\ UNCHANGED <<pubPc, pubTodo, own, complete>>
        /\ pubDocker' = pubDocker \ (docker \ docker')
    BY <1>1 DEF SubscribersGo
  <2>2. CASE Remove
    <3>1. PICK c \in docker : docker' = docker \ {c}
      BY <2>2 DEF Remove
    <3>2. pubDocker' = pubDocker \ {c}
      BY <2>1, <3>1
    <3>3. CASE c \in pubDocker
      <4>1. c \in PubOthers
        BY <3>1, <3>3, OrchestratorsAssumption DEF TypeOK, PubInv, Publishers!TypeOK
      <4> QED BY <2>1, <3>2, <3>3, <4>1 DEF Publishers!Next, Publishers!OtherRemoves
    <3> QED BY <2>1, <3>2, <3>3
  <2>3. CASE ~Remove
    <3>1. docker \subseteq docker'
      BY <1>1, <2>3 DEF SubscribersGo, Proceed, Fail, ContainerStep, Start, LosesRace,
         PassDone, Create, AllCreated, SetReady, PollLog, RoundDone, Extract, Pack,
         KillFails, CreateFails, CollectFails
    <3> QED BY <2>1, <3>1
  <2> QED BY <2>2, <2>3
<1>2. CASE PublishersGo
  BY <1>2 DEF PublishersGo, Publishers!Next
<1>3. CASE BothOver \/ UNCHANGED allVars
  BY <1>3 DEF BothOver, Publishers!Over, allVars, pubVars
<1> QED BY <1>1, <1>2, <1>3 DEF NextAll

\* So does the publishers' process: for it, too, the other one is someone who
\* removes containers.
THEOREM PublishersAsAlone == SpecAll => Publishers!Spec
<1>1. InitAll => Publishers!Init
  BY DEF InitAll
<1>2. IInv /\ PubInv /\ [NextAll]_allVars => [Publishers!Next]_Publishers!vars
  BY PubStepAsAlone DEF IInv
<1> QED BY BothInv, <1>1, <1>2, PTL DEF SpecAll, Publishers!Spec

\* Neither process creates a container under a name in use.
THEOREM NamesAlwaysFree == SpecAll => []EveryNameFree
<1>1. IInv /\ PubInv => EveryNameFree
  BY DEF IInv, CreateInv, PubInv, EveryNameFree, NamesFree,
         Publishers!NamesFree
<1>2. QED
  BY BothInv, <1>1, PTL

\* Publishers that end normally leave none of their containers behind.
THEOREM NoPublisherLeft == SpecAll => []PubNoneLeft
<1>1. PubInv => PubNoneLeft
  BY DEF PubInv, PubNoneLeft, Publishers!NoneLeft
<1>2. QED
  BY BothInv, <1>1, PTL

-----------------------------------------------------------------------------
(* main.py.                                                                *)

\* The child sets a flag that main.py does not see.
FlagInv == ~ready.shared /\ script # "end" /\ ~publishers

LEMMA NextFlagInv == IInv /\ FlagInv /\ [MainNext]_mainVars => FlagInv'
<1> SUFFICES ASSUME IInv, FlagInv, [MainNext]_mainVars PROVE FlagInv'
  OBVIOUS
<1> USE DEF FlagInv
<1>1. ready \in [shared : BOOLEAN, own : BOOLEAN]
  BY DEF IInv, TypeOK
<1>2. ASSUME Next PROVE ready'.shared = ready.shared
  <2>1. CASE SetReady
    BY <1>1, <2>1 DEF SetReady
  <2>2. CASE ~SetReady
    <3>1. UNCHANGED ready
      BY <1>2, <2>2 DEF Next, Proceed, Fail, Over, OtherRemoves, ContainerStep, Start, Remove,
         LosesRace, PassDone, Create, AllCreated, PollLog, RoundDone, Extract, Pack, KillFails,
         CreateFails, CollectFails, vars
    <3> QED BY <3>1
  <2> QED BY <2>1, <2>2
<1>3. CASE StartSubscribers
  BY <1>3 DEF StartSubscribers, Start
<1>4. CASE PollReady
  BY <1>4 DEF PollReady, scriptVars, vars
<1>5. CASE SubscribersStep
  BY <1>2, <1>5 DEF SubscribersStep, scriptVars
<1>6. CASE UNCHANGED mainVars
  BY <1>6 DEF mainVars, vars
<1> QED BY <1>3, <1>4, <1>5, <1>6 DEF MainNext

\* Started by main.py, the subscribers' process runs as it does alone.
THEOREM SubscribersUnderMain == MainSpec => Spec
<1>1. MainInit => Init
  BY DEF MainInit
<1>2. [MainNext]_mainVars => [Next]_vars
  BY DEF MainNext, StartSubscribers, PollReady, SubscribersStep, Next, Proceed, mainVars
<1> QED BY <1>1, <1>2, PTL DEF MainSpec, Spec

\* main.py never starts the publishers, however many containers there are:
\* the flag it polls is not the one that Subscribers.run sets.
THEOREM PublishersNeverStart == MainSpec => []~publishers
<1>1. MainInit => FlagInv
  BY DEF MainInit, Init, FlagInv
<1>2. MainSpec => []IInv
  BY SubscribersUnderMain, Inductive, PTL
<1>3. FlagInv => ~publishers
  BY DEF FlagInv
<1> QED BY <1>1, <1>2, <1>3, NextFlagInv, PTL DEF MainSpec
=============================================================================
