--------------------------- MODULE Orchestrators ----------------------------
(***************************************************************************)
(* The two orchestrators on one host.  local_subscriber.py and             *)
(* local_publisher.py are started by hand, in any order (main.py never     *)
(* starts the second: MainScript).  They share docker: a container whose   *)
(* name contains both 'sub' and 'pub' is a container of an earlier run to  *)
(* either, and one of them removes it from under the other's listing.      *)
(*                                                                         *)
(* The variables of Subscribers keep their names; docker and pubDocker are *)
(* the containers with 'sub' and with 'pub' in their names.                *)
(***************************************************************************)
EXTENDS Subscribers

CONSTANTS PubContainers, PubOthers \* as in Publishers

VARIABLES
  pubPc, pubTodo, pubDocker, own, complete \* as in Publishers

Publishers ==
  INSTANCE Publishers WITH
    Containers <- PubContainers, Others <- PubOthers,
    pc <- pubPc, todo <- pubTodo, docker <- pubDocker

pubVars == <<pubPc, pubTodo, pubDocker, own, complete>>
allVars == <<vars, pubVars>>

\* Containers both orchestrators take for their own.
Shared == Others \cap PubOthers

ASSUME OrchestratorsAssumption ==
  /\ PubContainers \cap (PubOthers \cup Containers \cup Others) = {}
  /\ PubOthers \cap Containers = {}

InitAll ==
  /\ Init /\ Publishers!Init
  /\ docker \cap Shared = pubDocker \cap Shared

\* What one orchestrator removes is gone for the other.
SubscribersGo ==
  /\ Proceed \/ Fail \/ (\E c \in Containers : ContainerStep(c))
  /\ pubDocker' = pubDocker \ (docker \ docker')
  /\ UNCHANGED <<pubPc, pubTodo, own, complete>>

PublishersGo ==
  /\ \/ Publishers!Proceed
     \/ Publishers!Fail
     \/ \E c \in PubContainers : Publishers!Complete(c)
  /\ docker' = docker \ (pubDocker \ pubDocker')
  /\ UNCHANGED <<pc, todo, tries, phase, seen, ready, disk, archive>>

BothOver == Over /\ Publishers!Over

NextAll == SubscribersGo \/ PublishersGo \/ BothOver

SpecAll == InitAll /\ [][NextAll]_allVars

FairSpecAll ==
  /\ SpecAll
  /\ WF_allVars(Proceed /\ SubscribersGo)
  /\ WF_allVars(Publishers!Proceed /\ PublishersGo)

-----------------------------------------------------------------------------
(* Properties.                                                             *)

\* Neither process creates a container under a name in use, although docker
\* may fail in the middle of removing what held it, and the other process
\* removes containers at the same time.
EveryNameFree == NamesFree /\ Publishers!NamesFree

\* Publishers that end normally leave none of their containers behind.
PubNoneLeft == Publishers!NoneLeft

\* The subscribers' process ends once all its containers have finished, and
\* the publishers' process ends, whoever loses the races for containers.
BothEnd ==
  /\ EndsIfAllFinish
  /\ <>(pubPc \in {"done", "crashed"})
=============================================================================
