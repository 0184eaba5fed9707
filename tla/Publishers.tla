----------------------------- MODULE Publishers -----------------------------
(***************************************************************************)
(* The process Publishers of containers/local_publisher.py: it removes the *)
(* containers of earlier runs, creates its own, sleeps two seconds, prints *)
(* their logs and statistics and removes them.  Its                        *)
(* kill_containers_with_prefix catches nothing and tries once: run() dies  *)
(* if docker fails or someone else has removed a container it has listed.  *)
(***************************************************************************)
EXTENDS Naturals, FiniteSets

CONSTANTS
  Containers,   \* names pub__0, pub__1, ... of the containers of this run
  Others        \* other containers whose names contain 'pub': when the
                \*   first killing is over none of them is left

VARIABLES
  pc,       \* where run() is
  todo,     \* containers the current loop has not reached yet
  docker,   \* containers that exist
  own,      \* containers created by this run
  complete  \* of these, the ones whose publishers have published everything

vars == <<pc, todo, docker, own, complete>>

TypeOK ==
  /\ pc \in {"new", "killOld", "create", "print", "killOwn", "done", "crashed"}
  /\ todo \subseteq Containers \cup Others
  /\ docker \subseteq Containers \cup Others
  /\ own \subseteq Containers /\ complete \subseteq own

Init ==
  /\ pc = "new" /\ todo = {}
  /\ docker \in SUBSET (Containers \cup Others)
  /\ own = {} /\ complete = {}

\* The publishers in a container have published all their messages.
Complete(c) ==
  /\ c \in (own \cap docker) \ complete
  /\ complete' = complete \cup {c}
  /\ UNCHANGED <<pc, todo, docker, own>>

\* start() runs run(), which lists the containers, running or not, whose
\* name contains 'pub'.
Start ==
  /\ pc = "new"
  /\ pc' = "killOld" /\ todo' = docker
  /\ UNCHANGED <<docker, own, complete>>

Killing == pc \in {"killOld", "killOwn"}

\* container.stop(); container.remove().
Remove ==
  /\ Killing
  /\ \E c \in todo \cap docker : todo' = todo \ {c} /\ docker' = docker \ {c}
  /\ UNCHANGED <<pc, own, complete>>

\* A container of the listing is gone when the loop comes to it: stop raises.
LosesRace ==
  /\ Killing /\ todo \ docker # {}
  /\ pc' = "crashed" /\ UNCHANGED <<todo, docker, own, complete>>

\* Someone else removes a container of another program.
OtherRemoves ==
  /\ \E c \in Others \cap docker : docker' = docker \ {c}
  /\ UNCHANGED <<pc, todo, own, complete>>

\* Mutant of Killed: run() creates the containers at once.
KilledEarly ==
  /\ pc = "killOld" /\ pc' = "create" /\ todo' = Containers
  /\ UNCHANGED <<docker, own, complete>>

\* All containers of the listing are gone.
Killed ==
  /\ todo = {}
  /\ \/ pc = "killOld" /\ pc' = "create" /\ todo' = Containers
     \/ pc = "killOwn" /\ pc' = "done" /\ UNCHANGED todo
  /\ UNCHANGED <<docker, own, complete>>

Create ==
  /\ pc = "create"
  /\ \E c \in todo \ docker :
       /\ todo' = todo \ {c}
       /\ docker' = docker \cup {c} /\ own' = own \cup {c}
  /\ UNCHANGED <<pc, complete>>

\* Mutant of KillOwn: the exited containers are not listed (all=True).
KillOwnRunning ==
  /\ pc = "print"
  /\ pc' = "killOwn" /\ todo' = docker \ complete
  /\ UNCHANGED <<docker, own, complete>>

AllCreated ==
  /\ pc = "create" /\ todo = {}
  /\ pc' = "print" /\ UNCHANGED <<todo, docker, own, complete>>

\* After time.sleep(2) the logs and statistics are printed once; all
\* containers whose name contains PUB_PREFIX are listed.
KillOwn ==
  /\ pc = "print"
  /\ pc' = "killOwn" /\ todo' = docker
  /\ UNCHANGED <<docker, own, complete>>

\* docker raises out of run().
Fail ==
  /\ pc \notin {"new", "done", "crashed"}
  /\ pc' = "crashed" /\ UNCHANGED <<todo, docker, own, complete>>

Over == pc \in {"done", "crashed"} /\ UNCHANGED vars

Proceed ==
  Start \/ Remove \/ LosesRace \/ Killed \/ Create \/ AllCreated \/ KillOwn

Next ==
  \/ Proceed \/ Fail \/ Over
  \/ OtherRemoves \/ (\E c \in Containers : Complete(c))

Spec == Init /\ [][Next]_vars

\* No name is in use when its container is about to be created.
NamesFree == pc = "create" => todo \cap docker = {}

\* A run that ends normally leaves none of its containers behind.
NoneLeft == pc = "done" => own \cap docker = {}
=============================================================================
