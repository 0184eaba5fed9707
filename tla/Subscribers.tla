---------------------------- MODULE Subscribers -----------------------------
(***************************************************************************)
(* The process Subscribers of containers/local_subscriber.py: it removes   *)
(* the containers of earlier runs, creates one container per entry of the  *)
(* configuration, polls the log of each until all have printed that they   *)
(* finished, gathers their csv files in one tar archive and removes the    *)
(* containers.                                                             *)
(*                                                                         *)
(* The containers behave as Container says and docker is external: run     *)
(* refuses a name in use, and any call may raise.  list(all=True) inspects *)
(* the containers one by one and raises when any of them has vanished; one *)
(* that returns is what existed at its start.  stop and remove are two     *)
(* calls: both raise for a container that is gone, and remove is refused   *)
(* while another removal of it is in progress.  So someone else's removal  *)
(* of one container may fail any number of passes.                         *)
(***************************************************************************)
EXTENDS Naturals, FiniteSets

CONSTANTS
  Containers,   \* names sub__0, sub__1, ... of the containers of this run
  Others,       \* other containers whose names contain 'sub'
  PrefixOthers, \* of these, the ones whose names contain SUB_PREFIX 'sub_'
  CsvNames,     \* names of csv files
  CsvName,      \* the csv file initialize_log creates in a container
  Nobody, Earlier \* no csv file, the csv file of an earlier run

ASSUME SubscribersAssumption ==
  /\ IsFiniteSet(Containers) /\ Containers \cap Others = {}
  /\ PrefixOthers \subseteq Others
  /\ CsvName \in [Containers -> CsvNames]
  /\ Nobody # Earlier /\ {Nobody, Earlier} \cap Containers = {}

VARIABLES
  pc,        \* where run() is
  todo,      \* containers the current loop has not reached yet
  tries,     \* nr_tries of kill_containers_with_prefix; 3: the last call
  docker,    \* containers that exist, whatever their state
  phase,     \* of each container of this run: "absent" or as in Container
  seen,      \* container_finished
  ready,     \* __ready_to_receive_msgs: the Value both processes share and
             \*   the one the child has put in its place
  disk,      \* whose csv file is under each name in the directory logs
  archive    \* whose csv files are in the tar archive

vars == <<pc, todo, tries, docker, phase, seen, ready, disk, archive>>

Phases == {"absent", "running", "late", "written", "partial", "finished",
           "finishedPartial", "exited"}
Owners == Containers \cup {Nobody, Earlier}

TypeOK ==
  /\ pc \in {"new", "killOld", "create", "ready", "poll", "collect", "pack",
             "killOwn", "done", "crashed"}
  /\ todo \subseteq Containers \cup Others
  /\ tries \in 1..3
  /\ docker \subseteq Containers \cup Others
  /\ phase \in [Containers -> Phases]
  /\ seen \subseteq Containers
  /\ ready \in [shared : BOOLEAN, own : BOOLEAN]
  /\ disk \in [CsvNames -> Owners]
  /\ archive \subseteq Owners

\* Containers and csv files of earlier runs may be left.
Init ==
  /\ pc = "new" /\ todo = {} /\ tries = 1
  /\ docker \in SUBSET (Containers \cup Others)
  /\ phase = [c \in Containers |-> "absent"]
  /\ seen = {}
  /\ ready = [shared |-> FALSE, own |-> FALSE]
  /\ disk \in [CsvNames -> {Nobody, Earlier}]
  /\ archive = {}

-----------------------------------------------------------------------------
(* The containers.                                                         *)

\* A container of this run goes on by itself, as Container describes it.
AbstractContainer(c) == INSTANCE Container WITH phase <- phase[c]

ContainerStep(c) ==
  /\ c \in docker
  /\ \E next \in Phases : phase' = [phase EXCEPT ![c] = next]
  /\ AbstractContainer(c)!Next
  /\ UNCHANGED <<pc, todo, tries, docker, seen, ready, disk, archive>>

-----------------------------------------------------------------------------
(* kill_containers_with_prefix.                                            *)

\* The containers, running or not, whose name contains the prefix.
Victims(prefix) ==
  IF prefix = "sub" THEN docker ELSE docker \cap (Containers \cup PrefixOthers)

\* The first call passes 'sub' for the prefix, the last one SUB_PREFIX.
Prefix == IF pc = "killOld" THEN "sub" ELSE "sub_"

Killing == pc \in {"killOld", "killOwn"}

\* start() runs run(), which first kills what is left of earlier runs.
Start ==
  /\ pc = "new"
  /\ pc' = "killOld" /\ todo' = Victims("sub") /\ tries' = 1
  /\ UNCHANGED <<docker, phase, seen, ready, disk, archive>>

\* container.stop(); container.remove(): both succeed.
Remove ==
  /\ Killing
  /\ \E c \in todo \cap docker :
       /\ todo' = todo \ {c}
       /\ docker' = docker \ {c}
  /\ UNCHANGED <<pc, tries, phase, seen, ready, disk, archive>>

\* Where kill_containers_with_prefix returns to.
AfterKilling ==
  IF pc = "killOld" THEN pc' = "create" /\ todo' = Containers
                    ELSE pc' = "done" /\ todo' = {}

\* The pass is complete.  A second one leaves nr_tries at 2, so the
\* unprotected call after the loop repeats it.
PassDone ==
  /\ Killing /\ todo = {}
  /\ IF tries = 2 THEN tries' = 3 /\ todo' = Victims(Prefix) /\ UNCHANGED pc
                  ELSE tries' = 1 /\ AfterKilling
  /\ UNCHANGED <<docker, phase, seen, ready, disk, archive>>

\* Mutant of KillFails: the unprotected call after the loop is missing.
KillFailsGivesUp ==
  /\ Killing
  /\ IF tries = 2 THEN tries' = 1 /\ AfterKilling
                  ELSE tries' = tries + 1 /\ todo' = Victims(Prefix) /\ UNCHANGED pc
  /\ UNCHANGED <<docker, phase, seen, ready, disk, archive>>

\* A call of docker raises, the listing included: the loop tries again, the
\* last call does not catch it.
KillFails ==
  /\ Killing
  /\ IF tries = 3 THEN pc' = "crashed" /\ UNCHANGED <<todo, tries>>
                  ELSE tries' = tries + 1 /\ todo' = Victims(Prefix) /\ UNCHANGED pc
  /\ UNCHANGED <<docker, phase, seen, ready, disk, archive>>

\* A container of the listing is gone when the loop comes to it: then the
\* pass fails for certain.
LosesRace == todo \ docker # {} /\ KillFails

\* Someone else removes a container of another program.
OtherRemoves ==
  /\ \E c \in Others \cap docker : docker' = docker \ {c}
  /\ UNCHANGED <<pc, todo, tries, phase, seen, ready, disk, archive>>

-----------------------------------------------------------------------------
(* Creating the containers and waiting for them.                           *)

\* create_container: docker run with the container's name.
Create ==
  /\ pc = "create"
  /\ \E c \in todo \ docker :
       /\ todo' = todo \ {c}
       /\ docker' = docker \cup {c}
       /\ phase' = [phase EXCEPT ![c] = "running"]
  /\ UNCHANGED <<pc, tries, seen, ready, disk, archive>>

\* The name is in use, the image or the network is missing: run() dies.
CreateFails ==
  /\ pc = "create" /\ todo # {}
  /\ pc' = "crashed"
  /\ UNCHANGED <<todo, tries, docker, phase, seen, ready, disk, archive>>

AllCreated ==
  /\ pc = "create" /\ todo = {}
  /\ pc' = "ready"
  /\ UNCHANGED <<todo, tries, docker, phase, seen, ready, disk, archive>>

\* self.__ready_to_receive_msgs = Value('i', True): a new object, which only
\* this process knows, takes the place of the shared one.
SetReady ==
  /\ pc = "ready"
  /\ ready' = [ready EXCEPT !.own = TRUE]
  /\ pc' = "poll" /\ todo' = Containers
  /\ UNCHANGED <<tries, docker, phase, seen, disk, archive>>

\* The line is in the log, whether the csv file has every row or not.
Printed(ph) == ph \in {"finished", "finishedPartial"}

\* Mutant of Marked: a container that stopped counts as finished.
MarkedIfStopped(c) == Printed(phase[c]) \/ phase[c] = "exited"

\* Mutant of Marked: the line carries another name, as without $HOSTNAME.
MarkedNever(c) == phase[c] \notin Phases

\* '<name> finished its operation' is in the output of docker logs <name>.
Marked(c) == Printed(phase[c])

PollLog ==
  /\ pc = "poll"
  /\ \E c \in todo :
       /\ todo' = todo \ {c}
       /\ seen' = IF Marked(c) THEN seen \cup {c} ELSE seen
  /\ UNCHANGED <<pc, tries, docker, phase, ready, disk, archive>>

\* The first loop of collect_containers_logs: csv files of earlier runs go.
Cleared == [n \in CsvNames |-> Nobody]

\* Mutant of RoundDone: the old csv files are left where they are.
RoundDoneKeepsFiles ==
  /\ pc = "poll" /\ todo = {}
  /\ todo' = Containers
  /\ IF seen = Containers THEN pc' = "collect" ELSE UNCHANGED pc
  /\ UNCHANGED <<tries, docker, phase, seen, ready, disk, archive>>

\* A round over the containers is complete: collect, or sleep and poll again.
RoundDone ==
  /\ pc = "poll" /\ todo = {}
  /\ todo' = Containers
  /\ IF seen = Containers THEN pc' = "collect" /\ disk' = Cleared
                          ELSE UNCHANGED <<pc, disk>>
  /\ UNCHANGED <<tries, docker, phase, seen, ready, archive>>

-----------------------------------------------------------------------------
(* collect_containers_logs.                                                *)

\* The csv file of a container is extracted over one of the same name.
Extract ==
  /\ pc = "collect"
  /\ \E c \in todo :
       /\ todo' = todo \ {c}
       /\ disk' = [disk EXCEPT ![CsvName[c]] = c]
  /\ UNCHANGED <<pc, tries, docker, phase, seen, ready, archive>>

\* Mutant of Pack: the directory is emptied before it is packed.
PackCleared ==
  /\ pc = "collect" /\ todo = {}
  /\ archive' = {}
  /\ disk' = Cleared
  /\ pc' = "killOwn" /\ tries' = 1
  /\ todo' = Victims("sub_")
  /\ UNCHANGED <<docker, phase, seen, ready>>

\* The directory is packed and emptied; the containers are to be killed.
Pack ==
  /\ pc = "collect" /\ todo = {}
  /\ archive' = {disk[n] : n \in CsvNames} \ {Nobody}
  /\ disk' = Cleared
  /\ pc' = "killOwn" /\ tries' = 1
  /\ todo' = Victims("sub_")
  /\ UNCHANGED <<docker, phase, seen, ready>>

\* get_archive or the file system fails: run() dies and kills nothing.
CollectFails ==
  /\ pc = "collect"
  /\ pc' = "crashed"
  /\ UNCHANGED <<todo, tries, docker, phase, seen, ready, disk, archive>>

Over == pc \in {"done", "crashed"} /\ UNCHANGED vars

Proceed ==
  \/ Start \/ Remove \/ LosesRace \/ PassDone
  \/ Create \/ AllCreated \/ SetReady
  \/ PollLog \/ RoundDone \/ Extract \/ Pack

Fail == KillFails \/ CreateFails \/ CollectFails

Next ==
  \/ Proceed \/ Fail \/ Over
  \/ OtherRemoves \/ (\E c \in Containers : ContainerStep(c))

Spec == Init /\ [][Next]_vars

\* The process runs; containers and docker promise nothing.
FairSpec == Spec /\ WF_vars(Proceed)

-----------------------------------------------------------------------------
(* Properties.                                                             *)

DistinctCsv ==
  \A c, d \in Containers : CsvName[c] = CsvName[d] => c = d

\* The containers are created under fixed names.  kill_containers has removed
\* whatever held them, although docker may fail in the middle of it: no name
\* is in use when its container is about to be created.
NamesFree == pc = "create" => todo \cap docker = {}

\* Logs are collected only when every container has finished: each csv file
\* that is extracted is final, and rows are missing only where a subscriber
\* was late (see Container).
CollectsFinished ==
  pc \in {"collect", "killOwn", "done"} =>
    \A c \in Containers : Printed(phase[c])

\* The archive has no csv file of an earlier run, of which some may still lie
\* in the directory the csv files are extracted to.
ArchiveFresh == Earlier \notin archive

\* A container with results is removed only when its csv file is in the
\* archive, if the csv files have distinct names.
NoResultLost ==
  [][DistinctCsv =>
       \A c \in Containers :
         Printed(phase[c]) /\ c \in docker \ docker' => c \in archive]_vars

\* Once all containers have finished the process ends.
EndsIfAllFinish ==
  <>[](\A c \in Containers : Printed(phase[c]))
    => <>(pc \in {"done", "crashed"})
=============================================================================
