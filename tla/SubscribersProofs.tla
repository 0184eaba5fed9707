------------------------- MODULE SubscribersProofs --------------------------
(***************************************************************************)
(* Proofs about Subscribers for every set of containers, of other          *)
(* containers, and every assignment of csv file names.                     *)
(***************************************************************************)
EXTENDS Subscribers, TLAPS

\* While old containers are killed none of this run exists, and what is left
\* of docker is what is left of the listing.
KillInv ==
  /\ pc \in {"new", "killOld"} => \A c \in Containers : phase[c] = "absent"
  /\ pc = "killOld" => docker \subseteq todo

\* Outside of kill_containers the loops are over the containers of this run,
\* and while these are created docker has none that are still to come.
CreateInv ==
  /\ pc \in {"create", "ready", "poll", "collect"} => todo \subseteq Containers
  /\ pc = "create" => docker \cap todo = {}

\* container_finished is about finished containers.
SeenInv ==
  /\ pc \in {"new", "killOld", "create", "ready"} => seen = {}
  /\ \A c \in seen : Printed(phase[c])
  /\ pc \in {"collect", "killOwn", "done"} => seen = Containers

\* The directory is emptied before the csv files are extracted, and each stays
\* where it was extracted to if no other has its name.
DiskInv ==
  /\ pc = "collect" => \A n \in CsvNames : disk[n] # Earlier
  /\ Earlier \notin archive
  /\ DistinctCsv =>
       /\ pc = "collect" => \A c \in Containers \ todo : disk[CsvName[c]] = c
       /\ pc = "killOwn" => Containers \subseteq archive

IInv == TypeOK /\ KillInv /\ CreateInv /\ SeenInv /\ DiskInv

LEMMA InitIInv == Init => IInv
<1> SUFFICES ASSUME Init PROVE IInv
  OBVIOUS
<1> USE SubscribersAssumption DEF SubscribersAssumption, Init
<1>1. TypeOK
  BY DEF TypeOK, Phases, Owners
<1>2. KillInv /\ CreateInv /\ SeenInv /\ DiskInv
  BY DEF KillInv, CreateInv, SeenInv, DiskInv
<1>3. QED
  BY <1>1, <1>2 DEF IInv

\* A container that is absent stays absent, and a line stays in the log.
LEMMA ContainerStable ==
  ASSUME TypeOK, NEW c \in Containers, ContainerStep(c), NEW d \in Containers
  PROVE  /\ phase[d] = "absent" => phase'[d] = "absent"
         /\ Printed(phase[d]) => Printed(phase'[d])
         /\ phase' \in [Containers -> Phases]
BY DEF TypeOK, ContainerStep, Phases, Printed, AbstractContainer!Next,
       AbstractContainer!BeLate, AbstractContainer!WriteCsv, AbstractContainer!PrintFinished,
       AbstractContainer!Crash

LEMMA NextIInv == IInv /\ [Next]_vars => IInv'
<1> SUFFICES ASSUME IInv, [Next]_vars PROVE IInv'
  OBVIOUS
<1> USE SubscribersAssumption DEF SubscribersAssumption, IInv
<1> USE DEF KillInv, CreateInv, SeenInv, DiskInv
<1>1. CASE Start
  BY <1>1 DEF Start, TypeOK, Victims
<1>2. CASE Remove
  BY <1>2 DEF Remove, TypeOK, Killing
<1>3. CASE PassDone
  BY <1>3 DEF PassDone, TypeOK, Killing, AfterKilling, Victims, Prefix
<1>4. CASE KillFails
  BY <1>4 DEF KillFails, TypeOK, Killing, Victims, Prefix
<1>5. CASE Create
  <2>1. pc = "create" /\ pc' = "create"
    BY <1>5 DEF Create
  <2>2. PICK c \in todo \ docker :
          /\ todo' = todo \ {c}
          /\ docker' = docker \cup {c}
          /\ phase' = [phase EXCEPT ![c] = "running"]
    BY <1>5 DEF Create
  <2>3. UNCHANGED <<tries, seen, ready, disk, archive>>
    BY <1>5 DEF Create
  <2>4. phase' \in [Containers -> Phases]
    BY <2>2 DEF TypeOK, Phases
  <2>5. TypeOK'
    BY <2>1, <2>2, <2>3, <2>4 DEF TypeOK
  <2>6. seen = {}
    BY <2>1
  <2>7. KillInv' /\ CreateInv' /\ SeenInv' /\ DiskInv'
    BY <2>1, <2>2, <2>3, <2>6 DEF TypeOK
  <2>8. QED
    BY <2>5, <2>7
<1>6. CASE CreateFails
  BY <1>6 DEF CreateFails, TypeOK
<1>7. CASE AllCreated
  BY <1>7 DEF AllCreated, TypeOK
<1>8. CASE SetReady
  BY <1>8 DEF SetReady, TypeOK
<1>9. CASE PollLog
  <2>1. PICK c \in todo :
          /\ todo' = todo \ {c}
          /\ seen' = IF Marked(c) THEN seen \cup {c} ELSE seen
    BY <1>9 DEF PollLog
  <2>2. pc = "poll" /\ UNCHANGED <<pc, tries, docker, phase, ready, disk, archive>>
    BY <1>9 DEF PollLog
  <2>3. TypeOK'
    BY <2>1, <2>2 DEF TypeOK, Marked, Phases
  <2>4. KillInv' /\ CreateInv' /\ DiskInv'
    BY <2>1, <2>2
  <2>5. SeenInv'
    BY <2>1, <2>2 DEF Marked
  <2>6. QED
    BY <2>3, <2>4, <2>5
<1>10. CASE RoundDone
  <2>1. TypeOK'
    BY <1>10 DEF RoundDone, TypeOK, Cleared, Owners
  <2>2. KillInv' /\ CreateInv' /\ SeenInv'
    BY <1>10 DEF RoundDone
  <2>3. DiskInv'
    BY <1>10 DEF RoundDone, Cleared
  <2>4. QED
    BY <2>1, <2>2, <2>3
<1>11. CASE Extract
  <2>1. PICK c \in todo :
          /\ todo' = todo \ {c}
          /\ disk' = [disk EXCEPT ![CsvName[c]] = c]
    BY <1>11 DEF Extract
  <2>2. /\ pc = "collect"
        /\ UNCHANGED <<pc, tries, docker, phase, seen, ready, archive>>
    BY <1>11 DEF Extract
  <2>3. c \in Containers /\ CsvName[c] \in CsvNames
    BY <2>2
  <2>4. /\ disk' \in [CsvNames -> Owners]
        /\ disk'[CsvName[c]] = c
        /\ \A n \in CsvNames : n # CsvName[c] => disk'[n] = disk[n]
    BY <2>1, <2>3 DEF TypeOK, Owners
  <2>5. TypeOK'
    BY <2>1, <2>2, <2>4 DEF TypeOK
  <2>6. KillInv' /\ CreateInv' /\ SeenInv'
    BY <2>1, <2>2
  <2>7. \A n \in CsvNames : disk'[n] # Earlier
    BY <2>2, <2>3, <2>4
  <2>8. ASSUME DistinctCsv, NEW d \in Containers \ todo'
        PROVE  disk'[CsvName[d]] = d
    BY <2>1, <2>2, <2>3, <2>4, <2>8 DEF DistinctCsv
  <2>9. DiskInv'
    BY <2>2, <2>7, <2>8 DEF DistinctCsv
  <2>10. QED
    BY <2>5, <2>6, <2>9
<1>12. CASE Pack
  <2>1. TypeOK'
    BY <1>12 DEF Pack, TypeOK, Cleared, Owners, Victims
  <2>2. KillInv' /\ CreateInv' /\ SeenInv'
    BY <1>12 DEF Pack
  <2>3. Earlier \notin archive'
    BY <1>12 DEF Pack
  <2>4. ASSUME DistinctCsv PROVE Containers \subseteq archive'
    <3>1. ASSUME NEW c \in Containers PROVE c \in archive'
      <4>1. CsvName[c] \in CsvNames /\ disk[CsvName[c]] = c /\ c # Nobody
        BY <1>12, <2>4 DEF Pack
      <4>2. QED
        BY <1>12, <4>1 DEF Pack
    <3>2. QED
      BY <3>1
  <2>5. DiskInv'
    BY <1>12, <2>3, <2>4 DEF Pack, DistinctCsv
  <2>6. QED
    BY <2>1, <2>2, <2>5
<1>13. CASE CollectFails
  BY <1>13 DEF CollectFails, TypeOK
<1>14. CASE \E c \in Containers : ContainerStep(c)
  <2>1. PICK c \in Containers : ContainerStep(c)
    BY <1>14
  <2>2. UNCHANGED <<pc, todo, tries, docker, seen, ready, disk, archive>>
    BY <2>1 DEF ContainerStep
  <2>3. TypeOK'
    BY <2>1, <2>2, ContainerStable DEF TypeOK
  <2>4. KillInv' /\ CreateInv' /\ DiskInv'
    BY <2>1, <2>2, ContainerStable DEF DistinctCsv
  <2>5. SeenInv'
    BY <2>1, <2>2, ContainerStable DEF TypeOK
  <2>6. QED
    BY <2>3, <2>4, <2>5
<1>15. CASE OtherRemoves
  BY <1>15 DEF OtherRemoves, TypeOK, DistinctCsv
<1>16. CASE Over \/ UNCHANGED vars
  BY <1>16 DEF Over, vars, TypeOK, DistinctCsv
<1>17. QED
  BY <1>1, <1>2, <1>3, <1>4, <1>5, <1>6, <1>7, <1>8, <1>9, <1>10, <1>11,
     <1>12, <1>13, <1>14, <1>15, <1>16 DEF Next, Proceed, Fail, LosesRace

LEMMA Inductive == Spec => []IInv
BY InitIInv, NextIInv, PTL DEF Spec

\* Every reachable state has the declared types.
THEOREM TypeCorrect == Spec => []TypeOK
<1>1. IInv => TypeOK
  BY DEF IInv
<1>2. QED
  BY Inductive, <1>1, PTL

\* create_container never meets a name in use, whatever kill_containers ran
\* into before.
THEOREM NamesAreFree == Spec => []NamesFree
<1>1. IInv => NamesFree
  BY DEF IInv, CreateInv, NamesFree
<1>2. QED
  BY Inductive, <1>1, PTL

\* Logs are collected from finished containers only.
THEOREM CollectsOnlyFinished == Spec => []CollectsFinished
<1>1. IInv => CollectsFinished
  BY DEF IInv, SeenInv, CollectsFinished
<1>2. QED
  BY Inductive, <1>1, PTL

\* The archive of a run holds no csv file of an earlier one.
THEOREM ArchiveIsFresh == Spec => []ArchiveFresh
<1>1. IInv => ArchiveFresh
  BY DEF IInv, DiskInv, ArchiveFresh
<1>2. QED
  BY Inductive, <1>1, PTL

\* With distinct csv names no container with results is removed before its
\* csv file is in the archive.
THEOREM NothingLost == Spec => NoResultLost
<1>1. IInv /\ [Next]_vars =>
        [DistinctCsv =>
           \A c \in Containers :
             Printed(phase[c]) /\ c \in docker \ docker' => c \in archive]_vars
  <2> SUFFICES ASSUME IInv, [Next]_vars, DistinctCsv, NEW c \in Containers,
                      Printed(phase[c]), c \in docker \ docker'
               PROVE  c \in archive
    OBVIOUS
  <2>1. CASE Remove
    BY <2>1 DEF Remove, Killing, IInv, KillInv, DiskInv, Printed
  <2>2. CASE OtherRemoves
    BY <2>2, SubscribersAssumption DEF OtherRemoves, SubscribersAssumption
  <2>3. CASE ~Remove /\ ~OtherRemoves
    <3>1. docker \subseteq docker'
      BY <2>3 DEF Next, Proceed, Fail, Start, PassDone, Create, AllCreated,
                  SetReady, PollLog, RoundDone, Extract, Pack, LosesRace,
                  KillFails, CreateFails, CollectFails, ContainerStep, Over,
                  vars
    <3>2. QED
      BY <3>1
  <2>4. QED
    BY <2>1, <2>2, <2>3
<1>2. QED
  BY Inductive, <1>1, PTL DEF Spec, NoResultLost

-----------------------------------------------------------------------------
(* What is in the archive.                                                 *)

\* One csv file per name: the file of some container that writes under it.
OneFilePerName ==
  /\ archive \subseteq Containers
  /\ \A c, d \in archive : CsvName[c] = CsvName[d] => c = d
  /\ \A c \in Containers : \E d \in archive : CsvName[d] = CsvName[c]

\* A csv file keeps its name, and a name that was extracted to is not empty.
FileInv ==
  /\ pc = "collect" =>
       /\ \A n \in CsvNames :
            disk[n] = Nobody \/ (disk[n] \in Containers /\ CsvName[disk[n]] = n)
       /\ \A c \in Containers \ todo : disk[CsvName[c]] \in Containers
  /\ pc \in {"killOwn", "done"} => OneFilePerName

LEMMA NextFileInv == IInv /\ FileInv /\ [Next]_vars => FileInv'
<1> SUFFICES ASSUME IInv, FileInv, [Next]_vars PROVE FileInv'
  OBVIOUS
<1> USE SubscribersAssumption DEF SubscribersAssumption, FileInv
<1>1. /\ todo \subseteq Containers \cup Others /\ disk \in [CsvNames -> Owners]
      /\ pc \in {"create", "ready", "poll", "collect"} => todo \subseteq Containers
  BY DEF IInv, TypeOK, CreateInv
<1>2. CASE Extract
  <2>1. PICK c \in todo : /\ todo' = todo \ {c}
                          /\ disk' = [disk EXCEPT ![CsvName[c]] = c]
    BY <1>2 DEF Extract
  <2>2. pc = "collect" /\ pc' = "collect" /\ c \in Containers
    BY <1>1, <1>2, <2>1 DEF Extract
  <2>3. /\ disk'[CsvName[c]] = c
        /\ \A n \in CsvNames \ {CsvName[c]} : disk'[n] = disk[n]
    BY <1>1, <2>1, <2>2
  <2>4. \A n \in CsvNames : \/ disk'[n] = Nobody
                            \/ disk'[n] \in Containers /\ CsvName[disk'[n]] = n
    BY <2>2, <2>3
  <2>5. \A d \in Containers \ todo' : disk'[CsvName[d]] \in Containers
    BY <2>1, <2>2, <2>3
  <2> QED BY <2>2, <2>4, <2>5
<1>3. CASE Pack
  <2>1. /\ pc = "collect" /\ pc' = "killOwn" /\ todo = {}
        /\ archive' = {disk[n] : n \in CsvNames} \ {Nobody}
    BY <1>3 DEF Pack
  <2>2. archive' \subseteq Containers
    BY <2>1
  <2>3. \A c, d \in archive' : CsvName[c] = CsvName[d] => c = d
    <3> TAKE c, d \in archive'
    <3>1. PICK m \in CsvNames : disk[m] = c
      BY <2>1
    <3>2. PICK n \in CsvNames : disk[n] = d
      BY <2>1
    <3> QED BY <2>1, <3>1, <3>2
  <2>4. ASSUME NEW c \in Containers
        PROVE  \E d \in archive' : CsvName[d] = CsvName[c]
    <3>1. disk[CsvName[c]] \in Containers
      BY <2>1
    <3>2. disk[CsvName[c]] \in archive'
      BY <2>1, <3>1
    <3>3. CsvName[disk[CsvName[c]]] = CsvName[c]
      BY <2>1, <3>1
    <3> QED BY <3>2, <3>3
  <2> QED BY <2>1, <2>2, <2>3, <2>4 DEF OneFilePerName
<1>4. CASE RoundDone
  <2>1. pc' = "collect" => todo' = Containers /\ disk' = Cleared
    BY <1>4 DEF RoundDone
  <2>2. pc' \notin {"killOwn", "done"}
    BY <1>4 DEF RoundDone
  <2> QED BY <2>1, <2>2 DEF Cleared
<1>5. CASE ~Extract /\ ~Pack /\ ~RoundDone
  <2>1. UNCHANGED <<disk, archive>>
    BY <1>5 DEF Next, Proceed, Fail, Start, Remove, LosesRace, KillFails, PassDone,
       Create, AllCreated, SetReady, PollLog, CreateFails, CollectFails, ContainerStep,
       OtherRemoves, Over, vars
  <2>2. /\ pc' = "collect" => pc = "collect" /\ todo' = todo
        /\ pc' \in {"killOwn", "done"} => pc \in {"killOwn", "done"}
    BY <1>5 DEF Next, Proceed, Fail, Start, Remove, LosesRace, KillFails, PassDone,
       AfterKilling, Killing, Create, AllCreated, SetReady, PollLog, CreateFails,
       CollectFails, ContainerStep, OtherRemoves, Over, vars
  <2>3. OneFilePerName' <=> OneFilePerName
    BY <2>1 DEF OneFilePerName
  <2> QED BY <2>1, <2>2, <2>3
<1> QED BY <1>2, <1>3, <1>4, <1>5

LEMMA FileInductive == Spec => []FileInv
<1>1. Init => FileInv
  BY DEF Init, FileInv
<1> QED BY Inductive, <1>1, NextFileInv, PTL DEF Spec

\* A run that is over has archived one csv file for every name, also where
\* containers share a name: the file of one of them is there, in its final
\* state, as all of them have finished.
THEOREM ArchiveOfEveryName ==
  Spec => [](pc \in {"killOwn", "done"} =>
               OneFilePerName /\ \A c \in archive : Printed(phase[c]))
<1>1. IInv /\ FileInv => (pc \in {"killOwn", "done"} =>
        OneFilePerName /\ \A c \in archive : Printed(phase[c]))
  BY DEF IInv, SeenInv, FileInv, OneFilePerName
<1> QED BY Inductive, FileInductive, <1>1, PTL

\* If the names are distinct the archive has the csv files of this run, all of
\* them and nothing else.
COROLLARY ArchiveIsComplete ==
  Spec => [](DistinctCsv /\ pc \in {"killOwn", "done"} => archive = Containers)
<1>1. DistinctCsv /\ OneFilePerName => archive = Containers
  BY DEF DistinctCsv, OneFilePerName
<1>2. FileInv => (DistinctCsv /\ pc \in {"killOwn", "done"} => archive = Containers)
  BY <1>1 DEF FileInv
<1> QED BY FileInductive, <1>2, PTL
=============================================================================
