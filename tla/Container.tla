----------------------------- MODULE Container ------------------------------
(***************************************************************************)
(* What local_subscriber.Subscribers relies on in a container that runs    *)
(* container_python.main(): the line "<name> finished its operation" is in *)
(* its log only when no subscriber is left and the csv file with the       *)
(* received messages is on disk.  The file is complete unless main went on *)
(* without a subscriber that had not ended in time: then rows may be       *)
(* missing, and the line does not say so.  A container that stops by       *)
(* itself never prints it.                                                 *)
(***************************************************************************)
VARIABLE
  phase   \* "running", no csv file yet and every join so far in time;
          \* "late", no csv file yet and a subscriber was late or killed;
          \* "written" and "finished", the csv file has every row, without
          \*   the line in the log and with it;
          \* "partial" and "finishedPartial", the same but rows may be missing;
          \* "exited", main's process is gone without a csv file

Phases == {"running", "late", "written", "partial", "finished",
           "finishedPartial", "exited"}

Init == phase = "running"

BeLate == phase = "running" /\ phase' = "late"

WriteCsv ==
  \/ phase = "running" /\ phase' = "written"
  \/ phase = "late" /\ phase' = "partial"

\* The line is printed; every subscriber has ended.
PrintFinished ==
  \/ phase = "written" /\ phase' = "finished"
  \/ phase = "partial" /\ phase' = "finishedPartial"

Crash == phase \in {"running", "late"} /\ phase' = "exited"

Next == BeLate \/ WriteCsv \/ PrintFinished \/ Crash

Spec == Init /\ [][Next]_phase
=============================================================================
