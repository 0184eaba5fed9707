------------------------------- MODULE Worker -------------------------------
(***************************************************************************)
(* What container_python.main() relies on when it starts a Sub or a Pub    *)
(* process: the process puts ONE duration into its result queue and then   *)
(* returns, or it dies with an exception and has put nothing.  main()      *)
(* compares the size of the queue with the number of processes, which      *)
(* counts processes only under this promise.                               *)
(***************************************************************************)
EXTENDS Naturals

VARIABLES
  status,     \* "running", "reported", "returned" or "raised"
  durations   \* durations put into SUB_QUEUE or PUB_QUEUE

Init == status = "running" /\ durations = 0

\* SUB_QUEUE.put(...) or PUB_QUEUE.put(...).
Report ==
  /\ status = "running" /\ status' = "reported"
  /\ durations' = durations + 1

\* run() breaks out of its loop and the process exits.
Return ==
  status = "reported" /\ status' = "returned" /\ UNCHANGED durations

\* run() raises before it has reported.
Raise ==
  status = "running" /\ status' = "raised" /\ UNCHANGED durations

Next == Report \/ Return \/ Raise

Spec == Init /\ [][Next]_<<status, durations>>
=============================================================================
