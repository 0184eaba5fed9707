----------------------------- MODULE MainScript -----------------------------
(***************************************************************************)
(* containers/main.py: starts the process Subscribers, waits ten seconds,  *)
(* polls its property ready_to_receive_msgs and then starts Publishers.    *)
(*                                                                         *)
(* After fork the two processes share the memory of the                    *)
(* multiprocessing.Value that the constructor created.  The attribute that *)
(* refers to it is private to each process.                                *)
(***************************************************************************)
EXTENDS Subscribers

VARIABLES
  script,       \* where main.py is
  publishers    \* has pubs.start() been called?

scriptVars == <<script, publishers>>
mainVars == <<vars, script, publishers>>

MainInit == Init /\ script = "start" /\ publishers = FALSE

\* subs.start(); time.sleep(10).
StartSubscribers ==
  /\ script = "start" /\ Start
  /\ script' = "poll" /\ UNCHANGED publishers

\* while not subs.ready_to_receive_msgs: ...; pubs.start().
PollReady ==
  /\ script = "poll"
  /\ IF ready.shared THEN script' = "end" /\ publishers' = TRUE
                     ELSE UNCHANGED scriptVars
  /\ UNCHANGED vars

SubscribersStep == script # "start" /\ Next /\ UNCHANGED scriptVars

MainNext == StartSubscribers \/ PollReady \/ SubscribersStep

MainSpec ==
  MainInit /\ [][MainNext]_mainVars
    /\ WF_mainVars(StartSubscribers \/ PollReady)
    /\ WF_mainVars(SubscribersStep /\ Proceed)

\* "At this point, once the python scripts are running, subscribers are ready
\* to receive messages" (Subscribers.run): main.py then starts the publishers.
ReadyStartsPublishers == pc = "poll" ~> publishers
=============================================================================
