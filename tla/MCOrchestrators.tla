-------------------------- MODULE MCOrchestrators ---------------------------
(* Instances of Orchestrators: two containers of each orchestrator and two  *)
(* others that both orchestrators remove.                                   *)
EXTENDS Orchestrators, TLC

CONSTANTS sub0, sub1, pub0, pub1, pubsub, sub_pub_2, log3, log4, log5

MCContainers == {sub0, sub1}
MCOthers == {pubsub, sub_pub_2}
MCPrefixOthers == {sub_pub_2}
MCPubContainers == {pub0, pub1}
MCPubOthers == {pubsub, sub_pub_2}
MCCsvNames == {log3, log4, log5}

\* The brokers of the two containers differ in the last octet.
MCDistinct == sub0 :> log3 @@ sub1 :> log4
=============================================================================
