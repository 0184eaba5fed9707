---------------------------- MODULE MCMainScript ----------------------------
(* Instances of MainScript: one container, one other container.            *)
EXTENDS MainScript, TLC

CONSTANTS sub0, mosquittoSub, log3

MCContainers == {sub0}
MCOthers == {mosquittoSub}
MCPrefixOthers == {}
MCCsvNames == {log3}
MCCsvName == sub0 :> log3
=============================================================================
