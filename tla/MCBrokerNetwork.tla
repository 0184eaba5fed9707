-------------------------- MODULE MCBrokerNetwork ---------------------------
(* Instance of BrokerNetwork: the three brokers of the defaults, nodes of   *)
(* other networks in the files, and templates of up to three nodes.         *)
EXTENDS BrokerNetwork

CONSTANTS old, template1, template2, template3

MCOld == {old}
MCForeign == {old, template1, template2, template3}
MCTemplates ==
  {<<>>, <<template1>>, <<template1, template2>>,
   <<template1, template2, template3>>}
=============================================================================
