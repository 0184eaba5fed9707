CONSTANTS
  sub0 = sub0
  sub1 = sub1
  pub0 = pub0
  pub1 = pub1
  pubsub = pubsub
  sub_pub_2 = sub_pub_2
  log3 = log3
  log4 = log4
  log5 = log5
  Containers <- MCContainers
  Others <- MCOthers
  PrefixOthers <- MCPrefixOthers
  PubContainers <- MCPubContainers
  PubOthers <- MCPubOthers
  CsvNames <- MCCsvNames
  CsvName <- MCDistinct
  Nobody = Nobody
  Earlier = Earlier
SPECIFICATION FairSpecAll
INVARIANTS
  EveryNameFree
  CollectsFinished
  ArchiveFresh
  PubNoneLeft
PROPERTIES
  NoResultLost
  BothEnd
