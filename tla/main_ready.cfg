CONSTANTS
  sub0 = sub0
  mosquittoSub = mosquittoSub
  log3 = log3
  Containers <- MCContainers
  Others <- MCOthers
  PrefixOthers <- MCPrefixOthers
  CsvNames <- MCCsvNames
  CsvName <- MCCsvName
  Nobody = Nobody
  Earlier = Earlier
SPECIFICATION MainSpec
PROPERTIES
  ReadyStartsPublishers
