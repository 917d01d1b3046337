SPECIFICATION FairSpec
CONSTANTS
  ThreadNum = 3
  SubdomainCount = 2
  LocalPorts = {1, 2, 3, 4}
  PortReuse = FALSE
  a1 = a1
  a2 = a2
  a3 = a3
  a4 = a4
  cname = cname
  Addresses <- MCAddresses
  Records <- MCRecords
  Zone <- MCZone
INVARIANTS TypeOK OverrunBound ResultsBelong CompleteWhenDone QuietWhenDone
PROPERTIES ScanEnds HandsOutDictionary
