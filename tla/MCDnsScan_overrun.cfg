SPECIFICATION Spec
CONSTANTS
  ThreadNum = 2
  SubdomainCount = 2
  LocalPorts = {1, 2, 3}
  PortReuse = FALSE
  a1 = a1
  a2 = a2
  a3 = a3
  a4 = a4
  cname = cname
  Addresses <- MCAddresses
  Records <- MCRecords
  Zone <- MCZone
INVARIANT InDictionary
