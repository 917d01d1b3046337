SPECIFICATION Spec
CONSTANTS
  ThreadNum = 1
  SubdomainCount = 2
  LocalPorts = {1, 2}
  PortReuse = TRUE
  a1 = a1
  a2 = a2
  a3 = a3
  a4 = a4
  cname = cname
  Addresses <- MCAddresses
  Records <- MCRecords
  Zone <- MCZone
INVARIANT ResultsBelong
