SPECIFICATION FairSpec
CONSTANTS
  ThreadNum = 3
  PortCount = 2
  Hosts = 2
  Bases = {8, 16}
  Listening <- MCListening
INVARIANTS TypeOK FirstScanComplete OpenPortsAreReal QuietWhenDone
PROPERTIES HandsOutPorts AllScansEnd
