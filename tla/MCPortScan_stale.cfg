SPECIFICATION Spec
CONSTANTS
  ThreadNum = 1
  PortCount = 3
  Hosts = 2
  Bases = {8, 16, 24}
  Listening <- MCListening
INVARIANT AllPortsTried
