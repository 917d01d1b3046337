SPECIFICATION FairSpec
CONSTANTS
  Clients = {c1, c2, c3, c4}
  MaxDescriptors = 3
  SocketAccepts = TRUE
INVARIANTS TypeOK WaitNeverBlocks
PROPERTIES HandlerReturns EveryClientAccepted ParentReturns
