SPECIFICATION FairSpec
CONSTANTS
  Clients = {c1, c2, c3}
  MaxDescriptors = 3
  SocketAccepts = TRUE
PROPERTIES ZombiesReaped
