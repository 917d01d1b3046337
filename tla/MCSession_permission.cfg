SPECIFICATION Spec
CONSTANTS
  Misuse = {"ok"}
  Ports = {"80", "8080"}
  Number <- MCNumber
  Files <- MCFiles
  Dictionaries <- MCDictionaries
  Addresses <- MCAddresses
  Listening <- MCListening
  Titled <- MCTitled
  Cut <- MCCut
INVARIANTS PermissionVerified
