SPECIFICATION Spec
CONSTANTS
  MaxAnswers = 2
  Hosts <- MCHosts
  Targets <- MCTargets
  Addresses <- MCAddresses
INVARIANTS NamesAreRead
