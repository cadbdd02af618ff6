CONSTANTS
  NumCpus = 2
  Vcpus = {0, 1}
  MaxShares = 2
SPECIFICATION Spec
INVARIANT DevicesHaveOwnWindows
