CONSTANTS
  Machines <- MCMachines
  MaxGen = 1
SPECIFICATION Spec
INVARIANT LoadsWhatItSaved
