CONSTANTS
  Machines <- MCMachines
  MaxGen = 1
SPECIFICATION Spec
INVARIANTS
  TypeOK
  VcpusAfterMemory
PROPERTIES
  RestoreIsExact
  RegionsWhole
  FileChangesWithStateInHand
