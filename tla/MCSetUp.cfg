CONSTANTS
  NumCpus = 2
  Vcpus = {0, 1}
  MaxShares = 2
  MemorySizes <- MCMemorySizes
  GapStarts <- MCGapStarts
  GapSizes <- MCGapSizes
  PerPage = 8
  RamPages = 20
  Kernels <- MCKernels
  Images = {0, 1, 10, 11, 66, 67, 200}
  CmdlineLen = 1
SPECIFICATION SetUpSpec
INVARIANTS
  SetUpTypeOK
  IrqsDistinct
  BootedBeforeRun
  OwnerActsAlone
  SuccessMeansSaved
  NoRamInGap
  AllRamRegistered
  IdentityMap
  BootMemoryWhole
