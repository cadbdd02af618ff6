CONSTANTS
  MaxChains = 3
  DiskSectors = 2
  WordLimit = 4
  OffsetLimit = 16
  Layouts <- MCLayouts
  NetChains = 3
  MaxPackets = 3
SPECIFICATION DevicesSpec
INVARIANTS
  DiskReadsBack
