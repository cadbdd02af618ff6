SPECIFICATION RunLoopSpec
CONSTANTS
  NumCpus = 3
  MaxRuns = 2
  BusVcpus = {v1, v2}
  BusChains = 2
  MaxChains = 3
  Layouts <- MCLayouts
INVARIANTS
  RunLoopTypeOK
  QuiescentOutsideRun
  RunEndsOnlyOnError
  OneLateEntry
  OutputIsText
PROPERTIES
  NotifyServesAll
  KeepsContract
  ErrorEndsRun
  MonitorNotices
  MutexReleased
  PanicEndsService
  ServesQueue
