SPECIFICATION Spec
CONSTANTS
  NumCpus = 1
  MaxRuns = 1
PROPERTY DeadVcpusEndRun
