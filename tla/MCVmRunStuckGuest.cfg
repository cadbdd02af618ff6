SPECIFICATION Spec
CONSTANTS
  NumCpus = 2
  MaxRuns = 1
PROPERTY ErrorStopsVm
