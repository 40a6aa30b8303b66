CONSTANTS
  MinInterval = 1
  MaxInterval = 2
  MinDuration = 1
  MaxDuration = 4
  MemoryBudget = 35
  BytesPerSample = 10
  StepMax = 9
  Intervals <- MCIntervals
  Durations <- MCDurations
  Steps <- MCSteps
  MaxSamples = 4
  MaxTime = 2
SPECIFICATION Spec
INVARIANTS
  LiveShowsLatest
  SearchesAreExact
PROPERTIES
  FrozenViewHolds
  ImplementsWindow
