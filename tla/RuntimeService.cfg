CONSTANTS
  p1 = p1
  p2 = p2
  none = none
  Processes <- MCProcesses
  NoProcess = none
  Intervals <- OneInterval
  Presses <- ServiceKeys
  Incidents = {"InputFails", "DrawFails"}
  EventCapacity = 1
  DetailCapacity = 2
  MaxPresses = 3
  MaxTicks = 1
  MaxScheduled = 0
SPECIFICATION FairSpec
CHECK_DEADLOCK FALSE
INVARIANTS
  LossesAccounted
PROPERTIES
  SnapshotsAreFed
  RefreshServed
  AwaitedDetailArrives
