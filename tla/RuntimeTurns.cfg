CONSTANTS
  p1 = p1
  p2 = p2
  none = none
  Processes <- MCProcesses
  NoProcess = none
  Intervals <- TwoIntervals
  Presses <- TurnKeys
  Incidents = {"Signal", "InputFails", "DrawFails"}
  EventCapacity = 2
  DetailCapacity = 1
  MaxPresses = 2
  MaxTicks = 0
  MaxScheduled = 1
SPECIFICATION UiFairSpec
CHECK_DEADLOCK FALSE
INVARIANTS
  TurnPublishesState
PROPERTIES
  KeysAreFed
  IntervalReachesSampler
  TerminalReleased
  ShutdownCompletes
