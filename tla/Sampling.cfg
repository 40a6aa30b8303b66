CONSTANTS
  never = never
  Never = never
  Intervals <- MCIntervals
  MediumFactor = 2
  SlowFactor = 3
  Slice = 2
  MaxAge = 6
  MaxCollect = 1
SPECIFICATION FairSpec
INVARIANTS
  WakesInTime
  SensorsKeepCadence
PROPERTIES
  NoTierStarves
