CONSTANTS
  cpu = cpu
  Unknown = Unknown
  Signals <- MCSignals
  Window = 3
  Required = 2
  RecentIntervals = 3
  Multiple = 2
  Cadences <- MCCadences
  Short = 1
  Gap = 20
SPECIFICATION Spec
INVARIANTS
  NothingStitched
  ShownIsSupported
PROPERTIES
  RefreshIsNoGap
  BellOncePerEpisode
