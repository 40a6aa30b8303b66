CONSTANTS
  Unavailable = Unavailable
  NoMetric = Unavailable
  Nobody = Nobody
  Identities <- MCIdentities
  Parents <- MCParents
  Metric <- MCMetric
  Filters <- MCFilters
  Followable <- MCFollowable
  TreeModes = {TRUE, FALSE}
  MaxProcesses = 4
SPECIFICATION Spec
INVARIANTS
  OneCutPerCycle
  NearestSurvivor
  RowsFormTrees
  SubtreesAgree
PROPERTIES
  NoReshuffle
