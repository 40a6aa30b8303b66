CONSTANTS
  p = p
  q = q
  None = None
  Pids <- OnePid
  Keys <- ActionKeys
  MaxPins = 0
  DetailCapacity = 1
  MaxBirths = 3
SPECIFICATION Spec
INVARIANTS
  DialogIsCurrent
  ActsOnConfirmed
  RequestHasOverlay
