CONSTANTS
  p = p
  q = q
  None = None
  Pids <- TwoPids
  Keys <- TableKeys
  MaxPins = 1
  DetailCapacity = 1
  MaxBirths = 3
SPECIFICATION Spec
SYMMETRY Symmetry
INVARIANTS
  FollowedIsAlive
PROPERTIES
  IdentityWins
