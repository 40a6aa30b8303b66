CONSTANTS
  w1 = w1
  w2 = w2
  main = main
  Workers <- MCWorkers
SPECIFICATION Spec
CHECK_DEADLOCK FALSE
SYMMETRY Symmetry
INVARIANTS
  UndoneOnce
  GivenBack
