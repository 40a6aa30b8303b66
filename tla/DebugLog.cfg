CONSTANTS
  w1 = w1
  w2 = w2
  f1 = f1
  f2 = f2
  f3 = f3
  f4 = f4
  NoFile = NoFile
  Writers <- MCWriters
  Files <- MCFiles
  MaxBytes = 3
  LineLengths <- MCLengths
SYMMETRY Identical
SPECIFICATION LogSpec
INVARIANTS
  FilesBounded
  LinesStayWhole
