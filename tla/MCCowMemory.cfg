SPECIFICATION Spec
CONSTANTS
  START = 4
  END = 5
  PageSize = 2
  MaxAreas = 2
  Prots = {1, 3}
  MAX_PROCESSES = 3
  Frames = {f1, f2, f3}
  NoFrame = NoFrame
  Values = {a, b}
  NoValue = NoValue
  DataEnd = 1
  Hints = {0}
  Lengths = {1}
  UnmapLengths = {2}
  ProtLengths = {2}
  RefLimit = 3
  ShrinkShared = FALSE
SYMMETRY Symmetry
INVARIANTS
  EntriesFollowAreas SharersCounted
PROPERTIES
  SeparateMemory
CHECK_DEADLOCK FALSE
