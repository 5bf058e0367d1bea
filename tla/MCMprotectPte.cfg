SPECIFICATION Spec
CONSTANTS
  START = 4
  END = 8
  PageSize = 2
  MaxAreas = 3
  Prots = {1, 3}
  MAX_PROCESSES = 2
  Frames = {f1, f2}
  NoFrame = NoFrame
  Values = {a}
  NoValue = NoValue
  DataEnd = 0
  Hints = {0}
  Lengths = {1, 4}
  UnmapLengths = {2, 3}
  ProtLengths = {4}
  RefLimit = 3
  ShrinkShared = FALSE
INVARIANT
  WritableOnlyAllowed
CHECK_DEADLOCK FALSE
