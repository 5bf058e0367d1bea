SPECIFICATION MCSpec
CONSTANTS
  Bytes = {0, 1}
  PIPE_MAX_SIZE = 3
  Handles = {h1, h2}
  Names = {a, b, c}
  NUM_FILES = 2
  FILE_SIZE = 2
  U32 = 16
  Counts = {0, 1, 2, 3, 15}
  Offsets = {0, 1, 2}
INVARIANTS
  OneInodePerName TransfersInPlace
PROPERTIES
  Fifo SizeFollowsWrites
CHECK_DEADLOCK FALSE
SYMMETRY
  Symmetric
