SPECIFICATION MCSpec
CONSTANTS
  NNodes = 4
  Names = {"a", "b"}
  Contents <- MCContents
  INT = 8
  Limits = {6, 10}
  Garbage = {0, 5}
  Output <- MCOutput
  PIPE_SIZE = 2
INVARIANTS
  WalkRight PipelineComplete
PROPERTIES
  AllEnd
CHECK_DEADLOCK FALSE
