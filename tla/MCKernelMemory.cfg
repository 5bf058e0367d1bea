SPECIFICATION MCSpec
CONSTANTS
  WORD = 4
  SCAN = 32
  PAGE_SIZE = 4096
  MAX_PROCESSES = 3
  CODE_PAGES = 1
  SegPages <- MCSegPages
  ShrinkShared = FALSE
  MaxCalls = 7
  PTSize = 256
  UserSize = 96
  OBJ_PAGE = 8
  MIN_SHIFT = 1
  MAX_SHIFT = 2
  Sizes = {1, 2, 4}
  Nodes = 5
  PageNodes = 1
  MaxObjCalls = 8
INVARIANTS
  PagesOwned
  PagesAccounted
  ObjectsSound
CHECK_DEADLOCK FALSE
