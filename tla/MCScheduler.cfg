SPECIFICATION Spec
CONSTANTS
  MAX_PROCESSES = 4
  SleepTicks = {0, 1}
  Creates = {"fork", "vfork", "clone"}
INVARIANTS
  OneRunning ParentWaits CleanupAtLastExit
CHECK_DEADLOCK FALSE
CONSTRAINT
  UpToMisled
