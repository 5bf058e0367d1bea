SPECIFICATION FairSpec
CONSTANTS
  MAX_PROCESSES = 3
  Handlers = {"h"}
  SleepTicks = {1}
  AlarmTicks = {1}
  Handled = {"SIGFPE", "SIGALRM"}
  UserStack = 2
INVARIANTS
  OwnHandlers ReturnsToProgram
PROPERTIES
  RegistersKept SleepEnds NoStarvation
CHECK_DEADLOCK FALSE
