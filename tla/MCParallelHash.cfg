SPECIFICATION FairSpec
CONSTANTS
  NThreads = 3
  Scanned = 3
  table_size = 3
  Half = 4
  Keys = {2, 5}
  MANDATORY_PUTS = 2
  max_unique = 4
  totalops = 4
  Inputs <- GeneratedInputs
INVARIANTS
  TableSound AssertsHold SameAsSerial
PROPERTIES
  SerialOrder Termination
