SPECIFICATION FairSpec
CONSTANTS
  Threads = {t1, t2, t3}
  Sizes = {1, 5, 8, 11}
  BLOCK_SIZE = 4
  WORD = 2
INVARIANTS
  SerialHashes
PROPERTY
  Termination
