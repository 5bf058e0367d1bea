SPECIFICATION FairSpec
CONSTANTS
  Threads = {t1, t2, t3}
  W = 4
  Iters = 2
INVARIANTS
  CounterAccounts MutualExclusion NoStaleWrite WriteTotal
PROPERTIES
  Termination Refinement
