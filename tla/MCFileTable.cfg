SPECIFICATION Spec
CONSTANTS
  Objects = {o1, o2, o3, o4}
  Pipes = {q1, q2}
  MAX_PROCESSES = 3
  MAX_OPEN_FILES = 3
  NStd = 1
SYMMETRY PageSymmetry
INVARIANTS
  RefCountExact PipeEndsTracked
CHECK_DEADLOCK FALSE
