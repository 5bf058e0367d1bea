SPECIFICATION AreaSpec
CONSTANTS
  START = 8
  END = 14
  PageSize = 2
  MaxAreas = 4
  Prots = {1, 3}
  Lengths = {1, 2, 4, 5}
  UnmapLengths = {1, 4, 7}
  ProtLengths = {0, 2, 3, 6}
INVARIANTS
  ListSound PlacesRight ProtectsNoHole
PROPERTIES
  Refinement
VIEW ListView
