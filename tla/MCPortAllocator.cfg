CONSTANTS
  Names = {a, b}
  NoOwner = NoOwner
  MinPort = 3
  WrapLo = 2
  LastPort = 4
  TopPort = 6
SYMMETRY NameSymmetry
SPECIFICATION PortSpec
INVARIANT PicksFromMinimum
