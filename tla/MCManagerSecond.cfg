CONSTANTS
  Names = {a, b}
  Clients = {c1}
  Launches = {p1, p2}
  Options = {x}
  AutoRestart = {x}
  Binaryless = {}
  MaxMade = 2
  MaxBoots = 0
  DbFaults = FALSE
  None = None
  NoPort = NoPort
  NoOwner = NoOwner
  MinPort = 1
  WrapLo = 1
  LastPort = 2
  TopPort = 3
SYMMETRY Symmetry
SPECIFICATION Spec
INVARIANT CreateCanSave
