CONSTANTS
  Names = {a}
  Clients = {c1}
  Launches = {p1, p2}
  Options = {x}
  AutoRestart = {x}
  Binaryless = {}
  MaxMade = 1
  MaxBoots = 0
  DbFaults = FALSE
  None = None
  NoPort = NoPort
  NoOwner = NoOwner
  MinPort = 1
  WrapLo = 1
  LastPort = 1
  TopPort = 2
SYMMETRY Symmetry
SPECIFICATION Spec
INVARIANT RunningServes
