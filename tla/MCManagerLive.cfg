CONSTANTS
  Names = {a}
  Clients = {c1}
  Launches = {p1, p2}
  Options = {x}
  AutoRestart = {x}
  Binaryless = {}
  MaxMade = 2
  MaxBoots = 1
  DbFaults = FALSE
  None = None
  NoPort = NoPort
  NoOwner = NoOwner
  MinPort = 1
  WrapLo = 1
  LastPort = 1
  TopPort = 2
SPECIFICATION FairSpec
PROPERTIES
  CallsReturn
  StartsResolve
  ShutdownEnds
