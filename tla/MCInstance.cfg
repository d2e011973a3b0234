CONSTANTS
  Objs = {o1, o2}
  Launches = {p1, p2, p3}
  Options = {x}
  Ports = {t}
  None = None
  NoPort = NoPort
  Binaryless = {o2}
SPECIFICATION FairInstSpec
INVARIANTS
  InstTypeOK
  SingleProcess
  RestIsQuiet
  WedgedIsQuiet
  RestartingHasLaunched
PROPERTIES
  KeepsContract
  MethodsReturn
