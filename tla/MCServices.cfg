CONSTANTS
  Logins = {l1, l2}
  Commands = {d}
  Emails = {e}
  MaxPosts = 2
  Nobody = Nobody
  Objs = {1, 2}
  Launches = {1, 2}
  Options = {x}
  Ports = {1, 2}
  None = None
  NoPort = NoPort
  Binaryless = {}
  Keys = {k1, k2}
  Checks = {c1, c2}
  NoKey = NoKey
  Requests = {r}
  Names = {a, b}
  NoOwner = NoOwner
  MinPort = 1
  WrapLo = 2
  LastPort = 4
  TopPort = 6
SPECIFICATION FairServicesSpec
INVARIANTS
  ServicesTypeOK
  NothingFromNothing
  FailedLeavesNothing
  NoLateService
  OnlyFreedPortsStray
  NoLateKey
  WaitToldRight
  PortTypeOK
  RefusesOnlyWhenFull
PROPERTIES
  EndedStaysEnded
  LoginEndsOrAwaitsGitHub
  RequestEndsOrAwaitsAnswer
CHECK_DEADLOCK FALSE
