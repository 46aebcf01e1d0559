\* Two instances, two socket paths, every key at and beyond its limits.
CONSTANTS
  a = a
  b = b
  Instances <- MCInstances
  Paths <- MCPaths
  Modes <- MCModes
  Decimal <- MCDecimal
  Octal <- MCOctal
  Truth <- MCTruth
  ClientId <- MCClientId
  Cores = 24
  Starts <- MCStarts
  None = None
  PlainFile = PlainFile
  StaleSocket = StaleSocket
  UmaskMode = UmaskMode
SPECIFICATION Spec
INVARIANTS
  TypeOK
  ServingIsReachable
  SocketGoesWithProcess
PROPERTIES
  ConfigIsMeant
