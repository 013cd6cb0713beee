SPECIFICATION Spec
CONSTANTS
  h1 = h1
  h2 = h2
  k1 = k1
  k2 = k2
  Absent = Absent
  Projects = {"default"}
  EnvKeys = {"production", "staging"}
  FlagKeys = {"flag"}
  SegKeys = {"segment"}
  Handlers = {h1, h2}
  Keys = {k1, k2}
  DemoKey = "demo"
  DemoProject = "default"
  DemoEnv = "production"
  BodyKeys <- NoKeysOrDemo
  MaxRequests = 3
  MaxCrashes = 1
INVARIANTS
  TypeOK
  RevocationHolds
  ChangesAreVersioned
  ZeroVersionLosesNothing
  HubBehindStore
SYMMETRY HandlerSymmetry
CHECK_DEADLOCK FALSE
