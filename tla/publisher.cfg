SPECIFICATION WriterFairSpec
CONSTANTS
  p1 = p1
  p2 = p2
  e1 = e1
  e2 = e2
  w1 = w1
  w2 = w2
  c1 = c1
  c2 = c2
  Nil = Nil
  Projects = {p1}
  EnvKeys = {e1, e2}
  Scopes <- TwoEnvs
  Writers = {w1}
  Clients = {c1}
  ClientScope <- OneProject
  Kinds = {"flags", "config"}
  RingCap = 2
  ChanCap = 1
  MaxWrites = 3
  MaxConns = 1
PROPERTIES
  PublisherNeverStalls
  ConnectedClientCatchesUp
CHECK_DEADLOCK FALSE
