SPECIFICATION FairSpec
CONSTANTS
  p1 = p1
  p2 = p2
  e1 = e1
  e2 = e2
  w1 = w1
  w2 = w2
  c1 = c1
  c2 = c2
  Nil = Nil
  Projects = {p1}
  EnvKeys = {e1}
  Scopes <- OneScope
  Writers = {w1}
  Clients = {c1}
  ClientScope <- OneProject
  Kinds = {"config"}
  RingCap = 2
  ChanCap = 1
  MaxWrites = 2
  MaxConns = 2
PROPERTY
  SlowClientReconnects
CHECK_DEADLOCK FALSE
