SPECIFICATION Spec
CONSTANTS
  p1 = p1
  p2 = p2
  e1 = e1
  e2 = e2
  w1 = w1
  w2 = w2
  c1 = c1
  c2 = c2
  Nil = Nil
  Projects = {p1, p2}
  EnvKeys = {e1}
  Scopes <- SharedKey
  Writers = {w1}
  Clients = {c1, c2}
  ClientScope <- EachItsOwn
  Kinds = {"config"}
  RingCap = 2
  ChanCap = 2
  MaxWrites = 1
  MaxConns = 2
INVARIANT
  ScopedDelivery
CHECK_DEADLOCK FALSE
