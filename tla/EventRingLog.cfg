SPECIFICATION Spec
CONSTANTS
  RingCap = 3
  MaxAppends = 5
  MaxVersion = 6
INVARIANTS
  TypeOK
  Window
  NothingMissed
  ReplayExact
  RefusedIffEvicted
CHECK_DEADLOCK FALSE
