SPECIFICATION RunSpec
CONSTANTS
  c1 = c1
  c2 = c2
  h1 = h1
  NoHash = NoHash
  a1 = a1
  r1 = r1
  r2 = r2
  b1 = b1
  NoOne = NoOne
CHECK_DEADLOCK FALSE
PROPERTIES
  SlotReleased
  EveryCallReturns
  RequestsAnswered
  CloseSettles
