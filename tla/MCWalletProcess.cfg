SPECIFICATION RunSpec
CONSTANTS
  Call = {c1, c2, c3}
  Arc = {a1, a2, a3}
  NoArc = NoArc
  NoCall = NoCall
  L1Low = 2
  L1Medium = 3
  L1Full = 4
  CustomFirst = 1
  CustomLast = 4
  Custom = {1, 5}
  Input <- MCInput
  Subscription = {c1, c2, c3, b1}
  Business = {b1}
  NoOne = NoOne
  MaxGeneration = 2
  MaxCancelFailures = 2
  Caller = {c1, c2, c3}
  Service = {"bridge", "crypto", "logger"}
  Configuration = {f1, f2}
  Unit = Unit
  None = None
  MaxAttempts = 2
SYMMETRY Symmetry
PROPERTY
  TablesSound
INVARIANTS
  ClosedQuiets
  InitializationShared
