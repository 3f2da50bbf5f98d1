SPECIFICATION Spec
CONSTANTS
  Caller = {c1, c2}
  MaxAttempt = 2
INVARIANTS
  AttemptsExclude
  OfflineFence
  NothingLeaks
SYMMETRY CallerSymmetry
