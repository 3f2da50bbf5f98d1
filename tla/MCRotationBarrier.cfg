SPECIFICATION Spec
CONSTANTS
  Caller = {c1, c2}
  MaxAttempt = 2
INVARIANT
  RotationBarrier
