SPECIFICATION Spec
CONSTANTS
  Session = {s1, s2}
  Read = {r1, r2}
CHECK_DEADLOCK FALSE
INVARIANT SameReference
