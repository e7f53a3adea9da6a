SPECIFICATION Spec
CONSTANTS
  Requests = {r1, r2, r3}
  Threshold = 2
INVARIANT NeverWedged
