SPECIFICATION Spec
CONSTANTS
  Requests = {r1, r2, r3}
  Threshold = 2
INVARIANTS TypeOK NoMissedTrip NotWedgedWithoutOverlap
PROPERTY RecoversWithoutOverlap
