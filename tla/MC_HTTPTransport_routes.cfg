CONSTANTS
  Requests = {r1, r2}
  CallNames = {"UpdateImages"}
  Accepts  = {"application/json"}
SYMMETRY MCSymmetry
SPECIFICATION Spec
INVARIANT
  ClientReachesHandler
