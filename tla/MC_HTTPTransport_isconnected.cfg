CONSTANTS
  Requests = {r1, r2}
  CallNames = {"IsConnected"}
  Accepts  = {"application/json"}
SYMMETRY MCSymmetry
SPECIFICATION Spec
INVARIANT
  StatusMeansKind
