CONSTANTS
  Requests = {r1, r2}
  CallNames = {"ListServices"}
  Accepts  = {"application/json"}
SYMMETRY MCSymmetry
SPECIFICATION Spec
INVARIANT
  ClientTellsKindsApart
