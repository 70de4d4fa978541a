CONSTANTS
  Requests = {r1, r2}
  CallNames = {"SyncNotify"}
  Accepts  = {"application/json"}
SYMMETRY MCSymmetry
SPECIFICATION Spec
INVARIANT
  SuccessRoundTrip
