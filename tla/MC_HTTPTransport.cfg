CONSTANTS
  Requests = {r1, r2}
  CallNames = {"ListServices", "ListImages", "LogEvent", "UpdatePolicies",
               "OldV1", "OldRelease", "DaemonV4", "History", "Status",
               "GenerateDeployKeys", "PostIntegrationsGithub", "SyncStatus",
               "JobStatus", "Export"}
  Accepts  = {"", "application/json", "text/plain", "text/html"}
SYMMETRY MCSymmetry
SPECIFICATION Spec
INVARIANTS
  TypeOK
  SuccessRoundTrip
  HelpReachesClient
  ClientReachesHandler
  FailureNeverSucceeds
