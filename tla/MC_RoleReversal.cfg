CONSTANTS
  Insts   <- MCInsts
  Conns   = {c1, c2}
  Callers <- MCCallers
  Ops     = {"ListServices"}
  Kinds   <- MCKinds
  NoConn  = NoConn
  NoInst  = NoInst
SPECIFICATION Spec
INVARIANTS
  TypeOK
  LiveSessionRegistered
  RegistryNamesLiveSession
  ErrorKindPreserved
