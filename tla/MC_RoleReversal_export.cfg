CONSTANTS
  Insts   <- MCInsts
  Conns   = {c1, c2}
  Callers <- MCCallers
  Ops     = {"ListServices", "Export"}
  Kinds   <- MCKinds
  NoConn  = NoConn
  NoInst  = NoInst
SPECIFICATION Spec
INVARIANT
  ErrorKindPreserved
