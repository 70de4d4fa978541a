CONSTANTS
  Scalars = {0, 1}
  Keys = {0, 1}
  MaxLen = 2
  FieldOrder <- MCFieldOrder
  NilPointers = TRUE
  Types <- MCPtrTypes
  Conflict = Conflict
SPECIFICATION Spec
INVARIANTS
  DiffReflexive
