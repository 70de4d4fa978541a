CONSTANTS
  Scalars = {0, 1}
  Keys = {0, 1}
  MaxLen = 2
  FieldOrder <- MCFieldOrder
  NilPointers = FALSE
  Types <- MCTypes
  Conflict = Conflict
SPECIFICATION Spec
INVARIANTS
  TypeOK
  DiffPatchRoundTrip
  DiffBlindOnlyToUnexported
