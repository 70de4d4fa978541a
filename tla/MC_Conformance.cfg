CONSTANTS
  FieldOrder <- MCFieldOrder
  Conflict = Conflict
  Ops = {"ListServices", "ListImages"}
SPECIFICATION Spec
INVARIANTS
  BatteryAcceptsFaithful
  BatteryDetects
