CONSTANTS
  FieldOrder <- MCFieldOrder
  Conflict = Conflict
  Ops = {"UpdateManifests"}
SPECIFICATION Spec
INVARIANTS
  BatteryDetects
