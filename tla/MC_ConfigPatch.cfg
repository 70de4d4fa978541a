CONSTANTS
  Fields <- MCFields
  Strings <- MCStrings
  OtherKey = "other"
SPECIFICATION Spec
INVARIANTS
  PatchIsMergePatch
  PatchKeepsUnaddressedFields
