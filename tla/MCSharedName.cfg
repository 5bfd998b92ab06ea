\* Two buckets that share a cloud name: edits, retirement, lost answers of Create and Update.
SPECIFICATION Spec
CONSTANTS
  r1 = r1 r2 = r2 v1 = v1 v2 = v2
  Resource = {r1, r2}
  TypeOf <- MCBuckets
  Key = {"location", "storage_class"}
  Value = {v1, v2}
  Specs <- MCUnnamedSpecs
  Retirable = {r1, r2}
  LostSteps = {"create", "update"}
  Default = Default
  Unset = Unset
  Other = Other
  Unwanted = Unwanted
  MaxEdits = 2
  MaxFaults = 2
  MaxDrifts = 1
INVARIANTS StateIsBacked NothingForgotten
CHECK_DEADLOCK FALSE
