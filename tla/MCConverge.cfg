\* A named bucket and a named database: every answer may be lost, plans come to an end.
SPECIFICATION FairSpec
CONSTANTS
  r1 = r1 r2 = r2 v1 = v1 v2 = v2
  Resource = {r1, r2}
  TypeOf <- MCBucketAndDatabase
  Key = {"location", "storage_class", "tier"}
  Value = {v1, v2}
  Specs <- MCBucketAndDatabaseSpecs
  Retirable = {r1}
  LostSteps = {"create", "update", "delete"}
  Default = Default
  Unset = Unset
  Other = Other
  Unwanted = Unwanted
  MaxEdits = 2
  MaxFaults = 2
  MaxDrifts = 1
INVARIANTS TypeOK KeptInv
PROPERTIES UpdateTakesEffect Converges
CHECK_DEADLOCK FALSE
