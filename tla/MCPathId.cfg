\* A Cloud Run service: its Create answers a path, which its other calls do not take.
SPECIFICATION Spec
CONSTANTS
  r1 = r1 r2 = r2 v1 = v1 v2 = v2
  Resource = {r1}
  TypeOf <- MCService
  Key = {"image"}
  Value = {v1, v2}
  Specs <- MCServiceSpecs
  Retirable = {}
  LostSteps = {}
  Default = Default
  Unset = Unset
  Other = Other
  Unwanted = Unwanted
  MaxEdits = 1
  MaxFaults = 0
  MaxDrifts = 0
INVARIANTS StateIsBacked
CHECK_DEADLOCK FALSE
