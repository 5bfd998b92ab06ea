\* A VPC and a DNS zone, whose calls may be cut off between any two of their parts.
SPECIFICATION FairSpec
CONSTANTS
  net = net zone = zone www = www mx = mx v1 = v1 v2 = v2
  Resource = {net, zone}
  TypeOf <- MCTypeOf
  Record = {www, mx}
  Value = {v1, v2}
  Specs <- MCSpecs
  Retirable = {net, zone}
  Default = Default
  Nobody = Nobody
  Unset = Unset
  Malformed = Malformed
  Unwanted = Unwanted
  MaxEdits = 2
  MaxFaults = 1
  MaxDrifts = 1
INVARIANTS TypeOK PartsKept NothingStray
PROPERTIES ZonesConverge
CHECK_DEADLOCK FALSE
