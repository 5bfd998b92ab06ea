\* Two label updates and somebody else's, and owners read through an index that lags.
SPECIFICATION Spec
CONSTANTS
  c1 = c1
  c2 = c2
  Caller <- MCCaller
  Asset <- MCAsset
  Home = "home"
  Writes <- MCWrites
  Owner = {"ann", "bob"}
  Blank = ""
  Team = {"red"}
  None = "none"
  MaxCalls = 2
  MaxOthers = 1
  MaxFaults = 1
SYMMETRY Symmetric
INVARIANTS TypeOK LabelsStand ToldWasTrue
CHECK_DEADLOCK FALSE
