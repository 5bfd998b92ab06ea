\* Locking under every failure: two sessions of one process, one of another, one key.
SPECIFICATION Spec
CONSTANTS
  p1 = p1 p2 = p2 a = a b = b c = c cfgA = cfgA
  slash = slash other = other nm = nm nmOther = nmOther nmEmpty = nmEmpty
  ready = ready failed = failed empty = empty
  ProcessOf <- MCProcessOf
  SanitizeID <- MCSanitizeID
  EmptyId = empty
  Garbage = Garbage
  None = None
  Process = {p1, p2}
  Session = {a, b, c}
  Cfg = {cfgA}
  Delivers <- MCDelivers
  Id = {slash}
  Name = {nm}
  Status = {ready}
  Filter <- MCNoFilter
  Undecodable = {}
  Ops = {"Lock", "Unlock"}
  Disciplined = TRUE
  RetryUnlock = FALSE
  Faults = {"transient"}
  MaxFaults = 1
  MaxCrashes = 1
  MaxEpoch = 3
  MaxGen = 1
SYMMETRY MCSymmetry
INVARIANTS TypeOK MutualExclusion HeldLockStands OrphanNeedsFault
CHECK_DEADLOCK FALSE
