\* Records under the lock and the promise to disciplined callers: two processes read,
\* write and delete one record, with a failed call and a death, and requests that land late.
SPECIFICATION Spec
CONSTANTS
  p1 = p1 p2 = p2 a = a b = b c = c cfgA = cfgA
  slash = slash other = other nm = nm nmOther = nmOther nmEmpty = nmEmpty
  ready = ready failed = failed empty = empty
  ProcessOf <- MCProcessOf
  SanitizeID <- MCSanitizeID
  EmptyId = empty
  Garbage = Garbage
  None = None
  Process = {p1, p2}
  Session = {a, c}
  Cfg = {cfgA}
  Delivers <- MCDelivers
  Id = {slash}
  Name = {nm}
  Status = {ready}
  Filter <- MCNoFilter
  Undecodable = {}
  Ops = {"GetState", "SaveState", "DeleteState", "Lock", "Unlock"}
  Disciplined = TRUE
  RetryUnlock = FALSE
  Faults = {"transient"}
  MaxFaults = 1
  MaxCrashes = 1
  MaxEpoch = 3
  MaxGen = 3
INVARIANTS NoLostUpdate StaysBetweenCalls
PROPERTIES KeepsPromise
CHECK_DEADLOCK FALSE
