\* Listing and reading while records are saved and deleted: three names, one of the empty
\* ID, filters, an object that is not JSON, a context that ends in the middle.
SPECIFICATION Spec
CONSTANTS
  p1 = p1 p2 = p2 a = a b = b c = c cfgA = cfgA
  slash = slash other = other nm = nm nmOther = nmOther nmEmpty = nmEmpty
  ready = ready failed = failed empty = empty
  ProcessOf <- MCProcessOf
  SanitizeID <- MCSanitizeID
  EmptyId = empty
  Garbage = Garbage
  None = None
  Process = {p1}
  Session = {a, b}
  Cfg = {cfgA}
  Delivers <- MCDelivers
  Id = {slash, other, empty}
  Name = {nm, nmOther, nmEmpty}
  Status = {ready, failed}
  Filter <- MCFilter
  Undecodable <- MCUndecodable
  Ops = {"SaveState", "DeleteState", "ListStates", "GetState"}
  Disciplined = FALSE
  RetryUnlock = FALSE
  Faults = {"cancel"}
  MaxFaults = 1
  MaxCrashes = 0
  MaxEpoch = 1
  MaxGen = 3
SYMMETRY MCSymmetry
INVARIANTS ListIsComplete AnswersTheIdAsked
CHECK_DEADLOCK FALSE
