\* Two callers run jobs and poll them; two callers initialize the provider, for one account and
\* for another, one after the other or at once; a client may be missing or a call fail, and the
\* process may die.
SPECIFICATION Spec
CONSTANTS
  c1 = c1
  c2 = c2
  s1 = s1
  s2 = s2
  a = a
  b = b
  Caller <- MCCaller
  Account <- MCAccount
  NoProject = "no project"
  Setter <- MCSetter
  Types = 1
  None = "none"
  Command = {"migrate"}
  Blank = ""
  MaxInits = 2
  MaxCalls = 2
  MaxFaults = 1
  MaxDeaths = 1
SYMMETRY MCSymmetry
INVARIANTS TypeOK HandleIsOwn ReportsAreTrue
CHECK_DEADLOCK FALSE
