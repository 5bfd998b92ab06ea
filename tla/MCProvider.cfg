\* One job is run and polled; three Initialize calls, of two callers, for two accounts, overlap or
\* follow one another, and a client may be missing or a call fail.
SPECIFICATION FairSpec
CONSTANTS
  c1 = c1
  c2 = c2
  s1 = s1
  s2 = s2
  a = a
  b = b
  Caller = {c1}
  Account <- MCAccount
  NoProject = "no project"
  Setter <- MCSetter
  Types = 2
  None = "none"
  Command = {"migrate"}
  Blank = ""
  MaxInits = 3
  MaxCalls = 1
  MaxFaults = 1
  MaxDeaths = 0
INVARIANTS OneAccount
PROPERTIES EndIsReported
CHECK_DEADLOCK FALSE
