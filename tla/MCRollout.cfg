\* Rollouts of all three kinds, one after the other, with failed calls, a restart and a
\* deployment by somebody else.
SPECIFICATION Spec
CONSTANTS
  Image = {"old", "new"}
  Percent <- MCPercent
  MaxRevs = 4
  MaxFaults = 3
  MaxRestarts = 1
  MaxOthers = 1
INVARIANTS TypeOK OnlyHomeOrTrialServes MemoryFits
PROPERTIES RollbackRestores
CHECK_DEADLOCK FALSE
