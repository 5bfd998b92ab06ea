\* Requirements are mapped; then two storage modules, with one name for credentials, are started
\* and stopped under two callers.
SPECIFICATION LoadSpec
CONSTANTS
  c1 = c1
  c2 = c2
  k1 = k1
  k2 = k2
  Caller <- MCCaller
  Cred <- MCCred
  Name = {"creds"}
  Runtime = {"cloud_run", "gke"}
  Requirements <- MCRequirements
  Adc = "adc"
  Storage = {"s1", "s2"}
  None = None
  MaxClients = 3
  MaxPuts = 2
  MaxFaults = 2
SYMMETRY Symmetric
INVARIANTS TypeOK CredsAgree ClientsAreKept PartIsTold
INVARIANTS CollectorHoldsTogether TelemetryArrives
CHECK_DEADLOCK FALSE
