SPECIFICATION FairSpec
CONSTANTS
  None = None
  Requests = {r1}
  Retention = 1
  Timeout = 1
  Limit = 1
  Faults = {"abort", "db", "io", "crash"}
  MaxBoots = 2
PROPERTIES WorkReclaimed SettledGoes
