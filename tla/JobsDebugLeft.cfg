SPECIFICATION Spec
CONSTANTS
  None = None
  Requests = {r1}
  Retention = 1
  Timeout = 1
  Limit = 1
  Faults = {"io"}
  MaxBoots = 1
INVARIANT DebugHasRow
