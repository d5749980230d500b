SPECIFICATION Spec
CONSTANTS
  None = None
  Requests = {r1, r2}
  Retention = 1
  Timeout = 1
  Limit = 1
  Faults = {"abort", "db", "io", "crash"}
  MaxBoots = 2
INVARIANTS TypeOK AccountsAgree VideoHasRow VideoIsKept
SYMMETRY AnyRequest
