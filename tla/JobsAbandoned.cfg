SPECIFICATION FairSpec
CONSTANTS
  None = None
  Requests = {r1}
  Retention = 1
  Timeout = 1
  Limit = 1
  Faults = {"abort"}
  MaxBoots = 1
PROPERTY VideosExpire
