SPECIFICATION FairSpec
CONSTANTS
  Version = {v1, v2}
  None = None
  Partial = Partial
  Writable = FALSE
  MaxReleases = 1
  MaxRequests = 1
  MaxFaults = 0
PROPERTY UpdateArrives
