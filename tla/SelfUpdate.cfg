SPECIFICATION FairSpec
CONSTANTS
  Version = {v1, v2}
  None = None
  Partial = Partial
  Writable = TRUE
  MaxReleases = 2
  MaxRequests = 2
  MaxFaults = 2
INVARIANTS
  InstalledRuns
  OneRestartPerRequest
PROPERTIES
  OnlyAskedInstalled
  UpdateArrives
