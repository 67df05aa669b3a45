SPECIFICATION Spec
CONSTANTS
  Usage = {"cpu"}
  StreakBound = 1
  Server = {s1}
  Handler = {h1, h2}
  NoHandler = NoHandler
  Reading <- MCCalm
  Defaults <- MCQuiet
  Switches = {}
  OfflineAfter = 1
  SampleEvery = 2
  MaxVersion = 2
  Deletable = {}
  Asks = TRUE
  GivesUp = TRUE
  Failing = {"touch", "sample", "clear"}
  Upgrades = TRUE
  MaxClock = 4
  MaxEvents = 1
  MaxRestarts = 1
SYMMETRY Symmetric
INVARIANTS
  SamplesSpaced
PROPERTIES
  LastSeenAdvances
  RequestOutlivesPushes
CHECK_DEADLOCK FALSE
