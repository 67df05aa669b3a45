SPECIFICATION Spec
CONSTANTS
  Usage = {"cpu"}
  StreakBound = 1
  Server = {s1}
  Handler = {h1, h2}
  NoHandler = NoHandler
  Reading <- MCReading
  Defaults <- MCDefaults
  Switches = {TRUE, FALSE}
  OfflineAfter = 1
  SampleEvery = 2
  MaxVersion = 1
  Deletable = {s1}
  Asks = FALSE
  GivesUp = FALSE
  Failing = {"delete"}
  Upgrades = FALSE
  MaxClock = 4
  MaxEvents = 2
  MaxRestarts = 1
SYMMETRY Symmetric
INVARIANTS
  UsageEventsAlternate
  DeletedLeavesNothing
PROPERTIES
  AlarmIsCurrent
  OnlyTransitionsAnnounced
CHECK_DEADLOCK FALSE
