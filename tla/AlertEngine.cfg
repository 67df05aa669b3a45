SPECIFICATION FairSpec
CONSTANTS
  Usage = {"cpu"}
  StreakBound = 3
  Server = {s1}
  Reading <- MCReading
  Threshold <- MCThreshold
  Sustain = {1, 3}
  Defaults <- MCDefaults
  MaxRestarts = 1
INVARIANTS
  NoticesTellTheState
  StreakIsReal
PROPERTIES
  FiresOnSustainedUse
  SustainedUseFires
  RecoveredUseClears
  HoveringDoesNotFlap
  SilenceIsNoticed
  ReturnIsNoticed
CHECK_DEADLOCK FALSE
