SPECIFICATION FairSpec
CONSTANTS
  Request = {r1, r2}
  Upload = {good, bad}
  Good = {good}
  NoFile = NoFile
  Fails = TRUE
  MaxRestores = 3
  MaxCrashes = 1
INVARIANTS
  InstalledWasChecked
  ServedIsKept
  LiveFileUntouched
PROPERTIES
  AnswersAreTrue
  StartsFindDatabase
  ClosedEndsInExit
CHECK_DEADLOCK FALSE
