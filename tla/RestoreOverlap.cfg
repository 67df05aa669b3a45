SPECIFICATION FairSpec
CONSTANTS
  Request = {r1, r2}
  Upload = {good, bad}
  Good = {good}
  NoFile = NoFile
  Fails = FALSE
  MaxRestores = 2
  MaxCrashes = 0
INVARIANT CheckedBeforeReplaced
CHECK_DEADLOCK FALSE
