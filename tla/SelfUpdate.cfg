SPECIFICATION FairComposedSpec
CONSTANTS
  BootGrace = 1
  IdleTime = 2
  RetryTime = 3
  MaxManual = 1
  Versions = {2, 3}
  Current = 2
  Channels = {stable}
  Checkers = {}
  MaxStarts = 0
  MaxSwitches = 0
  MaxRestarts = 0
PROPERTIES AttemptsAreSpaced AppliesOnlyWhenQuiet RequiredIsInstalled
CHECK_DEADLOCK FALSE
