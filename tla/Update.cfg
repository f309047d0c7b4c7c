SPECIFICATION FairSpec
CONSTANTS
  Versions = {2, 3}
  Current = 2
  Channels = {stable, beta}
  Checkers = {web}
  MaxStarts = 1
  MaxSwitches = 1
  MaxRestarts = 1
PROPERTIES StagedWhole SequenceEnds
CHECK_DEADLOCK FALSE
