SPECIFICATION Spec
CONSTANTS
  Versions = {2, 3}
  Current = 2
  Channels = {stable}
  Checkers = {}
  MaxStarts = 1
  MaxSwitches = 0
  MaxRestarts = 0
PROPERTIES NotNewerLeavesRunning
CHECK_DEADLOCK FALSE
