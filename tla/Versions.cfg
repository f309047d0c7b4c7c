SPECIFICATION UpgradeSpec
CONSTANTS
  Numbers = {0, 1}
  Digits = {0, 1}
  Words = {0}
  MaxPre = 2
  Releases <- MCReleases
  NoRelease = NoRelease
INVARIANTS MatchesPrecedence
PROPERTIES UpToDateStays
