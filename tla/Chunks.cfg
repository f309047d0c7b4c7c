SPECIFICATION FairSpec
CONSTANTS
  Requests = {r1}
  Sizes = {2, 3}
  Ttl = 1
  NoBuffer = NoBuffer
  MaxReplies = 2
INVARIANTS WholeResults
PROPERTIES UnfinishedAreForgotten
