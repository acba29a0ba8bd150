CONSTANTS
  a = a
  b = b
  c = c
  Routers = {a, b, c}
  Known = {a, b}
  Strangers = {}
  StartingPoints <- MCStartingPoints
  Replies <- MCReplies
  LookupResults = {TRUE, FALSE}
  MinPeers = 1
  MaxQueue = 1
  MaxAge = 1
SPECIFICATION FairSpec
INVARIANTS SearchIsTimed 
PROPERTIES CandidatesAdvance  
CHECK_DEADLOCK FALSE
