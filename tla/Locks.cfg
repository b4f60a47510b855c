\* The threads of the pool, the file system and main over the two mutexes.
CONSTANTS
  Half = 2
  MaxTokens = 2
  Workers = {w1, w2}
  Fuse = fuse
  None = none
  Scopes = {1, 3}
  MaxBegun = 3
  MaxWork = 1

SPECIFICATION FairSpec

INVARIANTS
  LocksInv
  OneCallAtATime
  NoCircularWait
  RequestHasStoredToken

PROPERTIES
  RefinesTokenMap
  EverybodyGetsDone
  ShutdownEnds
