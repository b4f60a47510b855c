\* Two threads, every fault, one restart.
CONSTANTS
  AlbumIds = {a1}
  MediaIds = {m1, m2}
  Names = {n1}
  Workers = {w1, w2}
  None = none
  Faults = {"remote", "empty", "incomplete", "sql"}
  MaxTicks = 3
  MaxStarts = 2
  MaxInode = 120

SPECIFICATION FairSpec

INVARIANTS
  KeysUnique
  InodesNeverReused
  ForeignKeysHold
  CheckedMemberStays
  IInv

PROPERTIES
  LostMembershipIsReplacement
  RunsShrink
  RefinesCatalog
  UpdateRunsEnd
