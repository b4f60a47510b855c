\* Listings of up to six entries, read from the start up to twice more.
CONSTANTS
  MaxEntries = 6
  MaxFit = 3
  MaxScans = 2

SPECIFICATION Spec

INVARIANTS
  TypeOK
  InOrder
  OneLostPerCall
  LossBounded

\* A kernel that is done reading makes no more calls.
CHECK_DEADLOCK FALSE
