\* One entry more than fits in one answer is enough.
CONSTANTS
  MaxEntries = 6
  MaxFit = 3
  MaxScans = 0

SPECIFICATION Spec

INVARIANT
  AllListed

\* A kernel that is done reading makes no more calls.
CHECK_DEADLOCK FALSE
