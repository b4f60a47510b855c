\* Listings of up to five items on pages of at most two.
CONSTANTS
  LastId = 5
  PageSize = 2
  Faults = {"remote", "incomplete"}

SPECIFICATION FairSpec

INVARIANTS
  NoDuplicates
  PagesInv

PROPERTIES
  KeepsPromise
  CallsEnd
