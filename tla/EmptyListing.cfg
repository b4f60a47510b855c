\* The only fault is a listing with nothing to list.
CONSTANTS
  AlbumIds = {a1}
  MediaIds = {m1}
  Names = {n1}
  Workers = {w1, w2}
  None = none
  Faults = {"empty"}
  MaxTicks = 3
  MaxStarts = 2
  MaxInode = 120

SPECIFICATION Spec

INVARIANT
  EmptyListingIsNoFailure
