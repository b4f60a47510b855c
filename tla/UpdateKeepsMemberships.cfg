\* An upsert of a stored item takes it out of its albums; no fault is needed.
CONSTANTS
  AlbumIds = {a1}
  MediaIds = {m1}
  Names = {n1}
  Workers = {w1, w2}
  None = none
  Faults = {}
  MaxTicks = 3
  MaxStarts = 2
  MaxInode = 120

SPECIFICATION Spec

PROPERTY
  UpdateKeepsMemberships
