\* An upsert of a stored item gives it another inode; no fault is needed.
CONSTANTS
  AlbumIds = {a1}
  MediaIds = {m1}
  Names = {n1}
  Workers = {w1, w2}
  None = none
  Faults = {}
  MaxTicks = 3
  MaxStarts = 2
  MaxInode = 120

SPECIFICATION Spec

PROPERTY
  InodeKeptByUpdate
