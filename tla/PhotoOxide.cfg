\* The updates and the file system over one cache: one item of each kind.
CONSTANTS
  AlbumIds = {1}
  MediaIds = {2}
  Names = {n1}
  Workers = {w1, w2}
  None = none
  NoId = noid
  Faults = {"remote", "empty", "incomplete", "sql"}
  MaxTicks = 2
  MaxStarts = 2
  MaxInode = 120
  MaxOpen = 1

SPECIFICATION SystemSpec

INVARIANT
  HeldInodeIsUnknown

PROPERTIES
  RefinesPhotoFs

SYMMETRY ThreadSymmetry
