\* Two media items of one name; no fault is needed.
CONSTANTS
  AlbumIds = {1}
  MediaIds = {2, 3}
  Names = {n1}
  Inodes = {101, 102, 103}
  NoId = none
  MaxOpen = 1
  Faults = {}

SPECIFICATION Spec

INVARIANT
  ListedNameResolves
