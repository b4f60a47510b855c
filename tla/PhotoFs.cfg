\* An album, two media items, three upserts at any moment.
CONSTANTS
  AlbumIds = {1}
  MediaIds = {2, 3}
  Names = {n1}
  Inodes = {101, 102, 103}
  NoId = none
  MaxOpen = 2
  Faults = {"remote", "sql"}

SPECIFICATION Spec

INVARIANTS
  InodeMeansOneNode
  OpenFileIsLookedUpItem
  DirListsNamesOnce
  FsInv

PROPERTIES
  HandlesKeepEntries
  OpenedAlbumListsMembers

ACTION_CONSTRAINT InodesInOrder
