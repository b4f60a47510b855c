\* Two processes and two pictures of up to three bytes.
CONSTANTS
  Readers = {p1, p2}
  Inodes = {100, 101}
  MaxLen = 3
  MaxVersions = 1

SPECIFICATION Spec

INVARIANTS
  FileInv
  ReadsWhatWasOpened
  EndIsTheEnd
