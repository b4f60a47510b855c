------------------------------ MODULE MCPhotoFs ------------------------------
(***************************************************************************)
(* Model checking of PhotoFs: the constants get their values in the .cfg   *)
(* files.                                                                  *)
(***************************************************************************)
EXTENDS PhotoFs

\* The file system compares inodes for equality only: it is enough to have new ones
\* issued in increasing order.
InodesInOrder ==
  \A x \in issued, y \in issued' \ issued :
    y.inode \notin IssuedInodes => x.inode < y.inode
=============================================================================
