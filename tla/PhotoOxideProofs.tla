-------------------------- MODULE PhotoOxideProofs --------------------------
(***************************************************************************)
(* Proofs about PhotoOxide.  The process is its updates, as if nobody read *)
(* the cache, and at the same time the file system over a Catalog.  So all *)
(* that is proved of the one and of the other, each by itself, holds of    *)
(* both together, and the two inductive invariants can be used side by     *)
(* side for what relates a thread of the pool to the mount.                *)
(***************************************************************************)
EXTENDS PhotoOxide, BackgroundUpdateProofs

\* The constants of the process are good ones for the file system: the rows get
\* numbers that no fixed node has (db/inode_db.rs:20).
LEMMA ConstantsFit ==
  /\ FS!InodesAssumption
  /\ FS!OrderAssumption
  /\ FS!MaxOpenAssumption
  /\ FS!FixedInodesAssumption
  /\ FS!FaultsAssumption
  /\ FS!IdAssumption
<1>1. FS!InodesAssumption
  BY BoundsAssumption DEF FirstInode, FS!InodesAssumption
<1>2. FS!FixedInodesAssumption
  BY BoundsAssumption DEF FirstInode, FS!FixedInodesAssumption, FS!FIXED_INODE_HELLO_WORLD
<1>3. FS!OrderAssumption
  BY MountAssumption DEF FS!OrderAssumption, FS!GoogleIds, GoogleIds
<1>4. FS!MaxOpenAssumption
  BY MountAssumption DEF FS!MaxOpenAssumption
<1>5. FS!FaultsAssumption
  BY DEF FS!FaultsAssumption, FS!Fault
<1>6. FS!IdAssumption
  BY IdAssumption DEF FS!IdAssumption, IdAssumption
<1> QED
  BY <1>1, <1>2, <1>3, <1>4, <1>5, <1>6

-----------------------------------------------------------------------------
(* The updates, undisturbed.                                               *)

\* The file system reads the cache and writes nothing to it.
LEMMA ServingOnlyReads ==
  ASSUME FS!LocalStep \/ FS!LookupQuery \/ FS!OpenQuery \/ FS!FetchStep
  PROVE  UNCHANGED <<items, in_album, issued>>
<1>1. CASE FS!LocalStep
  BY <1>1
  DEF FS!LocalStep, FS!LookupRoot, FS!GetattrFixed, FS!OpenHello, FS!Release,
      FS!OpendirRoot, FS!Releasedir, FS!catalogVars
<1>2. CASE FS!LookupQuery
  BY <1>2
  DEF FS!LookupQuery, FS!LookupAlbum, FS!AlbumLength, FS!LookupMedia, FS!LookupInAlbum,
      FS!FindInAlbum, FS!Getattr, FS!catalogVars
<1>3. CASE FS!OpenQuery
  BY <1>3
  DEF FS!OpenQuery, FS!Open, FS!OpendirFixed, FS!OpendirAlbum, FS!AlbumEntries,
      FS!ListingFails, FS!QueryFails, FS!catalogVars
<1>4. CASE FS!FetchStep
  BY <1>4 DEF FS!FetchStep, FS!Fetch, FS!FetchFails, FS!catalogVars
<1> QED
  BY <1>1, <1>2, <1>3, <1>4

\* A step of the process is one of the updates, or nothing to them.
LEMMA UpdatesGoOn ==
  ASSUME [SystemNext]_allVars
  PROVE  [Next]_vars
<1>1. CASE ProcessEnds
  BY <1>1 DEF ProcessEnds, Next
<1>2. CASE Serve
  <2>1. UNCHANGED <<items, in_album, issued>>
    BY <1>2, ServingOnlyReads DEF Serve, Query, Download
  <2> QED
    BY <1>2, <2>1 DEF Serve, vars
<1>3. CASE UpdateStep
  BY <1>3 DEF UpdateStep, Next
<1>4. CASE UNCHANGED allVars
  BY <1>4 DEF allVars, vars
<1> QED
  BY <1>1, <1>2, <1>3, <1>4 DEF SystemNext

\* The process behaves as its updates do by themselves: whatever the kernel asks for, in
\* whichever order, every property of BackgroundUpdate holds (photofs/mod.rs:54-64).
THEOREM UpdatesUndisturbed == SystemSpec => Spec
<1>1. SystemInit => Init
  BY DEF SystemInit
<1> QED
  BY <1>1, UpdatesGoOn, PTL DEF SystemSpec, Spec

LEMMA UpdatesInvariant == SystemSpec => []IInv
BY UpdatesUndisturbed, Inductive, PTL

-----------------------------------------------------------------------------
(* The file system over a Catalog.                                         *)

\* The catalog that the updates implement is the one the file system reads.
LEMMA OneCatalog ==
  ASSUME [CatalogOfRows!CatalogNext]_(CatalogOfRows!catalogVars)
  PROVE  [FS!CatalogNext]_(FS!catalogVars)
<1>1. CASE CatalogOfRows!UpsertAlbum
  BY <1>1
  DEF CatalogOfRows!UpsertAlbum, CatalogOfRows!Upsert, CatalogOfRows!UpsertX,
      CatalogOfRows!IssuedInodes, FS!CatalogNext, FS!UpsertAlbum, FS!Upsert, FS!UpsertX,
      FS!IssuedInodes, CatalogOfRows!NextPlace, FS!NextPlace
<1>2. CASE CatalogOfRows!UpsertMediaItem
  BY <1>2
  DEF CatalogOfRows!UpsertMediaItem, CatalogOfRows!Upsert, CatalogOfRows!UpsertX,
      CatalogOfRows!IssuedInodes, FS!CatalogNext, FS!UpsertMediaItem, FS!Upsert, FS!UpsertX,
      FS!IssuedInodes, CatalogOfRows!NextPlace, FS!NextPlace
<1>3. ASSUME NEW a \in AlbumIds, NEW m \in MediaIds, CatalogOfRows!AddToAlbum(a, m)
      PROVE  FS!CatalogNext
  BY <1>3
  DEF CatalogOfRows!AddToAlbum, CatalogOfRows!Exists, CatalogOfRows!UpsertMediaItemInAlbum,
      FS!CatalogNext, FS!AddToAlbum, FS!Exists, FS!UpsertMediaItemInAlbum
<1>4. CASE UNCHANGED CatalogOfRows!catalogVars
  BY <1>4 DEF CatalogOfRows!catalogVars, FS!catalogVars
<1> QED
  BY <1>1, <1>2, <1>3, <1>4 DEF CatalogOfRows!CatalogNext

\* A step of the process is one of the file system, or of the cache under it.
LEMMA FileSystemGoesOn ==
  ASSUME IInv, [SystemNext]_allVars
  PROVE  [FS!Next]_(FS!vars)
<1>1. CASE ProcessEnds
  BY <1>1 DEF ProcessEnds, FS!Next
<1>2. CASE Serve
  BY <1>2 DEF Serve, Query, Download, FS!Next
<1>3. ASSUME [Next]_vars, UNCHANGED mountVars PROVE [FS!Next]_(FS!vars)
  <2>1. [FS!CatalogNext]_(FS!catalogVars)
    BY <1>3, CatalogStep, OneCatalog
  <2>2. UNCHANGED FS!fsVars
    BY <1>3 DEF mountVars, FS!fsVars
  <2>3. CASE FS!CatalogNext
    BY <2>2, <2>3 DEF FS!CacheChanges, FS!Next
  <2>4. CASE UNCHANGED FS!catalogVars
    BY <2>2, <2>4 DEF FS!catalogVars, FS!fsVars, FS!vars
  <2> QED
    BY <2>1, <2>3, <2>4
<1>4. CASE UpdateStep /\ UNCHANGED mountVars
  BY <1>3, <1>4, UpdatesGoOn DEF SystemNext
<1>5. CASE UNCHANGED allVars
  BY <1>3, <1>5, UpdatesGoOn DEF allVars, mountVars
<1> QED
  BY <1>1, <1>2, <1>4, <1>5 DEF SystemNext

\* The file system and the updates together are the file system over a Catalog: no
\* handler sees a state between the statements of an update (photofs/mod.rs:54-64).
THEOREM MountRefines == SystemSpec => RefinesPhotoFs
<1>1. SystemInit => FS!Init
  BY DEF SystemInit, Init, FS!Init, FS!CatalogInit
<1> QED
  BY <1>1, FileSystemGoesOn, UpdatesInvariant, PTL DEF SystemSpec, RefinesPhotoFs, FS!Spec

LEMMA MountInvariant == SystemSpec => []FS!FsInv
<1>1. FS!Spec => []FS!FsInv
  BY ConstantsFit, FS!FsInductive
<1> QED
  BY <1>1, MountRefines DEF RefinesPhotoFs

-----------------------------------------------------------------------------
(* What holds of the process because it holds of the file system.          *)

\* Over all updates, their failures and the restarts, what the kernel was told of an inode
\* stays true of it while it is mounted (photofs/mod.rs:34).
THEOREM ProcessKeepsNodes == SystemSpec => []FS!InodeMeansOneNode
<1>1. FS!Spec => []FS!InodeMeansOneNode
  BY ConstantsFit, FS!InodeKeepsItsNode
<1> QED
  BY <1>1, MountRefines DEF RefinesPhotoFs

\* An open file has the data of the item that was looked up, with the updates running
\* (photofs/mod.rs:366-384).
THEOREM ProcessOpensLookedUpItem == SystemSpec => []FS!OpenFileIsLookedUpItem
<1>1. FS!Spec => []FS!OpenFileIsLookedUpItem
  BY ConstantsFit, FS!OpenReadsLookedUpItem
<1> QED
  BY <1>1, MountRefines DEF RefinesPhotoFs

\* A directory lists a name once, with the updates running (photofs/mod.rs:511-562).
THEOREM ProcessListsNamesOnce == SystemSpec => []FS!DirListsNamesOnce
<1>1. FS!Spec => []FS!DirListsNamesOnce
  BY ConstantsFit, FS!ListingsHaveNamesOnce
<1> QED
  BY <1>1, MountRefines DEF RefinesPhotoFs

\* An album opens on its own items, or empty, with the updates running between the two
\* queries of opendir() (photofs/mod.rs:468-478).
THEOREM ProcessOpensOnMembers == SystemSpec => FS!OpenedAlbumListsMembers
<1>1. FS!Spec => FS!OpenedAlbumListsMembers
  BY ConstantsFit, FS!AlbumsOpenOnMembers
<1> QED
  BY <1>1, MountRefines DEF RefinesPhotoFs

\* No step of the process gives a handle other contents while it stays open
\* (photofs/utils.rs:47-59).
THEOREM ProcessKeepsHandles == SystemSpec => FS!HandlesKeepEntries
<1>1. FS!Spec => FS!HandlesKeepEntries
  BY ConstantsFit, FS!OpenHandlesKeepEntries
<1> QED
  BY <1>1, MountRefines DEF RefinesPhotoFs

-----------------------------------------------------------------------------
(* A thread of the pool and the mount.                                     *)

\* An inode taken from the counter is above the fixed ones and was never given to a row,
\* and these are all the kernel and the handles know.
LEMMA HeldIsUnknown ==
  ASSUME IInv, FS!FsInv
  PROVE  HeldInodeIsUnknown
<1> SUFFICES ASSUME NEW w \in Workers, Holding(w)
             PROVE  /\ \A t \in told : t.inode # run[w].inode
                    /\ \A fh \in DOMAIN open_files : open_files[fh].inode # run[w].inode
                    /\ \A fh \in DOMAIN open_dirs :
                         /\ open_dirs[fh].inode # run[w].inode
                         /\ \A e \in open_dirs[fh].entries : e.inode # run[w].inode
  BY DEF HeldInodeIsUnknown
<1>1. run[w].inode \in Nat /\ run[w].inode > 4
  <2>1. run[w].inode \in (FirstInode + 1)..next_inode[1]
    BY DEF IInv, HeldInv
  <2> QED
    BY <2>1 DEF FirstInode
<1>2. \A x \in issued : x.inode # run[w].inode
  BY DEF IInv, HeldInv
<1>3. ASSUME NEW t \in told PROVE t.inode # run[w].inode
  <2>1. CASE t \in FS!FixedNodes
    BY <1>1, <2>1
    DEF FS!FixedNodes, FS!FixedNode, FS!FixedDirs, FS!FIXED_INODE_ROOT, FS!FIXED_INODE_ALBUMS,
        FS!FIXED_INODE_MEDIA, FS!FIXED_INODE_HELLO_WORLD
  <2>2. ASSUME NEW x \in issued, t = FS!IssuedNode(x) PROVE t.inode # run[w].inode
    BY <1>2, <2>2 DEF FS!IssuedNode
  <2> QED
    BY <2>1, <2>2 DEF FS!FsInv, FS!ToldInv
<1>4. ASSUME NEW fh \in DOMAIN open_files PROVE open_files[fh].inode # run[w].inode
  BY <1>1, <1>2, <1>4 DEF FS!FsInv, FS!FilesInv, FS!FIXED_INODE_HELLO_WORLD
<1>5. ASSUME NEW fh \in DOMAIN open_dirs
      PROVE  /\ open_dirs[fh].inode # run[w].inode
             /\ \A e \in open_dirs[fh].entries : e.inode # run[w].inode
  <2>1. open_dirs[fh].inode \in FS!ToldInodes("dir")
    BY DEF FS!FsInv, FS!DirListsNamesOnce
  <2>2. PICK t \in told : open_dirs[fh].inode = t.inode
    BY <2>1 DEF FS!ToldInodes
  <2>3. \A e \in open_dirs[fh].entries : \E x \in issued : e.inode = x.inode
    BY DEF FS!FsInv, FS!EntriesInv
  <2> QED
    BY <1>2, <1>3, <2>2, <2>3
<1> QED
  BY <1>3, <1>4, <1>5

\* The inode that an update is about to store is new to the kernel, to every open handle
\* and to every entry listed in one (db/inode_db.rs:42-57).
THEOREM HeldInodesUnknown == SystemSpec => []HeldInodeIsUnknown
BY HeldIsUnknown, UpdatesInvariant, MountInvariant, PTL
=============================================================================
