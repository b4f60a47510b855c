----------------------------- MODULE PhotoOxide -----------------------------
(***************************************************************************)
(* The process as a whole: the updates on the threads of the pool, and the *)
(* file system on the thread that main.rs mounts it on, over one database  *)
(* and one remote library.  A handler queries the cache under the mutex    *)
(* that the updates use, statement by statement, and its download waits    *)
(* for their listings; when the process ends all of them end with it.      *)
(***************************************************************************)
EXTENDS BackgroundUpdate

CONSTANTS NoId, MaxOpen  \* as in PhotoFs

ASSUME MountAssumption == /\ GoogleIds \subseteq Nat /\ NoId \notin GoogleIds
                          /\ MaxOpen \in Nat

VARIABLES told, op, open_files, open_dirs

mountVars == <<told, op, open_files, open_dirs>>

allVars == <<items, in_album, next_inode, issued,
             up, ticks, db_lock, remote_lock, remote_poisoned, run,
             told, op, open_files, open_dirs>>

\* The file system over this cache, with what is proved of it.
FS == INSTANCE PhotoFsProofs WITH Inodes <- (FirstInode + 1)..MaxInode,
                                  Faults <- Faults \cap {"remote", "sql"}

SystemInit ==
  /\ Init
  /\ told = {FS!FixedNode(FS!FIXED_INODE_ROOT)}
  /\ op = FS!NoOp
  /\ open_files = FS!NoHandles
  /\ open_dirs = FS!NoHandles

\* The mount ends with the process, from which a panic of open() on a poisoned mutex
\* cannot be told.
ProcessEnds == Exit /\ FS!Remount

\* A query waits for the mutex of the connection, which an allocation may hold.
Query == db_lock = None /\ (FS!LookupQuery \/ FS!OpenQuery)

\* A download waits for the mutex of the remote library, which a listing may hold.
Download == remote_lock = None /\ ~remote_poisoned /\ FS!FetchStep

\* A step of the request that the file system's thread serves.
Serve ==
  /\ up
  /\ FS!LocalStep \/ Query \/ Download
  /\ UNCHANGED <<next_inode, up, ticks, db_lock, remote_lock, remote_poisoned, run>>

\* A step of the rest of the process.
UpdateStep ==
  \/ Start
  \/ \E w \in Workers, kind \in MediaTypes : BeginUpdate(w, kind)
  \/ \E w \in Workers : Step(w)
  \/ Rest

SystemNext ==
  \/ ProcessEnds
  \/ Serve
  \/ UpdateStep /\ UNCHANGED mountVars

SystemSpec == SystemInit /\ [][SystemNext]_allVars

-----------------------------------------------------------------------------
(* Properties.                                                             *)

\* The file system and the updates together are the file system over a Catalog: every
\* property of PhotoFs is one of the process.  None of its handlers sees a state between
\* the statements of an update that the Catalog does not have (photofs/mod.rs:54-64).
RefinesPhotoFs == FS!Spec

\* An inode that an update has taken from the counter and not yet stored means nothing
\* to the kernel, which may hold inodes of any row that was ever replaced: when it is
\* stored, no cached node and no open handle comes to mean the new item
\* (db/inode_db.rs:42-57, photofs/mod.rs:34).
HeldInodeIsUnknown ==
  \A w \in Workers : Holding(w) =>
    /\ \A t \in told : t.inode # run[w].inode
    /\ \A fh \in DOMAIN open_files : open_files[fh].inode # run[w].inode
    /\ \A fh \in DOMAIN open_dirs :
         /\ open_dirs[fh].inode # run[w].inode
         /\ \A e \in open_dirs[fh].entries : e.inode # run[w].inode
=============================================================================
