------------------------------- MODULE PhotoFs -------------------------------
(***************************************************************************)
(* The file system (src/src/photofs/mod.rs) over the cache.  The kernel    *)
(* sends one request after the other to a single thread; a handler that    *)
(* queries the cache twice, or queries it and then fetches from the remote *)
(* library, takes a step for each, and the cache changes in between as the *)
(* Catalog allows, which is what BackgroundUpdate implements.              *)
(*                                                                         *)
(* Attributes are left out but for the kind of a node: size is a constant  *)
(* for a file and only reported for an album, the rest is constant.        *)
(***************************************************************************)
EXTENDS Catalog, OpenFileHandles

CONSTANTS NoId,     \* of the nodes that are no row of the cache
          MaxOpen,  \* bound: how many handles the kernel holds of each sort
          Faults    \* what can go wrong: see Fault

\* An id's number is its place in the text order of SQLite.
ASSUME OrderAssumption == GoogleIds \subseteq Nat /\ NoId \notin GoogleIds

ASSUME MaxOpenAssumption == MaxOpen \in Nat

Fault == {"remote",  \* the remote library returns an error
          "sql"}     \* a query fails

ASSUME FaultsAssumption == Faults \subseteq Fault

VARIABLES
  told,        \* history: what the kernel was told of nodes, and their ids
  op,          \* the request that is between two steps
  open_files,
  open_dirs

fsVars == <<told, op, open_files, open_dirs>>

vars == <<items, in_album, issued, told, op, open_files, open_dirs>>

-----------------------------------------------------------------------------
(* Nodes and directory entries.                                            *)

FIXED_INODE_ROOT        == 1
FIXED_INODE_ALBUMS      == 2
FIXED_INODE_MEDIA       == 3
FIXED_INODE_HELLO_WORLD == 4

\* "inodes under 100 are for special nodes" (inode_db.rs:20): BackgroundUpdate issues
\* only numbers above.
ASSUME FixedInodesAssumption == \A i \in Inodes : i > FIXED_INODE_HELLO_WORLD

FixedDirs == {FIXED_INODE_ROOT, FIXED_INODE_ALBUMS, FIXED_INODE_MEDIA}

FixedNode(i) == [inode |-> i, google_id |-> NoId,
                 kind |-> IF i \in FixedDirs THEN "dir" ELSE "file"]

FixedNodes == {FixedNode(i) : i \in FixedDirs \cup {FIXED_INODE_HELLO_WORLD}}

Kind(r) == IF r.type = "album" THEN "dir" ELSE "file"

NodeOf(r) == [inode |-> r.inode, google_id |-> r.google_id, kind |-> Kind(r)]

Node == [inode : Nat, google_id : GoogleIds \cup {NoId}, kind : {"dir", "file"}]

Entry == [inode : Nat, kind : {"dir", "file"}, name : Names]

EntryOf(r) == [inode |-> r.inode, kind |-> Kind(r), name |-> r.name]

\* A wrong variant: duplicate names are not skipped.
AllEntries(rows) == {EntryOf(r) : r \in rows}

\* The rows come in the order of their ids; of a name only the first is listed.
DedupedEntries(rows) ==
  {EntryOf(r) : r \in {s \in rows : \A t \in rows :
                                      t.name = s.name => s.google_id <= t.google_id}}

\* A request between two steps: the node it is about and the row it has found.
Op == [pc : {"album_length", "in_album", "fetch", "entries"},
       row : Item, name : Names]

NoOp == [pc |-> "none"]

FsTypeOK ==
  /\ CatalogTypeOK
  /\ told \subseteq Node
  /\ op \in Op \cup {NoOp}
  /\ \A fh \in DOMAIN open_files :
       open_files[fh] \in [inode : Nat, data : GoogleIds \cup {NoId}]
  /\ \A fh \in DOMAIN open_dirs : /\ open_dirs[fh].inode \in Nat
                                  /\ open_dirs[fh].entries \subseteq Entry

Init ==
  /\ CatalogInit
  /\ told = {FixedNode(FIXED_INODE_ROOT)}
  /\ op = NoOp
  /\ open_files = NoHandles
  /\ open_dirs = NoHandles

ToldInodes(kind) == {t.inode : t \in {u \in told : u.kind = kind}}

\* The cache is changed by the background updates, between the steps of a request.
CacheChanges == CatalogNext /\ UNCHANGED fsVars

\* The process ends and is started again: the handles are gone, and the kernel forgets
\* the nodes of what was mounted.
Remount ==
  /\ told' = {FixedNode(FIXED_INODE_ROOT)}
  /\ op' = NoOp
  /\ open_files' = NoHandles
  /\ open_dirs' = NoHandles
  /\ UNCHANGED catalogVars

-----------------------------------------------------------------------------
(* Replies.  Every error is answered with ENOENT and leaves no trace.      *)

ReplyNode(n) ==
  /\ told' = told \cup {n}
  /\ op' = NoOp
  /\ UNCHANGED <<open_files, open_dirs>>

ReplyError ==
  /\ op' = NoOp
  /\ UNCHANGED <<told, open_files, open_dirs>>

Continue(pc, r, name) ==
  /\ op' = [pc |-> pc, row |-> r, name |-> name]
  /\ UNCHANGED <<told, open_files, open_dirs>>

-----------------------------------------------------------------------------
(* lookup.                                                                 *)

LookupRoot ==
  /\ op = NoOp
  /\ \E n \in FixedNodes \ {FixedNode(FIXED_INODE_ROOT)} : ReplyNode(n)
  /\ UNCHANGED catalogVars

\* First query of lookup_albums.  Of the albums of the name, the one stored first is
\* returned (AlbumByName).
LookupAlbum(name) ==
  /\ op = NoOp
  /\ FIXED_INODE_ALBUMS \in ToldInodes("dir")
  /\ \E r \in AlbumByName(name) : Continue("album_length", r, name)
  /\ UNCHANGED catalogVars

\* Second query of lookup_albums and of getattr: the number of items, which is only
\* reported; the node is that of the row found before.
AlbumLength ==
  /\ op.pc = "album_length"
  /\ ReplyNode(NodeOf(op.row))
  /\ UNCHANGED catalogVars

LookupMedia(name) ==
  /\ op = NoOp
  /\ FIXED_INODE_MEDIA \in ToldInodes("dir")
  /\ \E r \in MediaItemByName(name) : ReplyNode(NodeOf(r))
  /\ UNCHANGED catalogVars

\* A lookup in an album, named by its inode: first the album's row ...
LookupInAlbum(parent, name) ==
  /\ op = NoOp
  /\ parent \in ToldInodes("dir") \ FixedDirs
  /\ \E r \in AlbumByInode(parent) : Continue("in_album", r, name)
  /\ UNCHANGED catalogVars

\* ... then a media item of that name and album.
FindInAlbum ==
  /\ op.pc = "in_album"
  /\ LET found == MediaItemByNameInAlbum(op.name, op.row.google_id)
     IN  \/ \E r \in found : ReplyNode(NodeOf(r))
         \/ found = {} /\ ReplyError
  /\ UNCHANGED catalogVars

-----------------------------------------------------------------------------
(* getattr.                                                                *)

GetattrFixed ==
  /\ op = NoOp
  /\ \E n \in FixedNodes \cap told : ReplyNode(n)
  /\ UNCHANGED catalogVars

\* An inode whose row was replaced has no attributes any more.
Getattr(i) ==
  /\ op = NoOp
  /\ i \in {t.inode : t \in told \ FixedNodes}
  /\ \E r \in ItemByInode(i) :
       IF r.type = "album" THEN Continue("album_length", r, r.name)
                           ELSE ReplyNode(NodeOf(r))
  /\ UNCHANGED catalogVars

-----------------------------------------------------------------------------
(* open, release.                                                          *)

OpenFile(i, data) ==
  /\ open_files' = WithHandle(open_files, FreeHandle(open_files),
                              [inode |-> i, data |-> data])
  /\ op' = NoOp
  /\ UNCHANGED <<told, open_dirs>>

MayOpen(fhs) == Cardinality(DOMAIN fhs) < MaxOpen

OpenHello ==
  /\ op = NoOp
  /\ MayOpen(open_files)
  /\ FIXED_INODE_HELLO_WORLD \in ToldInodes("file")
  /\ OpenFile(FIXED_INODE_HELLO_WORLD, NoId)
  /\ UNCHANGED catalogVars

\* The row is found in the cache first ...
Open(i) ==
  /\ op = NoOp
  /\ MayOpen(open_files)
  /\ i \in ToldInodes("file") \ {FIXED_INODE_HELLO_WORLD}
  /\ \E r \in MediaItemByInode(i) : Continue("fetch", r, r.name)
  /\ UNCHANGED catalogVars

\* A wrong variant: the row is found again by its name.
FetchByName ==
  /\ op.pc = "fetch"
  /\ \E r \in MediaItemByName(op.name) : OpenFile(op.row.inode, r.google_id)
  /\ UNCHANGED catalogVars

\* ... and then its data is fetched, by its google id, from the remote library.
Fetch ==
  /\ op.pc = "fetch"
  /\ OpenFile(op.row.inode, op.row.google_id)
  /\ UNCHANGED catalogVars

FetchFails ==
  /\ "remote" \in Faults
  /\ op.pc = "fetch"
  /\ ReplyError
  /\ UNCHANGED catalogVars

Release(fh) ==
  /\ op = NoOp
  /\ fh \in DOMAIN open_files
  /\ open_files' = WithoutHandle(open_files, fh)
  /\ UNCHANGED <<told, op, open_dirs>>
  /\ UNCHANGED catalogVars

-----------------------------------------------------------------------------
(* opendir, releasedir.                                                    *)

OpenDirectory(i, entries) ==
  /\ open_dirs' = WithHandle(open_dirs, FreeHandle(open_dirs),
                             [inode |-> i, entries |-> entries])
  /\ op' = NoOp
  /\ UNCHANGED <<told, open_files>>

\* The entries "." and ".." and those of the root are constant, and left out.
OpendirRoot ==
  /\ op = NoOp
  /\ MayOpen(open_dirs)
  /\ FIXED_INODE_ROOT \in ToldInodes("dir")
  /\ OpenDirectory(FIXED_INODE_ROOT, {})
  /\ UNCHANGED catalogVars

OpendirFixed(i) ==
  /\ op = NoOp
  /\ MayOpen(open_dirs)
  /\ i \in ToldInodes("dir") \cap {FIXED_INODE_ALBUMS, FIXED_INODE_MEDIA}
  /\ OpenDirectory(i, DedupedEntries(IF i = FIXED_INODE_ALBUMS THEN Albums
                                                               ELSE MediaItems))
  /\ UNCHANGED catalogVars

\* An album's row is found first ...
OpendirAlbum(i) ==
  /\ op = NoOp
  /\ MayOpen(open_dirs)
  /\ i \in ToldInodes("dir") \ FixedDirs
  /\ \E r \in AlbumByInode(i) : Continue("entries", r, r.name)
  /\ UNCHANGED catalogVars

\* A wrong variant: the items of all albums are listed.
AllAlbumEntries ==
  /\ op.pc = "entries"
  /\ OpenDirectory(op.row.inode, DedupedEntries(MediaItems))
  /\ UNCHANGED catalogVars

\* ... and then its items, by the inode again: if the row was replaced there are none.
AlbumEntries ==
  /\ op.pc = "entries"
  /\ OpenDirectory(op.row.inode, DedupedEntries(MediaItemsInAlbum(op.row.inode)))
  /\ UNCHANGED catalogVars

\* A listing that fails is a warning: the directory opens, and is empty.
ListingFails ==
  /\ "sql" \in Faults
  /\ \/ op.pc = "entries" /\ OpenDirectory(op.row.inode, {})
     \/ /\ op = NoOp
        /\ MayOpen(open_dirs)
        /\ \E i \in ToldInodes("dir") \cap {FIXED_INODE_ALBUMS, FIXED_INODE_MEDIA} :
             OpenDirectory(i, {})
  /\ UNCHANGED catalogVars

\* Any other query that fails after the first one: the request is given up.
QueryFails ==
  /\ "sql" \in Faults
  /\ op.pc \in {"album_length", "in_album"}
  /\ ReplyError
  /\ UNCHANGED catalogVars

Releasedir(fh) ==
  /\ op = NoOp
  /\ fh \in DOMAIN open_dirs
  /\ open_dirs' = WithoutHandle(open_dirs, fh)
  /\ UNCHANGED <<told, op, open_files>>
  /\ UNCHANGED catalogVars

-----------------------------------------------------------------------------
\* Replies that need neither the cache nor the remote library.
LocalStep ==
  \/ LookupRoot
  \/ GetattrFixed
  \/ OpenHello
  \/ \E fh \in DOMAIN open_files : Release(fh)
  \/ OpendirRoot
  \/ \E fh \in DOMAIN open_dirs : Releasedir(fh)

\* Queries of the cache, under its mutex.
LookupQuery ==
  \/ \E n \in Names : LookupAlbum(n)
  \/ AlbumLength
  \/ \E n \in Names : LookupMedia(n)
  \/ \E i \in ToldInodes("dir"), n \in Names : LookupInAlbum(i, n)
  \/ FindInAlbum
  \/ \E t \in told : Getattr(t.inode)

OpenQuery ==
  \/ \E i \in ToldInodes("file") : Open(i)
  \/ \E i \in ToldInodes("dir") : OpendirFixed(i)
  \/ \E i \in ToldInodes("dir") : OpendirAlbum(i)
  \/ AlbumEntries
  \/ ListingFails
  \/ QueryFails

\* Calls of the remote library, under its mutex.
FetchStep == Fetch \/ FetchFails

Next ==
  \/ CacheChanges
  \/ Remount
  \/ LocalStep
  \/ LookupQuery
  \/ OpenQuery
  \/ FetchStep

Spec == Init /\ [][Next]_vars

-----------------------------------------------------------------------------
(* Safety.                                                                 *)

\* What the kernel was told of an inode stays true of it: it is always the same item
\* and always a file or always a directory, whatever the updates did to the rows, even
\* between the two queries of one request (photofs/mod.rs:116-118, 329-345).
InodeMeansOneNode ==
  \A s, t \in told : s.inode = t.inode => s = t

\* An open file has the data of the item the kernel looked up under its inode, though
\* the lookup, the query of open() and the fetch are three moments, and the row may
\* have been replaced between any two of them (photofs/mod.rs:366-384).
OpenFileIsLookedUpItem ==
  \A fh \in DOMAIN open_files, t \in told :
    t.inode = open_files[fh].inode => t.google_id = open_files[fh].data

\* The media items of an album, by its id.
MembersOf(album) ==
  {r \in MediaItems : [album |-> album, media |-> r.google_id] \in in_album}

\* A directory is opened under the inode of a directory the kernel knows, and lists a
\* name once.
DirListsNamesOnce ==
  \A fh \in DOMAIN open_dirs :
    /\ open_dirs[fh].inode \in ToldInodes("dir")
    /\ \A e, f \in open_dirs[fh].entries : e.name = f.name => e = f

\* An album's handle is made of the album's items at one moment, though opendir() checks
\* the inode at one and lists it at another (photofs/mod.rs:468-478).  It is empty instead
\* only if the row was replaced since it was found, or a query fails: what lookups, updates
\* and restarts did to the inode, no other item gets into its listing.
OpenedAlbumListsMembers ==
  [][\A fh \in DOMAIN open_dirs' \ DOMAIN open_dirs, x \in issued :
       x.inode = open_dirs'[fh].inode =>
         \/ open_dirs'[fh].entries = DedupedEntries(MembersOf(x.google_id))
         \/ /\ open_dirs'[fh].entries = {}
            /\ ItemByInode(x.inode) = {} \/ "sql" \in Faults]_vars

\* A handle that stays open keeps what was opened under it: no other open or release
\* replaces it, in whichever order handles are closed (utils.rs:47-59).
HandlesKeepEntries ==
  [][/\ \A fh \in DOMAIN open_files \cap DOMAIN open_files' :
          open_files'[fh] = open_files[fh]
     /\ \A fh \in DOMAIN open_dirs \cap DOMAIN open_dirs' :
          open_dirs'[fh] = open_dirs[fh]]_vars

\* Handles are the lowest free numbers: they never exceed what is open at once.
HandlesStayLow ==
  /\ DOMAIN open_files \subseteq 0..(MaxOpen - 1)
  /\ DOMAIN open_dirs \subseteq 0..(MaxOpen - 1)

-----------------------------------------------------------------------------
(* What a test says of the program and the program does not do.            *)

\* A name that a directory lists resolves to the item that is listed under it: the
\* test at db/mod.rs:777 has "Lookup by name and inode are equal".
ListedNameResolves ==
  \A e \in DedupedEntries(MediaItems) :
    \A r \in MediaItemByName(e.name) : r.inode = e.inode

-----------------------------------------------------------------------------
(* The invariant that proves the safety properties (see PhotoFsProofs).    *)

\* A row that is stored, or was: its type is that of its id.
IsRow(r) ==
  /\ r \in Item
  /\ [inode |-> r.inode, google_id |-> r.google_id] \in issued
  /\ r.type = "album" <=> r.google_id \in AlbumIds

\* An inode was issued for one id only, and an id has one row at most.
CatalogInv ==
  /\ IssuedInodes \subseteq Inodes
  /\ \A x, y \in issued : x.inode = y.inode => x = y
  /\ \A r \in items : IsRow(r)
  /\ \A r, s \in items : r.google_id = s.google_id => r = s

IssuedNode(x) == [inode |-> x.inode, google_id |-> x.google_id,
                  kind |-> IF x.google_id \in AlbumIds THEN "dir" ELSE "file"]

\* The kernel knows fixed nodes and nodes of rows that are stored, or were.
ToldInv == \A t \in told : t \in FixedNodes \/ \E x \in issued : t = IssuedNode(x)

\* What a request has found is a row of the kind it looks for, and there is room for
\* what it is about to open.
OpInv ==
  op # NoOp =>
    /\ IsRow(op.row)
    /\ op.row.type = (IF op.pc = "fetch" THEN "media_item" ELSE "album")
    /\ op.pc = "fetch" => MayOpen(open_files)
    /\ op.pc = "entries" =>
         MayOpen(open_dirs) /\ op.row.inode \in ToldInodes("dir")

FilesInv ==
  \A fh \in DOMAIN open_files :
    \/ open_files[fh] = [inode |-> FIXED_INODE_HELLO_WORLD, data |-> NoId]
    \/ \E x \in issued : open_files[fh] = [inode |-> x.inode, data |-> x.google_id]

\* An open directory lists rows that are stored, or were.
EntriesInv ==
  \A fh \in DOMAIN open_dirs : \A e \in open_dirs[fh].entries :
    \E x \in issued : e.inode = x.inode /\ e.kind = IssuedNode(x).kind

FsInv ==
  /\ FsTypeOK
  /\ CatalogInv
  /\ ToldInv
  /\ OpInv
  /\ FilesInv
  /\ EntriesInv
  /\ DirListsNamesOnce
  /\ HandlesStayLow
=============================================================================
