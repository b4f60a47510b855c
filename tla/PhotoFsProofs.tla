---------------------------- MODULE PhotoFsProofs ----------------------------
(***************************************************************************)
(* Proofs about PhotoFs, for any items, names and inodes and any number of *)
(* open handles.  A step of a handler ends in a reply, goes on with what   *)
(* it has found, or opens or closes a handle: a lemma for each shows that  *)
(* it keeps FsInv, and the actions are instances of them.                  *)
(***************************************************************************)
EXTENDS PhotoFs, TableProofs

-----------------------------------------------------------------------------
(* Nodes, rows and entries.                                                *)

\* The node of a row is the one the row's inode was issued for.
LEMMA RowHasNode ==
  ASSUME NEW r, IsRow(r)
  PROVE  \E x \in issued : NodeOf(r) = IssuedNode(x)
<1> DEFINE x == [inode |-> r.inode, google_id |-> r.google_id]
<1>1. x \in issued
  BY DEF IsRow
<1>2. NodeOf(r) = IssuedNode(x)
  BY DEF IsRow, NodeOf, Kind, IssuedNode
<1> QED
  BY <1>1, <1>2

\* An issued inode is a number above those of the fixed nodes.
LEMMA IssuedAreNotFixed ==
  ASSUME CatalogInv, CatalogTypeOK, NEW x \in issued, NEW n \in FixedNodes
  PROVE  IssuedNode(x).inode # n.inode
<1>1. x.inode \in Inodes /\ x.inode \in Nat
  BY InodesAssumption DEF CatalogInv, IssuedInodes
<1>2. x.inode > 4
  BY <1>1, FixedInodesAssumption DEF FIXED_INODE_HELLO_WORLD
<1>3. n.inode \in {1, 2, 3, 4}
  BY DEF FixedNodes, FixedNode, FixedDirs, FIXED_INODE_ROOT, FIXED_INODE_ALBUMS,
         FIXED_INODE_MEDIA, FIXED_INODE_HELLO_WORLD
<1> QED
  BY <1>1, <1>2, <1>3 DEF IssuedNode

\* Two nodes the kernel may know are one if they have the same inode.
LEMMA NodesAreUnique ==
  ASSUME CatalogInv, CatalogTypeOK, NEW s, NEW t, s.inode = t.inode,
         s \in FixedNodes \/ \E x \in issued : s = IssuedNode(x),
         t \in FixedNodes \/ \E x \in issued : t = IssuedNode(x)
  PROVE  s = t
<1>1. CASE s \in FixedNodes /\ t \in FixedNodes
  BY <1>1 DEF FixedNodes, FixedNode
<1>2. CASE s \in FixedNodes /\ t \notin FixedNodes
  BY <1>2, IssuedAreNotFixed
<1>3. CASE s \notin FixedNodes /\ t \in FixedNodes
  BY <1>3, IssuedAreNotFixed
<1>4. CASE s \notin FixedNodes /\ t \notin FixedNodes
  <2>1. PICK x \in issued, y \in issued : s = IssuedNode(x) /\ t = IssuedNode(y)
    BY <1>4
  <2>2. x.inode = y.inode
    BY <2>1 DEF IssuedNode
  <2> QED
    BY <2>1, <2>2 DEF CatalogInv
<1> QED
  BY <1>1, <1>2, <1>3, <1>4

\* Nodes have the type of nodes.
LEMMA NodeTypes ==
  /\ FixedNodes \subseteq Node
  /\ CatalogTypeOK => \A x \in issued : IssuedNode(x) \in Node
<1>1. FixedNodes \subseteq Node
  BY DEF FixedNodes, FixedNode, FixedDirs, Node, FIXED_INODE_ROOT, FIXED_INODE_ALBUMS,
         FIXED_INODE_MEDIA, FIXED_INODE_HELLO_WORLD
<1>2. ASSUME CatalogTypeOK, NEW x \in issued PROVE IssuedNode(x) \in Node
  <2>1. x.inode \in Nat /\ x.google_id \in GoogleIds
    BY <1>2 DEF CatalogTypeOK, Issue
  <2> QED
    BY <2>1 DEF IssuedNode, Node
<1> QED
  BY <1>1, <1>2

\* What opendir() may list: rows that are stored or were, a name once.
IsListing(es) ==
  /\ es \subseteq Entry
  /\ \A e, f \in es : e.name = f.name => e = f
  /\ \A e \in es : \E x \in issued : e.inode = x.inode /\ e.kind = IssuedNode(x).kind

\* Skipping the duplicates leaves one entry for a name (photofs/mod.rs:236-255).
LEMMA EntriesAreUnique ==
  ASSUME CatalogInv, CatalogTypeOK, NEW rows \in SUBSET items
  PROVE  IsListing(DedupedEntries(rows))
<1>1. \A r \in rows : r \in Item /\ r.google_id \in Nat
  BY OrderAssumption DEF CatalogTypeOK, DbTypeOK, Item
<1>2. DedupedEntries(rows) \subseteq Entry
  BY <1>1 DEF DedupedEntries, EntryOf, Entry, Kind, Item
<1>3. ASSUME NEW e \in DedupedEntries(rows), NEW f \in DedupedEntries(rows),
             e.name = f.name
      PROVE  e = f
  <2>1. PICK r \in rows : /\ e = EntryOf(r)
                          /\ \A t \in rows : t.name = r.name => r.google_id <= t.google_id
    BY DEF DedupedEntries
  <2>2. PICK s \in rows : /\ f = EntryOf(s)
                          /\ \A t \in rows : t.name = s.name => s.google_id <= t.google_id
    BY DEF DedupedEntries
  <2>3. r.name = s.name
    BY <1>3, <2>1, <2>2 DEF EntryOf
  <2>4. r.google_id = s.google_id
    BY <1>1, <2>1, <2>2, <2>3
  <2>5. r = s
    BY <2>4 DEF CatalogInv
  <2> QED
    BY <2>1, <2>2, <2>5
<1>4. ASSUME NEW e \in DedupedEntries(rows)
      PROVE  \E x \in issued : e.inode = x.inode /\ e.kind = IssuedNode(x).kind
  <2>1. PICK r \in items : e = EntryOf(r)
    BY DEF DedupedEntries
  <2>2. PICK x \in issued : NodeOf(r) = IssuedNode(x)
    BY RowHasNode DEF CatalogInv
  <2>3. e.inode = NodeOf(r).inode /\ e.kind = NodeOf(r).kind
    BY <2>1 DEF EntryOf, NodeOf
  <2> QED
    BY <2>2, <2>3 DEF IssuedNode
<1> QED
  BY <1>2, <1>3, <1>4 DEF IsListing

-----------------------------------------------------------------------------
(* The initial state.                                                      *)

\* The invariant holds when the file system is mounted (photofs/mod.rs:66-73).
LEMMA FsInvInit == Init => FsInv
<1> SUFFICES ASSUME Init PROVE FsInv
  OBVIOUS
<1>1. items = {} /\ in_album = {} /\ issued = {}
  BY DEF Init, CatalogInit
<1>2. DOMAIN open_files = {} /\ DOMAIN open_dirs = {} /\ op = NoOp
  BY DEF Init, NoHandles
<1>3. told = {FixedNode(FIXED_INODE_ROOT)}
  BY DEF Init
<1>4. told \subseteq FixedNodes
  BY <1>3 DEF FixedNodes, FixedDirs
<1>5. FsTypeOK
  BY <1>1, <1>2, <1>4, NodeTypes, FS_EmptySet DEF FsTypeOK, CatalogTypeOK, DbTypeOK
<1>6. CatalogInv
  BY <1>1 DEF CatalogInv, IssuedInodes
<1>7. ToldInv
  BY <1>4 DEF ToldInv
<1>8. OpInv /\ FilesInv /\ EntriesInv /\ DirListsNamesOnce
  BY <1>2 DEF OpInv, FilesInv, EntriesInv, DirListsNamesOnce
<1>9. HandlesStayLow
  BY <1>2 DEF HandlesStayLow
<1> QED
  BY <1>5, <1>6, <1>7, <1>8, <1>9 DEF FsInv

-----------------------------------------------------------------------------
(* The parts of the invariant, each with what keeps it.                    *)

CatalogOK == CatalogTypeOK /\ CatalogInv

ToldOK == told \subseteq Node /\ ToldInv

OpOK == op \in Op \cup {NoOp} /\ OpInv

FilesOK ==
  /\ \A fh \in DOMAIN open_files :
       open_files[fh] \in [inode : Nat, data : GoogleIds \cup {NoId}]
  /\ FilesInv
  /\ DOMAIN open_files \subseteq 0..(MaxOpen - 1)

DirsOK ==
  /\ \A fh \in DOMAIN open_dirs : /\ open_dirs[fh].inode \in Nat
                                  /\ open_dirs[fh].entries \subseteq Entry
  /\ DirListsNamesOnce
  /\ EntriesInv
  /\ DOMAIN open_dirs \subseteq 0..(MaxOpen - 1)

\* The invariant is the conjunction of its parts ...
LEMMA Parts == FsInv <=> CatalogOK /\ ToldOK /\ OpOK /\ FilesOK /\ DirsOK
BY DEF FsInv, FsTypeOK, HandlesStayLow, CatalogOK, ToldOK, OpOK, FilesOK, DirsOK

\* A row that is stored has a place (upsert_x).
LEMMA PlaceIsNumber ==
  ASSUME DbTypeOK, NEW id, NEW type
  PROVE  NextPlace(id, type) \in Nat
<1> DEFINE rows == {r \in items : r.type = type /\ r.google_id # id}
<1>1. IsFiniteSet(rows) /\ \A r \in rows : r.place \in Nat
  BY FS_Subset DEF DbTypeOK, Item
<1> QED
  BY <1>1, PlaceIsLast DEF NextPlace

\* The row that is stored is one more row, or takes the place of another (upsert_x).
LEMMA UpsertKeepsTypes ==
  ASSUME DbTypeOK, NEW id \in GoogleIds, NEW type \in MediaTypes, NEW name \in Names,
         NEW inode \in Nat, UpsertX(id, type, name, inode)
  PROVE  DbTypeOK'
<1> DEFINE old == {r \in items : r.google_id # id}
           new == [google_id |-> id, type |-> type, name |-> name, inode |-> inode,
                   place |-> NextPlace(id, type)]
<1>1. items' = old \cup {new} /\ in_album' \subseteq in_album
  BY DEF UpsertX
<1>2. new \in Item
  BY PlaceIsNumber DEF Item
<1>3. IsFiniteSet(old) /\ old \subseteq Item
  BY FS_Subset DEF DbTypeOK
<1> HIDE DEF old, new
<1>4. IsFiniteSet(old \cup {new})
  BY <1>3, FS_AddElement
<1> QED
  BY <1>1, <1>2, <1>3, <1>4 DEF DbTypeOK

\* An upsert: the inode is new, and the old row of the id goes (Catalog!Upsert).
LEMMA UpsertKeeps ==
  ASSUME CatalogOK, NEW id \in GoogleIds, NEW type \in MediaTypes, NEW name \in Names,
         type = "album" <=> id \in AlbumIds, Upsert(id, type, name)
  PROVE  CatalogOK' /\ issued \subseteq issued'
<1>1. PICK i \in Inodes \ IssuedInodes :
        /\ UpsertX(id, type, name, i)
        /\ issued' = issued \cup {[inode |-> i, google_id |-> id]}
  BY DEF Upsert
<1> DEFINE new == [google_id |-> id, type |-> type, name |-> name, inode |-> i,
                   place |-> NextPlace(id, type)]
<1>2. items' = {r \in items : r.google_id # id} \cup {new}
  BY <1>1 DEF UpsertX
<1>3. in_album' \subseteq in_album
  BY <1>1 DEF UpsertX
<1>4. i \in Nat
  BY <1>1, InodesAssumption
<1>5. DbTypeOK' /\ new \in Item
  BY <1>1, <1>2, <1>4, UpsertKeepsTypes DEF CatalogOK, CatalogTypeOK, DbTypeOK
<1>6. CatalogTypeOK'
  <2>1. issued' \subseteq Issue
    BY <1>1, <1>4 DEF CatalogOK, CatalogTypeOK, Issue
  <2> QED
    BY <1>5, <2>1 DEF CatalogTypeOK
<1>7. (IssuedInodes \subseteq Inodes)'
  BY <1>1 DEF CatalogOK, CatalogInv, IssuedInodes
<1>8. (\A x, y \in issued : x.inode = y.inode => x = y)'
  BY <1>1 DEF CatalogOK, CatalogInv, IssuedInodes
<1>9. (\A r \in items : IsRow(r))'
  <2> SUFFICES ASSUME NEW r \in items' PROVE IsRow(r)'
    OBVIOUS
  <2>1. CASE r = new
    BY <1>1, <1>5, <2>1 DEF IsRow
  <2>2. CASE r \in items
    BY <1>1, <2>2 DEF CatalogOK, CatalogInv, IsRow
  <2> QED
    BY <1>2, <2>1, <2>2
<1>10. (\A r, s \in items : r.google_id = s.google_id => r = s)'
  BY <1>2 DEF CatalogOK, CatalogInv
<1> QED
  BY <1>1, <1>6, <1>7, <1>8, <1>9, <1>10 DEF CatalogOK, CatalogInv

\* Any change of the cache.
LEMMA CatalogStep ==
  ASSUME CatalogOK, CatalogNext
  PROVE  CatalogOK' /\ issued \subseteq issued'
<1>1. CASE UpsertAlbum
  BY <1>1, UpsertKeeps DEF UpsertAlbum, GoogleIds, MediaTypes
<1>2. CASE UpsertMediaItem
  <2>1. PICK m \in MediaIds, n \in Names : Upsert(m, "media_item", n)
    BY <1>2 DEF UpsertMediaItem
  <2>2. m \in GoogleIds /\ m \notin AlbumIds
    BY IdAssumption DEF GoogleIds
  <2>3. "media_item" \in MediaTypes /\ ~("media_item" = "album")
    BY DEF MediaTypes
  <2> QED
    BY <2>1, <2>2, <2>3, UpsertKeeps
<1>3. ASSUME NEW a \in AlbumIds, NEW m \in MediaIds, AddToAlbum(a, m)
      PROVE  CatalogOK' /\ issued \subseteq issued'
  <2>1. items' = items /\ issued' = issued
    BY <1>3 DEF AddToAlbum, UpsertMediaItemInAlbum
  <2>2. in_album' \subseteq Membership
    BY <1>3 DEF AddToAlbum, UpsertMediaItemInAlbum, Membership,
                CatalogOK, CatalogTypeOK, DbTypeOK
  <2> QED
    BY <2>1, <2>2 DEF CatalogOK, CatalogTypeOK, DbTypeOK, CatalogInv, IssuedInodes, IsRow
<1> QED
  BY <1>1, <1>2, <1>3 DEF CatalogNext

\* A step of the file system leaves the cache alone: it only reads it.
LEMMA CatalogKept ==
  ASSUME CatalogOK, UNCHANGED catalogVars
  PROVE  CatalogOK' /\ issued \subseteq issued'
BY DEF CatalogOK, CatalogTypeOK, DbTypeOK, CatalogInv, IssuedInodes, IsRow, catalogVars

\* What was told stays good while inodes are issued.
LEMMA ToldKept ==
  ASSUME ToldOK, issued \subseteq issued', UNCHANGED told
  PROVE  ToldOK'
BY DEF ToldOK, ToldInv

\* The kernel is told of a node that there is or was.
LEMMA ToldAdds ==
  ASSUME CatalogOK, ToldOK, UNCHANGED catalogVars, NEW n, told' = told \cup {n},
         n \in FixedNodes \/ \E x \in issued : n = IssuedNode(x)
  PROVE  ToldOK'
<1>1. n \in Node
  BY NodeTypes DEF CatalogOK
<1> QED
  BY <1>1 DEF ToldOK, ToldInv, catalogVars

\* The kernel forgets no directory.
LEMMA ToldGrows ==
  ASSUME told \subseteq told'
  PROVE  ToldInodes("dir") \subseteq ToldInodes("dir")'
BY DEF ToldInodes

\* What a request has found stays good while the cache changes.
LEMMA OpKept ==
  ASSUME OpOK, issued \subseteq issued', UNCHANGED fsVars
  PROVE  OpOK'
<1>1. UNCHANGED <<told, op, open_files, open_dirs>>
  BY DEF fsVars
<1>2. UNCHANGED ToldInodes("dir") /\ UNCHANGED MayOpen(open_files) /\ UNCHANGED MayOpen(open_dirs)
  BY <1>1 DEF ToldInodes, MayOpen
<1>3. op # NoOp => IsRow(op.row)'
  BY <1>1 DEF OpOK, OpInv, IsRow
<1> QED
  BY <1>1, <1>2, <1>3 DEF OpOK, OpInv

\* A request that is answered leaves nothing behind.
LEMMA OpEnds ==
  ASSUME op' = NoOp
  PROVE  OpOK'
BY DEF OpOK, OpInv

\* A request has found a row, and goes on.
LEMMA OpContinues ==
  ASSUME NEW pc \in {"album_length", "in_album", "fetch", "entries"},
         NEW r, IsRow(r), NEW name \in Names,
         UNCHANGED catalogVars, Continue(pc, r, name),
         r.type = (IF pc = "fetch" THEN "media_item" ELSE "album"),
         pc = "fetch" => MayOpen(open_files),
         pc = "entries" => MayOpen(open_dirs) /\ r.inode \in ToldInodes("dir")
  PROVE  OpOK'
<1>1. op' = [pc |-> pc, row |-> r, name |-> name] /\ UNCHANGED <<told, open_files, open_dirs>>
  BY DEF Continue
<1>2. r \in Item
  BY DEF IsRow
<1>3. op' \in Op
  BY <1>1, <1>2 DEF Op
<1>4. IsRow(op.row)'
  BY <1>1 DEF IsRow, catalogVars
<1>5. op'.pc = pc /\ op'.row = r
  BY <1>1
<1>6. UNCHANGED ToldInodes("dir")
  BY <1>1 DEF ToldInodes
<1>7. pc = "fetch" => MayOpen(open_files)'
  BY <1>1 DEF MayOpen
<1>8. pc = "entries" => MayOpen(open_dirs)' /\ r.inode \in ToldInodes("dir")'
  BY <1>1, <1>6 DEF MayOpen
<1>9. OpInv'
  BY <1>4, <1>5, <1>7, <1>8 DEF OpInv
<1> QED
  BY <1>3, <1>9 DEF OpOK

\* Open files stay good while inodes are issued.
LEMMA FilesKept ==
  ASSUME FilesOK, issued \subseteq issued', UNCHANGED open_files
  PROVE  FilesOK'
BY DEF FilesOK, FilesInv

\* Open directories stay good while the kernel is told of more nodes.
LEMMA DirsKept ==
  ASSUME DirsOK, told \subseteq told', issued \subseteq issued', UNCHANGED open_dirs
  PROVE  DirsOK'
<1>1. EntriesInv'
  BY DEF DirsOK, EntriesInv, IssuedNode
<1> QED
  BY <1>1, ToldGrows DEF DirsOK, DirListsNamesOnce

\* Where there is room, the next handle is free and low.
LEMMA NextHandleIsLow ==
  ASSUME NEW fhs, DOMAIN fhs \subseteq 0..(MaxOpen - 1), MayOpen(fhs)
  PROVE  FreeHandle(fhs) \notin DOMAIN fhs /\ FreeHandle(fhs) \in 0..(MaxOpen - 1)
<1>1. MaxOpen \in Nat
  BY MaxOpenAssumption
<1>2. IsFiniteSet(0..(MaxOpen - 1))
  BY <1>1, FS_Interval
<1>3. IsFiniteSet(DOMAIN fhs)
  BY <1>2, FS_Subset
<1>4. Cardinality(DOMAIN fhs) \in Nat
  BY <1>3, FS_CardinalityType
<1>5. FreeHandle(fhs) \notin DOMAIN fhs /\ FreeHandle(fhs) \in 0..Cardinality(DOMAIN fhs)
  BY <1>3, FreeHandleIsFree
<1> QED
  BY <1>1, <1>4, <1>5 DEF MayOpen

\* A file is opened under the inode and with the data of one item.
LEMMA FilesOpen ==
  ASSUME FilesOK, MayOpen(open_files), NEW i \in Nat, NEW data \in GoogleIds \cup {NoId},
         OpenFile(i, data), UNCHANGED catalogVars,
         \/ i = FIXED_INODE_HELLO_WORLD /\ data = NoId
         \/ \E x \in issued : i = x.inode /\ data = x.google_id
  PROVE  /\ FilesOK'
         /\ \A fh \in DOMAIN open_files : fh \in DOMAIN open_files' /\ open_files'[fh] = open_files[fh]
<1> DEFINE new_fh == FreeHandle(open_files)
           new == [inode |-> i, data |-> data]
<1>1. new_fh \notin DOMAIN open_files /\ new_fh \in 0..(MaxOpen - 1)
  BY NextHandleIsLow DEF FilesOK
<1>2. open_files' = WithHandle(open_files, new_fh, new)
  BY DEF OpenFile
<1> HIDE DEF new_fh, new
<1>3. /\ DOMAIN open_files' = DOMAIN open_files \cup {new_fh}
      /\ open_files'[new_fh] = new
      /\ \A h \in DOMAIN open_files : h # new_fh => open_files'[h] = open_files[h]
  BY <1>2 DEF WithHandle
<1>4. new \in [inode : Nat, data : GoogleIds \cup {NoId}]
  BY DEF new
<1>5. \A h \in DOMAIN open_files' :
        open_files'[h] \in [inode : Nat, data : GoogleIds \cup {NoId}]
  BY <1>1, <1>3, <1>4 DEF FilesOK
<1>6. FilesInv'
  <2>1. \/ new = [inode |-> FIXED_INODE_HELLO_WORLD, data |-> NoId]
        \/ \E x \in issued' : new = [inode |-> x.inode, data |-> x.google_id]
    BY DEF new, catalogVars
  <2> SUFFICES ASSUME NEW h \in DOMAIN open_files'
               PROVE  \/ open_files'[h] = [inode |-> FIXED_INODE_HELLO_WORLD, data |-> NoId]
                      \/ \E x \in issued' :
                           open_files'[h] = [inode |-> x.inode, data |-> x.google_id]
    BY DEF FilesInv
  <2>2. CASE h = new_fh
    BY <1>3, <2>1, <2>2
  <2>3. CASE h # new_fh
    BY <1>3, <2>3 DEF FilesOK, FilesInv, catalogVars
  <2> QED
    BY <2>2, <2>3
<1>7. DOMAIN open_files' \subseteq 0..(MaxOpen - 1)
  BY <1>1, <1>3 DEF FilesOK
<1> QED
  BY <1>1, <1>3, <1>5, <1>6, <1>7 DEF FilesOK

\* A directory is opened under an inode the kernel knows, with entries of its own names.
LEMMA DirsOpen ==
  ASSUME DirsOK, MayOpen(open_dirs), NEW i \in Nat, i \in ToldInodes("dir"),
         NEW entries, IsListing(entries), UNCHANGED catalogVars, OpenDirectory(i, entries)
  PROVE  /\ DirsOK'
         /\ \A fh \in DOMAIN open_dirs : fh \in DOMAIN open_dirs' /\ open_dirs'[fh] = open_dirs[fh]
<1> DEFINE new_fh == FreeHandle(open_dirs)
           new == [inode |-> i, entries |-> entries]
<1>1. new_fh \notin DOMAIN open_dirs /\ new_fh \in 0..(MaxOpen - 1)
  BY NextHandleIsLow DEF DirsOK
<1>2. open_dirs' = WithHandle(open_dirs, new_fh, new) /\ told' = told
  BY DEF OpenDirectory
<1> HIDE DEF new_fh, new
<1>3. /\ DOMAIN open_dirs' = DOMAIN open_dirs \cup {new_fh}
      /\ open_dirs'[new_fh] = new
      /\ \A h \in DOMAIN open_dirs : h # new_fh => open_dirs'[h] = open_dirs[h]
  BY <1>2 DEF WithHandle
<1>4. /\ new.inode \in Nat
      /\ new.inode \in ToldInodes("dir")'
      /\ new.entries \subseteq Entry
      /\ \A e, f \in new.entries : e.name = f.name => e = f
  BY <1>2, ToldGrows DEF new, IsListing
<1>5. ASSUME NEW h \in DOMAIN open_dirs'
      PROVE  /\ open_dirs'[h].inode \in Nat
             /\ open_dirs'[h].entries \subseteq Entry
             /\ open_dirs'[h].inode \in ToldInodes("dir")'
             /\ \A e, f \in open_dirs'[h].entries : e.name = f.name => e = f
  <2>1. CASE h = new_fh
    BY <1>3, <1>4, <2>1
  <2>2. CASE h # new_fh
    <3>1. h \in DOMAIN open_dirs /\ open_dirs'[h] = open_dirs[h]
      BY <1>3, <2>2
    <3> QED
      BY <1>2, <3>1, ToldGrows DEF DirsOK, DirListsNamesOnce
  <2> QED
    BY <2>1, <2>2
<1>6. DOMAIN open_dirs' \subseteq 0..(MaxOpen - 1)
  BY <1>1, <1>3 DEF DirsOK
<1>7. EntriesInv'
  <2>1. issued' = issued
    BY DEF catalogVars
  <2>2. \A e \in new.entries : \E x \in issued : e.inode = x.inode /\ e.kind = IssuedNode(x).kind
    BY DEF new, IsListing
  <2> QED
    BY <1>3, <2>1, <2>2 DEF DirsOK, EntriesInv, IssuedNode
<1> QED
  BY <1>1, <1>3, <1>5, <1>6, <1>7 DEF DirsOK, DirListsNamesOnce

\* A file handle is closed.
LEMMA FilesClose ==
  ASSUME FilesOK, NEW fh, open_files' = WithoutHandle(open_files, fh), UNCHANGED catalogVars
  PROVE  /\ FilesOK'
         /\ \A h \in DOMAIN open_files' : open_files'[h] = open_files[h]
<1>1. /\ DOMAIN open_files' \subseteq DOMAIN open_files
      /\ \A h \in DOMAIN open_files' : open_files'[h] = open_files[h]
  BY DEF WithoutHandle, Restrict
<1> QED
  BY <1>1 DEF FilesOK, FilesInv, catalogVars

\* A directory handle is closed.
LEMMA DirsClose ==
  ASSUME DirsOK, NEW fh, open_dirs' = WithoutHandle(open_dirs, fh), UNCHANGED told,
         UNCHANGED catalogVars
  PROVE  /\ DirsOK'
         /\ \A h \in DOMAIN open_dirs' : open_dirs'[h] = open_dirs[h]
<1>1. /\ DOMAIN open_dirs' \subseteq DOMAIN open_dirs
      /\ \A h \in DOMAIN open_dirs' : open_dirs'[h] = open_dirs[h]
  BY DEF WithoutHandle, Restrict
<1>2. UNCHANGED ToldInodes("dir")
  BY DEF ToldInodes
<1>3. EntriesInv'
  BY <1>1 DEF DirsOK, EntriesInv, IssuedNode, catalogVars
<1> QED
  BY <1>1, <1>2, <1>3 DEF DirsOK, DirListsNamesOnce

\* ... also after a step.
LEMMA PartsNext == FsInv' <=> CatalogOK' /\ ToldOK' /\ OpOK' /\ FilesOK' /\ DirsOK'
BY DEF FsInv, FsTypeOK, HandlesStayLow, CatalogOK, ToldOK, OpOK, FilesOK, DirsOK

-----------------------------------------------------------------------------
(* Replies.                                                                *)

\* Handles that are open before and after a step have the same entries.
KeepsHandles ==
  /\ \A fh \in DOMAIN open_files \cap DOMAIN open_files' : open_files'[fh] = open_files[fh]
  /\ \A fh \in DOMAIN open_dirs \cap DOMAIN open_dirs' : open_dirs'[fh] = open_dirs[fh]

\* A request is answered with a node (rust_filesystem/mod.rs:74-87).
LEMMA NodeReply ==
  ASSUME FsInv, UNCHANGED catalogVars, NEW n, ReplyNode(n),
         n \in FixedNodes \/ \E x \in issued : n = IssuedNode(x)
  PROVE  FsInv' /\ KeepsHandles
<1>1. CatalogOK /\ ToldOK /\ OpOK /\ FilesOK /\ DirsOK
  BY Parts
<1>2. told' = told \cup {n} /\ op' = NoOp /\ UNCHANGED <<open_files, open_dirs>>
  BY DEF ReplyNode
<1>3. CatalogOK' /\ issued \subseteq issued'
  BY <1>1, CatalogKept
<1>4. ToldOK'
  BY <1>1, <1>2, ToldAdds
<1>5. OpOK' /\ FilesOK' /\ DirsOK'
  BY <1>1, <1>2, <1>3, OpEnds, FilesKept, DirsKept
<1> QED
  BY <1>2, <1>3, <1>4, <1>5, PartsNext DEF KeepsHandles

\* A request is answered with an error.
LEMMA ErrorReply ==
  ASSUME FsInv, UNCHANGED catalogVars, ReplyError
  PROVE  FsInv' /\ KeepsHandles
<1>1. CatalogOK /\ ToldOK /\ FilesOK /\ DirsOK
  BY Parts
<1>2. op' = NoOp /\ UNCHANGED <<told, open_files, open_dirs>>
  BY DEF ReplyError
<1>3. CatalogOK' /\ issued \subseteq issued'
  BY <1>1, CatalogKept
<1>4. ToldOK' /\ OpOK' /\ FilesOK' /\ DirsOK'
  BY <1>1, <1>2, <1>3, ToldKept, OpEnds, FilesKept, DirsKept
<1> QED
  BY <1>2, <1>3, <1>4, PartsNext DEF KeepsHandles

\* The first query of a request has found a row.
LEMMA GoesOn ==
  ASSUME FsInv, NEW pc \in {"album_length", "in_album", "fetch", "entries"},
         NEW r \in items, NEW name \in Names,
         UNCHANGED catalogVars, Continue(pc, r, name),
         r.type = (IF pc = "fetch" THEN "media_item" ELSE "album"),
         pc = "fetch" => MayOpen(open_files),
         pc = "entries" => MayOpen(open_dirs) /\ r.inode \in ToldInodes("dir")
  PROVE  FsInv' /\ KeepsHandles
<1>1. CatalogOK /\ ToldOK /\ FilesOK /\ DirsOK
  BY Parts
<1>2. UNCHANGED <<told, open_files, open_dirs>>
  BY DEF Continue
<1>3. CatalogOK' /\ issued \subseteq issued'
  BY <1>1, CatalogKept
<1>4. IsRow(r)
  BY <1>1 DEF CatalogOK, CatalogInv
<1>5. OpOK'
  BY <1>4, OpContinues
<1>6. ToldOK' /\ FilesOK' /\ DirsOK'
  BY <1>1, <1>2, <1>3, ToldKept, FilesKept, DirsKept
<1> QED
  BY <1>2, <1>3, <1>5, <1>6, PartsNext DEF KeepsHandles

\* open() is answered with a handle (photofs/mod.rs:400-406).
LEMMA FileReply ==
  ASSUME FsInv, MayOpen(open_files), NEW i \in Nat, NEW data \in GoogleIds \cup {NoId},
         UNCHANGED catalogVars, OpenFile(i, data),
         \/ i = FIXED_INODE_HELLO_WORLD /\ data = NoId
         \/ \E x \in issued : i = x.inode /\ data = x.google_id
  PROVE  FsInv' /\ KeepsHandles
<1>1. CatalogOK /\ ToldOK /\ FilesOK /\ DirsOK
  BY Parts
<1>2. op' = NoOp /\ UNCHANGED <<told, open_dirs>>
  BY DEF OpenFile
<1>3. CatalogOK' /\ issued \subseteq issued'
  BY <1>1, CatalogKept
<1>4. /\ FilesOK'
      /\ \A fh \in DOMAIN open_files : open_files'[fh] = open_files[fh]
  BY <1>1, FilesOpen
<1>5. ToldOK' /\ OpOK' /\ DirsOK'
  BY <1>1, <1>2, <1>3, ToldKept, OpEnds, DirsKept
<1> QED
  BY <1>2, <1>3, <1>4, <1>5, PartsNext DEF KeepsHandles

\* opendir() is answered with a handle (photofs/mod.rs:490-494).
LEMMA DirectoryReply ==
  ASSUME FsInv, MayOpen(open_dirs), NEW i \in ToldInodes("dir"),
         NEW entries, IsListing(entries), UNCHANGED catalogVars, OpenDirectory(i, entries)
  PROVE  FsInv' /\ KeepsHandles
<1>1. CatalogOK /\ ToldOK /\ FilesOK /\ DirsOK
  BY Parts
<1>2. op' = NoOp /\ UNCHANGED <<told, open_files>>
  BY DEF OpenDirectory
<1>3. CatalogOK' /\ issued \subseteq issued'
  BY <1>1, CatalogKept
<1>4. i \in Nat
  BY <1>1 DEF ToldOK, ToldInodes, Node
<1>5. /\ DirsOK'
      /\ \A fh \in DOMAIN open_dirs : open_dirs'[fh] = open_dirs[fh]
  BY <1>1, <1>4, DirsOpen
<1>6. ToldOK' /\ OpOK' /\ FilesOK'
  BY <1>1, <1>2, <1>3, ToldKept, OpEnds, FilesKept
<1> QED
  BY <1>2, <1>3, <1>5, <1>6, PartsNext DEF KeepsHandles

\* release() (photofs/mod.rs:443-458).
LEMMA FileClosed ==
  ASSUME FsInv, NEW fh \in DOMAIN open_files, Release(fh)
  PROVE  FsInv' /\ KeepsHandles
<1>1. CatalogOK /\ ToldOK /\ FilesOK /\ DirsOK
  BY Parts
<1>2. /\ op' = NoOp
      /\ UNCHANGED <<told, open_dirs>>
      /\ UNCHANGED catalogVars
      /\ open_files' = WithoutHandle(open_files, fh)
  BY DEF Release
<1>3. CatalogOK' /\ issued \subseteq issued'
  BY <1>1, <1>2, CatalogKept
<1>4. FilesOK' /\ \A h \in DOMAIN open_files' : open_files'[h] = open_files[h]
  BY <1>1, <1>2, FilesClose
<1>5. ToldOK' /\ OpOK' /\ DirsOK'
  BY <1>1, <1>2, <1>3, ToldKept, OpEnds, DirsKept
<1> QED
  BY <1>2, <1>3, <1>4, <1>5, PartsNext DEF KeepsHandles

\* releasedir() (photofs/mod.rs:540-553).
LEMMA DirectoryClosed ==
  ASSUME FsInv, NEW fh \in DOMAIN open_dirs, Releasedir(fh)
  PROVE  FsInv' /\ KeepsHandles
<1>1. CatalogOK /\ ToldOK /\ FilesOK /\ DirsOK
  BY Parts
<1>2. /\ op' = NoOp
      /\ UNCHANGED <<told, open_files>>
      /\ UNCHANGED catalogVars
      /\ open_dirs' = WithoutHandle(open_dirs, fh)
  BY DEF Releasedir
<1>3. CatalogOK' /\ issued \subseteq issued'
  BY <1>1, <1>2, CatalogKept
<1>4. DirsOK' /\ \A h \in DOMAIN open_dirs' : open_dirs'[h] = open_dirs[h]
  BY <1>1, <1>2, DirsClose
<1>5. ToldOK' /\ OpOK' /\ FilesOK'
  BY <1>1, <1>2, <1>3, ToldKept, OpEnds, FilesKept
<1> QED
  BY <1>2, <1>3, <1>4, <1>5, PartsNext DEF KeepsHandles

\* The cache changes, and the file system does not.
LEMMA CacheChanged ==
  ASSUME FsInv, CatalogOK' /\ issued \subseteq issued', UNCHANGED fsVars
  PROVE  FsInv' /\ KeepsHandles
<1>1. ToldOK /\ OpOK /\ FilesOK /\ DirsOK
  BY Parts
<1>2. UNCHANGED <<told, op, open_files, open_dirs>>
  BY DEF fsVars
<1>3. ToldOK' /\ OpOK' /\ FilesOK' /\ DirsOK'
  BY <1>1, <1>2, ToldKept, OpKept, FilesKept, DirsKept
<1> QED
  BY <1>2, <1>3, PartsNext DEF KeepsHandles

\* A row that is stored has a node the kernel may know.
LEMMA RowReply ==
  ASSUME FsInv, UNCHANGED catalogVars, NEW r, IsRow(r), ReplyNode(NodeOf(r))
  PROVE  FsInv' /\ KeepsHandles
BY RowHasNode, NodeReply

\* A request between two steps has found a row.
LEMMA Pending ==
  ASSUME FsInv, op.pc # "none"
  PROVE  /\ op \in Op
         /\ IsRow(op.row)
         /\ op.row.type = (IF op.pc = "fetch" THEN "media_item" ELSE "album")
         /\ op.pc = "fetch" => MayOpen(open_files)
         /\ op.pc = "entries" => MayOpen(open_dirs) /\ op.row.inode \in ToldInodes("dir")
<1>1. op # NoOp
  BY DEF NoOp
<1> QED
  BY <1>1 DEF FsInv, FsTypeOK, OpInv

-----------------------------------------------------------------------------
(* The steps.                                                              *)

\* The kernel knows no more than the root of a new mount.
LEMMA RemountKeeps ==
  ASSUME FsInv, Remount
  PROVE  FsInv' /\ KeepsHandles
<1> DEFINE root == FixedNode(FIXED_INODE_ROOT)
<1>1. root \in FixedNodes
  BY DEF FixedNodes, FixedDirs
<1>2. /\ told' = {root}
      /\ op' = NoOp
      /\ open_files' = NoHandles
      /\ open_dirs' = NoHandles
  BY DEF Remount
<1>3. CatalogOK'
  BY Parts, CatalogKept DEF Remount
<1>4. ToldOK'
  BY <1>1, <1>2, NodeTypes DEF ToldOK, ToldInv
<1>5. OpOK'
  BY <1>2 DEF OpOK, OpInv
<1>6. DOMAIN open_files' = {} /\ DOMAIN open_dirs' = {}
  BY <1>2 DEF NoHandles
<1>7. FilesOK' /\ DirsOK'
  BY <1>6 DEF FilesOK, FilesInv, DirsOK, DirListsNamesOnce, EntriesInv
<1> QED
  BY <1>3, <1>4, <1>5, <1>6, <1>7, PartsNext DEF KeepsHandles

\* Replies without a query (photofs/mod.rs:75-108, 308-328, 359-364, 443-458, 540-553).
LEMMA LocalKeeps ==
  ASSUME FsInv, LocalStep
  PROVE  FsInv' /\ KeepsHandles
<1> USE DEF FsInv
<1>1. CASE LookupRoot
  BY <1>1, NodeReply DEF LookupRoot
<1>2. CASE GetattrFixed
  BY <1>2, NodeReply DEF GetattrFixed
<1>3. CASE OpenHello
  BY <1>3, FileReply DEF OpenHello, FIXED_INODE_HELLO_WORLD
<1>4. ASSUME NEW fh \in DOMAIN open_files, Release(fh) PROVE FsInv' /\ KeepsHandles
  BY <1>4, FileClosed
<1>5. CASE OpendirRoot
  BY <1>5, DirectoryReply DEF OpendirRoot, IsListing
<1>6. ASSUME NEW fh \in DOMAIN open_dirs, Releasedir(fh) PROVE FsInv' /\ KeepsHandles
  BY <1>6, DirectoryClosed
<1> QED
  BY <1>1, <1>2, <1>3, <1>4, <1>5, <1>6 DEF LocalStep

\* The queries of lookup and getattr (photofs/mod.rs:110-177, 274-304, 329-357).
LEMMA LookupKeeps ==
  ASSUME FsInv, LookupQuery
  PROVE  FsInv' /\ KeepsHandles
<1> USE DEF FsInv
<1>1. ASSUME NEW n \in Names, LookupAlbum(n) PROVE FsInv' /\ KeepsHandles
  <2>1. PICK r \in items : r.type = "album" /\ Continue("album_length", r, n)
    BY <1>1 DEF LookupAlbum, AlbumByName, FirstStored, Albums
  <2> QED
    BY <1>1, <2>1, GoesOn DEF LookupAlbum
<1>2. CASE AlbumLength
  BY <1>2, Pending, RowReply DEF AlbumLength
<1>3. ASSUME NEW n \in Names, LookupMedia(n) PROVE FsInv' /\ KeepsHandles
  <2>1. PICK r \in items : ReplyNode(NodeOf(r))
    BY <1>3 DEF LookupMedia, MediaItemByName, FirstStored, MediaItems
  <2>2. IsRow(r)
    BY DEF CatalogInv
  <2> QED
    BY <1>3, <2>1, <2>2, RowReply DEF LookupMedia
<1>4. ASSUME NEW i, NEW n \in Names, LookupInAlbum(i, n) PROVE FsInv' /\ KeepsHandles
  <2>1. PICK r \in items : r.type = "album" /\ Continue("in_album", r, n)
    BY <1>4 DEF LookupInAlbum, AlbumByInode, ItemByInode
  <2> QED
    BY <1>4, <2>1, GoesOn DEF LookupInAlbum
<1>5. CASE FindInAlbum
  <2>1. MediaItemByNameInAlbum(op.name, op.row.google_id) \subseteq items
    BY DEF MediaItemByNameInAlbum, MediaItemByName, MediaItems
  <2>2. UNCHANGED catalogVars /\ (ReplyError \/ \E r \in items : ReplyNode(NodeOf(r)))
    BY <1>5, <2>1 DEF FindInAlbum
  <2>3. \A r \in items : IsRow(r)
    BY DEF CatalogInv
  <2> QED
    BY <2>2, <2>3, ErrorReply, RowReply
<1>6. ASSUME NEW i, Getattr(i) PROVE FsInv' /\ KeepsHandles
  <2>1. PICK r \in items : IF r.type = "album" THEN Continue("album_length", r, r.name)
                                              ELSE ReplyNode(NodeOf(r))
    BY <1>6 DEF Getattr, ItemByInode
  <2>2. IsRow(r) /\ r.name \in Names
    BY DEF CatalogInv, IsRow, Item
  <2>3. UNCHANGED catalogVars
    BY <1>6 DEF Getattr
  <2>4. CASE r.type = "album"
    BY <2>1, <2>2, <2>3, <2>4, GoesOn
  <2>5. CASE r.type # "album"
    BY <2>1, <2>2, <2>3, <2>5, RowReply
  <2> QED
    BY <2>4, <2>5
<1> QED
  BY <1>1, <1>2, <1>3, <1>4, <1>5, <1>6 DEF LookupQuery

\* The queries of open and opendir (photofs/mod.rs:179-266, 365-378, 460-494).
LEMMA OpenKeeps ==
  ASSUME FsInv, OpenQuery
  PROVE  FsInv' /\ KeepsHandles
<1>1. IsListing({})
  BY DEF IsListing
<1>2. ASSUME NEW rows \in SUBSET items PROVE IsListing(DedupedEntries(rows))
  BY EntriesAreUnique DEF FsInv, FsTypeOK
<1>3. ASSUME NEW i \in ToldInodes("dir"), OpendirFixed(i) PROVE FsInv' /\ KeepsHandles
  <2> DEFINE rows == IF i = FIXED_INODE_ALBUMS THEN Albums ELSE MediaItems
  <2>1. rows \in SUBSET items
    BY DEF Albums, MediaItems
  <2>2. IsListing(DedupedEntries(rows))
    BY <1>2, <2>1
  <2> QED
    BY <1>3, <2>2, DirectoryReply DEF OpendirFixed
<1>4. ASSUME NEW i \in ToldInodes("dir"), OpendirAlbum(i) PROVE FsInv' /\ KeepsHandles
  <2>1. PICK r \in items : /\ r.type = "album" /\ r.inode = i
                           /\ Continue("entries", r, r.name)
    BY <1>4 DEF OpendirAlbum, AlbumByInode, ItemByInode
  <2>2. r.name \in Names
    BY DEF FsInv, CatalogInv, IsRow, Item
  <2> QED
    BY <1>4, <2>1, <2>2, GoesOn DEF OpendirAlbum
<1>5. CASE AlbumEntries
  <2>1. MayOpen(open_dirs) /\ op.row.inode \in ToldInodes("dir")
    BY <1>5, Pending DEF AlbumEntries
  <2>2. MediaItemsInAlbum(op.row.inode) \in SUBSET items
    BY DEF MediaItemsInAlbum, MediaItems
  <2> QED
    BY <1>2, <1>5, <2>1, <2>2, DirectoryReply DEF AlbumEntries
<1>6. CASE ListingFails
  <2>1. CASE op.pc = "entries" /\ OpenDirectory(op.row.inode, {})
    <3>1. MayOpen(open_dirs) /\ op.row.inode \in ToldInodes("dir")
      BY <2>1, Pending
    <3> QED
      BY <1>1, <1>6, <2>1, <3>1, DirectoryReply DEF ListingFails
  <2>2. ASSUME MayOpen(open_dirs), NEW i \in ToldInodes("dir"), OpenDirectory(i, {})
        PROVE  FsInv' /\ KeepsHandles
    BY <1>1, <1>6, <2>2, DirectoryReply DEF ListingFails
  <2> QED
    BY <1>6, <2>1, <2>2 DEF ListingFails
<1>7. CASE QueryFails
  BY <1>7, ErrorReply DEF QueryFails
<1>8. ASSUME NEW i, Open(i) PROVE FsInv' /\ KeepsHandles
  <2>1. PICK r \in items : r.type = "media_item" /\ Continue("fetch", r, r.name)
    BY <1>8 DEF Open, MediaItemByInode, ItemByInode
  <2>2. r.name \in Names
    BY DEF FsInv, CatalogInv, IsRow, Item
  <2> QED
    BY <1>8, <2>1, <2>2, GoesOn DEF Open
<1> QED
  BY <1>3, <1>4, <1>5, <1>6, <1>7, <1>8 DEF OpenQuery

\* The calls of the remote library in open (photofs/mod.rs:378-406).
LEMMA FetchKeeps ==
  ASSUME FsInv, FetchStep
  PROVE  FsInv' /\ KeepsHandles
<1>1. CASE Fetch
  <2>1. IsRow(op.row) /\ MayOpen(open_files)
    BY <1>1, Pending DEF Fetch
  <2>2. op.row.inode \in Nat /\ op.row.google_id \in GoogleIds
    BY <2>1 DEF IsRow, Item
  <2>3. \E x \in issued : op.row.inode = x.inode /\ op.row.google_id = x.google_id
    BY <2>1 DEF IsRow
  <2> QED
    BY <1>1, <2>1, <2>2, <2>3, FileReply DEF Fetch
<1>2. CASE FetchFails
  BY <1>2, ErrorReply DEF FetchFails
<1> QED
  BY <1>1, <1>2 DEF FetchStep

\* Every step keeps the invariant, and what open handles have.
LEMMA FsInvStep == FsInv /\ [Next]_vars => FsInv' /\ KeepsHandles
<1> SUFFICES ASSUME FsInv, [Next]_vars PROVE FsInv' /\ KeepsHandles
  OBVIOUS
<1>1. CatalogOK
  BY Parts
<1>2. CASE CacheChanges
  BY <1>1, <1>2, CatalogStep, CacheChanged DEF CacheChanges
<1>3. CASE Remount
  BY <1>3, RemountKeeps
<1>4. CASE LocalStep
  BY <1>4, LocalKeeps
<1>5. CASE LookupQuery
  BY <1>5, LookupKeeps
<1>7. CASE OpenQuery
  BY <1>7, OpenKeeps
<1>8. CASE FetchStep
  BY <1>8, FetchKeeps
<1>6. CASE UNCHANGED vars
  <2>1. UNCHANGED fsVars /\ UNCHANGED catalogVars
    BY <1>6 DEF vars, fsVars, catalogVars
  <2> QED
    BY <1>1, <2>1, CatalogKept, CacheChanged
<1> QED
  BY <1>2, <1>3, <1>4, <1>5, <1>6, <1>7, <1>8 DEF Next

-----------------------------------------------------------------------------
(* The theorems.                                                           *)

\* The invariant holds in every state: what a request has found stays a row that is or
\* was stored, and what the kernel was told a node that is or was
\* (photofs/mod.rs:73-140, 366-430).
THEOREM FsInductive == Spec => []FsInv
BY FsInvInit, FsInvStep, PTL DEF Spec

\* Every variable keeps its type.
THEOREM FsTypeCorrect == Spec => []FsTypeOK
<1>1. FsInv => FsTypeOK
  BY DEF FsInv
<1> QED
  BY <1>1, FsInductive, PTL

\* The item and the kind of an inode never change, with any number of updates between
\* any two requests, or between the two queries of one (photofs/mod.rs:116-118,
\* 329-345).
THEOREM InodeKeepsItsNode == Spec => []InodeMeansOneNode
<1>1. FsInv => InodeMeansOneNode
  <2> SUFFICES ASSUME FsInv, NEW s \in told, NEW t \in told, s.inode = t.inode
               PROVE  s = t
    BY DEF InodeMeansOneNode
  <2> QED
    BY NodesAreUnique DEF FsInv, FsTypeOK, ToldInv
<1> QED
  BY <1>1, FsInductive, PTL

\* An open file has the data of the item that was looked up, with any number of updates
\* between the lookup, the query and the fetch (photofs/mod.rs:366-384).
THEOREM OpenReadsLookedUpItem == Spec => []OpenFileIsLookedUpItem
<1>1. FsInv => OpenFileIsLookedUpItem
  <2> SUFFICES ASSUME FsInv, NEW fh \in DOMAIN open_files, NEW t \in told,
                      t.inode = open_files[fh].inode
               PROVE  t.google_id = open_files[fh].data
    BY DEF OpenFileIsLookedUpItem
  <2>1. t \in FixedNodes \/ \E x \in issued : t = IssuedNode(x)
    BY DEF FsInv, ToldInv
  <2>2. CASE open_files[fh] = [inode |-> FIXED_INODE_HELLO_WORLD, data |-> NoId]
    <3> DEFINE n == FixedNode(FIXED_INODE_HELLO_WORLD)
    <3>1. n \in FixedNodes
      BY DEF FixedNodes
    <3>2. n.inode = t.inode /\ n.google_id = open_files[fh].data
      BY <2>2 DEF FixedNode
    <3> HIDE DEF n
    <3> QED
      BY <2>1, <3>1, <3>2, NodesAreUnique DEF FsInv, FsTypeOK
  <2>3. CASE \E x \in issued : open_files[fh] = [inode |-> x.inode, data |-> x.google_id]
    <3>1. PICK x \in issued : open_files[fh] = [inode |-> x.inode, data |-> x.google_id]
      BY <2>3
    <3> DEFINE n == IssuedNode(x)
    <3>2. n.inode = t.inode /\ n.google_id = open_files[fh].data
      BY <3>1 DEF IssuedNode
    <3>3. \E y \in issued : n = IssuedNode(y)
      BY <3>1
    <3> HIDE DEF n
    <3> QED
      BY <2>1, <3>2, <3>3, NodesAreUnique DEF FsInv, FsTypeOK
  <2> QED
    BY <2>2, <2>3 DEF FsInv, FilesInv
<1> QED
  BY <1>1, FsInductive, PTL

\* A directory that is open lists a name once, and is one the kernel was told of
\* (photofs/mod.rs:236-255).
THEOREM ListingsHaveNamesOnce == Spec => []DirListsNamesOnce
<1>1. FsInv => DirListsNamesOnce
  BY DEF FsInv
<1> QED
  BY <1>1, FsInductive, PTL

\* No handle reaches the number of handles that may be open, in whichever order they
\* are closed (utils.rs:47-59).
THEOREM HandlesAreLow == Spec => []HandlesStayLow
<1>1. FsInv => HandlesStayLow
  BY DEF FsInv
<1> QED
  BY <1>1, FsInductive, PTL

\* No step gives an open handle other contents: a new one is never one in use
\* (utils.rs:47-59).
THEOREM OpenHandlesKeepEntries == Spec => HandlesKeepEntries
<1>1. FsInv /\ [Next]_vars =>
        [/\ \A fh \in DOMAIN open_files \cap DOMAIN open_files' :
              open_files'[fh] = open_files[fh]
         /\ \A fh \in DOMAIN open_dirs \cap DOMAIN open_dirs' :
              open_dirs'[fh] = open_dirs[fh]]_vars
  BY FsInvStep DEF KeepsHandles
<1> QED
  BY <1>1, FsInductive, PTL DEF Spec, HandlesKeepEntries

-----------------------------------------------------------------------------
(* What the listing of an album is made of.                                *)

\* What a step may open as an album's directory: the property of a step, without its box.
OpensMembers ==
  \A fh \in DOMAIN open_dirs' \ DOMAIN open_dirs, x \in issued :
    x.inode = open_dirs'[fh].inode =>
      \/ open_dirs'[fh].entries = DedupedEntries(MembersOf(x.google_id))
      \/ /\ open_dirs'[fh].entries = {}
         /\ ItemByInode(x.inode) = {} \/ "sql" \in Faults

\* The new handle is the one that is opened.
LEMMA NewDirectory ==
  ASSUME NEW i, NEW entries, OpenDirectory(i, entries),
         NEW fh \in DOMAIN open_dirs' \ DOMAIN open_dirs
  PROVE  open_dirs'[fh].inode = i /\ open_dirs'[fh].entries = entries
<1> DEFINE new_fh == FreeHandle(open_dirs)
<1>1. open_dirs' = WithHandle(open_dirs, new_fh, [inode |-> i, entries |-> entries])
  BY DEF OpenDirectory
<1> HIDE DEF new_fh
<1>2. fh = new_fh
  BY <1>1 DEF WithHandle
<1> QED
  BY <1>1, <1>2 DEF WithHandle

\* The directories that are no albums have inodes that are never issued.
LEMMA FixedIsNoAlbum ==
  ASSUME FsInv, NEW x \in issued
  PROVE  x.inode \notin FixedDirs
BY FixedInodesAssumption
DEF FsInv, CatalogInv, IssuedInodes, FixedDirs, FIXED_INODE_ROOT, FIXED_INODE_ALBUMS,
    FIXED_INODE_MEDIA, FIXED_INODE_HELLO_WORLD

\* The items of the album that is stored under an inode are those of the id the inode
\* was issued for; if none is stored there are none (db/mod.rs:222-243).
LEMMA MembersByInode ==
  ASSUME FsInv, NEW x \in issued
  PROVE  MediaItemsInAlbum(x.inode) =
           IF ItemByInode(x.inode) = {} THEN {} ELSE MembersOf(x.google_id)
<1>1. \A a \in ItemByInode(x.inode) : a.google_id = x.google_id
  <2> SUFFICES ASSUME NEW a \in ItemByInode(x.inode) PROVE a.google_id = x.google_id
    OBVIOUS
  <2> DEFINE y == [inode |-> a.inode, google_id |-> a.google_id]
  <2>1. y \in issued /\ y.inode = x.inode
    BY DEF ItemByInode, FsInv, CatalogInv, IsRow
  <2>2. y = x
    BY <2>1 DEF FsInv, CatalogInv
  <2> QED
    BY <2>2
<1>2. CASE ItemByInode(x.inode) = {}
  BY <1>2 DEF MediaItemsInAlbum
<1>3. CASE ItemByInode(x.inode) # {}
  BY <1>1, <1>3 DEF MediaItemsInAlbum, MembersOf
<1> QED
  BY <1>2, <1>3

\* Every step that opens a directory opens an album on its items, or empty.
LEMMA StepOpensMembers ==
  ASSUME FsInv, Next
  PROVE  OpensMembers
<1>1. CASE DOMAIN open_dirs' \subseteq DOMAIN open_dirs
  BY <1>1 DEF OpensMembers
<1>2. ASSUME NEW i \in FixedDirs, NEW entries, OpenDirectory(i, entries) PROVE OpensMembers
  BY <1>2, NewDirectory, FixedIsNoAlbum DEF OpensMembers
<1>3. CASE AlbumEntries
  <2> SUFFICES ASSUME NEW fh \in DOMAIN open_dirs' \ DOMAIN open_dirs, NEW x \in issued,
                      x.inode = open_dirs'[fh].inode
               PROVE  \/ open_dirs'[fh].entries = DedupedEntries(MembersOf(x.google_id))
                      \/ open_dirs'[fh].entries = {} /\ ItemByInode(x.inode) = {}
    BY DEF OpensMembers
  <2>1. /\ x.inode = op.row.inode
        /\ open_dirs'[fh].entries = DedupedEntries(MediaItemsInAlbum(op.row.inode))
    BY <1>3, NewDirectory DEF AlbumEntries
  <2>2. DedupedEntries({}) = {}
    BY DEF DedupedEntries
  <2>3. CASE ItemByInode(x.inode) = {}
    BY <2>1, <2>2, <2>3, MembersByInode
  <2>4. CASE ItemByInode(x.inode) # {}
    BY <2>1, <2>4, MembersByInode
  <2> QED
    BY <2>3, <2>4
<1>4. CASE ListingFails
  <2>1. CASE op.pc = "entries" /\ OpenDirectory(op.row.inode, {})
    BY <1>4, <2>1, NewDirectory DEF ListingFails, OpensMembers
  <2> QED
    BY <1>2, <1>4, <2>1 DEF ListingFails, FixedDirs
<1>5. CASE CacheChanges \/ Remount \/ LookupQuery \/ FetchStep
  <2>1. open_dirs' = open_dirs \/ DOMAIN open_dirs' = {}
    BY <1>5
    DEF CacheChanges, fsVars, Remount, NoHandles, FetchStep, Fetch, FetchFails, OpenFile,
        ReplyError, LookupQuery, LookupAlbum, AlbumLength, LookupMedia, LookupInAlbum,
        FindInAlbum, Getattr, Continue, ReplyNode
  <2> QED
    BY <1>1, <2>1
<1>6. CASE LocalStep
  <2>1. CASE OpendirRoot
    BY <1>2, <2>1 DEF OpendirRoot, FixedDirs
  <2>2. ASSUME NEW fh, Releasedir(fh) PROVE OpensMembers
    <3>1. DOMAIN open_dirs' \subseteq DOMAIN open_dirs
      BY <2>2 DEF Releasedir, WithoutHandle, Restrict
    <3> QED
      BY <1>1, <3>1
  <2>3. CASE LookupRoot \/ GetattrFixed \/ OpenHello \/ \E fh \in DOMAIN open_files : Release(fh)
    <3>1. open_dirs' = open_dirs
      BY <2>3 DEF LookupRoot, GetattrFixed, OpenHello, OpenFile, Release, ReplyNode
    <3> QED
      BY <1>1, <3>1
  <2> QED
    BY <1>6, <2>1, <2>2, <2>3 DEF LocalStep
<1>7. CASE OpenQuery
  <2>1. ASSUME NEW i, OpendirFixed(i) PROVE OpensMembers
    BY <1>2, <2>1 DEF OpendirFixed, FixedDirs
  <2>2. ASSUME NEW i, Open(i) \/ OpendirAlbum(i) \/ QueryFails PROVE OpensMembers
    <3>1. open_dirs' = open_dirs
      BY <2>2 DEF Open, OpendirAlbum, QueryFails, Continue, ReplyError
    <3> QED
      BY <1>1, <3>1
  <2> QED
    BY <1>3, <1>4, <1>7, <2>1, <2>2 DEF OpenQuery
<1> QED
  BY <1>5, <1>6, <1>7 DEF Next

\* An album opens on its own items, those of one moment, or empty if its row was replaced
\* or a query failed, whatever happens between the two queries of opendir()
\* (photofs/mod.rs:468-478).
THEOREM AlbumsOpenOnMembers == Spec => OpenedAlbumListsMembers
<1>1. FsInv /\ [Next]_vars =>
        [\A fh \in DOMAIN open_dirs' \ DOMAIN open_dirs, x \in issued :
           x.inode = open_dirs'[fh].inode =>
             \/ open_dirs'[fh].entries = DedupedEntries(MembersOf(x.google_id))
             \/ /\ open_dirs'[fh].entries = {}
                /\ ItemByInode(x.inode) = {} \/ "sql" \in Faults]_vars
  BY StepOpensMembers DEF OpensMembers
<1> QED
  BY <1>1, FsInductive, PTL DEF Spec, OpenedAlbumListsMembers
=============================================================================
