------------------------------- MODULE PhotoDb -------------------------------
(***************************************************************************)
(* The two listing tables of the local cache (src/src/db/mod.rs) and the   *)
(* SQL statements the program runs on them.  Each operator below is one    *)
(* statement: SQLite commits it atomically, and the code runs each under   *)
(* the connection's mutex.                                                 *)
(*                                                                         *)
(*   items     the rows of albums_and_media_item, without the column       *)
(*             last_remote_check, which no part of the program reads, and  *)
(*             with place, the row's place in the order of SQLite's rowids *)
(*   in_album  the rows of media_items_in_album                            *)
(***************************************************************************)
EXTENDS Integers, FiniteSets

CONSTANTS AlbumIds,  \* the google ids the remote library gives to albums
          MediaIds,  \* the google ids it gives to photos and videos
          Names      \* file names and album titles

\* The remote library draws its ids from one space and never gives one id to an
\* album and to a media item.
ASSUME IdAssumption == AlbumIds \cap MediaIds = {}

VARIABLES items, in_album

GoogleIds == AlbumIds \cup MediaIds

MediaTypes == {"album", "media_item"}

Item == [google_id : GoogleIds, type : MediaTypes, name : Names, inode : Nat,
         place : Nat]

Membership == [album : AlbumIds, media : MediaIds]

DbTypeOK ==
  /\ items \subseteq Item
  /\ IsFiniteSet(items)
  /\ in_album \subseteq Membership

-----------------------------------------------------------------------------
(* Statements that only read.                                              *)

Exists(id) == \E r \in items : r.google_id = id

MediaItems == {r \in items : r.type = "media_item"}

Albums == {r \in items : r.type = "album"}

ItemByInode(i) == {r \in items : r.inode = i}

MediaItemByInode(i) == {r \in ItemByInode(i) : r.type = "media_item"}

AlbumByInode(i) == {r \in ItemByInode(i) : r.type = "album"}

\* The index by name holds the rows of one name in the order of their rowids, and
\* query_row takes the first row it is given.
FirstStored(rows) == {r \in rows : \A s \in rows : r.place <= s.place}

AlbumByName(n) == FirstStored({r \in Albums : r.name = n})

\* Filter::NoFilter of media_item_by_name.
MediaItemByName(n) == FirstStored({r \in MediaItems : r.name = n})

\* Filter::ByAlbum of media_item_by_name.  Which of the two joined tables SQLite reads
\* first, and by which index, is its choice: the first row may be any of these.
MediaItemByNameInAlbum(n, album) ==
  {r \in MediaItems : /\ r.name = n
                      /\ [album |-> album, media |-> r.google_id] \in in_album}

\* The album is named by its inode: no row of that inode, no items.
MediaItemsInAlbum(i) ==
  {r \in MediaItems : \E a \in ItemByInode(i) :
                        [album |-> a.google_id, media |-> r.google_id] \in in_album}

-----------------------------------------------------------------------------
(* Statements that write.                                                  *)

\* A row that is stored comes behind all others, for its rowid is chosen above theirs; so
\* does the row that replaces another.  The places of albums and of media items are
\* counted apart: only their order is ever asked for, and by statements on one type.
NextPlace(id, type) ==
  LET places == {r.place : r \in {s \in items : s.type = type /\ s.google_id # id}}
  IN  IF places = {} THEN 1 ELSE (CHOOSE k \in places : \A l \in places : l <= k) + 1

\* INSERT OR REPLACE deletes the row of the same primary key, whose deletion
\* cascades to the memberships that reference it (foreign keys are enforced: the
\* test at db/mod.rs:690 relies on it), and inserts the new row.
UpsertX(id, type, name, inode) ==
  /\ items' = {r \in items : r.google_id # id}
                \cup {[google_id |-> id, type |-> type, name |-> name,
                       inode |-> inode, place |-> NextPlace(id, type)]}
  /\ in_album' = {p \in in_album : p.album # id /\ p.media # id}

\* A wrong variant: the foreign keys are not enforced.
UpsertMediaItemInAlbumUnchecked(album, media) ==
  /\ in_album' = in_album \cup {[album |-> album, media |-> media]}
  /\ UNCHANGED items

\* Without a parent row on both sides the statement fails and changes nothing.
UpsertMediaItemInAlbum(album, media) ==
  /\ in_album' = IF Exists(album) /\ Exists(media)
                 THEN in_album \cup {[album |-> album, media |-> media]}
                 ELSE in_album
  /\ UNCHANGED items
=============================================================================
