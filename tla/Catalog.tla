------------------------------- MODULE Catalog -------------------------------
(***************************************************************************)
(* What the local cache promises to the file system that reads it: the     *)
(* listing tables change by two operations only, each of them atomic.  An  *)
(* upsert stores a row under an inode that no row ever had; a membership   *)
(* is added between rows that are both there.  How the program allocates   *)
(* the inodes, with which threads and under which locks, is the matter of  *)
(* BackgroundUpdate, which implements this specification.                  *)
(***************************************************************************)
EXTENDS PhotoDb

CONSTANT Inodes  \* the numbers an upsert may give to a row

ASSUME InodesAssumption == Inodes \subseteq Nat

VARIABLE issued  \* which inode was ever given to which google id

catalogVars == <<items, in_album, issued>>

Issue == [inode : Nat, google_id : GoogleIds]

IssuedInodes == {x.inode : x \in issued}

CatalogTypeOK ==
  /\ DbTypeOK
  /\ issued \subseteq Issue

CatalogInit ==
  /\ items = {}
  /\ in_album = {}
  /\ issued = {}

\* A wrong variant: the inode of a replaced row may be given again.
UpsertReusesInode(id, type, name) ==
  \E i \in Inodes \ {r.inode : r \in items} :
    /\ issued' = issued \cup {[inode |-> i, google_id |-> id]}
    /\ UpsertX(id, type, name, i)

\* upsert_album and upsert_media_item.
Upsert(id, type, name) ==
  \E i \in Inodes \ IssuedInodes :
    /\ issued' = issued \cup {[inode |-> i, google_id |-> id]}
    /\ UpsertX(id, type, name, i)

UpsertAlbum == \E a \in AlbumIds, n \in Names : Upsert(a, "album", n)

UpsertMediaItem == \E m \in MediaIds, n \in Names : Upsert(m, "media_item", n)

\* upsert_media_item_in_album, where it does not fail.
AddToAlbum(a, m) ==
  /\ Exists(a)
  /\ Exists(m)
  /\ UpsertMediaItemInAlbum(a, m)
  /\ UNCHANGED issued

CatalogNext ==
  \/ UpsertAlbum
  \/ UpsertMediaItem
  \/ \E a \in AlbumIds, m \in MediaIds : AddToAlbum(a, m)

CatalogSpec == CatalogInit /\ [][CatalogNext]_catalogVars
=============================================================================
