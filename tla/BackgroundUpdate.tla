-------------------------- MODULE BackgroundUpdate --------------------------
(***************************************************************************)
(* The two background updates (src/src/background_update.rs) that fill the *)
(* local cache from the remote library, on the threads of the pool that    *)
(* main.rs schedules them on, with the inode allocation they share         *)
(* (src/src/db/inode_db.rs) and with the end and the restart of the        *)
(* process, between any two of their steps.                                *)
(*                                                                         *)
(* A thread's step is what it does under one hold of one mutex: a call of  *)
(* the remote library under remote_lock, one SQL statement under db_lock.  *)
(* Only the allocation of an inode runs two statements under one hold, so  *)
(* only it keeps db_lock from one step to the next.                        *)
(***************************************************************************)
EXTENDS PhotoDb, Sequences

CONSTANTS Workers,    \* the threads of the pool (two in main.rs)
          None,       \* no thread, no id
          Faults,     \* what can go wrong: see Fault
          MaxTicks,   \* bound: how many update runs are started
          MaxStarts,  \* bound: how many times the process is started
          MaxInode    \* bound: how far inodes are counted

ASSUME NoneAssumption == None \notin Workers \cup GoogleIds

\* "inodes under 100 are for special nodes like the albums folder".
FirstInode == 100

ASSUME BoundsAssumption == /\ MaxTicks \in Nat
                           /\ MaxStarts \in Nat
                           /\ MaxInode \in Nat /\ MaxInode >= FirstInode

Fault == {"remote",   \* a call of the remote library returns an error
          "empty",    \* it answers without a list, having nothing to list
          "incomplete",  \* it answers with an item that has no id or no name
          "sql"}      \* an SQL statement fails

ASSUME FaultsAssumption == Faults \subseteq Fault

VARIABLES
  next_inode,       \* the rows of the table next_inode, oldest first
  issued,           \* history: which inode was ever stored for which google id
  up,               \* the process runs
  ticks,            \* how many update runs were started
  db_lock,          \* the thread that holds the mutex of the connection
  remote_lock,      \* the thread that holds the mutex of the remote library
  remote_poisoned,  \* a thread panicked while it held remote_lock
  run               \* run[w] is what thread w is executing

dbVars == <<items, in_album, next_inode, issued>>

procVars == <<up, ticks, db_lock, remote_lock, remote_poisoned, run>>

vars == <<items, in_album, next_inode, issued,
          up, ticks, db_lock, remote_lock, remote_poisoned, run>>

-----------------------------------------------------------------------------
(* Types.                                                                  *)

\* Where a run stands:
\*   lock_list   waits for the remote library     list        calls its listing
\*   next        takes the next listed item       select      has done the UPDATE
\*   upsert      holds a new inode                lock_album  waits for the remote
\*   list_album  calls its listing of an album    members     takes the next member
\*   member      has seen the member's row
Pcs == {"idle", "lock_list", "list", "next", "select", "upsert",
        "lock_album", "list_album", "members", "member"}

Run == [pc      : Pcs,
        kind    : MediaTypes \cup {"none"},  \* what is updated
        todo    : SUBSET GoogleIds,          \* the listed items still to store
        cur     : GoogleIds \cup {None},     \* the item being stored
        inode   : Nat,                       \* its new inode
        members : SUBSET MediaIds,           \* the members of cur still to store
        member  : MediaIds \cup {None}]      \* the one being stored

IdleRun == [pc |-> "idle", kind |-> "none", todo |-> {}, cur |-> None,
            inode |-> 0, members |-> {}, member |-> None]

Issue == [inode : Nat, google_id : GoogleIds]

TypeOK ==
  /\ DbTypeOK
  /\ next_inode \in Seq(Nat)
  /\ issued \subseteq Issue
  /\ up \in BOOLEAN
  /\ ticks \in 0..MaxTicks
  /\ db_lock \in Workers \cup {None}
  /\ remote_lock \in Workers \cup {None}
  /\ remote_poisoned \in BOOLEAN
  /\ run \in [Workers -> Run]

Listed(kind) == IF kind = "album" THEN AlbumIds ELSE MediaIds

Init ==
  /\ items = {}
  /\ in_album = {}
  /\ next_inode = <<>>
  /\ issued = {}
  /\ up = FALSE
  /\ ticks = 0
  /\ db_lock = None
  /\ remote_lock = None
  /\ remote_poisoned = FALSE
  /\ run = [w \in Workers |-> IdleRun]

-----------------------------------------------------------------------------
(* The process.                                                            *)

\* A wrong variant: the table is emptied first, and the count starts again.
StartResetsInode ==
  /\ ~up
  /\ Len(next_inode) < MaxStarts
  /\ up' = TRUE
  /\ next_inode' = <<FirstInode>>
  /\ UNCHANGED <<items, in_album, issued,
                 ticks, db_lock, remote_lock, remote_poisoned, run>>

\* Opening the database.  INSERT OR IGNORE has no constraint to ignore a conflict
\* of: every start adds a row to next_inode.
Start ==
  /\ ~up
  /\ Len(next_inode) < MaxStarts
  /\ up' = TRUE
  /\ next_inode' = Append(next_inode, FirstInode)
  /\ UNCHANGED <<items, in_album, issued,
                 ticks, db_lock, remote_lock, remote_poisoned, run>>

\* The process ends, killed or at the end of main, which does not join the threads
\* of the pool.  Every statement has been committed by itself.
Exit ==
  /\ up
  /\ up' = FALSE
  /\ db_lock' = None
  /\ remote_lock' = None
  /\ remote_poisoned' = FALSE
  /\ run' = [w \in Workers |-> IdleRun]
  /\ UNCHANGED <<items, in_album, next_inode, issued, ticks>>

\* The run of thread w goes on as r, or ends.
Goto(w, r) == run' = [run EXCEPT ![w] = r]

EndRun(w) == Goto(w, IdleRun)

\* A tick of either schedule finds a free thread.  The schedules have a fixed rate,
\* so a late run of a kind may overlap with the next one of that kind.
BeginUpdate(w, kind) ==
  /\ up
  /\ ticks < MaxTicks
  /\ run[w].pc = "idle"
  /\ ticks' = ticks + 1
  /\ Goto(w, [run[w] EXCEPT !.pc = "lock_list", !.kind = kind])
  /\ UNCHANGED <<items, in_album, next_inode, issued,
                 up, db_lock, remote_lock, remote_poisoned>>

-----------------------------------------------------------------------------
(* Calls of the remote library.  Its mutex is held from the lock to the    *)
(* last page of the answer.                                                *)

LockRemote(w) ==
  /\ run[w].pc \in {"lock_list", "lock_album"}
  /\ remote_lock = None
  /\ ~remote_poisoned
  /\ remote_lock' = w
  /\ Goto(w, [run[w] EXCEPT !.pc = IF @ = "lock_list" THEN "list" ELSE "list_album"])
  /\ UNCHANGED <<items, in_album, next_inode, issued,
                 up, ticks, db_lock, remote_poisoned>>

\* lock() returns the poison as an error, which ends the run.
LockPoisoned(w) ==
  /\ run[w].pc \in {"lock_list", "lock_album"}
  /\ remote_lock = None
  /\ remote_poisoned
  /\ EndRun(w)
  /\ UNCHANGED <<items, in_album, next_inode, issued,
                 up, ticks, db_lock, remote_lock, remote_poisoned>>

\* albums() or media_items(): some of the library's items, each one once.
FetchList(w, ids) ==
  /\ run[w].pc = "list"
  /\ ids \subseteq Listed(run[w].kind)
  /\ remote_lock' = None
  /\ Goto(w, [run[w] EXCEPT !.pc = "next", !.todo = ids])
  /\ UNCHANGED <<items, in_album, next_inode, issued,
                 up, ticks, db_lock, remote_poisoned>>

\* A wrong variant: the stored members are cleared, to be replaced by the listed
\* ones.
FetchAlbumClearsMembers(w, ids) ==
  /\ run[w].pc = "list_album"
  /\ remote_lock' = None
  /\ in_album' = {p \in in_album : p.album # run[w].cur}
  /\ Goto(w, [run[w] EXCEPT !.pc = "members", !.members = ids])
  /\ UNCHANGED <<items, next_inode, issued, up, ticks, db_lock, remote_poisoned>>

\* album(): the media items in the album that was just stored.
FetchAlbum(w, ids) ==
  /\ run[w].pc = "list_album"
  /\ remote_lock' = None
  /\ Goto(w, [run[w] EXCEPT !.pc = "members", !.members = ids])
  /\ UNCHANGED <<items, in_album, next_inode, issued,
                 up, ticks, db_lock, remote_poisoned>>

\* A wrong variant: the mutex is not released on the way out.
FetchFailsKeepsLock(w) ==
  /\ "remote" \in Faults
  /\ run[w].pc \in {"list", "list_album"}
  /\ EndRun(w)
  /\ UNCHANGED <<items, in_album, next_inode, issued,
                 up, ticks, db_lock, remote_lock, remote_poisoned>>

\* An error of any page ends the run; albums not reached are left as they were.
FetchFails(w) ==
  /\ "remote" \in Faults
  /\ run[w].pc \in {"list", "list_album"}
  /\ remote_lock' = None
  /\ EndRun(w)
  /\ UNCHANGED <<items, in_album, next_inode, issued,
                 up, ticks, db_lock, remote_poisoned>>

\* albums() and album() unwrap the list that an empty answer does not have, while
\* media_items() only warns; all three unwrap the id and the name of an item.  The thread
\* unwinds out of its run and poisons the mutex.
FetchPanics(w) ==
  /\ run[w].pc \in {"list", "list_album"}
  /\ \/ "incomplete" \in Faults
     \/ "empty" \in Faults /\ (run[w].pc = "list" => run[w].kind = "album")
  /\ remote_lock' = None
  /\ remote_poisoned' = TRUE
  /\ EndRun(w)
  /\ UNCHANGED <<items, in_album, next_inode, issued, up, ticks, db_lock>>

-----------------------------------------------------------------------------
(* Storing an item: upsert_album, upsert_media_item.                       *)

\* The run r goes on after the item it was storing is stored, or was given up with an
\* error that is only logged: an album has its members next, a media item has none.
AfterItem(r) ==
  IF r.kind = "album" THEN [r EXCEPT !.pc = "lock_album", !.inode = 0]
                      ELSE [r EXCEPT !.pc = "next", !.cur = None, !.inode = 0]

\* A wrong variant: the statement runs without the mutex.
UpdateInodeUnlocked(w, id) ==
  /\ run[w].pc = "next"
  /\ id \in run[w].todo
  /\ next_inode[1] < MaxInode
  /\ next_inode' = [k \in DOMAIN next_inode |-> next_inode[k] + 1]
  /\ Goto(w, [run[w] EXCEPT !.pc = "select", !.cur = id, !.todo = @ \ {id}])
  /\ UNCHANGED <<items, in_album, issued,
                 up, ticks, db_lock, remote_lock, remote_poisoned>>

\* A wrong variant: the row of the item is deleted, to be inserted anew.
UpdateInodeDeletesRow(w, id) ==
  /\ run[w].pc = "next"
  /\ id \in run[w].todo
  /\ db_lock = None
  /\ db_lock' = w
  /\ next_inode[1] < MaxInode
  /\ next_inode' = [k \in DOMAIN next_inode |-> next_inode[k] + 1]
  /\ items' = {r \in items : r.google_id # id}
  /\ Goto(w, [run[w] EXCEPT !.pc = "select", !.cur = id, !.todo = @ \ {id}])
  /\ UNCHANGED <<in_album, issued, up, ticks, remote_lock, remote_poisoned>>

\* get_and_update_inode, first statement: it has no WHERE and counts up every row.
UpdateInode(w, id) ==
  /\ run[w].pc = "next"
  /\ id \in run[w].todo
  /\ db_lock = None
  /\ db_lock' = w
  /\ next_inode[1] < MaxInode
  /\ next_inode' = [k \in DOMAIN next_inode |-> next_inode[k] + 1]
  /\ Goto(w, [run[w] EXCEPT !.pc = "select", !.cur = id, !.todo = @ \ {id}])
  /\ UNCHANGED <<items, in_album, issued, up, ticks, remote_lock, remote_poisoned>>

UpdateInodeFails(w, id) ==
  /\ "sql" \in Faults
  /\ run[w].pc = "next"
  /\ id \in run[w].todo
  /\ db_lock = None
  /\ Goto(w, AfterItem([run[w] EXCEPT !.cur = id, !.todo = @ \ {id}]))
  /\ UNCHANGED <<items, in_album, next_inode, issued,
                 up, ticks, db_lock, remote_lock, remote_poisoned>>

\* A wrong variant: the row added last is read, or none while rows are added.
SelectLastInode(w) ==
  /\ run[w].pc = "select"
  /\ db_lock' = None
  /\ Goto(w, [run[w] EXCEPT !.pc = "upsert", !.inode = next_inode[Len(next_inode)]])
  /\ UNCHANGED <<items, in_album, next_inode, issued,
                 up, ticks, remote_lock, remote_poisoned>>

\* Second statement, under the same hold of the mutex.  It has no ORDER BY: the scan
\* of a table without an index meets the oldest row first.
SelectInode(w) ==
  /\ run[w].pc = "select"
  /\ db_lock' = None
  /\ Goto(w, [run[w] EXCEPT !.pc = "upsert", !.inode = next_inode[1]])
  /\ UNCHANGED <<items, in_album, next_inode, issued,
                 up, ticks, remote_lock, remote_poisoned>>

\* A wrong variant: the item is put back, to be tried again.
SelectInodeRetries(w) ==
  /\ "sql" \in Faults
  /\ run[w].pc = "select"
  /\ db_lock' = None
  /\ Goto(w, [run[w] EXCEPT !.pc = "next", !.cur = None, !.todo = @ \cup {run[w].cur}])
  /\ UNCHANGED <<items, in_album, next_inode, issued,
                 up, ticks, remote_lock, remote_poisoned>>

SelectInodeFails(w) ==
  /\ "sql" \in Faults
  /\ run[w].pc = "select"
  /\ db_lock' = None
  /\ Goto(w, AfterItem(run[w]))
  /\ UNCHANGED <<items, in_album, next_inode, issued,
                 up, ticks, remote_lock, remote_poisoned>>

\* upsert_x, under a new hold of the mutex.
UpsertItem(w, name) ==
  /\ run[w].pc = "upsert"
  /\ db_lock = None
  /\ UpsertX(run[w].cur, run[w].kind, name, run[w].inode)
  /\ issued' = issued \cup {[inode |-> run[w].inode, google_id |-> run[w].cur]}
  /\ Goto(w, AfterItem(run[w]))
  /\ UNCHANGED <<next_inode, up, ticks, db_lock, remote_lock, remote_poisoned>>

UpsertItemFails(w) ==
  /\ "sql" \in Faults
  /\ run[w].pc = "upsert"
  /\ db_lock = None
  /\ Goto(w, AfterItem(run[w]))
  /\ UNCHANGED <<items, in_album, next_inode, issued,
                 up, ticks, db_lock, remote_lock, remote_poisoned>>

-----------------------------------------------------------------------------
(* Storing the members of an album, one after the other.                   *)

\* exists(): members the cache has no row of are left out.
CheckMember(w, m) ==
  /\ run[w].pc = "members"
  /\ m \in run[w].members
  /\ db_lock = None
  /\ Goto(w, [run[w] EXCEPT
                !.members = @ \ {m},
                !.pc      = IF Exists(m) THEN "member" ELSE "members",
                !.member  = IF Exists(m) THEN m ELSE None])
  /\ UNCHANGED <<items, in_album, next_inode, issued,
                 up, ticks, db_lock, remote_lock, remote_poisoned>>

\* The error of exists() is unwrapped: the thread unwinds out of its run, with no
\* mutex held.
ExistsPanics(w) ==
  /\ "sql" \in Faults
  /\ run[w].pc = "members"
  /\ run[w].members # {}
  /\ db_lock = None
  /\ EndRun(w)
  /\ UNCHANGED <<items, in_album, next_inode, issued,
                 up, ticks, db_lock, remote_lock, remote_poisoned>>

\* A foreign key without its row makes the statement fail, as any other error does:
\* the error is logged and the next member is taken.
InsertMember(w) ==
  /\ run[w].pc = "member"
  /\ db_lock = None
  /\ UpsertMediaItemInAlbum(run[w].cur, run[w].member)
  /\ Goto(w, [run[w] EXCEPT !.pc = "members", !.member = None])
  /\ UNCHANGED <<next_inode, issued,
                 up, ticks, db_lock, remote_lock, remote_poisoned>>

InsertMemberFails(w) ==
  /\ "sql" \in Faults
  /\ run[w].pc = "member"
  /\ db_lock = None
  /\ Goto(w, [run[w] EXCEPT !.pc = "members", !.member = None])
  /\ UNCHANGED <<items, in_album, next_inode, issued,
                 up, ticks, db_lock, remote_lock, remote_poisoned>>

EndAlbum(w) ==
  /\ run[w].pc = "members"
  /\ run[w].members = {}
  /\ Goto(w, [run[w] EXCEPT !.pc = "next", !.cur = None])
  /\ UNCHANGED <<items, in_album, next_inode, issued,
                 up, ticks, db_lock, remote_lock, remote_poisoned>>

EndUpdate(w) ==
  /\ run[w].pc = "next"
  /\ run[w].todo = {}
  /\ EndRun(w)
  /\ UNCHANGED <<items, in_album, next_inode, issued,
                 up, ticks, db_lock, remote_lock, remote_poisoned>>

-----------------------------------------------------------------------------
RemoteStep(w) ==
  \/ LockRemote(w)
  \/ LockPoisoned(w)
  \/ \E ids \in SUBSET GoogleIds : FetchList(w, ids)
  \/ \E ids \in SUBSET MediaIds : FetchAlbum(w, ids)
  \/ FetchFails(w)
  \/ FetchPanics(w)

DbStep(w) ==
  \/ \E id \in GoogleIds : UpdateInode(w, id)
  \/ \E id \in GoogleIds : UpdateInodeFails(w, id)
  \/ SelectInode(w)
  \/ SelectInodeFails(w)
  \/ \E n \in Names : UpsertItem(w, n)
  \/ UpsertItemFails(w)
  \/ \E m \in MediaIds : CheckMember(w, m)
  \/ ExistsPanics(w)
  \/ InsertMember(w)
  \/ InsertMemberFails(w)
  \/ EndAlbum(w)
  \/ EndUpdate(w)

\* One step of the run that thread w executes.
Step(w) == RemoteStep(w) \/ DbStep(w)

\* Nothing runs, and nothing more needs to start.
Rest ==
  /\ \A w \in Workers : run[w].pc = "idle"
  /\ ~up \/ ticks = MaxTicks
  /\ UNCHANGED vars

Next ==
  \/ Start
  \/ Exit
  \/ \E w \in Workers, kind \in MediaTypes : BeginUpdate(w, kind)
  \/ \E w \in Workers : Step(w)
  \/ Rest

Spec == Init /\ [][Next]_vars

\* The operating system goes on running a thread that can go on, and a call of the
\* remote library returns.  Nothing obliges the process to start or a tick to come.
Fairness == \A w \in Workers : WF_vars(Step(w))

FairSpec == Spec /\ Fairness

-----------------------------------------------------------------------------
(* Safety.                                                                 *)

\* The two keys of the listing table: google_id, which the schema declares, and
\* inode, by which the file system finds a row and for which the schema has no more
\* than an index.  That no two rows share an inode rests on get_and_update_inode
\* keeping its lock over both statements (inode_db.rs:43).
KeysUnique ==
  \A r, s \in items : r.google_id = s.google_id \/ r.inode = s.inode => r = s

\* An inode never comes to mean another item, over any number of restarts: the
\* kernel, which caches inodes and is given generation 0 for all of them
\* (photofs/mod.rs:34), could not tell the two apart.  "inodes under 100" are never
\* given to a row (inode_db.rs:20).
InodesNeverReused ==
  /\ \A x, y \in issued : x.inode = y.inode => x = y
  /\ \A x \in issued : x.inode > FirstInode
  /\ \A r \in items : [inode |-> r.inode, google_id |-> r.google_id] \in issued

\* A membership joins an album that is there to a media item that is there, though
\* the rows were stored, possibly in vain, by other statements (db/mod.rs:125-126).
ForeignKeysHold ==
  \A p \in in_album :
    /\ \E r \in Albums : r.google_id = p.album
    /\ \E r \in MediaItems : r.google_id = p.media

\* What exists() has found is still there when its membership is inserted: the check
\* and the insertion are two holds of the mutex (background_update.rs:80 and 83), but
\* rows are only ever replaced within one statement.
CheckedMemberStays ==
  \A w \in Workers : run[w].pc = "member" => Exists(run[w].member)

\* A membership is lost only with a row at one of its ends, when the upsert replaces
\* it: no fetch, failed run or restart takes a picture out of an album by itself.
LostMembershipIsReplacement ==
  [][\A p \in in_album \ in_album' :
       \E r \in items \ items' : r.google_id \in {p.album, p.media}]_vars

\* How many stages lie before a run, until its listing ends, and within an item.
Stage(pc) == CASE pc = "lock_list"             -> 7
               [] pc = "list"                  -> 6
               [] pc = "select"                -> 5
               [] pc = "upsert"                -> 4
               [] pc = "lock_album"            -> 3
               [] pc = "list_album"            -> 2
               [] pc \in {"members", "member"} -> 1
               [] OTHER                        -> 0

Listing(r) == r.pc \in {"lock_list", "list"}

Less(S, T) == S \subseteq T /\ S # T

\* The run s is nearer to its end than r: it has listed, or has fewer items to store, or
\* has got further with this one, or has fewer members to store, or has stored this one.
\* With finitely many items no run comes nearer for ever.
Nearer(s, r) ==
  \/ s.pc = "idle"
  \/ ~Listing(s) /\ (Listing(r) \/ Less(s.todo, r.todo))
  \/ /\ s.todo = r.todo
     /\ \/ Stage(s.pc) < Stage(r.pc)
        \/ /\ Stage(s.pc) = Stage(r.pc)
           /\ \/ Less(s.members, r.members)
              \/ s.members = r.members /\ s.pc = "members" /\ r.pc = "member"

\* Every step of a run takes it nearer to its end: no error path tries an item, a member
\* or a call again, and no listing that comes late adds to what is to be stored
\* (background_update.rs:48-101).
RunsShrink ==
  [][\A w \in Workers :
       run'[w] # run[w] => run[w].pc = "idle" \/ Nearer(run'[w], run[w])]_vars

-----------------------------------------------------------------------------
(* Liveness.                                                               *)

\* Every run of an update ends, whatever the remote library answers and whichever
\* statements fail: no early return and no panic leaves a mutex held, and a poisoned
\* mutex does not block the other thread (background_update.rs:52-58, 70-77).
UpdateRunsEnd == \A w \in Workers : run[w].pc # "idle" ~> run[w].pc = "idle"

-----------------------------------------------------------------------------
(* Refinement.                                                             *)

\* The updates change the cache as the Catalog allows: the two locked statements of
\* an allocation, the separate upsert, the other thread between them, a failure or an
\* exit after any of them add up to one atomic upsert or to nothing.
CatalogOfRows == INSTANCE Catalog WITH Inodes <- (FirstInode + 1)..MaxInode

RefinesCatalog == CatalogOfRows!CatalogSpec

-----------------------------------------------------------------------------
(* What a document or a test says of the program and the program does not  *)
(* do.                                                                     *)

\* An update of an item keeps its inode: the tests of db/mod.rs give item 101 a new
\* title, find that it became 103 and add "TODO: should be 101" (:581, :621).
InodeKeptByUpdate ==
  [][\A r \in items, s \in items' : r.google_id = s.google_id => r.inode = s.inode]_vars

\* An upsert inserts or updates (db/mod.rs:63 "Insert/Update"): it takes no picture
\* out of its album.
UpdateKeepsMemberships == [][in_album \subseteq in_album']_vars

\* A remote library with nothing to list is no failure: media_items() treats an
\* answer without a list as a success (photolib/mod.rs:103).
EmptyListingIsNoFailure == ~remote_poisoned

-----------------------------------------------------------------------------
(* The invariant that proves the safety properties, by induction over the  *)
(* steps (see BackgroundUpdateProofs).                                     *)

\* An allocation holds the mutex, and only an allocation does.
LockInv == \A w \in Workers : run[w].pc = "select" <=> db_lock = w

\* The threads run only while the process does, whose start added a counter row.
ProcessInv ==
  /\ up => next_inode # <<>>
  /\ ~up => \A w \in Workers : run[w].pc = "idle"

\* A run stores items of its own kind; a thread that holds an inode holds an item.
WellFormed(r) ==
  /\ r.todo \subseteq Listed(r.kind)
  /\ r.cur # None => r.cur \in Listed(r.kind)
  /\ IF r.pc = "idle" THEN r = IdleRun ELSE r.kind \in MediaTypes
  /\ r.pc \in {"select", "upsert"} => r.cur # None
  /\ r.pc \in {"lock_album", "list_album", "members", "member"} =>
       r.kind = "album" /\ r.cur # None
  /\ r.pc = "member" => r.member # None

RunInv == \A w \in Workers : WellFormed(run[w])

\* The inodes threads hold are new, and no two threads hold the same.
Holding(w) == run[w].pc = "upsert"

HeldInv ==
  /\ \A w \in Workers : Holding(w) =>
       /\ run[w].inode \in (FirstInode + 1)..next_inode[1]
       /\ \A x \in issued : x.inode # run[w].inode
  /\ \A v, w \in Workers :
       Holding(v) /\ Holding(w) /\ run[v].inode = run[w].inode => v = w

\* The first row of next_inode is an upper bound of the inodes given away, and while
\* a thread is between UPDATE and SELECT, a strict one.
CounterInv ==
  /\ next_inode = <<>> => issued = {}
  /\ next_inode # <<>> => next_inode[1] \in FirstInode..MaxInode
  /\ \A x \in issued : x.inode \in (FirstInode + 1)..next_inode[1]
  /\ db_lock # None =>
       /\ next_inode[1] > FirstInode
       /\ \A x \in issued : x.inode # next_inode[1]
       /\ \A w \in Workers : Holding(w) => run[w].inode # next_inode[1]

\* Rows have the type of their id.
RowsInv == \A r \in items : r.type = "album" <=> r.google_id \in AlbumIds

ControlInv == TypeOK /\ LockInv /\ ProcessInv /\ RunInv

IInv ==
  /\ ControlInv
  /\ CounterInv
  /\ HeldInv
  /\ RowsInv
  /\ KeysUnique
  /\ InodesNeverReused
  /\ ForeignKeysHold
  /\ CheckedMemberStays
=============================================================================
