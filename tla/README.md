# Photo Oxide: models, checks and proofs

Photo Oxide mounts a Google Photos library as a read-only file system. A local SQLite
cache holds what the library lists; two background updates refresh it; the file system
answers from it and fetches a picture only when it is opened. This directory holds TLA+
models of that program, TLC configurations that check them on small instances, and
proofs, checked by TLAPS, that hold for instances of any size. Paths below are relative
to the repository's `src/`; `X.rs:n` is a line.

## The system

| part | state | operations | modules |
|---|---|---|---|
| local cache, `db/mod.rs` | tables `albums_and_media_item`, `media_items_in_album` | one SQL statement per method, under the mutex of the connection | `PhotoDb`, `Catalog` |
| inode allocation, `db/inode_db.rs` | table `next_inode` | `get_and_update_inode`: UPDATE, then SELECT, under one hold of the mutex | `BackgroundUpdate` |
| background updates, `background_update.rs` | what a run has listed and still has to store | `update` of albums (with their members) and of media items | `BackgroundUpdate` |
| process, `main.rs` | the thread pool, the schedules, its two mutexes | start, ticks of fixed rate, mount, shutdown | `PhotoOxide`, `BackgroundUpdate`, `Locks` |
| remote library, `photolib/mod.rs` | none of its own; a mutex around it | `albums`, `album`, `media_items`, `media_item` | `PhotoLib`, `Listing`, `Locks` |
| file system, `photofs/mod.rs` | the two tables of open handles | `lookup`, `getattr`, `open`, `read`, `release`, `opendir`, `readdir`, `releasedir` | `PhotoFs`, `ReadDir`, `FileRead` |
| open handles, `photofs/utils.rs` | handle -> what was opened | `open`, `get`, `remove` | `OpenFileHandles` |
| FUSE adapter, `rust_filesystem/` | none | hands requests through, maps every error to ENOENT, fills the buffer of readdir | `PhotoFs`, `ReadDir` |
| token storage, `db/token_storage_db.rs`, `photolib/oauth_token_storage.rs` | table `oauth_token_storage` | `set`, `get` | `TokenStorage`, `TokenMap`, `Locks` |

The threads are two of a pool, which run the updates, and one that serves the kernel.
They share the remote library (one mutex, held over all pages of a listing or over a
download) and the connection of the cache (one mutex, held over one statement, or over
the two of an allocation). Nothing is told to the file system when the cache changes, nor
to the kernel, which keeps what it was told of a node for two minutes.

What is hard in it:

- *Interleavings.* Two updates, possibly of one kind when a run is late, store the same
  items through an allocation and an upsert that are separate critical sections. A request
  of the file system makes two queries, or a query and a download, and the cache changes
  in between.
- *Failure.* Each statement and each call can fail; most errors are logged and passed
  over, some end the run, some panic, and a panic under the remote mutex poisons it.
- *Restarts.* The process ends at any statement. Every start adds a row to `next_inode`.
- *Stale names.* The kernel keeps inodes; an upsert replaces a row, inode included, and
  takes the memberships of the row with it.
- *Boundaries.* Cookies of a directory listing that continues; handles that are reused;
  reads at the end of a picture; hashes that are unsigned in the code and signed in SQLite.
- *Waiting.* A listing holds the remote mutex over all its pages, without timeouts, and
  stores tokens meanwhile, under the connection's mutex; the file system has one thread.

`PROJECT.json` lists these as hazards, each at its line, with the properties about it. One has
no property: an album whose members cannot be fetched after its upsert stays empty. No part
of the code or its documents promises anything else, and the models permit what it does.

## The modules

`PhotoDb` has the two listing tables as variables and one operator per SQL statement. A
row is a record of the columns; the column `last_remote_check` is left out, since no part
of the program reads it. `INSERT OR REPLACE` is modelled by what SQLite does: the old row
is deleted, its memberships go by the cascade, and the new row comes in. The column `place`
is the row's place in the order in which rows were stored, SQLite's rowid: a replaced row
gets a new one, after all others. It matters to the queries by name: they go through the
index on the name, in that order, and take the first row (`FirstStored`). A listing is
ordered by id instead. The lookup of a name within an album is a join, whose order is the
planner's; there any row of the name may be returned. Places are counted per type, which
is all that queries with a fixed type can see.

`Catalog` (extends `PhotoDb`) is the abstract specification of the cache: an upsert stores
a row under an inode that no row ever had, in one step; a membership joins two stored
rows. It says nothing of threads, locks, counters or failures. The history variable
`issued` remembers every inode that was ever stored.

`BackgroundUpdate` (extends `PhotoDb`) is the implementation. `run[w]` is what thread `w`
is executing: the program counter `pc`, the kind of the update, and its local variables.
A step is what the thread does under one hold of one mutex. `UpdateInode` takes
`db_lock`, `SelectInode` releases it: these are the two statements of
`get_and_update_inode`, and all other statements need the lock only for their own step.
`LockRemote` ... `FetchList`/`FetchAlbum`/`FetchFails`/`FetchPanics` hold `remote_lock` over
a call. Each `...Fails` action is an error path of the code, and goes where the code goes
from there. `Exit` may come at any moment: a kill, or the end of `main`, which stops the
schedules but joins no thread. What is in the database stays, the rest is gone.

`PhotoFs` (extends `Catalog` and `OpenFileHandles`) has the handlers. The kernel sends one
request after the other, to one thread; `op` is the request that stands between two
queries, and `CacheChanges`, any step of the `Catalog`, may come there. `told` is what the
kernel was told: it asks only for inodes it knows, and keeps them for ever here, longer
than the TTL would. `Remount` is the end of the process and its next start, after which
the kernel knows the root only and holds no handle. A request that fails at its first query
changes nothing and is not a step of its own.

`PhotoOxide` (extends `BackgroundUpdate`, instance `FS` of `PhotoFs`) is the process: the
threads of the updates and the one of the file system over the same tables. `Serve` is a
step of a handler while the process runs: a query waits for `db_lock`, which an allocation
keeps over its two statements (`Query`), and a download for `remote_lock` (`Download`).
`ProcessEnds` is `Exit` of the updates and `Remount` of the file system at once; a panic of
`open()` on the poisoned mutex is one such end. A query and a download are one step each,
since nothing of what they read is changed by others while they hold their mutex.

`OpenFileHandles` is the handle table as a function, with the operators that open and
remove. `ReadDir` is a listing that is read in several answers: the kernel calls with
the cookie of the last entry it got, the handler skips, the adapter stops at a full
buffer, which here is any number of entries.

`FileRead` (extends `OpenFileHandles`) has `open`, `read` and `release` of pictures that the
library edits meanwhile. A picture is its version and its length; an answer is a set of
(version, place). What the handler does is `ReadResponse`; the rest is the kernel, which
asks for direct I/O from the offset its process has got to. `open` is one step: what can
come between its query and its download is in `PhotoFs`, who waits for whom in `Locks`.

`Listing` is what a listing of the remote library promises: one answer, which has all that
was in the library for the whole call and nothing that never was, or no listing at all.
`PhotoLib` is the loop over pages that the three listings of the code share: `NextPage`,
`LastPage`, `PagePanics` and `RequestFails` are its rounds, `Change` is any other client of the
library. A page without items has an empty list, and the loop goes on, or no list: then
`albums` and `album` panic, and `media_items` goes on. An item without an id or a name is a
panic in all three. Of the service it assumes that a token stands for a place in
an order of the listing and that the token of a page is a later place than the one that
was sent; the code cannot know, and with a service that repeats a token it would loop.

`TokenStorage` is the table of tokens with the two methods on it, `AsI64` included.
`TokenMap` is what it promises: a map from hashes to tokens, in which only a newer token
follows a token.

`Locks` (extends `TokenStorage`) has the threads and the two mutexes. `th[t]` is what a
thread is doing: which mutex or answer it waits for, its job, how much is still to come,
and the token of its call. What is listed or stored is left out; a run is any number of
requests and statements in an order the code allows. The authenticator is a library,
modelled from its use: with a request it gets the token of the scope (`GetToken`), and if
there is none or it has expired, asks for a new one and stores it (`Refresh`, `SetToken`)
or is refused and stores none (`RefreshRefused`), and a failing storage fails the request.
A panic under the remote mutex poisons it (`ListingPanics`): updates then return
(`LockPoisoned`), `open()` ends the process (`OpenPanics`). `Unmount`, `StopTask`, `NoteStop` and
`EndMain` are the end of `main`, which waits for the schedules and for no run.

| module | stands on | checked by |
|---|---|---|
| `PhotoDb` | | through `Catalog`, `BackgroundUpdate` |
| `Catalog` | `PhotoDb` | through `PhotoFs`; implemented by `BackgroundUpdate` |
| `BackgroundUpdate` | `PhotoDb`, instance of `Catalog` | itself, `BackgroundUpdateProofs` |
| `OpenFileHandles` | | through `PhotoFs`, `TableProofs` |
| `PhotoFs` | `Catalog`, `OpenFileHandles` | `MCPhotoFs`, `PhotoFsProofs` |
| `PhotoOxide` | `BackgroundUpdate`, instance of `PhotoFs` with its theorems (`PhotoFsProofs`) | `MCPhotoOxide`, `PhotoOxideProofs` |
| `ReadDir` | | itself, `ReadDirProofs` |
| `FileRead` | `OpenFileHandles` | itself, `FileReadProofs` |
| `PhotoLib` | instance of `Listing` | itself, `PhotoLibProofs` |
| `TokenStorage` | | through `Locks`, `LocksProofs` |
| `Locks` | `TokenStorage`, instance of `TokenMap` | itself, `LocksProofs` |

The chain of reasoning: `BackgroundUpdate` implements `Catalog`, and `PhotoFs` is checked and
proved over any behaviour of `Catalog`. `PhotoOxide` puts the two together, and is proved to
behave as `BackgroundUpdate` and as `PhotoFs` at once, so that what holds of either holds of
the process, for instances of any size; its run checks that on a small product of both. A call
of the remote library is one step in these modules, with any set of items as its
answer, which is weaker than what `PhotoLib` is shown to give (`Listing`). `Locks` justifies that
the call is one step for the others: nobody else is in the library meanwhile.

## The runs

| run | question | bounds |
|---|---|---|
| `background_update` | Are inodes unique and never reused, do memberships keep their rows, is `Catalog` implemented, does every update run end? | 1 album, 2 media items, 2 threads, 3 update runs, 2 starts, all faults |
| `photo_fs` | Does what the kernel was told stay true, do handles keep what was opened, does an album that is opened list members of its own? | 1 album, 2 media items, 3 upserts, 2 open files, 2 open directories, errors of the remote library and of SQL |
| `photo_oxide` | Is the process, with its threads over one cache, the file system over `Catalog`? Does the kernel know an inode that is not stored yet? | 1 album, 1 media item, 2 threads, 2 update runs, 2 starts, 1 open file and directory, all faults |
| `read_dir` | What is lost of a listing that takes several answers? | listings of 1 to 6 entries, answers of 1 to 3, 2 rewinds |
| `photo_lib` | Does a listing by pages have what it should, and does it end? | 5 items, pages of up to 2, any number of changes and calls |
| `locks` | Who waits for whom, with which token does a request go out, does the process end? | 2 pool threads and main's, 3 runs or requests, 1 more request or statement in each, 2 scopes of 4 hashes, 2 tokens |
| `file_read` | Is what is read what was opened? | 2 processes, 2 pictures of up to 3 bytes, 1 edit |
| `inode_kept` (violated) | Does an update keep the inode? The tests say it should: "TODO: should be 101" | 1 item of each kind, no faults |
| `update_keeps_memberships` (violated) | Does an update keep the memberships? | 1 item of each kind, no faults |
| `empty_listing` (violated) | Is a library with nothing to list harmless? | 1 item of each kind, only this fault |
| `listed_name` (violated) | Does a listed name resolve to the listed item? | 2 media items of one name |
| `all_listed` (violated) | Does a listing have all the entries? | listings of up to 6 entries |

*Bounds.* `MaxTicks` bounds the update runs, `MaxStarts` the starts of the process,
`MaxInode` the counter (120: never reached by these runs), `MaxOpen` the handles,
`Inodes` in `PhotoFs` the upserts. Three update runs are two that overlap and one more
that finds what they left; two starts are one restart, which is what adds the second row
to `next_inode`. Two media items are enough for a member that is stored and one that is
not, and for two items of one name; a single name makes names collide, which is the
interesting case, and names are never compared between kinds. Three inodes let an item
be stored, replaced, and another be stored beside it. In `photo_oxide` two update runs let a
row be replaced while the kernel knows it and has it open, or the album's row while the media
item is stored; more than that is left to the proofs. Deadlock is checked but for
`read_dir`, where the kernel stops reading; the updates may stop only where `Rest` says
so, with all threads idle, and `locks` only when the process is over. `MaxBegun` and `MaxWork`
bound what begins in `Locks` and how long a run is: three runs are one for every thread, so
that two wait for the third, and one more request or statement lets a run use a token a
second time and come back to a mutex. Of the two tokens one may be stored before the
process starts, the other is a refresh; a third gives a graph twice as large in which the
same properties hold, and the proofs are for any number.
Two of the four hashes are used, one on each side of the sign. Three bytes, and requests of
one to three, put a read before, at and across the end, and `Seek` beyond it. Five items on
pages of two make listings of up to five rounds, pages without items included.

*Symmetry.* The threads of the pool are interchangeable, which `photo_oxide` uses; the runs
with liveness properties do not. In `photo_fs` the action constraint `InodesInOrder` has new inodes issued in
increasing order: the file system compares them for equality only.

*Fairness.* Each thread of the updates is weakly fair (`WF_vars(Step(w))`): the operating
system runs it and a remote call returns, with an answer or an error. The two mutexes
need no more than that with two threads, since the bounded number of runs means a lock
that is waited for is free in the end and stays so until it is taken. No fairness is
assumed of `Start`, `Exit` or the schedules. Calls have no timeout in the code, so
that a remote call returns is an assumption about the network, not a fact of the code.
In `PhotoLib` a request is answered (`WF_vars(Round)`); nobody has to begin a call or to change
the library. In `Locks` the threads of the pool and main's are weakly fair, services answer,
and a stopped schedule ticks once more (`WF_vars(Shutdown)`): in `scheduled_executor` a task
notes its stop when its next tick comes, up to two days later. `ShutdownEnds` is about the
schedules and their notes only: the end of `main` takes no mutex and waits for no run. Mutexes of the standard
library are not fair among those who wait; weak fairness is enough because the runs that
compete are finitely many.

Every property of a passing run has a mutant in `PROJECT.json`: a wrong variant of an
operation, beside the operation in its module, that makes TLC find the property violated.

## What was found

- `upsert_media_item` and `upsert_album` always allocate an inode (`db/mod.rs:355`,
  `:371`). The tests know: "TODO: should be 101". Open directories and cached nodes lose
  their items with each refresh. That the old inode is then never *another* item is
  `InodesNeverReused`, which does hold.
- The replacement of a row takes its memberships along (`db/mod.rs:433`, `:125`). A
  picture that a media update refreshes leaves its albums until the next album update;
  an album is empty from its upsert until its members are stored again, and stays so if
  the fetch of its members fails.
- `albums()` and `album()` panic on an answer without a list (`photolib/mod.rs:134`,
  `:169`) and poison the mutex of the remote library.
- A listed name may resolve to another item than the one listed: of the items of a name the
  listing shows the one of the lowest id (`photofs/mod.rs:245`, over `ORDER BY google_id`), the
  lookup takes the one stored first (`db/mod.rs:277`). They differ when the item of the higher
  id was stored first, or the other one was refreshed since.
- Each call that continues a listing loses one entry (`photofs/mod.rs:518`).

## What is proved

`BackgroundUpdateProofs`, for any set of threads, items, names and faults and all bounds:

- `TypeCorrect`, `Inductive`, and from it `KeysAreUnique` (no two rows share an inode or an
  id), `InodesUnique` (no inode is ever given to two items, over restarts), `MembershipsRefer`,
  `CheckHolds` (what `exists()` found is there when the membership is inserted), and the
  action property `MembershipLoss`.
- `Refinement`: the updates implement `Catalog`.
- `RunsComeNearer`: every step of a run takes it nearer to its end (`RunsShrink`), in the
  lexical order of what is listed, of the items to store, of the stage of the item, and of
  its members. `NoRunIsEndless`: with finitely many items that order is well-founded, so
  that a run takes finitely many steps, whatever fails. This is the part of `UpdateRunsEnd`
  that a proof can reach; that a waiting run gets its mutex is the other.

The invariant is `IInv` of `BackgroundUpdate`. That no two rows share an inode is not
inductive: one has to know that a thread that *holds* an inode holds a new one (`HeldInv`),
that whatever was issued or is held is at most the first row of `next_inode`, and less
than it while a thread is between UPDATE and SELECT (`CounterInv`), and that only a thread
there holds `db_lock` (`LockInv`), so that at most one is. A restart appends a row of 100
and leaves the first one alone, which is why the count does not start again. The proof
has a lemma per part and a case per action. The refinement needs `InodesNeverReused` and
`HeldInv` for the upsert (the inode it stores is new) and `CheckedMemberStays` and
`RowsInv` for the membership; every other action leaves the rows alone.

`PhotoFsProofs`, for any items, names and inodes and any number of open handles:

- `FsTypeCorrect`, `FsInductive`, and from it `InodeKeepsItsNode`,
  `OpenReadsLookedUpItem`, `ListingsHaveNamesOnce` and `HandlesAreLow`, which is a part of the
  invariant of the run;
- the action properties `OpenHandlesKeepEntries` and `AlbumsOpenOnMembers`: a directory handle
  of an album lists, when it is given out, members that the album has at that moment, or,
  when the album was replaced since the first query, nothing; never those of another album.

The invariant is `FsInv` of `PhotoFs`. That the kernel was told one thing of an inode says
nothing of what it will be told next: one has to know that an inode was issued for one
id only (`CatalogInv`), that the kernel knows only fixed nodes and nodes of rows that are
stored or were (`ToldInv`), that a request between two steps carries such a row, of the
kind it asked for, and has room for its handle (`OpInv`), and that an open file joins an
inode to the id it was issued for (`FilesInv`), and that an open directory lists rows that
are stored or were (`EntriesInv`). The rows may be gone by then: all parts
speak of `issued`, which only grows. The proof has a lemma for what keeps each part, one
for each way a step ends (a node, an error, a handle, another query), and a case per
action. `TableProofs` has the facts on numbers and finite sets: the place of a new row is after
all others (`PlaceIsLast`, for which the type invariant says that the table is finite), and
the handle: the loop of `open()` ends at an unused number, no larger than the number of
handles in use (`FreeHandleIsFree`, by the pigeonhole principle).

`PhotoOxideProofs`, for any threads, items, names, faults and bounds:

- `UpdatesUndisturbed`: the process is a behaviour of `BackgroundUpdate`. The file system
  writes nothing to the cache and no mutex stays with it (`ServingOnlyReads`), so a request is
  a stuttering step. All theorems of `BackgroundUpdateProofs` hold of the process.
- `MountRefines`: it is a behaviour of `PhotoFs`. A step of the updates is a step of `Catalog`
  or a stutter, which needs their invariant `IInv`, an end of the process is a `Remount`, and
  the assumptions of `PhotoFs` follow from those of the updates (`ConstantsFit`). By this,
  `ProcessKeepsNodes`, `ProcessOpensLookedUpItem`, `ProcessListsNamesOnce`,
  `ProcessKeepsHandles` and `ProcessOpensOnMembers` are the theorems of `PhotoFsProofs` over the
  updates as they are, not over `Catalog`.
- `HeldInodesUnknown`: an inode that a thread holds, and has not stored yet, is known to no
  one. It is a property of neither part: the threads' invariant says that the inode is above
  the fixed ones and was never issued, the mount's that nodes, handles and entries are of
  fixed or issued inodes, and the two meet in `issued`.

`ReadDirProofs`, for listings and buffers of any size and any number of scans:
`EntriesInOrder`, `ExactLoss` (a scan loses one entry with each call after its first,
and no more), `LossIsBounded` and `ScanTypeCorrect`. The invariant relates the cookie to the last entry received and bounds
what was received by the listing.

`FileReadProofs`, for any processes, pictures and lengths: `FileInductive`, and from it
`ReadsAreOfOneVersion` and `EndMeansAll`. The invariant `FileInv` adds that the handles of two
processes differ, each over what its process opened (`HandlesInv`, by `FreeHandleIsFree`), and
that an offset beyond the end comes from a seek (`OffsetInv`). `ResponseIsNextSlice` says what
the handler answers: the next bytes, none only at the end.

`PhotoLibProofs`, for any number of items and any size of page: `PagesInductive`,
`ItemsComeOnce`, and `PagesAreAListing`: the loop implements `Listing`. The invariant
`PagesInv` says what is in the vector between two rounds: the items up to the token, each
once, all that were there since the call began and none that never was.

`LocksProofs`, for any number of threads, scopes, runs and tokens: `SetThenGet`, a token that
is stored under a hash is found under it and no other hash is touched, for hashes of any
width, since `AsI64` is injective; `LocksInductive`, and from it `CallsExclude`, `NoDeadlock`,
`TokenStaysStored` and the refinement `TokenMapRefined`. `NoDeadlock` excludes any circle of
threads that wait for mutexes: who holds the connection's waits for nothing, so all in the
circle would wait for the remote library, also the thread that is in it.
The invariant `LocksInv` joins the place of each thread to the mutexes (`MutexInv`), and says
that a token on its way to the table is newer than all stored ones (`TokenInv`): that is
so because only the thread with the remote mutex asks for tokens, and why a renewed token
never replaces a newer one.

The proofs assume what the modules' `ASSUME`s say: no id is both of an album and of a
media item, `None` is no thread and no id, bounds are numbers, and, for the file system,
rows get inodes above those of the fixed nodes: "inodes under 100 are for special nodes"
(`db/inode_db.rs:20`), which `ConstantsFit` derives for the process. TLC evaluates them in the
passing runs.

## Only model-checked

The liveness properties: `UpdateRunsEnd`, `CallsEnd`, `EverybodyGetsDone` and `ShutdownEnds`.
Liveness, and which actions are enabled, is out of the proof system's reach; of the first
and the third the theorems on variants (`RunsComeNearer`, `NoRunIsEndless`) and on circular
waits (`NoDeadlock`) say why they hold. Every safety property of a passing run is proved.

## Not modelled, and why

- Wording, formatting and logs, `destroy()` among them, which only logs; attributes of
  files (constants); the conversions of errors, all of which reach the kernel as ENOENT.
- The bytes of a picture, beyond their version and place; the text of a token.
- `last_updated_x` and the time of the last check, which nothing reads.
- The interactive consent that the authenticator asks for when it has no token at all is
  one more way to wait for `Refresh`.
- Inodes are u64 in the code and i64 in SQLite; the counter would take longer than any
  disk lasts to reach the difference.

## Plan

`BackgroundUpdate` takes any set of items for the answer of a listing, and `Locks` leaves out
what is listed. That `PhotoLib` gives such answers, and that `Locks` is an abstraction of the
updates' steps, are arguments of this text and could become refinements.
