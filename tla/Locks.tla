-------------------------------- MODULE Locks --------------------------------
(***************************************************************************)
(* The threads of the process over its two mutexes: the pool's, which run  *)
(* the background updates, and the one that serves the kernel, which is    *)
(* main's own (src/src/main.rs:138).  remote is the mutex of the remote    *)
(* library, held for a whole listing or download; db that of the           *)
(* connection, held for a statement.  Each request to the service asks the *)
(* authenticator for a token, which may renew it: the token storage takes  *)
(* db while remote is held.                                                *)
(*                                                                         *)
(* What is listed and stored is left out (see BackgroundUpdate), and so is *)
(* what the kernel is answered (see PhotoFs): here a run of an update is a *)
(* number of requests and statements, in the orders the code allows.       *)
(***************************************************************************)
EXTENDS TokenStorage, FiniteSets

CONSTANTS Workers,   \* the threads of the pool (two in main.rs)
          Fuse,      \* main's thread
          None,      \* no thread
          Scopes,    \* the hashes of the scopes that requests need
          MaxBegun,  \* bound: how many updates and requests of the kernel begin
          MaxWork    \* bound: how many requests and statements follow the first of a run

ASSUME ThreadsAssumption == Fuse \notin Workers /\ None \notin Workers \cup {Fuse}

ASSUME ScopesAssumption == Scopes \subseteq Hashes

ASSUME BoundsAssumption == MaxBegun \in Nat /\ MaxWork \in Nat

Threads == Workers \cup {Fuse}

Tasks == {"Albums", "Media Items"}

VARIABLES
  main,      \* main serves the kernel, stops the tasks, or has ended
  task,      \* task[k] is the state of a schedule
  remote,    \* the thread that holds the mutex of the remote library
  poisoned,  \* a thread panicked while it held remote
  db,        \* the thread that holds the mutex of the connection
  th,        \* th[t] is what thread t is doing
  issued,    \* the newest token the service has issued
  begun      \* how many updates and requests have begun

processVars == <<main, task>>

mutexVars == <<remote, poisoned, db>>

vars == <<oauth_token_storage, main, task, remote, poisoned, db, th, issued, begun>>

-----------------------------------------------------------------------------
(* Where a thread stands:                                                  *)
(*   lock       waits for remote         get, set   wait for db, to do the *)
(*   getting, setting  token statement   refresh    waits for a new token  *)
(*   request    waits for the service    download   waits for the data     *)
(*   statement  waits for db, to do its  executing  other statement        *)
(*   between    has no mutex and waits for none                            *)

InCallPcs == {"get", "getting", "refresh", "set", "setting", "request", "download"}

InStatementPcs == {"getting", "setting", "executing"}

Pcs == InCallPcs \cup InStatementPcs \cup {"idle", "lock", "statement", "between"}

\* "open" is a request of the kernel to open a picture, "query" another one.
Jobs == Tasks \cup {"open", "query", "none"}

Thread == [pc    : Pcs,
           job   : Jobs,
           left  : 0..MaxWork,               \* requests and statements still to come
           scope : Scopes \cup {None},       \* of the token of the call
           token : 0..MaxTokens]             \* the token of the call

Idle == [pc |-> "idle", job |-> "none", left |-> 0, scope |-> None, token |-> NoToken]

Started(pc, job) ==
  [pc |-> pc, job |-> job, left |-> MaxWork, scope |-> None, token |-> NoToken]

TypeOK ==
  /\ oauth_token_storage \subseteq TokenRow
  /\ main \in {"serving", "stopping", "exited", "panicked"}
  /\ task \in [Tasks -> {"none", "scheduled", "stop", "stopped"}]
  /\ remote \in Threads \cup {None}
  /\ poisoned \in BOOLEAN
  /\ db \in Threads \cup {None}
  /\ th \in [Threads -> Thread]
  /\ issued \in 1..MaxTokens
  /\ begun \in 0..MaxBegun

\* The table may have tokens of an earlier process.  The updates are scheduled, or the
\* environment disables them.
Init ==
  /\ \E old \in SUBSET Scopes :
       oauth_token_storage = {[scope_hash |-> AsI64(h), token |-> 1] : h \in old}
  /\ main = "serving"
  /\ \E s \in {"none", "scheduled"} : task = [k \in Tasks |-> s]
  /\ remote = None
  /\ poisoned = FALSE
  /\ db = None
  /\ th = [t \in Threads |-> Idle]
  /\ issued = 1
  /\ begun = 0

-----------------------------------------------------------------------------
(* Work begins.                                                            *)

\* Thread t goes on as r.
Goto(t, r) == th' = [th EXCEPT ![t] = r]

At(t, pc) == [th[t] EXCEPT !.pc = pc]

\* A tick of a schedule gives a run to the pool, whatever main does, until the schedule
\* has noted that it is stopped.
BeginUpdate(w, k) ==
  /\ main \in {"serving", "stopping"}
  /\ task[k] = "scheduled"
  /\ th[w] = Idle
  /\ begun < MaxBegun
  /\ begun' = begun + 1
  /\ Goto(w, Started("lock", k))
  /\ UNCHANGED <<oauth_token_storage, main, task, remote, poisoned, db, issued>>

\* A request of the kernel, with a query first.  (Those that need none end at once.)
BeginRequest(job) ==
  /\ main = "serving"
  /\ th[Fuse] = Idle
  /\ begun < MaxBegun
  /\ begun' = begun + 1
  /\ Goto(Fuse, Started("statement", job))
  /\ UNCHANGED <<oauth_token_storage, main, task, remote, poisoned, db, issued>>

-----------------------------------------------------------------------------
(* The process ends, and its threads with it.                              *)

ProcessOver(how) ==
  /\ main' = how
  /\ th' = [t \in Threads |-> Idle]
  /\ remote' = None
  /\ db' = None
  /\ UNCHANGED <<oauth_token_storage, task, poisoned, issued, begun>>

\* fuse::mount returns, between two requests, with or without an error.
Unmount ==
  /\ main = "serving"
  /\ th[Fuse] = Idle
  /\ main' = "stopping"
  /\ UNCHANGED <<oauth_token_storage, task, mutexVars, th, issued, begun>>

\* A wrong variant: only the first task is stopped.
StopFirstTask(k) ==
  /\ main = "stopping"
  /\ k = "Albums"
  /\ task[k] = "scheduled"
  /\ task' = [task EXCEPT ![k] = "stop"]
  /\ UNCHANGED <<oauth_token_storage, main, mutexVars, th, issued, begun>>

StopTask(k) ==
  /\ main = "stopping"
  /\ task[k] = "scheduled"
  /\ task' = [task EXCEPT ![k] = "stop"]
  /\ UNCHANGED <<oauth_token_storage, main, mutexVars, th, issued, begun>>

\* At its next tick the schedule sees the stop.
NoteStop(k) ==
  /\ main = "stopping"
  /\ task[k] = "stop"
  /\ task' = [task EXCEPT ![k] = "stopped"]
  /\ UNCHANGED <<oauth_token_storage, main, mutexVars, th, issued, begun>>

\* Runs of the pool are not waited for.
EndMain ==
  /\ main = "stopping"
  /\ \A k \in Tasks : task[k] \in {"none", "stopped"}
  /\ ProcessOver("exited")

-----------------------------------------------------------------------------
(* The mutex of the remote library.                                        *)

\* A wrong variant: the mutex is one for readers.
LockRemoteShared(t) ==
  /\ th[t].pc = "lock"
  /\ ~poisoned
  /\ remote' = t
  /\ \E h \in Scopes : Goto(t, [th[t] EXCEPT !.pc = "get", !.scope = h])
  /\ UNCHANGED <<oauth_token_storage, main, task, poisoned, db, issued, begun>>

\* The call begins, which asks for a token first.
LockRemote(t) ==
  /\ th[t].pc = "lock"
  /\ remote = None
  /\ ~poisoned
  /\ remote' = t
  /\ \E h \in Scopes : Goto(t, [th[t] EXCEPT !.pc = "get", !.scope = h])
  /\ UNCHANGED <<oauth_token_storage, main, task, poisoned, db, issued, begun>>

\* An update returns the error of a poisoned mutex.
LockPoisoned(w) ==
  /\ th[w].pc = "lock"
  /\ remote = None
  /\ poisoned
  /\ Goto(w, Idle)
  /\ UNCHANGED <<oauth_token_storage, main, task, mutexVars, issued, begun>>

\* open() unwraps it: main's thread panics.
OpenPanics ==
  /\ th[Fuse].pc = "lock"
  /\ remote = None
  /\ poisoned
  /\ ProcessOver("panicked")

\* The call is over, and the mutex is free.
Leave(t, r) ==
  /\ Goto(t, r)
  /\ remote' = None

\* After a call that returned an update goes on, and the file system answers the kernel.
AfterCall(t) ==
  IF t = Fuse THEN Idle
              ELSE [th[t] EXCEPT !.pc = "between", !.scope = None, !.token = NoToken]

-----------------------------------------------------------------------------
(* The mutex of the connection, for one statement.                         *)

Executing(pc) == CASE pc = "get"       -> "getting"
                   [] pc = "set"       -> "setting"
                   [] pc = "statement" -> "executing"

LockDb(t) ==
  /\ th[t].pc \in {"get", "set", "statement"}
  /\ db = None
  /\ db' = t
  /\ Goto(t, At(t, Executing(th[t].pc)))
  /\ UNCHANGED <<oauth_token_storage, main, task, remote, poisoned, issued, begun>>

\* A wrong variant: an open picture's row keeps the mutex.
ExecuteKeepsDb(t) ==
  /\ th[t].pc = "executing"
  /\ IF th[t].job = "open" THEN Goto(t, At(t, "lock")) /\ UNCHANGED db
                           ELSE Goto(t, At(t, "between")) /\ db' = None
  /\ UNCHANGED <<oauth_token_storage, main, task, remote, poisoned, issued, begun>>

\* A statement of an update, or a query.  The row that open() has found needs the remote
\* library next; an error of an update's statement is logged.
Execute(t) ==
  /\ th[t].pc = "executing"
  /\ Goto(t, At(t, IF th[t].job = "open" THEN "lock" ELSE "between"))
  /\ db' = None
  /\ UNCHANGED <<oauth_token_storage, main, task, remote, poisoned, issued, begun>>

\* Nothing more to do for the request, with an error or without a row; or exists() failed
\* and its unwrap() panics, outside of both mutexes.
ExecuteFails(t) ==
  /\ th[t].pc = "executing"
  /\ Goto(t, Idle)
  /\ db' = None
  /\ UNCHANGED <<oauth_token_storage, main, task, remote, poisoned, issued, begun>>

\* The next statement, or the listing of an album; a media update has one listing only.
Continue(t, pc) ==
  /\ th[t].pc = "between"
  /\ th[t].left > 0
  /\ pc = "lock" => th[t].job = "Albums"
  /\ Goto(t, [th[t] EXCEPT !.pc = pc, !.left = @ - 1])
  /\ UNCHANGED <<oauth_token_storage, main, task, mutexVars, issued, begun>>

\* The run ends, or the kernel is answered.
Finish(t) ==
  /\ th[t].pc = "between"
  /\ Goto(t, Idle)
  /\ UNCHANGED <<oauth_token_storage, main, task, mutexVars, issued, begun>>

-----------------------------------------------------------------------------
(* A token for a request, as the authenticator of the service's library    *)
(* gets one from the token storage.                                        *)

\* The stored token is good, or it has expired or there is none.
GetToken(t, expired) ==
  LET token == GetOathToken(th[t].scope)
  IN  /\ th[t].pc = "getting"
      /\ token = NoToken => expired
      /\ Goto(t, [th[t] EXCEPT !.pc = IF expired THEN "refresh" ELSE "request",
                               !.token = token])
      /\ db' = None
      /\ UNCHANGED <<oauth_token_storage, main, task, remote, poisoned, issued, begun>>

\* The service issues a token.
Refresh(t) ==
  /\ th[t].pc = "refresh"
  /\ issued < MaxTokens
  /\ issued' = issued + 1
  /\ Goto(t, [th[t] EXCEPT !.pc = "set", !.token = issued + 1])
  /\ UNCHANGED <<oauth_token_storage, main, task, mutexVars, begun>>

\* It refuses to renew this one, which is then forgotten.
RefreshRefused(t) ==
  /\ th[t].pc = "refresh"
  /\ th[t].token # NoToken
  /\ Goto(t, [th[t] EXCEPT !.pc = "set", !.token = NoToken])
  /\ UNCHANGED <<oauth_token_storage, main, task, mutexVars, issued, begun>>

SetToken(t) ==
  /\ th[t].pc = "setting"
  /\ SetOathToken(th[t].scope, th[t].token)
  /\ IF th[t].token = NoToken THEN Leave(t, Idle)
                              ELSE Goto(t, At(t, "request")) /\ UNCHANGED remote
  /\ db' = None
  /\ UNCHANGED <<main, task, poisoned, issued, begun>>

\* The statement of the storage fails, and the call with it.
TokenStatementFails(t) ==
  /\ th[t].pc \in {"getting", "setting"}
  /\ Leave(t, Idle)
  /\ db' = None
  /\ UNCHANGED <<oauth_token_storage, main, task, poisoned, issued, begun>>

-----------------------------------------------------------------------------
(* The requests of a call.                                                 *)

\* Another page, with a token of its own.
NextPage(t) ==
  /\ th[t].pc = "request"
  /\ t # Fuse
  /\ th[t].left > 0
  /\ Goto(t, [th[t] EXCEPT !.pc = "get", !.left = @ - 1, !.token = NoToken])
  /\ UNCHANGED <<oauth_token_storage, main, task, mutexVars, issued, begun>>

\* The picture's URL is known, and is fetched without a token.
Download ==
  /\ th[Fuse].pc = "request"
  /\ Goto(Fuse, At(Fuse, "download"))
  /\ UNCHANGED <<oauth_token_storage, main, task, mutexVars, issued, begun>>

\* The last page, or the data of the picture.
CallReturns(t) ==
  /\ th[t].pc = IF t = Fuse THEN "download" ELSE "request"
  /\ Leave(t, AfterCall(t))
  /\ UNCHANGED <<oauth_token_storage, main, task, poisoned, db, issued, begun>>

\* A wrong variant: the mutex stays locked when the call returns an error.
CallFailsLocked(t) ==
  /\ th[t].pc \in {"refresh", "request", "download"}
  /\ Goto(t, Idle)
  /\ UNCHANGED <<oauth_token_storage, main, task, mutexVars, issued, begun>>

\* No answer, or one that is an error: of the service or of the one that issues tokens.
CallFails(t) ==
  /\ th[t].pc \in {"refresh", "request", "download"}
  /\ Leave(t, Idle)
  /\ UNCHANGED <<oauth_token_storage, main, task, poisoned, db, issued, begun>>

\* An answer without a list, or an item without an id or a name: the run ends, and the
\* mutex is poisoned.
ListingPanics(w) ==
  /\ th[w].pc = "request"
  /\ Leave(w, Idle)
  /\ poisoned' = TRUE
  /\ UNCHANGED <<oauth_token_storage, main, task, db, issued, begun>>

\* An answer without a URL: main's thread panics.
MediaItemPanics ==
  /\ th[Fuse].pc = "request"
  /\ ProcessOver("panicked")

-----------------------------------------------------------------------------
ThreadStep(t) ==
  \/ LockRemote(t)
  \/ LockDb(t)
  \/ Execute(t)
  \/ ExecuteFails(t)
  \/ \E pc \in {"lock", "statement"} : Continue(t, pc)
  \/ Finish(t)
  \/ \E expired \in BOOLEAN : GetToken(t, expired)
  \/ Refresh(t)
  \/ RefreshRefused(t)
  \/ SetToken(t)
  \/ TokenStatementFails(t)
  \/ NextPage(t)
  \/ CallReturns(t)
  \/ CallFails(t)

WorkerStep(w) == ThreadStep(w) \/ LockPoisoned(w) \/ ListingPanics(w)

FuseStep == ThreadStep(Fuse) \/ OpenPanics \/ Download \/ MediaItemPanics

Shutdown == (\E k \in Tasks : StopTask(k) \/ NoteStop(k)) \/ EndMain

\* Nothing is left when the process is over.
Rest == main \in {"exited", "panicked"} /\ UNCHANGED vars

Next ==
  \/ \E w \in Workers, k \in Tasks : BeginUpdate(w, k)
  \/ \E job \in {"open", "query"} : BeginRequest(job)
  \/ \E w \in Workers : WorkerStep(w)
  \/ FuseStep
  \/ Unmount
  \/ Shutdown
  \/ Rest

Spec == Init /\ [][Next]_vars

\* Threads run, the services answer in the end, and schedules tick.  Nobody has to mount,
\* to ask for a file or to unmount.
FairSpec ==
  /\ Spec
  /\ \A w \in Workers : WF_vars(WorkerStep(w))
  /\ WF_vars(FuseStep)
  /\ WF_vars(Shutdown)

-----------------------------------------------------------------------------
(* Properties.                                                             *)

InCall(t) == th[t].pc \in InCallPcs

\* The remote library and its authenticator are used by one thread at a time, from the
\* first token of a call to its last answer: they are not made for more, and the code says
\* "unsafe impl Sync" of what has them (background_update.rs:30-41, 125-136).
OneCallAtATime == \A t, u \in Threads : InCall(t) /\ InCall(u) => t = u

\* Thread t waits for a mutex that u holds.
WaitsFor(t, u) ==
  \/ th[t].pc = "lock" /\ remote = u
  \/ th[t].pc \in {"get", "set", "statement"} /\ db = u

\* No threads wait for each other in a circle, none for itself: the token storage takes the
\* mutex of the connection inside of the other one, and nobody takes them in the other
\* order, or one that it has (db/token_storage_db.rs:36, 55, 64; photofs/mod.rs:366-384).
NoCircularWait ==
  \A S \in (SUBSET Threads) \ {{}} : \E t \in S : \A u \in S : ~WaitsFor(t, u)

\* A request goes out with the token that is stored for its scope: no other thread renews
\* or forgets a token between its lookup and its use (oauth_token_storage.rs:58-82).
RequestHasStoredToken ==
  \A t \in Threads :
    th[t].pc = "request" => /\ th[t].token # NoToken
                            /\ th[t].token = GetOathToken(th[t].scope)

\* The table is a map from hashes, though they are signed in it, and a thread that renews
\* a token never puts an older one in place of a newer (token_storage_db.rs:34-74).
TokensByScope == INSTANCE TokenMap WITH
                   tokens <- [h \in Hashes |-> GetOathToken(h)]

RefinesTokenMap == TokensByScope!TokenMapSpec

\* Who waits for a mutex gets it, an update ends and the kernel is answered, or the process
\* is over: nobody waits for ever (photofs/mod.rs:379, background_update.rs:53, 73, 151).
EverybodyGetsDone == \A t \in Threads : th[t] # Idle ~> th[t] = Idle

\* Once unmounted the process ends, whatever the pool is doing (main.rs:144-153).
ShutdownEnds == main = "stopping" ~> main = "exited"

-----------------------------------------------------------------------------
(* The invariant that proves the safety properties (see LocksProofs).      *)

\* Mutexes are held just where a thread's place says so.
MutexInv ==
  \A t \in Threads : /\ InCall(t) <=> remote = t
                     /\ th[t].pc \in InStatementPcs <=> db = t

\* A token that is to be stored is newer than all stored ones.
TokenInv ==
  /\ TokenKeysUnique
  /\ \A r \in oauth_token_storage : r.token <= issued
  /\ \A t \in Threads :
       /\ InCall(t) => th[t].scope \in Scopes
       /\ th[t].pc \in {"set", "setting"} /\ th[t].token # NoToken =>
            /\ th[t].token <= issued
            /\ \A r \in oauth_token_storage : r.token < th[t].token

LocksInv == TypeOK /\ MutexInv /\ TokenInv /\ RequestHasStoredToken
=============================================================================
