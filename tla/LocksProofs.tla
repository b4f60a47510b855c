----------------------------- MODULE LocksProofs -----------------------------
(***************************************************************************)
(* Proofs about Locks, for any number of threads, scopes and tokens, and   *)
(* about the table of tokens, for hashes of any width.  The invariant is   *)
(* LocksInv: a thread's place says which mutexes it holds, so one thread   *)
(* at a time is in a call, and nobody touches its token.  What a step      *)
(* leaves behind is said once, by Moves and FitsToken, and shown for each  *)
(* action.                                                                 *)
(***************************************************************************)
EXTENDS Locks, TLAPS

-----------------------------------------------------------------------------
(* The table of tokens.                                                    *)

\* "as i64" loses nothing of an unsigned hash (db/token_storage_db.rs:35, 52).
LEMMA AsI64IsInjective ==
  ASSUME NEW g \in Hashes, NEW h \in Hashes
  PROVE  AsI64(h) \in -Half..(Half - 1) /\ (AsI64(g) = AsI64(h) => g = h)
BY TokenAssumption DEF Hashes, AsI64

LEMMA FirstOfOne == ASSUME NEW row PROVE FirstToken({row}) = row.token
<1> DEFINE r == CHOOSE r \in {row} : TRUE
<1>1. r \in {row}
  OBVIOUS
<1>2. FirstToken({row}) = r.token
  BY DEF FirstToken
<1> QED
  BY <1>1, <1>2

\* What is read is the token of the only row of the hash, if there is one.
LEMMA GetReadsRow ==
  ASSUME oauth_token_storage \subseteq TokenRow, TokenKeysUnique, NEW h \in Hashes
  PROVE  /\ \A r \in oauth_token_storage :
              r.scope_hash = AsI64(h) => GetOathToken(h) = r.token
         /\ GetOathToken(h) # NoToken =>
              \E r \in oauth_token_storage : r.scope_hash = AsI64(h) /\ GetOathToken(h) = r.token
         /\ GetOathToken(h) \in 0..MaxTokens
<1>1. \A r \in oauth_token_storage : r.token \in 1..MaxTokens
  BY DEF TokenRow
<1>2. CASE TokenRows(h) = {}
  BY <1>2, TokenAssumption DEF TokenRows, GetOathToken, FirstToken, NoToken
<1>3. CASE TokenRows(h) # {}
  <2> DEFINE r == CHOOSE r \in TokenRows(h) : TRUE
  <2>1. r \in TokenRows(h)
    BY <1>3
  <2>2. GetOathToken(h) = r.token
    BY <1>3 DEF GetOathToken, FirstToken
  <2> HIDE DEF r
  <2>3. r \in oauth_token_storage /\ r.scope_hash = AsI64(h)
    BY <2>1 DEF TokenRows
  <2>4. \A s \in oauth_token_storage : s.scope_hash = AsI64(h) => s = r
    BY <2>3 DEF TokenKeysUnique
  <2> QED
    BY <1>1, <2>2, <2>3, <2>4, TokenAssumption
<1> QED
  BY <1>2, <1>3

\* The row that SetOathToken leaves under a hash, and that it leaves all others alone.
LEMMA SetWritesRow ==
  ASSUME oauth_token_storage \subseteq TokenRow, TokenKeysUnique,
         NEW h \in Hashes, NEW token \in 0..MaxTokens, SetOathToken(h, token)
  PROVE  /\ oauth_token_storage' \subseteq TokenRow
         /\ TokenKeysUnique'
         /\ TokenRows(h)' = {r \in {[scope_hash |-> AsI64(h), token |-> token]} :
                               token # NoToken}
         /\ \A g \in Hashes \ {h} : TokenRows(g)' = TokenRows(g)
<1> DEFINE new == [scope_hash |-> AsI64(h), token |-> token]
<1>1. oauth_token_storage' = (oauth_token_storage \ TokenRows(h))
                               \cup {r \in {new} : token # NoToken}
  BY DEF SetOathToken
<1>2. new.scope_hash = AsI64(h) /\ new.token = token /\ (token # NoToken => new \in TokenRow)
  BY AsI64IsInjective, TokenAssumption DEF TokenRow, NoToken
<1> HIDE DEF new
<1>3. \A r \in oauth_token_storage' :
        \/ r \in oauth_token_storage /\ r.scope_hash # AsI64(h)
        \/ r = new /\ token # NoToken
  BY <1>1 DEF TokenRows
<1>4. oauth_token_storage' \subseteq TokenRow
  BY <1>2, <1>3
<1>5. TokenKeysUnique'
  BY <1>2, <1>3 DEF TokenKeysUnique
<1>6. TokenRows(h)' = {r \in {new} : token # NoToken}
  BY <1>1, <1>2, <1>3 DEF TokenRows
<1>7. ASSUME NEW g \in Hashes \ {h} PROVE TokenRows(g)' = TokenRows(g)
  <2>1. AsI64(g) # AsI64(h)
    BY AsI64IsInjective
  <2> QED
    BY <1>1, <1>2, <2>1 DEF TokenRows
<1> QED
  BY <1>4, <1>5, <1>6, <1>7 DEF new

\* The table is a map: a token that is set is the one that is read under its hash until
\* the next one is set, and other hashes keep theirs (db/token_storage_db.rs:34-74).
THEOREM SetThenGet ==
  ASSUME oauth_token_storage \subseteq TokenRow, TokenKeysUnique,
         NEW h \in Hashes, NEW token \in 0..MaxTokens, SetOathToken(h, token)
  PROVE  /\ GetOathToken(h)' = token
         /\ \A g \in Hashes \ {h} : GetOathToken(g)' = GetOathToken(g)
<1>1. /\ TokenRows(h)' = {r \in {[scope_hash |-> AsI64(h), token |-> token]} :
                            token # NoToken}
      /\ \A g \in Hashes \ {h} : TokenRows(g)' = TokenRows(g)
  BY SetWritesRow
<1>2. /\ FirstToken({}) = NoToken
      /\ FirstToken({[scope_hash |-> AsI64(h), token |-> token]}) = token
  BY FirstOfOne DEF FirstToken
<1>3. GetOathToken(h)' = FirstToken(TokenRows(h)')
  BY DEF GetOathToken
<1>4. GetOathToken(h)' = token
  <2>1. CASE token = NoToken
    BY <1>1, <1>2, <1>3, <2>1
  <2>2. CASE token # NoToken
    <3>1. TokenRows(h)' = {[scope_hash |-> AsI64(h), token |-> token]}
      BY <1>1, <2>2
    <3> QED
      BY <1>2, <1>3, <3>1
  <2> QED
    BY <2>1, <2>2
<1>5. \A g \in Hashes \ {h} : GetOathToken(g)' = GetOathToken(g)
  BY <1>1 DEF GetOathToken
<1> QED
  BY <1>4, <1>5

-----------------------------------------------------------------------------
(* What a step leaves behind.                                              *)

\* Thread t goes on as r, and holds the mutexes that its new place says.
Moves(t, r) ==
  /\ r \in Thread
  /\ Goto(t, r)
  /\ remote' \in Threads \cup {None} /\ db' \in Threads \cup {None}
  /\ r.pc \in InCallPcs <=> remote' = t
  /\ r.pc \in InStatementPcs <=> db' = t
  /\ \A u \in Threads \ {t} : (remote' = u <=> remote = u) /\ (db' = u <=> db = u)

\* The token r goes on with is what its place says.
FitsToken(r) ==
  /\ r.pc \in InCallPcs => r.scope \in Scopes
  /\ r.pc \in {"set", "setting"} /\ r.token # NoToken =>
       r.token <= issued' /\ \A row \in oauth_token_storage : row.token < r.token
  /\ r.pc = "request" => r.token # NoToken /\ r.token = GetOathToken(r.scope)

LEMMA PcsDiffer ==
  /\ InCallPcs \subseteq Pcs /\ InStatementPcs \subseteq Pcs
  /\ {"idle", "lock", "statement", "between"} \subseteq Pcs
  /\ Idle \in Thread /\ Idle.pc = "idle" /\ NoToken \in 0..MaxTokens
BY TokenAssumption, BoundsAssumption
DEF InCallPcs, InStatementPcs, Pcs, Jobs, Idle, Thread, NoToken

\* The other threads are where they were.
LEMMA MovesThread ==
  ASSUME TypeOK, NEW t \in Threads, NEW r, Moves(t, r)
  PROVE  /\ th' \in [Threads -> Thread]
         /\ th'[t] = r
         /\ \A u \in Threads \ {t} : th'[u] = th[u]
BY DEF TypeOK, Moves, Goto

\* The mutexes stay with the places of the threads.
LEMMA MutexKept ==
  ASSUME LocksInv, NEW t \in Threads, NEW r, Moves(t, r)
  PROVE  MutexInv'
<1>1. th'[t] = r /\ \A u \in Threads \ {t} : th'[u] = th[u]
  BY MovesThread DEF LocksInv
<1> QED
  BY <1>1 DEF LocksInv, MutexInv, InCall, Moves

\* A step that leaves the table alone.
LEMMA TokensKept ==
  ASSUME LocksInv, NEW t \in Threads, NEW r, Moves(t, r), FitsToken(r),
         issued' \in issued..MaxTokens, UNCHANGED oauth_token_storage
  PROVE  TokenInv' /\ RequestHasStoredToken'
<1>1. th' \in [Threads -> Thread] /\ th'[t] = r /\ \A u \in Threads \ {t} : th'[u] = th[u]
  BY MovesThread DEF LocksInv
<1>2. issued \in Nat /\ issued' \in Nat /\ issued <= issued'
  BY TokenAssumption DEF LocksInv, TypeOK
<1>3. \A row \in oauth_token_storage : row.token \in Nat
  BY DEF LocksInv, TypeOK, TokenRow
<1>4. \A u \in Threads : th[u].token \in Nat
  BY DEF LocksInv, TypeOK, Thread
<1>5. TokenKeysUnique'
  BY DEF LocksInv, TokenInv, TokenKeysUnique
<1>6. \A row \in oauth_token_storage' : row.token <= issued'
  BY <1>2, <1>3 DEF LocksInv, TokenInv
<1>7. ASSUME NEW u \in Threads
      PROVE  /\ th'[u].pc \in InCallPcs => th'[u].scope \in Scopes
             /\ th'[u].pc \in {"set", "setting"} /\ th'[u].token # NoToken =>
                  /\ th'[u].token <= issued'
                  /\ \A row \in oauth_token_storage' : row.token < th'[u].token
  <2>1. CASE u = t
    BY <1>1, <2>1 DEF FitsToken
  <2>2. CASE u # t
    BY <1>1, <1>2, <1>4, <2>2 DEF LocksInv, TokenInv, InCall
  <2> QED
    BY <2>1, <2>2
<1>8. TokenInv'
  BY <1>5, <1>6, <1>7 DEF TokenInv, InCall
<1>9. \A h : GetOathToken(h)' = GetOathToken(h)
  BY DEF GetOathToken, TokenRows
<1>10. ASSUME NEW u \in Threads, th'[u].pc = "request"
       PROVE  th'[u].token # NoToken /\ th'[u].token = GetOathToken(th'[u].scope)
  <2>1. CASE u = t
    BY <1>1, <1>10, <2>1 DEF FitsToken
  <2>2. CASE u # t
    BY <1>1, <1>10, <2>2 DEF LocksInv, RequestHasStoredToken
  <2> QED
    BY <2>1, <2>2
<1>11. RequestHasStoredToken'
  BY <1>9, <1>10 DEF RequestHasStoredToken
<1> QED
  BY <1>8, <1>11

\* A thread's step that leaves the process and the table alone.
LEMMA StepKept ==
  ASSUME LocksInv, NEW t \in Threads, NEW r, Moves(t, r), FitsToken(r),
         issued' \in issued..MaxTokens, poisoned' \in BOOLEAN, begun' \in 0..MaxBegun,
         UNCHANGED <<oauth_token_storage, main, task>>
  PROVE  LocksInv'
<1>1. th' \in [Threads -> Thread]
  BY MovesThread DEF LocksInv
<1>2. issued' \in 1..MaxTokens
  BY TokenAssumption DEF LocksInv, TypeOK
<1>3. TypeOK'
  BY <1>1, <1>2 DEF LocksInv, TypeOK, Moves
<1> QED
  BY <1>3, MutexKept, TokensKept DEF LocksInv

\* What the invariant says of one thread.
LEMMA ThreadIs ==
  ASSUME LocksInv, NEW t \in Threads
  PROVE  /\ th[t] \in Thread
         /\ th[t].pc \in Pcs /\ th[t].job \in Jobs /\ th[t].left \in 0..MaxWork
         /\ th[t].scope \in Scopes \cup {None} /\ th[t].token \in 0..MaxTokens
         /\ th[t].pc \in InCallPcs <=> remote = t
         /\ th[t].pc \in InStatementPcs <=> db = t
         /\ th[t].pc \in InCallPcs => th[t].scope \in Scopes
         /\ t # None
BY ThreadsAssumption
DEF LocksInv, TypeOK, MutexInv, TokenInv, Thread, InCall, Threads

\* The numbers and the mutexes.
LEMMA CountersAre ==
  ASSUME LocksInv
  PROVE  /\ issued \in 1..MaxTokens /\ issued \in issued..MaxTokens
         /\ begun \in 0..MaxBegun /\ MaxTokens \in Nat /\ MaxWork \in Nat
         /\ poisoned \in BOOLEAN
         /\ remote \in Threads \cup {None} /\ db \in Threads \cup {None}
         /\ None \notin Threads
BY TokenAssumption, BoundsAssumption, ThreadsAssumption DEF LocksInv, TypeOK, Threads

-----------------------------------------------------------------------------
(* The mutexes.                                                            *)

LEMMA LockRemoteKeeps ==
  ASSUME LocksInv, NEW t \in Threads, LockRemote(t)
  PROVE  LocksInv'
<1>1. PICK h \in Scopes : Goto(t, [th[t] EXCEPT !.pc = "get", !.scope = h])
  BY DEF LockRemote
<1> DEFINE r == [th[t] EXCEPT !.pc = "get", !.scope = h]
<1>2. /\ th[t].pc = "lock" /\ remote = None /\ remote' = t
      /\ UNCHANGED <<oauth_token_storage, main, task, poisoned, db, issued, begun>>
  BY DEF LockRemote
<1>3. r \in Thread /\ r.pc = "get" /\ r.scope = h
  BY ThreadIs DEF Thread, Pcs, InCallPcs
<1> HIDE DEF r
<1>4. Moves(t, r)
  BY <1>1, <1>2, <1>3, ThreadIs, CountersAre DEF Moves, InCallPcs, InStatementPcs, r
<1>5. FitsToken(r)
  BY <1>3 DEF FitsToken
<1> QED
  BY <1>2, <1>4, <1>5, CountersAre, StepKept

LEMMA LockDbKeeps ==
  ASSUME LocksInv, NEW t \in Threads, LockDb(t)
  PROVE  LocksInv'
<1> DEFINE r == At(t, Executing(th[t].pc))
<1>1. /\ th[t].pc \in {"get", "set", "statement"} /\ db = None /\ db' = t /\ Goto(t, r)
      /\ UNCHANGED <<oauth_token_storage, main, task, remote, poisoned, issued, begun>>
  BY DEF LockDb
<1>2. /\ th[t].pc = "get" => Executing(th[t].pc) = "getting"
      /\ th[t].pc = "set" => Executing(th[t].pc) = "setting"
      /\ th[t].pc = "statement" => Executing(th[t].pc) = "executing"
  BY DEF Executing
<1>3. /\ r \in Thread /\ r.pc = Executing(th[t].pc)
      /\ r.scope = th[t].scope /\ r.token = th[t].token
  BY <1>1, <1>2, ThreadIs DEF At, Thread, Pcs, InStatementPcs
<1> HIDE DEF r
<1>4. Moves(t, r)
  BY <1>1, <1>2, <1>3, ThreadIs, CountersAre DEF Moves, InCallPcs, InStatementPcs
<1>5. FitsToken(r)
  BY <1>1, <1>2, <1>3, ThreadIs DEF FitsToken, InCallPcs, LocksInv, TokenInv
<1> QED
  BY <1>1, <1>4, <1>5, CountersAre, StepKept

\* A statement that is no token's, with or without an error.
LEMMA ExecuteKeeps ==
  ASSUME LocksInv, NEW t \in Threads, Execute(t) \/ ExecuteFails(t)
  PROVE  LocksInv'
<1> DEFINE pc == IF th[t].job = "open" THEN "lock" ELSE "between"
<1>1. PICK r \in {At(t, pc), Idle} : Goto(t, r)
  BY DEF Execute, ExecuteFails
<1>2. /\ th[t].pc = "executing" /\ db' = None
      /\ UNCHANGED <<oauth_token_storage, main, task, remote, poisoned, issued, begun>>
  BY DEF Execute, ExecuteFails
<1>3. r \in Thread /\ r.pc \in {"lock", "between", "idle"}
  BY ThreadIs, PcsDiffer DEF At, Thread
<1>4. Moves(t, r)
  BY <1>1, <1>2, <1>3, ThreadIs, CountersAre DEF Moves, InCallPcs, InStatementPcs
<1>5. FitsToken(r)
  BY <1>3 DEF FitsToken, InCallPcs
<1> QED
  BY <1>2, <1>4, <1>5, CountersAre, StepKept

\* Steps without a mutex: the next statement or listing, or the end of the run.
LEMMA BetweenKeeps ==
  ASSUME LocksInv, NEW t \in Threads,
         (\E pc \in {"lock", "statement"} : Continue(t, pc)) \/ Finish(t) \/ LockPoisoned(t)
  PROVE  LocksInv'
<1>1. PICK r : /\ Goto(t, r)
               /\ \/ \E pc \in {"lock", "statement"} :
                        r = [th[t] EXCEPT !.pc = pc, !.left = @ - 1] /\ th[t].left > 0
                  \/ r = Idle
  BY DEF Continue, Finish, LockPoisoned
<1>2. /\ th[t].pc \in {"between", "lock"}
      /\ UNCHANGED <<oauth_token_storage, main, task, remote, poisoned, db, issued, begun>>
  BY DEF Continue, Finish, LockPoisoned, mutexVars
<1>3. r \in Thread /\ r.pc \in {"lock", "statement", "idle"}
  <2>1. CASE r = Idle
    BY <2>1, PcsDiffer
  <2>2. CASE r # Idle
    <3>1. PICK pc \in {"lock", "statement"} :
             r = [th[t] EXCEPT !.pc = pc, !.left = @ - 1] /\ th[t].left > 0
      BY <1>1, <2>2
    <3>2. th[t].left - 1 \in 0..MaxWork
      BY <3>1, ThreadIs, CountersAre
    <3> QED
      BY <3>1, <3>2, ThreadIs, PcsDiffer DEF Thread
  <2> QED
    BY <2>1, <2>2
<1>4. Moves(t, r)
  BY <1>1, <1>2, <1>3, ThreadIs, CountersAre DEF Moves, InCallPcs, InStatementPcs
<1>5. FitsToken(r)
  BY <1>3 DEF FitsToken, InCallPcs
<1> QED
  BY <1>2, <1>4, <1>5, CountersAre, StepKept

-----------------------------------------------------------------------------
(* Tokens.                                                                 *)

LEMMA GetTokenKeeps ==
  ASSUME LocksInv, NEW t \in Threads, NEW expired \in BOOLEAN, GetToken(t, expired)
  PROVE  LocksInv'
<1> DEFINE token == GetOathToken(th[t].scope)
           r == [th[t] EXCEPT !.pc = IF expired THEN "refresh" ELSE "request",
                              !.token = token]
<1>2. th[t].pc = "getting" /\ (token = NoToken => expired)
  BY DEF GetToken
<1>3. th[t].scope \in Scopes /\ th[t].scope \in Hashes
  BY <1>2, ThreadIs, ScopesAssumption DEF InCallPcs
<1>4. token \in 0..MaxTokens
  BY <1>3, GetReadsRow DEF LocksInv, TypeOK, TokenInv
<1>5. /\ r \in Thread /\ r.pc = (IF expired THEN "refresh" ELSE "request")
      /\ r.scope = th[t].scope /\ r.token = token
  BY <1>4, ThreadIs DEF Thread, Pcs, InCallPcs
<1>6. /\ Goto(t, r) /\ db' = None
      /\ UNCHANGED <<oauth_token_storage, main, task, remote, poisoned, issued, begun>>
  BY DEF GetToken
<1> HIDE DEF r
<1>7. Moves(t, r)
  BY <1>2, <1>5, <1>6, ThreadIs, CountersAre DEF Moves, InCallPcs, InStatementPcs
<1>8. FitsToken(r)
  BY <1>2, <1>3, <1>5 DEF FitsToken
<1> QED
  BY <1>6, <1>7, <1>8, CountersAre, StepKept

\* A new token is newer than all that were issued, and so than all that are stored.
LEMMA RefreshKeeps ==
  ASSUME LocksInv, NEW t \in Threads, Refresh(t)
  PROVE  LocksInv'
<1> DEFINE r == [th[t] EXCEPT !.pc = "set", !.token = issued + 1]
<1>1. /\ th[t].pc = "refresh" /\ issued < MaxTokens /\ issued' = issued + 1 /\ Goto(t, r)
      /\ UNCHANGED <<oauth_token_storage, main, task, remote, poisoned, db, begun>>
  BY DEF Refresh, mutexVars
<1>2. issued + 1 \in 0..MaxTokens /\ issued' \in issued..MaxTokens
  BY <1>1, CountersAre
<1>3. r \in Thread /\ r.pc = "set" /\ r.scope = th[t].scope /\ r.token = issued'
  BY <1>1, <1>2, ThreadIs DEF Thread, Pcs, InCallPcs
<1> HIDE DEF r
<1>4. Moves(t, r)
  BY <1>1, <1>3, ThreadIs, CountersAre DEF Moves, InCallPcs, InStatementPcs
<1>5. \A row \in oauth_token_storage : row.token < issued'
  BY <1>1, CountersAre DEF LocksInv, TokenInv, TypeOK, TokenRow
<1>6. FitsToken(r)
  BY <1>1, <1>2, <1>3, <1>5, CountersAre, ThreadIs DEF FitsToken, InCallPcs
<1> QED
  BY <1>1, <1>2, <1>4, <1>6, CountersAre, StepKept

LEMMA RefreshRefusedKeeps ==
  ASSUME LocksInv, NEW t \in Threads, RefreshRefused(t)
  PROVE  LocksInv'
<1> DEFINE r == [th[t] EXCEPT !.pc = "set", !.token = NoToken]
<1>1. /\ th[t].pc = "refresh" /\ Goto(t, r)
      /\ UNCHANGED <<oauth_token_storage, main, task, remote, poisoned, db, issued, begun>>
  BY DEF RefreshRefused, mutexVars
<1>2. r \in Thread /\ r.pc = "set" /\ r.scope = th[t].scope /\ r.token = NoToken
  BY PcsDiffer, ThreadIs DEF Thread, Pcs, InCallPcs
<1> HIDE DEF r
<1>3. Moves(t, r)
  BY <1>1, <1>2, ThreadIs, CountersAre DEF Moves, InCallPcs, InStatementPcs
<1>4. FitsToken(r)
  BY <1>1, <1>2, ThreadIs DEF FitsToken, InCallPcs
<1> QED
  BY <1>1, <1>3, <1>4, CountersAre, StepKept

-----------------------------------------------------------------------------
(* Calls.                                                                  *)

\* A call ends, whichever way: the thread has no mutex any more.
LEMMA LeaveKeeps ==
  ASSUME LocksInv, NEW t \in Threads, NEW r \in Thread, r.pc \in {"idle", "between"},
         Leave(t, r), remote = t, db' = IF db = t THEN None ELSE db, poisoned' \in BOOLEAN,
         UNCHANGED <<oauth_token_storage, main, task, issued, begun>>
  PROVE  LocksInv'
<1>1. Goto(t, r) /\ remote' = None
  BY DEF Leave
<1>2. Moves(t, r)
  BY <1>1, ThreadIs, CountersAre DEF Moves, InCallPcs, InStatementPcs
<1>3. FitsToken(r)
  BY DEF FitsToken, InCallPcs
<1> QED
  BY <1>2, <1>3, CountersAre, StepKept

LEMMA CallEndsKeeps ==
  ASSUME LocksInv, NEW t \in Threads,
         CallReturns(t) \/ CallFails(t) \/ ListingPanics(t) \/ TokenStatementFails(t)
  PROVE  LocksInv'
<1>1. AfterCall(t) \in Thread /\ AfterCall(t).pc \in {"idle", "between"}
  BY ThreadIs, PcsDiffer, CountersAre DEF AfterCall, Thread
<1>2. PICK r \in {Idle, AfterCall(t)} : Leave(t, r)
  BY DEF CallReturns, CallFails, ListingPanics, TokenStatementFails
<1>3. r \in Thread /\ r.pc \in {"idle", "between"}
  BY <1>1, PcsDiffer
<1>4. /\ th[t].pc \in {"refresh", "request", "download", "getting", "setting"}
      /\ db' = IF th[t].pc \in {"getting", "setting"} THEN None ELSE db
      /\ poisoned' \in BOOLEAN
      /\ UNCHANGED <<oauth_token_storage, main, task, issued, begun>>
  BY CountersAre DEF CallReturns, CallFails, ListingPanics, TokenStatementFails
<1>5. remote = t /\ db' = IF db = t THEN None ELSE db
  BY <1>4, ThreadIs, CountersAre DEF InCallPcs, InStatementPcs
<1> QED
  BY <1>2, <1>3, <1>4, <1>5, LeaveKeeps

\* A call goes on: the next page, with a token of its own, or the download.
LEMMA CallGoesOnKeeps ==
  ASSUME LocksInv, NEW t \in Threads, NextPage(t) \/ (t = Fuse /\ Download)
  PROVE  LocksInv'
<1>1. PICK r : /\ Goto(t, r)
               /\ \/ /\ r = [th[t] EXCEPT !.pc = "get", !.left = @ - 1, !.token = NoToken]
                     /\ th[t].left > 0
                  \/ r = At(t, "download")
  BY DEF NextPage, Download
<1>2. /\ th[t].pc = "request"
      /\ UNCHANGED <<oauth_token_storage, main, task, remote, poisoned, db, issued, begun>>
  BY DEF NextPage, Download, mutexVars
<1>3. r \in Thread /\ r.pc \in {"get", "download"} /\ r.scope = th[t].scope
  <2>1. CASE r = At(t, "download")
    BY <2>1, ThreadIs DEF At, Thread, Pcs, InCallPcs
  <2>2. CASE r # At(t, "download")
    <3>1. /\ r = [th[t] EXCEPT !.pc = "get", !.left = th[t].left - 1, !.token = NoToken]
          /\ th[t].left > 0
      BY <1>1, <2>2
    <3>2. th[t].left - 1 \in 0..MaxWork /\ NoToken \in 0..MaxTokens /\ "get" \in Pcs
      BY <3>1, ThreadIs, CountersAre, PcsDiffer DEF Pcs, InCallPcs
    <3> QED
      BY <3>1, <3>2, ThreadIs DEF Thread
  <2> QED
    BY <2>1, <2>2
<1>4. Moves(t, r)
  BY <1>1, <1>2, <1>3, ThreadIs, CountersAre DEF Moves, InCallPcs, InStatementPcs
<1>5. FitsToken(r)
  BY <1>2, <1>3, ThreadIs DEF FitsToken, InCallPcs
<1> QED
  BY <1>2, <1>4, <1>5, CountersAre, StepKept

\* What storing or forgetting a token leaves behind.
LEMMA SetTokenDoes ==
  ASSUME LocksInv, NEW t \in Threads, SetToken(t),
         NEW h, h = th[t].scope, NEW token, token = th[t].token
  PROVE  /\ h \in Hashes /\ h \in Scopes
         /\ token \in 0..MaxTokens
         /\ token # NoToken =>
              token <= issued /\ \A row \in oauth_token_storage : row.token < token
         /\ oauth_token_storage' \subseteq TokenRow /\ TokenKeysUnique'
         /\ \A row \in oauth_token_storage' :
              row \in oauth_token_storage \/ (token # NoToken /\ row.token = token)
         /\ GetOathToken(h)' = token
         /\ \A g \in Hashes \ {h} : GetOathToken(g)' = GetOathToken(g)
<1>1. th[t].pc = "setting" /\ SetOathToken(h, token)
  BY DEF SetToken
<1>2. h \in Hashes /\ h \in Scopes /\ token \in 0..MaxTokens
  BY <1>1, ThreadIs, ScopesAssumption DEF InCallPcs
<1>3. token # NoToken => token <= issued /\ \A row \in oauth_token_storage : row.token < token
  BY <1>1 DEF LocksInv, TokenInv
<1>4. oauth_token_storage \subseteq TokenRow /\ TokenKeysUnique
  BY DEF LocksInv, TypeOK, TokenInv
<1>5. oauth_token_storage' \subseteq TokenRow /\ TokenKeysUnique'
  BY <1>1, <1>2, <1>4, SetWritesRow
<1>6. /\ GetOathToken(h)' = token
      /\ \A g \in Hashes \ {h} : GetOathToken(g)' = GetOathToken(g)
  BY <1>1, <1>2, <1>4, SetThenGet
<1>7. \A row \in oauth_token_storage' :
        row \in oauth_token_storage \/ (token # NoToken /\ row.token = token)
  BY <1>1 DEF SetOathToken
<1> QED
  BY <1>2, <1>3, <1>5, <1>6, <1>7

\* The thread alone is in a call, so that no other one has a token in hand.
LEMMA SetTokenKeeps ==
  ASSUME LocksInv, NEW t \in Threads, SetToken(t)
  PROVE  LocksInv'
<1>1. PICK h, token : h = th[t].scope /\ token = th[t].token
  OBVIOUS
<1>2. PICK r : r = IF token = NoToken THEN Idle ELSE At(t, "request")
  OBVIOUS
<1>3. /\ th[t].pc = "setting" /\ Goto(t, r) /\ db' = None
      /\ remote' = IF token = NoToken THEN None ELSE remote
      /\ UNCHANGED <<main, task, poisoned, issued, begun>>
  BY <1>1, <1>2 DEF SetToken, Leave
<1>4. /\ r \in Thread /\ r.pc = IF token = NoToken THEN "idle" ELSE "request"
      /\ token # NoToken => r.scope = h /\ r.token = token
  BY <1>1, <1>2, ThreadIs, PcsDiffer DEF At, Thread, InCallPcs
<1>5. Moves(t, r)
  BY <1>3, <1>4, ThreadIs, CountersAre DEF Moves, InCallPcs, InStatementPcs
<1>6. th' \in [Threads -> Thread] /\ th'[t] = r /\ \A u \in Threads \ {t} : th'[u] = th[u]
  BY <1>5, MovesThread DEF LocksInv
<1>7. \A u \in Threads \ {t} : th'[u].pc \notin InCallPcs
  BY <1>3, <1>6, ThreadIs DEF InCallPcs
<1>8. /\ h \in Scopes /\ token \in 0..MaxTokens
      /\ token # NoToken => token <= issued
      /\ oauth_token_storage' \subseteq TokenRow /\ TokenKeysUnique'
      /\ \A row \in oauth_token_storage' :
           row \in oauth_token_storage \/ (token # NoToken /\ row.token = token)
      /\ GetOathToken(h)' = token
  BY <1>1, SetTokenDoes
<1>9. TypeOK'
  BY <1>3, <1>5, <1>6, <1>8 DEF LocksInv, TypeOK, Moves
<1>10. \A row \in oauth_token_storage' : row.token <= issued'
  BY <1>3, <1>8 DEF LocksInv, TokenInv
<1>11. \A u \in Threads : /\ th'[u].pc \in InCallPcs => th'[u].scope \in Scopes
                          /\ th'[u].pc \notin {"set", "setting"}
  BY <1>4, <1>6, <1>7, <1>8 DEF InCallPcs
<1>12. TokenInv'
  BY <1>8, <1>10, <1>11 DEF TokenInv, InCall
<1>13. \A u \in Threads :
         th'[u].pc = "request" => token # NoToken /\ th'[u].token = token /\ th'[u].scope = h
  BY <1>4, <1>6, <1>7 DEF InCallPcs
<1>14. RequestHasStoredToken'
  BY <1>8, <1>13 DEF RequestHasStoredToken, GetOathToken, TokenRows
<1> QED
  BY <1>5, <1>9, <1>12, <1>14, MutexKept DEF LocksInv

-----------------------------------------------------------------------------
(* The process.                                                            *)

LEMMA BeginKeeps ==
  ASSUME LocksInv,
         \/ \E w \in Workers, k \in Tasks : BeginUpdate(w, k)
         \/ \E job \in {"open", "query"} : BeginRequest(job)
  PROVE  LocksInv'
<1>1. PICK t \in Threads, pc \in {"lock", "statement"}, job \in Jobs :
        /\ th[t] = Idle
        /\ Goto(t, Started(pc, job))
  BY DEF BeginUpdate, BeginRequest, Threads, Jobs
<1>2. /\ begun < MaxBegun /\ begun' = begun + 1
      /\ UNCHANGED <<oauth_token_storage, main, task, remote, poisoned, db, issued>>
  BY DEF BeginUpdate, BeginRequest
<1> DEFINE r == Started(pc, job)
<1>3. r \in Thread /\ r.pc \in {"lock", "statement"} /\ th[t].pc = "idle"
  <2>1. pc \in Pcs /\ MaxWork \in 0..MaxWork /\ NoToken \in 0..MaxTokens /\ th[t].pc = "idle"
    BY <1>1, PcsDiffer, BoundsAssumption
  <2> QED
    BY <2>1 DEF Thread, Started
<1> HIDE DEF r
<1>4. Moves(t, r)
  BY <1>1, <1>2, <1>3, ThreadIs, CountersAre DEF Moves, InCallPcs, InStatementPcs, r
<1>5. FitsToken(r)
  BY <1>3 DEF FitsToken, InCallPcs
<1>6. begun' \in 0..MaxBegun
  BY <1>2, CountersAre, BoundsAssumption
<1> QED
  BY <1>2, <1>4, <1>5, <1>6, CountersAre, StepKept

\* All threads are gone, with their mutexes; the table stays.
LEMMA OverKeeps ==
  ASSUME LocksInv, NEW how \in {"exited", "panicked"}, ProcessOver(how)
  PROVE  LocksInv'
<1>1. /\ main' = how /\ th' = [t \in Threads |-> Idle] /\ remote' = None /\ db' = None
      /\ UNCHANGED <<oauth_token_storage, task, poisoned, issued, begun>>
  BY DEF ProcessOver
<1>2. \A t \in Threads : th'[t] = Idle
  BY <1>1
<1>3. TypeOK'
  BY <1>1, PcsDiffer DEF LocksInv, TypeOK
<1>4. MutexInv'
  BY <1>1, <1>2, PcsDiffer, CountersAre DEF MutexInv, InCall, InCallPcs, InStatementPcs
<1>5. TokenInv' /\ RequestHasStoredToken'
  BY <1>1, <1>2, PcsDiffer
  DEF LocksInv, TokenInv, TokenKeysUnique, RequestHasStoredToken, InCall, InCallPcs
<1> QED
  BY <1>3, <1>4, <1>5 DEF LocksInv

\* main goes on, and the threads stay where they are.
LEMMA MainKeeps ==
  ASSUME LocksInv, UNCHANGED <<oauth_token_storage, remote, poisoned, db, th, issued, begun>>,
         main' \in {"serving", "stopping", "exited", "panicked"},
         task' \in [Tasks -> {"none", "scheduled", "stop", "stopped"}]
  PROVE  LocksInv'
<1>1. TypeOK' /\ MutexInv' /\ TokenInv'
  BY DEF LocksInv, TypeOK, MutexInv, TokenInv, TokenKeysUnique, InCall
<1>2. RequestHasStoredToken'
  BY DEF LocksInv, RequestHasStoredToken, GetOathToken, TokenRows
<1> QED
  BY <1>1, <1>2 DEF LocksInv

-----------------------------------------------------------------------------
(* The invariant.                                                          *)

LEMMA LocksInit == Init => LocksInv
<1> SUFFICES ASSUME Init PROVE LocksInv
  OBVIOUS
<1>1. PICK old \in SUBSET Scopes :
         oauth_token_storage = {[scope_hash |-> AsI64(h), token |-> 1] : h \in old}
  BY DEF Init
<1>2. \A t \in Threads : th[t] = Idle
  BY DEF Init
<1>3. oauth_token_storage \subseteq TokenRow
  BY <1>1, AsI64IsInjective, ScopesAssumption, TokenAssumption DEF TokenRow
<1>4. TypeOK
  <2>1. task \in [Tasks -> {"none", "scheduled", "stop", "stopped"}]
    BY DEF Init
  <2>2. th \in [Threads -> Thread]
    BY PcsDiffer DEF Init
  <2>3. issued \in 1..MaxTokens /\ begun \in 0..MaxBegun
    BY TokenAssumption, BoundsAssumption DEF Init
  <2> QED
    BY <1>3, <2>1, <2>2, <2>3 DEF Init, TypeOK
<1>5. MutexInv
  BY <1>2, PcsDiffer, ThreadsAssumption
  DEF Init, MutexInv, InCall, InCallPcs, InStatementPcs, Threads
<1>6. TokenKeysUnique /\ \A r \in oauth_token_storage : r.token <= issued
  BY <1>1 DEF Init, TokenKeysUnique
<1>7. TokenInv /\ RequestHasStoredToken
  BY <1>2, <1>6, PcsDiffer DEF TokenInv, RequestHasStoredToken, InCall, InCallPcs
<1> QED
  BY <1>4, <1>5, <1>7 DEF LocksInv

LEMMA ThreadStepKeeps ==
  ASSUME LocksInv, NEW t \in Threads,
         ThreadStep(t) \/ LockPoisoned(t) \/ ListingPanics(t)
  PROVE  LocksInv'
BY LockRemoteKeeps, LockDbKeeps, ExecuteKeeps, BetweenKeeps, GetTokenKeeps, RefreshKeeps,
   RefreshRefusedKeeps, SetTokenKeeps, CallEndsKeeps, CallGoesOnKeeps
DEF ThreadStep

LEMMA LocksStep == LocksInv /\ [Next]_vars => LocksInv'
<1> SUFFICES ASSUME LocksInv, [Next]_vars PROVE LocksInv'
  OBVIOUS
<1>1. CASE \E w \in Workers : WorkerStep(w)
  BY <1>1, ThreadStepKeeps DEF WorkerStep, Threads
<1>2. CASE FuseStep
  BY <1>2, ThreadStepKeeps, CallGoesOnKeeps, OverKeeps
  DEF FuseStep, OpenPanics, MediaItemPanics, Threads
<1>3. main \in {"serving", "stopping", "exited", "panicked"}
      /\ task \in [Tasks -> {"none", "scheduled", "stop", "stopped"}]
  BY DEF LocksInv, TypeOK
<1>4. CASE Unmount \/ UNCHANGED vars
  BY <1>3, <1>4, MainKeeps DEF Unmount, mutexVars, vars
<1>5. CASE Shutdown
  BY <1>3, <1>5, MainKeeps, OverKeeps DEF Shutdown, StopTask, NoteStop, EndMain, mutexVars
<1> QED
  BY <1>1, <1>2, <1>4, <1>5, BeginKeeps DEF Next, Rest

\* Mutexes, calls and tokens fit together at every step of all threads (photofs/mod.rs:379,
\* background_update.rs:53-57, oauth_token_storage.rs:58-82).
THEOREM LocksInductive == Spec => []LocksInv
BY LocksInit, LocksStep, PTL DEF Spec

\* No two threads are in the remote library or its authenticator at once, which is what
\* "unsafe impl Sync" claims (background_update.rs:30-41, 125-136).
THEOREM CallsExclude == Spec => []OneCallAtATime
<1>1. LocksInv => OneCallAtATime
  BY DEF LocksInv, MutexInv, OneCallAtATime
<1> QED
  BY <1>1, LocksInductive, PTL

\* No circle of threads that wait for each other, for any number of threads: in it the one
\* that holds the connection would wait for nothing, and without that one all would wait for
\* the remote library, and the one that has it does not (db/token_storage_db.rs:36, 55, 64).
THEOREM NoDeadlock == Spec => []NoCircularWait
<1>1. ASSUME LocksInv PROVE NoCircularWait
  <2>1. ASSUME NEW S \in SUBSET Threads, S # {},
               \A t \in S : \E u \in S : WaitsFor(t, u)
        PROVE  FALSE
    <3>1. \A t \in S : \A u \in S : WaitsFor(t, u) => th[t].pc = "lock" /\ InCall(u)
      <4> SUFFICES ASSUME NEW t \in S, NEW u \in S, WaitsFor(t, u)
                   PROVE  th[t].pc = "lock" /\ InCall(u)
        OBVIOUS
      <4>1. CASE th[t].pc = "lock" /\ remote = u
        BY <1>1, <4>1 DEF LocksInv, MutexInv
      <4>2. CASE db = u
        <5>1. th[u].pc \in InStatementPcs
          BY <1>1, <4>2 DEF LocksInv, MutexInv
        <5>2. \E v \in S : WaitsFor(u, v)
          BY <2>1
        <5> QED
          BY <5>1, <5>2 DEF WaitsFor, InStatementPcs
      <4> QED
        BY <4>1, <4>2 DEF WaitsFor
    <3>2. PICK t \in S, u \in S : WaitsFor(t, u)
      BY <2>1
    <3>3. InCall(u) /\ th[u].pc = "lock"
      BY <2>1, <3>1, <3>2
    <3> QED
      BY <3>3 DEF InCall, InCallPcs
  <2> QED
    BY <2>1 DEF NoCircularWait
<1> QED
  BY <1>1, LocksInductive, PTL

\* No token is renewed or forgotten between its lookup and its use
\* (oauth_token_storage.rs:58-82).
THEOREM TokenStaysStored == Spec => []RequestHasStoredToken
<1>1. LocksInv => RequestHasStoredToken
  BY DEF LocksInv
<1> QED
  BY <1>1, LocksInductive, PTL

-----------------------------------------------------------------------------
(* The refinement.                                                         *)

\* Only SetToken touches the table.
LEMMA TableSteps ==
  ASSUME [Next]_vars
  PROVE  UNCHANGED oauth_token_storage \/ \E t \in Threads : SetToken(t)
<1>1. ASSUME NEW t \in Threads, ThreadStep(t)
      PROVE  UNCHANGED oauth_token_storage \/ SetToken(t)
  BY <1>1 DEF ThreadStep, LockRemote, LockDb, Execute, ExecuteFails, Continue, Finish, GetToken,
              Refresh, RefreshRefused, TokenStatementFails, NextPage, CallReturns, CallFails
<1>2. ASSUME NEW w \in Workers, WorkerStep(w)
      PROVE  UNCHANGED oauth_token_storage \/ SetToken(w)
  BY <1>1, <1>2 DEF WorkerStep, LockPoisoned, ListingPanics, Threads
<1>3. ASSUME FuseStep PROVE UNCHANGED oauth_token_storage \/ SetToken(Fuse)
  BY <1>1, <1>3 DEF FuseStep, OpenPanics, Download, MediaItemPanics, ProcessOver, Threads
<1> QED
  BY <1>2, <1>3
  DEF Next, BeginUpdate, BeginRequest, Unmount, Shutdown, StopTask, NoteStop, EndMain,
      ProcessOver, Rest, vars, Threads

\* The table, used by all threads, is a map that no scope's renewal spoils for another,
\* and in which tokens are only replaced by newer ones (token_storage_db.rs:34-74).
THEOREM TokenMapRefined == Spec => RefinesTokenMap
<1>1. Init => TokensByScope!TokenMapInit
  <2> SUFFICES ASSUME Init, NEW h \in Hashes PROVE GetOathToken(h) \in {NoToken, 1}
    BY DEF TokensByScope!TokenMapInit, TokensByScope!NoToken, NoToken
  <2>1. oauth_token_storage \subseteq TokenRow /\ TokenKeysUnique
    BY LocksInit DEF LocksInv, TypeOK, TokenInv
  <2>2. \A r \in oauth_token_storage : r.token = 1
    BY DEF Init
  <2> QED
    BY <2>1, <2>2, GetReadsRow
<1>2. ASSUME LocksInv, [Next]_vars
      PROVE  [TokensByScope!TokenMapNext]_[h \in Hashes |-> GetOathToken(h)]
  <2> DEFINE tokens == [h \in Hashes |-> GetOathToken(h)]
  <2>1. CASE UNCHANGED oauth_token_storage
    BY <2>1 DEF GetOathToken, TokenRows
  <2>2. ASSUME NEW t \in Threads, SetToken(t) PROVE TokensByScope!TokenMapNext
    <3>1. PICK h, token : h = th[t].scope /\ token = th[t].token
      OBVIOUS
    <3>2. /\ h \in Hashes /\ token \in 0..MaxTokens
          /\ token # NoToken => \A row \in oauth_token_storage : row.token < token
          /\ GetOathToken(h)' = token
          /\ \A g \in Hashes \ {h} : GetOathToken(g)' = GetOathToken(g)
      BY <1>2, <2>2, <3>1, SetTokenDoes
    <3>3. tokens' = [tokens EXCEPT ![h] = token]
      BY <3>2
    <3>4. CASE token = NoToken
      BY <3>2, <3>3, <3>4
      DEF TokensByScope!TokenMapNext, TokensByScope!Forget, TokensByScope!NoToken, NoToken
    <3>5. CASE token # NoToken
      <4>1. token \in 1..MaxTokens
        BY <3>2, <3>5, TokenAssumption DEF NoToken
      <4>2. GetOathToken(h) < token
        BY <1>2, <3>2, <3>5, <4>1, GetReadsRow, TokenAssumption
        DEF LocksInv, TypeOK, TokenInv, TokenRow, NoToken
      <4> QED
        BY <3>2, <3>3, <4>1, <4>2 DEF TokensByScope!TokenMapNext, TokensByScope!Renew
    <3> QED
      BY <3>4, <3>5
  <2> QED
    BY <1>2, <2>1, <2>2, TableSteps
<1> QED
  BY <1>1, <1>2, LocksInductive, PTL DEF Spec, RefinesTokenMap, TokensByScope!TokenMapSpec
=============================================================================
