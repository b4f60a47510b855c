---------------------- MODULE BackgroundUpdateProofs ----------------------
(***************************************************************************)
(* Proofs about BackgroundUpdate, for every number of threads, any ids and *)
(* names, any faults and any bounds.  IInv is inductive; it is proved in   *)
(* layers, each of which uses the ones before:                             *)
(*                                                                         *)
(*   ControlInv   types, the mutex of the connection, what a run holds     *)
(*   inodes       CounterInv, HeldInv, InodesNeverReused, KeysUnique       *)
(*   rows         RowsInv, ForeignKeysHold, CheckedMemberStays             *)
(***************************************************************************)
EXTENDS BackgroundUpdate, TableProofs

-----------------------------------------------------------------------------
(* The rows of next_inode.                                                 *)

\* A start adds a row (Start).
LEMMA RowAdded ==
  ASSUME NEW s \in Seq(Nat), NEW n \in Nat
  PROVE  /\ Append(s, n) \in Seq(Nat)
         /\ Append(s, n) # <<>>
         /\ Append(s, n)[1] = IF s = <<>> THEN n ELSE s[1]
<1>1. CASE s = <<>>
  BY <1>1
<1>2. CASE s # <<>>
  <2>1. Len(s) >= 1
    BY <1>2
  <2>2. Append(s, n)[1] = s[1]
    BY <2>1
  <2> QED
    BY <1>2, <2>2
<1> QED
  BY <1>1, <1>2

\* An allocation counts up every row (UpdateInode).
LEMMA RowsCounted ==
  ASSUME NEW s \in Seq(Nat), s # <<>>
  PROVE  LET t == [k \in DOMAIN s |-> s[k] + 1]
         IN  /\ t \in Seq(Nat)
             /\ t # <<>>
             /\ t[1] = s[1] + 1
OBVIOUS

\* There is a first row (SelectInode).
LEMMA FirstRow ==
  ASSUME NEW s \in Seq(Nat), s # <<>>
  PROVE  s[1] \in Nat
OBVIOUS

-----------------------------------------------------------------------------
(* The rows of the cache.                                                  *)

\* A row that is stored has a place (upsert_x).
LEMMA PlaceIsNumber ==
  ASSUME DbTypeOK, NEW id, NEW type
  PROVE  NextPlace(id, type) \in Nat
<1> DEFINE rows == {r \in items : r.type = type /\ r.google_id # id}
<1>1. IsFiniteSet(rows) /\ \A r \in rows : r.place \in Nat
  BY FS_Subset DEF DbTypeOK, Item
<1> QED
  BY <1>1, PlaceIsLast DEF NextPlace

\* The row that is stored is one more row, or takes the place of another (upsert_x).
LEMMA UpsertKeepsTypes ==
  ASSUME DbTypeOK, NEW id \in GoogleIds, NEW type \in MediaTypes, NEW name \in Names,
         NEW inode \in Nat, UpsertX(id, type, name, inode)
  PROVE  DbTypeOK'
<1> DEFINE old == {r \in items : r.google_id # id}
           new == [google_id |-> id, type |-> type, name |-> name, inode |-> inode,
                   place |-> NextPlace(id, type)]
<1>1. items' = old \cup {new} /\ in_album' \subseteq in_album
  BY DEF UpsertX
<1>2. new \in Item
  BY PlaceIsNumber DEF Item
<1>3. IsFiniteSet(old) /\ old \subseteq Item
  BY FS_Subset DEF DbTypeOK
<1> HIDE DEF old, new
<1>4. IsFiniteSet(old \cup {new})
  BY <1>3, FS_AddElement
<1> QED
  BY <1>1, <1>2, <1>3, <1>4 DEF DbTypeOK

-----------------------------------------------------------------------------
(* First layer: control.                                                   *)

\* A thread that ends its run leaves nothing ill-formed behind.
LEMMA IdleRunOk == IdleRun \in Run /\ WellFormed(IdleRun)
BY NoneAssumption DEF IdleRun, Run, Pcs, WellFormed, Listed, MediaTypes

\* Storing an item, or giving it up, leads on to a well-formed run.
LEMMA AfterItemOk ==
  ASSUME NEW r \in Run, WellFormed(r), r.pc # "idle", r.cur # None
  PROVE  AfterItem(r) \in Run /\ WellFormed(AfterItem(r))
<1>1. AfterItem(r) \in Run
  BY DEF AfterItem, Run, Pcs
<1>2. WellFormed(AfterItem(r))
  BY DEF AfterItem, Run, Pcs, MediaTypes, WellFormed, Listed
<1> QED
  BY <1>1, <1>2

\* What a thread's going on does to the runs of all threads.
LEMMA GotoKeeps ==
  ASSUME run \in [Workers -> Run], RunInv, NEW w \in Workers,
         NEW r \in Run, WellFormed(r), Goto(w, r)
  PROVE  /\ run' \in [Workers -> Run]
         /\ RunInv'
         /\ run'[w] = r
         /\ \A v \in Workers \ {w} : run'[v] = run[v]
BY DEF RunInv, WellFormed, Goto, Listed

\* Every step of a thread takes its own run to a well-formed one and leaves the runs
\* of the other threads alone.
LEMMA StepGoes ==
  ASSUME ControlInv, NEW w \in Workers, Step(w)
  PROVE  \E r \in Run : WellFormed(r) /\ Goto(w, r)
<1> DEFINE Goes == \E r \in Run : WellFormed(r) /\ Goto(w, r)
<1>0. run[w] \in Run /\ WellFormed(run[w])
  BY DEF ControlInv, TypeOK, RunInv
<1>1. ASSUME LockRemote(w) PROVE Goes
  <2> DEFINE r == [run[w] EXCEPT !.pc = IF @ = "lock_list" THEN "list" ELSE "list_album"]
  <2>1. r \in Run
    BY <1>0, <1>1, NoneAssumption DEF LockRemote, Run, Pcs, WellFormed, GoogleIds
  <2>2. WellFormed(r)
    BY <1>0, <1>1, NoneAssumption DEF LockRemote, Run, MediaTypes, WellFormed, Listed, GoogleIds
  <2>3. Goto(w, r)
    BY <1>1 DEF LockRemote
  <2> QED
    BY <2>1, <2>2, <2>3
<1>2. ASSUME LockPoisoned(w) PROVE Goes
  BY <1>2, IdleRunOk DEF LockPoisoned, EndRun
<1>3. ASSUME NEW ids \in SUBSET GoogleIds, FetchList(w, ids) PROVE Goes
  <2> DEFINE r == [run[w] EXCEPT !.pc = "next", !.todo = ids]
  <2>1. r \in Run
    BY <1>0, <1>3, NoneAssumption DEF FetchList, Run, Pcs, WellFormed, GoogleIds
  <2>2. WellFormed(r)
    BY <1>0, <1>3, NoneAssumption DEF FetchList, Run, MediaTypes, WellFormed, Listed, GoogleIds
  <2>3. Goto(w, r)
    BY <1>3 DEF FetchList
  <2> QED
    BY <2>1, <2>2, <2>3
<1>4. ASSUME NEW ids \in SUBSET MediaIds, FetchAlbum(w, ids) PROVE Goes
  <2> DEFINE r == [run[w] EXCEPT !.pc = "members", !.members = ids]
  <2>1. r \in Run
    BY <1>0, <1>4, NoneAssumption DEF FetchAlbum, Run, Pcs, WellFormed, GoogleIds
  <2>2. WellFormed(r)
    BY <1>0, <1>4, NoneAssumption DEF FetchAlbum, Run, MediaTypes, WellFormed, Listed, GoogleIds
  <2>3. Goto(w, r)
    BY <1>4 DEF FetchAlbum
  <2> QED
    BY <2>1, <2>2, <2>3
<1>5. ASSUME FetchFails(w) PROVE Goes
  BY <1>5, IdleRunOk DEF FetchFails, EndRun
<1>6. ASSUME FetchPanics(w) PROVE Goes
  BY <1>6, IdleRunOk DEF FetchPanics, EndRun
<1>7. ASSUME NEW id \in GoogleIds, UpdateInode(w, id) PROVE Goes
  <2> DEFINE r == [run[w] EXCEPT !.pc = "select", !.cur = id, !.todo = @ \ {id}]
  <2>1. r \in Run
    BY <1>0, <1>7, NoneAssumption DEF UpdateInode, Run, Pcs, WellFormed, GoogleIds
  <2>2. WellFormed(r)
    BY <1>0, <1>7, NoneAssumption DEF UpdateInode, Run, MediaTypes, WellFormed, Listed, GoogleIds
  <2>3. Goto(w, r)
    BY <1>7 DEF UpdateInode
  <2> QED
    BY <2>1, <2>2, <2>3
<1>8. ASSUME NEW id \in GoogleIds, UpdateInodeFails(w, id) PROVE Goes
  <2> DEFINE r == [run[w] EXCEPT !.cur = id, !.todo = @ \ {id}]
  <2>1. r \in Run /\ WellFormed(r) /\ r.pc # "idle" /\ r.cur # None
    BY <1>0, <1>8, NoneAssumption DEF UpdateInodeFails, Run, MediaTypes, WellFormed, Listed, GoogleIds
  <2>2. Goto(w, AfterItem(r))
    BY <1>8 DEF UpdateInodeFails
  <2> QED
    BY <2>1, <2>2, AfterItemOk
<1>9. ASSUME SelectInode(w) PROVE Goes
  <2> DEFINE r == [run[w] EXCEPT !.pc = "upsert", !.inode = next_inode[1]]
  <2>1. next_inode[1] \in Nat
    BY <1>9, FirstRow DEF SelectInode, ControlInv, TypeOK, ProcessInv
  <2>2. r \in Run
    BY <1>0, <1>9, <2>1, NoneAssumption DEF SelectInode, Run, Pcs, WellFormed, GoogleIds
  <2>3. WellFormed(r)
    BY <1>0, <1>9, NoneAssumption DEF SelectInode, Run, MediaTypes, WellFormed, Listed, GoogleIds
  <2>4. Goto(w, r)
    BY <1>9 DEF SelectInode
  <2> QED
    BY <2>2, <2>3, <2>4
<1>10. ASSUME SelectInodeFails(w) PROVE Goes
  BY <1>0, <1>10, AfterItemOk DEF SelectInodeFails, WellFormed
<1>11. ASSUME NEW n \in Names, UpsertItem(w, n) PROVE Goes
  BY <1>0, <1>11, AfterItemOk DEF UpsertItem, WellFormed
<1>12. ASSUME UpsertItemFails(w) PROVE Goes
  BY <1>0, <1>12, AfterItemOk DEF UpsertItemFails, WellFormed
<1>13. ASSUME NEW m \in MediaIds, CheckMember(w, m) PROVE Goes
  <2> DEFINE r == [run[w] EXCEPT
                      !.members = @ \ {m},
                      !.pc      = IF Exists(m) THEN "member" ELSE "members",
                      !.member  = IF Exists(m) THEN m ELSE None]
  <2>1. r \in Run
    BY <1>0, <1>13, NoneAssumption DEF CheckMember, Run, Pcs, WellFormed, GoogleIds
  <2>2. WellFormed(r)
    BY <1>0, <1>13, NoneAssumption DEF CheckMember, Run, MediaTypes, WellFormed, Listed, GoogleIds
  <2>3. Goto(w, r)
    BY <1>13 DEF CheckMember
  <2> QED
    BY <2>1, <2>2, <2>3
<1>14. ASSUME ExistsPanics(w) PROVE Goes
  BY <1>14, IdleRunOk DEF ExistsPanics, EndRun
<1>15. ASSUME InsertMember(w) PROVE Goes
  <2> DEFINE r == [run[w] EXCEPT !.pc = "members", !.member = None]
  <2>1. r \in Run
    BY <1>0, <1>15, NoneAssumption DEF InsertMember, Run, Pcs, WellFormed, GoogleIds
  <2>2. WellFormed(r)
    BY <1>0, <1>15, NoneAssumption DEF InsertMember, Run, MediaTypes, WellFormed, Listed, GoogleIds
  <2>3. Goto(w, r)
    BY <1>15 DEF InsertMember
  <2> QED
    BY <2>1, <2>2, <2>3
<1>16. ASSUME InsertMemberFails(w) PROVE Goes
  <2> DEFINE r == [run[w] EXCEPT !.pc = "members", !.member = None]
  <2>1. r \in Run
    BY <1>0, <1>16, NoneAssumption DEF InsertMemberFails, Run, Pcs, WellFormed, GoogleIds
  <2>2. WellFormed(r)
    BY <1>0, <1>16, NoneAssumption DEF InsertMemberFails, Run, MediaTypes, WellFormed, Listed, GoogleIds
  <2>3. Goto(w, r)
    BY <1>16 DEF InsertMemberFails
  <2> QED
    BY <2>1, <2>2, <2>3
<1>17. ASSUME EndAlbum(w) PROVE Goes
  <2> DEFINE r == [run[w] EXCEPT !.pc = "next", !.cur = None]
  <2>1. r \in Run
    BY <1>0, <1>17, NoneAssumption DEF EndAlbum, Run, Pcs, WellFormed, GoogleIds
  <2>2. WellFormed(r)
    BY <1>0, <1>17, NoneAssumption DEF EndAlbum, Run, MediaTypes, WellFormed, Listed, GoogleIds
  <2>3. Goto(w, r)
    BY <1>17 DEF EndAlbum
  <2> QED
    BY <2>1, <2>2, <2>3
<1>18. ASSUME EndUpdate(w) PROVE Goes
  BY <1>18, IdleRunOk DEF EndUpdate, EndRun
<1> QED
  BY <1>1, <1>2, <1>3, <1>4, <1>5, <1>6, <1>7, <1>8, <1>9, <1>10, <1>11,
     <1>12, <1>13, <1>14, <1>15, <1>16, <1>17, <1>18 DEF Step, RemoteStep,
     DbStep

\* What no step of a thread touches, and the one that touches next_inode.
LEMMA StepFrame ==
  ASSUME NEW w \in Workers, Step(w)
  PROVE  /\ run[w].pc # "idle"
         /\ UNCHANGED <<up, ticks>>
         /\ UNCHANGED next_inode \/ \E id \in GoogleIds : UpdateInode(w, id)
BY DEF Step, RemoteStep, DbStep, LockRemote, LockPoisoned, FetchList,
   FetchAlbum, FetchFails, FetchPanics, UpdateInode, UpdateInodeFails,
   SelectInode, SelectInodeFails, UpsertItem, UpsertItemFails, CheckMember,
   ExistsPanics, InsertMember, InsertMemberFails, EndAlbum, EndUpdate

\* A thread holds the mutex of the connection exactly from the UPDATE to the SELECT of
\* an allocation.
LEMMA StepKeepsLock ==
  ASSUME ControlInv, NEW w \in Workers, Step(w)
  PROVE  LockInv'
<1>0. run \in [Workers -> Run] /\ LockInv /\ None \notin Workers
  BY NoneAssumption DEF ControlInv, TypeOK
<1>1. ASSUME LockRemote(w) PROVE LockInv'
  BY <1>0, <1>1 DEF LockRemote, Goto, LockInv, Run
<1>2. ASSUME LockPoisoned(w) PROVE LockInv'
  BY <1>0, <1>2 DEF LockPoisoned, Goto, EndRun, IdleRun, LockInv, Run
<1>3. ASSUME NEW ids \in SUBSET GoogleIds, FetchList(w, ids) PROVE LockInv'
  BY <1>0, <1>3 DEF FetchList, Goto, LockInv, Run
<1>4. ASSUME NEW ids \in SUBSET MediaIds, FetchAlbum(w, ids) PROVE LockInv'
  BY <1>0, <1>4 DEF FetchAlbum, Goto, LockInv, Run
<1>5. ASSUME FetchFails(w) PROVE LockInv'
  BY <1>0, <1>5 DEF FetchFails, Goto, EndRun, IdleRun, LockInv, Run
<1>6. ASSUME FetchPanics(w) PROVE LockInv'
  BY <1>0, <1>6 DEF FetchPanics, Goto, EndRun, IdleRun, LockInv, Run
<1>7. ASSUME NEW id \in GoogleIds, UpdateInode(w, id) PROVE LockInv'
  BY <1>0, <1>7 DEF UpdateInode, Goto, LockInv, Run
<1>8. ASSUME NEW id \in GoogleIds, UpdateInodeFails(w, id) PROVE LockInv'
  BY <1>0, <1>8 DEF UpdateInodeFails, Goto, AfterItem, LockInv, Run
<1>9. ASSUME SelectInode(w) PROVE LockInv'
  BY <1>0, <1>9 DEF SelectInode, Goto, LockInv, Run
<1>10. ASSUME SelectInodeFails(w) PROVE LockInv'
  BY <1>0, <1>10 DEF SelectInodeFails, Goto, AfterItem, LockInv, Run
<1>11. ASSUME NEW n \in Names, UpsertItem(w, n) PROVE LockInv'
  BY <1>0, <1>11 DEF UpsertItem, Goto, AfterItem, LockInv, Run
<1>12. ASSUME UpsertItemFails(w) PROVE LockInv'
  BY <1>0, <1>12 DEF UpsertItemFails, Goto, AfterItem, LockInv, Run
<1>13. ASSUME NEW m \in MediaIds, CheckMember(w, m) PROVE LockInv'
  BY <1>0, <1>13 DEF CheckMember, Goto, LockInv, Run
<1>14. ASSUME ExistsPanics(w) PROVE LockInv'
  BY <1>0, <1>14 DEF ExistsPanics, Goto, EndRun, IdleRun, LockInv, Run
<1>15. ASSUME InsertMember(w) PROVE LockInv'
  BY <1>0, <1>15 DEF InsertMember, Goto, LockInv, Run
<1>16. ASSUME InsertMemberFails(w) PROVE LockInv'
  BY <1>0, <1>16 DEF InsertMemberFails, Goto, LockInv, Run
<1>17. ASSUME EndAlbum(w) PROVE LockInv'
  BY <1>0, <1>17 DEF EndAlbum, Goto, LockInv, Run
<1>18. ASSUME EndUpdate(w) PROVE LockInv'
  BY <1>0, <1>18 DEF EndUpdate, Goto, EndRun, IdleRun, LockInv, Run
<1> QED
  BY <1>1, <1>2, <1>3, <1>4, <1>5, <1>6, <1>7, <1>8, <1>9, <1>10, <1>11,
     <1>12, <1>13, <1>14, <1>15, <1>16, <1>17, <1>18 DEF Step, RemoteStep,
     DbStep

\* Every step of a thread leaves the tables and the mutexes well-typed.
LEMMA StepKeepsTypes ==
  ASSUME ControlInv, NEW w \in Workers, Step(w)
  PROVE  TypeOK'
<1>0. run' \in [Workers -> Run]
  BY StepGoes, GotoKeeps DEF ControlInv, TypeOK
<1> DEFINE DataOK == /\ DbTypeOK
                     /\ next_inode \in Seq(Nat)
                     /\ issued \subseteq Issue
                     /\ db_lock \in Workers \cup {None}
                     /\ remote_lock \in Workers \cup {None}
                     /\ remote_poisoned \in BOOLEAN
<1>1. up' \in BOOLEAN /\ ticks' \in 0..MaxTicks
  BY StepFrame DEF ControlInv, TypeOK
<1>2. ASSUME LockRemote(w) PROVE DataOK'
  BY <1>2 DEF LockRemote, ControlInv, TypeOK, DbTypeOK
<1>3. ASSUME LockPoisoned(w) PROVE DataOK'
  BY <1>3 DEF LockPoisoned, ControlInv, TypeOK, DbTypeOK
<1>4. ASSUME NEW ids \in SUBSET GoogleIds, FetchList(w, ids) PROVE DataOK'
  BY <1>4 DEF FetchList, ControlInv, TypeOK, DbTypeOK
<1>5. ASSUME NEW ids \in SUBSET MediaIds, FetchAlbum(w, ids) PROVE DataOK'
  BY <1>5 DEF FetchAlbum, ControlInv, TypeOK, DbTypeOK
<1>6. ASSUME FetchFails(w) PROVE DataOK'
  BY <1>6 DEF FetchFails, ControlInv, TypeOK, DbTypeOK
<1>7. ASSUME FetchPanics(w) PROVE DataOK'
  BY <1>7 DEF FetchPanics, ControlInv, TypeOK, DbTypeOK
<1>8. ASSUME NEW id \in GoogleIds, UpdateInode(w, id) PROVE DataOK'
  <2>1. next_inode' \in Seq(Nat)
    BY <1>8, RowsCounted DEF UpdateInode, ControlInv, TypeOK, ProcessInv
  <2> QED
    BY <1>8, <2>1 DEF UpdateInode, ControlInv, TypeOK, DbTypeOK
<1>9. ASSUME NEW id \in GoogleIds, UpdateInodeFails(w, id) PROVE DataOK'
  BY <1>9 DEF UpdateInodeFails, ControlInv, TypeOK, DbTypeOK
<1>10. ASSUME SelectInode(w) PROVE DataOK'
  BY <1>10 DEF SelectInode, ControlInv, TypeOK, DbTypeOK
<1>11. ASSUME SelectInodeFails(w) PROVE DataOK'
  BY <1>11 DEF SelectInodeFails, ControlInv, TypeOK, DbTypeOK
<1>12. ASSUME NEW n \in Names, UpsertItem(w, n) PROVE DataOK'
  <2>1. /\ run[w] \in Run
        /\ run[w].cur \in GoogleIds
        /\ run[w].kind \in MediaTypes
    BY <1>12 DEF UpsertItem, ControlInv, TypeOK, RunInv, WellFormed, Run
  <2>2. DbTypeOK'
    BY <1>12, <2>1, UpsertKeepsTypes DEF UpsertItem, ControlInv, TypeOK, Run
  <2>3. issued' \subseteq Issue
    BY <1>12, <2>1 DEF UpsertItem, ControlInv, TypeOK, Run, Issue
  <2> QED
    BY <1>12, <2>2, <2>3 DEF UpsertItem, ControlInv, TypeOK
<1>13. ASSUME UpsertItemFails(w) PROVE DataOK'
  BY <1>13 DEF UpsertItemFails, ControlInv, TypeOK, DbTypeOK
<1>14. ASSUME NEW m \in MediaIds, CheckMember(w, m) PROVE DataOK'
  BY <1>14 DEF CheckMember, ControlInv, TypeOK, DbTypeOK
<1>15. ASSUME ExistsPanics(w) PROVE DataOK'
  BY <1>15 DEF ExistsPanics, ControlInv, TypeOK, DbTypeOK
<1>16. ASSUME InsertMember(w) PROVE DataOK'
  <2>1. run[w] \in Run /\ run[w].cur \in AlbumIds /\ run[w].member \in MediaIds
    BY <1>16 DEF InsertMember, ControlInv, TypeOK, RunInv, WellFormed, Listed, Run
  <2>2. in_album' \subseteq Membership
    BY <1>16, <2>1
    DEF InsertMember, UpsertMediaItemInAlbum, ControlInv, TypeOK, DbTypeOK, Membership
  <2> QED
    BY <1>16, <2>2
    DEF InsertMember, UpsertMediaItemInAlbum, ControlInv, TypeOK, DbTypeOK
<1>17. ASSUME InsertMemberFails(w) PROVE DataOK'
  BY <1>17 DEF InsertMemberFails, ControlInv, TypeOK, DbTypeOK
<1>18. ASSUME EndAlbum(w) PROVE DataOK'
  BY <1>18 DEF EndAlbum, ControlInv, TypeOK, DbTypeOK
<1>19. ASSUME EndUpdate(w) PROVE DataOK'
  BY <1>19 DEF EndUpdate, ControlInv, TypeOK, DbTypeOK
<1>20. DataOK'
  BY <1>2, <1>3, <1>4, <1>5, <1>6, <1>7, <1>8, <1>9, <1>10, <1>11, <1>12,
     <1>13, <1>14, <1>15, <1>16, <1>17, <1>18, <1>19 DEF Step, RemoteStep,
     DbStep
<1> QED
  BY <1>0, <1>1, <1>20 DEF TypeOK

\* The first layer, over all steps.
LEMMA ControlStep ==
  ASSUME ControlInv, [Next]_vars
  PROVE  ControlInv'
<1>1. CASE Start
  <2>1. next_inode' \in Seq(Nat) /\ next_inode' # <<>>
    BY <1>1, RowAdded DEF Start, FirstInode, ControlInv, TypeOK
  <2> QED
    BY <1>1, <2>1
    DEF Start, ControlInv, TypeOK, DbTypeOK, LockInv, ProcessInv, RunInv
<1>2. CASE Exit
  <2>1. TypeOK'
    BY <1>2, IdleRunOk DEF Exit, ControlInv, TypeOK, DbTypeOK
  <2>2. LockInv' /\ ProcessInv'
    BY <1>2, NoneAssumption DEF Exit, IdleRun, LockInv, ProcessInv
  <2>3. RunInv'
    BY <1>2, IdleRunOk DEF Exit, RunInv
  <2> QED
    BY <2>1, <2>2, <2>3 DEF ControlInv
<1>3. ASSUME NEW w \in Workers, NEW kind \in MediaTypes, BeginUpdate(w, kind)
      PROVE  ControlInv'
  <2> DEFINE r == [run[w] EXCEPT !.pc = "lock_list", !.kind = kind]
  <2>1. run \in [Workers -> Run] /\ RunInv /\ Goto(w, r)
    BY <1>3 DEF BeginUpdate, ControlInv, TypeOK
  <2>2. r \in Run /\ r.pc = "lock_list"
    BY <2>1 DEF Run, Pcs
  <2>3. WellFormed(r)
    BY <1>3, <2>1, <2>2, NoneAssumption
    DEF BeginUpdate, RunInv, WellFormed, IdleRun, Run
  <2>4. run' \in [Workers -> Run] /\ RunInv' /\ run'[w] = r
        /\ \A v \in Workers \ {w} : run'[v] = run[v]
    BY <2>1, <2>2, <2>3, GotoKeeps
  <2>5. TypeOK'
    BY <1>3, <2>4, BoundsAssumption DEF BeginUpdate, ControlInv, TypeOK, DbTypeOK
  <2>6. LockInv' /\ ProcessInv'
    BY <1>3, <2>2, <2>4 DEF BeginUpdate, ControlInv, LockInv, ProcessInv
  <2> QED
    BY <2>4, <2>5, <2>6 DEF ControlInv
<1>4. ASSUME NEW w \in Workers, Step(w) PROVE ControlInv'
  <2>1. RunInv'
    BY <1>4, StepGoes, GotoKeeps DEF ControlInv, TypeOK
  <2>2. ProcessInv'
    <3>1. up /\ up' /\ next_inode # <<>>
      BY <1>4, StepFrame DEF ControlInv, ProcessInv
    <3>2. CASE UNCHANGED next_inode
      BY <3>1, <3>2 DEF ProcessInv
    <3>3. ASSUME NEW id \in GoogleIds, UpdateInode(w, id) PROVE ProcessInv'
      BY <3>1, <3>3, RowsCounted DEF UpdateInode, ControlInv, TypeOK, ProcessInv
    <3> QED
      BY <1>4, <3>2, <3>3, StepFrame
  <2> QED
    BY <1>4, <2>1, <2>2, StepKeepsLock, StepKeepsTypes DEF ControlInv
<1>5. CASE UNCHANGED vars
  BY <1>5
  DEF vars, ControlInv, TypeOK, DbTypeOK, LockInv, ProcessInv, RunInv, WellFormed
<1> QED
  BY <1>1, <1>2, <1>3, <1>4, <1>5 DEF Next, Rest

\* The first layer holds at the start.
LEMMA ControlInit == Init => ControlInv
<1> SUFFICES ASSUME Init PROVE ControlInv
  OBVIOUS
<1>1. <<>> \in Seq(Nat) /\ 0 \in 0..MaxTicks
  BY BoundsAssumption
<1>2. TypeOK
  BY <1>1, IdleRunOk, FS_EmptySet DEF Init, TypeOK, DbTypeOK
<1>3. LockInv /\ ProcessInv
  BY NoneAssumption DEF Init, LockInv, ProcessInv, IdleRun
<1>4. RunInv
  BY IdleRunOk DEF Init, RunInv
<1> QED
  BY <1>2, <1>3, <1>4 DEF ControlInv

\* The cache, the mutexes and the runs are well-typed whatever the threads do.
THEOREM TypeCorrect == Spec => []TypeOK
<1>1. Spec => []ControlInv
  BY ControlInit, ControlStep, PTL DEF Spec
<1>2. ControlInv => TypeOK
  BY DEF ControlInv
<1> QED
  BY <1>1, <1>2, PTL

-----------------------------------------------------------------------------
(* Second layer: the inodes.                                               *)

InodeInv == CounterInv /\ HeldInv /\ InodesNeverReused /\ KeysUnique

\* A step that neither allocates nor stores: it leaves the rows, the counter and the
\* mutex of the connection alone, and its thread holds no inode before or after it.
NoInode(w) ==
  /\ UNCHANGED <<next_inode, issued, items, db_lock>>
  /\ ~Holding(w)
  /\ ~Holding(w)'

\* What the steps of a thread do to the inodes: an allocation and its outcome, an
\* upsert and its outcome, or nothing.
LEMMA StepInodes ==
  ASSUME ControlInv, NEW w \in Workers, Step(w)
  PROVE  \/ NoInode(w)
         \/ \E id \in GoogleIds : UpdateInode(w, id)
         \/ SelectInode(w)
         \/ SelectInodeFails(w)
         \/ \E n \in Names : UpsertItem(w, n)
         \/ UpsertItemFails(w)
<1>0. run \in [Workers -> Run]
  BY DEF ControlInv, TypeOK
<1>1. ASSUME LockRemote(w) PROVE NoInode(w)
  BY <1>0, <1>1 DEF LockRemote, Goto, NoInode, Holding, Run
<1>2. ASSUME LockPoisoned(w) PROVE NoInode(w)
  BY <1>0, <1>2 DEF LockPoisoned, Goto, EndRun, IdleRun, NoInode, Holding, Run
<1>3. ASSUME NEW ids \in SUBSET GoogleIds, FetchList(w, ids) PROVE NoInode(w)
  BY <1>0, <1>3 DEF FetchList, Goto, NoInode, Holding, Run
<1>4. ASSUME NEW ids \in SUBSET MediaIds, FetchAlbum(w, ids) PROVE NoInode(w)
  BY <1>0, <1>4 DEF FetchAlbum, Goto, NoInode, Holding, Run
<1>5. ASSUME FetchFails(w) PROVE NoInode(w)
  BY <1>0, <1>5 DEF FetchFails, Goto, EndRun, IdleRun, NoInode, Holding, Run
<1>6. ASSUME FetchPanics(w) PROVE NoInode(w)
  BY <1>0, <1>6 DEF FetchPanics, Goto, EndRun, IdleRun, NoInode, Holding, Run
<1>7. ASSUME NEW id \in GoogleIds, UpdateInodeFails(w, id) PROVE NoInode(w)
  BY <1>0, <1>7 DEF UpdateInodeFails, Goto, AfterItem, NoInode, Holding, Run
<1>8. ASSUME NEW m \in MediaIds, CheckMember(w, m) PROVE NoInode(w)
  BY <1>0, <1>8 DEF CheckMember, Goto, NoInode, Holding, Run
<1>9. ASSUME ExistsPanics(w) PROVE NoInode(w)
  BY <1>0, <1>9 DEF ExistsPanics, Goto, EndRun, IdleRun, NoInode, Holding, Run
<1>10. ASSUME InsertMember(w) PROVE NoInode(w)
  BY <1>0, <1>10 DEF InsertMember, Goto, UpsertMediaItemInAlbum, NoInode, Holding, Run
<1>11. ASSUME InsertMemberFails(w) PROVE NoInode(w)
  BY <1>0, <1>11 DEF InsertMemberFails, Goto, NoInode, Holding, Run
<1>12. ASSUME EndAlbum(w) PROVE NoInode(w)
  BY <1>0, <1>12 DEF EndAlbum, Goto, NoInode, Holding, Run
<1>13. ASSUME EndUpdate(w) PROVE NoInode(w)
  BY <1>0, <1>13 DEF EndUpdate, Goto, EndRun, IdleRun, NoInode, Holding, Run
<1> QED
  BY <1>1, <1>2, <1>3, <1>4, <1>5, <1>6, <1>7, <1>8, <1>9, <1>10, <1>11,
     <1>12, <1>13 DEF Step, RemoteStep, DbStep

\* The second layer, over all steps.
LEMMA InodeStep ==
  ASSUME ControlInv, InodeInv, [Next]_vars
  PROVE  InodeInv'
<1> USE DEF InodeInv
<1>0. /\ run \in [Workers -> Run]
      /\ next_inode \in Seq(Nat)
      /\ issued \subseteq Issue
      /\ items \subseteq Item
      /\ db_lock \in Workers \cup {None}
  BY DEF ControlInv, TypeOK, DbTypeOK
<1>1. CASE Start
  <2>1. \A w \in Workers : run[w].pc = "idle"
    BY <1>1 DEF Start, ControlInv, ProcessInv
  <2>2. db_lock = None
    BY <1>0, <2>1 DEF ControlInv, LockInv
  <2>3. next_inode'[1] = IF next_inode = <<>> THEN FirstInode ELSE next_inode[1]
    BY <1>0, <1>1, RowAdded DEF Start, FirstInode
  <2>4. CounterInv'
    BY <1>0, <1>1, <2>2, <2>3, BoundsAssumption, RowAdded
    DEF Start, CounterInv, FirstInode
  <2>5. HeldInv'
    BY <1>1, <2>1 DEF Start, HeldInv, Holding
  <2> QED
    BY <1>1, <2>4, <2>5 DEF Start, InodesNeverReused, KeysUnique
<1>2. CASE Exit
  <2>1. CounterInv'
    BY <1>2 DEF Exit, CounterInv
  <2>2. HeldInv'
    BY <1>2 DEF Exit, IdleRun, HeldInv, Holding
  <2> QED
    BY <1>2, <2>1, <2>2 DEF Exit, InodesNeverReused, KeysUnique
<1>3. ASSUME NEW w \in Workers, NEW kind \in MediaTypes, BeginUpdate(w, kind)
      PROVE  InodeInv'
  <2>1. \A v \in Workers : /\ Holding(v)' <=> Holding(v)
                            /\ run'[v].inode = run[v].inode
    BY <1>0, <1>3 DEF BeginUpdate, Goto, Holding, Run
  <2>2. CounterInv' /\ HeldInv'
    BY <1>3, <2>1 DEF BeginUpdate, CounterInv, HeldInv
  <2> QED
    BY <1>3, <2>2 DEF BeginUpdate, InodesNeverReused, KeysUnique
<1>4. ASSUME NEW w \in Workers, Step(w) PROVE InodeInv'
  <2>0. /\ \A v \in Workers \ {w} : run'[v] = run[v]
        /\ next_inode # <<>>
        /\ next_inode[1] \in Nat
    BY <1>0, <1>4, StepGoes, GotoKeeps, StepFrame, FirstRow
    DEF ControlInv, TypeOK, ProcessInv
  <2>1. CASE NoInode(w)
    <3>1. CounterInv' /\ HeldInv'
      BY <2>0, <2>1 DEF NoInode, CounterInv, HeldInv, Holding
    <3> QED
      BY <2>1, <3>1 DEF NoInode, InodesNeverReused, KeysUnique
  <2>2. ASSUME NEW id \in GoogleIds, UpdateInode(w, id) PROVE InodeInv'
    <3>1. /\ next_inode' # <<>>
          /\ next_inode'[1] = next_inode[1] + 1
          /\ next_inode[1] < MaxInode
      BY <1>0, <2>0, <2>2, RowsCounted DEF UpdateInode
    <3>2. \A v \in Workers : Holding(v)' => Holding(v) /\ run'[v] = run[v]
      BY <1>0, <2>0, <2>2 DEF UpdateInode, Goto, Holding, Run
    <3>3. CounterInv'
      BY <1>0, <2>0, <2>2, <3>1, <3>2, BoundsAssumption
      DEF UpdateInode, CounterInv, HeldInv, FirstInode, Issue
    <3>4. HeldInv'
      BY <1>0, <2>0, <2>2, <3>1, <3>2 DEF UpdateInode, CounterInv, HeldInv, FirstInode
    <3> QED
      BY <2>2, <3>3, <3>4 DEF UpdateInode, InodesNeverReused, KeysUnique
  <2>3. CASE SelectInode(w)
    <3>1. db_lock = w /\ w # None
      BY <2>3, NoneAssumption DEF SelectInode, ControlInv, LockInv
    <3>2. run'[w].inode = next_inode[1] /\ Holding(w)'
      BY <1>0, <2>3 DEF SelectInode, Goto, Holding, Run
    <3>3. \A v \in Workers \ {w} : Holding(v)' <=> Holding(v)
      BY <2>0 DEF Holding
    <3>4. CounterInv'
      BY <2>3 DEF SelectInode, CounterInv
    <3>5. HeldInv'
      BY <2>0, <2>3, <3>1, <3>2, <3>3 DEF SelectInode, CounterInv, HeldInv, FirstInode
    <3> QED
      BY <2>3, <3>4, <3>5 DEF SelectInode, InodesNeverReused, KeysUnique
  <2>4. CASE SelectInodeFails(w)
    <3>1. \A v \in Workers : Holding(v)' => Holding(v) /\ run'[v] = run[v]
      BY <1>0, <2>0, <2>4 DEF SelectInodeFails, Goto, AfterItem, Holding, Run
    <3>2. CounterInv' /\ HeldInv'
      BY <2>4, <3>1 DEF SelectInodeFails, CounterInv, HeldInv
    <3> QED
      BY <2>4, <3>2 DEF SelectInodeFails, InodesNeverReused, KeysUnique
  <2>5. ASSUME NEW n \in Names, UpsertItem(w, n) PROVE InodeInv'
    <3> DEFINE new == [inode |-> run[w].inode, google_id |-> run[w].cur]
               row == [google_id |-> run[w].cur, type |-> run[w].kind,
                       name |-> n, inode |-> run[w].inode,
                       place |-> NextPlace(run[w].cur, run[w].kind)]
    <3>1. /\ Holding(w) /\ db_lock = None /\ UNCHANGED <<next_inode, db_lock>>
          /\ issued' = issued \cup {new}
          /\ items' = {r \in items : r.google_id # run[w].cur} \cup {row}
      BY <2>5 DEF UpsertItem, UpsertX, Holding
    <3>2. \A v \in Workers : Holding(v)' => v # w /\ Holding(v) /\ run'[v] = run[v]
      BY <1>0, <2>0, <2>5 DEF UpsertItem, Goto, AfterItem, Holding, Run
    <3>3. /\ run[w].inode \in (FirstInode + 1)..next_inode[1]
          /\ \A x \in issued : x.inode # run[w].inode
      BY <3>1 DEF HeldInv
    <3>4. CounterInv'
      BY <2>0, <3>1, <3>3 DEF CounterInv
    <3>5. HeldInv'
      BY <3>1, <3>2 DEF HeldInv
    <3>6. InodesNeverReused'
      BY <2>0, <3>1, <3>3 DEF InodesNeverReused, FirstInode
    <3>7. \A r \in items : r.inode # run[w].inode
      BY <3>3 DEF InodesNeverReused
    <3>8. KeysUnique'
      BY <3>1, <3>7 DEF KeysUnique
    <3> QED
      BY <3>4, <3>5, <3>6, <3>8
  <2>6. CASE UpsertItemFails(w)
    <3>1. \A v \in Workers : Holding(v)' => Holding(v) /\ run'[v] = run[v]
      BY <1>0, <2>0, <2>6 DEF UpsertItemFails, Goto, AfterItem, Holding, Run
    <3>2. CounterInv' /\ HeldInv'
      BY <2>6, <3>1 DEF UpsertItemFails, CounterInv, HeldInv
    <3> QED
      BY <2>6, <3>2 DEF UpsertItemFails, InodesNeverReused, KeysUnique
  <2> QED
    BY <1>4, <2>1, <2>2, <2>3, <2>4, <2>5, <2>6, StepInodes
<1>5. CASE UNCHANGED vars
  BY <1>5 DEF vars, CounterInv, HeldInv, Holding, InodesNeverReused, KeysUnique
<1> QED
  BY <1>1, <1>2, <1>3, <1>4, <1>5 DEF Next, Rest

-----------------------------------------------------------------------------
(* Third layer: the rows and the memberships.                              *)

RowInv == RowsInv /\ ForeignKeysHold /\ CheckedMemberStays

\* A step that leaves the listing tables alone and does not rely on a member's row
\* after it.
NoRow(w) ==
  /\ UNCHANGED <<items, in_album, issued>>
  /\ run'[w].pc # "member"

\* What the steps of a thread do to the listing tables.
LEMMA StepRows ==
  ASSUME ControlInv, NEW w \in Workers, Step(w)
  PROVE  \/ NoRow(w)
         \/ \E n \in Names : UpsertItem(w, n)
         \/ \E m \in MediaIds : CheckMember(w, m)
         \/ InsertMember(w)
<1>0. run \in [Workers -> Run]
  BY DEF ControlInv, TypeOK
<1>1. ASSUME LockRemote(w) PROVE NoRow(w)
  BY <1>0, <1>1 DEF LockRemote, Goto, NoRow, Run
<1>2. ASSUME LockPoisoned(w) PROVE NoRow(w)
  BY <1>0, <1>2 DEF LockPoisoned, Goto, EndRun, IdleRun, NoRow, Run
<1>3. ASSUME NEW ids \in SUBSET GoogleIds, FetchList(w, ids) PROVE NoRow(w)
  BY <1>0, <1>3 DEF FetchList, Goto, NoRow, Run
<1>4. ASSUME NEW ids \in SUBSET MediaIds, FetchAlbum(w, ids) PROVE NoRow(w)
  BY <1>0, <1>4 DEF FetchAlbum, Goto, NoRow, Run
<1>5. ASSUME FetchFails(w) PROVE NoRow(w)
  BY <1>0, <1>5 DEF FetchFails, Goto, EndRun, IdleRun, NoRow, Run
<1>6. ASSUME FetchPanics(w) PROVE NoRow(w)
  BY <1>0, <1>6 DEF FetchPanics, Goto, EndRun, IdleRun, NoRow, Run
<1>7. ASSUME NEW id \in GoogleIds, UpdateInode(w, id) PROVE NoRow(w)
  BY <1>0, <1>7 DEF UpdateInode, Goto, NoRow, Run
<1>8. ASSUME NEW id \in GoogleIds, UpdateInodeFails(w, id) PROVE NoRow(w)
  BY <1>0, <1>8 DEF UpdateInodeFails, Goto, AfterItem, NoRow, Run
<1>9. ASSUME SelectInode(w) PROVE NoRow(w)
  BY <1>0, <1>9 DEF SelectInode, Goto, NoRow, Run
<1>10. ASSUME SelectInodeFails(w) PROVE NoRow(w)
  BY <1>0, <1>10 DEF SelectInodeFails, Goto, AfterItem, NoRow, Run
<1>11. ASSUME UpsertItemFails(w) PROVE NoRow(w)
  BY <1>0, <1>11 DEF UpsertItemFails, Goto, AfterItem, NoRow, Run
<1>12. ASSUME ExistsPanics(w) PROVE NoRow(w)
  BY <1>0, <1>12 DEF ExistsPanics, Goto, EndRun, IdleRun, NoRow, Run
<1>13. ASSUME InsertMemberFails(w) PROVE NoRow(w)
  BY <1>0, <1>13 DEF InsertMemberFails, Goto, NoRow, Run
<1>14. ASSUME EndAlbum(w) PROVE NoRow(w)
  BY <1>0, <1>14 DEF EndAlbum, Goto, NoRow, Run
<1>15. ASSUME EndUpdate(w) PROVE NoRow(w)
  BY <1>0, <1>15 DEF EndUpdate, Goto, EndRun, IdleRun, NoRow, Run
<1> QED
  BY <1>1, <1>2, <1>3, <1>4, <1>5, <1>6, <1>7, <1>8, <1>9, <1>10, <1>11,
     <1>12, <1>13, <1>14, <1>15 DEF Step, RemoteStep, DbStep

\* The item a thread stores is of the kind it updates (UpsertItem).
LEMMA StoredKind ==
  ASSUME ControlInv, NEW w \in Workers, run[w].pc = "upsert"
  PROVE  /\ run[w].cur \in GoogleIds
         /\ run[w].kind \in MediaTypes
         /\ run[w].kind = "album" <=> run[w].cur \in AlbumIds
         /\ run[w].kind = "media_item" => run[w].cur \in MediaIds
         /\ run[w].inode \in Nat
<1>1. run[w] \in Run /\ WellFormed(run[w])
  BY DEF ControlInv, TypeOK, RunInv
<1> QED
  BY <1>1, IdAssumption, NoneAssumption DEF Run, WellFormed, Listed, MediaTypes, GoogleIds

\* The ends of a membership a thread adds (InsertMember).
LEMMA MemberKind ==
  ASSUME ControlInv, NEW w \in Workers, run[w].pc = "member"
  PROVE  run[w].cur \in AlbumIds /\ run[w].member \in MediaIds
<1>1. run[w] \in Run /\ WellFormed(run[w])
  BY DEF ControlInv, TypeOK, RunInv
<1> QED
  BY <1>1 DEF Run, WellFormed, Listed

\* The third layer, over all steps.
LEMMA RowStep ==
  ASSUME ControlInv, RowInv, [Next]_vars
  PROVE  RowInv'
<1>0. run \in [Workers -> Run] /\ items \subseteq Item /\ in_album \subseteq Membership
  BY DEF ControlInv, TypeOK, DbTypeOK
<1>1. CASE Start
  BY <1>1
  DEF Start, RowInv, RowsInv, ForeignKeysHold, CheckedMemberStays, Albums, MediaItems, Exists
<1>2. CASE Exit
  BY <1>2
  DEF Exit, IdleRun, RowInv, RowsInv, ForeignKeysHold, CheckedMemberStays, Albums,
      MediaItems, Exists
<1>3. ASSUME NEW w \in Workers, NEW kind \in MediaTypes, BeginUpdate(w, kind)
      PROVE  RowInv'
  <2>1. \A v \in Workers : run'[v].pc = "member" => run'[v] = run[v]
    BY <1>0, <1>3 DEF BeginUpdate, Goto, Run
  <2> QED
    BY <1>3, <2>1
    DEF BeginUpdate, RowInv, RowsInv, ForeignKeysHold, CheckedMemberStays, Albums,
        MediaItems, Exists
<1>4. ASSUME NEW w \in Workers, Step(w) PROVE RowInv'
  <2>0. \A v \in Workers \ {w} : run'[v] = run[v]
    BY <1>4, StepGoes, GotoKeeps DEF ControlInv, TypeOK
  <2>1. CASE NoRow(w)
    BY <2>0, <2>1
    DEF NoRow, RowInv, RowsInv, ForeignKeysHold, CheckedMemberStays, Albums, MediaItems,
        Exists
  <2>2. ASSUME NEW n \in Names, UpsertItem(w, n) PROVE RowInv'
    <3> DEFINE row == [google_id |-> run[w].cur, type |-> run[w].kind,
                       name |-> n, inode |-> run[w].inode,
                       place |-> NextPlace(run[w].cur, run[w].kind)]
    <3>1. /\ items' = {r \in items : r.google_id # run[w].cur} \cup {row}
          /\ in_album' = {p \in in_album : p.album # run[w].cur /\ p.media # run[w].cur}
          /\ run[w].pc = "upsert"
          /\ run'[w].pc # "member"
      BY <1>0, <2>2 DEF UpsertItem, UpsertX, Goto, AfterItem, Run
    <3>2. RowsInv'
      BY <3>1, StoredKind DEF RowInv, RowsInv
    <3>3. ForeignKeysHold'
      BY <3>1 DEF RowInv, ForeignKeysHold, Albums, MediaItems
    <3>4. ASSUME NEW id, NEW r \in items, r.google_id = id
          PROVE  \E s \in items' : s.google_id = id
      <4>1. CASE id = run[w].cur
        <5>1. row \in items' /\ row.google_id = id
          BY <3>1, <4>1
        <5> QED
          BY <5>1
      <4>2. CASE id # run[w].cur
        <5>1. r \in items'
          BY <3>1, <3>4, <4>2
        <5> QED
          BY <3>4, <5>1
      <4> QED
        BY <4>1, <4>2
    <3>5. ASSUME NEW v \in Workers, run'[v].pc = "member"
          PROVE  \E s \in items' : s.google_id = run'[v].member
      <4>1. run'[v] = run[v]
        BY <2>0, <3>1, <3>5
      <4>2. \E r \in items : r.google_id = run[v].member
        BY <3>5, <4>1 DEF RowInv, CheckedMemberStays, Exists
      <4> QED
        BY <3>4, <4>1, <4>2
    <3>6. CheckedMemberStays'
      BY <3>5 DEF CheckedMemberStays, Exists
    <3> QED
      BY <3>2, <3>3, <3>6 DEF RowInv
  <2>3. ASSUME NEW m \in MediaIds, CheckMember(w, m) PROVE RowInv'
    <3>1. run'[w].pc = "member" => Exists(run'[w].member)
      BY <1>0, <2>3 DEF CheckMember, Goto, Run
    <3>2. UNCHANGED <<items, in_album>>
      BY <2>3 DEF CheckMember
    <3> QED
      BY <2>0, <3>1, <3>2
      DEF RowInv, RowsInv, ForeignKeysHold, CheckedMemberStays, Albums, MediaItems, Exists
  <2>4. CASE InsertMember(w)
    <3> DEFINE pair == [album |-> run[w].cur, media |-> run[w].member]
    <3>1. /\ UNCHANGED items
          /\ run'[w].pc # "member"
          /\ \/ in_album' = in_album
             \/ /\ in_album' = in_album \cup {pair}
                /\ Exists(run[w].cur)
                /\ Exists(run[w].member)
      BY <1>0, <2>4 DEF InsertMember, UpsertMediaItemInAlbum, Goto, Run
    <3>2. run[w].cur \in AlbumIds /\ run[w].member \in MediaIds
      BY <2>4, MemberKind DEF InsertMember
    <3>3. /\ \A r \in items : r.google_id = run[w].cur => r \in Albums
          /\ \A r \in items : r.google_id = run[w].member => r \in MediaItems
      BY <1>0, <3>2, IdAssumption DEF RowInv, RowsInv, Albums, MediaItems, Item, MediaTypes
    <3>4. ForeignKeysHold'
      BY <3>1, <3>3 DEF RowInv, ForeignKeysHold, Albums, MediaItems, Exists
    <3> QED
      BY <2>0, <3>1, <3>4 DEF RowInv, RowsInv, CheckedMemberStays, Exists
  <2> QED
    BY <1>4, <2>1, <2>2, <2>3, <2>4, StepRows
<1>5. CASE UNCHANGED vars
  BY <1>5
  DEF vars, RowInv, RowsInv, ForeignKeysHold, CheckedMemberStays, Albums, MediaItems, Exists
<1> QED
  BY <1>1, <1>2, <1>3, <1>4, <1>5 DEF Next, Rest

-----------------------------------------------------------------------------
(* The theorems.                                                           *)

\* The inductive invariant: every reachable state satisfies all the layers.
THEOREM Inductive == Spec => []IInv
<1> DEFINE Inv == ControlInv /\ InodeInv /\ RowInv
<1>1. Init => InodeInv /\ RowInv
  <2> SUFFICES ASSUME Init PROVE InodeInv /\ RowInv
    OBVIOUS
  <2>1. CounterInv /\ HeldInv
    BY NoneAssumption DEF Init, IdleRun, CounterInv, HeldInv, Holding
  <2> QED
    BY <2>1
    DEF Init, IdleRun, InodeInv, InodesNeverReused, KeysUnique, RowInv, RowsInv,
        ForeignKeysHold, CheckedMemberStays
<1>2. Inv /\ [Next]_vars => Inv'
  BY ControlStep, InodeStep, RowStep
<1>3. Spec => []Inv
  <2>1. Init => Inv
    BY <1>1, ControlInit
  <2> QED
    BY <2>1, <1>2, PTL DEF Spec
<1>4. Inv => IInv
  BY DEF InodeInv, RowInv, IInv
<1> QED
  BY <1>3, <1>4, PTL

\* No two rows of the cache share an inode or an id, whichever threads store them
\* (db/inode_db.rs:42-57, db/mod.rs:421-437).
THEOREM KeysAreUnique == Spec => []KeysUnique
<1>1. IInv => KeysUnique
  BY DEF IInv
<1> QED
  BY <1>1, Inductive, PTL

\* No inode is ever given to two items, over any number of restarts (db/inode_db.rs:31).
THEOREM InodesUnique == Spec => []InodesNeverReused
<1>1. IInv => InodesNeverReused
  BY DEF IInv
<1> QED
  BY <1>1, Inductive, PTL

\* Every membership joins an album and a media item of the cache (db/mod.rs:125-126).
THEOREM MembershipsRefer == Spec => []ForeignKeysHold
<1>1. IInv => ForeignKeysHold
  BY DEF IInv
<1> QED
  BY <1>1, Inductive, PTL

\* The check of background_update.rs:80 is still good at line 83.
THEOREM CheckHolds == Spec => []CheckedMemberStays
<1>1. IInv => CheckedMemberStays
  BY DEF IInv
<1> QED
  BY <1>1, Inductive, PTL

\* What a step does to the cache, as the catalog and the properties see it.
LEMMA CacheSteps ==
  ASSUME IInv, [Next]_vars
  PROVE  \/ UNCHANGED <<items, in_album, issued>>
         \/ \E w \in Workers, n \in Names : UpsertItem(w, n)
         \/ \E w \in Workers : InsertMember(w)
<1>1. ASSUME NEW w \in Workers, Step(w)
      PROVE  \/ UNCHANGED <<items, in_album, issued>>
             \/ \E n \in Names : UpsertItem(w, n)
             \/ InsertMember(w)
  BY <1>1, StepRows DEF IInv, NoRow, CheckMember
<1> QED
  BY <1>1 DEF Next, Rest, vars, Start, Exit, BeginUpdate

\* A membership is lost only with the replacement of a row at one of its ends
\* (db/mod.rs:433): nothing else in the updates removes one.
THEOREM MembershipLoss == Spec => LostMembershipIsReplacement
<1> DEFINE Loss == \A p \in in_album \ in_album' :
                     \E r \in items \ items' : r.google_id \in {p.album, p.media}
<1>1. ASSUME IInv, [Next]_vars PROVE [Loss]_vars
  <2>1. CASE UNCHANGED in_album
    BY <2>1
  <2>2. ASSUME NEW w \in Workers, NEW n \in Names, UpsertItem(w, n) PROVE Loss
    <3>1. Holding(w)
      BY <2>2 DEF UpsertItem, Holding
    <3>2. \A r \in items : r.inode # run[w].inode
      BY <1>1, <3>1 DEF IInv, HeldInv, InodesNeverReused
    <3>3. \A r \in items : r.google_id = run[w].cur => r \notin items'
      BY <2>2, <3>2 DEF UpsertItem, UpsertX
    <3>4. ForeignKeysHold
      BY <1>1 DEF IInv
    <3> QED
      BY <2>2, <3>3, <3>4 DEF UpsertItem, UpsertX, ForeignKeysHold, Albums, MediaItems
  <2>3. ASSUME NEW w \in Workers, InsertMember(w) PROVE Loss
    BY <2>3 DEF InsertMember, UpsertMediaItemInAlbum
  <2> QED
    BY <1>1, <2>1, <2>2, <2>3, CacheSteps
<1> QED
  BY <1>1, Inductive, PTL DEF Spec, LostMembershipIsReplacement

-----------------------------------------------------------------------------
(* Runs come to their end.                                                 *)

\* A step of a run takes it nearer to its end (background_update.rs:48-101, 140-174).
LEMMA StepNearer ==
  ASSUME ControlInv, NEW w \in Workers, Step(w)
  PROVE  Nearer(run'[w], run[w])
<1>0. run \in [Workers -> Run]
  BY DEF ControlInv, TypeOK
<1>1. ASSUME LockRemote(w) PROVE Nearer(run'[w], run[w])
  BY <1>0, <1>1 DEF LockRemote, Goto, Nearer, Listing, Less, Stage, Run
<1>2. ASSUME LockPoisoned(w) PROVE Nearer(run'[w], run[w])
  BY <1>0, <1>2 DEF LockPoisoned, Goto, Nearer, Listing, Less, Stage, Run, EndRun, IdleRun
<1>3. ASSUME NEW ids \in SUBSET GoogleIds, FetchList(w, ids) PROVE Nearer(run'[w], run[w])
  BY <1>0, <1>3 DEF FetchList, Goto, Nearer, Listing, Less, Stage, Run
<1>4. ASSUME NEW ids \in SUBSET MediaIds, FetchAlbum(w, ids) PROVE Nearer(run'[w], run[w])
  BY <1>0, <1>4 DEF FetchAlbum, Goto, Nearer, Listing, Less, Stage, Run
<1>5. ASSUME FetchFails(w) PROVE Nearer(run'[w], run[w])
  BY <1>0, <1>5 DEF FetchFails, Goto, Nearer, Listing, Less, Stage, Run, EndRun, IdleRun
<1>6. ASSUME FetchPanics(w) PROVE Nearer(run'[w], run[w])
  BY <1>0, <1>6 DEF FetchPanics, Goto, Nearer, Listing, Less, Stage, Run, EndRun, IdleRun
<1>7. ASSUME NEW id \in GoogleIds, UpdateInode(w, id) PROVE Nearer(run'[w], run[w])
  BY <1>0, <1>7 DEF UpdateInode, Goto, Nearer, Listing, Less, Stage, Run
<1>8. ASSUME NEW id \in GoogleIds, UpdateInodeFails(w, id) PROVE Nearer(run'[w], run[w])
  BY <1>0, <1>8 DEF UpdateInodeFails, Goto, Nearer, Listing, Less, Stage, Run, AfterItem
<1>9. ASSUME SelectInode(w) PROVE Nearer(run'[w], run[w])
  BY <1>0, <1>9 DEF SelectInode, Goto, Nearer, Listing, Less, Stage, Run
<1>10. ASSUME SelectInodeFails(w) PROVE Nearer(run'[w], run[w])
  BY <1>0, <1>10 DEF SelectInodeFails, Goto, Nearer, Listing, Less, Stage, Run, AfterItem
<1>11. ASSUME NEW n \in Names, UpsertItem(w, n) PROVE Nearer(run'[w], run[w])
  BY <1>0, <1>11 DEF UpsertItem, Goto, Nearer, Listing, Less, Stage, Run, AfterItem
<1>12. ASSUME UpsertItemFails(w) PROVE Nearer(run'[w], run[w])
  BY <1>0, <1>12 DEF UpsertItemFails, Goto, Nearer, Listing, Less, Stage, Run, AfterItem
<1>13. ASSUME NEW m \in MediaIds, CheckMember(w, m) PROVE Nearer(run'[w], run[w])
  BY <1>0, <1>13 DEF CheckMember, Goto, Nearer, Listing, Less, Stage, Run
<1>14. ASSUME ExistsPanics(w) PROVE Nearer(run'[w], run[w])
  BY <1>0, <1>14 DEF ExistsPanics, Goto, Nearer, Listing, Less, Stage, Run, EndRun, IdleRun
<1>15. ASSUME InsertMember(w) PROVE Nearer(run'[w], run[w])
  BY <1>0, <1>15 DEF InsertMember, Goto, Nearer, Listing, Less, Stage, Run
<1>16. ASSUME InsertMemberFails(w) PROVE Nearer(run'[w], run[w])
  BY <1>0, <1>16 DEF InsertMemberFails, Goto, Nearer, Listing, Less, Stage, Run
<1>17. ASSUME EndAlbum(w) PROVE Nearer(run'[w], run[w])
  BY <1>0, <1>17 DEF EndAlbum, Goto, Nearer, Listing, Less, Stage, Run
<1>18. ASSUME EndUpdate(w) PROVE Nearer(run'[w], run[w])
  BY <1>0, <1>18 DEF EndUpdate, Goto, Nearer, Listing, Less, Stage, Run, EndRun, IdleRun
<1> QED
  BY <1>1, <1>2, <1>3, <1>4, <1>5, <1>6, <1>7, <1>8, <1>9, <1>10, <1>11,
     <1>12, <1>13, <1>14, <1>15, <1>16, <1>17, <1>18 DEF Step, RemoteStep, DbStep

\* Of the steps of the process, only those of a run and the end of all change a run, and
\* the start of one.
THEOREM RunsComeNearer == Spec => RunsShrink
<1> DEFINE Shrink == \A w \in Workers :
                       run'[w] # run[w] => run[w].pc = "idle" \/ Nearer(run'[w], run[w])
<1>1. ASSUME IInv, [Next]_vars PROVE Shrink
  <2>0. ControlInv /\ run \in [Workers -> Run]
    BY <1>1 DEF IInv, ControlInv, TypeOK
  <2>1. CASE Exit
    BY <2>1 DEF Exit, IdleRun, Nearer
  <2>2. ASSUME NEW w \in Workers, NEW kind \in MediaTypes, BeginUpdate(w, kind)
        PROVE  Shrink
    BY <2>0, <2>2 DEF BeginUpdate, Goto
  <2>3. ASSUME NEW w \in Workers, Step(w) PROVE Shrink
    <3>1. \A v \in Workers \ {w} : run'[v] = run[v]
      BY <2>0, <2>3, StepGoes, GotoKeeps DEF ControlInv
    <3> QED
      BY <2>0, <2>3, <3>1, StepNearer
  <2>4. CASE UNCHANGED run
    BY <2>4
  <2> QED
    BY <1>1, <2>1, <2>2, <2>3, <2>4 DEF Next, Start, Rest, vars
<1> QED
  BY <1>1, Inductive, PTL DEF Spec, RunsShrink

\* One run is nearer to its end than the other, which has not ended.
NearerPairs == {p \in Run \X Run : p[2].pc # "idle" /\ Nearer(p[1], p[2])}

\* If the library has finitely many items there is no endless sequence of runs, each nearer
\* to its end than the one before: with RunsComeNearer, a run takes finitely many steps
\* until it ends, whatever the library and the cache answer (background_update.rs:48-101).
THEOREM NoRunIsEndless ==
  ASSUME IsFiniteSet(GoogleIds)
  PROVE  IsWellFoundedOn(NearerPairs, Run)
<1> SUFFICES ASSUME NEW T \in SUBSET Run, T # {}
             PROVE  \E r \in T : \A s \in T : <<s, r>> \notin NearerPairs
  BY MinWF, Zenon
<1>1. CASE \E r \in T : r.pc = "idle"
  BY <1>1 DEF NearerPairs
<1>2. CASE \A r \in T : r.pc # "idle"
  <2> DEFINE A == IF \E r \in T : ~Listing(r) THEN {r \in T : ~Listing(r)} ELSE T
  <2>1. A \subseteq T /\ A # {}
    OBVIOUS
  <2>2. PICK X \in {r.todo : r \in A} : \A r \in A : ~Less(r.todo, X)
    <3> DEFINE sets == {r.todo : r \in A}
    <3>1. sets \in SUBSET (SUBSET GoogleIds) /\ sets # {}
      BY <2>1 DEF Run
    <3>2. \A r \in A : r.todo \in sets
      OBVIOUS
    <3> HIDE DEF sets
    <3>3. \E S \in sets : \A U \in sets : ~Less(U, S)
      BY <3>1, SomeSetIsLeast DEF Less
    <3>4. \E S \in sets : \A r \in A : ~Less(r.todo, S)
      BY <3>2, <3>3
    <3> QED
      BY <3>4 DEF sets
  <2> DEFINE B == {r \in A : r.todo = X}
  <2>3. B \subseteq T /\ B # {}
    BY <2>1, <2>2
  <2>4. PICK k \in {Stage(r.pc) : r \in B} : \A r \in B : ~(Stage(r.pc) < k)
    <3>1. {Stage(r.pc) : r \in B} \in SUBSET Nat /\ {Stage(r.pc) : r \in B} # {}
      BY <2>3 DEF Stage
    <3> QED
      BY <3>1, SomeNumberIsLeast
  <2> DEFINE C == {r \in B : Stage(r.pc) = k}
  <2>5. C \subseteq T /\ C # {}
    BY <2>3, <2>4
  <2>6. PICK Y \in {r.members : r \in C} : \A r \in C : ~Less(r.members, Y)
    <3> DEFINE sets == {r.members : r \in C}
    <3>1. sets \in SUBSET (SUBSET GoogleIds) /\ sets # {}
      BY <2>5 DEF Run, GoogleIds
    <3>2. \A r \in C : r.members \in sets
      OBVIOUS
    <3> HIDE DEF sets
    <3>3. \E S \in sets : \A U \in sets : ~Less(U, S)
      BY <3>1, SomeSetIsLeast DEF Less
    <3>4. \E S \in sets : \A r \in C : ~Less(r.members, S)
      BY <3>2, <3>3
    <3> QED
      BY <3>4 DEF sets
  <2> DEFINE D == {r \in C : r.members = Y}
  <2>7. PICK r \in D : r.pc = "member" => \A s \in D : s.pc # "members"
    BY <2>6
  <2>8. r \in T /\ r \in A /\ r.todo = X /\ Stage(r.pc) = k /\ r.members = Y
    BY <2>5, <2>7
  <2>9. ASSUME NEW s \in T, Nearer(s, r) PROVE FALSE
    <3>1. s.pc # "idle"
      BY <1>2, <2>9
    <3>2. CASE ~Listing(s) /\ (Listing(r) \/ Less(s.todo, r.todo))
      <4>1. s \in A
        BY <3>2
      <4>2. ~Listing(r)
        BY <2>8, <3>2
      <4> QED
        BY <2>2, <2>8, <3>2, <4>1, <4>2
    <3>3. CASE s.todo = r.todo /\ Stage(s.pc) <= Stage(r.pc)
      <4>1. Listing(s) => Listing(r)
        BY <3>3, <2>8 DEF Listing, Stage, Run, Pcs
      <4>2. s \in A
        BY <2>8, <4>1
      <4>3. s \in B
        BY <2>8, <3>3, <4>2
      <4>4. Stage(s.pc) = k
        BY <2>4, <2>8, <3>3, <4>3 DEF Stage
      <4>5. s \in C
        BY <4>3, <4>4
      <4>6. ~(Stage(s.pc) < Stage(r.pc))
        BY <2>8, <4>4 DEF Stage
      <4>7. ~Less(s.members, r.members)
        BY <2>6, <2>8, <4>5
      <4>8. ~(s.members = r.members /\ s.pc = "members" /\ r.pc = "member")
        BY <2>7, <2>8, <4>5
      <4>9. ~Less(s.todo, r.todo)
        BY <3>3 DEF Less
      <4>10. ~(~Listing(s) /\ Listing(r))
        BY <2>8
      <4> QED
        BY <2>9, <3>1, <4>6, <4>7, <4>8, <4>9, <4>10 DEF Nearer
    <3> QED
      BY <2>9, <3>1, <3>2, <3>3 DEF Nearer, Stage
  <2> QED
    BY <2>8, <2>9 DEF NearerPairs
<1> QED
  BY <1>1, <1>2

-----------------------------------------------------------------------------
(* The refinement.                                                         *)

\* What a step does to the cache is a step of the Catalog, or none (db/mod.rs:349-437).
LEMMA CatalogStep ==
  ASSUME IInv, [Next]_vars
  PROVE  [CatalogOfRows!CatalogNext]_(CatalogOfRows!catalogVars)
<1>1. CASE UNCHANGED <<items, in_album, issued>>
  BY <1>1 DEF CatalogOfRows!catalogVars
<1>2. ASSUME NEW w \in Workers, NEW n \in Names, UpsertItem(w, n)
      PROVE  CatalogOfRows!CatalogNext
  <2>1. /\ run[w].cur \in GoogleIds
        /\ run[w].kind \in MediaTypes
        /\ run[w].kind = "album" => run[w].cur \in AlbumIds
        /\ run[w].kind = "media_item" => run[w].cur \in MediaIds
    BY <1>2, StoredKind DEF IInv, UpsertItem
  <2>2. /\ next_inode # <<>>
        /\ run[w].inode \in (FirstInode + 1)..next_inode[1]
        /\ next_inode[1] \in FirstInode..MaxInode
        /\ \A x \in issued : x.inode # run[w].inode
    BY <1>2
    DEF IInv, ControlInv, ProcessInv, HeldInv, CounterInv, Holding, UpsertItem
  <2>3. run[w].inode \in ((FirstInode + 1)..MaxInode) \ CatalogOfRows!IssuedInodes
    BY <2>2, BoundsAssumption DEF CatalogOfRows!IssuedInodes, FirstInode
  <2>4. CatalogOfRows!Upsert(run[w].cur, run[w].kind, n)
    BY <1>2, <2>3
    DEF UpsertItem, UpsertX, NextPlace, CatalogOfRows!Upsert, CatalogOfRows!UpsertX,
        CatalogOfRows!NextPlace
  <2> QED
    BY <2>1, <2>4
    DEF MediaTypes, CatalogOfRows!CatalogNext, CatalogOfRows!UpsertAlbum,
        CatalogOfRows!UpsertMediaItem
<1>3. ASSUME NEW w \in Workers, InsertMember(w)
      PROVE  [CatalogOfRows!CatalogNext]_(CatalogOfRows!catalogVars)
  <2>1. run[w].cur \in AlbumIds /\ run[w].member \in MediaIds
    BY <1>3, MemberKind DEF IInv, InsertMember
  <2>2. CASE Exists(run[w].cur) /\ Exists(run[w].member)
    <3>1. CatalogOfRows!AddToAlbum(run[w].cur, run[w].member)
      BY <1>3, <2>2
      DEF InsertMember, UpsertMediaItemInAlbum, Exists, CatalogOfRows!AddToAlbum,
          CatalogOfRows!UpsertMediaItemInAlbum, CatalogOfRows!Exists
    <3> QED
      BY <2>1, <3>1 DEF CatalogOfRows!CatalogNext
  <2>3. CASE ~(Exists(run[w].cur) /\ Exists(run[w].member))
    BY <1>3, <2>3 DEF InsertMember, UpsertMediaItemInAlbum, CatalogOfRows!catalogVars
  <2> QED
    BY <2>2, <2>3
<1> QED
  BY <1>1, <1>2, <1>3, CacheSteps

\* The updates implement the Catalog: the allocations, the upserts, the checks and the
\* failures of all threads, and the restarts, amount to atomic upserts under inodes
\* never used before and to memberships between rows that are there.
THEOREM Refinement == Spec => RefinesCatalog
<1>1. Init => CatalogOfRows!CatalogInit
  BY DEF Init, CatalogOfRows!CatalogInit
<1>2. IInv /\ [Next]_vars => [CatalogOfRows!CatalogNext]_(CatalogOfRows!catalogVars)
  BY CatalogStep
<1> QED
  BY <1>1, <1>2, Inductive, PTL DEF Spec, RefinesCatalog, CatalogOfRows!CatalogSpec
=============================================================================
