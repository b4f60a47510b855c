---------------------------- MODULE ReadDirProofs ----------------------------
(***************************************************************************)
(* Proofs about ReadDir, for listings of any length, buffers of any size   *)
(* and any number of scans.                                                *)
(***************************************************************************)
EXTENDS ReadDir, TLAPS

Inv ==
  /\ len \in Nat \ {0}
  /\ cookie \in Nat
  /\ got \in Seq(Nat)
  /\ calls \in Nat
  /\ done \in BOOLEAN
  /\ ScanInv
  /\ InOrder
  /\ OneLostPerCall

\* An answer with entries is a run of consecutive entries that starts after what the
\* call passes over and stays within the listing (readdir).
LEMMA AnswerIsRun ==
  ASSUME len \in Nat, NEW offset \in Nat, NEW fit \in Nat, Answer(offset, fit) # <<>>
  PROVE  /\ Answer(offset, fit) \in Seq(Nat)
         /\ Len(Answer(offset, fit)) \in Nat \ {0}
         /\ ToSkip(offset) + Len(Answer(offset, fit)) <= len
         /\ \A k \in 1..Len(Answer(offset, fit)) : Answer(offset, fit)[k] = ToSkip(offset) + k
<1> DEFINE rest == len - ToSkip(offset)
           m == IF rest < fit THEN rest ELSE fit
           n == IF m < 0 THEN 0 ELSE m
<1>1. ToSkip(offset) \in Nat
  BY DEF ToSkip
<1>2. n \in Nat /\ (n # 0 => ToSkip(offset) + n <= len)
  BY <1>1
<1>3. Answer(offset, fit) = [k \in 1..n |-> ToSkip(offset) + k]
  BY DEF Answer
<1>4. n # 0
  BY <1>3
<1> HIDE DEF n
<1>5. Answer(offset, fit) \in Seq(Nat) /\ Len(Answer(offset, fit)) = n
  BY <1>1, <1>2, <1>3
<1> QED
  BY <1>2, <1>3, <1>4, <1>5

\* An answer without entries means that the call passes over the whole listing.
LEMMA AnswerIsEmpty ==
  ASSUME len \in Nat, NEW offset \in Nat, NEW fit \in Nat \ {0}, Answer(offset, fit) = <<>>
  PROVE  len <= ToSkip(offset)
<1>1. ToSkip(offset) \in Nat
  BY DEF ToSkip
<1>2. SUFFICES ASSUME len > ToSkip(offset) PROVE FALSE
  BY <1>1
<1>3. 1 \in DOMAIN Answer(offset, fit)
  BY <1>1, <1>2 DEF Answer
<1> QED
  BY <1>3

\* Appending an answer to what the kernel got.
LEMMA Appended ==
  ASSUME NEW s \in Seq(Nat), NEW r \in Seq(Nat), NEW b \in Nat,
         \A k \in 1..Len(r) : r[k] = b + k
  PROVE  /\ s \o r \in Seq(Nat)
         /\ Len(s \o r) = Len(s) + Len(r)
         /\ \A k \in 1..Len(s) : (s \o r)[k] = s[k]
         /\ \A k \in (Len(s) + 1)..(Len(s) + Len(r)) : (s \o r)[k] = b + (k - Len(s))
<1>1. Len(s) \in Nat /\ Len(r) \in Nat
  OBVIOUS
<1>2. ASSUME NEW k \in (Len(s) + 1)..(Len(s) + Len(r))
      PROVE  (s \o r)[k] = b + (k - Len(s))
  <2>1. k - Len(s) \in 1..Len(r)
    BY <1>1
  <2>2. (s \o r)[k] = r[k - Len(s)]
    BY <1>1
  <2> QED
    BY <2>1, <2>2
<1> QED
  BY <1>1, <1>2

\* A scan that starts: nothing is got yet.
LEMMA NothingGot ==
  ASSUME got = <<>>
  PROVE  got \in Seq(Nat) /\ Len(got) = 0 /\ InOrder
BY DEF InOrder

\* The invariant holds when a directory was opened.
LEMMA InvInit == Init => Inv
<1> SUFFICES ASSUME Init PROVE Inv
  OBVIOUS
<1>1. got = <<>> /\ cookie = 0 /\ calls = 0 /\ done = FALSE /\ len \in Nat \ {0}
  BY BoundsAssumption DEF Init
<1>2. ScanInv
  BY <1>1, NothingGot DEF ScanInv
<1>3. OneLostPerCall
  BY <1>1 DEF OneLostPerCall
<1> QED
  BY <1>1, <1>2, <1>3, NothingGot DEF Inv

\* One case per action; an answer is appended to what was got, past its last entry.
LEMMA InvStep == Inv /\ [Next]_vars => Inv'
<1> SUFFICES ASSUME Inv, [Next]_vars PROVE Inv'
  OBVIOUS
<1>1. ASSUME NEW fit \in 1..MaxFit, ReadSome(fit) PROVE Inv'
  <2> DEFINE b == ToSkip(cookie)
  <2>1. fit \in Nat /\ len \in Nat /\ cookie \in Nat /\ got \in Seq(Nat) /\ calls \in Nat
    BY BoundsAssumption DEF Inv
  <2> DEFINE r == Answer(cookie, fit)
             n == Len(r)
  <2>2. /\ r \in Seq(Nat)
        /\ n \in Nat \ {0}
        /\ b + n <= len
        /\ \A k \in 1..n : r[k] = b + k
    BY <1>1, <2>1, AnswerIsRun DEF ReadSome
  <2>3. b \in Nat /\ b >= cookie
    BY <2>1 DEF ToSkip
  <2>4. got' = got \o r
    BY <1>1 DEF ReadSome
  <2> HIDE DEF b, r
  <2>5. /\ got' \in Seq(Nat)
        /\ got' # <<>>
        /\ Len(got') = Len(got) + n
        /\ \A k \in 1..Len(got) : got'[k] = got[k]
        /\ \A k \in (Len(got) + 1)..Len(got') : got'[k] = b + (k - Len(got))
    <3>1. /\ got' \in Seq(Nat)
          /\ Len(got') = Len(got) + n
          /\ \A k \in 1..Len(got) : got'[k] = got[k]
          /\ \A k \in (Len(got) + 1)..(Len(got) + n) : got'[k] = b + (k - Len(got))
      BY <2>1, <2>2, <2>3, <2>4, Appended
    <3>2. got' # <<>>
      BY <3>1, <2>1, <2>2
    <3> QED
      BY <3>1, <3>2
  <2> HIDE DEF n
  <2>6. cookie' = got'[Len(got')] /\ calls' = calls + 1 /\ UNCHANGED <<len, done>> /\ ~done
    BY <1>1 DEF ReadSome, CookieOf
  <2>7. Len(got) \in Nat /\ Len(got') \in Nat /\ got'[Len(got')] = b + n
    <3>1. Len(got) \in Nat
      BY <2>1
    <3>2. Len(got') \in (Len(got) + 1)..Len(got')
      BY <2>2, <2>5, <3>1
    <3>3. got'[Len(got')] = b + (Len(got') - Len(got))
      BY <2>5, <3>2
    <3> QED
      BY <2>2, <2>3, <2>5, <3>1, <3>3
  <2>8. \A k \in 1..Len(got) : got[k] \in Nat /\ got[k] <= cookie /\ got[k] \in 1..len
    BY <2>1, <2>7 DEF Inv, ScanInv, InOrder
  <2>9. \A k \in 1..Len(got') : got'[k] \in 1..len
    <3> TAKE k \in 1..Len(got')
    <3>1. CASE k \in 1..Len(got)
      BY <3>1, <2>5, <2>8
    <3>2. CASE k \in (Len(got) + 1)..Len(got')
      <4>1. got'[k] = b + (k - Len(got))
        BY <2>5, <3>2
      <4> QED
        BY <4>1, <2>1, <2>2, <2>3, <2>5, <2>7, <3>2
    <3> QED
      BY <3>1, <3>2, <2>7
  <2>10. ScanInv'
    <3>1. cookie' = (IF got' = <<>> THEN 0 ELSE got'[Len(got')])
      BY <2>5, <2>6
    <3>2. calls' = 0 <=> got' = <<>>
      BY <2>1, <2>5, <2>6
    <3> QED
      BY <2>6, <2>9, <3>1, <3>2 DEF ScanInv
  <2>11. Len(got) \in Nat /\ Len(got') \in Nat
    BY <2>7
  <2>12. \A j, k \in 1..Len(got') : j < k => got'[j] < got'[k]
    <3> SUFFICES ASSUME NEW j \in 1..Len(got'), NEW k \in 1..Len(got'), j < k
                 PROVE  got'[j] < got'[k]
      OBVIOUS
    <3>1. CASE k \in 1..Len(got)
      <4>1. j \in 1..Len(got)
        BY <3>1, <2>11
      <4>2. got'[j] = got[j] /\ got'[k] = got[k]
        BY <2>5, <3>1, <4>1
      <4>3. got[j] < got[k]
        BY <3>1, <4>1 DEF Inv, InOrder
      <4> QED
        BY <4>2, <4>3
    <3>2. CASE k \in (Len(got) + 1)..Len(got')
      <4>1. got'[k] = b + (k - Len(got))
        BY <2>5, <3>2
      <4>2. CASE j \in 1..Len(got)
        <5>1. got'[j] \in Nat /\ got'[j] <= cookie
          BY <2>5, <2>8, <4>2
        <5> QED
          BY <4>1, <5>1, <2>1, <2>3, <2>11, <3>2
      <4>3. CASE j \in (Len(got) + 1)..Len(got')
        <5>1. got'[j] = b + (j - Len(got))
          BY <2>5, <4>3
        <5> QED
          BY <4>1, <5>1, <2>3, <2>11
      <4> QED
        BY <4>2, <4>3, <2>11
    <3> QED
      BY <3>1, <3>2, <2>11
  <2>13. InOrder'
    BY <2>12 DEF InOrder
  <2>14. OneLostPerCall'
    BY <2>1, <2>2, <2>5, <2>6, <2>7 DEF Inv, ScanInv, OneLostPerCall, ToSkip, b
  <2> QED
    BY <2>1, <2>3, <2>5, <2>6, <2>7, <2>10, <2>13, <2>14 DEF Inv
<1>2. CASE ReadEnd
  <2>1. len <= ToSkip(cookie)
    BY <1>2, AnswerIsEmpty, BoundsAssumption DEF ReadEnd, Inv
  <2>2. UNCHANGED <<len, cookie, got, calls>> /\ done' = TRUE
    BY <1>2 DEF ReadEnd
  <2>3. ScanInv'
    BY <2>1, <2>2 DEF Inv, ScanInv, ToSkip
  <2>4. InOrder' /\ OneLostPerCall'
    BY <2>2 DEF Inv, InOrder, OneLostPerCall
  <2> QED
    BY <2>2, <2>3, <2>4 DEF Inv
<1>3. CASE Rewind
  <2>1. got' = <<>> /\ cookie' = 0 /\ calls' = 0 /\ done' = FALSE /\ len' = len
    BY <1>3 DEF Rewind
  <2>2. got' \in Seq(Nat) /\ Len(got') = 0
    BY <2>1
  <2>3. ScanInv'
    BY <2>1, <2>2 DEF ScanInv
  <2>4. InOrder' /\ OneLostPerCall'
    BY <2>1, <2>2 DEF InOrder, OneLostPerCall
  <2> QED
    BY <2>1, <2>2, <2>3, <2>4 DEF Inv
<1>4. CASE UNCHANGED vars
  <2>1. UNCHANGED <<len, cookie, got, calls, done>>
    BY <1>4 DEF vars
  <2>2. ScanInv'
    BY <2>1 DEF Inv, ScanInv, ToSkip
  <2>3. InOrder' /\ OneLostPerCall'
    BY <2>1 DEF Inv, InOrder, OneLostPerCall
  <2> QED
    BY <2>1, <2>2, <2>3 DEF Inv
<1> QED
  BY <1>1, <1>2, <1>3, <1>4 DEF Next

\* The invariant holds in every state.
LEMMA InvHolds == Spec => []Inv
BY InvInit, InvStep, PTL DEF Spec

\* No entry of a directory is listed twice or out of order (photofs/mod.rs:518-534).
THEOREM EntriesInOrder == Spec => []InOrder
<1>1. Inv => InOrder
  BY DEF Inv
<1> QED
  BY <1>1, InvHolds, PTL

\* What an answer loses, in states of the invariant.
LEMMA InvLoss == Inv => OneLostPerCall /\ LossBounded
<1> SUFFICES ASSUME Inv PROVE OneLostPerCall /\ LossBounded
  OBVIOUS
<1>1. CASE calls = 0
  BY <1>1 DEF Inv, ScanInv, OneLostPerCall, LossBounded, ToSkip
<1>2. CASE calls # 0
  <2>1. got # <<>> /\ Len(got) \in Nat /\ cookie = Len(got) + (calls - 1) /\ cookie # 0
    BY <1>2 DEF Inv, ScanInv, OneLostPerCall
  <2>2. ToSkip(cookie) = Len(got) + calls
    BY <2>1 DEF Inv, ToSkip
  <2> QED
    BY <2>2 DEF Inv, ScanInv, LossBounded
<1> QED
  BY <1>1, <1>2

\* A continued listing loses one entry with every call that continues it, never more
\* (photofs/mod.rs:518 against 529).
THEOREM ExactLoss == Spec => []OneLostPerCall
BY InvLoss, InvHolds, PTL

\* A scan that has ended misses at most one entry for each of its answers
\* (photofs/mod.rs:518, rust_filesystem/mod.rs:146-152).
THEOREM LossIsBounded == Spec => []LossBounded
BY InvLoss, InvHolds, PTL

-----------------------------------------------------------------------------
(* Types.  That a scan takes no more answers than the listing has entries  *)
(* follows from the invariant: every answer has an entry of its own.       *)

Within == len \in 1..MaxEntries /\ scans \in 0..MaxScans

LEMMA WithinHolds == Spec => []Within
<1>1. Init => Within
  BY BoundsAssumption DEF Init, Within
<1>2. Within /\ [Next]_vars => Within'
  BY BoundsAssumption DEF Within, Next, vars, ReadSome, ReadEnd, Rewind
<1> QED
  BY <1>1, <1>2, PTL DEF Spec

\* The variables of a scan keep their types; the cookie and the number of answers stay
\* within the listing (photofs/mod.rs:518-534).
THEOREM ScanTypeCorrect == Spec => []TypeOK
<1>1. ASSUME Inv, Within PROVE TypeOK
  <2>1. len \in 1..MaxEntries /\ got \in Seq(Nat) /\ Len(got) \in Nat /\ MaxEntries \in Nat
    BY <1>1, BoundsAssumption DEF Inv, Within
  <2>2. \A k \in 1..Len(got) : got[k] \in 1..MaxEntries
    BY <1>1, <2>1 DEF Inv, ScanInv, Within
  <2>3. got \in Seq(1..MaxEntries)
    BY <2>1, <2>2
  <2>4. cookie \in 0..MaxEntries
    <3>1. CASE got = <<>>
      BY <1>1, <2>1, <3>1 DEF Inv, ScanInv
    <3>2. CASE got # <<>>
      BY <1>1, <2>1, <2>2, <3>2 DEF Inv, ScanInv
    <3> QED
      BY <3>1, <3>2
  <2>5. calls \in 0..MaxEntries
    <3>1. CASE calls = 0
      BY <2>1, <3>1
    <3>2. CASE calls # 0
      <4>1. got # <<>> /\ got[Len(got)] = Len(got) + (calls - 1) /\ calls \in Nat
        BY <1>1, <3>2 DEF Inv, ScanInv, OneLostPerCall
      <4>2. Len(got) \in 1..Len(got)
        BY <2>1, <4>1
      <4> QED
        BY <2>1, <2>2, <4>1, <4>2
    <3> QED
      BY <3>1, <3>2
  <2> QED
    BY <1>1, <2>1, <2>3, <2>4, <2>5 DEF Inv, Within, TypeOK
<1> QED
  BY <1>1, InvHolds, WithinHolds, PTL
=============================================================================
