--------------------------- MODULE FileReadProofs ---------------------------
(***************************************************************************)
(* Proofs about reading through handles, for any number of processes and   *)
(* pictures of any length.                                                 *)
(***************************************************************************)
EXTENDS FileRead, TableProofs

\* A slice has as many bytes as lie between its ends.
LEMMA SliceSize ==
  ASSUME NEW data \in Data, NEW first \in Nat, NEW end \in Nat, first <= end
  PROVE  Cardinality(Slice(data, first, end)) = end - first
<1> DEFINE Bytes == first..(end - 1)
           byte  == [i \in Bytes |-> [version |-> data.version, at |-> i]]
           S     == Slice(data, first, end)
<1>1. IsFiniteSet(Bytes) /\ Cardinality(Bytes) = end - first
  <2>1. CASE first = end
    <3>1. Bytes = {}
      BY <2>1
    <3> QED
      BY <3>1, <2>1, FS_EmptySet
  <2>2. CASE first # end
    BY <2>2, FS_Interval
  <2> QED
    BY <2>1, <2>2
<1>2. byte \in [Bytes -> S] /\ \A x \in S : \E i \in Bytes : byte[i] = x
  BY DEF Slice
<1>3. \A i, j \in Bytes : byte[i] = byte[j] => i = j
  OBVIOUS
<1>4. byte \in Bijection(Bytes, S)
  BY <1>2, <1>3 DEF Bijection, Injection, Surjection, IsInjective
<1>5. ExistsBijection(Bytes, S)
  BY <1>4 DEF ExistsBijection
<1> QED
  BY <1>1, <1>5, FS_Bijection

\* What read() answers: the bytes from the offset on, none only at the end, for a
\* request of at least one byte.
LEMMA ResponseIsNextSlice ==
  ASSUME NEW data \in Data, NEW offset \in Nat, NEW size \in Nat \ {0}
  PROVE  LET resp == ReadResponse(data, offset, size)
         IN  \/ offset >= data.len /\ resp = {} /\ Cardinality(resp) = 0
             \/ /\ offset < data.len /\ resp # {}
                /\ Cardinality(resp) \in 1..(data.len - offset)
                /\ resp = Slice(data, offset, offset + Cardinality(resp))
<1> DEFINE resp == ReadResponse(data, offset, size)
           last == SliceEnd(offset, size, data.len)
<1>1. data.len \in Nat
  BY BoundsAssumption DEF Data
<1>2. CASE offset >= data.len
  BY <1>2, FS_EmptySet DEF ReadResponse
<1>3. CASE offset < data.len
  <2>1. last \in Nat /\ offset < last /\ last <= data.len
    BY <1>1, <1>3 DEF SliceEnd
  <2>2. resp = Slice(data, offset, last)
    BY <1>1, <1>3 DEF ReadResponse
  <2>3. Cardinality(resp) = last - offset
    BY <2>1, <2>2, SliceSize
  <2>4. [version |-> data.version, at |-> offset] \in resp
    BY <2>1, <2>2 DEF Slice
  <2>5. offset + Cardinality(resp) = last
    BY <2>1, <2>3
  <2> QED
    BY <1>1, <1>3, <2>1, <2>2, <2>3, <2>4, <2>5
<1> QED
  BY <1>1, <1>2, <1>3

LEMMA FileInit == Init => FileInv
<1> SUFFICES ASSUME Init PROVE FileInv
  OBVIOUS
<1>1. remote \in [Inodes -> Data] /\ versions \in 0..MaxVersions
  BY BoundsAssumption DEF Init, Data
<1>2. DOMAIN open_files = {} /\ open_files \in [{} -> Entry]
  BY DEF Init, NoHandles
<1>3. PICK ino \in Inodes :
        reader = [p \in Readers |->
                    [state |-> "closed", inode |-> ino, fh |-> 0, data |-> remote[ino],
                     from |-> 0, offset |-> 0, got |-> {}]]
  BY DEF Init
<1>4. remote[ino] \in Data
  BY <1>1
<1>5. \A p \in Readers : reader[p] \in Reader /\ reader[p].state = "closed"
  BY <1>3, <1>4, BoundsAssumption DEF Reader
<1>6. reader \in [Readers -> Reader]
  BY <1>3, <1>5
<1>7. IsFiniteSet({})
  BY FS_EmptySet
<1>8. TypeOK
  BY <1>1, <1>2, <1>6, <1>7 DEF TypeOK
<1> QED
  BY <1>5, <1>8
  DEF FileInv, HandlesInv, OffsetInv, ReadsWhatWasOpened, EndIsTheEnd, Reading

-----------------------------------------------------------------------------
LEMMA EditStep ==
  ASSUME FileInv, NEW ino \in Inodes, NEW len \in 0..MaxLen, Edit(ino, len)
  PROVE  FileInv'
<1>1. versions' \in 0..MaxVersions
  BY BoundsAssumption DEF FileInv, TypeOK, Edit
<1>2. [version |-> versions', len |-> len] \in Data
  BY <1>1 DEF Data
<1>3. remote' \in [Inodes -> Data]
  BY <1>2 DEF FileInv, TypeOK, Edit
<1>4. UNCHANGED <<open_files, reader>>
  BY DEF Edit
<1>5. TypeOK'
  BY <1>1, <1>3, <1>4 DEF FileInv, TypeOK
<1> QED
  BY <1>4, <1>5
  DEF FileInv, HandlesInv, OffsetInv, ReadsWhatWasOpened, EndIsTheEnd, Reading

LEMMA OpenStep ==
  ASSUME FileInv, NEW p \in Readers, NEW ino \in Inodes, Open(p, ino)
  PROVE  FileInv'
<1> DEFINE fh == FreeHandle(open_files)
           d  == remote[ino]
           r  == [state |-> "open", inode |-> ino, fh |-> fh, data |-> d,
                  from |-> 0, offset |-> 0, got |-> {}]
<1>1. fh \notin DOMAIN open_files /\ fh \in Nat
  <2>1. IsFiniteSet(DOMAIN open_files)
    BY DEF FileInv, TypeOK
  <2>2. Cardinality(DOMAIN open_files) \in Nat
    BY <2>1, FS_CardinalityType
  <2> QED
    BY <2>1, <2>2, FreeHandleIsFree
<1>2. d \in Data
  BY DEF FileInv, TypeOK
<1>3. open_files' = WithHandle(open_files, fh, [inode |-> ino, data |-> d])
  BY DEF Open
<1>4. reader' = [reader EXCEPT ![p] = r] /\ UNCHANGED <<remote, versions>>
  BY DEF Open
<1> HIDE DEF fh, d
<1>5. reader' \in [Readers -> Reader]
  <2>1. r \in Reader
    BY <1>1, <1>2, BoundsAssumption DEF Reader
  <2> QED
    BY <2>1, <1>4 DEF FileInv, TypeOK
<1>6. /\ reader'[p] = r
      /\ \A q \in Readers \ {p} : reader'[q] = reader[q]
  BY <1>4 DEF FileInv, TypeOK
<1>7. DOMAIN open_files' = DOMAIN open_files \cup {fh}
  BY <1>3 DEF WithHandle
<1>8. /\ open_files'[fh] = [inode |-> ino, data |-> d]
      /\ \A h \in DOMAIN open_files : open_files'[h] = open_files[h]
  BY <1>1, <1>3 DEF WithHandle
<1>9. TypeOK'
  <2>1. [inode |-> ino, data |-> d] \in Entry
    BY <1>2 DEF Entry
  <2>2. \A h \in DOMAIN open_files' : open_files'[h] \in Entry
    BY <1>7, <1>8, <2>1 DEF FileInv, TypeOK
  <2>3. open_files' \in [DOMAIN open_files' -> Entry]
    BY <1>3, <2>2 DEF WithHandle
  <2>4. IsFiniteSet(DOMAIN open_files')
    BY <1>7, FS_AddElement DEF FileInv, TypeOK
  <2>5. DOMAIN open_files' \subseteq Nat
    BY <1>1, <1>7 DEF FileInv, TypeOK
  <2> QED
    BY <2>3, <2>4, <2>5, <1>4, <1>5 DEF FileInv, TypeOK
<1>10. HandlesInv'
  <2>1. \A q \in Readers \ {p} : Reading(q) => reader[q].fh # fh
    BY <1>1 DEF FileInv, HandlesInv
  <2> QED
    BY <1>6, <1>7, <1>8, <2>1 DEF FileInv, HandlesInv, Reading
<1>11. OffsetInv'
  BY <1>6 DEF FileInv, OffsetInv, Reading
<1>12. ReadsWhatWasOpened'
  <2>1. Slice(d, 0, 0) = {}
    BY DEF Slice
  <2> QED
    BY <1>6, <2>1 DEF FileInv, ReadsWhatWasOpened, Reading
<1>13. EndIsTheEnd'
  BY <1>6 DEF FileInv, EndIsTheEnd
<1> QED
  BY <1>9, <1>10, <1>11, <1>12, <1>13 DEF FileInv

\* A step of one process that leaves the table alone and its file open.
LEMMA MoveStep ==
  ASSUME FileInv, NEW p \in Readers, Reading(p), NEW r \in Reader,
         reader' = [reader EXCEPT ![p] = r], UNCHANGED <<remote, versions, open_files>>,
         r.state # "closed", r.inode = reader[p].inode, r.fh = reader[p].fh,
         r.data = reader[p].data, r.from <= r.offset,
         r.offset = r.from \/ r.offset <= r.data.len,
         r.got = Slice(r.data, r.from, r.offset),
         r.state = "end" => r.got = Slice(r.data, r.from, r.data.len)
  PROVE  FileInv'
<1>1. /\ reader' \in [Readers -> Reader] /\ reader'[p] = r
      /\ \A q \in Readers \ {p} : reader'[q] = reader[q]
  BY DEF FileInv, TypeOK
<1>2. TypeOK'
  BY <1>1 DEF FileInv, TypeOK
<1>3. HandlesInv'
  BY <1>1 DEF FileInv, HandlesInv, Reading
<1>4. OffsetInv'
  BY <1>1 DEF FileInv, OffsetInv, Reading
<1>5. ReadsWhatWasOpened'
  BY <1>1 DEF FileInv, ReadsWhatWasOpened, Reading
<1>6. EndIsTheEnd'
  BY <1>1 DEF FileInv, EndIsTheEnd
<1> QED
  BY <1>2, <1>3, <1>4, <1>5, <1>6 DEF FileInv

LEMMA SeekStep ==
  ASSUME FileInv, NEW p \in Readers, NEW offset \in 0..MaxLen, Seek(p, offset)
  PROVE  FileInv'
<1> DEFINE old == reader[p]
           r   == Moved(old, "open", offset, offset, {})
<1>1. Reading(p) /\ reader' = [reader EXCEPT ![p] = r]
  BY DEF Seek
<1>2. old \in Reader
  BY DEF FileInv, TypeOK
<1>3. r = [state |-> "open", inode |-> old.inode, fh |-> old.fh, data |-> old.data,
           from |-> offset, offset |-> offset, got |-> {}]
  BY DEF Moved
<1>4. r \in Reader
  BY <1>2, <1>3 DEF Reader
<1>5. Slice(r.data, offset, offset) = {}
  BY BoundsAssumption DEF Slice
<1>6. UNCHANGED <<remote, versions, open_files>>
  BY DEF Seek
<1>7. /\ r.state = "open" /\ r.inode = old.inode /\ r.fh = old.fh /\ r.data = old.data
      /\ r.from = offset /\ r.offset = offset /\ r.got = {}
  BY <1>3
<1>8. /\ r.from <= r.offset /\ r.offset = r.from
      /\ r.got = Slice(r.data, r.from, r.offset)
      /\ r.state # "closed" /\ r.state # "end"
  BY <1>5, <1>7, BoundsAssumption
<1> HIDE DEF r
<1> QED
  BY <1>1, <1>4, <1>6, <1>7, <1>8, MoveStep

LEMMA ReadStep ==
  ASSUME FileInv, NEW p \in Readers, NEW size \in 1..MaxLen, Read(p, size)
  PROVE  FileInv'
<1> DEFINE old  == reader[p]
           resp == ReadResponse(old.data, old.offset, size)
           n    == Cardinality(resp)
           r    == Moved(old, IF resp = {} THEN "end" ELSE "open",
                         old.from, old.offset + n, old.got \cup resp)
<1>1. old \in Reader /\ Reading(p)
  BY DEF FileInv, TypeOK, Read, Reading
<1>2. open_files[old.fh].data = old.data
  <2>1. open_files[old.fh] = [inode |-> old.inode, data |-> old.data]
    BY <1>1 DEF FileInv, HandlesInv
  <2> QED
    BY <2>1
<1>3. /\ old.data \in Data /\ old.offset \in Nat /\ old.from \in Nat
      /\ old.data.len \in Nat /\ old.data.len <= MaxLen /\ old.offset <= MaxLen
      /\ MaxLen \in Nat
  BY <1>1, BoundsAssumption DEF Reader, Data
<1>4. reader' = [reader EXCEPT ![p] = r] /\ UNCHANGED <<remote, versions, open_files>>
  BY <1>2 DEF Read
<1>5. old.from <= old.offset /\ (old.offset = old.from \/ old.offset <= old.data.len)
  BY <1>1 DEF FileInv, OffsetInv
<1>6. old.got = Slice(old.data, old.from, old.offset)
  BY <1>1 DEF FileInv, ReadsWhatWasOpened
<1>7. \/ old.offset >= old.data.len /\ resp = {} /\ n = 0
      \/ /\ old.offset < old.data.len /\ resp # {}
         /\ n \in 1..(old.data.len - old.offset)
         /\ resp = Slice(old.data, old.offset, old.offset + n)
  BY <1>3, ResponseIsNextSlice
<1> HIDE DEF resp, n
<1>8. old.offset + n \in 0..MaxLen
  BY <1>3, <1>7
<1>9. old.got \cup resp = Slice(old.data, old.from, old.offset + n)
  BY <1>3, <1>5, <1>6, <1>7 DEF Slice
<1>10. resp = {} => old.got \cup resp = Slice(old.data, old.from, old.data.len)
  <2>1. CASE resp = {} /\ old.offset = old.data.len
    BY <1>6, <2>1
  <2>2. CASE resp = {} /\ old.offset > old.data.len
    BY <1>3, <1>5, <1>6, <2>2 DEF Slice
  <2> QED
    BY <1>3, <1>7, <2>1, <2>2
<1>11. resp \in SUBSET [version : 0..MaxVersions, at : 0..MaxLen]
  <2>1. old.data.version \in 0..MaxVersions
    BY <1>3 DEF Data
  <2> QED
    BY <1>3, <1>7, <2>1 DEF Slice
<1>12. r \in Reader
  BY <1>1, <1>3, <1>8, <1>11 DEF Reader, Moved
<1>13. r.from <= r.offset /\ (r.offset = r.from \/ r.offset <= r.data.len)
  BY <1>3, <1>5, <1>7 DEF Moved
<1>14. r.state = "end" => resp = {}
  BY DEF Moved
<1>15. /\ r.state # "closed" /\ r.inode = old.inode /\ r.fh = old.fh /\ r.data = old.data
       /\ r.got = Slice(r.data, r.from, r.offset)
       /\ r.state = "end" => r.got = Slice(r.data, r.from, r.data.len)
  BY <1>9, <1>10, <1>14 DEF Moved
<1> HIDE DEF r
<1> QED
  BY <1>1, <1>4, <1>12, <1>13, <1>15, MoveStep

LEMMA ReleaseStep ==
  ASSUME FileInv, NEW p \in Readers, Release(p)
  PROVE  FileInv'
<1> DEFINE old == reader[p]
           r   == Moved(old, "closed", 0, 0, {})
<1>1. /\ Reading(p) /\ reader' = [reader EXCEPT ![p] = r]
      /\ open_files' = WithoutHandle(open_files, old.fh) /\ UNCHANGED <<remote, versions>>
  BY DEF Release
<1>2. old \in Reader
  BY DEF FileInv, TypeOK
<1>3. r \in Reader /\ r.state = "closed"
  BY <1>2, BoundsAssumption DEF Reader, Moved
<1>4. /\ reader' \in [Readers -> Reader] /\ reader'[p].state = "closed"
      /\ \A q \in Readers \ {p} : reader'[q] = reader[q]
  BY <1>1, <1>3 DEF FileInv, TypeOK
<1>5. /\ DOMAIN open_files' = DOMAIN open_files \ {old.fh}
      /\ \A h \in DOMAIN open_files \ {old.fh} : open_files'[h] = open_files[h]
  BY <1>1 DEF WithoutHandle, Restrict
<1>6. TypeOK'
  <2>1. IsFiniteSet(DOMAIN open_files')
    BY <1>5, FS_Subset DEF FileInv, TypeOK
  <2>2. open_files' \in [DOMAIN open_files' -> Entry]
    BY <1>1, <1>5 DEF FileInv, TypeOK, WithoutHandle, Restrict
  <2> QED
    BY <1>1, <1>4, <1>5, <2>1, <2>2 DEF FileInv, TypeOK
<1>7. HandlesInv'
  <2>1. \A q \in Readers \ {p} : Reading(q) => reader[q].fh # old.fh
    BY <1>1 DEF FileInv, HandlesInv
  <2> QED
    BY <1>4, <1>5, <2>1 DEF FileInv, HandlesInv, Reading
<1>8. OffsetInv'
  BY <1>4 DEF FileInv, OffsetInv, Reading
<1>9. ReadsWhatWasOpened'
  BY <1>4 DEF FileInv, ReadsWhatWasOpened, Reading
<1>10. EndIsTheEnd'
  BY <1>4 DEF FileInv, EndIsTheEnd
<1> QED
  BY <1>6, <1>7, <1>8, <1>9, <1>10 DEF FileInv

-----------------------------------------------------------------------------
\* Tables, processes and what they read fit together at every step.
THEOREM FileInductive == Spec => []FileInv
<1>1. FileInv /\ [Next]_vars => FileInv'
  <2> SUFFICES ASSUME FileInv, [Next]_vars PROVE FileInv'
    OBVIOUS
  <2>1. CASE \E ino \in Inodes, len \in 0..MaxLen : Edit(ino, len)
    BY <2>1, EditStep
  <2>2. CASE \E p \in Readers, ino \in Inodes : Open(p, ino)
    BY <2>2, OpenStep
  <2>3. CASE \E p \in Readers, size \in 1..MaxLen : Read(p, size)
    BY <2>3, ReadStep
  <2>4. CASE \E p \in Readers, offset \in 0..MaxLen : Seek(p, offset)
    BY <2>4, SeekStep
  <2>5. CASE \E p \in Readers : Release(p)
    BY <2>5, ReleaseStep
  <2>6. CASE UNCHANGED vars
    BY <2>6
    DEF vars, FileInv, TypeOK, HandlesInv, OffsetInv, ReadsWhatWasOpened, EndIsTheEnd, Reading
  <2> QED
    BY <2>1, <2>2, <2>3, <2>4, <2>5, <2>6 DEF Next
<1> QED
  BY <1>1, FileInit, PTL DEF Spec

\* A process reads what it opened, whatever becomes of the picture (photofs/mod.rs:408-441).
THEOREM ReadsAreOfOneVersion == Spec => []ReadsWhatWasOpened
<1>1. FileInv => ReadsWhatWasOpened
  BY DEF FileInv
<1> QED
  BY <1>1, FileInductive, PTL

\* The end is reported where the picture ends (photofs/mod.rs:428-435).
THEOREM EndMeansAll == Spec => []EndIsTheEnd
<1>1. FileInv => EndIsTheEnd
  BY DEF FileInv
<1> QED
  BY <1>1, FileInductive, PTL
=============================================================================
