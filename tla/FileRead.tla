------------------------------ MODULE FileRead ------------------------------
(***************************************************************************)
(* Reading pictures through open handles (open, read and release in        *)
(* src/src/photofs/mod.rs), while the remote library changes them.         *)
(*                                                                         *)
(* open() fetches the whole picture and keeps it under a handle; read()    *)
(* answers from that.  Files are opened for direct I/O: each read of a     *)
(* process comes to the handler, with the offset it has got to.            *)
(***************************************************************************)
EXTENDS OpenFileHandles

CONSTANTS Readers,      \* processes, each with at most one file open
          Inodes,       \* pictures
          MaxLen,       \* bound: bytes of a picture
          MaxVersions   \* bound: how often pictures change

ASSUME BoundsAssumption == MaxLen \in Nat /\ MaxVersions \in Nat

VARIABLES
  remote,      \* remote[ino] is the picture as the library has it
  versions,    \* how often pictures have changed
  open_files,  \* handle -> what was opened
  reader       \* reader[p] is the open file of process p

vars == <<remote, versions, open_files, reader>>

\* A picture is its version and its length: no two pictures are of one version.
Data == [version : 0..MaxVersions, len : 0..MaxLen]

Entry == [inode : Inodes, data : Data]

\* Where a process reads: the bytes it got since it last set the offset, to from.
Reader == [state : {"closed", "open", "end"}, inode : Inodes, fh : Nat,
           data : Data,                    \* history: the picture it opened
           from : 0..MaxLen, offset : 0..MaxLen,
           got : SUBSET [version : 0..MaxVersions, at : 0..MaxLen]]

Reading(p) == reader[p].state # "closed"

TypeOK ==
  /\ remote \in [Inodes -> Data]
  /\ versions \in 0..MaxVersions
  /\ DOMAIN open_files \subseteq Nat /\ IsFiniteSet(DOMAIN open_files)
  /\ open_files \in [DOMAIN open_files -> Entry]
  /\ reader \in [Readers -> Reader]

Init ==
  /\ remote \in [Inodes -> [version : {0}, len : 0..MaxLen]]
  /\ versions = 0
  /\ open_files = NoHandles
  /\ \E ino \in Inodes :
       reader = [p \in Readers |->
                   [state |-> "closed", inode |-> ino, fh |-> 0, data |-> remote[ino],
                    from |-> 0, offset |-> 0, got |-> {}]]

-----------------------------------------------------------------------------
\* Another client edits the picture.
Edit(ino, len) ==
  /\ versions < MaxVersions
  /\ versions' = versions + 1
  /\ remote' = [remote EXCEPT ![ino] = [version |-> versions', len |-> len]]
  /\ UNCHANGED <<open_files, reader>>

\* The handle goes to the process with the answer.
Open(p, ino) ==
  LET fh == FreeHandle(open_files)
  IN  /\ reader[p].state = "closed"
      /\ open_files' = WithHandle(open_files, fh, [inode |-> ino, data |-> remote[ino]])
      /\ reader' = [reader EXCEPT ![p] =
                      [state |-> "open", inode |-> ino, fh |-> fh, data |-> remote[ino],
                       from |-> 0, offset |-> 0, got |-> {}]]
      /\ UNCHANGED <<remote, versions>>

\* A wrong variant: the size is taken for an offset.
SliceToSize(offset, size, len) == IF size < len THEN size ELSE len

SliceEnd(offset, size, len) == IF offset + size < len THEN offset + size ELSE len

\* The bytes of a picture from one offset up to another.
Slice(data, first, end) == {[version |-> data.version, at |-> i] : i \in first..(end - 1)}

\* The answer of read(): nothing past the end.
ReadResponse(data, offset, size) ==
  IF offset >= data.len THEN {}
                        ELSE Slice(data, offset, SliceEnd(offset, size, data.len))

\* The same open file after its process read or went to an offset.
Moved(r, state, from, offset, got) ==
  [state |-> state, inode |-> r.inode, fh |-> r.fh, data |-> r.data,
   from |-> from, offset |-> offset, got |-> got]

\* The error answers for a handle that is not open, or open for another inode, leave the
\* process where it is.
Read(p, size) ==
  LET r     == reader[p]
      entry == open_files[r.fh]
      data  == ReadResponse(entry.data, r.offset, size)
  IN  /\ r.state = "open"
      /\ r.fh \in DOMAIN open_files /\ entry.inode = r.inode
      /\ reader' = [reader EXCEPT ![p] =
                      Moved(r, IF data = {} THEN "end" ELSE "open",
                            r.from, r.offset + Cardinality(data), r.got \cup data)]
      /\ UNCHANGED <<remote, versions, open_files>>

\* The process goes to an offset, to read on from there.
Seek(p, offset) ==
  /\ Reading(p)
  /\ reader' = [reader EXCEPT ![p] = Moved(reader[p], "open", offset, offset, {})]
  /\ UNCHANGED <<remote, versions, open_files>>

Release(p) ==
  /\ Reading(p)
  /\ open_files' = WithoutHandle(open_files, reader[p].fh)
  /\ reader' = [reader EXCEPT ![p] = Moved(reader[p], "closed", 0, 0, {})]
  /\ UNCHANGED <<remote, versions>>

Next ==
  \/ \E ino \in Inodes, len \in 0..MaxLen : Edit(ino, len)
  \/ \E p \in Readers :
       \/ \E ino \in Inodes : Open(p, ino)
       \/ \E size \in 1..MaxLen : Read(p, size)
       \/ \E offset \in 0..MaxLen : Seek(p, offset)
       \/ Release(p)

Spec == Init /\ [][Next]_vars

-----------------------------------------------------------------------------
(* Properties.                                                             *)

\* What a process reads in order is what it opened, without a gap, though the picture is
\* edited and others open, read and close theirs (photofs/mod.rs:408-441).
ReadsWhatWasOpened ==
  \A p \in Readers :
    Reading(p) => LET r == reader[p] IN r.got = Slice(r.data, r.from, r.offset)

\* A process that is told of the end has all there is after where it began.
EndIsTheEnd ==
  \A p \in Readers :
    reader[p].state = "end" =>
      LET r == reader[p] IN r.got = Slice(r.data, r.from, r.data.len)

-----------------------------------------------------------------------------
(* The invariant that proves the properties (see FileReadProofs).          *)

\* The handles of two processes differ, and each stands for what its process opened.
HandlesInv ==
  /\ \A p, q \in Readers : Reading(p) /\ Reading(q) /\ reader[p].fh = reader[q].fh => p = q
  /\ \A p \in Readers :
       Reading(p) => /\ reader[p].fh \in DOMAIN open_files
                     /\ open_files[reader[p].fh] =
                          [inode |-> reader[p].inode, data |-> reader[p].data]

\* Reading goes forward, and beyond the end only by a seek.
OffsetInv ==
  \A p \in Readers :
    Reading(p) => /\ reader[p].from <= reader[p].offset
                  /\ \/ reader[p].offset = reader[p].from
                     \/ reader[p].offset <= reader[p].data.len

FileInv == TypeOK /\ HandlesInv /\ OffsetInv /\ ReadsWhatWasOpened /\ EndIsTheEnd
=============================================================================
