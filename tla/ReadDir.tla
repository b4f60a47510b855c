------------------------------- MODULE ReadDir -------------------------------
(***************************************************************************)
(* A directory listing, read through one open directory handle: the kernel *)
(* calls readdir with the cookie of the last entry it got until an answer  *)
(* is empty.  The handler (src/src/photofs/mod.rs) answers from a snapshot *)
(* taken by opendir; its adapter (src/src/rust_filesystem/mod.rs) adds the *)
(* entries to the answer until the kernel's buffer is full.                *)
(*                                                                         *)
(* Entries are numbered from 1; what they are does not matter here.        *)
(***************************************************************************)
EXTENDS Integers, Sequences

CONSTANTS MaxEntries,  \* bound: the length of the listing
          MaxFit,      \* bound: how many entries fit in a buffer
          MaxScans     \* bound: how often the listing is read from the start

ASSUME BoundsAssumption ==
  MaxEntries \in Nat /\ MaxFit \in Nat \ {0} /\ MaxScans \in Nat

VARIABLES
  len,     \* the entries of the snapshot
  cookie,  \* the offset of the kernel's next call
  got,     \* the entries the kernel got in this scan, in the order it got them
  calls,   \* how many answers of this scan had entries
  done,    \* the kernel got an empty answer
  scans    \* how often the kernel started from offset 0

vars == <<len, cookie, got, calls, done, scans>>

TypeOK ==
  /\ len \in 0..MaxEntries
  /\ cookie \in 0..MaxEntries
  /\ got \in Seq(1..MaxEntries)
  /\ calls \in 0..MaxEntries
  /\ done \in BOOLEAN
  /\ scans \in 0..MaxScans

\* opendir: every listing has at least the entry ".".
Init ==
  /\ len \in 1..MaxEntries
  /\ cookie = 0
  /\ got = <<>>
  /\ calls = 0
  /\ done = FALSE
  /\ scans = 0

\* A wrong variant: the cookie is taken for the last entry to send again.
SkipTooFew(offset) == IF offset = 0 THEN 0 ELSE offset - 1

\* How many entries a call passes over.
ToSkip(offset) == IF offset = 0 THEN 0 ELSE offset + 1

\* A wrong variant: the cookie of an entry is one too high.
CookieTooHigh(entry) == entry + 1

\* enumerate() counts from 0: the cookie is the number of the entry.
CookieOf(entry) == entry

\* readdir where fit entries fit: the rest of the listing, cut short.
Answer(offset, fit) ==
  LET rest == len - ToSkip(offset)
      n    == IF rest < fit THEN rest ELSE fit
  IN  [k \in 1..(IF n < 0 THEN 0 ELSE n) |-> ToSkip(offset) + k]

ReadSome(fit) ==
  /\ ~done
  /\ Answer(cookie, fit) # <<>>
  /\ got' = got \o Answer(cookie, fit)
  /\ cookie' = CookieOf(got'[Len(got')])
  /\ calls' = calls + 1
  /\ UNCHANGED <<len, done, scans>>

ReadEnd ==
  /\ ~done
  /\ Answer(cookie, MaxFit) = <<>>
  /\ done' = TRUE
  /\ UNCHANGED <<len, cookie, got, calls, scans>>

\* rewinddir, at any moment.
Rewind ==
  /\ scans < MaxScans
  /\ scans' = scans + 1
  /\ cookie' = 0
  /\ got' = <<>>
  /\ calls' = 0
  /\ done' = FALSE
  /\ UNCHANGED len

Next ==
  \/ \E fit \in 1..MaxFit : ReadSome(fit)
  \/ ReadEnd
  \/ Rewind

Spec == Init /\ [][Next]_vars

-----------------------------------------------------------------------------
(* Properties.                                                             *)

\* No entry comes twice in a scan, or out of order, however the listing is cut
\* (photofs/mod.rs:518-534, rust_filesystem/mod.rs:146-152).
InOrder == \A j, k \in 1..Len(got) : j < k => got[j] < got[k]

\* Every call but the first of a scan loses exactly one entry, the one after the cookie
\* it is called with: nothing more is ever lost, and nothing where one answer is enough.
OneLostPerCall ==
  calls > 0 => got[Len(got)] = Len(got) + (calls - 1)

\* At the end of a scan at most one entry is missing for every answer it took.
LossBounded == done => len <= Len(got) + calls

-----------------------------------------------------------------------------
(* The invariant that proves the properties (see ReadDirProofs).           *)

ScanInv ==
  /\ cookie = IF got = <<>> THEN 0 ELSE got[Len(got)]
  /\ calls = 0 <=> got = <<>>
  /\ \A k \in 1..Len(got) : got[k] \in 1..len
  /\ done => len <= ToSkip(cookie)

-----------------------------------------------------------------------------
(* What the program says of itself and does not do.                        *)

\* Entries that did not fit in an answer follow in the next ones: the adapter counts
\* "Returned {} out of {} entries" when reply.add is full (rust_filesystem/mod.rs:148).
AllListed == done => Len(got) = len
=============================================================================
