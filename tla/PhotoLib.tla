------------------------------ MODULE PhotoLib ------------------------------
(***************************************************************************)
(* A listing of the remote library, page after page (media_items, albums   *)
(* and album in src/src/photolib/mod.rs), while the library changes.       *)
(*                                                                         *)
(* Of the service the code knows no more than that a page may come with a  *)
(* token for the next one.  Here a token is a place in the order of the    *)
(* listing: the page after it starts there, and a token that comes with a  *)
(* page is a later place.  A page without items comes with an empty list   *)
(* or with none.                                                           *)
(***************************************************************************)
EXTENDS Integers, FiniteSets

CONSTANTS LastId,    \* items are numbered in the order of the listing
          PageSize,  \* most items of a page
          Faults     \* what can go wrong: see Fault

ASSUME SizesAssumption == LastId \in Nat /\ PageSize \in Nat \ {0}

Fault == {"remote",      \* a request fails
          "incomplete"}  \* an item comes without an id or a name

ASSUME FaultsAssumption == Faults \subseteq Fault

Ids == 1..LastId

\* No token: the listing starts.
None == 0

Kinds == {"media_items", "albums", "album"}

VARIABLES library, kept, seen, answer,  \* see Listing
          call  \* the call that is being made, or the last one

vars == <<library, kept, seen, answer, call>>

\* all is what was pushed to the vector, by how often: the order of its items does not
\* matter to the updates.
Calls == [pc : {"idle", "request"}, kind : Kinds, page_token : 0..LastId, all : [Ids -> Nat]]

Nothing == [i \in Ids |-> 0]

NoAnswer == [outcome |-> "none", all |-> Nothing]

TypeOK ==
  /\ library \subseteq Ids /\ kept \subseteq Ids /\ seen \subseteq Ids
  /\ answer \in [outcome : {"none", "ok", "error", "panic"}, all : [Ids -> Nat]]
  /\ call \in Calls

Init ==
  /\ library \in SUBSET Ids
  /\ kept = library
  /\ seen = library
  /\ answer = NoAnswer
  /\ call = [pc |-> "idle", kind |-> "media_items", page_token |-> None, all |-> Nothing]

\* Other clients add and remove items.
Change ==
  /\ \E i \in Ids : \/ i \notin library /\ library' = library \cup {i}
                    \/ i \in library /\ library' = library \ {i}
  /\ kept' = kept \cap library'
  /\ seen' = seen \cup library'
  /\ UNCHANGED <<answer, call>>

Call(kind) ==
  /\ call.pc = "idle"
  /\ call' = [pc |-> "request", kind |-> kind, page_token |-> None, all |-> Nothing]
  /\ kept' = library
  /\ seen' = library
  /\ answer' = NoAnswer
  /\ UNCHANGED library

Return(outcome, all) ==
  /\ call' = [call EXCEPT !.pc = "idle"]
  /\ answer' = [outcome |-> outcome, all |-> all]
  /\ UNCHANGED <<library, kept, seen>>

-----------------------------------------------------------------------------
(* One round of the loop.                                                  *)

\* A wrong variant: every request asks for the first page.
NoToken == None

\* The token of the page before goes with the request, if there was one.
TokenSent == call.page_token

\* What the service may answer: the items up to a place, with a token for that place,
\* or without one if nothing comes after it.
PageUpTo(next) == {i \in library : TokenSent < i /\ i <= next}

MayAnswer(next, more) ==
  /\ Cardinality(PageUpTo(next)) <= PageSize
  /\ IF more THEN next > TokenSent ELSE \A i \in library : i <= next

Pushed(page) == [i \in Ids |-> IF i \in page THEN call.all[i] + 1 ELSE call.all[i]]

NextPage(next) ==
  /\ call.pc = "request"
  /\ MayAnswer(next, TRUE)
  /\ call' = [call EXCEPT !.page_token = next, !.all = Pushed(PageUpTo(next))]
  /\ UNCHANGED <<library, kept, seen, answer>>

LastPage(next) ==
  /\ call.pc = "request"
  /\ MayAnswer(next, FALSE)
  /\ Return("ok", Pushed(PageUpTo(next)))

\* albums() and album() unwrap the list of a page that comes without one, over which
\* media_items() goes on; all three unwrap the id and the name of an item.
PagePanics(next, more) ==
  /\ call.pc = "request"
  /\ MayAnswer(next, more)
  /\ IF PageUpTo(next) = {} THEN call.kind # "media_items"
                            ELSE "incomplete" \in Faults
  /\ Return("panic", Nothing)

\* A wrong variant: what was listed before the error is returned.
RequestFailsWithPages ==
  /\ "remote" \in Faults
  /\ call.pc = "request"
  /\ Return("ok", call.all)

\* The pages before are dropped.
RequestFails ==
  /\ "remote" \in Faults
  /\ call.pc = "request"
  /\ Return("error", Nothing)

Round ==
  \/ \E next \in TokenSent..LastId : NextPage(next)
  \/ \E next \in TokenSent..LastId : LastPage(next)
  \/ \E next \in TokenSent..LastId, more \in BOOLEAN : PagePanics(next, more)
  \/ RequestFails

Next == Change \/ (\E kind \in Kinds : Call(kind)) \/ Round

Spec == Init /\ [][Next]_vars

\* Requests are answered; nobody has to begin a call or to change the library.
FairSpec == Spec /\ WF_vars(Round)

-----------------------------------------------------------------------------
(* Properties.                                                             *)

\* No item comes twice, though the library changes between the pages: an update stores
\* an item once (photolib/mod.rs:95-100).
NoDuplicates == \A i \in Ids : answer.all[i] <= 1

\* A listing misses nothing that was there all the time and makes nothing up, on any
\* number of pages, and a call that fails on a later page returns nothing of the pages
\* before (photolib/mod.rs:79-114).
Listed(all) == {i \in Ids : all[i] > 0}

Promise == INSTANCE Listing WITH
             calling <- call.pc = "request",
             answer  <- [outcome |-> answer.outcome, ids |-> Listed(answer.all)]

KeepsPromise == Promise!Spec

\* A call ends, however the library grows meanwhile, since a token is never for a place
\* before: the mutex around the library is held until then (photolib/mod.rs:79,107).
CallsEnd == call.pc = "request" ~> call.pc = "idle"

-----------------------------------------------------------------------------
(* The invariant that proves the safety properties (see PhotoLibProofs).   *)

\* What is pushed are the items up to the token, each once: all that were there since
\* the call began, and none that never was.
PagesInv ==
  /\ TypeOK
  /\ kept \subseteq library /\ library \subseteq seen
  /\ NoDuplicates
  /\ call.pc = "request" =>
       \A i \in Ids : /\ call.all[i] <= 1
                      /\ call.all[i] = 1 => i <= call.page_token /\ i \in seen
                      /\ i \in kept /\ i <= call.page_token => call.all[i] = 1
=============================================================================
