---------------------------- MODULE PhotoLibProofs ----------------------------
(***************************************************************************)
(* Proofs about PhotoLib, for libraries and pages of any size.             *)
(***************************************************************************)
EXTENDS PhotoLib, TLAPS

\* What is asked for has a number, and no token means before the first one.
LEMMA IdsAreNumbers == Ids \subseteq Nat /\ LastId \in Nat /\ \A i \in Ids : i > None /\ i <= LastId
BY SizesAssumption DEF Ids, None

\* The vector with a page pushed to it (photolib/mod.rs:95-100).
LEMMA PushedAdds ==
  ASSUME call \in Calls, NEW page \in SUBSET Ids
  PROVE  /\ Pushed(page) \in [Ids -> Nat]
         /\ \A i \in page : Pushed(page)[i] = call.all[i] + 1
         /\ \A i \in Ids \ page : Pushed(page)[i] = call.all[i]
BY DEF Calls, Pushed

-----------------------------------------------------------------------------
(* The invariant.                                                          *)

\* The invariant holds before the first call.
LEMMA PagesInit == Init => PagesInv
<1> SUFFICES ASSUME Init PROVE PagesInv
  OBVIOUS
<1>1. Nothing \in [Ids -> Nat] /\ \A i \in Ids : Nothing[i] = 0
  BY DEF Nothing
<1>2. call \in Calls
  BY <1>1, IdsAreNumbers DEF Init, Calls, Kinds, None
<1>3. TypeOK
  BY <1>1, <1>2 DEF Init, TypeOK, NoAnswer
<1>4. NoDuplicates
  BY <1>1 DEF Init, NoAnswer, NoDuplicates
<1> QED
  BY <1>3, <1>4 DEF Init, PagesInv

\* A call begins with nothing pushed.
LEMMA CallKeeps ==
  ASSUME PagesInv, NEW kind \in Kinds, Call(kind)
  PROVE  PagesInv'
<1>1. Nothing \in [Ids -> Nat] /\ \A i \in Ids : Nothing[i] = 0
  BY DEF Nothing
<1>2. /\ call' = [pc |-> "request", kind |-> kind, page_token |-> None, all |-> Nothing]
      /\ library' = library /\ kept' = library /\ seen' = library /\ answer' = NoAnswer
  BY DEF Call
<1>3. call' \in Calls
  BY <1>1, <1>2, IdsAreNumbers DEF Calls, None
<1>4. TypeOK'
  BY <1>1, <1>2, <1>3 DEF PagesInv, TypeOK, NoAnswer
<1>5. NoDuplicates'
  BY <1>1, <1>2 DEF NoDuplicates, NoAnswer
<1>6. \A i \in Ids : /\ call'.all[i] = 0
                     /\ ~(i <= call'.page_token)
  BY <1>1, <1>2, IdsAreNumbers DEF None
<1> QED
  BY <1>2, <1>4, <1>5, <1>6 DEF PagesInv

\* The library changes: what goes is not kept, what comes is seen.
LEMMA ChangeKeeps == PagesInv /\ Change => PagesInv'
<1> SUFFICES ASSUME PagesInv, Change PROVE PagesInv'
  OBVIOUS
<1>1. /\ library' \subseteq Ids /\ UNCHANGED <<answer, call>>
      /\ kept' = kept \cap library' /\ seen' = seen \cup library'
  BY DEF Change, PagesInv, TypeOK
<1> QED
  BY <1>1 DEF PagesInv, TypeOK, NoDuplicates

\* A page of what comes after the token is pushed, up to the next place: the vector has
\* all up to that place.
LEMMA PageAdds ==
  ASSUME PagesInv, call.pc = "request", NEW next \in TokenSent..LastId
  PROVE  LET all == Pushed(PageUpTo(next))
         IN  /\ all \in [Ids -> Nat]
             /\ next \in 0..LastId
             /\ \A i \in Ids : /\ all[i] <= 1
                               /\ all[i] = 1 => i <= next /\ i \in seen
                               /\ i \in kept /\ i <= next => all[i] = 1
<1> DEFINE page == PageUpTo(next)
           all == Pushed(page)
<1>1. call \in Calls /\ call.page_token \in 0..LastId /\ call.all \in [Ids -> Nat]
  BY DEF PagesInv, TypeOK, Calls
<1>2. next \in Nat /\ call.page_token <= next /\ next <= LastId
  BY <1>1, IdsAreNumbers DEF TokenSent
<1>3. page \subseteq Ids /\ \A i \in Ids : i \in page <=> /\ i \in library
                                                         /\ call.page_token < i /\ i <= next
  BY DEF PageUpTo, TokenSent, PagesInv, TypeOK
<1> HIDE DEF page
<1>4. /\ all \in [Ids -> Nat]
      /\ \A i \in page : all[i] = call.all[i] + 1
      /\ \A i \in Ids \ page : all[i] = call.all[i]
  BY <1>1, <1>3, PushedAdds
<1> HIDE DEF all
<1>5. ASSUME NEW i \in Ids
      PROVE  /\ all[i] <= 1
             /\ all[i] = 1 => i <= next /\ i \in seen
             /\ i \in kept /\ i <= next => all[i] = 1
  <2>1. /\ call.all[i] \in Nat /\ i \in Nat
        /\ call.all[i] <= 1
        /\ call.all[i] = 1 => i <= call.page_token /\ i \in seen
        /\ i \in kept /\ i <= call.page_token => call.all[i] = 1
        /\ i \in kept => i \in library
        /\ i \in library => i \in seen
    BY <1>1, IdsAreNumbers DEF PagesInv
  <2>2. CASE i \in page
    BY <1>1, <1>2, <1>3, <1>4, <2>1, <2>2
  <2>3. CASE i \notin page
    BY <1>1, <1>2, <1>3, <1>4, <2>1, <2>3
  <2> QED
    BY <2>2, <2>3
<1> QED
  BY <1>2, <1>4, <1>5 DEF page, all

\* A call returns, with no item twice.
LEMMA ReturnKeeps ==
  ASSUME PagesInv, NEW outcome \in {"ok", "error", "panic"}, NEW all \in [Ids -> Nat],
         \A i \in Ids : all[i] <= 1, Return(outcome, all)
  PROVE  PagesInv'
<1>1. /\ call' = [call EXCEPT !.pc = "idle"] /\ UNCHANGED <<library, kept, seen>>
      /\ answer' = [outcome |-> outcome, all |-> all]
  BY DEF Return
<1>2. call' \in Calls /\ call'.pc = "idle"
  BY <1>1 DEF PagesInv, TypeOK, Calls
<1> QED
  BY <1>1, <1>2 DEF PagesInv, TypeOK, NoDuplicates

\* A call that gives up returns nothing.
LEMMA NothingReturned ==
  ASSUME PagesInv, NEW outcome \in {"error", "panic"}, Return(outcome, Nothing)
  PROVE  PagesInv'
<1>1. Nothing \in [Ids -> Nat] /\ \A i \in Ids : Nothing[i] <= 1
  BY DEF Nothing
<1> QED
  BY <1>1, ReturnKeeps

\* Every round of the loop keeps the invariant (photolib/mod.rs:79-113).
LEMMA RoundKeeps == PagesInv /\ Round => PagesInv'
<1> SUFFICES ASSUME PagesInv, Round PROVE PagesInv'
  OBVIOUS
<1>1. ASSUME NEW next \in TokenSent..LastId, NextPage(next) PROVE PagesInv'
  <2> DEFINE all == Pushed(PageUpTo(next))
  <2>1. /\ call.pc = "request" /\ UNCHANGED <<library, kept, seen, answer>>
        /\ call' = [call EXCEPT !.page_token = next, !.all = all]
    BY <1>1 DEF NextPage
  <2>2. /\ all \in [Ids -> Nat]
        /\ next \in 0..LastId
        /\ \A i \in Ids : /\ all[i] <= 1
                          /\ all[i] = 1 => i <= next /\ i \in seen
                          /\ i \in kept /\ i <= next => all[i] = 1
    BY <1>1, <2>1, PageAdds
  <2> HIDE DEF all
  <2>3. call' \in Calls /\ call'.page_token = next /\ call'.all = all
    BY <2>1, <2>2 DEF PagesInv, TypeOK, Calls
  <2> QED
    BY <2>1, <2>2, <2>3 DEF PagesInv, TypeOK, NoDuplicates
<1>2. ASSUME NEW next \in TokenSent..LastId, LastPage(next) PROVE PagesInv'
  <2>1. call.pc = "request" /\ Return("ok", Pushed(PageUpTo(next)))
    BY <1>2 DEF LastPage
  <2> QED
    BY <2>1, PageAdds, ReturnKeeps
<1>3. ASSUME NEW next, NEW more, PagePanics(next, more) PROVE PagesInv'
  BY <1>3, NothingReturned DEF PagePanics
<1>4. CASE RequestFails
  BY <1>4, NothingReturned DEF RequestFails
<1> QED
  BY <1>1, <1>2, <1>3, <1>4 DEF Round

LEMMA PagesStep == PagesInv /\ [Next]_vars => PagesInv'
<1>1. PagesInv /\ UNCHANGED vars => PagesInv'
  BY DEF PagesInv, TypeOK, NoDuplicates, vars
<1> QED
  BY <1>1, CallKeeps, ChangeKeeps, RoundKeeps DEF Next

\* The vector has what was there up to the token, each item once.
THEOREM PagesInductive == Spec => []PagesInv
BY PagesInit, PagesStep, PTL DEF Spec

\* No listing has an item twice, on any number of pages (photolib/mod.rs:95-100).
THEOREM ItemsComeOnce == Spec => []NoDuplicates
<1>1. PagesInv => NoDuplicates
  BY DEF PagesInv
<1> QED
  BY <1>1, PagesInductive, PTL

-----------------------------------------------------------------------------
(* A listing of pages is a listing.                                        *)

\* What is returned last has all that was kept, and nothing that was not seen.
LEMMA LastPageSucceeds ==
  ASSUME PagesInv, NEW next \in TokenSent..LastId, LastPage(next)
  PROVE  Promise!Succeed
<1> DEFINE all == Pushed(PageUpTo(next))
<1>1. call.pc = "request" /\ Return("ok", all) /\ \A i \in library : i <= next
  BY DEF LastPage, MayAnswer
<1>2. /\ all \in [Ids -> Nat]
      /\ \A i \in Ids : /\ all[i] <= 1
                        /\ all[i] = 1 => i <= next /\ i \in seen
                        /\ i \in kept /\ i <= next => all[i] = 1
  BY <1>1, PageAdds
<1> HIDE DEF all
<1>3. kept \subseteq library /\ library \subseteq Ids
  BY DEF PagesInv, TypeOK
<1>4. Listed(all) \in SUBSET Ids
  BY DEF Listed
<1>5. kept \subseteq Listed(all)
  BY <1>1, <1>2, <1>3 DEF Listed
<1>6. Listed(all) \subseteq seen
  BY <1>2 DEF Listed
<1>7. Promise!Return([outcome |-> "ok", ids |-> Listed(all)])
  <2>1. call'.pc = "idle"
    BY <1>1 DEF Return, PagesInv, TypeOK, Calls
  <2>2. answer' = [outcome |-> "ok", all |-> all] /\ UNCHANGED <<library, kept, seen>>
    BY <1>1 DEF Return
  <2>3. Listed(answer'.all) = Listed(all) /\ answer'.outcome = "ok"
    BY <2>2
  <2> QED
    BY <1>1, <2>1, <2>2, <2>3 DEF Promise!Return, Listed
<1> QED
  BY <1>4, <1>5, <1>6, <1>7 DEF Promise!Succeed

LEMMA GivingUpFails ==
  ASSUME PagesInv, call.pc = "request",
         NEW outcome \in {"error", "panic"}, Return(outcome, Nothing)
  PROVE  Promise!Fail
<1>1. call'.pc = "idle"
  BY DEF Return, PagesInv, TypeOK, Calls
<1>2. answer' = [outcome |-> outcome, all |-> Nothing] /\ UNCHANGED <<library, kept, seen>>
  BY DEF Return
<1>3. Listed(Nothing) = {}
  BY DEF Listed, Nothing
<1> QED
  BY <1>1, <1>2, <1>3 DEF Promise!Fail, Promise!Return, Listed

\* The pages make up a Listing: complete for what stays in the library, sound for what
\* was ever there, and nothing at all if any page fails (photolib/mod.rs:79-114).
THEOREM PagesAreAListing == Spec => KeepsPromise
<1>1. Listed(Nothing) = {}
  BY DEF Listed, Nothing
<1>2. Init => Promise!Init
  BY <1>1 DEF Init, NoAnswer, Promise!Init, Promise!NoAnswer, Listed
<1>3. PagesInv /\ [Next]_vars => [Promise!Next]_Promise!listingVars
  <2> SUFFICES ASSUME PagesInv, [Next]_vars PROVE [Promise!Next]_Promise!listingVars
    OBVIOUS
  <2>1. CASE Change
    BY <2>1 DEF Change, PagesInv, TypeOK, Promise!Next, Promise!Change, Listed
  <2>2. ASSUME NEW kind \in Kinds, Call(kind) PROVE Promise!Call
    BY <1>1, <2>2 DEF Call, Promise!Call, NoAnswer, Promise!NoAnswer, Listed
  <2>3. ASSUME NEW next \in TokenSent..LastId, NextPage(next)
        PROVE  UNCHANGED Promise!listingVars
    <3>1. call'.pc = "request" /\ call.pc = "request"
      BY <2>3 DEF NextPage, PagesInv, TypeOK, Calls
    <3> QED
      BY <2>3, <3>1 DEF NextPage, Promise!listingVars, Listed
  <2>4. ASSUME NEW next \in TokenSent..LastId, LastPage(next) PROVE Promise!Succeed
    BY <2>4, LastPageSucceeds
  <2>5. ASSUME NEW next, NEW more, PagePanics(next, more) PROVE Promise!Fail
    BY <2>5, GivingUpFails DEF PagePanics
  <2>6. ASSUME RequestFails PROVE Promise!Fail
    BY <2>6, GivingUpFails DEF RequestFails
  <2>7. CASE UNCHANGED vars
    BY <2>7 DEF vars, Promise!listingVars, Listed
  <2> QED
    BY <2>1, <2>2, <2>3, <2>4, <2>5, <2>6, <2>7 DEF Next, Round, Promise!Next
<1> QED
  BY <1>2, <1>3, PagesInductive, PTL DEF Spec, KeepsPromise, Promise!Spec
=============================================================================
