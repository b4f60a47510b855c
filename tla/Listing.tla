------------------------------- MODULE Listing -------------------------------
(***************************************************************************)
(* What a listing call of the remote library promises to a background      *)
(* update: it ends with one answer, which has all that was in the library  *)
(* for the whole call and nothing that was never in it, or with no listing *)
(* at all.  Other clients change the library meanwhile.                    *)
(***************************************************************************)
CONSTANT Ids  \* of what may be listed

VARIABLES
  library,  \* what is in the remote library
  calling,  \* the call has not returned
  kept,     \* history: what was in the library all the time since the call began
  seen,     \* history: what was in it at some time since
  answer    \* what the last call returned, or NoAnswer

listingVars == <<library, calling, kept, seen, answer>>

NoAnswer == [outcome |-> "none", ids |-> {}]

Init ==
  /\ library \in SUBSET Ids
  /\ calling = FALSE
  /\ kept = library
  /\ seen = library
  /\ answer = NoAnswer

Call ==
  /\ ~calling
  /\ calling' = TRUE
  /\ kept' = library
  /\ seen' = library
  /\ answer' = NoAnswer
  /\ UNCHANGED library

Change ==
  /\ library' \in SUBSET Ids
  /\ kept' = kept \cap library'
  /\ seen' = seen \cup library'
  /\ UNCHANGED <<calling, answer>>

Return(a) ==
  /\ calling
  /\ calling' = FALSE
  /\ answer' = a
  /\ UNCHANGED <<library, kept, seen>>

Succeed == \E ids \in SUBSET Ids : /\ kept \subseteq ids /\ ids \subseteq seen
                                   /\ Return([outcome |-> "ok", ids |-> ids])

Fail == \E o \in {"error", "panic"} : Return([outcome |-> o, ids |-> {}])

Next == Call \/ Change \/ Succeed \/ Fail

Spec == Init /\ [][Next]_listingVars
=============================================================================
