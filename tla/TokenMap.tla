------------------------------ MODULE TokenMap ------------------------------
(***************************************************************************)
(* What the token storage promises to the authenticator: a token for each  *)
(* set of scopes, known by its hash, which no other set of scopes touches  *)
(* and which is only ever followed by a newer one, or forgotten.           *)
(***************************************************************************)
EXTENDS Integers

CONSTANTS Hashes,     \* the hashes of sets of scopes
          MaxTokens   \* bound: how many tokens are issued; a larger one is newer

\* No token is stored.
NoToken == 0

VARIABLE tokens

TokenMapInit == tokens \in [Hashes -> {NoToken, 1}]

Renew(h) == \E new \in 1..MaxTokens : /\ new > tokens[h]
                                      /\ tokens' = [tokens EXCEPT ![h] = new]

Forget(h) == tokens' = [tokens EXCEPT ![h] = NoToken]

TokenMapNext == \E h \in Hashes : Renew(h) \/ Forget(h)

TokenMapSpec == TokenMapInit /\ [][TokenMapNext]_tokens
=============================================================================
