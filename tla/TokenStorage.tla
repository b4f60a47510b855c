---------------------------- MODULE TokenStorage ----------------------------
(***************************************************************************)
(* The table oauth_token_storage and the statements on it                  *)
(* (src/src/db/token_storage_db.rs), as the authenticator of the remote    *)
(* library calls them (src/src/photolib/oauth_token_storage.rs).           *)
(*                                                                         *)
(* A token is a number, larger if it was issued later; the table keeps it  *)
(* as a text, of which the code knows no more than to write and read it.   *)
(***************************************************************************)
EXTENDS Integers

CONSTANTS Half,      \* hashes are unsigned below 2 * Half, and signed in the table
          MaxTokens  \* bound: how many tokens are issued

ASSUME TokenAssumption == Half \in Nat \ {0} /\ MaxTokens \in Nat \ {0}

Hashes == 0..(2 * Half - 1)

NoToken == 0

VARIABLE oauth_token_storage  \* the rows

TokenRow == [scope_hash : -Half..(Half - 1), token : 1..MaxTokens]

\* A wrong variant: the sign is lost.
AsMagnitude(scope_hash) == IF scope_hash < Half THEN scope_hash ELSE 2 * Half - scope_hash

\* "as i64" wraps around.
AsI64(scope_hash) == IF scope_hash < Half THEN scope_hash ELSE scope_hash - 2 * Half

\* The primary key.
TokenKeysUnique ==
  \A r, s \in oauth_token_storage : r.scope_hash = s.scope_hash => r = s

TokenRows(scope_hash) == {r \in oauth_token_storage : r.scope_hash = AsI64(scope_hash)}

\* What query_row() returns of the selected rows.
FirstToken(selected) ==
  IF selected = {} THEN NoToken ELSE (CHOOSE r \in selected : TRUE).token

GetOathToken(scope_hash) == FirstToken(TokenRows(scope_hash))

\* INSERT OR REPLACE of a token, DELETE without one.
SetOathToken(scope_hash, token) ==
  oauth_token_storage' =
    (oauth_token_storage \ TokenRows(scope_hash))
      \cup {r \in {[scope_hash |-> AsI64(scope_hash), token |-> token]} : token # NoToken}
=============================================================================
