----------------------------- MODULE MCAccounts -----------------------------
EXTENDS Accounts, TLC

(* Two requests at a time, two changes of the password and one version.  There *)
(* are at most two sessions, so four ids leave a new one for each request.     *)

\* Requests, token ids and version names are interchangeable.
Alike == Permutations(Request) \cup Permutations(Token) \cup Permutations(Version)
=============================================================================
