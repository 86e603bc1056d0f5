------------------------------ MODULE Accounts ------------------------------
(***************************************************************************)
(* One server works on the calls of one user's sessions and on those     *)
(* about the user's product, key and subscribers.  A request is one or   *)
(* the other; what connects them are the roles that the access tokens      *)
(* handed out by Sessions claim, which the guards of Catalog ask for.      *)
(***************************************************************************)
EXTENDS Catalog

vars == <<sessionVars, catalogVars>>

Init == SessionsInit /\ CatalogInit

SessionsServe(q) == Available(q) /\ SessionStep(q) /\ UNCHANGED catalogVars

Next == \E q \in Request : SessionsServe(q) \/ CatalogStep(q)

Spec == Init /\ [][Next]_vars

-----------------------------------------------------------------------------

\* Whoever owns a product is a seller or an administrator, although the guard asks
\* an access token made from a user that was read before and may have changed since
\* (RolesGuard, createProduct, updateMyRole).
OwnersMaySell == product # None => role \in Seller
=============================================================================
