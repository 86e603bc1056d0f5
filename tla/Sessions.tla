------------------------------ MODULE Sessions ------------------------------
(***************************************************************************)
(* The sessions of one user: sign in, refresh, sign out, change of the     *)
(* password, and the upgrade to a seller.  Requests run side by side, and  *)
(* each statement they make against the database is a step; only the       *)
(* password change uses a transaction.  A request may end anywhere, for    *)
(* the process may go down or the database refuse.                         *)
(*                                                                         *)
(* A password is known only by whether it is the one in force, so a call   *)
(* with a wrong one, or with a refresh token that is no longer stored,     *)
(* changes nothing and is no step.  Access tokens are stateless; what they *)
(* claim is kept for the calls that need a role.                           *)
(***************************************************************************)
EXTENDS Naturals, FiniteSets

CONSTANTS Request,   \* requests the server works on at once
          Token,     \* ids of refresh tokens; an id nobody holds stands for new
          NoToken,
          MaxChanges \* bound on changes of the password

ASSUME SessionsAssumption == /\ IsFiniteSet(Request) /\ NoToken \notin Token
                             /\ MaxChanges \in Nat

VARIABLES role,     \* role of the user
          password, \* how often the password has been changed
          access,   \* roles that access tokens handed out so far claim
          row,      \* RefreshToken: for the id of each row, what it goes back to
          call      \* per request: where it stands and what it has read

sessionVars == <<role, password, access, row, call>>

Role == {"BUYER", "SELLER", "ADMIN"}

\* A row, or a call that will create one, goes back to a sign-in that proved a
\* password; underWay: some call on the way ran while the password changed.
Origin == [password : 0..MaxChanges, underWay : BOOLEAN]

Call == [pc : {"idle", "verified", "cleared", "expired", "mismatched", "changing"},
         token : Token \cup {NoToken}, role : Role, origin : Origin]

Proven == [password |-> password, underWay |-> FALSE]

Live == DOMAIN row

Idle(q) == call[q].pc = "idle"

Free == [pc |-> "idle", token |-> NoToken, role |-> "BUYER",
         origin |-> [password |-> 0, underWay |-> FALSE]]

SessionsTypeOK ==
  /\ role \in Role
  /\ password \in 0..MaxChanges
  /\ access \subseteq Role
  /\ Live \subseteq Token /\ row \in [Live -> Origin]
  /\ call \in [Request -> Call]

NoRow == [t \in {} |-> Free.origin]
Without(t) == [u \in Live \ {t} |-> row[u]]

\* Registration makes a buyer; an administrator is made outside of the program.
SessionsInit == /\ role \in {"BUYER", "ADMIN"}
                /\ password = 0
                /\ access = {}
                /\ row = NoRow
                /\ call = [q \in Request |-> Free]

Becomes(q, c) == call' = [call EXCEPT ![q] = c]
End(q) == Becomes(q, Free)

\* JwtGuard asks for an access token, whatever it claims.
SignedIn == access # {}

\* Ids are random, so no row and no running call has a new one.
Unused(t) == t \notin Live /\ \A q \in Request : call[q].token # t

-----------------------------------------------------------------------------
(* The calls that start a session *)

\* The user is read and the password compared.
Login(q) ==
  /\ Idle(q)
  /\ Becomes(q, [pc |-> "verified", token |-> NoToken, role |-> role,
                 origin |-> Proven])
  /\ UNCHANGED <<role, password, access, row>>

\* The row is read with its user and the token compared.  An expired JWT does
\* not come this far, so a row found expired has expired just now; a stored hash
\* that does not match ends every session.
Refresh(q, t) ==
  /\ Idle(q) /\ t \in Live
  /\ \E pc \in {"verified", "expired", "mismatched"} :
       Becomes(q, [pc |-> pc, token |-> t, role |-> role, origin |-> row[t]])
  /\ UNCHANGED <<role, password, access, row>>

DropExpired(q) ==
  /\ call[q].pc = "expired"
  /\ row' = Without(call[q].token)
  /\ End(q)
  /\ UNCHANGED <<role, password, access>>

DropMismatched(q) ==
  /\ call[q].pc = "mismatched"
  /\ row' = NoRow
  /\ End(q)
  /\ UNCHANGED <<role, password, access>>

\* A plausible slip: a refresh takes away the token it was given, no other.
ClearPresented(q) ==
  /\ call[q].pc = "verified"
  /\ row' = IF call[q].token = NoToken THEN NoRow ELSE Without(call[q].token)
  /\ Becomes(q, [call[q] EXCEPT !.pc = "cleared", !.token = NoToken])
  /\ UNCHANGED <<role, password, access>>

\* Every token of the user goes, whoever holds it.
Clear(q) ==
  /\ call[q].pc = "verified"
  /\ row' = NoRow
  /\ Becomes(q, [call[q] EXCEPT !.pc = "cleared", !.token = NoToken])
  /\ UNCHANGED <<role, password, access>>

\* The row is created and both tokens are handed out; the access token carries
\* the role that was read at the start.
Issue(q, t) ==
  /\ call[q].pc = "cleared" /\ Unused(t)
  /\ row' = [u \in Live \cup {t} |-> IF u = t THEN call[q].origin ELSE row[u]]
  /\ access' = access \cup {call[q].role}
  /\ End(q)
  /\ UNCHANGED <<role, password>>

-----------------------------------------------------------------------------
(* The others *)

\* The client may sign out while the same token is being refreshed.
Logout(q, t) ==
  /\ Idle(q) /\ t \in Live
  /\ row' = Without(t)
  /\ UNCHANGED <<role, password, access, call>>

\* The upgrade needs an access token; it goes one way only, and administrators
\* are refused.
UpdateMyRole(q) ==
  /\ Idle(q) /\ SignedIn /\ role = "BUYER"
  /\ role' = "SELLER"
  /\ UNCHANGED <<password, access, row, call>>

\* The user is read and the current password compared; then the new one is
\* hashed, which takes a while.
StartChange(q) ==
  /\ Idle(q) /\ SignedIn
  /\ Becomes(q, [Free EXCEPT !.pc = "changing"])
  /\ UNCHANGED <<role, password, access, row>>

\* What the change is to the calls it overlaps.
Overlapped(q) ==
  [r \in Request |->
     IF r = q \/ Idle(r) THEN Free ELSE [call[r] EXCEPT !.origin.underWay = TRUE]]

\* Hash and tokens go in one transaction.
ChangePassword(q) ==
  /\ call[q].pc = "changing" /\ password < MaxChanges
  /\ password' = password + 1
  /\ row' = NoRow
  /\ call' = Overlapped(q)
  /\ UNCHANGED <<role, access>>

Cut(q) == /\ ~Idle(q)
          /\ End(q)
          /\ UNCHANGED <<role, password, access, row>>

SessionStep(q) ==
  \/ Login(q) \/ DropExpired(q) \/ DropMismatched(q) \/ Clear(q)
  \/ UpdateMyRole(q) \/ StartChange(q) \/ ChangePassword(q) \/ Cut(q)
  \/ \E t \in Token : Refresh(q, t) \/ Issue(q, t) \/ Logout(q, t)

SessionsSpec ==
  SessionsInit /\ [][\E q \in Request : SessionStep(q)]_sessionVars

-----------------------------------------------------------------------------

Cleared == {q \in Request : call[q].pc = "cleared"}

\* However calls overlap, they leave no more sessions than there were requests
\* at work at once, though each deletes and creates in separate statements.
SessionsAreFew == Cardinality(Live) + Cardinality(Cleared) <= Cardinality(Request)

\* A refresh token outlives a password change only when it goes back to a call
\* that was under way at that moment, however often it was refreshed since.
Accounted(origin) == origin.password = password \/ origin.underWay
SurvivorsWereUnderWay ==
  /\ \A t \in Live : Accounted(row[t])
  /\ \A q \in Request : Idle(q) \/ call[q].pc = "changing" \/ Accounted(call[q].origin)

\* No access token claims a role the user does not have, however long ago the
\* call that made it has read the user.
ClaimsAreHeld == /\ access \subseteq {"BUYER", role}
                 /\ \A q \in Request : call[q].role \in {"BUYER", role}

\* Overlapping sign-ins, refreshes and password changes leave few sessions, none
\* that a changed password should have ended, and no role that was never given.
SessionInv == /\ SessionsTypeOK
              /\ SessionsAreFew
              /\ SurvivorsWereUnderWay
              /\ ClaimsAreHeld
=============================================================================
