--------------------------- MODULE AccountsProofs ---------------------------
(***************************************************************************)
(* Few sessions, none that a change of the password should have ended, and *)
(* no role that was never given; decisions take effect, what is sold is no *)
(* draft, and owners are sellers: whatever number of requests overlap and  *)
(* wherever they end.  A call that has read a status and not yet written   *)
(* one is what the induction over the catalog has to speak of.             *)
(***************************************************************************)
EXTENDS Accounts, TLAPS, FiniteSetTheorems

(* Sessions *)

\* Induction also needs that the rows are finite in number.
SessionIInv == SessionInv /\ IsFiniteSet(Live)

LEMMA FreeType == Free \in Call /\ Proven = [password |-> password, underWay |-> FALSE]
BY SessionsAssumption DEF Free, Call, Role, Origin, Proven

LEMMA SessionIInvInit == SessionsInit => SessionIInv
<1> SUFFICES ASSUME SessionsInit PROVE SessionIInv
  OBVIOUS
<1>1. SessionsTypeOK
  BY FreeType, SessionsAssumption DEF SessionsInit, SessionsTypeOK, Role, Live, NoRow
<1>2. Live = {} /\ Cleared = {}
  BY DEF SessionsInit, Live, NoRow, Cleared, Free
<1>3. SessionsAreFew /\ IsFiniteSet(Live)
  BY <1>2, FS_EmptySet, FS_CardinalityType, SessionsAssumption DEF SessionsAreFew
<1>4. SurvivorsWereUnderWay /\ ClaimsAreHeld
  BY <1>2 DEF SessionsInit, SurvivorsWereUnderWay, ClaimsAreHeld, Idle, Free
<1>5. QED
  BY <1>1, <1>3, <1>4 DEF SessionIInv, SessionInv

\* Sessions stay few in a step that adds neither a row nor a cleared call.
LEMMA FewKept ==
  ASSUME SessionIInv, SessionsTypeOK', Live' \subseteq Live, Cleared' \subseteq Cleared
  PROVE  SessionsAreFew' /\ IsFiniteSet(Live)'
<1>1. IsFiniteSet(Live) /\ IsFiniteSet(Cleared)
  BY SessionsAssumption, FS_Subset DEF SessionIInv, Cleared
<1>2. /\ IsFiniteSet(Live') /\ Cardinality(Live') <= Cardinality(Live)
      /\ IsFiniteSet(Cleared') /\ Cardinality(Cleared') <= Cardinality(Cleared)
  BY <1>1, FS_Subset
<1>3. /\ Cardinality(Live) \in Nat /\ Cardinality(Cleared) \in Nat
      /\ Cardinality(Live') \in Nat /\ Cardinality(Cleared') \in Nat
      /\ Cardinality(Request) \in Nat
  BY <1>1, <1>2, FS_CardinalityType, SessionsAssumption
<1>4. QED
  BY <1>2, <1>3 DEF SessionIInv, SessionInv, SessionsAreFew

\* ... and in one that takes all rows away.
LEMMA FewWithoutRows ==
  ASSUME SessionIInv, Live' = {}
  PROVE  SessionsAreFew' /\ IsFiniteSet(Live)'
<1>1. Cleared' \subseteq Request
  BY DEF Cleared
<1>2. /\ Cardinality(Cleared') <= Cardinality(Request)
      /\ Cardinality(Cleared') \in Nat /\ Cardinality(Request) \in Nat
  BY <1>1, SessionsAssumption, FS_Subset, FS_CardinalityType
<1>3. QED
  BY <1>2, FS_EmptySet DEF SessionsAreFew

\* ... and in one where a cleared call creates its row.
LEMMA FewIssued ==
  ASSUME SessionIInv, NEW q \in Cleared, NEW t \in Token, t \notin Live,
         Live' = Live \cup {t}, Cleared' = Cleared \ {q}
  PROVE  SessionsAreFew' /\ IsFiniteSet(Live)'
<1>1. IsFiniteSet(Live) /\ IsFiniteSet(Cleared)
  BY SessionsAssumption, FS_Subset DEF SessionIInv, Cleared
<1>2. /\ IsFiniteSet(Live') /\ Cardinality(Live') = Cardinality(Live) + 1
      /\ Cardinality(Cleared') = Cardinality(Cleared) - 1
  BY <1>1, FS_AddElement, FS_RemoveElement
<1>3. /\ Cardinality(Live) \in Nat /\ Cardinality(Cleared) \in Nat
      /\ Cardinality(Request) \in Nat
  BY <1>1, FS_CardinalityType, SessionsAssumption
<1>4. QED
  BY <1>2, <1>3 DEF SessionIInv, SessionInv, SessionsAreFew

\* Everyone who moves but the password change only replaces the state of one call.
LEMMA CallMoves ==
  ASSUME SessionIInv, NEW q \in Request, NEW c \in Call, Becomes(q, c)
  PROVE  /\ call' \in [Request -> Call]
         /\ c.pc # "cleared" => Cleared' = Cleared \ {q}
         /\ Accounted(c.origin) \/ c.pc \in {"idle", "changing"} => 
              (password' = password =>
                 \A r \in Request : \/ Idle(r)' \/ (call[r].pc = "changing")'
                                    \/ Accounted(call[r].origin)')
         /\ c.role \in {"BUYER", role} =>
              (role' = role => \A r \in Request : call'[r].role \in {"BUYER", role'})
<1>1. /\ call \in [Request -> Call] /\ call' = [call EXCEPT ![q] = c]
      /\ SurvivorsWereUnderWay /\ ClaimsAreHeld
  BY DEF SessionIInv, SessionInv, SessionsTypeOK, Becomes
<1>2. \A r \in Request : call'[r] = IF r = q THEN c ELSE call[r]
  BY <1>1
<1>3. c.pc # "cleared" => Cleared' = Cleared \ {q}
  BY <1>2 DEF Cleared
<1>4. QED
  BY <1>1, <1>2, <1>3 DEF SurvivorsWereUnderWay, ClaimsAreHeld, Idle, Accounted

\* The invariant of the sessions is inductive.
LEMMA SessionIInvStep ==
  SessionIInv /\ [\E q \in Request : SessionStep(q)]_sessionVars => SessionIInv'
<1> SUFFICES ASSUME SessionIInv, [\E q \in Request : SessionStep(q)]_sessionVars
             PROVE  SessionIInv'
  OBVIOUS
<1>0. /\ SessionsTypeOK /\ SessionsAreFew /\ SurvivorsWereUnderWay /\ ClaimsAreHeld
      /\ IsFiniteSet(Live)
  BY DEF SessionIInv, SessionInv
<1>1. ASSUME NEW q \in Request, Login(q)
      PROVE  SessionIInv'
  <2> DEFINE c == [pc |-> "verified", token |-> NoToken, role |-> role, origin |-> Proven]
  <2>1. c \in Call /\ Accounted(c.origin)
    BY <1>0, FreeType DEF Call, Proven, SessionsTypeOK, Origin, Accounted
  <2>2. SessionsTypeOK' /\ SurvivorsWereUnderWay' /\ ClaimsAreHeld'
    BY <1>0, <1>1, <2>1, CallMoves
       DEF Login, SessionsTypeOK, SurvivorsWereUnderWay, ClaimsAreHeld, Live, Accounted
  <2>3. Live' \subseteq Live /\ Cleared' \subseteq Cleared
    BY <1>1, <2>1, CallMoves DEF Login, Live
  <2>4. QED
    BY <2>2, <2>3, FewKept DEF SessionIInv, SessionInv
<1>2. ASSUME NEW q \in Request, NEW t \in Token, Refresh(q, t)
      PROVE  SessionIInv'
  <2>1. PICK pc \in {"verified", "expired", "mismatched"} :
          Becomes(q, [pc |-> pc, token |-> t, role |-> role, origin |-> row[t]])
    BY <1>2 DEF Refresh
  <2> DEFINE c == [pc |-> pc, token |-> t, role |-> role, origin |-> row[t]]
  <2>2. c \in Call /\ Accounted(c.origin)
    BY <1>0, <1>2 DEF Refresh, Call, SessionsTypeOK, SurvivorsWereUnderWay
  <2>3. SessionsTypeOK' /\ SurvivorsWereUnderWay' /\ ClaimsAreHeld'
    BY <1>0, <1>2, <2>1, <2>2, CallMoves
       DEF Refresh, SessionsTypeOK, SurvivorsWereUnderWay, ClaimsAreHeld, Live, Accounted
  <2>4. Live' \subseteq Live /\ Cleared' \subseteq Cleared
    BY <1>2, <2>1, <2>2, CallMoves DEF Refresh, Live
  <2>5. QED
    BY <2>3, <2>4, FewKept DEF SessionIInv, SessionInv
<1>3. ASSUME NEW q \in Request, DropExpired(q)
      PROVE  SessionIInv'
  <2>1. row' = Without(call[q].token) /\ Becomes(q, Free)
    BY <1>3 DEF DropExpired, End
  <2>2. Live' = Live \ {call[q].token} /\ \A u \in Live' : row'[u] = row[u]
    BY <2>1 DEF Without, Live
  <2>3. row' \in [Live' -> Origin] /\ Live' \subseteq Token
    BY <1>0, <2>1, <2>2 DEF Without, Live, SessionsTypeOK
  <2>4. SessionsTypeOK' /\ SurvivorsWereUnderWay' /\ ClaimsAreHeld'
    BY <1>0, <1>3, <2>1, <2>2, <2>3, FreeType, CallMoves
       DEF DropExpired, SessionsTypeOK, SurvivorsWereUnderWay, ClaimsAreHeld, Accounted, Free
  <2>5. Cleared' \subseteq Cleared
    BY <2>1, FreeType, CallMoves DEF Free
  <2>6. QED
    BY <2>2, <2>4, <2>5, FewKept DEF SessionIInv, SessionInv
<1>4. ASSUME NEW q \in Request, Clear(q)
      PROVE  SessionIInv'
  <2> DEFINE c == [call[q] EXCEPT !.pc = "cleared", !.token = NoToken]
  <2>1. /\ c \in Call /\ Accounted(c.origin) /\ c.role = call[q].role
        /\ Becomes(q, c)
    BY <1>0, <1>4 DEF Clear, Call, SessionsTypeOK, SurvivorsWereUnderWay, Idle, Origin
  <2>2. Live' = {} /\ row' \in [Live' -> Origin]
    BY <1>4 DEF Clear, NoRow, Live
  <2>3. SessionsTypeOK' /\ SurvivorsWereUnderWay' /\ ClaimsAreHeld'
    BY <1>0, <1>4, <2>1, <2>2, CallMoves
       DEF Clear, SessionsTypeOK, SurvivorsWereUnderWay, ClaimsAreHeld, Accounted
  <2>4. QED
    BY <2>2, <2>3, FewWithoutRows DEF SessionIInv, SessionInv
<1>5. ASSUME NEW q \in Request, NEW t \in Token, Issue(q, t)
      PROVE  SessionIInv'
  <2>1. /\ q \in Cleared /\ t \notin Live /\ Becomes(q, Free)
        /\ call[q] \in Call /\ Accounted(call[q].origin)
        /\ call[q].role \in {"BUYER", role}
    BY <1>0, <1>5
       DEF Issue, Cleared, Unused, End, SessionsTypeOK, SurvivorsWereUnderWay, Idle, ClaimsAreHeld
  <2>2. /\ Live' = Live \cup {t}
        /\ \A u \in Live' : row'[u] = IF u = t THEN call[q].origin ELSE row[u]
        /\ row' \in [Live' -> Origin] /\ Live' \subseteq Token
    BY <1>0, <1>5, <2>1 DEF Issue, Live, SessionsTypeOK, Call
  <2>3. SessionsTypeOK' /\ SurvivorsWereUnderWay' /\ ClaimsAreHeld'
    BY <1>0, <1>5, <2>1, <2>2, FreeType, CallMoves
       DEF Issue, SessionsTypeOK, SurvivorsWereUnderWay, ClaimsAreHeld, Accounted, Free, Call
  <2>4. Cleared' = Cleared \ {q}
    BY <2>1, FreeType, CallMoves DEF Free
  <2>5. QED
    BY <2>1, <2>2, <2>3, <2>4, FewIssued DEF SessionIInv, SessionInv
<1>6. ASSUME NEW q \in Request, NEW t \in Token, Logout(q, t)
      PROVE  SessionIInv'
  <2>1. Live' = Live \ {t} /\ \A u \in Live' : row'[u] = row[u]
    BY <1>6 DEF Logout, Without, Live
  <2>2. row' \in [Live' -> Origin] /\ Live' \subseteq Token
    BY <1>0, <1>6, <2>1 DEF Logout, Without, Live, SessionsTypeOK
  <2>3. SessionsTypeOK' /\ SurvivorsWereUnderWay' /\ ClaimsAreHeld'
    BY <1>0, <1>6, <2>1, <2>2
       DEF Logout, SessionsTypeOK, SurvivorsWereUnderWay, ClaimsAreHeld, Accounted, Idle
  <2>4. Cleared' = Cleared
    BY <1>6 DEF Logout, Cleared
  <2>5. QED
    BY <2>1, <2>3, <2>4, FewKept DEF SessionIInv, SessionInv
<1>7. ASSUME NEW q \in Request, UpdateMyRole(q)
      PROVE  SessionIInv'
  <2>1. SessionsTypeOK' /\ SurvivorsWereUnderWay' /\ ClaimsAreHeld'
    BY <1>0, <1>7
       DEF UpdateMyRole, SessionsTypeOK, SurvivorsWereUnderWay, ClaimsAreHeld, Accounted,
           Idle, Live, Role
  <2>2. Live' = Live /\ Cleared' = Cleared
    BY <1>7 DEF UpdateMyRole, Live, Cleared
  <2>3. QED
    BY <2>1, <2>2, FewKept DEF SessionIInv, SessionInv
<1>8. ASSUME NEW q \in Request, StartChange(q)
      PROVE  SessionIInv'
  <2> DEFINE c == [Free EXCEPT !.pc = "changing"]
  <2>1. c \in Call /\ c.pc = "changing" /\ c.role = "BUYER"
    BY FreeType DEF Free, Call
  <2>2. Becomes(q, c) /\ UNCHANGED <<role, password, access, row>>
    BY <1>8 DEF StartChange
  <2>3. SessionsTypeOK' /\ SurvivorsWereUnderWay' /\ ClaimsAreHeld'
    BY <1>0, <2>1, <2>2, CallMoves
       DEF SessionsTypeOK, SurvivorsWereUnderWay, ClaimsAreHeld, Live, Accounted
  <2>4. Live' = Live /\ Cleared' \subseteq Cleared
    BY <2>1, <2>2, CallMoves DEF Live
  <2>5. QED
    BY <2>3, <2>4, FewKept DEF SessionIInv, SessionInv
<1>9. ASSUME NEW q \in Request, ChangePassword(q)
      PROVE  SessionIInv'
  <2>1. /\ password' \in 0..MaxChanges /\ Live' = {} /\ row' \in [Live' -> Origin]
        /\ role' = role /\ access' = access
    BY <1>0, <1>9, SessionsAssumption DEF ChangePassword, NoRow, Live, SessionsTypeOK
  <2>2. ASSUME NEW r \in Request
        PROVE  /\ call'[r] \in Call
               /\ call'[r].pc = "idle" \/ call'[r].origin.underWay
               /\ call'[r].role \in {"BUYER", role}
    <3>1. call'[r] = IF r = q \/ Idle(r) THEN Free
                     ELSE [call[r] EXCEPT !.origin.underWay = TRUE]
      BY <1>9 DEF ChangePassword, Overlapped
    <3>2. call[r] \in Call /\ call[r].role \in {"BUYER", role}
      BY <1>0 DEF SessionsTypeOK, ClaimsAreHeld
    <3>3. /\ [call[r] EXCEPT !.origin.underWay = TRUE] \in Call
          /\ [call[r] EXCEPT !.origin.underWay = TRUE].origin.underWay
          /\ [call[r] EXCEPT !.origin.underWay = TRUE].role = call[r].role
      BY <3>2 DEF Call, Origin
    <3>4. QED
      BY <3>1, <3>2, <3>3, FreeType DEF Free
  <2>3. call' \in [Request -> Call]
    BY <1>9, <2>2 DEF ChangePassword, Overlapped
  <2>4. SessionsTypeOK' /\ SurvivorsWereUnderWay' /\ ClaimsAreHeld'
    BY <1>0, <2>1, <2>2, <2>3
       DEF SessionsTypeOK, SurvivorsWereUnderWay, ClaimsAreHeld, Accounted, Idle
  <2>5. QED
    BY <2>1, <2>4, FewWithoutRows DEF SessionIInv, SessionInv
<1>10. ASSUME NEW q \in Request, Cut(q)
       PROVE  SessionIInv'
  <2>1. Becomes(q, Free) /\ UNCHANGED <<role, password, access, row>>
    BY <1>10 DEF Cut, End
  <2>2. SessionsTypeOK' /\ SurvivorsWereUnderWay' /\ ClaimsAreHeld'
    BY <1>0, <2>1, FreeType, CallMoves
       DEF SessionsTypeOK, SurvivorsWereUnderWay, ClaimsAreHeld, Live, Accounted, Free
  <2>3. Live' = Live /\ Cleared' \subseteq Cleared
    BY <2>1, FreeType, CallMoves DEF Live, Free
  <2>4. QED
    BY <2>2, <2>3, FewKept DEF SessionIInv, SessionInv
<1>11. CASE UNCHANGED sessionVars
  <2>1. SessionsTypeOK' /\ SurvivorsWereUnderWay' /\ ClaimsAreHeld'
    BY <1>0, <1>11
       DEF sessionVars, SessionsTypeOK, SurvivorsWereUnderWay, ClaimsAreHeld, Accounted,
           Idle, Live
  <2>2. Live' = Live /\ Cleared' = Cleared
    BY <1>11 DEF sessionVars, Live, Cleared
  <2>3. QED
    BY <2>1, <2>2, FewKept DEF SessionIInv, SessionInv
<1>12. ASSUME NEW q \in Request, DropMismatched(q)
       PROVE  SessionIInv'
  <2>1. row' = NoRow /\ Becomes(q, Free) /\ UNCHANGED <<role, password, access>>
    BY <1>12 DEF DropMismatched, End
  <2>2. Live' = {} /\ row' \in [Live' -> Origin]
    BY <2>1 DEF NoRow, Live
  <2>3. SessionsTypeOK' /\ SurvivorsWereUnderWay' /\ ClaimsAreHeld'
    BY <1>0, <2>1, <2>2, FreeType, CallMoves
       DEF SessionsTypeOK, SurvivorsWereUnderWay, ClaimsAreHeld, Accounted, Free
  <2>4. Live' \subseteq Live /\ Cleared' \subseteq Cleared
    BY <2>1, <2>2, FreeType, CallMoves DEF Free
  <2>5. QED
    BY <2>3, <2>4, FewKept DEF SessionIInv, SessionInv
<1>13. QED
  BY <1>1, <1>2, <1>3, <1>4, <1>5, <1>6, <1>7, <1>8, <1>9, <1>10, <1>11, <1>12 DEF SessionStep

\* However many sign-ins, refreshes, sign-outs and password changes overlap, they
\* leave no more sessions than requests at work, none that a changed password
\* should have ended, and no role in a token that was never given (login, refresh,
\* changePassword, updateMyRole).
THEOREM SessionsCorrect == SessionsSpec => []SessionInv
<1>1. SessionIInv => SessionInv
  BY DEF SessionIInv
<1>2. QED
  BY <1>1, SessionIInvInit, SessionIInvStep, PTL DEF SessionsSpec

-----------------------------------------------------------------------------
(* The catalog *)

\* The product is there for good.
Offered == product # None

\* What a call that is going to write may write, and what it has seen.
JobIsSound(q) ==
  LET j == job[q] IN
  /\ j.pc \in {"fetching", "creating"} => j.subject \in Version /\ j.next \in VersionStatus
  /\ j.pc = "updating" =>
       \/ j.subject \in Version /\ j.next \in VersionStatus
       \/ /\ j.subject = "product" /\ Offered /\ j.next \in ProductStatus
          /\ j.next = "DRAFT" => j.read = "DRAFT"
  /\ j.pc = "deciding" =>
       /\ j.read = Outcome(j.subject) => j.done
       /\ j.subject = "product" => Offered
  /\ j.pc = "decided" => j.done

Committed == sold \/ \E q \in Request : job[q].pc \in {"choosing", "subscribing"}

\* The inductive invariant of the catalog and of who may own a product.
CatalogIInv == /\ CatalogTypeOK
               /\ \A q \in Request : JobIsSound(q)
               /\ Committed => Offered
               /\ Committed /\ product = "DRAFT" => stale
               /\ OwnersMaySell

LEMMA NoJobType == NoJob \in Job /\ NoJob.pc = "free"
BY DEF NoJob, Job, Subject

LEMMA CatalogIInvInit == Init => CatalogIInv
<1> SUFFICES ASSUME Init PROVE CatalogIInv
  OBVIOUS
<1>1. /\ product = None /\ key = None /\ sold = FALSE /\ stale = FALSE
      /\ version = [v \in Version |-> None]
      /\ job = [q \in Request |-> NoJob]
  BY DEF Init, CatalogInit
<1>2. CatalogTypeOK
  BY <1>1, NoJobType DEF CatalogTypeOK
<1>3. \A q \in Request : JobIsSound(q)
  BY <1>1, NoJobType DEF JobIsSound
<1>4. ~Committed
  BY <1>1, NoJobType DEF Committed
<1>5. QED
  BY <1>1, <1>2, <1>3, <1>4 DEF CatalogIInv, OwnersMaySell

\* A session step leaves the catalog alone and can only make the user somebody who may sell.
LEMMA SessionKeepsCatalog ==
  ASSUME CatalogIInv, SessionIInv, UNCHANGED catalogVars,
         role' = role \/ role' \in Seller
  PROVE  CatalogIInv'
BY DEF CatalogIInv, CatalogTypeOK, JobIsSound, Committed, OwnersMaySell, catalogVars, Offered

LEMMA RoleIsKept ==
  ASSUME NEW q \in Request, SessionStep(q)
  PROVE  role' = role \/ role' \in Seller
BY DEF SessionStep, Login, DropExpired, DropMismatched, Clear, UpdateMyRole, StartChange, ChangePassword, Cut,
       Refresh, Issue, Logout, Seller

\* A call that only reads and moves on disturbs nobody else.
LEMMA TakesKeeps ==
  ASSUME CatalogIInv, NEW q \in Request, NEW j \in Job, Takes(q, j),
         UNCHANGED rows, UNCHANGED sessionVars,
         JobIsSound(q)',
         j.pc \in {"choosing", "subscribing"} =>
            product = "PUBLISHED" \/ Committed
  PROVE  CatalogIInv'
<1>1. job' \in [Request -> Job] /\ \A r \in Request : job'[r] = IF r = q THEN j ELSE job[r]
  BY DEF CatalogIInv, CatalogTypeOK, Takes
<1>2. \A r \in Request : JobIsSound(r)'
  BY <1>1 DEF CatalogIInv, JobIsSound, rows, Offered
<1>3. Committed' => Committed \/ product = "PUBLISHED"
  BY <1>1 DEF Committed, rows
<1>4. QED
  BY <1>1, <1>2, <1>3
     DEF CatalogIInv, CatalogTypeOK, OwnersMaySell, rows, sessionVars, Offered, None

\* A status that fits its subject.
Fits(subject, status) ==
  \/ subject = "product" /\ status \in ProductStatus
  \/ subject = "key" /\ status \in {"active", "revoked"}
  \/ subject \in Version /\ status \in VersionStatus

LEMMA OutcomeFits == ASSUME NEW subject \in Subject PROVE Fits(subject, Outcome(subject))
BY CatalogAssumption DEF Fits, Outcome, Subject, ProductStatus, VersionStatus

\* A call that stores a status and is done with it leaves every other call sound.
LEMMA StoreKeeps ==
  ASSUME CatalogIInv, NEW q \in Request, NEW subject, NEW status, Fits(subject, status),
         NEW j \in Job, j.pc \in {"free", "decided"}, j.pc = "decided" => j.done,
         Store(q, subject, status, j), UNCHANGED <<sold, sessionVars>>,
         stale' \in BOOLEAN, stale => stale',
         subject = "product" => role \in Seller,
         subject = "product" /\ status = "DRAFT" =>
            product = None \/ product = "DRAFT" \/ stale'
  PROVE  CatalogIInv'
<1>1. \A r \in Request :
        job'[r] = IF r = q THEN j
                  ELSE IF /\ job[r].pc = "deciding" /\ job[r].subject = subject
                          /\ status = Outcome(subject)
                         THEN [job[r] EXCEPT !.done = TRUE]
                         ELSE job[r]
  BY DEF Store
<1>2. \A r \in Request :
        /\ job[r] \in Job /\ [job[r] EXCEPT !.done = TRUE] \in Job
        /\ job'[r] \in Job
        /\ r # q => /\ job'[r].pc = job[r].pc /\ job'[r].subject = job[r].subject
                    /\ job'[r].read = job[r].read /\ job'[r].next = job[r].next
                    /\ job[r].done => job'[r].done
  <2> TAKE r \in Request
  <2>1. job[r] \in Job /\ [job[r] EXCEPT !.done = TRUE] \in Job
    BY DEF CatalogIInv, CatalogTypeOK, Job
  <2>2. /\ job[r] = [job[r] EXCEPT !.done = job[r].done]
        /\ [job[r] EXCEPT !.done = TRUE].done
    BY <2>1 DEF Job
  <2>3. job'[r] \in {j, job[r], [job[r] EXCEPT !.done = TRUE]}
    BY <1>1
  <2>4. CASE r = q
    BY <1>1, <2>1, <2>4
  <2>5. CASE r # q /\ job'[r] = job[r]
    BY <2>1, <2>5
  <2>6. CASE r # q /\ job'[r] = [job[r] EXCEPT !.done = TRUE]
    BY <2>1, <2>2, <2>6 DEF Job
  <2>7. QED
    BY <1>1, <2>4, <2>5, <2>6
<1>3. job' \in [Request -> Job]
  BY <1>2 DEF Store
<1>4. /\ product' = IF subject = "product" THEN status ELSE product
      /\ key' = IF subject = "key" THEN status ELSE key
      /\ version' = [v \in Version |-> IF v = subject THEN status ELSE version[v]]
  BY DEF Store
<1>5. CatalogTypeOK'
  BY <1>3, <1>4, CatalogAssumption DEF CatalogIInv, CatalogTypeOK, Fits, VersionStatus
<1>6. Offered => Offered'
  BY <1>4, CatalogAssumption DEF Fits, Offered, None, ProductStatus
<1>7. \A r \in Request : JobIsSound(r)'
  <2> TAKE r \in Request
  <2>1. CASE r = q
    BY <2>1, <1>1 DEF JobIsSound
  <2>2. CASE r # q
    BY <2>2, <1>2, <1>6 DEF JobIsSound, CatalogIInv, Outcome
  <2>3. QED
    BY <2>1, <2>2
<1>8. Committed' => Committed
  BY <1>1, <1>2 DEF Committed
<1>9. Committed' /\ product' = "DRAFT" => stale'
  BY <1>4, <1>8 DEF CatalogIInv, Offered
<1>10. OwnersMaySell'
  BY <1>4 DEF CatalogIInv, OwnersMaySell, sessionVars
<1>11. QED
  BY <1>5, <1>6, <1>7, <1>8, <1>9, <1>10 DEF CatalogIInv

\* A change of the catalog keeps its invariant.
LEMMA CatalogStepKeeps ==
  ASSUME CatalogIInv, SessionIInv, NEW q \in Request, CatalogStep(q)
  PROVE  CatalogIInv'
<1>0. /\ UNCHANGED sessionVars
      /\ job[q] \in Job /\ JobIsSound(q) /\ CatalogTypeOK
      /\ ClaimsAreHeld /\ SessionsTypeOK
      /\ Committed => Offered
  BY DEF CatalogStep, CatalogIInv, CatalogTypeOK, SessionIInv, SessionInv
<1>1. NoJob \in Job /\ NoJob.pc = "free"
  BY NoJobType
<1>2. MaySell => role \in Seller
  BY <1>0 DEF MaySell, Seller, ClaimsAreHeld, SessionsTypeOK
<1>3. ASSUME NEW j \in Job, Takes(q, j)
      PROVE  job'[q] = j
  BY <1>3, <1>0 DEF Takes, CatalogTypeOK
<1>4. CASE CreateProduct(q)
  <2>1. Fits("product", "DRAFT")
    BY DEF Fits, ProductStatus
  <2>2. QED
    BY <1>0, <1>1, <1>2, <1>4, <2>1, StoreKeeps DEF CreateProduct, CatalogTypeOK
<1>5. ASSUME NEW next \in ProductStatus, UpdateProduct(q, next)
      PROVE  CatalogIInv'
  <2> DEFINE j == [NoJob EXCEPT !.pc = "updating", !.read = product, !.next = next]
  <2>1. j \in Job /\ j.pc = "updating"
    BY <1>0, <1>5 DEF NoJob, Job, Subject, CatalogTypeOK
  <2>2. Takes(q, j) /\ UNCHANGED rows /\ Offered /\ (next = "DRAFT" => product = "DRAFT")
    BY <1>5 DEF UpdateProduct, ProductTransition, Offered
  <2>3. JobIsSound(q)'
    BY <1>3, <2>1, <2>2 DEF JobIsSound, Offered, rows, NoJob
  <2>4. QED
    BY <1>0, <2>1, <2>2, <2>3, TakesKeeps
<1>6. ASSUME NEW v \in Version, CreateVersion(q, v)
      PROVE  CatalogIInv'
  <2> DEFINE j == [NoJob EXCEPT !.pc = "fetching", !.subject = v, !.next = "DRAFT"]
  <2>1. j \in Job /\ j.pc = "fetching"
    BY <1>6 DEF NoJob, Job, Subject, ProductStatus
  <2>2. Takes(q, j) /\ UNCHANGED rows
    BY <1>6 DEF CreateVersion
  <2>3. JobIsSound(q)'
    BY <1>3, <2>1, <2>2 DEF JobIsSound, VersionStatus, NoJob
  <2>4. QED
    BY <1>0, <2>1, <2>2, <2>3, TakesKeeps
<1>7. ASSUME NEW v \in Version, NEW next \in VersionStatus, UpdateVersion(q, v, next)
      PROVE  CatalogIInv'
  <2>1. PICK pc \in {"fetching", "updating"} :
          Takes(q, [NoJob EXCEPT !.pc = pc, !.subject = v, !.read = version[v],
                                  !.next = next])
    BY <1>7 DEF UpdateVersion
  <2> DEFINE j == [NoJob EXCEPT !.pc = pc, !.subject = v, !.read = version[v], !.next = next]
  <2>2. j \in Job /\ j.pc = pc
    BY <1>0, <1>7 DEF NoJob, Job, Subject, ProductStatus, VersionStatus, CatalogTypeOK
  <2>3. Takes(q, j) /\ UNCHANGED rows
    BY <1>7, <2>1 DEF UpdateVersion
  <2>4. JobIsSound(q)'
    BY <1>3, <2>2, <2>3 DEF JobIsSound, NoJob
  <2>5. QED
    BY <1>0, <2>2, <2>3, <2>4, TakesKeeps
<1>8. CASE Fetched(q)
  <2> DEFINE pc == IF job[q].read = None THEN "creating" ELSE "updating"
             j == [job[q] EXCEPT !.pc = pc]
  <2>1. /\ j \in Job /\ j.pc \in {"creating", "updating"}
        /\ j.subject = job[q].subject /\ j.next = job[q].next
    BY <1>0 DEF Job
  <2>2. /\ Takes(q, j) /\ UNCHANGED rows
        /\ job[q].subject \in Version /\ job[q].next \in VersionStatus
    BY <1>0, <1>8 DEF Fetched, MovesOn, JobIsSound
  <2> HIDE DEF j
  <2>3. JobIsSound(q)'
    BY <1>3, <2>1, <2>2 DEF JobIsSound
  <2>4. QED
    BY <1>0, <2>1, <2>2, <2>3, TakesKeeps
<1>9. ASSUME Answers(q), UNCHANGED rows
      PROVE  CatalogIInv'
  <2>1. Takes(q, NoJob) /\ JobIsSound(q)'
    BY <1>1, <1>3, <1>9 DEF Answers, JobIsSound
  <2>2. QED
    BY <1>0, <1>1, <1>9, <2>1, TakesKeeps
<1>10. CASE StoreVersion(q)
  <2>1. CASE version[job[q].subject] = None
    <3>1. Fits(job[q].subject, "DRAFT") /\ job[q].subject # "product"
      BY <1>0, <1>10, CatalogAssumption DEF StoreVersion, JobIsSound, Fits, VersionStatus
    <3>2. QED
      BY <1>0, <1>1, <1>10, <2>1, <3>1, StoreKeeps DEF StoreVersion, CatalogTypeOK
  <2>2. CASE version[job[q].subject] # None
    BY <1>9, <1>10, <2>2 DEF StoreVersion, rows
  <2>3. QED
    BY <2>1, <2>2
<1>11. CASE StoreUpdate(q)
  <2>1. /\ Fits(job[q].subject, job[q].next)
        /\ job[q].subject = "product" => /\ Offered
                                         /\ job[q].next = "DRAFT" => job[q].read = "DRAFT"
    BY <1>0, <1>11, CatalogAssumption DEF StoreUpdate, JobIsSound, Fits
  <2>2. stale' \in BOOLEAN /\ (stale => stale')
    BY <1>0, <1>11 DEF StoreUpdate, CatalogTypeOK
  <2>3. job[q].subject = "product" => role \in Seller
    BY <2>1 DEF CatalogIInv, OwnersMaySell, Offered
  <2>4. job[q].subject = "product" /\ job[q].next = "DRAFT" => product = "DRAFT" \/ stale'
    BY <1>11, <2>1 DEF StoreUpdate
  <2>5. QED
    BY <1>0, <1>1, <1>11, <2>1, <2>2, <2>3, <2>4, StoreKeeps DEF StoreUpdate
<1>12. CASE CreateKey(q)
  <2>1. Fits("key", "active")
    BY DEF Fits
  <2>2. QED
    BY <1>0, <1>1, <1>12, <2>1, StoreKeeps DEF CreateKey, CatalogTypeOK
<1>13. ASSUME NEW subject \in Subject, Decide(q, subject)
       PROVE  CatalogIInv'
  <2> DEFINE j == [NoJob EXCEPT !.pc = "deciding", !.subject = subject,
                       !.read = Status(subject),
                       !.done = Status(subject) = Outcome(subject)]
  <2>1. Status(subject) \in ProductStatus \cup {"active", "revoked", None}
    BY <1>0, CatalogAssumption DEF Status, CatalogTypeOK, Subject, VersionStatus, ProductStatus
  <2>2. (Status(subject) = Outcome(subject)) \in BOOLEAN
    OBVIOUS
  <2>3. /\ j \in Job /\ j.pc = "deciding" /\ j.subject = subject
        /\ j.read = Status(subject) /\ j.done = (Status(subject) = Outcome(subject))
    BY <2>1, <2>2 DEF NoJob, Job
  <2>4. Takes(q, j) /\ UNCHANGED rows /\ (subject = "product" => Offered)
    BY <1>13 DEF Decide, Status, Offered
  <2>5. JobIsSound(q)'
    BY <1>3, <2>3, <2>4 DEF JobIsSound, Offered, rows, Outcome
  <2>6. QED
    BY <1>0, <2>3, <2>4, <2>5, TakesKeeps
<1>14. CASE StoreDecision(q)
  <2> DEFINE done == [NoJob EXCEPT !.pc = "decided", !.done = TRUE]
             kept == [NoJob EXCEPT !.pc = "decided", !.done = job[q].done]
  <2>1. done \in Job /\ done.pc = "decided" /\ done.done
    BY DEF NoJob, Job, Subject
  <2>2. kept \in Job /\ kept.pc = "decided" /\ kept.done = job[q].done
    BY <1>0 DEF NoJob, Job, Subject
  <2>3. CASE Changed(job[q].subject, job[q].read)
    <3>1. /\ Fits(job[q].subject, Outcome(job[q].subject))
          /\ job[q].subject = "product" => role \in Seller /\ Outcome("product") # "DRAFT"
      BY <1>0, <1>14, OutcomeFits
         DEF StoreDecision, JobIsSound, Job, CatalogIInv, OwnersMaySell, Offered, Outcome
    <3>2. Store(q, job[q].subject, Outcome(job[q].subject), done) /\ UNCHANGED <<sold, stale>>
      BY <1>14, <2>3 DEF StoreDecision
    <3>3. QED
      BY <1>0, <2>1, <3>1, <3>2, StoreKeeps DEF CatalogTypeOK
  <2>4. CASE ~Changed(job[q].subject, job[q].read)
    <3>1. Takes(q, kept) /\ UNCHANGED rows /\ job[q].done
      BY <1>0, <1>14, <2>4 DEF StoreDecision, JobIsSound, Changed, rows
    <3>2. JobIsSound(q)'
      BY <1>3, <2>2, <3>1 DEF JobIsSound
    <3>3. QED
      BY <1>0, <2>2, <3>1, <3>2, TakesKeeps
  <2>5. QED
    BY <2>3, <2>4
<1>15. CASE Subscribe(q)
  <2> DEFINE j == [NoJob EXCEPT !.pc = "choosing"]
  <2>1. j \in Job /\ j.pc = "choosing"
    BY DEF NoJob, Job, Subject
  <2>2. Takes(q, j) /\ UNCHANGED rows /\ product = "PUBLISHED"
    BY <1>15 DEF Subscribe
  <2>3. JobIsSound(q)'
    BY <1>3, <2>1, <2>2 DEF JobIsSound
  <2>4. QED
    BY <1>0, <2>1, <2>2, <2>3, TakesKeeps
<1>16. CASE FindVersion(q)
  <2> DEFINE j == [job[q] EXCEPT !.pc = "subscribing"]
  <2>1. j \in Job /\ j.pc = "subscribing"
    BY <1>0 DEF Job
  <2>2. Takes(q, j) /\ UNCHANGED rows /\ Committed
    BY <1>16 DEF FindVersion, MovesOn, Committed
  <2>3. JobIsSound(q)'
    BY <1>3, <2>1, <2>2 DEF JobIsSound
  <2>4. QED
    BY <1>0, <2>1, <2>2, <2>3, TakesKeeps
<1>17. CASE Sell(q)
  <2>1. /\ job' = [job EXCEPT ![q] = NoJob] /\ sold' = TRUE /\ Committed
        /\ UNCHANGED <<product, version, key, stale>>
    BY <1>17 DEF Sell, Answers, Takes, Committed
  <2>2. CatalogTypeOK'
    BY <1>0, <1>1, <2>1 DEF CatalogTypeOK
  <2>3. \A r \in Request : JobIsSound(r)'
    BY <1>0, <1>1, <2>1 DEF CatalogIInv, CatalogTypeOK, JobIsSound, Offered
  <2>4. QED
    BY <1>0, <2>1, <2>2, <2>3
       DEF CatalogIInv, Committed, Offered, OwnersMaySell, sessionVars
<1>18. CASE Drop(q)
  BY <1>9, <1>18 DEF Drop
<1>19. QED
  BY <1>4, <1>5, <1>6, <1>7, <1>8, <1>10, <1>11, <1>12, <1>13, <1>14, <1>15, <1>16, <1>17,
     <1>18 DEF CatalogStep

\* Every behaviour of the server is one of the sessions.
THEOREM AccountsRefineSessions == Spec => SessionsSpec
<1>1. Init => SessionsInit
  BY DEF Init
<1>2. [Next]_vars => [\E q \in Request : SessionStep(q)]_sessionVars
  BY DEF Next, vars, SessionsServe, CatalogStep
<1>3. QED
  BY <1>1, <1>2, PTL DEF Spec, SessionsSpec

\* Beside the calls about the catalog, too, sessions are few, none outlives a
\* changed password unless its call was under way, and tokens claim roles that
\* were given (login, refresh, changePassword, updateMyRole).
THEOREM SessionsHold == Spec => []SessionInv
BY AccountsRefineSessions, SessionsCorrect, PTL

\* Sessions and catalog together, by induction.
LEMMA CatalogIInvAlways == Spec => []CatalogIInv
<1>1. SessionIInv /\ CatalogIInv /\ [Next]_vars => SessionIInv' /\ CatalogIInv'
  <2> SUFFICES ASSUME SessionIInv, CatalogIInv, [Next]_vars
               PROVE  SessionIInv' /\ CatalogIInv'
    OBVIOUS
  <2>1. SessionIInv'
    BY SessionIInvStep DEF Next, vars, SessionsServe, CatalogStep
  <2>2. ASSUME UNCHANGED vars
        PROVE  CatalogIInv'
    BY <2>2, SessionKeepsCatalog DEF vars, sessionVars
  <2>3. ASSUME NEW q \in Request, SessionsServe(q)
        PROVE  CatalogIInv'
    BY <2>3, RoleIsKept, SessionKeepsCatalog DEF SessionsServe
  <2>4. ASSUME NEW q \in Request, CatalogStep(q)
        PROVE  CatalogIInv'
    BY <2>4, CatalogStepKeeps
  <2>5. QED
    BY <2>1, <2>2, <2>3, <2>4 DEF Next
<1>2. Init => SessionIInv /\ CatalogIInv
  BY SessionIInvInit, CatalogIInvInit DEF Init
<1>3. QED
  BY <1>1, <1>2, PTL DEF Spec

\* When hide or revoke answers, it has taken effect at some moment of the call,
\* for any number of requests and versions (hideProduct, hideVersion, revokeKey).
THEOREM CatalogCorrect == Spec => []CatalogInv
<1>1. CatalogIInv => CatalogInv
  BY DEF CatalogIInv, CatalogInv, DecisionsTakeEffect, JobIsSound
<1>2. QED
  BY <1>1, CatalogIInvAlways, PTL

\* What is sold is a draft again only after updates that overlapped (updateProduct,
\* subscribe).
THEOREM SoldProducts == Spec => []SoldIsNoDraft
<1>1. CatalogIInv => SoldIsNoDraft
  BY DEF CatalogIInv, SoldIsNoDraft, Committed
<1>2. QED
  BY <1>1, CatalogIInvAlways, PTL

\* Whoever owns a product is a seller or an administrator, for any number of tokens
\* that are still about (RolesGuard, createProduct, updateMyRole).
THEOREM ProductOwners == Spec => []OwnersMaySell
<1>1. CatalogIInv => OwnersMaySell
  BY DEF CatalogIInv
<1>2. QED
  BY <1>1, CatalogIInvAlways, PTL
=============================================================================
