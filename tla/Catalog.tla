------------------------------- MODULE Catalog -------------------------------
(***************************************************************************)
(* One product, its versions and a plan, and one API key: the owner edits  *)
(* them, administrators hide and revoke, buyers subscribe.  Every call     *)
(* reads first and writes in a later statement, creating or updating a     *)
(* version after an OpenAPI document has been fetched in between.          *)
(*                                                                         *)
(* Only status is modelled: updates of texts alone are no step, nor are    *)
(* calls that are refused.  The plan is active.  What happens inside the   *)
(* subscribe transaction is in Checkout; here it sells once.               *)
(* The guards ask for roles that the access tokens of Sessions claim.      *)
(***************************************************************************)
EXTENDS Sessions

CONSTANT Version \* version names of the product

ASSUME CatalogAssumption == Version \cap {"product", "key"} = {}

VARIABLES product, \* ApiProduct.status
          version, \* ApiVersion.status per name
          key,     \* ApiKey
          sold,    \* somebody has subscribed
          stale,   \* an update was stored over a status it had not read
          job      \* per request: where it stands and what it has read

ProductStatus == {"DRAFT", "PUBLISHED", "HIDDEN"}
VersionStatus == {"DRAFT", "PUBLISHED"}
None == "none"
Subject == {"product", "key"} \cup Version

\* read: the status that was read; next: the status to write; done: what the
\* administrator decides has been so at some moment since the call began.
Job == [pc : {"free", "fetching", "creating", "updating", "deciding", "decided",
              "choosing", "subscribing"},
        subject : Subject, read : ProductStatus \cup {"active", "revoked", None},
        next : ProductStatus \cup {None}, done : BOOLEAN]

NoJob == [pc |-> "free", subject |-> "product", read |-> None, next |-> None,
         done |-> FALSE]

CatalogTypeOK ==
  /\ product \in ProductStatus \cup {None}
  /\ version \in [Version -> VersionStatus \cup {None}]
  /\ key \in {"active", "revoked", None}
  /\ {sold, stale} \subseteq BOOLEAN
  /\ job \in [Request -> Job]

CatalogInit == /\ product = None
               /\ version = [v \in Version |-> None]
               /\ key = None
               /\ sold = FALSE /\ stale = FALSE
               /\ job = [q \in Request |-> NoJob]

Available(q) == job[q].pc \in {"free", "decided"}

\* A plausible slip: the guard for roles is forgotten.
MaySellSignedIn == SignedIn

Seller == {"SELLER", "ADMIN"}

\* RolesGuard: the role is the one in the access token.  What an administrator
\* who is not the owner updates is among these steps, too: a product is there
\* only once its owner has had such a token.
MaySell == access \cap Seller # {}

\* What an administrator decides about a subject.
Outcome(subject) == CASE subject = "product" -> "HIDDEN"
                      [] subject = "key" -> "revoked"
                      [] OTHER -> "DRAFT"

Status(subject) == CASE subject = "product" -> product
                     [] subject = "key" -> key
                     [] OTHER -> version[subject]

catalogVars == <<product, version, key, sold, stale, job>>
rows == <<product, version, key, sold, stale>>

Takes(q, j) == job' = [job EXCEPT ![q] = j]
MovesOn(q, pc) == Takes(q, [job[q] EXCEPT !.pc = pc])
Answers(q) == Takes(q, NoJob)

\* A call stores a status and goes on as j; the decisions under way take note.
Store(q, subject, status, j) ==
  /\ product' = IF subject = "product" THEN status ELSE product
  /\ key' = IF subject = "key" THEN status ELSE key
  /\ version' = [v \in Version |-> IF v = subject THEN status ELSE version[v]]
  /\ job' = [r \in Request |->
               IF r = q THEN j
               ELSE IF /\ job[r].pc = "deciding" /\ job[r].subject = subject
                       /\ status = Outcome(subject)
                      THEN [job[r] EXCEPT !.done = TRUE]
                      ELSE job[r]]

-----------------------------------------------------------------------------
(* The owner *)

CreateProduct(q) ==
  /\ Available(q) /\ MaySell /\ product = None
  /\ Store(q, "product", "DRAFT", NoJob)
  /\ UNCHANGED <<sold, stale>>

\* A plausible slip: a product can be taken back to a draft like a version.
ProductTransitionBack(from, to) ==
  \/ from = to
  \/ from \in {"DRAFT", "HIDDEN"} /\ to = "PUBLISHED"
  \/ from = "PUBLISHED" /\ to \in {"DRAFT", "HIDDEN"}

ProductTransition(from, to) ==
  \/ from = to
  \/ from \in {"DRAFT", "HIDDEN"} /\ to = "PUBLISHED"
  \/ from = "PUBLISHED" /\ to = "HIDDEN"

UpdateProduct(q, next) ==
  /\ Available(q) /\ MaySell /\ product # None
  /\ ProductTransition(product, next)
  /\ Takes(q, [NoJob EXCEPT !.pc = "updating", !.read = product, !.next = next])
  /\ UNCHANGED rows

\* No version of that name yet.
CreateVersion(q, v) ==
  /\ Available(q) /\ MaySell /\ product # None /\ version[v] = None
  /\ Takes(q, [NoJob EXCEPT !.pc = "fetching", !.subject = v, !.next = "DRAFT"])
  /\ UNCHANGED rows

\* Both statuses of a version lead to both; with a new openApiUrl the document
\* is fetched before the write.
UpdateVersion(q, v, next) ==
  /\ Available(q) /\ MaySell /\ version[v] # None
  /\ \E pc \in {"fetching", "updating"} :
       Takes(q, [NoJob EXCEPT !.pc = pc, !.subject = v, !.read = version[v],
                               !.next = next])
  /\ UNCHANGED rows

\* The document is there; a failed fetch is Drop.
Fetched(q) ==
  /\ job[q].pc = "fetching"
  /\ MovesOn(q, IF job[q].read = None THEN "creating" ELSE "updating")
  /\ UNCHANGED rows

\* The unique index on product and version decides between two creations.
StoreVersion(q) ==
  /\ job[q].pc = "creating"
  /\ IF version[job[q].subject] = None
       THEN Store(q, job[q].subject, "DRAFT", NoJob)
       ELSE Answers(q) /\ UNCHANGED <<product, version, key>>
  /\ UNCHANGED <<sold, stale>>

StoreUpdate(q) ==
  /\ job[q].pc = "updating"
  /\ Store(q, job[q].subject, job[q].next, NoJob)
  /\ stale' = (stale \/ (job[q].subject = "product" /\ job[q].read # product))
  /\ UNCHANGED sold

CreateKey(q) ==
  /\ Available(q) /\ SignedIn /\ key = None
  /\ Store(q, "key", "active", NoJob)
  /\ UNCHANGED <<sold, stale>>

-----------------------------------------------------------------------------
(* Hide and revoke; the owner of a key may revoke it, too *)

Decide(q, subject) ==
  /\ Available(q) /\ Status(subject) # None
  /\ Takes(q, [NoJob EXCEPT !.pc = "deciding", !.subject = subject,
                   !.read = Status(subject),
                   !.done = Status(subject) = Outcome(subject)])
  /\ UNCHANGED rows

\* A plausible slip: only what is public is worth a write.
ChangedIfPublic(subject, read) == read \in {"PUBLISHED", "active"}

\* Whether there is something to change is told by what was read.
Changed(subject, read) == read # Outcome(subject)

\* The status and the audit row are written in one transaction.
StoreDecision(q) ==
  /\ job[q].pc = "deciding"
  /\ IF Changed(job[q].subject, job[q].read)
       THEN Store(q, job[q].subject, Outcome(job[q].subject),
                  [NoJob EXCEPT !.pc = "decided", !.done = TRUE])
       ELSE /\ Takes(q, [NoJob EXCEPT !.pc = "decided", !.done = job[q].done])
            /\ UNCHANGED <<product, version, key>>
  /\ UNCHANGED <<sold, stale>>

-----------------------------------------------------------------------------
(* A buyer, and calls that end early *)

\* The plan is read with its product ...
Subscribe(q) ==
  /\ Available(q) /\ product = "PUBLISHED"
  /\ Takes(q, [NoJob EXCEPT !.pc = "choosing"])
  /\ UNCHANGED rows

\* ... then a published version is looked for ...
FindVersion(q) ==
  /\ job[q].pc = "choosing"
  /\ \E v \in Version : version[v] = "PUBLISHED"
  /\ MovesOn(q, "subscribing")
  /\ UNCHANGED rows

\* ... and the subscription created, whatever has become of both.
Sell(q) ==
  /\ job[q].pc = "subscribing"
  /\ sold' = TRUE
  /\ Answers(q)
  /\ UNCHANGED <<product, version, key, stale>>

Drop(q) == /\ ~Available(q)
           /\ Answers(q)
           /\ UNCHANGED rows

CatalogStep(q) ==
  /\ Idle(q)
  /\ UNCHANGED sessionVars
  /\ \/ CreateProduct(q) \/ Fetched(q) \/ StoreVersion(q) \/ StoreUpdate(q)
     \/ CreateKey(q) \/ StoreDecision(q)
     \/ Subscribe(q) \/ FindVersion(q) \/ Sell(q) \/ Drop(q)
     \/ \E status \in ProductStatus : UpdateProduct(q, status)
     \/ \E v \in Version : CreateVersion(q, v)
     \/ \E v \in Version, status \in VersionStatus : UpdateVersion(q, v, status)
     \/ \E subject \in Subject : Decide(q, subject)

-----------------------------------------------------------------------------

\* When hide or revoke answers, the subject has been hidden or revoked at some
\* moment of the call, even when it was read long before and nothing written.
DecisionsTakeEffect ==
  \A q \in Request : job[q].pc = "decided" => job[q].done

CatalogInv == CatalogTypeOK /\ DecisionsTakeEffect

\* A product that is sold, or about to be, is a draft again only if an update of
\* its status overlapped another: the calls check the transition against what
\* they have read, and buyers are not looked at.
SoldIsNoDraft ==
  /\ product = "DRAFT"
  /\ sold \/ \E q \in Request : job[q].pc \in {"choosing", "subscribing"}
  => stale
=============================================================================
