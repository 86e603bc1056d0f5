--------------------------- MODULE ExclusiveLease ---------------------------
(***************************************************************************)
(* What one row of BackgroundJobLease promises the job that runs under it: *)
(* at most one live holder; a live lease passes to another owner only      *)
(* through a moment at which nobody holds it.                              *)
(***************************************************************************)
CONSTANTS Owner,    \* lease owner ids, one per process incarnation
          NoOwner   \* nobody holds a live lease; not an owner id

VARIABLE holder     \* the owner of the live lease, or NoOwner

Init == holder = NoOwner

\* o takes the lease when it is free, or renews its own.
Grant(o) == /\ holder \in {NoOwner, o}
            /\ holder' = o

\* The live lease runs out.
Lapse == /\ holder # NoOwner
         /\ holder' = NoOwner

Next == Lapse \/ \E o \in Owner : Grant(o)

Spec == Init /\ [][Next]_holder
=============================================================================
