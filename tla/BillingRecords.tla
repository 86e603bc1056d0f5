--------------------------- MODULE BillingRecords ---------------------------
(***************************************************************************)
(* The Subscription row and what billing writes into it, and the rule by   *)
(* which usage metering reads it.  A time is a positive number; a column   *)
(* that is null is NoTime.                                                 *)
(***************************************************************************)
EXTENDS Naturals

CONSTANT GraceDays     \* BILLING_GRACE_PERIOD_DAYS

ASSUME GraceDaysAssumption == GraceDays \in Nat

NoTime == 0

\* "NONE" stands for a row that does not exist yet.
SubscriptionStatus == {"NONE", "PENDING", "ACTIVE", "PAST_DUE", "CANCELED"}

SubscriptionRow == [status : SubscriptionStatus, start : Nat, end : Nat, grace : Nat]

NoSubscription ==
  [status |-> "NONE", start |-> NoTime, end |-> NoTime, grace |-> NoTime]

NewSubscription ==
  [NoSubscription EXCEPT !.status = "PENDING"]

Later(t, u) == IF t > u THEN t ELSE u

\* A plausible slip: each failure adds to the grace that was given before.
GraceEndAdding(start, end, existing, now) ==
  IF start = NoTime \/ GraceDays = 0
    THEN NoTime
    ELSE Later(existing, Later(end, now)) + GraceDays

\* The end of the grace that a failure seen at now gives: after the paid period
\* or after now, and never before the end it already had.
GraceEnd(start, end, existing, now) ==
  IF start = NoTime \/ GraceDays = 0
    THEN NoTime
    ELSE Later(existing, Later(end, now) + GraceDays)

\* What a paid subscription invoice makes of the subscription.
Activated(period) ==
  [status |-> "ACTIVE", start |-> period.start, end |-> period.end, grace |-> NoTime]

\* What a failed one makes of it; seen is the row as the handler read it.
Suspended(sub, seen, now) ==
  [sub EXCEPT !.status = "PAST_DUE",
              !.grace = GraceEnd(seen.start, seen.end, seen.grace, now)]

\* The moment the subscription's usage window closes.
WindowEnd(sub) == IF sub.status = "PAST_DUE" THEN sub.grace ELSE sub.end

\* The row has a usage window that contains t; its status is looked at only to
\* choose the window's end.
HasWindow(sub, t) == /\ sub.start # NoTime
                     /\ sub.start <= t
                     /\ t < WindowEnd(sub)

\* A call at t is authorized: the query asks for ACTIVE or PAST_DUE rows.
HasAccess(sub, t) == /\ sub.status \in {"ACTIVE", "PAST_DUE"}
                     /\ HasWindow(sub, t)
=============================================================================
