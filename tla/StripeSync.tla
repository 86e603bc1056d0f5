----------------------------- MODULE StripeSync -----------------------------
(***************************************************************************)
(* One subscription sold through Stripe Checkout, and the copy of it that  *)
(* webhooks and the reconciliation worker keep.  Stripe delivers events in *)
(* any order, delivers again what was not acknowledged, and every handler  *)
(* is a sequence of reads and updates that other handlers come between.    *)
(*                                                                         *)
(* Assumed of Stripe: it makes one invoice per billing period, numbered    *)
(* here with it, and its events name the bounds of that very period.       *)
(* Amounts, attempt counts and the clock are left out: a usage window is   *)
(* the period it belongs to, the end of a grace period is Checkout's.      *)
(***************************************************************************)
EXTENDS Naturals, FiniteSets

CONSTANTS Webhook,     \* concurrent POST /billing/stripe/webhook calls
          Reconciler,  \* processes in a reconciliation cycle
          Periods,     \* bound on billing periods
          MaxBacklog,  \* bound on unacknowledged events while Stripe moves on
          MaxFaults    \* bound on failed handlers and on lost answers

ASSUME StripeSyncAssumption == /\ Periods \in Nat \ {0}
                               /\ MaxBacklog \in Nat /\ MaxFaults \in Nat
                               /\ Webhook \cap Reconciler = {}

VARIABLES stripe,      \* the subscription and its invoices as Stripe has them
          events,      \* events Stripe has yet to see acknowledged
          sub,         \* the Subscription row
          row,         \* Invoice rows: 0 is the one subscribe created, n > 0 the
                       \* one created for Stripe's invoice n
          checkoutExt, \* externalInvoiceId of row 0, 0 when null; that of row n is n
          handler,     \* per process: where it stands and what it works on
          faults

localVars == <<sub, row, checkoutExt>>
vars == <<stripe, events, sub, row, checkoutExt, handler, faults>>

Process == Webhook \cup Reconciler
External == 1..Periods
Row == 0..Periods

StripeStatus == {"checkout", "expired", "active", "past_due", "canceled"}
RowStatus == {"NONE", "DRAFT", "PAID", "PAST_DUE", "VOID"}
LocalStatus == {"PENDING", "ACTIVE", "PAST_DUE", "CANCELED"}

InvoiceEvent(n, status) == [kind |-> "invoice", inv |-> n, status |-> status]
UpdatedEvent(status, n) == [kind |-> "updated", inv |-> n, status |-> status]
OtherEvent(kind) == [kind |-> kind, inv |-> 0, status |-> "NONE"]
Event == [kind : {"checkout", "expired", "invoice", "updated", "deleted"},
          inv : 0..Periods, status : RowStatus \cup LocalStatus]

StripeRecord == [status : StripeStatus, period : 0..Periods,
                 inv : [External -> {"NONE", "open", "paid"}]]
Subscription == [status : LocalStatus, period : 0..Periods, linked : BOOLEAN]
Handler == [pc : {"idle", "selected", "taken", "creating", "found", "writing",
                  "settling", "done"},
            event : Event, row : Row, seen : RowStatus]

Idle == [pc |-> "idle", event |-> OtherEvent("checkout"), row |-> 0, seen |-> "NONE"]

TypeOK ==
  /\ stripe \in StripeRecord
  /\ events \subseteq Event
  /\ sub \in Subscription
  /\ row \in [Row -> RowStatus]
  /\ checkoutExt \in Row
  /\ handler \in [Process -> Handler]
  /\ faults \in Nat

\* subscribe has run and Stripe Checkout is open.
Init == /\ stripe = [status |-> "checkout", period |-> 0, inv |-> [n \in External |-> "NONE"]]
        /\ events = {}
        /\ sub = [status |-> "PENDING", period |-> 0, linked |-> FALSE]
        /\ row = [n \in Row |-> IF n = 0 THEN "DRAFT" ELSE "NONE"]
        /\ checkoutExt = 0
        /\ handler = [h \in Process |-> Idle]
        /\ faults = 0

-----------------------------------------------------------------------------
(* Stripe. *)

Local(status) == CASE status = "active"   -> "ACTIVE"
                   [] status = "past_due" -> "PAST_DUE"
                   [] status = "canceled" -> "CANCELED"
                   [] OTHER               -> "PENDING"

Becomes(status, n, inv) ==
  stripe' = [status |-> status, period |-> n, inv |-> [stripe.inv EXCEPT ![n] = inv]]

Emit(new) == events' = events \cup new

CompleteCheckout ==
  /\ stripe.status = "checkout"
  /\ Becomes("active", 1, "paid")
  /\ Emit({OtherEvent("checkout"), InvoiceEvent(1, "DRAFT"), InvoiceEvent(1, "PAID"),
           UpdatedEvent("ACTIVE", 1)})

ExpireCheckout ==
  /\ stripe.status = "checkout"
  /\ stripe' = [stripe EXCEPT !.status = "expired"]
  /\ Emit({OtherEvent("expired")})

Renew ==
  LET n == stripe.period + 1 IN
  /\ stripe.status = "active" /\ stripe.inv[stripe.period] = "paid"
  /\ n <= Periods
  /\ Becomes("active", n, "open")
  /\ Emit({InvoiceEvent(n, "DRAFT"), UpdatedEvent("ACTIVE", n)})

Due == /\ stripe.status \in {"active", "past_due"}
       /\ stripe.inv[stripe.period] = "open"

Pay == /\ Due
       /\ Becomes("active", stripe.period, "paid")
       /\ Emit({InvoiceEvent(stripe.period, "PAID"), UpdatedEvent("ACTIVE", stripe.period)})

FailPayment ==
  /\ Due /\ stripe.status = "active"
  /\ Becomes("past_due", stripe.period, "open")
  /\ Emit({InvoiceEvent(stripe.period, "PAST_DUE"), UpdatedEvent("PAST_DUE", stripe.period)})

EndSubscription ==
  /\ stripe.status \in {"active", "past_due"}
  /\ stripe' = [stripe EXCEPT !.status = "canceled"]
  /\ Emit({OtherEvent("deleted")})

Stripe == /\ Cardinality(events) <= MaxBacklog
          /\ \/ CompleteCheckout \/ ExpireCheckout \/ Renew \/ Pay \/ FailPayment
             \/ EndSubscription
          /\ UNCHANGED <<localVars, handler, faults>>

-----------------------------------------------------------------------------
(* The handlers. *)

At(h, pc) == handler[h].pc = pc
Job(h) == handler[h].event
Goto(h, pc) == handler' = [handler EXCEPT ![h].pc = pc]

Fault == /\ faults < MaxFaults
         /\ faults' = faults + 1

\* A webhook call brings an event that was not acknowledged yet.
Take(h) ==
  /\ h \in Webhook /\ At(h, "idle")
  /\ \E e \in events : handler' = [handler EXCEPT ![h].pc = "taken", ![h].event = e]
  /\ UNCHANGED <<stripe, events, localVars, faults>>

\* markInvoicePaid and markInvoiceFailed set externalSubscriptionId too.
SetSub(status, period) == sub' = [status |-> status, period |-> period, linked |-> TRUE]

\* recordExternalCheckout links the rows to Stripe's objects.
HandleCheckout(h) ==
  /\ At(h, "taken") /\ Job(h).kind = "checkout"
  /\ sub' = [sub EXCEPT !.linked = TRUE]
  /\ Goto(h, "done")
  /\ UNCHANGED <<stripe, events, row, checkoutExt, faults>>

\* Status and period as the event has them; a row that is not linked yet is not
\* found, and that error is ignored.
HandleUpdated(h) ==
  /\ At(h, "taken") /\ Job(h).kind = "updated"
  /\ IF sub.linked THEN SetSub(Job(h).status, Job(h).inv) ELSE UNCHANGED sub
  /\ Goto(h, "done")
  /\ UNCHANGED <<stripe, events, row, checkoutExt, faults>>

HandleDeleted(h) ==
  /\ At(h, "taken") /\ Job(h).kind = "deleted"
  /\ IF sub.linked THEN sub' = [sub EXCEPT !.status = "CANCELED"] ELSE UNCHANGED sub
  /\ Goto(h, "done")
  /\ UNCHANGED <<stripe, events, row, checkoutExt, faults>>

\* Row n carries Stripe's invoice e.
Carries(n, e) == IF n = 0 THEN checkoutExt = e ELSE n = e /\ row[n] # "NONE"

\* A plausible slip: a renewal invoice, whose subscription carries the metadata
\* of the checkout as well, is allowed to use it.
NamesCheckoutRowAlways(e) == TRUE

\* Only the first invoice may be found through the subscription's metadata.
NamesCheckoutRow(e) == e = 1

\* resolveInvoiceForExternalSync: by external id, then by metadata, then a new
\* row, if the subscription is known; without one the event is dropped.
ResolveInvoice(h) ==
  LET e == Job(h).inv
      known == {n \in Row : Carries(n, e)} IN
  /\ At(h, "taken") /\ Job(h).kind = "invoice"
  /\ \/ \E n \in known : handler' = [handler EXCEPT ![h].pc = "found", ![h].row = n]
     \/ /\ known = {}
        /\ IF NamesCheckoutRow(e) /\ checkoutExt = 0
             THEN handler' = [handler EXCEPT ![h].pc = "found", ![h].row = 0]
             ELSE Goto(h, IF sub.linked THEN "creating" ELSE "done")
  /\ UNCHANGED <<stripe, events, localVars, faults>>

\* checkout.session.expired names the checkout row itself.
ResolveExpired(h) ==
  /\ At(h, "taken") /\ Job(h).kind = "expired"
  /\ handler' = [handler EXCEPT ![h].pc = "found", ![h].row = 0]
  /\ UNCHANGED <<stripe, events, localVars, faults>>

\* The unique index refuses a second row for one external id: the handler fails,
\* and the event comes again.
CreateInvoice(h) ==
  LET e == Job(h).inv IN
  /\ At(h, "creating")
  /\ IF \E n \in Row : Carries(n, e)
       THEN /\ handler' = [handler EXCEPT ![h] = Idle]
            /\ UNCHANGED row
       ELSE /\ row' = [row EXCEPT ![e] = "DRAFT"]
            /\ handler' = [handler EXCEPT ![h].pc = "found", ![h].row = e]
  /\ UNCHANGED <<stripe, events, sub, checkoutExt, faults>>

\* The read on which the update depends.  An invoice that another external
\* invoice paid is left alone.
ReadInvoice(h) ==
  LET n == handler[h].row
      taken == /\ n = 0 /\ row[0] = "PAID" /\ checkoutExt # 0 /\ Job(h).inv # 0
               /\ checkoutExt # Job(h).inv IN
  /\ At(h, "found")
  /\ handler' = [handler EXCEPT ![h].pc = IF taken /\ Job(h).status # "DRAFT"
                                            THEN "done" ELSE "writing",
                                ![h].seen = row[n]]
  /\ UNCHANGED <<stripe, events, localVars, faults>>

\* A draft keeps a status that was not DRAFT when it was read.
NewStatus(h) == IF Job(h).status = "DRAFT" THEN handler[h].seen
                ELSE IF Job(h).kind = "expired" THEN "VOID" ELSE Job(h).status

WriteInvoice(h) ==
  LET n == handler[h].row IN
  /\ At(h, "writing")
  /\ row' = [row EXCEPT ![n] = NewStatus(h)]
  /\ checkoutExt' = IF n = 0 /\ Job(h).inv # 0 THEN Job(h).inv ELSE checkoutExt
  /\ Goto(h, IF Job(h).status = "DRAFT" THEN "done" ELSE "settling")
  /\ UNCHANGED <<stripe, events, sub, faults>>

\* The period the event of a row's invoice names.
PeriodOf(n) == IF n = 0 THEN 1 ELSE n

\* The subscription follows its invoice, in a statement of its own.
SettleSubscription(h) ==
  /\ At(h, "settling")
  /\ CASE NewStatus(h) = "PAID" -> SetSub("ACTIVE", PeriodOf(handler[h].row))
       [] NewStatus(h) = "PAST_DUE" -> SetSub("PAST_DUE", sub.period)
       [] OTHER -> sub' = [sub EXCEPT !.status = "PAST_DUE"]
  /\ Goto(h, "done")
  /\ UNCHANGED <<stripe, events, row, checkoutExt, faults>>

\* The answer reaches Stripe; reconciliation answers nobody.
Finish(h) ==
  /\ At(h, "done")
  /\ handler' = [handler EXCEPT ![h] = Idle]
  /\ events' = IF h \in Webhook THEN events \ {Job(h)} ELSE events
  /\ UNCHANGED <<stripe, localVars, faults>>

\* The handler fails somewhere, or its answer is lost: Stripe sends again.
Fail(h) ==
  /\ ~At(h, "idle")
  /\ Fault
  /\ handler' = [handler EXCEPT ![h] = Idle]
  /\ UNCHANGED <<stripe, events, localVars>>

\* A plausible slip: rows already past due are left to the webhooks.
SelectedActive == sub.linked /\ sub.status \in {"PENDING", "ACTIVE"}

Selected == sub.linked /\ sub.status \in {"PENDING", "ACTIVE", "PAST_DUE"}

\* The batch query; other rows of the batch may come first.
Select(h) ==
  /\ h \in Reconciler /\ At(h, "idle")
  /\ Selected
  /\ Goto(h, "selected")
  /\ UNCHANGED <<stripe, events, localVars, faults>>

InvoiceStatusAtStripe ==
  IF stripe.inv[stripe.period] = "paid" THEN "PAID"
  ELSE IF stripe.status = "past_due" THEN "PAST_DUE" ELSE "DRAFT"

\* The subscription and its latest invoice are fetched in one call.
Retrieve(h) ==
  /\ At(h, "selected")
  /\ handler' = [handler EXCEPT ![h].pc = "taken",
                                ![h].event = UpdatedEvent(Local(stripe.status), stripe.period),
                                ![h].seen = InvoiceStatusAtStripe]
  /\ UNCHANGED <<stripe, events, localVars, faults>>

\* syncSubscriptionFromExternal first, then the latest invoice like any other.
ReconcileSubscription(h) ==
  /\ h \in Reconciler /\ At(h, "taken") /\ Job(h).kind = "updated"
  /\ SetSub(Job(h).status, Job(h).inv)
  /\ handler' = [handler EXCEPT ![h].event = InvoiceEvent(Job(h).inv, handler[h].seen),
                                ![h].seen = "NONE"]
  /\ UNCHANGED <<stripe, events, row, checkoutExt, faults>>

Step(h) == \/ Take(h) \/ Select(h) \/ Retrieve(h)
           \/ HandleCheckout(h) \/ HandleDeleted(h)
           \/ h \in Webhook /\ HandleUpdated(h)
           \/ ReconcileSubscription(h)
           \/ ResolveInvoice(h) \/ ResolveExpired(h) \/ CreateInvoice(h)
           \/ ReadInvoice(h) \/ WriteInvoice(h) \/ SettleSubscription(h)
           \/ Finish(h)

Next == Stripe \/ \E h \in Process : Step(h) \/ Fail(h)

Spec == Init /\ [][Next]_vars

\* Stripe keeps sending what was not acknowledged, the worker's interval keeps
\* starting cycles, and a handler keeps going.  What happens at Stripe need not.
FairSpec == Spec /\ \A h \in Process : WF_vars(Step(h))

-----------------------------------------------------------------------------
\* Each Stripe invoice has one row at most, and the row of the checkout never
\* comes to stand for a renewal, however events are ordered, repeated or
\* handled side by side (resolveInvoiceForExternalSync).
LinksAreExclusive == checkoutExt \in {0, 1} /\ row[1] = "NONE"

\* Nothing but an expired checkout is heard of before there is a period.
EventSound(e) ==
  /\ e.kind = "invoice" => e.inv \in External /\ e.status \in RowStatus
  /\ e.kind = "updated" => e.inv \in External /\ e.status \in LocalStatus
  /\ e.kind = "expired" => e.inv = 0 /\ e.status = "NONE"
  /\ e.kind # "expired" => stripe.period # 0

HandlerSound(r) ==
  /\ r.pc \notin {"idle", "selected"} => EventSound(r.event)
  /\ r.pc = "selected" => sub.linked
  /\ r.pc = "creating" => r.event.kind = "invoice" /\ r.event.inv # 1
  /\ r.pc \in {"found", "writing", "settling"} =>
       /\ r.event.kind \in {"invoice", "expired"}
       /\ r.row = 0 => r.event.inv \in {0, 1}
       /\ r.row # 0 => r.row = r.event.inv /\ r.row # 1

\* The inductive invariant behind LinksAreExclusive (handleWebhook,
\* reconcileSubscription).
SyncInv == /\ TypeOK
           /\ LinksAreExclusive
           /\ stripe.status \in {"active", "past_due"} \/ sub.linked => stripe.period # 0
           /\ \A e \in events : EventSound(e)
           /\ \A h \in Process : HandlerSound(handler[h])

RowOf(e) == IF checkoutExt = e THEN 0 ELSE e

Mirrors ==
  LET latest == row[RowOf(stripe.period)] IN
  /\ stripe.period # 0
  /\ sub.status = Local(stripe.status)
  /\ sub.period = stripe.period
  /\ stripe.inv[stripe.period] = "paid" => latest = "PAID"
  /\ stripe.status = "past_due" => latest = "PAST_DUE"

\* Whatever was lost, repeated, delayed or overtaken: once Stripe comes to rest
\* with a live subscription, the local rows agree with it and stay so
\* (reconcileSubscription).
ReconciliationRepairs ==
  <>[](stripe.status \in {"active", "past_due"}) => <>[]Mirrors

\* A subscription that has ended at Stripe ends up CANCELED here for good
\* (reconcileSubscription, markSubscriptionCanceledByExternalId).
CancellationStays == stripe.status = "canceled" ~> [](sub.status = "CANCELED")
=============================================================================
