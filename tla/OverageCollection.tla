------------------------- MODULE OverageCollection -------------------------
(***************************************************************************)
(* Usage-based billing of one subscription: ended periods are settled into *)
(* OVERAGE invoices and, for a subscription without a price, rolled over   *)
(* locally; the OVERAGE invoices are then charged at Stripe.  The workers  *)
(* run in several processes under a lease that may lapse, and may go down  *)
(* or lose an answer at any step; Stripe reports every invoice by events   *)
(* that come late, in any order and again, to handlers that read a row and *)
(* write it later.                                                         *)
(*                                                                         *)
(* Periods are numbered and so is time: now = n while period n runs.  The  *)
(* event of the setup session is handled in one step (Checkout takes such  *)
(* a handler apart).  Prices are left out: an amount is a number of units. *)
(*                                                                         *)
(* Assumed of Stripe: an invoice takes every item its customer has pending *)
(* (the call leaves pending_invoice_items to its default), and one outside *)
(* the billing cycle spans no usage, so that settling a row made for it    *)
(* leaves nothing but that row's own mark.                                 *)
(***************************************************************************)
EXTENDS Naturals, Sequences, FiniteSets, Functions

CONSTANTS Worker,        \* processes that run the overage worker
          NoOwner,       \* nobody holds its lease
          Webhook,       \* requests that handle an event of Stripe at a time
          Periods,       \* bound on billing periods
          MaxUsage,      \* bound on the usage of a period
          Quota,         \* plan.quotaRequests
          UnitRequests,  \* plan.overageUnitRequests
          MaxCuts        \* bound on crashes, errors and leases that lapse
                         \* under a running cycle

ASSUME OverageAssumption == /\ NoOwner \notin Worker
                            /\ {Periods, UnitRequests} \subseteq Nat \ {0}
                            /\ {MaxUsage, Quota, MaxCuts} \subseteq Nat

VARIABLES linked,   \* Stripe manages the subscription (externalSubscriptionId);
                    \* otherwise it has no price and is rolled over locally
          now,      \* the period that is running
          sub,      \* the Subscription row; its period, 0 before there is one,
                    \* is kept for one that is rolled over locally
          bill,     \* per period its SUBSCRIPTION invoices: status, settled
                    \* (overageProcessedAt) and how many of them there are
          setup,    \* the Stripe Checkout session that collects a payment method
          counted,  \* usage in UsageRecord
          over,     \* per period its OVERAGE invoice
          phantom,  \* Stripe invoices that got a SUBSCRIPTION invoice of their own
          pending,  \* invoice items at Stripe that no invoice has taken yet
          inv,      \* the invoices the worker made at Stripe
          handler,  \* per webhook request: its event, and the status to write
          holder,   \* whose running cycle the live lease covers
          worker,   \* per process: where its cycle stands
          cuts

stripeVars == <<pending, inv>>
vars == <<linked, now, sub, bill, setup, counted, over, phantom, pending,
          inv, handler, holder, worker, cuts>>

Period == 1..(Periods + 1)
InvoiceStatus == {"NONE", "DRAFT", "PAID", "PAST_DUE", "VOID"}
Pc == {"idle", "settling", "settled", "reading", "item", "invoice", "pay", "mark",
       "write"}
Idle == [pc |-> "idle", todo |-> {}, ext |-> 0]
NoEvent == [pc |-> "idle", inv |-> 0, status |-> "NONE"]

TypeOK ==
  /\ linked \in BOOLEAN
  /\ now \in 1..(Periods + 1)
  /\ sub \in [status : {"PENDING", "ACTIVE", "PAST_DUE", "CANCELED"},
              period : 0..(Periods + 1), cancelAtPeriodEnd : BOOLEAN]
  /\ bill \in [Period -> [status : InvoiceStatus, settled : BOOLEAN, copies : Nat]]
  /\ setup \in {"none", "open", "completed", "expired"}
  /\ counted \in [Period -> Nat]
  /\ over \in [Period -> [status : InvoiceStatus, units : Nat, ext : Nat]]
  /\ phantom \subseteq Nat
  /\ pending \in [Period -> Nat]
  /\ inv \in Seq([period : Period, items : [Period -> Nat], status : {"draft", "open", "paid"}])
  /\ handler \in [Webhook -> [pc : {"idle", "read", "write", "access"}, inv : Nat,
                              status : InvoiceStatus]]
  /\ holder \in Worker \cup {NoOwner}
  /\ worker \in [Worker -> [pc : Pc, todo : SUBSET Period, ext : Nat]]
  /\ cuts \in 0..MaxCuts

Bill(status, copies) == [status |-> status, settled |-> FALSE, copies |-> copies]

\* What createPayment has opened: a plan without a price needs a session that only
\* collects a payment method.
SetupSession == IF linked THEN "none" ELSE "open"

\* subscribe has run and, with a price, the checkout is behind us.
Init == /\ linked \in BOOLEAN
        /\ now = 1
        /\ sub = [status |-> IF linked THEN "ACTIVE" ELSE "PENDING",
                  period |-> 0, cancelAtPeriodEnd |-> FALSE]
        /\ bill = [n \in Period |-> IF n > 1 THEN Bill("NONE", 0)
                                    ELSE Bill(IF linked THEN "PAID" ELSE "DRAFT", 1)]
        /\ setup = SetupSession
        /\ counted = [n \in Period |-> 0]
        /\ over = [n \in Period |-> [status |-> "NONE", units |-> 0, ext |-> 0]]
        /\ phantom = {}
        /\ pending = [n \in Period |-> 0] /\ inv = <<>>
        /\ handler = [h \in Webhook |-> NoEvent]
        /\ holder = NoOwner
        /\ worker = [w \in Worker |-> Idle]
        /\ cuts = 0

-----------------------------------------------------------------------------
(* The buyer, time and usage. *)

NextPeriod == /\ now <= Periods
              /\ now' = now + 1
              /\ UNCHANGED <<linked, sub, bill, setup, counted, over, phantom,
                             stripeVars, handler, holder, worker, cuts>>

FinishSetup == /\ setup = "open" /\ now = 1
               /\ setup' \in {"completed", "expired"}
               /\ UNCHANGED <<linked, now, sub, bill, counted, over, phantom,
                              stripeVars, handler, holder, worker, cuts>>

\* The event of a finished session, sent again while Stripe keeps trying, which
\* is for days, not for a period.  An expired session may leave the row VOID.
HandleSetupEvent ==
  /\ setup \in {"completed", "expired"} /\ now = 1
  /\ bill' = [bill EXCEPT ![1].status = IF setup = "completed" THEN "PAID" ELSE "VOID"]
  /\ sub' = IF setup = "completed"
              THEN [sub EXCEPT !.status = "ACTIVE", !.period = 1]
              ELSE [sub EXCEPT !.status = "PAST_DUE"]
  /\ UNCHANGED <<linked, now, setup, counted, over, phantom, stripeVars, handler,
                 holder, worker, cuts>>

\* The flag of a linked subscription is only shown: Stripe schedules its end.
CancelSubscription ==
  /\ ~linked /\ ~sub.cancelAtPeriodEnd
  /\ sub' = [sub EXCEPT !.cancelAtPeriodEnd = TRUE]
  /\ UNCHANGED <<linked, now, bill, setup, counted, over, phantom, stripeVars,
                 handler, holder, worker, cuts>>

Opened == {n \in Period : bill[n].status = "PAID"}

\* Usage of period n reaches UsageRecord: when it happens, or from the ingest
\* queue long after the period.
RecordUsage(n) ==
  /\ n \in Opened /\ n <= now /\ n <= Periods
  /\ counted[n] < MaxUsage
  /\ counted' = [counted EXCEPT ![n] = @ + 1]
  /\ UNCHANGED <<linked, now, sub, bill, setup, over, phantom, stripeVars, handler,
                 holder, worker, cuts>>

\* Stripe renews a linked subscription, or ends it (StripeSync).
StripeRenews ==
  /\ linked /\ sub.status # "CANCELED"
  /\ now \in Period \ Opened
  /\ now - 1 \in Opened
  /\ bill' = [bill EXCEPT ![now] = Bill("PAID", 1)]
  /\ sub' = [sub EXCEPT !.status = "ACTIVE"]
  /\ UNCHANGED <<linked, now, setup, counted, over, phantom, stripeVars, handler, holder,
                 worker, cuts>>

StripeEnds ==
  /\ linked /\ sub.status # "CANCELED"
  /\ sub' = [sub EXCEPT !.status = "CANCELED", !.cancelAtPeriodEnd = FALSE]
  /\ UNCHANGED <<linked, now, bill, setup, counted, over, phantom, stripeVars,
                 handler, holder, worker, cuts>>

-----------------------------------------------------------------------------
(* processDueOverageCollection *)

At(w, pc) == worker[w].pc = pc
Goto(w, pc) == worker' = [worker EXCEPT ![w].pc = pc]

\* A batch is worked through oldest period first.
Current(w) == CHOOSE n \in worker[w].todo : \A m \in worker[w].todo : n <= m

\* On to these rows; what is next if there are none is given.
Work(w, todo, pc, none) ==
  worker' = [worker EXCEPT ![w] =
    [pc |-> IF todo = {} THEN none ELSE pc, todo |-> todo, ext |-> 0]]

Advance(w, next, last) == Work(w, worker[w].todo \ {Current(w)}, next, last)

\* A plausible slip: a subscription that has ended in the meantime is left out.
DueActiveOnly == {n \in Period : /\ bill[n].status = "PAID" /\ ~bill[n].settled /\ n < now
                                 /\ sub.status = "ACTIVE"}

Due == {n \in Period : bill[n].status = "PAID" /\ ~bill[n].settled /\ n < now}
Pending == {n \in Period : over[n].status = "DRAFT" /\ over[n].ext = 0}

\* The lease outlives its cycle by a while, which only delays the next one; what
\* matters is whose running cycle it covers.
Release(w) == holder' = IF holder = w /\ worker'[w].pc = "idle" THEN NoOwner ELSE holder

\* The lease, and then the due rows; whether they are still due is asked again.
Acquire(w) ==
  /\ At(w, "idle") /\ holder = NoOwner
  /\ Work(w, Due, "settling", "settled")
  /\ holder' = w
  /\ UNCHANGED <<linked, now, sub, bill, setup, counted, over, phantom, stripeVars, handler, cuts>>

\* A plausible slip: a unit that was only started is not billed.
BuildSettlementWhole(used) ==
  IF used <= Quota THEN 0 ELSE (used - Quota) \div UnitRequests

BuildSettlement(used) ==
  IF used <= Quota THEN 0 ELSE (used - Quota + UnitRequests - 1) \div UnitRequests
MaySettle(n) == bill[n].status = "PAID" /\ ~bill[n].settled

LocallyManaged == ~linked /\ sub.period # 0

\* What the end of period n means for a subscription that Stripe does not manage.
RollOver(n) ==
  IF ~LocallyManaged \/ (~sub.cancelAtPeriodEnd /\ sub.status = "CANCELED")
    THEN /\ UNCHANGED sub
         /\ bill' = [bill EXCEPT ![n].settled = TRUE]
  ELSE IF sub.cancelAtPeriodEnd
    THEN /\ sub' = [sub EXCEPT !.status = "CANCELED", !.cancelAtPeriodEnd = FALSE]
         /\ bill' = [bill EXCEPT ![n].settled = TRUE]
    ELSE /\ sub' = [sub EXCEPT !.status = "ACTIVE", !.period = n + 1]
         /\ bill' = [bill EXCEPT ![n].settled = TRUE,
                                 ![n + 1] = Bill("PAID", bill[n + 1].copies + 1)]

\* One serializable transaction.
Materialize(w) ==
  LET n == Current(w)
      units == BuildSettlement(counted[n]) IN
  /\ At(w, "settling")
  /\ IF MaySettle(n)
       THEN /\ RollOver(n)
            /\ over' = IF units > 0 /\ over[n].status = "NONE"
                         THEN [over EXCEPT ![n] = [status |-> "DRAFT", units |-> units, ext |-> 0]]
                         ELSE over
       ELSE UNCHANGED <<sub, bill, over>>
  /\ Advance(w, "settling", "settled")
  /\ Release(w)
  /\ UNCHANGED <<linked, now, setup, counted, phantom, stripeVars, handler, cuts>>

FetchPending(w) ==
  /\ At(w, "settled")
  /\ Work(w, Pending, "reading", "idle")
  /\ Release(w)
  /\ UNCHANGED <<linked, now, sub, bill, setup, counted, over, phantom, stripeVars, handler, cuts>>

\* collectOverageInvoice reads the row; from here on it trusts what it read.
ReadOverage(w) ==
  /\ At(w, "reading")
  /\ IF Current(w) \in Pending THEN Goto(w, "item") ELSE Advance(w, "reading", "idle")
  /\ Release(w)
  /\ UNCHANGED <<linked, now, sub, bill, setup, counted, over, phantom, stripeVars, handler, cuts>>

CreateItem(w) ==
  /\ At(w, "item")
  /\ pending' = [pending EXCEPT ![Current(w)] = @ + 1]
  /\ Goto(w, "invoice")
  /\ UNCHANGED <<linked, now, sub, bill, setup, counted, over, phantom, inv, handler, holder,
                 cuts>>

\* The invoice takes every item the customer has pending, of whichever period,
\* and names this one in its metadata.
CreateInvoice(w) ==
  /\ At(w, "invoice")
  /\ inv' = Append(inv, [period |-> Current(w), items |-> pending, status |-> "draft"])
  /\ pending' = [n \in Period |-> 0]
  /\ worker' = [worker EXCEPT ![w].pc = "pay", ![w].ext = Len(inv) + 1]
  /\ UNCHANGED <<linked, now, sub, bill, setup, counted, over, phantom, handler, holder, cuts>>

Items(i) == SumFunction(inv[i].items)

\* Stripe finalizes the invoice and tries to charge it; an empty one is paid as it
\* is finalized.  Whatever fails, the status it has then is what counts.
PayInvoice(w) ==
  LET i == worker[w].ext IN
  /\ At(w, "pay")
  /\ \E status \in {"draft", "open", "paid"} :
       /\ Items(i) = 0 => status # "open"
       /\ inv' = [inv EXCEPT ![i].status = status]
  /\ Goto(w, "mark")
  /\ UNCHANGED <<linked, now, sub, bill, setup, counted, over, phantom, pending, handler,
                 holder, cuts>>

\* A plausible slip: an invoice that could be finalized counts as paid.
CollectedStatusFinalized(i) == IF inv[i].status = "draft" THEN "PAST_DUE" ELSE "PAID"

CollectedStatus(i) == IF inv[i].status = "paid" THEN "PAID" ELSE "PAST_DUE"

\* markInvoicePaid and markInvoiceFailed read the row first: one that another external
\* invoice paid is left alone.
PaidByAnother(n, i) == over[n].status = "PAID" /\ over[n].ext \notin {0, i}

\* A plausible slip: only a payment that went through is recorded.
WriteInvoiceWhenPaid(n, i, status) ==
  over' = IF status = "PAID" THEN [over EXCEPT ![n].status = status, ![n].ext = i] ELSE over

\* They write it later, whatever it is by then.  The update fails when the external
\* id has gone to another row.
WriteInvoice(n, i, status) ==
  over' = IF i \in phantom THEN over
                           ELSE [over EXCEPT ![n].status = status, ![n].ext = i]

MarkCollected(w) ==
  /\ At(w, "mark")
  /\ IF PaidByAnother(Current(w), worker[w].ext) THEN Advance(w, "reading", "idle")
                                                 ELSE Goto(w, "write")
  /\ Release(w)
  /\ UNCHANGED <<linked, now, sub, bill, setup, counted, over, phantom, stripeVars, handler, cuts>>

\* By the status the call returned, however long ago.
WriteCollected(w) ==
  /\ At(w, "write")
  /\ WriteInvoice(Current(w), worker[w].ext, CollectedStatus(worker[w].ext))
  /\ Advance(w, "reading", "idle")
  /\ Release(w)
  /\ UNCHANGED <<linked, now, sub, bill, setup, counted, phantom, stripeVars, handler, cuts>>

Cut == /\ cuts < MaxCuts
       /\ cuts' = cuts + 1

\* A call fails, or only its answer is lost: the batch goes on with the next row.
FailRow(w) ==
  /\ \/ At(w, "settling") /\ Advance(w, "settling", "settled")
     \/ worker[w].pc \in {"item", "invoice", "pay", "mark", "write"}
        /\ Advance(w, "reading", "idle")
  /\ Cut
  /\ Release(w)
  /\ UNCHANGED <<linked, now, sub, bill, setup, counted, over, phantom, stripeVars, handler>>

\* The process goes down and is started again.
Crash(w) ==
  /\ ~At(w, "idle")
  /\ worker' = [worker EXCEPT ![w] = Idle]
  /\ Cut
  /\ Release(w)
  /\ UNCHANGED <<linked, now, sub, bill, setup, counted, over, phantom, stripeVars, handler>>

\* The lease runs out under a running cycle and lets a second one in.
LeaseLapse ==
  /\ holder # NoOwner
  /\ holder' = NoOwner
  /\ Cut
  /\ UNCHANGED <<linked, now, sub, bill, setup, counted, over, phantom, stripeVars, handler,
                 worker>>

-----------------------------------------------------------------------------
(* Events of the invoices made at Stripe. *)

\* What Stripe has reported of an invoice; it may come at any time and again.
Reported(i) == {"DRAFT"} \cup CASE inv[i].status = "paid" -> {"PAID"}
                               [] inv[i].status = "open" -> {"PAST_DUE"}
                               [] OTHER -> {}

\* The row its metadata names, unless that carries another external invoice, or
\* the event's invoice has a row already.
RowFound(i) == over[inv[i].period].ext \in {0, i} /\ i \notin phantom

\* resolveInvoiceForExternalSync; it creates a row under the unique external id, so
\* its queries are as good as one step.  Without a row, if Stripe knows the
\* subscription, the invoice gets one of the default kind SUBSCRIPTION, over a period
\* of Stripe's own; if not, the event is dropped.
ResolveInvoice(h) ==
  /\ handler[h].pc = "idle"
  /\ \E i \in DOMAIN inv : \E status \in Reported(i) :
       \/ /\ RowFound(i)
          /\ handler' = [handler EXCEPT ![h] = [pc |-> "read", inv |-> i, status |-> status]]
          /\ UNCHANGED phantom
       \/ /\ ~RowFound(i) /\ linked
          /\ phantom' = phantom \cup {i}
          /\ handler' = IF status = "DRAFT" THEN handler
               ELSE [handler EXCEPT ![h] = [pc |-> "access", inv |-> i, status |-> status]]
  /\ UNCHANGED <<linked, now, sub, bill, setup, counted, over, stripeVars, holder, worker, cuts>>

\* syncInvoiceFromExternal reads the row found.  A draft event will keep the status
\* it reads, and link the row.
ReadInvoice(h) ==
  LET i == handler[h].inv
      n == inv[i].period IN
  /\ handler[h].pc = "read"
  /\ handler' = [handler EXCEPT ![h] =
       IF handler[h].status = "DRAFT"
         THEN [pc |-> "write", inv |-> i, status |-> over[n].status]
         ELSE IF PaidByAnother(n, i) THEN NoEvent ELSE [@ EXCEPT !.pc = "write"]]
  /\ UNCHANGED <<linked, now, sub, bill, setup, counted, over, phantom, stripeVars, holder,
                 worker, cuts>>

SyncInvoice(h) ==
  LET i == handler[h].inv IN
  /\ handler[h].pc = "write"
  /\ WriteInvoice(inv[i].period, i, handler[h].status)
  /\ handler' = [handler EXCEPT ![h] = NoEvent]
  /\ UNCHANGED <<linked, now, sub, bill, setup, counted, phantom, stripeVars, holder, worker,
                 cuts>>

\* A row of kind SUBSCRIPTION is settled like a renewal.
SyncAccess(h) ==
  /\ handler[h].pc = "access"
  /\ sub' = [sub EXCEPT !.status = IF handler[h].status = "PAID" THEN "ACTIVE" ELSE "PAST_DUE"]
  /\ handler' = [handler EXCEPT ![h] = NoEvent]
  /\ UNCHANGED <<linked, now, bill, setup, counted, over, phantom, stripeVars, holder, worker,
                 cuts>>

\* The handler fails, or its process goes down, before it writes: Stripe will send the
\* event again.
DropEvent(h) ==
  /\ handler[h].pc # "idle"
  /\ handler' = [handler EXCEPT ![h] = NoEvent]
  /\ UNCHANGED <<linked, now, sub, bill, setup, counted, over, phantom, stripeVars, holder,
                 worker, cuts>>

HandlerStep(h) == \/ ResolveInvoice(h) \/ ReadInvoice(h) \/ SyncInvoice(h)
                  \/ SyncAccess(h) \/ DropEvent(h)

-----------------------------------------------------------------------------
WorkerStep(w) == \/ Acquire(w) \/ Materialize(w) \/ FetchPending(w)
                 \/ ReadOverage(w) \/ CreateItem(w) \/ CreateInvoice(w)
                 \/ PayInvoice(w) \/ MarkCollected(w)
                 \/ WriteCollected(w)

Next == \/ NextPeriod \/ FinishSetup \/ HandleSetupEvent \/ CancelSubscription
        \/ StripeRenews \/ StripeEnds
        \/ \E n \in Period : RecordUsage(n)
        \/ \E w \in Worker : WorkerStep(w) \/ FailRow(w) \/ Crash(w)
        \/ LeaseLapse
        \/ \E h \in Webhook : HandlerStep(h)

Spec == Init /\ [][Next]_vars

\* setInterval starts cycles in every live process and a cycle keeps going; that
\* one of the processes does so is enough.
FairSpec == Spec /\ WF_vars(\E w \in Worker : WorkerStep(w))

-----------------------------------------------------------------------------
Charges(n) == pending[n] + SumFunction([i \in DOMAIN inv |-> inv[i].items[n]])

\* No period is opened twice, and a period's overage is charged again only after
\* a crash, a lost answer or a lapsed lease: each of them costs at most one
\* further charge (processDueOverageCollection, createManagedInvoice).
ChargesAreBounded == /\ \A n \in Period : bill[n].copies <= 1
                     /\ \A n \in Period : Charges(n) <= 1 + cuts

\* With the types of rows, cycles and invoices.
OverageInv == TypeOK /\ ChargesAreBounded

\* Whatever overlaps or is late, a row carries only an external invoice that was made
\* for it, and it is PAID only if Stripe was paid one of them.  As long as nothing was
\* cut off it is the one the row carries, and it was for this overage alone
\* (collectOverageInvoice, syncInvoiceFromExternal).
RecordedAsCharged ==
  \A n \in Period :
    LET i == over[n].ext IN
    /\ i # 0 => i \in DOMAIN inv /\ inv[i].period = n
    /\ over[n].status = "PAID" =>
         /\ \E j \in DOMAIN inv : inv[j].period = n /\ inv[j].status = "paid"
         /\ cuts = 0 => /\ inv[i].status = "paid"
                        /\ inv[i].items = [m \in Period |-> IF m = n THEN 1 ELSE 0]
    /\ over[n].status # "NONE" => bill[n].settled

Billing == INSTANCE PeriodBilling
             WITH Periods <- Periods + 1,
                  opened <- Cardinality(Opened),
                  ended <- ~linked /\ sub.status = "CANCELED",
                  billed <- [n \in Period |-> IF bill[n].settled THEN {over[n].units}
                                                                 ELSE {}]

\* Workers, crashes, cancellations and late usage together settle each period
\* once, after its end, for what was counted by then (materializeSourceInvoice).
ImplementsPeriodBilling == Billing!Spec

\* Again and again nothing is left over: the periods that have ended are settled,
\* late ones too, and their overage is decided or at least has an invoice at
\* Stripe (processDueOverageCollection).  One whose process went down between
\* making that invoice and paying it is not taken up again.
PeriodsAreCollected ==
  []<>(\A n \in Period :
         /\ bill[n].status = "PAID" /\ n < now => bill[n].settled
         /\ over[n].status = "DRAFT" => over[n].ext # 0)

\* What happens to a charge for overage leaves the subscription alone
\* (syncInvoiceFromExternal).
OverageLeavesAccess == [][\A h \in Webhook : HandlerStep(h) => UNCHANGED sub]_vars
=============================================================================
