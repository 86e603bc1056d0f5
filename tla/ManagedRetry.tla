---------------------------- MODULE ManagedRetry ----------------------------
(***************************************************************************)
(* Dunning of one renewal invoice that Stripe could not charge: the worker *)
(* that pays it again after each delay, and the webhooks and the           *)
(* reconciliation worker that write the same two rows meanwhile.           *)
(*                                                                         *)
(* The buyer has been a subscriber before, so the period is known.  The    *)
(* clock is left out: a scheduled attempt becomes due some time later, and *)
(* the grace period is Checkout's.  The events of the subscription, its    *)
(* end among them, are StripeSync's.                                       *)
(***************************************************************************)
EXTENDS Naturals, FiniteSets

CONSTANTS Worker,     \* processes that run the retry worker
          Webhook,    \* concurrent POST /billing/stripe/webhook calls
          Reconciler, \* processes in a reconciliation cycle
          NoOwner,    \* nobody holds the lease of the retry worker
          Delays,     \* number of BILLING_MANAGED_RETRY_DELAYS_MINUTES
          MaxCuts     \* bound on crashes, failed statements and leases that
                      \* lapse under a running cycle

ASSUME RetryAssumption == /\ Delays \in Nat \ {0} /\ MaxCuts \in Nat
                          /\ NoOwner \notin Worker
                          /\ Worker \cap (Webhook \cup Reconciler) = {}
                          /\ Webhook \cap Reconciler = {} /\ Webhook # {}
                          /\ IsFiniteSet(Worker \cup Webhook \cup Reconciler)

VARIABLES stripe,   \* whether Stripe has the money; if not, its subscription is
                    \* past_due, and active otherwise
          events,   \* reports on the invoice Stripe has yet to see acknowledged
          sub,      \* status of the Subscription row
          row,      \* the Invoice row with its managed retry state
          holder,   \* whose running cycle the live lease covers
          handler,  \* per process: where it stands and what it read
          attempts, \* how often the worker had the open invoice charged
          restarts, \* and how often a schedule under way was started again
          cuts

rows == <<sub, row>>
vars == <<stripe, events, sub, row, holder, handler, attempts, restarts, cuts>>

Process == Worker \cup Webhook \cup Reconciler
InvoiceStatus == {"DRAFT", "PAID", "PAST_DUE"}
SubStatus == {"ACTIVE", "PAST_DUE"}

\* managedNextRetryAt is null, ahead or passed; managedLastRetryAt is set with
\* the count.
RetryState == [count : Nat, next : {"none", "ahead", "due"}, exhausted : BOOLEAN]
Cleared == [count |-> 0, next |-> "none", exhausted |-> FALSE]

InvoiceRow == [status : InvoiceStatus, retry : RetryState]
Handler == [pc : {"idle", "paying", "reading", "writing",
                  "settling", "recording"},
            status : InvoiceStatus, count : Nat,
            dunned : BOOLEAN]

Resulting(status) == IF status = "PAID" THEN "ACTIVE" ELSE "PAST_DUE"
Idle == [pc |-> "idle", status |-> "DRAFT", count |-> 0, dunned |-> FALSE]

TypeOK ==
  /\ stripe \in {"open", "paid"}
  /\ events \subseteq InvoiceStatus
  /\ sub \in SubStatus
  /\ row \in InvoiceRow
  /\ holder \in Worker \cup {NoOwner}
  /\ handler \in [Process -> Handler]
  /\ attempts \in Nat /\ restarts \in Nat
  /\ cuts \in 0..MaxCuts

\* The renewal has just been refused; its row was made by invoice.created.
Init == /\ stripe = "open"
        /\ events = {"PAST_DUE"}
        /\ sub = "ACTIVE"
        /\ row = [status |-> "DRAFT", retry |-> Cleared]
        /\ holder = NoOwner
        /\ handler = [p \in Process |-> Idle]
        /\ attempts = 0 /\ restarts = 0
        /\ cuts = 0

-----------------------------------------------------------------------------
(* Stripe and time. *)

Paid == /\ stripe = "open"
        /\ stripe' = "paid"
        /\ events' = events \cup {"PAID"}

\* The buyer pays in Stripe's portal.
BuyerPays == /\ Paid
             /\ UNCHANGED <<rows, holder, handler, attempts, restarts, cuts>>

\* The scheduled time comes.
RetryFallsDue == /\ row.retry.next = "ahead"
                 /\ row' = [row EXCEPT !.retry.next = "due"]
                 /\ UNCHANGED <<stripe, events, sub, holder, handler, attempts, restarts, cuts>>

-----------------------------------------------------------------------------
(* billing-managed-retry.policy.ts *)

\* A plausible slip: an attempt is scheduled for the count before it.
ScheduledLate(count) == [count |-> count, next |-> IF count <= Delays THEN "ahead" ELSE "none",
                         exhausted |-> count > Delays]

\* The state with count attempts behind it.
Scheduled(count) == [count |-> count, next |-> IF count < Delays THEN "ahead" ELSE "none",
                     exhausted |-> count >= Delays]

InitialState == Scheduled(0)
AfterAttempt(count) == Scheduled(count + 1)
HasState(retry) == retry # Cleared

-----------------------------------------------------------------------------
(* markInvoicePaid and markInvoiceFailed: a read, the update of the invoice *)
(* and, in a statement of its own, that of the subscription.                *)

At(p, pc) == handler[p].pc = pc
Status(p) == handler[p].status

\* An attempt of the worker has failed; all it still needs is the count.
Failed(p) == /\ handler' = [handler EXCEPT ![p] = [Idle EXCEPT !.pc = "recording", !.count = handler[p].count]]
             /\ UNCHANGED <<events, holder>>

Stop(p) == /\ handler' = [handler EXCEPT ![p] = Idle]
           /\ holder' = IF holder = p THEN NoOwner ELSE holder

\* The call or the cycle ends; Stripe sees its event acknowledged.
Done(p) == /\ Stop(p)
           /\ events' = IF p \in Webhook THEN events \ {Status(p)} ELSE events

\* dunned: there is a state that a payment has to clear, or that a failure of an
\* invoice already past due has to keep.
ReadInvoice(p) ==
  /\ At(p, "reading")
  /\ handler' = [handler EXCEPT ![p].pc = "writing",
       ![p].dunned = HasState(row.retry) /\ (Status(p) = "PAID" \/ row.status = "PAST_DUE")]
  /\ UNCHANGED <<stripe, events, rows, holder, attempts, restarts, cuts>>

\* A plausible slip: payment leaves the retry state as it is.
RetryOncePaidKept(dunned) == row.retry

\* What a payment makes of the state: it is cleared if there was one when read.
RetryOncePaid(dunned) == IF dunned THEN Cleared ELSE row.retry

\* What a failure makes of it: dunning that was under way when read goes on.
RetryOnceFailed(dunned) == IF dunned THEN row.retry ELSE InitialState

WriteInvoice(p) ==
  LET dunned == handler[p].dunned IN
  /\ At(p, "writing")
  /\ row' = IF Status(p) = "PAID"
              THEN [status |-> "PAID", retry |-> RetryOncePaid(dunned)]
              ELSE [status |-> "PAST_DUE", retry |-> RetryOnceFailed(dunned)]
  /\ restarts' = IF stripe = "open" /\ row.status = "PAST_DUE" /\ row'.retry # row.retry
                   THEN restarts + 1 ELSE restarts
  /\ handler' = [handler EXCEPT ![p].pc = "settling", ![p].dunned = FALSE]
  /\ UNCHANGED <<stripe, events, sub, holder, attempts, cuts>>

SettleSubscription(p) ==
  /\ At(p, "settling")
  /\ sub' = Resulting(Status(p))
  /\ IF p \in Worker /\ Status(p) = "PAST_DUE" THEN Failed(p) ELSE Done(p)
  /\ UNCHANGED <<stripe, row, attempts, restarts, cuts>>

-----------------------------------------------------------------------------
(* Webhooks and reconciliation. *)

TakeInvoiceEvent(p) ==
  /\ p \in Webhook /\ At(p, "idle")
  /\ \E status \in events :
       handler' = [handler EXCEPT ![p].pc = "reading", ![p].status = status]
  /\ UNCHANGED <<stripe, events, rows, holder, attempts, restarts, cuts>>

InvoiceAtStripe == IF stripe = "paid" THEN "PAID" ELSE "PAST_DUE"

\* The subscription first, then its latest invoice like any other, both as they
\* were when fetched.
Reconcile(p) ==
  /\ p \in Reconciler /\ At(p, "idle")
  /\ sub' = Resulting(InvoiceAtStripe)
  /\ handler' = [handler EXCEPT ![p].pc = "reading", ![p].status = InvoiceAtStripe]
  /\ UNCHANGED <<stripe, events, row, holder, attempts, restarts, cuts>>

-----------------------------------------------------------------------------
(* The retry worker. *)

\* A plausible slip: only what was never scheduled is looked for.
DueForRetryUntried == /\ row.status = "PAST_DUE" /\ sub = "PAST_DUE"
                      /\ ~row.retry.exhausted
                      /\ row.retry.next = "none"

DueForRetry == /\ row.status = "PAST_DUE" /\ sub = "PAST_DUE"
               /\ ~row.retry.exhausted
               /\ \/ row.retry.next = "due"
                  \/ row.retry.next = "none" /\ row.retry.count = 0

\* The lease outlives its cycle, which only delays the next one; what matters is whose
\* running cycle it covers.
AcquireLease(p) == /\ holder = NoOwner
                   /\ holder' = p

\* The lease and the batch query; a cycle that finds nothing ends at once.
Select(p) ==
  /\ p \in Worker /\ At(p, "idle")
  /\ AcquireLease(p)
  /\ DueForRetry
  /\ handler' = [handler EXCEPT ![p].pc = "paying", ![p].count = row.retry.count]
  /\ UNCHANGED <<stripe, events, rows, attempts, restarts, cuts>>

\* invoices.pay: it goes through, is refused (an error, or an invoice that is
\* still open) with an event to follow, or is an error on an invoice paid before.
PayInvoice(p) ==
  /\ At(p, "paying")
  /\ \/ /\ Paid
        /\ handler' = [handler EXCEPT ![p].pc = "reading", ![p].status = "PAID"]
     \/ /\ stripe = "open"
        /\ events' = events \cup {"PAST_DUE"}
        /\ \/ handler' = [handler EXCEPT ![p].pc = "reading",
                                         ![p].status = "PAST_DUE"]
           \/ handler' = [handler EXCEPT ![p].pc = "recording"]
        /\ UNCHANGED stripe
     \/ /\ stripe = "paid"
        /\ handler' = [handler EXCEPT ![p].pc = "recording"]
        /\ UNCHANGED <<stripe, events>>
  /\ attempts' = IF stripe = "open" THEN attempts + 1 ELSE attempts
  /\ UNCHANGED <<rows, holder, restarts, cuts>>

\* From the count the batch query read, whatever the row says by now.
RecordAttempt(p) ==
  /\ At(p, "recording")
  /\ row' = [row EXCEPT !.retry = AfterAttempt(handler[p].count)]
  /\ Done(p)
  /\ UNCHANGED <<stripe, sub, attempts, restarts, cuts>>

-----------------------------------------------------------------------------
(* Failures. *)

Cut == /\ cuts < MaxCuts
       /\ cuts' = cuts + 1

\* A step of the worker fails, or only its answer is lost: it counts as an
\* attempt that failed.
FailAttempt(p) ==
  /\ p \in Worker /\ handler[p].pc \in {"paying", "reading", "writing", "settling"}
  /\ Failed(p)
  /\ Cut
  /\ UNCHANGED <<stripe, rows, attempts, restarts>>

\* The process goes down, or the statement fails after which nothing is tried;
\* Stripe sends again what was not acknowledged.
Crash(p) ==
  /\ ~At(p, "idle")
  /\ Stop(p)
  /\ Cut
  /\ UNCHANGED <<stripe, events, rows, attempts, restarts>>

\* An acknowledgement is lost, or an event is simply sent twice.
Redeliver ==
  /\ \E status \in {"PAST_DUE", InvoiceAtStripe} :
       events' = events \cup {status}
  /\ Cut
  /\ UNCHANGED <<stripe, rows, holder, handler, attempts, restarts>>

LeaseLapse ==
  /\ holder # NoOwner
  /\ holder' = NoOwner
  /\ Cut
  /\ UNCHANGED <<stripe, events, rows, handler, attempts, restarts>>

-----------------------------------------------------------------------------
Step(p) == \/ TakeInvoiceEvent(p) \/ Reconcile(p)
           \/ Select(p) \/ PayInvoice(p) \/ RecordAttempt(p)
           \/ ReadInvoice(p) \/ WriteInvoice(p) \/ SettleSubscription(p)

Next == \/ BuyerPays \/ RetryFallsDue \/ Redeliver \/ LeaseLapse
        \/ \E p \in Process : Step(p) \/ FailAttempt(p) \/ Crash(p)

Spec == Init /\ [][Next]_vars

\* Both workers' intervals start cycles, Stripe sends what was not acknowledged,
\* a handler keeps going and time passes.  Nobody has to pay.
FairSpec == /\ Spec
            /\ WF_vars(RetryFallsDue)
            /\ \A p \in Process : WF_vars(Step(p))

-----------------------------------------------------------------------------
\* The buyer's card is charged once per delay, and each restart, crash, lost
\* answer or overlap of cycles lets the schedule run once more at the most; and
\* nothing but so many attempts ends dunning of an invoice that stays open
\* (processInvoiceRetry).
AttemptsFollowTheSchedule ==
  /\ restarts < Cardinality(Webhook \cup Reconciler)
  /\ attempts <= Delays * (1 + restarts + cuts)
  /\ row.retry.exhausted /\ stripe = "open" => attempts + cuts >= Delays

RetryInv == TypeOK /\ AttemptsFollowTheSchedule

\* An invoice that stays open is tried until the schedule is used up, however
\* webhooks and reconciliation write the row meanwhile (resolveManagedRetryState).
RetriesRunOut ==
  <>[](stripe = "open") => <>[](row.retry.exhausted)

\* Once Stripe has the money, attempts under way, attempts that came too late
\* and late reports of failures leave nothing behind (markInvoicePaid).
RecoveryIsClean ==
  <>[](stripe = "paid") =>
     <>[](row = [status |-> "PAID", retry |-> Cleared] /\ sub = "ACTIVE")
=============================================================================
