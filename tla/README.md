# A TLA+ development of the HivePoint backend

HivePoint is a marketplace for APIs: sellers publish products and plans, buyers subscribe, call
the products through a gateway that meters them, and are billed through Stripe or a mock
provider. The backend is a NestJS application over one Postgres database; several processes may
run it side by side. Nothing in it shares memory across processes: all coordination goes through
rows, transactions and leases, and every `await` is a point where another request, another process
or a webhook may come between. That is what the modules here are about.

Paths below are relative to the repository root. `PROJECT.json` names, for every definition that
models code, the lines it stands for.

## 1. The system

### 1.1 Inventory

| Component | Source (`src/...`) | State | Operations | What makes it correct |
|---|---|---|---|---|
| Background job lease | `tryAcquireLease` in six services | one `BackgroundJobLease` row per job | take, renew, let expire | two processes are never both in a cycle whose lease is live |
| Usage ingest queue and worker | `modules/usage/usage-ingest-worker.service.ts`, `usage.service.ts` | `UsageIngestJob` (status, due time) | enqueue, drain in batches, record, mark, retry | each accepted report is counted once, in the end |
| Usage rows and aggregates | `modules/usage/usage-aggregation.service.ts` | `UsageRecord`, two daily aggregates | record, sum over a window | aggregates say what the rows say; a window is summed exactly |
| Usage authorization | `modules/usage/usage.service.ts` | reads subscription, plan, usage | preliminary look, locked decision and charge | quota and RPM limits hold under concurrency |
| Gateway | `modules/gateway/gateway.service.ts` | none of its own | look, bucket, charge, call upstream | nothing is served that was not charged |
| Burst limiter | `modules/gateway/gateway-burst-limiter.service.ts` | `GatewayBurstBucket` | refill and take | no more passes than the bucket holds and regains |
| Subscribe, mock payments | `modules/billing/subscriptions.service.ts` | `Subscription`, `Invoice` | subscribe, succeed, fail | access only for what was paid, plus grace; one open subscription |
| Stripe webhooks | `modules/billing/stripe-webhooks.service.ts`, `subscriptions.service.ts` | the same rows, external ids | checkout, expiry, invoice, subscription events | no event writes a row that belongs to another invoice, whatever the order |
| Reconciliation | `modules/billing/billing-reconciliation.service.ts` | the same rows, a lease | select, fetch, synchronise | local rows come to agree with Stripe |
| Managed retry | `modules/billing/billing-managed-retry.service.ts` | retry columns of `Invoice`, a lease | retry a renewal | as many attempts as there are delays; nothing of it stays on a paid invoice |
| Overage collection | `modules/billing/billing-overage-collection.service.ts` | overage invoices, settled mark, a lease | settle a period, roll it over, collect | a period is settled once; it is charged again only after a fault; a row is PAID only if Stripe was paid for it |
| Cancellation, portal | `modules/billing/subscriptions.service.ts` | `cancelAtPeriodEnd` | schedule at Stripe, then locally | a cancelled subscription ends with its period |
| Stripe provider | `modules/billing/payment/` | none | checkout, invoices, customers | - |
| Plans, billing alerts | `modules/billing/plans.service.ts`, `billing-alerts.service.ts` | `Plan` | insert; derive alerts | overage settings complete or absent |
| Alert delivery | `common/observability/operational-alert-delivery.service.ts` | alert and target states, a lease | observe, deliver, remind, resolve | a new or changed alert reaches every target |
| Monitoring, metrics, audit | `common/observability/` | snapshots, log rows, counters | snapshot, derive, append | - |
| Sessions | `modules/auth/auth.service.ts`, `modules/users/users.service.ts` | `RefreshToken`, `User` | register, login, refresh, logout, change password, become a seller | few live refresh tokens; none survives a password change but through a call under way |
| Keys, administration | `modules/keys/`, `modules/admin/` | `ApiKey`, statuses, audit rows | create, revoke, hide | a decision that answers has taken effect |
| Catalog | `modules/catalog/` | `ApiProduct`, `ApiVersion` | create, update, publish | what is sold does not become a draft; who owns a product may sell |
| Catalog assistants, analytics | `modules/catalog/product-*.service.ts`, `modules/analytics/` | none | read, derive | - |
| Configuration, HTTP surface | `common/`, controllers, guards, DTOs | none after start | parse, authenticate, validate | - |

### 1.2 How the parts interact

* **Shared rows.** `Subscription` is written by subscribe, payment calls, webhooks, reconciliation,
  managed retry, overage collection and cancellation, and read by usage authorization. `Invoice` is
  written by all the billing parts. Apart from the transaction of `subscribe` and that of settling a
  period, billing writes the two in separate statements.
* **Queue.** `POST /usage/record` inserts a job; the worker turns it into a row and two increments in
  one transaction. The gateway records directly, in the transaction that decides.
* **Leases.** Six workers run in every process; the lease lets one of them work at a time, as long
  as its cycle is not longer than the lease.
* **Stripe.** Events arrive in any order and again until acknowledged; reconciliation asks Stripe. Managed
  retry and overage collection call it, and its events report the effects of these calls, too.
* **Access tokens.** Guards ask the role that a token claims; the token was made from a user read earlier.

### 1.3 What is hard

Clock readings that are old when they are used (lease, burst bucket, RPM window); handlers that read,
wait and write; transactions that commit without an answer; workers whose lease has run out; events
overtaken by later ones; jobs that never succeed. `PROJECT.json` lists each at its line under
`hazards`, with the properties that cover it or why none does yet.

## 2. Modules

| Module | Kind | Models |
|---|---|---|
| `ExclusiveLease` | abstract | at most one live holder, which changes only when the lease lapses |
| `BackgroundJobLease` | detailed | the lease row and the transactions on it; implements `ExclusiveLease` |
| `MeteringLedger` | abstract | accepted events, each added to its total once |
| `UsageIngest` | detailed, uses `ExclusiveLease` | the queue, its workers and the usage rows; implements `MeteringLedger` |
| `UsageWindow` | operators, extends `UsageIngest` | sums over a window of the tables that `UsageIngest` fills |
| `MeteredAccess` | abstract | a call is charged once, within the quota, before it is served |
| `GatewayAdmission` | detailed | gateway, burst bucket and usage authorization; implements `MeteredAccess` |
| `BillingRecords` | operators | the subscription row, what payments make of it, when it gives access |
| `Checkout` | detailed, extends `BillingRecords` | subscribe and the mock payment calls |
| `StripeSync` | detailed | Stripe, its events, the webhook handlers and reconciliation |
| `PeriodBilling` | abstract | periods follow one another; each is settled once, for what was counted by then |
| `OverageCollection` | detailed | settlement, roll-over, cancellation and collection of overage; implements `PeriodBilling` |
| `ManagedRetry` | detailed | dunning of one renewal: retry worker, webhooks, reconciliation |
| `AlertDelivery` | detailed | one kind of alert, its stored states and the targets it is posted to |
| `Sessions` | detailed | refresh tokens, password and role of one user |
| `Catalog` | detailed, extends `Sessions` | a product, its versions, a key, hide and revoke, subscribers |
| `Accounts` | composition | one pool of requests that serves `Sessions` and `Catalog` |
| `MC*` | model checking | symmetry sets and values, where a run needs them |
| `*Proofs` | proofs | section 5 |

`UsageIngest` composes with the lease through its abstraction: it instantiates `ExclusiveLease` (grant
and lapse) and `BackgroundJobLease` is shown to implement that. In `OverageCollection`, `ManagedRetry` and
`AlertDelivery` the lease is reduced to `holder`, the process whose running cycle it covers, which a
`LeaseLapse` may take away at any moment; that a live lease lasts beyond its cycle only delays the next one.
The three count faults (crashes, lost answers, failed statements, lapsed leases) in `cuts`, and their
properties say how much harm each fault may do.

### 2.1 BackgroundJobLease

`lease` is the row; a missing row is one of `Nobody` that expired at 0. `cycle[o]` holds where a
process's scheduled cycle stands and the clock value its transaction works with: `BeginCycle` reads
the clock (`now` in `tryAcquireLease`), and `AcquireLease`, `Refused` and `LoseRace` happen any time later.
`AcquireUnanswered` is a transaction that committed and whose answer was lost, `EndCycle` leaves the
row alone as the code does, `ProcessEnds` ends the process; its owner id is never used again. All processes
see one clock: skew between hosts is not modelled. The six services have the same text but for the name of
their lease; the definitions are mapped to that of usage ingest.

### 2.2 UsageIngest

`status` is the status column, `ready` the jobs that `drainQueue`'s query would return, in its order.
Each worker is at one place of `drainQueue`: `Fetch` reads a batch, then per job `Record`
(transaction of row, two aggregates and PROCESSED), `FindDuplicate` then `MarkJobProcessed`, or
`FailRecord` then `MarkJobFailed`, which writes FAILED whatever the row says by then. `RecordUnanswered`
commits and is then handled like a failure. `LeaseLapse` may come at any time, so a stale worker goes on
while another starts; `Crash` may come anywhere. A poison job can never commit. Retry delays and the
attempt count are abstracted to "falls due some time later" (`FallDue`). `RecordDirect` is the
immediate path, without `sourceJobId`.

### 2.3 GatewayAdmission

One subscription, one billing period, time in ticks. A call fixes `at` (`occurredAt`) when it arrives;
`Preliminary` is the first pass of `authorizeUsageInternal` and also takes the bucket's `now`;
`ConsumeBurst` is the bucket transaction, with that `now`; `SelectSubscription` is the unlocked read
inside the charging transaction; `Consume` is everything under `FOR UPDATE`: quota, RPM window, row and
aggregates; `CallUpstream` follows a charge. `Abandon` ends a call anywhere and leaves what was taken.
`ChangeAccess` is whatever ends or restores access, `RecordReport` is usage that comes past the gateway and
names any time of the period, a coming one too.
A token is worth `BurstWindow` units so that a tick refills whole units. `granted`, `reported` and `late`
are history: what the bucket let pass, what was reported past the gateway and of which time, and whether a
charge or a refill has come after one that was later by the clock.

### 2.4 BillingRecords and Checkout

`BillingRecords` has what a paid invoice makes of a subscription (`Activated`), what a failed one does
(`Suspended`, `GraceEnd`), and when a row gives access (`HasWindow`, `HasAccess`). In `Checkout` a caller
subscribes in two steps (dates, then the transaction under the advisory lock) or pays in three
(read, update the invoice, update the subscription); a failing call keeps the row it read (`seen`)
because the grace is computed from it. `CutOff` ends a call between any two statements.

### 2.5 StripeSync

`stripe` is one subscription at Stripe with one invoice per period, `events` what Stripe has not seen
acknowledged. A webhook takes any of them (`Take`), goes through the reads and writes of its handler one
at a time, and acknowledges at the end (`Finish`); `Fail` ends it anywhere and the event stays, so events
come out of order, repeatedly and side by side. `row[0]` is the invoice row that subscribe created,
`row[n]` the one created for Stripe's invoice `n`, `checkoutExt` the external id of row 0. `Resolve...`,
`CreateInvoice`, `ReadInvoice`, `WriteInvoice` and `SettleSubscription` are the parts of
`syncInvoiceFromExternal`, `markInvoicePaid` and `markInvoiceFailed` between their awaits. A reconciler
selects the row (`Select`), fetches subscription and latest invoice (`Retrieve`), and synchronises one
and then the other.

Assumed of Stripe: it makes one invoice per billing period, `n` for period `n`, whose events name the bounds of
that very period (`PeriodOf`); a paid invoice is never unpaid again; an expired checkout never completes. The row of
a Stripe invoice is a function of it, as the unique index on `externalInvoiceId` makes it in the code, so nothing
here could see an invoice with two rows. Left out: amounts, attempt counts, next attempt dates, `cancelAtPeriodEnd`,
plans of price zero (setup mode), the states `trialing` and `unpaid`, a subscription deleted at Stripe
altogether (`resource_missing`), and the grace date, which is `Checkout`'s.

### 2.6 UsageWindow

The operators of `sumUsageForWindow` and `listEndpointUsageForWindow`, by name: where the whole UTC days of
a window start and end, what is left at both ends, and the three queries that are added. Rows written before
the aggregates existed (`aggregatedAt` null) are in no aggregate and are added wherever they fall. The tables
are those of `UsageIngest`, so the sums are looked at while the queue is at work. The queries of one window read
one state here, as they do in the serializable transaction that settles a period; elsewhere each reads what is
committed by then.

### 2.7 PeriodBilling and OverageCollection

Periods are numbered and `now = n` while period `n` runs. `bill[n]` is the SUBSCRIPTION invoice of a period,
`settled` its `overageProcessedAt`; `over[n]` is its OVERAGE invoice, `inv` the invoices made at Stripe and
`pending` the invoice items that none has taken yet. A cycle goes `Acquire` (lease and due rows),
`Materialize` per row (one serializable transaction: settlement, and `RollOver` of a subscription without a
price), `FetchPending`, and per row `ReadOverage`, `CreateItem`, `CreateInvoice`, `PayInvoice`, then the read
and the write of `markInvoicePaid` or `markInvoiceFailed` (`MarkCollected`, `WriteCollected`), each a step of its
own. `FailRow` is an error or a lost answer, after which the batch goes on; `Crash` ends the process. `linked`
tells a subscription that Stripe manages from one that is rolled over here; what happens to the first at Stripe
is `StripeRenews` and `StripeEnds`.

A webhook request takes any event Stripe has reported of an invoice, early, late or again, and goes on in the steps
of `syncInvoiceFromExternal`: `ResolveInvoice` finds the row (or gives the invoice one of its own, `phantom`),
`ReadInvoice` reads it and settles what to write, `SyncInvoice` writes it, whatever the row is by then. `SyncAccess`
is the rest for a row of kind SUBSCRIPTION, `DropEvent` a handler that ends early. So a draft event may put its
invoice beside a PAID that another invoice earned, and an invoice may take the items of two cycles while the other
is empty and paid as it is finalized; what `RecordedAsCharged` says holds beside both.

Assumed of Stripe: an invoice takes every item its customer has pending, as `pending_invoice_items` does when it
is not given; an invoice made outside the billing cycle spans no usage, so that settling the SUBSCRIPTION row it
may have got leaves nothing but its mark. Finalizing and paying are one step, since whatever fails of the two, the
status the invoice is left with is what the call returns.

Left out: prices (an amount is a number of units), the failed overage invoice that is paid later, VOID results.
A setup event is repeated only while the first period runs: Stripe keeps sending for days.

### 2.8 ManagedRetry

One invoice of a renewal that Stripe could not charge. `row` is the invoice with its retry state, `sub` the
status of the subscription, `stripe` whether Stripe has the money. `ReadInvoice`, `WriteInvoice` and
`SettleSubscription` are the three statements of `markInvoicePaid` and `markInvoiceFailed`, which webhooks
(`TakeInvoiceEvent`), reconciliation (`Reconcile`) and the retry worker (`Select`, `PayInvoice`) all run; the
worker adds `RecordAttempt` after a failure, from the count its batch query had read. `attempts` (calls of
`invoices.pay` on the open invoice) and `restarts` (schedules started again while one was under way) are
history. `FailAttempt` is a step that fails, or whose answer is lost: the code counts it as an attempt.

### 2.9 AlertDelivery

`alert` is what monitoring finds now. A fingerprint is what `buildFingerprint` hashes: the text of an alert
(severity, title, message) and its details, either of which may change alone. `Start` reads time, lease, alert and
stored states and decides whom to notify; `UpsertObservedState`, then per target `DeliverAlert` or `FailDelivery`
and `MarkDeliverySuccess` or `MarkDeliveryFailure`; or `ResolveState` and `ResolveTargets` for an alert that has
cleared. Times are ages that stop at the cooldown, and a cycle may take any time.

`told` and `repeats` are history: what a target heard last since the alert changed, and how often the same came too
soon. A notice is dated by the start of its cycle, because the code dates `lastDeliveredAt` so: the cooldown that
is checked runs from there, and two receipts may be nearer to each other by as long as the first cycle took to post.

### 2.10 Sessions, Catalog and Accounts

A refresh token is known by its id and by what it goes back to: the password that was proven at sign-in, and
whether some call on the way to it ran while the password changed (`underWay`). `Login` and `Refresh` read,
`Clear` deletes every token of the user, `Issue` creates the new one and hands out an access token with the
role that was read: three statements, between which anything may come. A refresh that is refused deletes
the expired row (`DropExpired`), or every row if the stored hash does not match (`DropMismatched`).
`ChangePassword` is the one transaction. The user is a buyer, who may become a seller, or an administrator. In `Catalog`
each call reads (`UpdateProduct`, `UpdateVersion`, `Decide`, ...), perhaps fetches an
OpenAPI document (`Fetched`), and writes later (`Store...`). `Subscribe`, `FindVersion` and `Sell` are the reads
and the transaction of subscribing. `stale` and `done` are history. Version names are interchangeable.

## 3. What is checked

Twelve runs. The bound of each is the smallest in which the interleavings named happen.

| Run | Checks | Bounds and why |
|---|---|---|
| `lease` | `LeaseInv`, `ExclusiveCycle`, `ImplementsExclusiveLease` | three processes (a holder, a taker, and one with an old clock reading), leases of 2 ticks, 6 ticks: room for two takeovers while a reading is in flight |
| `ingest` | `IngestInv`, `AggregatesMatchRows`, `WindowsAreExact`, `ImplementsLedger`, `EveryJobSettles` | two workers, three jobs and one direct event over two days of three moments, batches of two of which two poison jobs can fill each, one fault; two rows from before the aggregates; windows between four instants, at midnight and within a day among them |
| `checkout` | `CheckoutInv`, `AccessIsEarned`, `OneOpenSubscription` | two callers, two subscriptions, grace and period of one tick, three ticks, one cut-off call |
| `stripe` | `SyncInv`, `ReconciliationRepairs` | a webhook call and a reconciler, two periods, two events at a time, one fault: late events of the first period reach the second |
| `stripe_canceled` | `CancellationStays` is violated | one period; fair specification |
| `gateway` | `GateInv`, `RateInOrder`, `ImplementsMeteredAccess` | three calls of one or two requests, quota 3, two per minute, a bucket of 2, three ticks, one report of any of them: every limit is reached and two calls are always enough to exceed it |
| `overage` | `OverageInv`, `RecordedAsCharged`, `ImplementsPeriodBilling`, `PeriodsAreCollected` | two processes and a handler, a period and a second that may begin, one request over the quota (half a unit), one fault: a stale cycle beside its successor, two invoices for one overage with the events of each read before and written after any other writer, late usage, a cancellation. What two periods do to each other (an item of one that the invoice of the other takes, a settlement of the second beside the first) is in the proofs of the three safety properties |
| `overage_access` | `OverageLeavesAccess` is violated | one period, one fault |
| `retry` | `RetryInv`, `RetriesRunOut`, `RecoveryIsClean` | two workers, a webhook call and a reconciler, one delay, one fault: a stale cycle or a failure read before dunning began writes over the last attempt. That a stale cycle sets the count back within a longer schedule is in the proof of `RetryInv` |
| `alerts` | `AlertInv`, `AlertsReachTargets` | two workers, one target, one text with two details (two fingerprints), cooldown of two ticks, two changes (appear, change, clear in any order), two faults. One target is enough: a cycle touches the row of a target only for itself, and others only add time and endings to it |
| `alerts_details` | `UnchangedAlertsWait` is violated | one worker, one text with two details, one change, no fault |
| `accounts` | `SessionInv`, `CatalogInv`, `SoldIsNoDraft`, `OwnersMaySell` | two requests at a time, four token ids, two changes of the password, a product, one version, one key |

Deadlock is checked except where the system may stop: bounded clocks and calls that are each made once
(`lease`, `gateway`), Stripe at rest (`stripe*`), periods, faults and changes used up (`overage*`, `retry*`,
`alerts`), and a product, a key and passwords that have been through everything (`accounts`).

What the passing properties say beyond the code's own tests:

* `ImplementsLedger`: under lapsed leases, crashes, lost answers and retries each accepted event enters
  its total once, and `AggregatesMatchRows`: both aggregates agree with the rows. The unique index on
  `sourceJobId` carries this, not the lease: without it the run fails.
* `EveryJobSettles`: a stale worker may turn a PROCESSED job back to FAILED, but the job becomes
  PROCESSED again and stays so; a poison job delays others and never stops them, because its due time
  moves behind them.
* `OneOpenSubscription`: overlapping subscribe calls never leave two open subscriptions; only a failed
  payment, whose PAST_DUE status lets a second one through, can.
* `AccessIsEarned`: late, repeated and interrupted payment calls never give access to an unpaid period
  nor beyond the grace after the period or after the last failure.
* `WindowsAreExact`: midnight, windows inside a day and old rows included, each row is counted once, in total
  and per endpoint, also between the transaction of a stale worker and that of its successor.
* `ImplementsPeriodBilling`: late usage, crashes, overlapping cycles and a cancellation at any moment never
  settle a period twice, before its end, or for another amount than what was counted by then; no period
  follows the end of the subscription.
* `ChargesAreBounded` (in `OverageInv`): a period is charged once, plus at most once for each fault; the code has
  no idempotency key, so the bound is reached.
* `RecordedAsCharged`: a row names only invoices of its own period and is PAID only if Stripe was paid one of them,
  although cycles and handlers read it at one time and write it at another. Without a fault it names that one,
  and the invoice was for this overage alone. After one it may name an invoice that is still open, or an empty
  one while another took its item: the property promises neither.
* `PeriodsAreCollected`: nothing that has ended is forgotten, however late usage comes; the exception is an
  invoice linked by its draft event whose process ended before it was paid.
* `AttemptsFollowTheSchedule` (in `RetryInv`): the schedule runs once, and at most once more for every restart and
  every crash, lost answer or lapsed lease: a stale cycle goes on from the count it read, and may write it back
  over a higher one. An exhausted schedule had its attempts. A failure that was read before dunning began and is
  written later starts the schedule again, fewer times than there are processes beside the workers.
* `RetriesRunOut`, `RecoveryIsClean`: webhooks and reconciliation that write the same row neither end dunning of
  an open invoice early nor leave anything of it on a paid one.
* `RemindersKeepTheCooldown` (in `AlertInv`) and `AlertsReachTargets`: no target is told the same, details included,
  within the cooldown of the cycle that told it but for faults, and the last it hears is what is the case, although
  a failed delivery stores the new fingerprint. An alert whose details never rest has a new fingerprint each time,
  and neither says anything of it; `alerts_details` does.
* `SessionInv`: deletion and creation in separate statements leave at most as many sessions as there were
  requests at once; a token outlives a password change only through a call that was under way, and that
  stays true of every token refreshed from it.
* `CatalogInv`, `SoldIsNoDraft`, `OwnersMaySell`: hide and revoke take effect though they decide from an old read
  (that an overlapping update may publish a hidden version again is not excluded); the transition rules, which look at
  the product and not at its subscribers, are enough for buyers committed at any moment, unless two updates of its
  status overlap, which is exempted (`stale`); an old access token never makes a buyer own a product.
* `LinksAreExclusive` (in `SyncInv`): row 0 never comes to stand for a renewal, though renewals carry the
  metadata that names it.
* `ReconciliationRepairs`: webhooks alone do not keep the rows right (a late event of an old period sets
  the period back, an early one is dropped); with reconciliation the rows agree in the end.
* `GateInv`, `RateInOrder`: the quota holds under any race but for reports that come past the gateway; bucket
  and RPM limit hold whenever they are used in the order of the callers' clocks, a minute's limit but for
  what was reported of that very minute. `ImplementsMeteredAccess` is about one period: a charge to an old one
  could not be told from one to the new.

## 4. Where the code and its documents disagree

Three runs show a disagreement:

* **A cancelled subscription comes back** (`stripe_canceled`). `reconcileSubscription` writes CANCELED and
  then hands over the latest invoice; if that is paid, `markInvoicePaid` makes the subscription ACTIVE. As
  an ACTIVE row it is selected again by every cycle, and its buyer cannot subscribe anew.
* **An overage invoice changes access** (`overage_access`). After a crash or under a lapsed lease a second Stripe
  invoice is made for the same overage. Its events find the OVERAGE row taken, so
  `resolveInvoiceForExternalSync` creates one of the default kind SUBSCRIPTION and the subscription becomes ACTIVE
  or PAST_DUE with it; `docs/modules/billing.md:28` says that overage invoices do not touch it.
* **An unchanged alert is sent again by every cycle** (`alerts_details`). `buildFingerprint` hashes the details, and
  those of lease alerts carry `secondsUntilExpiry` (`operational-monitoring.service.ts`), which changes by itself.
  `docs/reference/environment.md:45` calls the cooldown the minimum time before an unchanged alert is sent again.

The models contain these, too, and the passing properties are stated so that they hold beside them:

* Success and failure of one mock payment, interleaved, leave a VOID invoice with an ACTIVE subscription, or the
  reverse (`Checkout`: `SetInvoice`, `Activate`, `Suspend`; `docs/modules/payments-mock.md:22`).
* A draft synchronisation decides from a status read before its update, and a failure recorded in between is
  lost until reconciliation (`StripeSync`: `ReadInvoice`, `WriteInvoice`).
* A draft event of an overage invoice that is late leaves its id on a row that another invoice has made PAID
  (`OverageCollection`: `ReadInvoice`, `SyncInvoice`), and an invoice that takes two items leaves one to be empty and
  paid (`CreateInvoice`, `PayInvoice`).
* The RPM window is fixed on arrival and charges are ordered by the lock, so a call charged late does not see
  those that arrived after it; and `lastRefillAt` can move back, so that an interval is refilled twice
  (`GatewayAdmission`: `RateInOrder` and the budget in `GateInv` speak of clocks used in order).
* A refresh or a login that overlaps a password change leaves its token behind
  (`docs/modules/users.md:12` says that the change revokes them): `underWay` in `Sessions`.
* Two updates of a product's status that overlap, or an update and an administrator who hides, store a status
  whose transition was never checked: `stale` in `Catalog`.
* A changed alert whose delivery failed waits for the cooldown of the delivery before it
  (`AlertDelivery`: `MarkDeliveryFailure`).
* A failure call turns a PAID mock invoice VOID (`docs/modules/payments-mock.md:30` has only `DRAFT -> VOID`); a
  CANCELED subscription takes reported usage until its period ends (`docs/reference/error-codes.md:38`); PAST_DUE
  rows do not stop a second subscription.

## 5. What is proved

The theorems hold for every value of the constants that satisfies the named `ASSUME`s: any number of
processes, calls, events and periods, and any bound on clocks and faults.

| Module | Theorem | States |
|---|---|---|
| `UsageIngestProofs` | `IngestCorrect` | `Spec => []IngestInv` |
| | `IngestRefines` | `Spec => ImplementsLedger` |
| | `AggregatesCorrect` | `Spec => []AggregatesMatchRows` |
| | `WindowsCorrect` | `Spec => []WindowsAreExact` |
| | `LeaseCorrect` | `LeaseSpec => []LeaseInv` |
| | `LeaseExcludes` | `LeaseSpec => []ExclusiveCycle` |
| | `LeaseRefines` | `LeaseSpec => ImplementsExclusiveLease` |
| `SubscriptionProofs` | `CheckoutCorrect` | `CheckoutSpec => []CheckoutInv` |
| | `AccessEarned` | `CheckoutSpec => []AccessIsEarned` |
| | `OneOpen` | `CheckoutSpec => []OneOpenSubscription` |
| | `SyncCorrect` | `Spec => []SyncInv` |
| `GatewayAdmissionProofs` | `GateCorrect` | `Spec => []GateInv` |
| | `GateRefines` | `Spec => ImplementsMeteredAccess` |
| | `RateCorrect` | `Spec => []RateInOrder` |
| `AccountsProofs` | `SessionsCorrect` | `SessionsSpec => []SessionInv` |
| | `AccountsRefineSessions` | `Spec => SessionsSpec` |
| | `SessionsHold` | `Spec => []SessionInv` |
| | `CatalogCorrect` | `Spec => []CatalogInv` |
| | `SoldProducts` | `Spec => []SoldIsNoDraft` |
| | `ProductOwners` | `Spec => []OwnersMaySell` |
| `OverageCollectionProofs` | `SettlingRefines` | `Spec => ImplementsPeriodBilling` |
| | `ChargesAreRecorded` | `Spec => []RecordedAsCharged` |
| | `ChargesBounded` | `Spec => []OverageInv` |
| `ManagedRetryProofs` | `RetryCorrect` | `Spec => []RetryInv` |
| `AlertDeliveryProofs` | `AlertCorrect` | `Spec => []AlertInv` |

The lease theorems stand in `UsageIngestProofs`, with the proofs of the service the protocol is translated from;
the two modules share no variable. `SubscriptionProofs` has both ways in which a
subscription is paid for, the mock provider's and Stripe's, which share none either. `FiniteSums`
holds the lemmas about sums that several proofs need: a sum over
a finite set is a number, splits over two disjoint sets, is bounded with its summands, and changes by what one of
them changes. They rest on the library's `FiniteSetTheorems`, with induction written over sets, not operators.
What is summed over must be finite, which the `ASSUME`s say: events and rows without aggregates in
`UsageIngest`, workers, webhooks and reconcilers in `ManagedRetry`, workers in `AlertDelivery`.

Each proof shows `Init => Inv` and `Inv /\ [Next]_vars => Inv'` with a step per action; the refinements then
map each step to one of the abstract specification or a stutter. The inductive invariants:

* **LeaseInv.** Exclusion alone is not inductive: one must know that while a holder's lease is live the row
  still is what its own transaction wrote (`LeaseHonoured`), and that no clock value in use lies in the
  future (`ClockReadsPast`), so that an old renewal cannot be granted over it.
* **IngestInv.** PROCESSED implies recorded only because a worker that takes a job for a duplicate knows
  that its row exists and keeps knowing it (`WorkersKnowTheirJobs`), and because nobody works on a job that was
  never enqueued. `RowsAreUnique` gives the ledger's exactly-once step.
* **AggregatesMatchRows** is inductive beside it: `RecordUsage` adds one row and its units to both sums (`RowAdds`),
  and nothing else touches either. `WindowsAreExact` then follows in every state without a step of its own: the
  days cut out of a window and its two ends are disjoint and fill it (`PartsOfWindow`, from the arithmetic of
  midnights), so what is read of each adds up to the rows in it.
* **CheckoutInv.** Access depends on the row and on copies that failing calls made earlier: every row and
  every copy is `Accounted` for by the invoice it belongs to and by the last failure. The period of an
  invoice never changes, so what was true of a copy stays true.
  `OneOpenSubscription` needs one fact more, that a PAST_DUE row has a failure behind it and that nothing here
  is CANCELED (`FailuresAreKnown`); a late success then only reopens a row that failed before.
* **SyncInv.** Row 0 is safe because only the first invoice may be found by metadata, because a handler that
  found row 0 carries invoice 1 or none, and because invoice 1 never gets a row of its own. `EventSound` and
  `HandlerSound` say so of events and of handlers at each place; `SoundnessStays` shows that these facts
  survive other processes' steps.
* **GateInv.** `QuotaKept` and the token budget: what was granted and what is left is at most the capacity
  and what was regained up to `last`. The budget needs every `now` to be at most the clock and holds as
  long as no refill came late.
* **RateInOrderStep.** While the charges come in the order of arrival, the requests in the minute before any
  charge are those before it with it, and the lock let it through only within the limit; a late one ends the
  premise for good. So the step needs no invariant beside the types.
* **SessionIInv** is SessionInv with the sessions that live being finitely many. Each creation exchanges a request
  that has cleared the table for a row, so rows and such requests together stay at most as many as requests;
  an id that is new is held by no other call. Proved of `Sessions` alone; `AccountsRefineSessions` carries it
  over to the composed server.
* **CatalogIInv and what is sold.** `JobIsSound` says what a call may write after what it has read: an update to
  DRAFT has read DRAFT, a decision that read its own outcome has taken effect. With it, a product that anyone
  has committed to exists and is a draft only if `stale`, which gives `SoldIsNoDraft`; `OwnersMaySell` rests on
  `ClaimsAreHeld` of the sessions: a role once claimed is still held, or was exchanged for one that may sell, too.
* **BillingInv.** Settling is final because periods open in order and, without a price, only together with the
  settlement of the one before (`OpenedInOrder`), so that rolling over never opens a period twice or
  overwrites one; because a row in OVERAGE belongs to a settlement (`SettledRows`); and because a cycle, however
  stale, settles only what had ended when it began and charges rows that exist (`CycleIsSound`). Nothing of it
  needs the lease. The number of open periods then tells which they are, and the transaction maps to `Settle`.
* **ChargeInv** adds to it that a cycle that pays has the invoice it made, for the row it works on, that this is still a
  draft, and that nobody else is about to pay it (`PaysItsOwn`), so a paid invoice stays paid; that a handler about to
  write PAID has it from Stripe, or from a row that was right to say so (`HandlersKnow`); and that an invoice has a
  row of its own only where the row it was made for carries another (`PhantomsAreSpare`), so no write is lost to the
  unique index before the row carries one. What a row says then stays true whoever writes it, from whatever it read.
* **BudgetInv.** The bound on charges is a potential: for each period the charges so far, with the cycles that may
  still charge it and one for a period that is open, are at most one and the cuts. Only a cut adds a cycle beside
  another.
* **RecordInv** adds to these what holds while nothing has been cut off (`Uncut`): the only cycle under way is the one
  under the lease, it alone has an item pending, and every invoice took just the item of its own period. With at
  most one charge per period (`BudgetInv`) there is then one invoice per period, so a PAID row carries the one that
  was paid.
* **RetryIInv.** A count is never ahead of what happened: it is at most the attempts and the cuts, in the row and
  in every cycle (`RowIsSound`, `ProcessIsSound`). That bounds nothing above, because a stale cycle may write its old
  count back. The bound is again a potential (`WithinSchedule`): the attempts so far, with those each cycle under way
  may still make (`Owed`) and those the next one may make of the row's count, never exceed `Allowed`, one schedule
  for the failure and one for each restart and cut. Restarts are bounded by the callers that read the row
  before it was past due (`Stale`), of whom none is added once it is.

* **AlertIInv.** A third potential, per target: repeats so far, with what strays owe (`Owed`) and one if a
  repeat is on its way (`Risk`), are at most two for each cut. A stray is a cycle without the lease. It can do
  two things to a target it has yet to tell: tell it too soon, and write a row that makes a later cycle tell it
  again; after the first it owes only the second. The cycle under the lease repeats only at a risk, and what it
  tells ends that, since the row it will write is as young as the notice. A risk is a target told within the
  cooldown (`Fresh`) that the cycle under the lease is about to tell the same (`Soon`), or whose row does not show
  it, or will not (`Hidden`): it is of something else or older than the notice (`RowLate`), the cycle under the lease
  is about to overwrite it, or a stray that began before what the row shows is about to tell the target (`Danger`).
  No bound on the length of a cycle is needed, only that none under way is younger than the one under the lease
  (`CyclesAreSound`, `AgesAreSound`). What a step does to a target is nothing, a notice or a row (`Kept`, `Done`).

Only model-checked: the liveness properties (`EveryJobSettles`, `ReconciliationRepairs`, `PeriodsAreCollected`,
`RetriesRunOut`, `RecoveryIsClean`, `AlertsReachTargets`), which are out of the prover's reach under fairness.
Every safety property that a passing run checks is proved.

## 6. Fairness

* `UsageIngest`: weak fairness of each worker's steps (`setInterval` starts cycles in every live process, and
  a cycle goes through its batch without waiting for others), of a job falling due and of the lease lapsing
  (time passes). Enqueueing, faults and crashes are not fair. `Crash` leaves one process of the pool running,
  as a deployment that restarts its processes does; without any process nothing is promised.
* `StripeSync`: weak fairness of each process's steps. Stripe sends again what was not acknowledged, the
  interval starts reconciliation, a handler goes on. What happens at Stripe is not fair, and the property
  speaks only of behaviours in which Stripe comes to rest. That the row is reached by the batch at all is
  assumed here; the hazard at `billing-reconciliation.service.ts:91` says when it is not.

* `OverageCollection`: weak fairness of the steps of the workers together. Every live process starts cycles by
  `setInterval`; that one of them does so and goes on is enough. The property says that again and again nothing
  is left over, so time, usage and cancellations need no fairness.
* `ManagedRetry`: weak fairness of each process's steps (intervals, and Stripe sending again what was not
  acknowledged) and of a scheduled attempt falling due. Nobody has to pay.
* `AlertDelivery`: weak fairness of each worker's steps and of time; for each target strong fairness of a
  delivery that works: a target may be away for long, but not whenever it is tried. A weaker assumption would not
  do, since an attempt that fails is a step, too.

## 7. What is not modelled

`PROJECT.json` gives the reason for each component. Read-only reports, plans, configuration, the text assistants,
audit and metrics keep no state that two calls compete for. Within the modelled parts:

* clock skew between hosts; integer overflow other than as a poison job;
* several subscriptions of one buyer in the gateway, a change of billing period while a call is under way (so no
  property covers the hazard at `usage.service.ts:436`), the
  first creation of a bucket row by two calls at once;
* a report of usage that its sender repeats: the interface has no key that names a report, so it counts twice;
* the SUBSCRIPTION row of an overage invoice (`phantom`), once PAID, is selected by the batch of due periods too; it
  is assumed to span no usage (section 2.7);
* the batch of reconciliation over many subscriptions, and rows in it that keep failing;
* users who are administrators from the start are modelled, how one becomes an administrator is not;
* registration, listings, product views, texts and visibility, audit rows, activation of plans;
* the portal session, customers at Stripe, VOID results in retry and overage, a failed overage invoice paid later;
* of alert delivery: counters, `firstObservedAt`, the status report and the word that marks a reminder.

## 8. Plan

1. Done: the modules of section 2, with the proofs of section 5.
2. `ReconciliationBatch`: the order of a batch and rows that keep failing (hazard at
   `billing-reconciliation.service.ts:91`).
3. The report and the status of a subscription in one model (hazard at `usage.service.ts:857`).
