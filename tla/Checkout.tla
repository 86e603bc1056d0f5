------------------------------ MODULE Checkout ------------------------------
(***************************************************************************)
(* Subscribing to one product and paying for it through the mock provider, *)
(* for one buyer.  Each subscription has the one invoice that subscribe    *)
(* creates with it.  A payment call reads the invoice and its subscription,*)
(* then updates the invoice, then the subscription: three statements that  *)
(* no transaction holds together, so other calls and a crash of the        *)
(* process may come between them.                                          *)
(***************************************************************************)
EXTENDS BillingRecords

CONSTANTS Sub,         \* subscriptions the buyer may come to have
          NoSub,
          Caller,      \* concurrent calls
          Period,      \* length of a billing period
          MaxTime,     \* bound on the clock
          MaxCrashes   \* bound on calls that are cut off

ASSUME NoSubAssumption == NoSub \notin Sub
ASSUME PeriodAssumption == Period \in Nat \ {0}
ASSUME BoundsAssumption == MaxTime \in Nat /\ MaxCrashes \in Nat

VARIABLES clock,
          subs,       \* Subscription rows
          invoice,    \* the Invoice row of each
          call,       \* per caller: its handler, where it stands, what it read
          crashes,
          paid,       \* history: invoices that were PAID at some time
          lastFailed  \* history: when a failure last reached the subscription

checkoutVars == <<clock, subs, invoice, call, crashes, paid, lastFailed>>
history == <<paid, lastFailed>>

Invoice == [status : {"NONE", "DRAFT", "PAID", "VOID"}, start : Nat, end : Nat]
Pc == {"idle", "subscribing", "activating", "activated", "suspending", "suspended"}

Call == [pc : Pc, at : Nat, id : Sub \cup {NoSub}, seen : SubscriptionRow]

NoCall == [pc |-> "idle", at |-> NoTime, id |-> NoSub, seen |-> NoSubscription]

CheckoutTypeOK ==
  /\ clock \in Nat \ {0}
  /\ subs \in [Sub -> SubscriptionRow]
  /\ invoice \in [Sub -> Invoice]
  /\ call \in [Caller -> Call]
  /\ crashes \in Nat
  /\ paid \subseteq Sub
  /\ lastFailed \in [Sub -> Nat]

CheckoutInit ==
  /\ clock = 1
  /\ subs = [s \in Sub |-> NoSubscription]
  /\ invoice = [s \in Sub |-> [status |-> "NONE", start |-> NoTime, end |-> NoTime]]
  /\ call = [c \in Caller |-> NoCall]
  /\ crashes = 0
  /\ paid = {}
  /\ lastFailed = [s \in Sub |-> NoTime]

Tick == /\ clock < MaxTime
        /\ clock' = clock + 1
        /\ UNCHANGED <<subs, invoice, call, crashes, history>>

CallAt(c, pc) == call[c].pc = pc
Return(c) == call' = [call EXCEPT ![c] = NoCall]
Existing == {s \in Sub : subs[s].status # "NONE"}

-----------------------------------------------------------------------------
\* subscribe, for a plan that may be bought, fixes the invoice period first.
BeginSubscribe(c) ==
  /\ CallAt(c, "idle")
  /\ call' = [call EXCEPT ![c].pc = "subscribing", ![c].at = clock]
  /\ UNCHANGED <<clock, subs, invoice, crashes, history>>

\* A plausible slip: the duplicate check is made outside the lock.
NoOpenSubscriptionUnlocked == TRUE

NoOpenSubscription == \A s \in Existing : subs[s].status \notin {"ACTIVE", "PENDING"}

\* The advisory lock of buyer and product, in a SERIALIZABLE transaction: of two
\* that overlap, the second sees the first or is aborted.
CreateSubscription(c) ==
  /\ CallAt(c, "subscribing")
  /\ NoOpenSubscription
  /\ \E s \in Sub \ Existing :
       /\ subs' = [subs EXCEPT ![s] = NewSubscription]
       /\ invoice' = [invoice EXCEPT ![s] =
            [status |-> "DRAFT", start |-> call[c].at, end |-> call[c].at + Period]]
  /\ Return(c)
  /\ UNCHANGED <<clock, crashes, history>>

\* ALREADY_SUBSCRIBED or SUBSCRIPTION_PENDING; with all of Sub in use, any of
\* the other refusals.
RefuseSubscription(c) ==
  /\ CallAt(c, "subscribing")
  /\ Existing = Sub \/ ~NoOpenSubscription
  /\ Return(c)
  /\ UNCHANGED <<clock, subs, invoice, crashes, history>>

\* mockSucceed and mockFail begin by reading the invoice; mockFail reads what the
\* grace depends on with it.
BeginSucceed(c, s) ==
  /\ CallAt(c, "idle")
  /\ s \in Existing
  /\ call' = [call EXCEPT ![c].pc = "activating", ![c].id = s]
  /\ UNCHANGED <<clock, subs, invoice, crashes, history>>

BeginFail(c, s) ==
  /\ CallAt(c, "idle")
  /\ s \in Existing
  /\ call' = [call EXCEPT ![c].pc = "suspending", ![c].id = s, ![c].seen = subs[s]]
  /\ UNCHANGED <<clock, subs, invoice, crashes, history>>

SetInvoice(s, status) == invoice' = [invoice EXCEPT ![s].status = status]

MarkPaid(c) ==
  /\ CallAt(c, "activating")
  /\ SetInvoice(call[c].id, "PAID")
  /\ paid' = paid \cup {call[c].id}
  /\ call' = [call EXCEPT ![c].pc = "activated"]
  /\ UNCHANGED <<clock, subs, crashes, lastFailed>>

Activate(c) ==
  /\ CallAt(c, "activated")
  /\ subs' = [subs EXCEPT ![call[c].id] = Activated(invoice[call[c].id])]
  /\ Return(c)
  /\ UNCHANGED <<clock, invoice, crashes, history>>

MarkVoid(c) ==
  /\ CallAt(c, "suspending")
  /\ SetInvoice(call[c].id, "VOID")
  /\ call' = [call EXCEPT ![c].pc = "suspended", ![c].at = clock]
  /\ UNCHANGED <<clock, subs, crashes, history>>

\* The grace is computed from a clock reading between the two updates.
Suspend(c) ==
  /\ CallAt(c, "suspended")
  /\ \E now \in call[c].at..clock :
       subs' = [subs EXCEPT ![call[c].id] = Suspended(@, call[c].seen, now)]
  /\ lastFailed' = [lastFailed EXCEPT ![call[c].id] = clock]
  /\ Return(c)
  /\ UNCHANGED <<clock, invoice, crashes, paid>>

\* The process goes down, or the database stops answering it, inside a call.
CutOff(c) ==
  /\ ~CallAt(c, "idle")
  /\ crashes < MaxCrashes
  /\ crashes' = crashes + 1
  /\ Return(c)
  /\ UNCHANGED <<clock, subs, invoice, history>>

CheckoutNext ==
  \/ Tick
  \/ \E c \in Caller :
       \/ BeginSubscribe(c) \/ CreateSubscription(c) \/ RefuseSubscription(c)
       \/ \E s \in Sub : BeginSucceed(c, s) \/ BeginFail(c, s)
       \/ MarkPaid(c) \/ Activate(c)
       \/ MarkVoid(c) \/ Suspend(c)
       \/ CutOff(c)

CheckoutSpec == CheckoutInit /\ [][CheckoutNext]_checkoutVars

-----------------------------------------------------------------------------
\* Access is earned: nobody has it for a subscription whose invoice was never
\* paid, nor longer than the paid period, or than the grace after the period or
\* after the last failure (markInvoicePaid, resolveGracePeriodEndsAt).
AccessLimit(s) == Later(invoice[s].end, lastFailed[s]) + GraceDays
AccessIsEarned ==
  \A s \in Existing : HasAccess(subs[s], clock) =>
    /\ s \in paid
    /\ clock < invoice[s].end \/ clock < AccessLimit(s)

\* A row, as it is or as a call read it, that agrees with its invoice's history.
Accounted(row, s) ==
  /\ row.start # NoTime => /\ s \in paid
                           /\ row.start = invoice[s].start
                           /\ row.end = invoice[s].end
  /\ row.grace <= AccessLimit(s)

\* What a payment call (mockSucceed, mockFail) works with stays accounted for,
\* however many other calls finish in between.
CallIsSound(c) ==
  LET r == call[c] IN
  /\ r.at <= clock
  /\ r.pc \notin {"idle", "subscribing"} => r.id \in Existing
  /\ r.pc = "activated" => r.id \in paid
  /\ r.pc \in {"suspending", "suspended"} => Accounted(r.seen, r.id)

\* The inductive invariant behind AccessIsEarned (markInvoicePaid,
\* markInvoiceFailed).
CheckoutInv == /\ CheckoutTypeOK
               /\ paid \subseteq Existing
               /\ \A s \in Sub : lastFailed[s] <= clock
               /\ \A s \in Sub : Accounted(subs[s], s)
               /\ \A s \in Sub \ Existing : subs[s] = NoSubscription
               /\ \A c \in Caller : CallIsSound(c)

\* Two subscriptions of one buyer to one product are open together only after a
\* failed payment of one of them: subscribe's check holds however many calls
\* overlap, and PAST_DUE, which it lets through, is the only way around it.
OneOpenSubscription ==
  \A s, t \in Existing :
    /\ subs[s].status \in {"PENDING", "ACTIVE"} /\ subs[t].status \in {"PENDING", "ACTIVE"}
    /\ s # t
    => lastFailed[s] # NoTime \/ lastFailed[t] # NoTime
=============================================================================
