------------------------- MODULE SubscriptionProofs -------------------------
(***************************************************************************)
(* How a subscription is paid for, whichever provider takes the money.     *)
(* Checkout: access is earned, whatever number of payment calls overlap or *)
(* are cut off between their updates.  StripeSync: for any number of       *)
(* webhook calls, reconcilers and billing periods, each Stripe invoice     *)
(* keeps a row of its own and the row of the checkout is never taken for a *)
(* renewal.                                                                *)
(***************************************************************************)
EXTENDS Checkout, StripeSync, TLAPS


\* Before anyone subscribes there is nothing to account for.
LEMMA CheckoutInvInit == CheckoutInit => CheckoutInv
BY GraceDaysAssumption
   DEF CheckoutInit, CheckoutInv, CheckoutTypeOK, Existing, Accounted, AccessLimit, Later,
       CallIsSound,
       NoCall, Call, Pc, NoSubscription, SubscriptionRow, SubscriptionStatus, NoTime, Invoice

\* The grace a failure gives (resolveGracePeriodEndsAt) stays within the limit
\* that the failure itself sets.
LEMMA GraceWithinLimit ==
  ASSUME NEW start \in Nat, NEW end \in Nat, NEW existing \in Nat, NEW now \in Nat,
         NEW invoiceEnd \in Nat, NEW failed \in Nat, NEW later \in Nat,
         start # NoTime => end = invoiceEnd,
         existing <= Later(invoiceEnd, failed) + GraceDays,
         now <= later, failed <= later
  PROVE  /\ GraceEnd(start, end, existing, now) \in Nat
         /\ GraceEnd(start, end, existing, now) <= Later(invoiceEnd, later) + GraceDays
BY GraceDaysAssumption DEF GraceEnd, Later, NoTime

\* A copy stays accounted for while its invoice keeps its period, payments are not
\* forgotten and failures only get later.
LEMMA AccountedKept ==
  ASSUME NEW copy \in SubscriptionRow, NEW s \in Sub, Accounted(copy, s), CheckoutTypeOK,
         paid \subseteq paid',
         invoice'[s].start = invoice[s].start, invoice'[s].end = invoice[s].end,
         lastFailed'[s] \in Nat, lastFailed[s] <= lastFailed'[s]
  PROVE  Accounted(copy, s)'
BY GraceDaysAssumption DEF Accounted, AccessLimit, Later, SubscriptionRow, CheckoutTypeOK, Invoice

\* A call that does not move stays sound when rows and clock only move on.
LEMMA CallKept ==
  ASSUME CheckoutInv, NEW c \in Caller, call'[c] = call[c],
         clock' \in Nat, clock <= clock',
         Existing \subseteq Existing', paid \subseteq paid',
         \A s \in Existing : /\ invoice'[s].start = invoice[s].start
                             /\ invoice'[s].end = invoice[s].end,
         lastFailed' \in [Sub -> Nat], \A s \in Sub : lastFailed[s] <= lastFailed'[s]
  PROVE  CallIsSound(c)'
<1> DEFINE r == call[c]
<1>1. CallIsSound(c) /\ r \in Call
  BY DEF CheckoutInv, CheckoutTypeOK
<1>2. r.at <= clock'
  BY <1>1 DEF CallIsSound, Call, CheckoutInv, CheckoutTypeOK
<1>3. r.pc \in {"suspending", "suspended"} => Accounted(r.seen, r.id)'
  <2>1. HAVE r.pc \in {"suspending", "suspended"}
  <2>2. /\ Accounted(r.seen, r.id) /\ r.id \in Existing /\ r.id \in Sub
        /\ r.seen \in SubscriptionRow
    BY <1>1, <2>1 DEF CallIsSound, Call, Existing
  <2>3. QED
    BY <2>2, AccountedKept DEF CheckoutInv, CheckoutTypeOK
<1>4. QED
  BY <1>1, <1>2, <1>3 DEF CallIsSound

\* The invariant of the payment calls is inductive.
LEMMA CheckoutInvStep == CheckoutInv /\ [CheckoutNext]_checkoutVars => CheckoutInv'
<1> SUFFICES ASSUME CheckoutInv, [CheckoutNext]_checkoutVars PROVE CheckoutInv'
  OBVIOUS
<1> USE GraceDaysAssumption, PeriodAssumption, NoSubAssumption
<1>1. CASE Tick
  BY <1>1, CallKept DEF Tick, history, CheckoutInv, CheckoutTypeOK, Existing, Accounted, AccessLimit
<1>2. ASSUME NEW c \in Caller,
             UNCHANGED <<clock, subs, invoice, paid, lastFailed>>, crashes' \in Nat,
             NEW r \in Call, call' = [call EXCEPT ![c] = r], CallIsSound(c)'
      PROVE  CheckoutInv'
  <2>1. \A d \in Caller : CallIsSound(d)'
    BY <1>2, CallKept DEF CheckoutInv, CheckoutTypeOK, Existing
  <2>2. QED
    BY <1>2, <2>1 DEF CheckoutInv, CheckoutTypeOK, Existing, Accounted, AccessLimit
<1>3. ASSUME NEW c \in Caller, CallIsSound(c)
      PROVE  /\ call[c] \in Call
             /\ \A pc \in Pc : [call[c] EXCEPT !.pc = pc] \in Call
  BY <1>3 DEF CheckoutInv, CheckoutTypeOK, Call
<1>4. NoCall \in Call
  BY DEF NoCall, Call, Pc, NoSubscription, SubscriptionRow, SubscriptionStatus, NoTime
<1>5. ASSUME NEW c \in Caller,
             BeginSubscribe(c) \/ RefuseSubscription(c) \/ CutOff(c)
      PROVE  CheckoutInv'
  <2>1. CASE BeginSubscribe(c)
    <3> DEFINE r == [call[c] EXCEPT !.pc = "subscribing", !.at = clock]
    <3>1. r \in Call /\ r.at = clock /\ r.pc = "subscribing"
      BY DEF CheckoutInv, CheckoutTypeOK, Call, Pc
    <3>2. call' = [call EXCEPT ![c] = r]
      BY <2>1 DEF BeginSubscribe, CheckoutInv, CheckoutTypeOK
    <3> HIDE DEF r
    <3>3. call'[c] = r
      BY <3>2 DEF CheckoutInv, CheckoutTypeOK
    <3>4. CallIsSound(c)'
      BY <2>1, <3>1, <3>3 DEF BeginSubscribe, CallIsSound, CheckoutInv, CheckoutTypeOK
    <3>5. QED
      BY <1>2, <2>1, <3>1, <3>2, <3>4 DEF BeginSubscribe, history, CheckoutInv, CheckoutTypeOK
  <2>2. CASE RefuseSubscription(c) \/ CutOff(c)
    <3>1. /\ call' = [call EXCEPT ![c] = NoCall]
          /\ UNCHANGED <<clock, subs, invoice, paid, lastFailed>> /\ crashes' \in Nat
      BY <2>2 DEF RefuseSubscription, CutOff, Return, history, CheckoutInv, CheckoutTypeOK
    <3>2. CallIsSound(c)'
      BY <3>1 DEF CallIsSound, NoCall, NoTime, CheckoutInv, CheckoutTypeOK
    <3>3. QED
      BY <1>2, <1>4, <3>1, <3>2
  <2>3. QED
    BY <1>5, <2>1, <2>2
<1>6. ASSUME NEW c \in Caller, NEW s \in Sub, BeginSucceed(c, s) \/ BeginFail(c, s)
      PROVE  CheckoutInv'
  <2>1. s \in Existing /\ UNCHANGED <<clock, subs, invoice, crashes, paid, lastFailed>>
    BY <1>6 DEF BeginSucceed, BeginFail, history
  <2>2. CASE BeginSucceed(c, s)
    <3> DEFINE r == [call[c] EXCEPT !.pc = "activating", !.id = s]
    <3>1. r \in Call /\ r.at = call[c].at /\ r.pc = "activating" /\ r.id = s
      BY DEF CheckoutInv, CheckoutTypeOK, Call, Pc
    <3>2. call' = [call EXCEPT ![c] = r]
      BY <2>2 DEF BeginSucceed, CheckoutInv, CheckoutTypeOK
    <3> HIDE DEF r
    <3>3. call'[c] = r
      BY <3>2 DEF CheckoutInv, CheckoutTypeOK
    <3>4. CallIsSound(c)'
      BY <2>1, <3>1, <3>3 DEF CallIsSound, CheckoutInv, CheckoutTypeOK, Existing
    <3>5. QED
      BY <1>2, <2>1, <3>1, <3>2, <3>4 DEF CheckoutInv, CheckoutTypeOK
  <2>3. CASE BeginFail(c, s)
    <3> DEFINE r == [call[c] EXCEPT !.pc = "suspending", !.id = s, !.seen = subs[s]]
    <3>1. /\ r \in Call /\ r.at = call[c].at /\ r.pc = "suspending" /\ r.id = s
          /\ r.seen = subs[s]
      BY DEF CheckoutInv, CheckoutTypeOK, Call, Pc
    <3>2. call' = [call EXCEPT ![c] = r]
      BY <2>3 DEF BeginFail, CheckoutInv, CheckoutTypeOK
    <3> HIDE DEF r
    <3>3. call'[c] = r
      BY <3>2 DEF CheckoutInv, CheckoutTypeOK
    <3>4. CallIsSound(c)'
      BY <2>1, <3>1, <3>3
         DEF CallIsSound, CheckoutInv, CheckoutTypeOK, Existing, Accounted, AccessLimit
    <3>5. QED
      BY <1>2, <2>1, <3>1, <3>2, <3>4 DEF CheckoutInv, CheckoutTypeOK
  <2>4. QED
    BY <1>6, <2>2, <2>3
<1>7. ASSUME NEW c \in Caller, CreateSubscription(c) PROVE CheckoutInv'
  <2>1. PICK s \in Sub \ Existing :
          /\ subs' = [subs EXCEPT ![s] = NewSubscription]
          /\ invoice' = [invoice EXCEPT ![s] =
               [status |-> "DRAFT", start |-> call[c].at, end |-> call[c].at + Period]]
    BY <1>7 DEF CreateSubscription
  <2>2. /\ call' = [call EXCEPT ![c] = NoCall]
        /\ UNCHANGED <<clock, crashes, paid, lastFailed>>
    BY <1>7 DEF CreateSubscription, Return, history
  <2>3. NewSubscription = [status |-> "PENDING", start |-> NoTime, end |-> NoTime, grace |-> NoTime]
    BY DEF NewSubscription, NoSubscription
  <2>4. CheckoutTypeOK'
    BY <1>4, <2>1, <2>2, <2>3
       DEF CheckoutInv, CheckoutTypeOK, SubscriptionRow, SubscriptionStatus, NoTime, Invoice, Call
  <2>5. Existing' = Existing \cup {s}
    BY <2>1, <2>3 DEF Existing, CheckoutInv, CheckoutTypeOK
  <2>6. \A t \in Sub : Accounted(subs[t], t)'
    <3>1. Accounted(subs[s], s)'
      BY <2>1, <2>3, <2>4
         DEF Accounted, AccessLimit, Later, CheckoutTypeOK, Invoice, NoTime, CheckoutInv
    <3>2. ASSUME NEW t \in Sub, t # s PROVE Accounted(subs[t], t)'
      BY <2>1, <2>2, <3>2 DEF Accounted, AccessLimit, CheckoutInv, CheckoutTypeOK
    <3>3. QED
      BY <3>1, <3>2
  <2>7. \A t \in Sub \ Existing' : subs'[t] = NoSubscription
    BY <2>1, <2>5 DEF CheckoutInv, CheckoutTypeOK
  <2>8. \A d \in Caller : CallIsSound(d)'
    <3>1. CallIsSound(c)'
      BY <2>2 DEF CallIsSound, NoCall, NoTime, CheckoutInv, CheckoutTypeOK
    <3>2. ASSUME NEW d \in Caller, d # c PROVE CallIsSound(d)'
      BY <2>1, <2>2, <2>5, <3>2, CallKept DEF CheckoutInv, CheckoutTypeOK
    <3>3. QED
      BY <3>1, <3>2
  <2>9. QED
    BY <2>2, <2>4, <2>5, <2>6, <2>7, <2>8 DEF CheckoutInv
<1>8. ASSUME NEW c \in Caller, NEW status \in {"PAID", "VOID"}, NEW r \in Call,
             call[c].id \in Existing, SetInvoice(call[c].id, status),
             call' = [call EXCEPT ![c] = r], CallIsSound(c)',
             paid \subseteq paid', paid' \subseteq Existing,
             UNCHANGED <<clock, subs, crashes, lastFailed>>
      PROVE  CheckoutInv'
  <2>1. /\ invoice' \in [Sub -> Invoice]
        /\ \A s \in Sub : /\ invoice'[s].start = invoice[s].start
                          /\ invoice'[s].end = invoice[s].end
    BY <1>8 DEF SetInvoice, CheckoutInv, CheckoutTypeOK, Invoice
  <2>2. CheckoutTypeOK' /\ Existing' = Existing
    BY <1>8, <2>1 DEF CheckoutInv, CheckoutTypeOK, Existing
  <2>3. \A s \in Sub : Accounted(subs[s], s)'
    BY <1>8, <2>1, AccountedKept DEF CheckoutInv, CheckoutTypeOK, Accounted, AccessLimit
  <2>4. \A d \in Caller : CallIsSound(d)'
    BY <1>8, <2>1, <2>2, CallKept DEF CheckoutInv, CheckoutTypeOK, Existing
  <2>5. QED
    BY <1>8, <2>2, <2>3, <2>4 DEF CheckoutInv
<1>9. ASSUME NEW c \in Caller, MarkPaid(c) PROVE CheckoutInv'
  <2> DEFINE r == [call[c] EXCEPT !.pc = "activated"]
  <2>1. /\ call[c].pc = "activating" /\ SetInvoice(call[c].id, "PAID")
        /\ paid' = paid \cup {call[c].id} /\ UNCHANGED <<clock, subs, crashes, lastFailed>>
    BY <1>9 DEF MarkPaid, CallAt
  <2>2. call[c].id \in Existing /\ call[c].at <= clock
    BY <2>1 DEF CheckoutInv, CallIsSound
  <2>3. /\ r \in Call /\ r.pc = "activated" /\ r.at = call[c].at /\ r.id = call[c].id
    BY DEF CheckoutInv, CheckoutTypeOK, Call, Pc
  <2>4. call' = [call EXCEPT ![c] = r]
    BY <1>9 DEF MarkPaid, CheckoutInv, CheckoutTypeOK
  <2> HIDE DEF r
  <2>5. call'[c] = r
    BY <2>4 DEF CheckoutInv, CheckoutTypeOK
  <2>6. CallIsSound(c)'
    BY <2>1, <2>2, <2>3, <2>5 DEF CallIsSound, Existing
  <2>7. paid' \subseteq Existing
    BY <2>1, <2>2 DEF CheckoutInv
  <2>8. QED
    BY <1>8, <2>1, <2>2, <2>3, <2>4, <2>6, <2>7
<1>10. ASSUME NEW c \in Caller, MarkVoid(c) PROVE CheckoutInv'
  <2> DEFINE r == [call[c] EXCEPT !.pc = "suspended", !.at = clock]
  <2>1. /\ call[c].pc = "suspending" /\ SetInvoice(call[c].id, "VOID")
        /\ UNCHANGED <<clock, subs, crashes, paid, lastFailed>>
    BY <1>10 DEF MarkVoid, CallAt, history
  <2>2. call[c].id \in Existing /\ call[c].id \in Sub /\ Accounted(call[c].seen, call[c].id)
    BY <2>1 DEF CheckoutInv, CallIsSound, Existing
  <2>3. /\ r \in Call /\ r.pc = "suspended" /\ r.at = clock /\ r.id = call[c].id
        /\ r.seen = call[c].seen
    BY DEF CheckoutInv, CheckoutTypeOK, Call, Pc
  <2>4. call' = [call EXCEPT ![c] = r]
    BY <1>10 DEF MarkVoid, CheckoutInv, CheckoutTypeOK
  <2> HIDE DEF r
  <2>5. call'[c] = r
    BY <2>4 DEF CheckoutInv, CheckoutTypeOK
  <2>6. /\ invoice'[call[c].id].start = invoice[call[c].id].start
        /\ invoice'[call[c].id].end = invoice[call[c].id].end
    BY <2>1, <2>2 DEF SetInvoice, CheckoutInv, CheckoutTypeOK, Invoice
  <2>7. CallIsSound(c)'
    BY <2>1, <2>2, <2>3, <2>5, <2>6
       DEF CallIsSound, Existing, Accounted, AccessLimit, CheckoutInv, CheckoutTypeOK
  <2>8. QED
    BY <1>8, <2>1, <2>2, <2>3, <2>4, <2>7 DEF CheckoutInv
<1>11. ASSUME NEW c \in Caller, NEW s \in Existing, NEW copy \in SubscriptionRow,
              subs' = [subs EXCEPT ![s] = copy], copy.status # "NONE", Accounted(copy, s)',
              call' = [call EXCEPT ![c] = NoCall],
              lastFailed' \in [Sub -> Nat],
              \A t \in Sub : lastFailed[t] <= lastFailed'[t] /\ lastFailed'[t] <= clock,
              UNCHANGED <<clock, invoice, crashes, paid>>
       PROVE  CheckoutInv'
  <2>1. s \in Sub
    BY DEF Existing
  <2>2. CheckoutTypeOK' /\ Existing' = Existing
    BY <1>4, <1>11, <2>1 DEF CheckoutInv, CheckoutTypeOK, Existing
  <2>3. ASSUME NEW t \in Sub PROVE Accounted(subs[t], t)'
    <3>1. CASE t = s
      BY <1>11, <2>1, <3>1 DEF CheckoutInv, CheckoutTypeOK, Accounted, AccessLimit
    <3>2. CASE t # s
      <4>1. Accounted(subs[t], t) /\ subs'[t] = subs[t] /\ subs[t] \in SubscriptionRow
        BY <1>11, <2>1, <3>2 DEF CheckoutInv, CheckoutTypeOK
      <4>2. QED
        BY <1>11, <4>1, GraceDaysAssumption
           DEF Accounted, AccessLimit, Later, SubscriptionRow, CheckoutInv, CheckoutTypeOK, Invoice
    <3>3. QED
      BY <3>1, <3>2
  <2>4. CallIsSound(c)'
    BY <1>11 DEF CallIsSound, NoCall, NoTime, CheckoutInv, CheckoutTypeOK
  <2>5. \A d \in Caller : CallIsSound(d)'
    BY <1>11, <2>2, <2>4, CallKept DEF CheckoutInv, CheckoutTypeOK
  <2>6. \A t \in Sub \ Existing' : subs'[t] = NoSubscription
    BY <1>11, <2>2 DEF CheckoutInv, CheckoutTypeOK
  <2>7. QED
    BY <1>11, <2>2, <2>3, <2>5, <2>6 DEF CheckoutInv
<1>12. ASSUME NEW c \in Caller, Activate(c) PROVE CheckoutInv'
  <2>1. PICK s \in Existing : s = call[c].id /\ s \in paid
    BY <1>12 DEF Activate, CallAt, CheckoutInv, CallIsSound
  <2>2. PICK copy \in SubscriptionRow :
          /\ copy = Activated(invoice[s]) /\ copy.status = "ACTIVE" /\ copy.grace = NoTime
          /\ copy.start = invoice[s].start /\ copy.end = invoice[s].end
    <3>1. invoice[s] \in Invoice
      BY DEF Existing, CheckoutInv, CheckoutTypeOK
    <3>2. Activated(invoice[s]) \in SubscriptionRow
      BY <3>1 DEF Activated, SubscriptionRow, SubscriptionStatus, Invoice, NoTime
    <3>3. QED
      BY <3>2 DEF Activated
  <2>3. /\ subs' = [subs EXCEPT ![s] = copy] /\ call' = [call EXCEPT ![c] = NoCall]
        /\ UNCHANGED <<clock, invoice, crashes, paid, lastFailed>>
    BY <1>12, <2>1, <2>2 DEF Activate, Return, history
  <2>4. Accounted(copy, s)'
    BY <2>1, <2>2, <2>3
       DEF Accounted, AccessLimit, Later, NoTime, CheckoutInv, CheckoutTypeOK, Invoice, Existing
  <2>5. /\ lastFailed' \in [Sub -> Nat]
        /\ \A t \in Sub : lastFailed[t] <= lastFailed'[t] /\ lastFailed'[t] <= clock
    BY <2>3 DEF CheckoutInv, CheckoutTypeOK
  <2>6. QED
    BY <1>11, <2>1, <2>2, <2>3, <2>4, <2>5
<1>13. ASSUME NEW c \in Caller, Suspend(c) PROVE CheckoutInv'
  <2>1. PICK s \in Sub, seen \in SubscriptionRow :
          /\ s = call[c].id /\ seen = call[c].seen /\ s \in Existing /\ Accounted(seen, s)
          /\ call[c].at \in Nat /\ call[c].at <= clock
    BY <1>13 DEF Suspend, CallAt, CheckoutInv, CallIsSound, Existing, CheckoutTypeOK, Call
  <2>2. PICK now \in call[c].at..clock : subs' = [subs EXCEPT ![s] = Suspended(subs[s], seen, now)]
    BY <1>13, <2>1 DEF Suspend, CheckoutInv, CheckoutTypeOK
  <2>3. /\ call' = [call EXCEPT ![c] = NoCall]
        /\ lastFailed' = [lastFailed EXCEPT ![s] = clock]
        /\ UNCHANGED <<clock, invoice, crashes, paid>>
    BY <1>13, <2>1 DEF Suspend, Return
  <2>4. now \in Nat /\ now <= clock /\ clock \in Nat
    BY <2>1, <2>2 DEF CheckoutInv, CheckoutTypeOK
  <2>5. /\ subs[s] \in SubscriptionRow /\ Accounted(subs[s], s)
        /\ invoice[s] \in Invoice /\ lastFailed[s] \in Nat /\ lastFailed[s] <= clock
    BY <2>1 DEF CheckoutInv, CheckoutTypeOK
  <2>6. /\ lastFailed' \in [Sub -> Nat] /\ lastFailed'[s] = clock
        /\ \A t \in Sub \ {s} : lastFailed'[t] = lastFailed[t]
    BY <2>1, <2>3, <2>4 DEF CheckoutInv, CheckoutTypeOK
  <2>7. PICK grace \in Nat :
          /\ grace = GraceEnd(seen.start, seen.end, seen.grace, now)
          /\ grace <= Later(invoice[s].end, clock) + GraceDays
    BY <2>1, <2>4, <2>5, GraceWithinLimit DEF Accounted, AccessLimit, SubscriptionRow, Invoice
  <2>8. PICK copy \in SubscriptionRow :
          /\ copy = Suspended(subs[s], seen, now) /\ copy.status = "PAST_DUE"
          /\ copy.grace = grace /\ copy.start = subs[s].start /\ copy.end = subs[s].end
    <3>1. Suspended(subs[s], seen, now) =
            [subs[s] EXCEPT !.status = "PAST_DUE", !.grace = grace]
      BY <2>7 DEF Suspended
    <3>2. [subs[s] EXCEPT !.status = "PAST_DUE", !.grace = grace] \in SubscriptionRow
      BY <2>5, <2>7 DEF SubscriptionRow, SubscriptionStatus
    <3>3. QED
      BY <2>5, <3>1, <3>2 DEF SubscriptionRow
  <2>9. Accounted(copy, s)'
    BY <2>3, <2>5, <2>6, <2>7, <2>8 DEF Accounted, AccessLimit
  <2>10. \A t \in Sub : lastFailed[t] <= lastFailed'[t] /\ lastFailed'[t] <= clock
    BY <2>5, <2>6 DEF CheckoutInv, CheckoutTypeOK
  <2>11. QED
    BY <1>11, <2>1, <2>2, <2>3, <2>6, <2>8, <2>9, <2>10
<1>14. CASE UNCHANGED checkoutVars
  BY <1>14, CallKept DEF checkoutVars, CheckoutInv, CheckoutTypeOK, Existing, Accounted, AccessLimit
<1>15. QED
  BY <1>1, <1>5, <1>6, <1>7, <1>9, <1>10, <1>12, <1>13, <1>14 DEF CheckoutNext

\* Whatever calls overlap and wherever they are cut off, every subscription and
\* every call in flight stays accounted for (mockSucceed, mockFail).
THEOREM CheckoutCorrect == CheckoutSpec => []CheckoutInv
BY CheckoutInvInit, CheckoutInvStep, PTL DEF CheckoutSpec

\* Nobody has access to what was never paid, nor beyond the grace after the
\* period or the last failure (resolveGracePeriodEndsAt, getUsageWindow).
THEOREM AccessEarned == CheckoutSpec => []AccessIsEarned
<1>1. CheckoutInv => AccessIsEarned
  BY GraceDaysAssumption
     DEF CheckoutInv, CheckoutTypeOK, AccessIsEarned, HasAccess, HasWindow, WindowEnd, Accounted,
         AccessLimit, Later, Existing, SubscriptionRow, Invoice
<1>2. QED
  BY <1>1, CheckoutCorrect, PTL

\* A subscription leaves PENDING and ACTIVE only through a failure that reached it
\* (markInvoiceFailed); the mock provider cancels none.
FailuresAreKnown ==
  \A s \in Sub : /\ subs[s].status # "CANCELED"
                 /\ subs[s].status = "PAST_DUE" => lastFailed[s] # NoTime

\* With that, one open subscription is inductive.
OpenInv == FailuresAreKnown /\ OneOpenSubscription

\* No step opens a second subscription beside one that never failed (subscribe).
LEMMA OpenInvStep == CheckoutInv /\ OpenInv /\ [CheckoutNext]_checkoutVars => OpenInv'
<1> SUFFICES ASSUME CheckoutInv, OpenInv, [CheckoutNext]_checkoutVars PROVE OpenInv'
  OBVIOUS
<1>1. /\ subs \in [Sub -> SubscriptionRow] /\ lastFailed \in [Sub -> Nat]
      /\ clock \in Nat \ {0} /\ \A c \in Caller : call[c].id \in Sub \cup {NoSub}
  BY DEF CheckoutInv, CheckoutTypeOK, Call
<1>2. ASSUME UNCHANGED <<subs, lastFailed>> PROVE OpenInv'
  BY <1>2 DEF OpenInv, FailuresAreKnown, OneOpenSubscription, Existing
<1>3. ASSUME NEW c \in Caller, CreateSubscription(c) PROVE OpenInv'
  <2>1. PICK s \in Sub : /\ subs[s].status = "NONE"
                         /\ subs' = [subs EXCEPT ![s] = NewSubscription]
    BY <1>3 DEF CreateSubscription, Existing
  <2>2. subs'[s].status = "PENDING" /\ \A t \in Sub \ {s} : subs'[t] = subs[t]
    BY <1>1, <2>1 DEF NewSubscription, NoSubscription
  <2>3. lastFailed' = lastFailed
    BY <1>3 DEF CreateSubscription, history
  <2>4. \A t \in Sub : subs[t].status \notin {"PENDING", "ACTIVE"}
    BY <1>1, <1>3 DEF CreateSubscription, NoOpenSubscription, Existing
  <2>5. QED
    BY <2>2, <2>3, <2>4 DEF OpenInv, FailuresAreKnown, OneOpenSubscription, Existing
<1>4. ASSUME NEW c \in Caller, Activate(c) PROVE OpenInv'
  <2>1. PICK s \in Sub : s = call[c].id /\ subs[s].status # "NONE"
    BY <1>4 DEF Activate, CallAt, CheckoutInv, CallIsSound, Existing
  <2>2. subs' = [subs EXCEPT ![s] = Activated(invoice[s])] /\ lastFailed' = lastFailed
    BY <1>4, <2>1 DEF Activate, history
  <2>3. subs'[s].status = "ACTIVE" /\ \A t \in Sub \ {s} : subs'[t] = subs[t]
    BY <1>1, <2>1, <2>2 DEF Activated
  <2>4. subs[s].status \in {"PENDING", "ACTIVE"} \/ lastFailed[s] # NoTime
    BY <1>1, <2>1 DEF OpenInv, FailuresAreKnown, SubscriptionRow, SubscriptionStatus
  <2>5. QED
    BY <2>1, <2>2, <2>3, <2>4 DEF OpenInv, FailuresAreKnown, OneOpenSubscription, Existing
<1>5. ASSUME NEW c \in Caller, Suspend(c) PROVE OpenInv'
  <2>1. PICK s \in Sub : s = call[c].id
    BY <1>5 DEF Suspend, CallAt, CheckoutInv, CallIsSound, Existing
  <2>2. lastFailed' = [lastFailed EXCEPT ![s] = clock]
    BY <1>5, <2>1 DEF Suspend
  <2>3. PICK now \in call[c].at..clock :
          subs' = [subs EXCEPT ![s] = Suspended(subs[s], call[c].seen, now)]
    BY <1>1, <1>5, <2>1 DEF Suspend
  <2>4. subs'[s].status = "PAST_DUE" /\ \A t \in Sub \ {s} : subs'[t] = subs[t]
    BY <1>1, <2>3 DEF Suspended, SubscriptionRow
  <2>5. lastFailed'[s] # NoTime /\ \A t \in Sub \ {s} : lastFailed'[t] = lastFailed[t]
    BY <1>1, <2>2 DEF NoTime
  <2>6. QED
    BY <2>4, <2>5 DEF OpenInv, FailuresAreKnown, OneOpenSubscription, Existing
<1>6. QED
  BY <1>2, <1>3, <1>4, <1>5
     DEF CheckoutNext, Tick, BeginSubscribe, RefuseSubscription, BeginSucceed, BeginFail,
         MarkPaid, MarkVoid, CutOff, history, checkoutVars

\* Two open subscriptions of one buyer to one product need a failed payment of
\* one of them, however many subscribe and payment calls overlap (subscribe).
THEOREM OneOpen == CheckoutSpec => []OneOpenSubscription
<1>1. CheckoutInit => OpenInv
  BY DEF CheckoutInit, OpenInv, FailuresAreKnown, OneOpenSubscription, Existing, NoSubscription
<1>2. OpenInv => OneOpenSubscription
  BY DEF OpenInv
<1>3. QED
  BY <1>1, <1>2, CheckoutCorrect, OpenInvStep, PTL DEF CheckoutSpec

-----------------------------------------------------------------------------
(* StripeSync *)


USE StripeSyncAssumption

\* The first period exists (subscribe).
LEMMA FirstPeriod == 1 \in External /\ 1 \in Row /\ 0 \in Row /\ External \subseteq Row
  BY DEF External, Row

\* What is known of an event or a handler stays known as periods are reached and
\* the link is made (handleWebhook).
LEMMA SoundnessStays ==
  ASSUME stripe.period # 0 => stripe'.period # 0, sub.linked => sub'.linked
  PROVE  /\ \A e : EventSound(e) => EventSound(e)'
         /\ \A r : HandlerSound(r) => HandlerSound(r)'
<1>1. \A e : EventSound(e) => EventSound(e)'
  BY DEF EventSound
<1> QED
  BY <1>1 DEF HandlerSound

\* The initial state satisfies the invariant.
LEMMA InitSync == Init => SyncInv
<1> SUFFICES ASSUME Init PROVE SyncInv
  OBVIOUS
<1>1. Idle \in Handler
  BY FirstPeriod DEF Idle, Handler, OtherEvent, Event, RowStatus
<1>2. stripe \in StripeRecord /\ sub \in Subscription
  BY DEF Init, StripeRecord, StripeStatus, Subscription, LocalStatus
<1>3. TypeOK
  BY <1>1, <1>2, FirstPeriod DEF Init, TypeOK, RowStatus, Row
<1>4. LinksAreExclusive
  BY FirstPeriod DEF Init, LinksAreExclusive, Row
<1>5. HandlerSound(Idle)
  BY DEF HandlerSound, Idle
<1> QED
  BY <1>3, <1>4, <1>5 DEF Init, SyncInv

\* What happens at Stripe tells only what the invariant allows to be told.
LEMMA StripeStep ==
  ASSUME SyncInv, Stripe
  PROVE  SyncInv'
<1>1. UNCHANGED <<sub, row, checkoutExt, handler, faults>>
  BY DEF Stripe, localVars
<1>2. stripe \in StripeRecord /\ stripe.period \in 0..Periods
  BY DEF SyncInv, TypeOK, StripeRecord
<1>3. ASSUME NEW status \in StripeStatus, NEW n \in External, NEW inv \in {"open", "paid"},
             Becomes(status, n, inv)
      PROVE  stripe' \in StripeRecord /\ stripe'.period = n
  <2>1. stripe.inv \in [External -> {"NONE", "open", "paid"}]
    BY <1>2 DEF StripeRecord
  <2>2. [stripe.inv EXCEPT ![n] = inv] \in [External -> {"NONE", "open", "paid"}]
    BY <2>1
  <2>3. n \in 0..Periods
    BY DEF External
  <2> QED
    BY <1>3, <2>2, <2>3 DEF Becomes, StripeRecord
<1>4. ASSUME NEW status \in StripeStatus, stripe' = [stripe EXCEPT !.status = status]
      PROVE  stripe' \in StripeRecord /\ stripe'.period = stripe.period
                                      /\ stripe'.status = status
  BY <1>2, <1>4 DEF StripeRecord
<1>5. /\ stripe' \in StripeRecord
      /\ stripe.period # 0 => stripe'.period # 0
      /\ stripe'.status \in {"active", "past_due"} => stripe'.period # 0
      /\ events' \subseteq Event
      /\ \A e \in events' \ events : EventSound(e)'
  <2>1. CASE CompleteCheckout
    <3>1. stripe' \in StripeRecord /\ stripe'.period = 1
      BY <2>1, <1>3, FirstPeriod DEF CompleteCheckout, StripeStatus
    <3>2. events' = events \cup {OtherEvent("checkout"), InvoiceEvent(1, "DRAFT"),
                                 InvoiceEvent(1, "PAID"), UpdatedEvent("ACTIVE", 1)}
      BY <2>1 DEF CompleteCheckout, Emit
    <3> QED
      BY <3>1, <3>2, FirstPeriod DEF SyncInv, TypeOK, OtherEvent, InvoiceEvent,
         UpdatedEvent, Event, EventSound, RowStatus, LocalStatus, External
  <2>2. CASE ExpireCheckout
    <3>1. stripe' \in StripeRecord /\ stripe'.period = stripe.period
                                   /\ stripe'.status = "expired"
      BY <2>2, <1>4 DEF ExpireCheckout, StripeStatus
    <3>2. events' = events \cup {OtherEvent("expired")}
      BY <2>2 DEF ExpireCheckout, Emit
    <3> QED
      BY <3>1, <3>2 DEF SyncInv, TypeOK, OtherEvent, Event, EventSound, RowStatus
  <2>3. CASE Renew
    <3> DEFINE n == stripe.period + 1
    <3>1. n \in External
      BY <1>2, <2>3 DEF Renew, External
    <3>2. stripe' \in StripeRecord /\ stripe'.period = n
      BY <2>3, <3>1, <1>3 DEF Renew, StripeStatus
    <3>3. events' = events \cup {InvoiceEvent(n, "DRAFT"), UpdatedEvent("ACTIVE", n)}
      BY <2>3 DEF Renew, Emit
    <3> QED
      BY <3>1, <3>2, <3>3 DEF SyncInv, TypeOK, InvoiceEvent, UpdatedEvent, Event,
         EventSound, RowStatus, LocalStatus, External
  <2>4. ASSUME Due PROVE stripe.period \in External
    BY <1>2, <2>4 DEF Due, SyncInv, External
  <2>5. CASE Pay
    <3>1. stripe.period \in External
      BY <2>4, <2>5 DEF Pay
    <3>2. stripe' \in StripeRecord /\ stripe'.period = stripe.period
      BY <2>5, <3>1, <1>3 DEF Pay, StripeStatus
    <3>3. events' = events \cup {InvoiceEvent(stripe.period, "PAID"),
                                 UpdatedEvent("ACTIVE", stripe.period)}
      BY <2>5 DEF Pay, Emit
    <3> QED
      BY <3>1, <3>2, <3>3 DEF SyncInv, TypeOK, InvoiceEvent, UpdatedEvent, Event,
         EventSound, RowStatus, LocalStatus, External
  <2>6. CASE FailPayment
    <3>1. stripe.period \in External
      BY <2>4, <2>6 DEF FailPayment
    <3>2. stripe' \in StripeRecord /\ stripe'.period = stripe.period
      BY <2>6, <3>1, <1>3 DEF FailPayment, StripeStatus
    <3>3. events' = events \cup {InvoiceEvent(stripe.period, "PAST_DUE"),
                                 UpdatedEvent("PAST_DUE", stripe.period)}
      BY <2>6 DEF FailPayment, Emit
    <3> QED
      BY <3>1, <3>2, <3>3 DEF SyncInv, TypeOK, InvoiceEvent, UpdatedEvent, Event,
         EventSound, RowStatus, LocalStatus, External
  <2>7. CASE EndSubscription
    <3>1. stripe' \in StripeRecord /\ stripe'.period = stripe.period
                                   /\ stripe'.status = "canceled"
      BY <2>7, <1>4 DEF EndSubscription, StripeStatus
    <3>2. events' = events \cup {OtherEvent("deleted")}
      BY <2>7 DEF EndSubscription, Emit
    <3>3. stripe.period # 0
      BY <2>7 DEF EndSubscription, SyncInv
    <3> QED
      BY <3>1, <3>2, <3>3 DEF SyncInv, TypeOK, OtherEvent, Event, EventSound, RowStatus
  <2> QED
    BY <2>1, <2>2, <2>3, <2>5, <2>6, <2>7 DEF Stripe
<1>6. \A e \in events' : EventSound(e)'
  BY <1>1, <1>5, SoundnessStays DEF SyncInv
<1>7. \A h \in Process : HandlerSound(handler[h])'
  <2>1. \A h \in Process : HandlerSound(handler[h])
    BY DEF SyncInv
  <2> QED
    BY <1>1, <1>5, <2>1 DEF HandlerSound, EventSound
<1>8. TypeOK'
  BY <1>1, <1>5 DEF SyncInv, TypeOK
<1>9. LinksAreExclusive'
  BY <1>1 DEF SyncInv, LinksAreExclusive
<1> QED
  BY <1>1, <1>5, <1>6, <1>7, <1>8, <1>9 DEF SyncInv

\* A step of one process: its record stays sound, and of the rest it touches the
\* invariant only through the facts named here.
LEMMA ProcessStep ==
  ASSUME SyncInv, NEW h \in Process, NEW r \in Handler,
         stripe' = stripe, events' \subseteq events, faults' \in Nat,
         sub' \in Subscription, sub.linked => sub'.linked,
         sub'.linked => stripe.period # 0,
         row' \in [Row -> RowStatus], row'[1] = "NONE", checkoutExt' \in {0, 1},
         handler' = [handler EXCEPT ![h] = r], HandlerSound(r)'
  PROVE  SyncInv'
<1>1. handler \in [Process -> Handler]
  BY DEF SyncInv, TypeOK
<1>2. \A e \in events' : EventSound(e)'
  BY SoundnessStays DEF SyncInv
<1>3. \A g \in Process : handler'[g] = IF g = h THEN r ELSE handler[g]
  BY <1>1
<1>4. \A g \in Process : HandlerSound(handler[g])'
  <2> SUFFICES ASSUME NEW g \in Process PROVE HandlerSound(handler[g])'
    OBVIOUS
  <2>1. PICK q : q = handler[g]
    OBVIOUS
  <2>2. HandlerSound(q)'
    BY <2>1, SoundnessStays DEF SyncInv
  <2>3. CASE g = h
    BY <1>3, <2>3 DEF HandlerSound, EventSound
  <2>4. CASE g # h
    BY <1>3, <2>1, <2>2, <2>4 DEF HandlerSound, EventSound
  <2> QED
    BY <2>3, <2>4
<1>5. TypeOK'
  BY <1>1, FirstPeriod DEF SyncInv, TypeOK
<1>6. LinksAreExclusive'
  BY DEF LinksAreExclusive
<1> QED
  BY <1>2, <1>4, <1>5, <1>6 DEF SyncInv

\* The same for a step that only moves the process on.
LEMMA QuietStep ==
  ASSUME SyncInv, NEW h \in Process, NEW r \in Handler,
         stripe' = stripe, events' \subseteq events, faults' \in Nat,
         sub' = sub, row' = row, checkoutExt' = checkoutExt,
         handler' = [handler EXCEPT ![h] = r], HandlerSound(r)'
  PROVE  SyncInv'
<1>1. /\ sub' \in Subscription /\ (sub'.linked => stripe.period # 0)
      /\ row' \in [Row -> RowStatus] /\ row'[1] = "NONE" /\ checkoutExt' \in {0, 1}
  BY DEF SyncInv, TypeOK, LinksAreExclusive
<1> QED
  BY <1>1, ProcessStep

\* Every step of a process preserves the invariant.
LEMMA HandlerStep ==
  ASSUME SyncInv, NEW h \in Process, Step(h) \/ Fail(h)
  PROVE  SyncInv'
<1>1. PICK r : r = handler[h]
  OBVIOUS
<1> DEFINE e == r.event
<1>2. /\ r \in Handler /\ e \in Event /\ handler \in [Process -> Handler]
      /\ stripe \in StripeRecord /\ sub \in Subscription
      /\ row \in [Row -> RowStatus] /\ row[1] = "NONE" /\ checkoutExt \in {0, 1}
      /\ sub.linked => stripe.period # 0
      /\ events \subseteq Event /\ faults \in Nat
  BY <1>1 DEF SyncInv, TypeOK, LinksAreExclusive, Handler
<1>3. HandlerSound(r)
  BY <1>1 DEF SyncInv
<1>4. Idle \in Handler /\ HandlerSound(Idle)'
  BY FirstPeriod DEF Idle, Handler, OtherEvent, Event, RowStatus, HandlerSound
<1>5. \A pc : Goto(h, pc) => handler' = [handler EXCEPT ![h] = [r EXCEPT !.pc = pc]]
  BY <1>1, <1>2 DEF Goto
<1>6. CASE Take(h)
  <2>1. PICK f \in events :
          handler' = [handler EXCEPT ![h].pc = "taken", ![h].event = f]
    BY <1>6 DEF Take
  <2>2. UNCHANGED <<stripe, events, sub, row, checkoutExt, faults>>
    BY <1>6 DEF Take, localVars
  <2>3. PICK q : q = [r EXCEPT !.pc = "taken", !.event = f]
    OBVIOUS
  <2>4. q \in Handler /\ q.pc = "taken" /\ q.event = f
    BY <1>2, <2>3 DEF Handler
  <2>5. handler' = [handler EXCEPT ![h] = q]
    BY <1>1, <1>2, <2>1, <2>3
  <2>6. EventSound(f)'
    BY <2>2 DEF SyncInv, EventSound
  <2>7. HandlerSound(q)'
    BY <2>4, <2>6 DEF HandlerSound
  <2> QED
    BY <1>2, <2>2, <2>4, <2>5, <2>7, QuietStep
<1>7. CASE Select(h)
  <2>1. PICK q : q = [r EXCEPT !.pc = "selected"]
    OBVIOUS
  <2>2. q \in Handler /\ q.pc = "selected"
    BY <1>2, <2>1 DEF Handler
  <2>3. /\ UNCHANGED <<stripe, events, sub, row, checkoutExt, faults>>
        /\ handler' = [handler EXCEPT ![h] = q] /\ sub.linked
    BY <1>5, <1>7, <2>1 DEF Select, Selected, localVars
  <2>4. HandlerSound(q)'
    BY <2>2, <2>3 DEF HandlerSound
  <2> QED
    BY <1>2, <2>2, <2>3, <2>4, QuietStep
<1>8. CASE Retrieve(h)
  <2>1. PICK f : f = UpdatedEvent(Local(stripe.status), stripe.period)
    OBVIOUS
  <2>2. PICK s : s = InvoiceStatusAtStripe
    OBVIOUS
  <2>3. PICK q : q = [r EXCEPT !.pc = "taken", !.event = f, !.seen = s]
    OBVIOUS
  <2>4. UNCHANGED <<stripe, events, sub, row, checkoutExt, faults>> /\ r.pc = "selected"
    BY <1>1, <1>8 DEF Retrieve, localVars, At
  <2>5. handler' = [handler EXCEPT ![h] = q]
    BY <1>1, <1>2, <1>8, <2>1, <2>2, <2>3 DEF Retrieve
  <2>6. sub.linked /\ stripe.period \in External
    BY <1>2, <1>3, <2>4 DEF HandlerSound, StripeRecord, External
  <2>7. Local(stripe.status) \in LocalStatus /\ s \in RowStatus
    BY <2>2 DEF Local, LocalStatus, InvoiceStatusAtStripe, RowStatus
  <2>8. f \in Event /\ EventSound(f)'
    BY <2>1, <2>4, <2>6, <2>7 DEF UpdatedEvent, Event, EventSound, External
  <2>9. q \in Handler /\ q.pc = "taken" /\ q.event = f
    BY <1>2, <2>3, <2>7, <2>8 DEF Handler
  <2>10. HandlerSound(q)'
    BY <2>8, <2>9 DEF HandlerSound
  <2> QED
    BY <1>2, <2>4, <2>5, <2>9, <2>10, QuietStep
<1>9. PICK d : d = [r EXCEPT !.pc = "done"]
  OBVIOUS
<1>10. ASSUME r.pc \notin {"idle", "selected"}, stripe' = stripe, Goto(h, "done")
       PROVE  d \in Handler /\ HandlerSound(d)' /\ handler' = [handler EXCEPT ![h] = d]
  <2>1. d \in Handler /\ d.pc = "done" /\ d.event = e
    BY <1>2, <1>9 DEF Handler
  <2> QED
    BY <1>3, <1>5, <1>9, <1>10, <2>1 DEF HandlerSound, EventSound
<1>11. CASE HandleCheckout(h)
  <2>1. /\ UNCHANGED <<stripe, events, row, checkoutExt, faults>>
        /\ r.pc = "taken" /\ e.kind = "checkout" /\ Goto(h, "done")
    BY <1>1, <1>11 DEF HandleCheckout, At, Job
  <2>2. sub' \in Subscription /\ sub'.linked /\ stripe.period # 0
    BY <1>2, <1>3, <1>11, <2>1 DEF HandleCheckout, Subscription, HandlerSound, EventSound
  <2>3. d \in Handler /\ HandlerSound(d)' /\ handler' = [handler EXCEPT ![h] = d]
    BY <1>10, <2>1
  <2> QED
    BY <1>2, <2>1, <2>2, <2>3, ProcessStep
<1>12. CASE HandleDeleted(h)
  <2>1. /\ UNCHANGED <<stripe, events, row, checkoutExt, faults>>
        /\ r.pc = "taken" /\ Goto(h, "done")
    BY <1>1, <1>12 DEF HandleDeleted, At
  <2>2. sub' \in Subscription /\ sub'.linked = sub.linked
    BY <1>2, <1>12 DEF HandleDeleted, Subscription, LocalStatus
  <2>3. d \in Handler /\ HandlerSound(d)' /\ handler' = [handler EXCEPT ![h] = d]
    BY <1>10, <2>1
  <2> QED
    BY <1>2, <2>1, <2>2, <2>3, ProcessStep
<1>13. ASSUME r.pc = "taken", e.kind = "updated", SetSub(e.status, e.inv)
       PROVE  sub' \in Subscription /\ sub'.linked /\ stripe.period # 0 /\ e.inv \in External
  BY <1>3, <1>13 DEF HandlerSound, EventSound, SetSub, Subscription, External
<1>14. CASE HandleUpdated(h)
  <2>1. /\ UNCHANGED <<stripe, events, row, checkoutExt, faults>>
        /\ r.pc = "taken" /\ e.kind = "updated" /\ Goto(h, "done")
        /\ SetSub(e.status, e.inv) \/ sub' = sub
    BY <1>1, <1>14 DEF HandleUpdated, At, Job
  <2>2. sub' \in Subscription /\ (sub.linked => sub'.linked)
                              /\ (sub'.linked => stripe.period # 0)
    BY <1>2, <1>13, <2>1
  <2>3. d \in Handler /\ HandlerSound(d)' /\ handler' = [handler EXCEPT ![h] = d]
    BY <1>10, <2>1
  <2> QED
    BY <1>2, <2>1, <2>2, <2>3, ProcessStep
<1>15. CASE ReconcileSubscription(h)
  <2>1. /\ UNCHANGED <<stripe, events, row, checkoutExt, faults>>
        /\ r.pc = "taken" /\ e.kind = "updated" /\ SetSub(e.status, e.inv)
    BY <1>1, <1>15 DEF ReconcileSubscription, At, Job
  <2>2. PICK f : f = InvoiceEvent(e.inv, r.seen)
    OBVIOUS
  <2>3. PICK q : q = [r EXCEPT !.event = f, !.seen = "NONE"]
    OBVIOUS
  <2>4. handler' = [handler EXCEPT ![h] = q]
    BY <1>1, <1>2, <1>15, <2>2, <2>3 DEF ReconcileSubscription, Job
  <2>5. f \in Event /\ EventSound(f)'
    BY <1>2, <1>13, <2>1, <2>2 DEF InvoiceEvent, Event, EventSound, External, Handler
  <2>6. q \in Handler /\ q.pc = "taken" /\ q.event = f
    BY <1>2, <2>1, <2>3, <2>5 DEF Handler, RowStatus
  <2>7. HandlerSound(q)'
    BY <2>5, <2>6 DEF HandlerSound
  <2> QED
    BY <1>2, <1>13, <2>1, <2>4, <2>6, <2>7, ProcessStep
<1>16. CASE ResolveInvoice(h)
  <2>1. /\ UNCHANGED <<stripe, events, sub, row, checkoutExt, faults>>
        /\ r.pc = "taken" /\ e.kind = "invoice"
    BY <1>1, <1>16 DEF ResolveInvoice, localVars, At, Job
  <2>2. EventSound(e) /\ EventSound(e)' /\ e.inv \in External
    BY <1>3, <2>1 DEF HandlerSound, EventSound
  <2>3. \/ \E n \in Row : /\ Carries(n, e.inv)
                          /\ handler' = [handler EXCEPT ![h].pc = "found", ![h].row = n]
        \/ /\ e.inv = 1
           /\ handler' = [handler EXCEPT ![h].pc = "found", ![h].row = 0]
        \/ /\ ~(e.inv = 1 /\ checkoutExt = 0) /\ ~Carries(0, e.inv)
           /\ Goto(h, "creating")
        \/ Goto(h, "done")
    BY <1>1, <1>16, FirstPeriod DEF ResolveInvoice, Job, NamesCheckoutRow
  <2>4. ASSUME NEW n \in Row, n = 0 => e.inv = 1, n # 0 => n = e.inv /\ n # 1,
               handler' = [handler EXCEPT ![h].pc = "found", ![h].row = n]
        PROVE  SyncInv'
    <3>1. PICK q : q = [r EXCEPT !.pc = "found", !.row = n]
      OBVIOUS
    <3>2. q \in Handler /\ q.pc = "found" /\ q.row = n /\ q.event = e
      BY <1>2, <3>1 DEF Handler
    <3>3. handler' = [handler EXCEPT ![h] = q]
      BY <1>1, <1>2, <2>4, <3>1
    <3>4. HandlerSound(q)'
      BY <2>1, <2>2, <2>4, <3>2 DEF HandlerSound
    <3> QED
      BY <1>2, <2>1, <3>2, <3>3, <3>4, QuietStep
  <2>5. ASSUME NEW n \in Row, Carries(n, e.inv)
        PROVE  (n = 0 => e.inv = 1) /\ (n # 0 => n = e.inv /\ n # 1)
    BY <1>2, <2>2, <2>5 DEF Carries, External
  <2>6. CASE ~(e.inv = 1 /\ checkoutExt = 0) /\ ~Carries(0, e.inv) /\ Goto(h, "creating")
    <3>1. e.inv # 1
      BY <1>2, <2>6 DEF Carries
    <3>2. PICK q : q = [r EXCEPT !.pc = "creating"]
      OBVIOUS
    <3>3. q \in Handler /\ q.pc = "creating" /\ q.event = e
      BY <1>2, <3>2 DEF Handler
    <3>4. HandlerSound(q)'
      BY <2>1, <2>2, <3>1, <3>3 DEF HandlerSound
    <3> QED
      BY <1>2, <1>5, <2>1, <2>6, <3>2, <3>3, <3>4, QuietStep
  <2>7. CASE Goto(h, "done")
    <3>1. d \in Handler /\ HandlerSound(d)' /\ handler' = [handler EXCEPT ![h] = d]
      BY <1>10, <2>1, <2>7
    <3> QED
      BY <1>2, <2>1, <3>1, QuietStep
  <2> QED
    BY <2>3, <2>4, <2>5, <2>6, <2>7, FirstPeriod
<1>17. CASE ResolveExpired(h)
  <2>1. /\ UNCHANGED <<stripe, events, sub, row, checkoutExt, faults>>
        /\ r.pc = "taken" /\ e.kind = "expired"
    BY <1>1, <1>17 DEF ResolveExpired, localVars, At, Job
  <2>2. PICK q : q = [r EXCEPT !.pc = "found", !.row = 0]
    OBVIOUS
  <2>3. q \in Handler /\ q.pc = "found" /\ q.row = 0 /\ q.event = e
    BY <1>2, <2>2, FirstPeriod DEF Handler
  <2>4. handler' = [handler EXCEPT ![h] = q]
    BY <1>1, <1>2, <1>17, <2>2 DEF ResolveExpired
  <2>5. HandlerSound(q)'
    BY <1>3, <2>1, <2>3 DEF HandlerSound, EventSound
  <2> QED
    BY <1>2, <2>1, <2>3, <2>4, <2>5, QuietStep
<1>18. ASSUME handler' = [handler EXCEPT ![h] = Idle], events' \subseteq events, faults' \in Nat,
              stripe' = stripe, sub' = sub, row' = row, checkoutExt' = checkoutExt
       PROVE  SyncInv'
  BY <1>4, <1>18, QuietStep
<1>19. CASE CreateInvoice(h)
  <2>1. UNCHANGED <<stripe, events, sub, checkoutExt, faults>> /\ r.pc = "creating"
    BY <1>1, <1>19 DEF CreateInvoice, At
  <2>2. EventSound(e)' /\ e.kind = "invoice" /\ e.inv \in External /\ e.inv # 1
    BY <1>3, <2>1 DEF HandlerSound, EventSound
  <2>3. CASE row' = row /\ handler' = [handler EXCEPT ![h] = Idle]
    BY <1>2, <1>18, <2>1, <2>3
  <2>4. CASE /\ row' = [row EXCEPT ![e.inv] = "DRAFT"]
             /\ handler' = [handler EXCEPT ![h].pc = "found", ![h].row = e.inv]
    <3>1. PICK q : q = [r EXCEPT !.pc = "found", !.row = e.inv]
      OBVIOUS
    <3>2. q \in Handler /\ q.pc = "found" /\ q.row = e.inv /\ q.event = e
      BY <1>2, <2>2, <3>1, FirstPeriod DEF Handler
    <3>3. handler' = [handler EXCEPT ![h] = q]
      BY <1>1, <1>2, <2>4, <3>1
    <3>4. HandlerSound(q)'
      BY <2>2, <3>2 DEF HandlerSound, External
    <3>5. row' \in [Row -> RowStatus] /\ row'[1] = "NONE"
      BY <1>2, <2>2, <2>4, FirstPeriod DEF RowStatus
    <3> QED
      BY <1>2, <2>1, <3>2, <3>3, <3>4, <3>5, ProcessStep
  <2> QED
    BY <1>1, <1>19, <2>3, <2>4 DEF CreateInvoice, Job
<1>20. ASSUME r.pc \in {"found", "writing", "settling"}
       PROVE  /\ EventSound(e) /\ e.kind \in {"invoice", "expired"}
              /\ r.row = 0 => e.inv \in {0, 1}
              /\ r.row # 0 => r.row = e.inv /\ r.row # 1
              /\ NewStatus(h) \in RowStatus
              /\ NewStatus(h) \in {"PAID", "PAST_DUE"} => stripe.period # 0
  <2>1. /\ EventSound(e) /\ e.kind \in {"invoice", "expired"}
        /\ r.row = 0 => e.inv \in {0, 1}
        /\ r.row # 0 => r.row = e.inv /\ r.row # 1
    BY <1>3, <1>20 DEF HandlerSound
  <2>2. r.seen \in RowStatus /\ e.status \in RowStatus
    BY <1>2, <2>1 DEF Handler, EventSound, RowStatus
  <2> QED
    BY <1>1, <2>1, <2>2 DEF NewStatus, Job, EventSound, RowStatus
<1>21. CASE ReadInvoice(h)
  <2>1. UNCHANGED <<stripe, events, sub, row, checkoutExt, faults>> /\ r.pc = "found"
    BY <1>1, <1>21 DEF ReadInvoice, localVars, At
  <2>2. PICK pc \in {"done", "writing"} :
          handler' = [handler EXCEPT ![h].pc = pc, ![h].seen = row[r.row]]
    BY <1>1, <1>21 DEF ReadInvoice
  <2>3. PICK s : s = row[r.row]
    OBVIOUS
  <2>4. PICK q : q = [r EXCEPT !.pc = pc, !.seen = s]
    OBVIOUS
  <2>5. q \in Handler /\ q.pc = pc /\ q.row = r.row /\ q.event = e
    BY <1>2, <2>3, <2>4 DEF Handler
  <2>6. handler' = [handler EXCEPT ![h] = q]
    BY <1>1, <1>2, <2>2, <2>3, <2>4
  <2>7. HandlerSound(q)'
    BY <1>20, <2>1, <2>5 DEF HandlerSound, EventSound
  <2> QED
    BY <1>2, <2>1, <2>5, <2>6, <2>7, QuietStep
<1>22. CASE WriteInvoice(h)
  <2>1. UNCHANGED <<stripe, events, sub, faults>> /\ r.pc = "writing"
    BY <1>1, <1>22 DEF WriteInvoice, At
  <2>2. row' = [row EXCEPT ![r.row] = NewStatus(h)]
    BY <1>1, <1>22 DEF WriteInvoice
  <2>3. row' \in [Row -> RowStatus] /\ row'[1] = "NONE"
    BY <1>2, <1>20, <2>1, <2>2, FirstPeriod DEF Handler
  <2>4. checkoutExt' \in {0, 1}
    BY <1>1, <1>2, <1>20, <1>22, <2>1 DEF WriteInvoice, Job
  <2>5. PICK pc \in {"done", "settling"} : Goto(h, pc)
    BY <1>22 DEF WriteInvoice
  <2>6. PICK q : q = [r EXCEPT !.pc = pc]
    OBVIOUS
  <2>7. q \in Handler /\ q.pc = pc /\ q.row = r.row /\ q.event = e
    BY <1>2, <2>6 DEF Handler
  <2>8. HandlerSound(q)'
    BY <1>20, <2>1, <2>7 DEF HandlerSound, EventSound
  <2> QED
    BY <1>2, <1>5, <2>1, <2>3, <2>4, <2>5, <2>6, <2>7, <2>8, ProcessStep
<1>23. CASE SettleSubscription(h)
  <2>1. /\ UNCHANGED <<stripe, events, row, checkoutExt, faults>>
        /\ r.pc = "settling" /\ Goto(h, "done")
    BY <1>1, <1>23 DEF SettleSubscription, At
  <2>2. r.row \in 0..Periods /\ PeriodOf(r.row) \in 0..Periods
    BY <1>2, FirstPeriod DEF Handler, Row, PeriodOf
  <2>3. sub' \in Subscription /\ (sub'.linked => stripe.period # 0)
                              /\ (sub.linked => sub'.linked)
    <3>1. CASE NewStatus(h) = "PAID"
      <4>1. SetSub("ACTIVE", PeriodOf(r.row))
        BY <1>1, <1>23, <3>1 DEF SettleSubscription
      <4>2. stripe.period # 0
        BY <1>20, <2>1, <3>1
      <4> QED
        BY <2>2, <4>1, <4>2 DEF SetSub, Subscription, LocalStatus
    <3>2. CASE NewStatus(h) = "PAST_DUE"
      <4>1. SetSub("PAST_DUE", sub.period)
        BY <1>23, <3>2 DEF SettleSubscription
      <4>2. stripe.period # 0
        BY <1>20, <2>1, <3>2
      <4> QED
        BY <1>2, <4>1, <4>2 DEF SetSub, Subscription, LocalStatus
    <3>3. CASE NewStatus(h) \notin {"PAID", "PAST_DUE"}
      BY <1>2, <1>23, <2>1, <3>3 DEF SettleSubscription, Subscription, LocalStatus
    <3> QED
      BY <3>1, <3>2, <3>3
  <2>4. d \in Handler /\ HandlerSound(d)' /\ handler' = [handler EXCEPT ![h] = d]
    BY <1>10, <2>1
  <2> QED
    BY <1>2, <2>1, <2>3, <2>4, ProcessStep
<1>24. CASE Finish(h)
  BY <1>2, <1>18, <1>24 DEF Finish, localVars
<1>25. CASE Fail(h)
  BY <1>2, <1>18, <1>25 DEF Fail, Fault, localVars
<1> QED
  BY <1>6, <1>7, <1>8, <1>11, <1>12, <1>14, <1>15, <1>16, <1>17, <1>19, <1>21, <1>22,
     <1>23, <1>24, <1>25 DEF Step

\* Every step of the system preserves the invariant.
LEMMA NextSync == SyncInv /\ [Next]_vars => SyncInv'
<1> SUFFICES ASSUME SyncInv, [Next]_vars PROVE SyncInv'
  OBVIOUS
<1>1. CASE Next
  BY <1>1, StripeStep, HandlerStep DEF Next
<1>2. CASE UNCHANGED vars
  BY <1>2 DEF vars, SyncInv, TypeOK, LinksAreExclusive, EventSound, HandlerSound
<1> QED
  BY <1>1, <1>2

\* Whatever the number of webhook calls, reconcilers and periods, however events
\* are ordered, repeated and interrupted: a Stripe invoice has one row at most and
\* the checkout's row is never taken for a renewal (resolveInvoiceForExternalSync).
THEOREM SyncCorrect == Spec => []SyncInv
  BY InitSync, NextSync, PTL DEF Spec
=============================================================================
