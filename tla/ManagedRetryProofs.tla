------------------------- MODULE ManagedRetryProofs -------------------------
(***************************************************************************)
(* How often a failed renewal is attempted, for any number of workers,     *)
(* webhooks and reconcilers, any schedule and any number of cuts.          *)
(*                                                                         *)
(* The bound on the attempts is a potential: the attempts made so far,     *)
(* with those each cycle under way may still make of the schedule it read  *)
(* and those the next cycle may make, never exceed one schedule for the    *)
(* first failure and one for each restart and each cut.                    *)
(***************************************************************************)
EXTENDS ManagedRetry, FiniteSums, FiniteSetTheorems, TLAPS

Caller == Webhook \cup Reconciler

\* Where a process stands, and what a cycle has read and done by then: what it
\* counts is not more than there were attempts and cuts.
ProcessIsSound(p) ==
  LET h == handler[p] IN
  /\ h.pc \in {"paying", "recording"} => p \in Worker
  /\ h.pc \in {"reading", "writing", "settling"} =>
       h.status \in {"PAID", "PAST_DUE"} /\ (h.status = "PAID" => stripe = "paid")
  /\ h.pc = "writing" /\ h.dunned /\ stripe = "open" => row.status = "PAST_DUE"
  /\ p \in Worker /\ h.pc # "idle" =>
       /\ h.count < Delays
       /\ stripe = "open" =>
            /\ row.status = "PAST_DUE" /\ h.count <= attempts + cuts
            /\ h.pc # "paying" => h.count + 1 <= attempts + cuts
            /\ h.pc = "writing" => h.dunned

AllAreSound == \A p \in Process : ProcessIsSound(p)

\* An open invoice that is past due has a schedule, which follows the attempts.
RowIsSound ==
  /\ row.retry.exhausted <=> row.retry.count >= Delays
  /\ row.retry.count <= Delays
  /\ stripe = "open" => /\ \/ row.status = "PAST_DUE" /\ HasState(row.retry)
                           \/ row.status = "DRAFT" /\ row.retry = Cleared
                        /\ row.retry.count <= attempts + cuts
  /\ events \subseteq {"PAID", "PAST_DUE"} /\ ("PAID" \in events => stripe = "paid")
  /\ \A w \in Worker : holder = w => ~At(w, "idle")

\* Calls that are going to start a schedule under way again: they read the row
\* before it was past due.
Stale == {p \in Caller : At(p, "writing") /\ ~handler[p].dunned /\ Status(p) = "PAST_DUE"}

FewRestarts ==
  /\ restarts < Cardinality(Caller)
  /\ stripe = "open" => IF row.status = "PAST_DUE"
                          THEN restarts + Cardinality(Stale) < Cardinality(Caller)
                          ELSE restarts = 0

\* The attempts that are left to a schedule which a cycle goes on with.
Owed(w) == IF At(w, "idle") THEN 0
           ELSE IF At(w, "paying") THEN Delays - handler[w].count
                                   ELSE Delays - handler[w].count - 1
OwedInAll == SumFunctionOnSet([w \in Worker |-> Owed(w)], Worker)

\* Each cycle under way carries on from its own count; without one under the
\* lease, the next goes on from that of the row.
OwedNext == IF holder = NoOwner THEN Delays - row.retry.count ELSE 0

Allowed == Delays * (1 + restarts + cuts)

WithinSchedule == /\ attempts <= Allowed
                  /\ stripe = "open" => attempts + OwedInAll + OwedNext <= Allowed

RetryIInv == TypeOK /\ AllAreSound /\ RowIsSound /\ FewRestarts /\ WithinSchedule

Forward == /\ stripe = "paid" => stripe' = "paid"
           /\ attempts + cuts <= attempts' + cuts'
           /\ stripe' = "open" /\ row.status = "PAST_DUE" => row'.status = "PAST_DUE"

\* No step leaves the types of the row, the attempts or the callers.
LEMMA TypeStays == TypeOK /\ [Next]_vars => TypeOK'
<1> SUFFICES ASSUME TypeOK, [Next]_vars PROVE TypeOK'
  OBVIOUS
<1> USE RetryAssumption
<1> USE DEF TypeOK, InvoiceRow, RetryState, Handler, InvoiceStatus, SubStatus, rows, Cut, Process
<1>1. CASE BuyerPays \/ RetryFallsDue \/ LeaseLapse \/ UNCHANGED vars
  BY <1>1 DEF BuyerPays, Paid, RetryFallsDue, LeaseLapse, vars
<1>2. CASE Redeliver
  BY <1>2 DEF Redeliver, InvoiceAtStripe
<1>3. ASSUME NEW p \in Process, TakeInvoiceEvent(p) \/ Reconcile(p) \/ Select(p) PROVE TypeOK'
  BY <1>3 DEF TakeInvoiceEvent, Reconcile, Select, AcquireLease, InvoiceAtStripe, Resulting
<1>4. ASSUME NEW p \in Process, PayInvoice(p) PROVE TypeOK'
  BY <1>4 DEF PayInvoice, Paid
<1>5. ASSUME NEW p \in Process, ReadInvoice(p) PROVE TypeOK'
  <2>1. (HasState(row.retry) /\ (Status(p) = "PAID" \/ row.status = "PAST_DUE")) \in BOOLEAN
    OBVIOUS
  <2> QED
    BY <1>5, <2>1 DEF ReadInvoice
<1>6. ASSUME NEW p \in Process, WriteInvoice(p) PROVE TypeOK'
  <2>1. Cleared \in RetryState /\ InitialState \in RetryState /\ row.retry \in RetryState
    BY DEF InitialState, Scheduled, Cleared
  <2>2. \A d \in BOOLEAN : RetryOncePaid(d) \in RetryState /\ RetryOnceFailed(d) \in RetryState
    BY <2>1 DEF RetryOncePaid, RetryOnceFailed
  <2>3. handler[p].dunned \in BOOLEAN
    OBVIOUS
  <2> HIDE DEF RetryState
  <2>4. row' \in InvoiceRow
    BY <1>6, <2>2, <2>3 DEF WriteInvoice
  <2>5. handler' \in [Process -> Handler]
    <3>1. handler' = [handler EXCEPT ![p].pc = "settling", ![p].dunned = FALSE]
      BY <1>6 DEF WriteInvoice
    <3> DEFINE h == handler[p]
    <3>2. h \in Handler
      OBVIOUS
    <3> HIDE DEF h
    <3>3. h = [pc |-> h.pc, status |-> h.status, count |-> h.count, dunned |-> h.dunned]
      BY <3>2
    <3>4. [h EXCEPT !.pc = "settling", !.dunned = FALSE] \in Handler
      BY <3>2, <3>3
    <3> QED
      BY <3>1, <3>4 DEF h
  <2>6. restarts' \in Nat
    BY <1>6 DEF WriteInvoice
  <2>7. UNCHANGED <<stripe, events, sub, holder, attempts, cuts>>
    BY <1>6 DEF WriteInvoice
  <2> QED
    BY <2>4, <2>5, <2>6, <2>7
<1>7. ASSUME NEW p \in Process, SettleSubscription(p) PROVE TypeOK'
  <2>1. /\ Idle \in Handler
        /\ [Idle EXCEPT !.pc = "recording", !.count = handler[p].count] \in Handler
    BY DEF Idle
  <2>2. CASE Failed(p)
    BY <1>7, <2>1, <2>2 DEF SettleSubscription, Failed, Resulting
  <2>3. CASE Done(p)
    BY <1>7, <2>1, <2>3 DEF SettleSubscription, Done, Stop, Resulting
  <2> QED
    BY <1>7, <2>2, <2>3 DEF SettleSubscription
<1>8. ASSUME NEW p \in Process, RecordAttempt(p) PROVE TypeOK'
  <2>1. handler[p].count + 1 \in Nat
    OBVIOUS
  <2>2. AfterAttempt(handler[p].count) \in RetryState
    BY <2>1 DEF AfterAttempt, Scheduled
  <2>3. row' \in InvoiceRow
    BY <1>8, <2>2 DEF RecordAttempt
  <2> QED
    BY <1>8, <2>3 DEF RecordAttempt, Done, Stop, Idle
<1>9. ASSUME NEW p \in Process, FailAttempt(p) PROVE TypeOK'
  <2>1. [Idle EXCEPT !.pc = "recording", !.count = handler[p].count] \in Handler
    BY DEF Idle
  <2> QED
    BY <1>9, <2>1 DEF FailAttempt, Failed
<1>10. ASSUME NEW p \in Process, Crash(p) PROVE TypeOK'
  BY <1>10 DEF Crash, Stop, Idle
<1> QED
  BY <1>1, <1>2, <1>3, <1>4, <1>5, <1>6, <1>7, <1>8, <1>9, <1>10 DEF Next, Step

\* A step of one process leaves the others where they are.
LEMMA OneMoves ==
  ASSUME TypeOK, NEW p \in Process, Step(p) \/ FailAttempt(p) \/ Crash(p)
  PROVE  \A q \in Process \ {p} : handler'[q] = handler[q]
<1>1. CASE TakeInvoiceEvent(p) \/ Reconcile(p) \/ Select(p)
  BY <1>1 DEF TakeInvoiceEvent, Reconcile, Select, AcquireLease, TypeOK
<1>2. CASE PayInvoice(p)
  BY <1>2 DEF PayInvoice, TypeOK
<1>3. CASE ReadInvoice(p) \/ WriteInvoice(p)
  BY <1>3 DEF ReadInvoice, WriteInvoice, TypeOK
<1>4. CASE RecordAttempt(p) \/ SettleSubscription(p) \/ FailAttempt(p) \/ Crash(p)
  BY <1>4 DEF RecordAttempt, SettleSubscription, FailAttempt, Crash, Failed, Done, Stop, TypeOK
<1> QED
  BY <1>1, <1>2, <1>3, <1>4 DEF Step

\* The fields of a process that has read the row, or written it.
LEMMA Reads ==
  ASSUME TypeOK, NEW p \in Process, ReadInvoice(p)
  PROVE  /\ handler'[p].pc = "writing" /\ handler'[p].status = Status(p)
         /\ handler'[p].count = handler[p].count
         /\ handler'[p].dunned = (HasState(row.retry) /\ (Status(p) = "PAID" \/ row.status = "PAST_DUE"))
<1> DEFINE h == handler[p]
           d == HasState(row.retry) /\ (Status(p) = "PAID" \/ row.status = "PAST_DUE")
<1>1. h = [pc |-> h.pc, status |-> h.status, count |-> h.count, dunned |-> h.dunned]
  BY DEF TypeOK, Handler
<1>2. handler' = [handler EXCEPT ![p].pc = "writing", ![p].dunned = d]
  BY DEF ReadInvoice
<1>3. handler'[p] = [h EXCEPT !.pc = "writing", !.dunned = d]
  <2> HIDE DEF d
  <2> QED
    BY <1>2 DEF TypeOK
<1> HIDE DEF h, d
<1>4. handler'[p] = [pc |-> "writing", status |-> h.status, count |-> h.count, dunned |-> d]
  BY <1>1, <1>3
<1>5. /\ handler'[p].pc = "writing" /\ handler'[p].status = h.status
      /\ handler'[p].count = h.count /\ handler'[p].dunned = d
  BY <1>4
<1> QED
  BY <1>5 DEF h, d, Status

\* The fields of a process that has just written the row, or given up.
LEMMA Writes ==
  ASSUME TypeOK, NEW p \in Process, WriteInvoice(p)
  PROVE  /\ handler'[p].pc = "settling" /\ handler'[p].status = Status(p)
         /\ handler'[p].count = handler[p].count /\ ~handler'[p].dunned
<1> DEFINE h == handler[p]
<1>1. h = [pc |-> h.pc, status |-> h.status, count |-> h.count, dunned |-> h.dunned]
  BY DEF TypeOK, Handler
<1>2. handler' = [handler EXCEPT ![p].pc = "settling", ![p].dunned = FALSE]
  BY DEF WriteInvoice
<1>3. handler'[p] = [h EXCEPT !.pc = "settling", !.dunned = FALSE]
  BY <1>2 DEF TypeOK
<1> HIDE DEF h
<1>4. handler'[p] = [pc |-> "settling", status |-> h.status, count |-> h.count, dunned |-> FALSE]
  BY <1>1, <1>3
<1>5. /\ handler'[p].pc = "settling" /\ handler'[p].status = h.status
      /\ handler'[p].count = h.count /\ ~handler'[p].dunned
  BY <1>4
<1> QED
  BY <1>5 DEF h, Status

\* What cannot be taken back.
LEMMA OnwardOnly == TypeOK /\ AllAreSound /\ [Next]_vars => Forward
<1> SUFFICES ASSUME TypeOK, AllAreSound, [Next]_vars PROVE Forward
  OBVIOUS
<1> USE DEF Forward, rows, Cut
<1>0. attempts \in Nat /\ cuts \in Nat
  BY RetryAssumption DEF TypeOK
<1>1. CASE BuyerPays \/ LeaseLapse \/ Redeliver \/ UNCHANGED vars
  BY <1>0, <1>1 DEF BuyerPays, Paid, LeaseLapse, Redeliver, vars
<1>2. CASE RetryFallsDue
  BY <1>0, <1>2 DEF RetryFallsDue, TypeOK, InvoiceRow
<1>3. ASSUME NEW p \in Process, TakeInvoiceEvent(p) \/ Reconcile(p) \/ Select(p) \/ ReadInvoice(p)
      PROVE  Forward
  BY <1>0, <1>3 DEF TakeInvoiceEvent, Reconcile, Select, AcquireLease, ReadInvoice
<1>4. ASSUME NEW p \in Process, PayInvoice(p) PROVE Forward
  BY <1>0, <1>4 DEF PayInvoice, Paid
<1>5. ASSUME NEW p \in Process, WriteInvoice(p) PROVE Forward
  <2>1. Status(p) = "PAID" => stripe = "paid"
    BY <1>5 DEF WriteInvoice, AllAreSound, ProcessIsSound, At, Status
  <2> QED
    BY <1>0, <1>5, <2>1 DEF WriteInvoice
<1>6. ASSUME NEW p \in Process, RecordAttempt(p) PROVE Forward
  BY <1>0, <1>6 DEF RecordAttempt, TypeOK, InvoiceRow
<1>7. ASSUME NEW p \in Process, SettleSubscription(p) \/ FailAttempt(p) \/ Crash(p) PROVE Forward
  BY <1>0, <1>7 DEF SettleSubscription, FailAttempt, Crash
<1> QED
  BY <1>1, <1>2, <1>3, <1>4, <1>5, <1>6, <1>7 DEF Next, Step
\* What was counted before stays below the attempts and cuts there are by now.
LEMMA CountsCarryOver ==
  ASSUME NEW n \in Nat, NEW a \in Nat, NEW b \in Nat, NEW c \in Nat, NEW d \in Nat,
         n <= a + b, a + b <= c + d
  PROVE  n <= c + d
<1> DEFINE before == a + b
           now == c + d
<1>1. before \in Nat /\ now \in Nat /\ n <= before /\ before <= now
  OBVIOUS
<1> HIDE DEF before, now
<1>2. n <= now
  BY <1>1
<1> QED
  BY <1>2 DEF now

\* What is known of a process survives the steps of others.
LEMMA OthersStaySound ==
  ASSUME TypeOK, TypeOK', Forward, NEW q \in Process, ProcessIsSound(q), handler'[q] = handler[q]
  PROVE  ProcessIsSound(q)'
<1> DEFINE h == handler[q]
<1>1. /\ attempts \in Nat /\ cuts \in Nat /\ attempts' \in Nat /\ cuts' \in Nat
      /\ h.count \in Nat /\ stripe \in {"open", "paid"}
  BY RetryAssumption DEF TypeOK, Handler
<1>2. stripe' = "open" => stripe = "open"
  BY <1>1 DEF Forward
<1>3. handler'[q] = h
  OBVIOUS
<1> HIDE DEF h
<1>4. /\ h.pc \in {"paying", "recording"} => q \in Worker
      /\ h.pc \in {"reading", "writing", "settling"} =>
           h.status \in {"PAID", "PAST_DUE"} /\ (h.status = "PAID" => stripe' = "paid")
      /\ h.pc = "writing" /\ h.dunned /\ stripe' = "open" => row'.status = "PAST_DUE"
  BY <1>2 DEF ProcessIsSound, Forward, h
<1>5. ASSUME q \in Worker, h.pc # "idle"
      PROVE  /\ h.count < Delays
             /\ stripe' = "open" =>
                  /\ row'.status = "PAST_DUE" /\ h.count <= attempts' + cuts'
                  /\ h.pc # "paying" => h.count + 1 <= attempts' + cuts'
                  /\ h.pc = "writing" => h.dunned
  <2>1. /\ h.count < Delays
        /\ stripe = "open" =>
                  /\ row.status = "PAST_DUE" /\ h.count <= attempts + cuts
                  /\ h.pc # "paying" => h.count + 1 <= attempts + cuts
                  /\ h.pc = "writing" => h.dunned
    BY <1>5 DEF ProcessIsSound, h
  <2>2. \A n \in Nat : n <= attempts + cuts => n <= attempts' + cuts'
    BY <1>1, CountsCarryOver DEF Forward
  <2>3. ASSUME stripe' = "open" PROVE h.count <= attempts' + cuts'
    <3>1. h.count <= attempts + cuts
      BY <1>2, <2>1, <2>3
    <3> QED
      BY <1>1, <2>2, <3>1
  <2>4. ASSUME stripe' = "open", h.pc # "paying" PROVE h.count + 1 <= attempts' + cuts'
    <3>1. h.count + 1 <= attempts + cuts
      BY <1>2, <2>1, <2>4
    <3>2. h.count + 1 \in Nat
      BY <1>1
    <3> QED
      BY <2>2, <3>1, <3>2
  <2>5. stripe' = "open" => row'.status = "PAST_DUE" /\ (h.pc = "writing" => h.dunned)
    BY <1>2, <2>1 DEF Forward
  <2> QED
    BY <2>1, <2>3, <2>4, <2>5
<1> QED
  BY <1>3, <1>4, <1>5 DEF ProcessIsSound

\* An idle process is sound, and so is a cycle that has only its count to write.
LEMMA RestingIsSound ==
  ASSUME NEW q \in Process, At(q, "idle")' PROVE ProcessIsSound(q)'
BY DEF ProcessIsSound, At

\* A cycle that has only its count to write (recordRetryFailure) is sound once
\* its attempt, or the cut that hid the answer, has been counted.
LEMMA RecordingIsSound ==
  ASSUME NEW q \in Worker, At(q, "recording")',
         handler'[q].count = handler[q].count, handler[q].count < Delays,
         handler[q].count \in Nat,
         stripe' = "open" => /\ row'.status = "PAST_DUE"
                             /\ handler[q].count + 1 <= attempts' + cuts',
         attempts' \in Nat, cuts' \in Nat
  PROVE  ProcessIsSound(q)'
BY DEF ProcessIsSound, At

\* What a process has read and counted stays true of the row and of Stripe
\* through every step, its own and those of the others.
LEMMA SoundStays ==
  TypeOK /\ TypeOK' /\ AllAreSound /\ RowIsSound /\ [Next]_vars => AllAreSound'
<1> SUFFICES ASSUME TypeOK, TypeOK', AllAreSound, RowIsSound, [Next]_vars PROVE AllAreSound'
  OBVIOUS
<1>1. Forward
  BY OnwardOnly
<1>2. /\ attempts \in Nat /\ cuts \in Nat /\ attempts' \in Nat /\ cuts' \in Nat
      /\ \A q \in Process : handler[q].count \in Nat
      /\ stripe \in {"open", "paid"}
  BY RetryAssumption DEF TypeOK, Handler
<1>3. ASSUME NEW p \in Process, Step(p) \/ FailAttempt(p) \/ Crash(p), ProcessIsSound(p)'
      PROVE  AllAreSound'
  BY <1>1, <1>3, OneMoves, OthersStaySound DEF AllAreSound, Process
<1>4. CASE handler' = handler
  BY <1>1, <1>4, OthersStaySound DEF AllAreSound, Process
<1>5. CASE BuyerPays \/ RetryFallsDue \/ LeaseLapse \/ Redeliver \/ UNCHANGED vars
  BY <1>4, <1>5 DEF BuyerPays, RetryFallsDue, LeaseLapse, Redeliver, vars
<1>6. ASSUME NEW p \in Process, ProcessIsSound(p), TakeInvoiceEvent(p) PROVE ProcessIsSound(p)'
  <2>1. p \notin Worker
    BY <1>6, RetryAssumption DEF TakeInvoiceEvent
  <2>2. PICK s \in events : handler' = [handler EXCEPT ![p].pc = "reading", ![p].status = s]
    BY <1>6 DEF TakeInvoiceEvent
  <2>3. handler'[p].pc = "reading" /\ handler'[p].status = s
    BY <2>2 DEF TypeOK, Handler
  <2> QED
    BY <1>6, <2>1, <2>3 DEF TakeInvoiceEvent, ProcessIsSound, RowIsSound
<1>7. ASSUME NEW p \in Process, ProcessIsSound(p), Reconcile(p) PROVE ProcessIsSound(p)'
  <2>1. p \notin Worker
    BY <1>7, RetryAssumption DEF Reconcile
  <2>2. handler'[p].pc = "reading" /\ handler'[p].status = InvoiceAtStripe
    BY <1>7 DEF Reconcile, TypeOK, Handler
  <2> QED
    BY <1>7, <2>1, <2>2 DEF Reconcile, ProcessIsSound, InvoiceAtStripe
<1>8. ASSUME NEW p \in Process, ProcessIsSound(p), Select(p) PROVE ProcessIsSound(p)'
  <2>1. handler'[p].pc = "paying" /\ handler'[p].count = row.retry.count
    BY <1>8 DEF Select, TypeOK, Handler
  <2>2. row.retry.count < Delays /\ row.status = "PAST_DUE"
    <3>1. row.retry.count \in Nat
      BY DEF TypeOK, InvoiceRow, RetryState
    <3> QED
      BY <1>8, <3>1, RetryAssumption DEF Select, DueForRetry, RowIsSound
  <2>3. stripe' = "open" => row'.status = "PAST_DUE" /\ row.retry.count <= attempts' + cuts'
    BY <1>8, <2>2 DEF Select, RowIsSound, rows
  <2>4. p \in Worker
    BY <1>8 DEF Select
  <2> QED
    BY <2>1, <2>2, <2>3, <2>4 DEF ProcessIsSound
<1>9. ASSUME NEW p \in Process, ProcessIsSound(p), PayInvoice(p) PROVE ProcessIsSound(p)'
  <2>1. p \in Worker /\ handler[p].count < Delays /\ handler[p].count \in Nat
    BY <1>2, <1>9 DEF PayInvoice, ProcessIsSound, At
  <2>2. handler'[p].count = handler[p].count
    BY <1>9 DEF PayInvoice, TypeOK, Handler
  <2>3. /\ handler'[p].pc \in {"reading", "recording"}
        /\ handler'[p].pc = "reading" =>
             \/ handler'[p].status = "PAST_DUE"
             \/ handler'[p].status = "PAID" /\ stripe' = "paid"
    BY <1>9 DEF PayInvoice, TypeOK, Handler, Paid
  <2>4. stripe' = "open" =>
          /\ row'.status = "PAST_DUE" /\ handler[p].count + 1 <= attempts' + cuts'
    <3>1. stripe' = "open" => stripe = "open"
      BY <1>1, <1>2 DEF Forward
    <3> QED
      BY <1>2, <1>9, <2>1, <3>1 DEF PayInvoice, ProcessIsSound, At, rows
  <2> QED
    BY <1>2, <2>1, <2>2, <2>3, <2>4 DEF ProcessIsSound
<1>10. ASSUME NEW p \in Process, ProcessIsSound(p), ReadInvoice(p) PROVE ProcessIsSound(p)'
  <2>1. /\ handler'[p].pc = "writing" /\ handler'[p].status = Status(p)
        /\ handler'[p].count = handler[p].count
        /\ handler'[p].dunned = (HasState(row.retry) /\ (Status(p) = "PAID" \/ row.status = "PAST_DUE"))
    BY <1>10, Reads
  <2>2. /\ Status(p) \in {"PAID", "PAST_DUE"} /\ (Status(p) = "PAID" => stripe = "paid")
        /\ UNCHANGED <<stripe, row, attempts, cuts>>
    BY <1>10 DEF ReadInvoice, ProcessIsSound, At, Status, rows
  <2>3. handler'[p].dunned /\ stripe = "open" => row.status = "PAST_DUE"
    BY <2>1, <2>2
  <2>4. p \in Worker => /\ handler[p].count < Delays
                        /\ stripe = "open" =>
                             /\ row.status = "PAST_DUE" /\ HasState(row.retry)
                             /\ handler[p].count + 1 <= attempts + cuts
    BY <1>10 DEF ReadInvoice, ProcessIsSound, RowIsSound, At
  <2>5. p \in Worker /\ stripe = "open" => handler'[p].dunned
    BY <2>1, <2>4
  <2> QED
    BY <1>2, <2>1, <2>2, <2>3, <2>4, <2>5 DEF ProcessIsSound
<1>11. ASSUME NEW p \in Process, ProcessIsSound(p), WriteInvoice(p) PROVE ProcessIsSound(p)'
  <2>1. /\ handler'[p].pc = "settling" /\ handler'[p].status = Status(p)
        /\ handler'[p].count = handler[p].count
    BY <1>11, Writes
  <2>2. /\ Status(p) \in {"PAID", "PAST_DUE"} /\ (Status(p) = "PAID" => stripe = "paid")
        /\ UNCHANGED <<stripe, attempts, cuts>>
    BY <1>11 DEF WriteInvoice, ProcessIsSound, At, Status
  <2>3. p \in Worker => /\ handler[p].count < Delays
                        /\ stripe = "open" =>
                             /\ row.status = "PAST_DUE"
                             /\ handler[p].count + 1 <= attempts + cuts
    BY <1>11 DEF WriteInvoice, ProcessIsSound, At
  <2> QED
    BY <1>1, <1>2, <2>1, <2>2, <2>3 DEF ProcessIsSound, Forward
<1>12. ASSUME NEW p \in Process, ProcessIsSound(p), SettleSubscription(p) PROVE ProcessIsSound(p)'
  <2>1. CASE p \in Worker /\ Failed(p)
    <3>1. handler'[p].pc = "recording" /\ handler'[p].count = handler[p].count
      BY <2>1 DEF Failed, TypeOK, Handler, Idle
    <3>2. /\ handler[p].count < Delays
          /\ stripe' = "open" => /\ row'.status = "PAST_DUE"
                                 /\ handler[p].count + 1 <= attempts' + cuts'
      BY <1>12, <2>1 DEF SettleSubscription, ProcessIsSound, At
    <3> QED
      BY <1>2, <2>1, <3>1, <3>2, RecordingIsSound DEF At
  <2>2. CASE Done(p)
    BY <2>2, RestingIsSound DEF Done, Stop, At, Idle, TypeOK
  <2> QED
    BY <1>12, <2>1, <2>2 DEF SettleSubscription
<1>13. ASSUME NEW p \in Process, RecordAttempt(p) \/ Crash(p) PROVE ProcessIsSound(p)'
  BY <1>13, RestingIsSound DEF RecordAttempt, Crash, Done, Stop, At, Idle, TypeOK
<1>14. ASSUME NEW p \in Process, ProcessIsSound(p), FailAttempt(p) PROVE ProcessIsSound(p)'
  <2>1. handler'[p].pc = "recording" /\ handler'[p].count = handler[p].count
    BY <1>14 DEF FailAttempt, Failed, TypeOK, Handler, Idle
  <2>2. /\ p \in Worker /\ handler[p].count < Delays
        /\ stripe' = "open" => row'.status = "PAST_DUE" /\ handler[p].count <= attempts + cuts
        /\ attempts' = attempts /\ cuts' = cuts + 1
    BY <1>14 DEF FailAttempt, ProcessIsSound, rows, Cut
  <2>3. stripe' = "open" => /\ row'.status = "PAST_DUE"
                            /\ handler[p].count + 1 <= attempts' + cuts'
    BY <1>2, <2>2
  <2> QED
    BY <1>2, <2>1, <2>2, <2>3, RecordingIsSound DEF At
<1>15. ASSUME NEW p \in Process, Step(p) PROVE ProcessIsSound(p)'
  BY <1>6, <1>7, <1>8, <1>9, <1>10, <1>11, <1>12, <1>13, <1>15 DEF Step, AllAreSound
<1> QED
  BY <1>3, <1>5, <1>13, <1>14, <1>15 DEF Next, AllAreSound
\* What the policy makes of a count.
LEMMA SchedulesAreSound ==
  /\ \A n \in Nat : n < Delays => /\ AfterAttempt(n).count = n + 1
                                  /\ AfterAttempt(n).exhausted <=> n + 1 >= Delays
                                  /\ HasState(AfterAttempt(n))
  /\ InitialState.count = 0 /\ ~InitialState.exhausted /\ HasState(InitialState)
  /\ Cleared.count = 0 /\ ~Cleared.exhausted
<1>1. ASSUME NEW n \in Nat, n < Delays
      PROVE  /\ AfterAttempt(n).count = n + 1
             /\ AfterAttempt(n).exhausted <=> n + 1 >= Delays
             /\ HasState(AfterAttempt(n))
  <2>1. AfterAttempt(n).count = n + 1 /\ n + 1 # 0
    BY <1>1 DEF AfterAttempt, Scheduled
  <2>2. AfterAttempt(n).exhausted = (n + 1 >= Delays)
    BY Zenon DEF AfterAttempt, Scheduled
  <2>3. HasState(AfterAttempt(n))
    BY <2>1 DEF HasState, Cleared
  <2> QED
    BY <2>1, <2>2, <2>3
<1>2. InitialState.count = 0 /\ ~InitialState.exhausted /\ HasState(InitialState)
  <2>1. 0 < Delays /\ ~(0 >= Delays)
    BY RetryAssumption
  <2>2. InitialState.count = 0 /\ InitialState.next = "ahead" /\ InitialState.exhausted = (0 >= Delays)
    BY <2>1, Zenon DEF InitialState, Scheduled
  <2>3. HasState(InitialState)
    BY <2>2 DEF HasState, Cleared
  <2> QED
    BY <2>1, <2>2, <2>3
<1>3. Cleared.count = 0 /\ ~Cleared.exhausted
  BY DEF Cleared
<1> QED
  BY <1>1, <1>2, <1>3

\* The three parts of RowIsSound.
CountIsSound == /\ row.retry.exhausted <=> row.retry.count >= Delays
                /\ row.retry.count <= Delays
OpenIsSound == stripe = "open" =>
                 /\ \/ row.status = "PAST_DUE" /\ HasState(row.retry)
                    \/ row.status = "DRAFT" /\ row.retry = Cleared
                 /\ row.retry.count <= attempts + cuts
HolderIsAtWork == \A w \in Worker : holder = w => ~At(w, "idle")

\* Whatever writes the row keeps the schedule of an open invoice in step with
\* the attempts that were made or cut off.
LEMMA ScheduleOfRowStays ==
  TypeOK /\ TypeOK' /\ AllAreSound /\ RowIsSound /\ [Next]_vars => CountIsSound' /\ OpenIsSound'
<1> SUFFICES ASSUME TypeOK, TypeOK', AllAreSound, RowIsSound, [Next]_vars
             PROVE  CountIsSound' /\ OpenIsSound'
  OBVIOUS
<1>1. Forward
  BY OnwardOnly
<1>2. /\ attempts \in Nat /\ cuts \in Nat /\ attempts' \in Nat /\ cuts' \in Nat
      /\ \A q \in Process : handler[q].count \in Nat
      /\ stripe \in {"open", "paid"} /\ Delays \in Nat \ {0}
      /\ row.retry.count \in Nat
      /\ stripe' = "open" => stripe = "open"
  <2>1. row.retry.count \in Nat
    BY DEF TypeOK, InvoiceRow, RetryState
  <2> QED
    BY <1>1, <2>1, RetryAssumption DEF TypeOK, Handler, Forward
<1>3. CountIsSound /\ OpenIsSound
  BY DEF RowIsSound, CountIsSound, OpenIsSound
<1>4. ASSUME row' = row PROVE CountIsSound' /\ OpenIsSound'
  <2>1. CountIsSound'
    BY <1>3, <1>4 DEF CountIsSound
  <2>2. ASSUME stripe = "open" PROVE row.retry.count <= attempts' + cuts'
    <3>1. row.retry.count <= attempts + cuts
      BY <1>3, <2>2 DEF OpenIsSound
    <3>2. attempts + cuts <= attempts' + cuts'
      BY <1>1 DEF Forward
    <3> QED
      BY <1>2, <3>1, <3>2, CountsCarryOver
  <2> QED
    BY <1>2, <1>3, <1>4, <2>1, <2>2 DEF OpenIsSound
<1>5. CASE RetryFallsDue
  <2>1. /\ row' = [row EXCEPT !.retry.next = "due"]
        /\ UNCHANGED <<stripe, attempts, cuts>>
    BY <1>5 DEF RetryFallsDue
  <2>2. /\ row'.status = row.status
        /\ row'.retry = [row.retry EXCEPT !.next = "due"]
    BY <2>1 DEF TypeOK, InvoiceRow
  <2>3. /\ row'.retry.count = row.retry.count /\ row'.retry.exhausted = row.retry.exhausted
        /\ row'.retry.next = "due"
    BY <2>2 DEF TypeOK, InvoiceRow, RetryState
  <2>4. HasState(row'.retry) /\ row.retry # Cleared
    BY <1>5, <2>3 DEF HasState, Cleared, RetryFallsDue
  <2> QED
    BY <1>3, <2>1, <2>2, <2>3, <2>4 DEF CountIsSound, OpenIsSound
<1>6. ASSUME NEW p \in Process, WriteInvoice(p) PROVE CountIsSound' /\ OpenIsSound'
  <2> DEFINE d == handler[p].dunned
  <2>1. /\ Status(p) \in {"PAID", "PAST_DUE"} /\ (Status(p) = "PAID" => stripe = "paid")
        /\ d /\ stripe = "open" => row.status = "PAST_DUE"
        /\ UNCHANGED <<stripe, attempts, cuts>>
    BY <1>6 DEF WriteInvoice, AllAreSound, ProcessIsSound, At, Status
  <2>2. CASE Status(p) = "PAID"
    <3>1. row' = [status |-> "PAID", retry |-> RetryOncePaid(d)] /\ stripe' # "open"
      BY <1>6, <2>1, <2>2 DEF WriteInvoice
    <3>2. row'.retry \in {Cleared, row.retry}
      BY <3>1 DEF RetryOncePaid
    <3> QED
      BY <1>2, <1>3, <3>1, <3>2, SchedulesAreSound DEF CountIsSound, OpenIsSound
  <2>3. CASE Status(p) # "PAID"
    <3>1. row' = [status |-> "PAST_DUE", retry |-> RetryOnceFailed(d)]
      BY <1>6, <2>3 DEF WriteInvoice
    <3>2. /\ row'.status = "PAST_DUE"
          /\ \/ d /\ row'.retry = row.retry
             \/ row'.retry = InitialState
      BY <3>1 DEF RetryOnceFailed
    <3>3. d /\ stripe = "open" => HasState(row.retry)
      BY <1>3, <2>1 DEF OpenIsSound
    <3>4. CASE d /\ row'.retry = row.retry
      BY <1>3, <2>1, <3>2, <3>3, <3>4 DEF CountIsSound, OpenIsSound
    <3>5. CASE row'.retry = InitialState
      BY <1>2, <2>1, <3>2, <3>5, SchedulesAreSound DEF CountIsSound, OpenIsSound
    <3> QED
      BY <3>2, <3>4, <3>5
  <2> QED
    BY <2>2, <2>3
<1>7. ASSUME NEW p \in Process, RecordAttempt(p) PROVE CountIsSound' /\ OpenIsSound'
  <2> DEFINE n == handler[p].count
  <2>1. /\ n < Delays /\ n \in Nat
        /\ stripe = "open" => row.status = "PAST_DUE" /\ n + 1 <= attempts + cuts
        /\ UNCHANGED <<stripe, attempts, cuts>>
    BY <1>2, <1>7 DEF RecordAttempt, AllAreSound, ProcessIsSound, At
  <2>2. row'.status = row.status /\ row'.retry = AfterAttempt(n)
    BY <1>7 DEF RecordAttempt, TypeOK, InvoiceRow
  <2> HIDE DEF n
  <2>3. /\ row'.retry.count = n + 1
        /\ row'.retry.exhausted <=> n + 1 >= Delays
        /\ HasState(row'.retry)
    BY <2>1, <2>2, SchedulesAreSound
  <2>4. n + 1 <= Delays
    BY <1>2, <2>1
  <2> QED
    BY <2>1, <2>2, <2>3, <2>4 DEF CountIsSound, OpenIsSound
<1>8. ASSUME NEW p \in Process,
             \/ TakeInvoiceEvent(p) \/ Reconcile(p) \/ Select(p) \/ PayInvoice(p)
             \/ ReadInvoice(p) \/ SettleSubscription(p) \/ FailAttempt(p) \/ Crash(p)
      PROVE  row' = row
  BY <1>8 DEF TakeInvoiceEvent, Reconcile, Select, AcquireLease, PayInvoice, ReadInvoice,
              SettleSubscription, FailAttempt, Crash, rows
<1>9. BuyerPays \/ LeaseLapse \/ Redeliver \/ UNCHANGED vars => row' = row
  BY DEF BuyerPays, LeaseLapse, Redeliver, rows, vars
<1> QED
  BY <1>4, <1>5, <1>6, <1>7, <1>8, <1>9 DEF Next, Step

\* A PAID event is in flight only once Stripe has been paid.
LEMMA EventsAreTrue ==
  TypeOK /\ RowIsSound /\ [Next]_vars =>
    events' \subseteq {"PAID", "PAST_DUE"} /\ ("PAID" \in events' => stripe' = "paid")
<1> SUFFICES ASSUME TypeOK, RowIsSound, [Next]_vars
             PROVE  events' \subseteq {"PAID", "PAST_DUE"} /\ ("PAID" \in events' => stripe' = "paid")
  OBVIOUS
<1>1. events \subseteq {"PAID", "PAST_DUE"} /\ ("PAID" \in events => stripe = "paid")
  BY DEF RowIsSound
<1>2. CASE BuyerPays
  BY <1>1, <1>2 DEF BuyerPays, Paid
<1>3. CASE Redeliver
  BY <1>1, <1>3 DEF Redeliver, InvoiceAtStripe
<1>4. ASSUME NEW p \in Process, PayInvoice(p)
      PROVE  events' \subseteq {"PAID", "PAST_DUE"} /\ ("PAID" \in events' => stripe' = "paid")
  BY <1>1, <1>4 DEF PayInvoice, Paid
<1>5. ASSUME NEW p \in Process, SettleSubscription(p) \/ RecordAttempt(p)
      PROVE  events' \subseteq events /\ stripe' = stripe
  BY <1>5 DEF SettleSubscription, RecordAttempt, Failed, Done
<1>6. ASSUME NEW p \in Process,
             \/ TakeInvoiceEvent(p) \/ Reconcile(p) \/ Select(p) \/ ReadInvoice(p)
             \/ WriteInvoice(p) \/ FailAttempt(p) \/ Crash(p)
      PROVE  UNCHANGED <<events, stripe>>
  BY <1>6 DEF TakeInvoiceEvent, Reconcile, Select, AcquireLease, ReadInvoice, WriteInvoice, FailAttempt, Failed, Crash
<1>7. RetryFallsDue \/ LeaseLapse \/ UNCHANGED vars => UNCHANGED <<events, stripe>>
  BY DEF RetryFallsDue, LeaseLapse, vars
<1> QED
  BY <1>1, <1>2, <1>3, <1>4, <1>5, <1>6, <1>7 DEF Next, Step

\* The lease belongs to a worker that is in a cycle, or to nobody.
LEMMA HolderStaysAtWork ==
  TypeOK /\ HolderIsAtWork /\ [Next]_vars => HolderIsAtWork'
<1> SUFFICES ASSUME TypeOK, HolderIsAtWork, [Next]_vars, NEW w \in Worker, holder' = w
             PROVE  handler'[w].pc # "idle"
  BY DEF HolderIsAtWork, At
<1>1. w \in Process /\ (holder = w => handler[w].pc # "idle")
  BY DEF Process, HolderIsAtWork, At
<1>2. CASE UNCHANGED <<holder, handler>>
  BY <1>1, <1>2
<1>3. CASE BuyerPays \/ RetryFallsDue \/ LeaseLapse \/ Redeliver \/ UNCHANGED vars
  BY <1>2, <1>3, RetryAssumption DEF BuyerPays, RetryFallsDue, LeaseLapse, Redeliver, vars
<1>4. ASSUME NEW p \in Process, handler'[p].pc # "idle", holder' \in {holder, p},
             \A q \in Process \ {p} : handler'[q] = handler[q]
      PROVE  handler'[w].pc # "idle"
  <2>1. CASE w = p
    BY <1>4, <2>1
  <2>2. CASE w # p
    BY <1>1, <1>4, <2>2
  <2> QED
    BY <2>1, <2>2
<1>5. ASSUME NEW p \in Process, Stop(p), \A q \in Process \ {p} : handler'[q] = handler[q]
      PROVE  handler'[w].pc # "idle"
  <2>1. holder = w /\ w # p
    BY <1>5, RetryAssumption DEF Stop
  <2> QED
    BY <1>1, <1>5, <2>1
<1>6. ASSUME NEW p \in Process, RecordAttempt(p) \/ Crash(p) \/ (SettleSubscription(p) /\ Done(p))
      PROVE  handler'[w].pc # "idle"
  <2>1. Stop(p)
    BY <1>6 DEF RecordAttempt, Crash, Done
  <2> QED
    BY <1>5, <1>6, <2>1, OneMoves DEF Step
<1>7. ASSUME NEW p \in Process, FailAttempt(p) \/ (SettleSubscription(p) /\ Failed(p))
      PROVE  handler'[w].pc # "idle"
  <2>1. Failed(p)
    BY <1>7 DEF FailAttempt
  <2>2. handler'[p].pc = "recording" /\ holder' = holder
    BY <2>1 DEF Failed, TypeOK, Handler, Idle
  <2> QED
    BY <1>4, <1>7, <2>2, OneMoves DEF Step
<1>8. ASSUME NEW p \in Process, TakeInvoiceEvent(p) \/ Reconcile(p) \/ Select(p) \/ PayInvoice(p)
      PROVE  handler'[w].pc # "idle"
  <2>1. handler'[p].pc # "idle" /\ holder' \in {holder, p}
    <3>1. CASE TakeInvoiceEvent(p) \/ Reconcile(p)
      BY <3>1 DEF TakeInvoiceEvent, Reconcile, TypeOK, Handler
    <3>2. CASE Select(p)
      BY <3>2 DEF Select, AcquireLease, TypeOK, Handler
    <3>3. CASE PayInvoice(p)
      BY <3>3 DEF PayInvoice, TypeOK, Handler
    <3> QED
      BY <1>8, <3>1, <3>2, <3>3
  <2> QED
    BY <1>4, <1>8, <2>1, OneMoves DEF Step
<1>9. ASSUME NEW p \in Process, ReadInvoice(p) PROVE handler'[w].pc # "idle"
  <2>1. holder' = holder
    BY <1>9 DEF ReadInvoice
  <2>2. handler'[p].pc = "writing"
    BY <1>9, Reads
  <2>3. \A q \in Process \ {p} : handler'[q] = handler[q]
    BY <1>9, OneMoves DEF Step
  <2> QED
    BY <1>4, <2>1, <2>2, <2>3
<1>10. ASSUME NEW p \in Process, WriteInvoice(p) PROVE handler'[w].pc # "idle"
  <2>1. holder' = holder
    BY <1>10 DEF WriteInvoice
  <2>2. handler'[p].pc = "settling"
    BY <1>10, Writes
  <2>3. \A q \in Process \ {p} : handler'[q] = handler[q]
    BY <1>10, OneMoves DEF Step
  <2> QED
    BY <1>4, <2>1, <2>2, <2>3
<1>11. ASSUME NEW p \in Process, SettleSubscription(p) PROVE handler'[w].pc # "idle"
  BY <1>6, <1>7, <1>11 DEF SettleSubscription
<1>12. ASSUME NEW p \in Process, Step(p) \/ FailAttempt(p) \/ Crash(p)
       PROVE  handler'[w].pc # "idle"
  <2>1. CASE RecordAttempt(p) \/ Crash(p)
    BY <1>6, <2>1
  <2>2. CASE FailAttempt(p)
    BY <1>7, <2>2
  <2>3. CASE TakeInvoiceEvent(p) \/ Reconcile(p) \/ Select(p) \/ PayInvoice(p)
    BY <1>8, <2>3
  <2> QED
    BY <1>9, <1>10, <1>11, <1>12, <2>1, <2>2, <2>3 DEF Step
<1> QED
  BY <1>3, <1>12 DEF Next

\* The three together: what is known of the row survives every step.
LEMMA RowStays ==
  TypeOK /\ TypeOK' /\ AllAreSound /\ RowIsSound /\ [Next]_vars => RowIsSound'
<1> SUFFICES ASSUME TypeOK, TypeOK', AllAreSound, RowIsSound, [Next]_vars PROVE RowIsSound'
  OBVIOUS
<1>1. CountIsSound' /\ OpenIsSound'
  BY ScheduleOfRowStays
<1>2. HolderIsAtWork'
  BY HolderStaysAtWork DEF RowIsSound, HolderIsAtWork
<1>3. events' \subseteq {"PAID", "PAST_DUE"} /\ ("PAID" \in events' => stripe' = "paid")
  BY EventsAreTrue
<1> QED
  BY <1>1, <1>2, <1>3 DEF RowIsSound, CountIsSound, OpenIsSound, HolderIsAtWork
(* How often a schedule under way is started again. *)

\* The sets that are counted and summed over are finite.
LEMMA CallersAreFinite ==
  /\ IsFiniteSet(Worker) /\ IsFiniteSet(Caller) /\ Cardinality(Caller) \in Nat
  /\ \A S \in SUBSET Caller : /\ IsFiniteSet(S) /\ Cardinality(S) \in Nat
                              /\ Cardinality(S) <= Cardinality(Caller)
                              /\ S # Caller => Cardinality(S) < Cardinality(Caller)
  /\ Cardinality(Caller) > 0
<1>1. IsFiniteSet(Worker) /\ IsFiniteSet(Caller)
  <2>1. Worker \subseteq Process /\ Caller \subseteq Process /\ IsFiniteSet(Process)
    BY RetryAssumption DEF Process, Caller
  <2> QED
    BY <2>1, FS_Subset
<1>2. Cardinality(Caller) \in Nat /\ Cardinality(Caller) > 0
  <2>1. Caller # {}
    BY RetryAssumption DEF Caller
  <2> QED
    BY <1>1, <2>1, FS_CardinalityType, FS_EmptySet
<1>3. ASSUME NEW S \in SUBSET Caller
      PROVE  /\ IsFiniteSet(S) /\ Cardinality(S) \in Nat
             /\ Cardinality(S) <= Cardinality(Caller)
             /\ S # Caller => Cardinality(S) < Cardinality(Caller)
  BY <1>1, FS_Subset, FS_CardinalityType
<1> QED
  BY <1>1, <1>2, <1>3

\* Only one that reads the row is about to write it.
LEMMA WritersHaveRead ==
  ASSUME TypeOK, NEW p \in Process, Step(p) \/ FailAttempt(p) \/ Crash(p),
         handler'[p].pc = "writing"
  PROVE  ReadInvoice(p)
<1>1. CASE TakeInvoiceEvent(p) \/ Reconcile(p) \/ Select(p)
  BY <1>1 DEF TakeInvoiceEvent, Reconcile, Select, TypeOK, Handler
<1>2. CASE PayInvoice(p)
  BY <1>2 DEF PayInvoice, TypeOK, Handler
<1>3. CASE WriteInvoice(p)
  BY <1>3, Writes
<1>4. CASE RecordAttempt(p) \/ SettleSubscription(p) \/ FailAttempt(p) \/ Crash(p)
  <2>1. Stop(p) \/ Failed(p)
    BY <1>4 DEF RecordAttempt, SettleSubscription, FailAttempt, Crash, Done
  <2>2. CASE Stop(p)
    BY <2>2 DEF Stop, TypeOK, Idle
  <2>3. CASE Failed(p)
    BY <2>3 DEF Failed, TypeOK, Idle
  <2> QED
    BY <2>1, <2>2, <2>3
<1> QED
  BY <1>1, <1>2, <1>3, <1>4 DEF Step

\* Once an open invoice is past due, nobody reads it without its schedule.
LEMMA StaleShrinks ==
  TypeOK /\ RowIsSound /\ [Next]_vars /\ stripe = "open" /\ row.status = "PAST_DUE"
    => Stale' \subseteq Stale
<1> SUFFICES ASSUME TypeOK, RowIsSound, [Next]_vars, stripe = "open", row.status = "PAST_DUE",
                    NEW q \in Caller, handler'[q].pc = "writing", ~handler'[q].dunned,
                    handler'[q].status = "PAST_DUE"
             PROVE  q \in Stale
  BY DEF Stale, At, Status
<1>1. CASE handler'[q] = handler[q]
  BY <1>1 DEF Stale, At, Status
<1>2. CASE BuyerPays \/ RetryFallsDue \/ LeaseLapse \/ Redeliver \/ UNCHANGED vars
  BY <1>1, <1>2 DEF BuyerPays, RetryFallsDue, LeaseLapse, Redeliver, vars
<1>3. ASSUME NEW p \in Process, Step(p) \/ FailAttempt(p) \/ Crash(p) PROVE q \in Stale
  <2>1. CASE p # q
    BY <1>1, <1>3, <2>1, OneMoves DEF Process, Caller
  <2>2. CASE p = q
    <3>1. ReadInvoice(p)
      BY <1>3, <2>2, WritersHaveRead
    <3>2. handler'[p].dunned = (HasState(row.retry) /\ (Status(p) = "PAID" \/ row.status = "PAST_DUE"))
      BY <3>1, Reads
    <3>3. HasState(row.retry)
      BY DEF RowIsSound
    <3> QED
      BY <2>2, <3>2, <3>3
  <2> QED
    BY <2>1, <2>2
<1> QED
  BY <1>2, <1>3 DEF Next

\* A write by p as the count of restarts sees it.
LEMMA WriteKeepsFewRestarts ==
  ASSUME TypeOK, TypeOK', AllAreSound, RowIsSound, FewRestarts, Forward, [Next]_vars,
         NEW p \in Process, WriteInvoice(p)
  PROVE  FewRestarts'
<1>1. /\ stripe' = stripe /\ restarts \in Nat
      /\ Status(p) \in {"PAID", "PAST_DUE"} /\ (Status(p) = "PAID" => stripe = "paid")
      /\ p \in Worker /\ stripe = "open" => row.status = "PAST_DUE" /\ handler[p].dunned
      /\ p \notin Worker => p \in Caller
  BY DEF WriteInvoice, AllAreSound, ProcessIsSound, At, Status, TypeOK, Process, Caller
<1>2. Stale' \subseteq Caller \ {p}
  BY Writes DEF Stale, At, Caller
<1>3. CASE stripe # "open"
  <2>1. restarts' = restarts
    BY <1>3 DEF WriteInvoice
  <2> QED
    BY <1>1, <1>3, <2>1 DEF FewRestarts, Caller
<1>4. CASE stripe = "open" /\ row.status # "PAST_DUE"
  <2>1. restarts' = 0 /\ row'.status = "PAST_DUE" /\ p \in Caller
    BY <1>1, <1>4 DEF WriteInvoice, FewRestarts
  <2>2. Stale' \in SUBSET Caller /\ Stale' # Caller
    BY <1>2, <2>1
  <2>3. Cardinality(Stale') \in Nat /\ Cardinality(Stale') < Cardinality(Caller)
    BY <2>2, CallersAreFinite
  <2>4. Caller' = Caller /\ 0 < Cardinality(Caller)
    BY CallersAreFinite DEF Caller
  <2> QED
    BY <2>1, <2>3, <2>4 DEF FewRestarts
<1>5. CASE stripe = "open" /\ row.status = "PAST_DUE"
  <2>1. /\ row'.status = "PAST_DUE" /\ Caller' = Caller
        /\ restarts + Cardinality(Stale) < Cardinality(Caller)
    BY <1>1, <1>5 DEF WriteInvoice, FewRestarts, Caller
  <2>2. Stale' \subseteq Stale /\ Stale \in SUBSET Caller /\ Stale' \in SUBSET Caller
    BY <1>5, StaleShrinks DEF Stale
  <2>3. /\ IsFiniteSet(Stale) /\ Cardinality(Stale) \in Nat /\ Cardinality(Stale') \in Nat
        /\ Cardinality(Stale') <= Cardinality(Stale) /\ Cardinality(Caller) \in Nat
    BY <2>2, CallersAreFinite, FS_Subset
  <2>4. CASE row'.retry = row.retry
    <3>1. restarts' = restarts
      BY <2>4 DEF WriteInvoice
    <3> QED
      BY <1>1, <2>1, <2>3, <3>1 DEF FewRestarts
  <2>5. CASE row'.retry # row.retry
    <3>1. restarts' \in {restarts, restarts + 1}
      BY DEF WriteInvoice
    <3>2. p \in Stale
      <4>1. ~handler[p].dunned
        BY <1>1, <1>5, <2>5 DEF WriteInvoice, RetryOnceFailed
      <4> QED
        BY <1>1, <1>5, <4>1 DEF Stale, WriteInvoice
    <3>3. Stale' # Stale
      BY <1>2, <3>2
    <3>4. Cardinality(Stale') < Cardinality(Stale)
      BY <2>2, <2>3, <3>3, FS_Subset
    <3> QED
      BY <1>1, <2>1, <2>3, <3>1, <3>4 DEF FewRestarts
  <2> QED
    BY <2>4, <2>5
<1> QED
  BY <1>3, <1>4, <1>5

\* Each caller restarts a schedule under way at most once: it must have read the
\* row before the invoice was past due, and after that nobody reads it so.
LEMMA FewRestartsStay ==
  TypeOK /\ TypeOK' /\ AllAreSound /\ RowIsSound /\ RowIsSound' /\ FewRestarts /\ [Next]_vars
    => FewRestarts'
<1> SUFFICES ASSUME TypeOK, TypeOK', AllAreSound, RowIsSound, RowIsSound', FewRestarts, [Next]_vars
             PROVE  FewRestarts'
  OBVIOUS
<1>1. Forward
  BY OnwardOnly
<1>2. stripe' = "open" => stripe = "open"
  BY <1>1 DEF Forward, TypeOK
<1>3. ASSUME restarts' = restarts, row'.status = row.status PROVE FewRestarts'
  <2>1. Caller' = Caller /\ restarts \in Nat
    BY DEF Caller, TypeOK
  <2>2. ASSUME stripe = "open", row.status = "PAST_DUE"
        PROVE  restarts + Cardinality(Stale') < Cardinality(Caller)
    <3>1. Stale' \subseteq Stale /\ Stale \in SUBSET Caller /\ Stale' \in SUBSET Caller
      BY <2>2, StaleShrinks DEF Stale
    <3>2. /\ Cardinality(Stale) \in Nat /\ Cardinality(Stale') \in Nat
          /\ Cardinality(Stale') <= Cardinality(Stale) /\ Cardinality(Caller) \in Nat
      BY <3>1, CallersAreFinite, FS_Subset
    <3> QED
      BY <2>1, <2>2, <3>2 DEF FewRestarts
  <2> QED
    BY <1>2, <1>3, <2>1, <2>2 DEF FewRestarts
<1>4. ASSUME NEW p \in Process, WriteInvoice(p) PROVE FewRestarts'
  BY <1>1, <1>4, WriteKeepsFewRestarts
<1>5. ASSUME NEW p \in Process,
             \/ TakeInvoiceEvent(p) \/ Reconcile(p) \/ Select(p) \/ PayInvoice(p)
             \/ ReadInvoice(p) \/ SettleSubscription(p) \/ FailAttempt(p) \/ Crash(p)
      PROVE  row' = row /\ restarts' = restarts
  BY <1>5 DEF TakeInvoiceEvent, Reconcile, Select, PayInvoice, ReadInvoice,
              SettleSubscription, FailAttempt, Crash, rows
<1>6. BuyerPays \/ LeaseLapse \/ Redeliver \/ UNCHANGED vars => row' = row /\ restarts' = restarts
  BY DEF BuyerPays, LeaseLapse, Redeliver, rows, vars
<1>7. ASSUME NEW p \in Process, RecordAttempt(p) PROVE row'.status = row.status /\ restarts' = restarts
  BY <1>7 DEF RecordAttempt, TypeOK, InvoiceRow
<1>8. RetryFallsDue => row'.status = row.status /\ restarts' = restarts
  BY DEF RetryFallsDue, TypeOK, InvoiceRow
<1> QED
  BY <1>3, <1>4, <1>5, <1>6, <1>7, <1>8 DEF Next, Step
(* What the schedules under way may still cost. *)

OwedBy == [w \in Worker |-> Owed(w)]

\* What a cycle owes by its place and its count.
LEMMA OwedValues ==
  ASSUME TypeOK, AllAreSound, NEW w \in Worker
  PROVE  /\ Owed(w) \in Nat
         /\ At(w, "idle") => Owed(w) = 0
         /\ At(w, "paying") => Owed(w) = Delays - handler[w].count /\ Owed(w) > 0
         /\ handler[w].pc \in {"reading", "writing", "settling", "recording"}
              => Owed(w) = Delays - handler[w].count - 1
<1>1. handler[w].count \in Nat /\ Delays \in Nat
  BY RetryAssumption DEF TypeOK, Handler, Process
<1>2. handler[w].pc # "idle" => handler[w].count < Delays
  BY DEF AllAreSound, ProcessIsSound, Process
<1>3. handler[w].pc \in {"idle", "paying", "reading", "writing", "settling", "recording"}
  BY DEF TypeOK, Handler, Process
<1> QED
  BY <1>1, <1>2, <1>3 DEF Owed, At

OwedIsCounted == \A w \in Worker : Owed(w) \in Nat

\* What a cycle owes is a number, in every state (stated as one definition so
\* that it can be used of the next state too).
LEMMA OwedIsNat == TypeOK /\ AllAreSound => OwedIsCounted
BY OwedValues DEF OwedIsCounted

\* Only what the process that moves owes may change.
LEMMA OwedMoves ==
  ASSUME TypeOK, TypeOK', AllAreSound, AllAreSound', NEW p \in Process,
         \A q \in Process \ {p} : handler'[q] = handler[q]
  PROVE  /\ OwedInAll \in Nat /\ OwedInAll' \in Nat
         /\ p \notin Worker => OwedInAll' = OwedInAll
         /\ p \in Worker => \E rest \in Nat : /\ OwedInAll = rest + Owed(p)
                                              /\ OwedInAll' = rest + Owed(p)'
<1> DEFINE f == OwedBy
           g == [w \in Worker |-> Owed(w)']
<1>1. \A w \in Worker : f[w] = Owed(w) /\ g[w] = Owed(w)' /\ f[w] \in Nat /\ g[w] \in Nat
  <2>1. \A w \in Worker : Owed(w) \in Nat
    BY OwedValues
  <2>2. \A w \in Worker : Owed(w)' \in Nat
    <3>1. TypeOK' /\ AllAreSound'
      OBVIOUS
    <3>2. OwedIsCounted'
      BY <3>1, OwedIsNat, PTL
    <3> QED
      BY <3>2 DEF OwedIsCounted
  <2> QED
    BY <2>1, <2>2 DEF OwedBy
<1>2. OwedInAll = SumFunctionOnSet(f, Worker) /\ OwedInAll' = SumFunctionOnSet(g, Worker)
  BY DEF OwedInAll, OwedBy
<1>3. \A w \in Worker : w # p => g[w] = f[w]
  <2> SUFFICES ASSUME NEW w \in Worker, w # p PROVE Owed(w)' = Owed(w)
    BY <1>1
  <2>1. handler'[w] = handler[w]
    BY DEF Process
  <2> QED
    BY <2>1 DEF Owed, At
<1>4. IsFiniteSet(Worker) /\ Counts(f, Worker) /\ Counts(g, Worker)
  BY <1>1, CallersAreFinite DEF Counts
<1> HIDE DEF f, g
<1>5. OwedInAll \in Nat /\ OwedInAll' \in Nat
  BY <1>2, <1>4, SumType
<1>6. ASSUME p \notin Worker PROVE OwedInAll' = OwedInAll
  <2>1. \A w \in Worker : g[w] = f[w]
    BY <1>3, <1>6
  <2> QED
    BY <1>2, <1>4, <2>1, SumSame
<1>7. ASSUME p \in Worker
      PROVE  \E rest \in Nat : OwedInAll = rest + Owed(p) /\ OwedInAll' = rest + Owed(p)'
  <2> DEFINE T == Worker \ {p}
  <2>1. T \in SUBSET Worker /\ p \in Worker \ T /\ T \cup {p} = Worker
    BY <1>7
  <2>2. IsFiniteSet(T) /\ Counts(f, T) /\ \A w \in T : g[w] = f[w]
    BY <1>3, <1>4, FS_Subset DEF Counts
  <2> HIDE DEF T
  <2>3. /\ SumFunctionOnSet(f, T) \in Nat
        /\ SumFunctionOnSet(f, Worker) = SumFunctionOnSet(f, T) + f[p]
    BY <1>4, <2>1, SumSteps
  <2>4. SumFunctionOnSet(g, Worker) = SumFunctionOnSet(g, T) + g[p]
    BY <1>4, <2>1, SumSteps
  <2>5. SumFunctionOnSet(g, T) = SumFunctionOnSet(f, T)
    BY <2>2, SumSame
  <2> QED
    BY <1>1, <1>2, <1>7, <2>3, <2>4, <2>5
<1> QED
  BY <1>5, <1>6, <1>7

\* A restart or a cut allows one schedule more.
LEMMA AllowedGrows ==
  ASSUME TypeOK, TypeOK'
  PROVE  /\ Allowed \in Nat /\ Allowed' \in Nat
         /\ restarts' = restarts /\ cuts' = cuts => Allowed' = Allowed
         /\ restarts' = restarts /\ cuts' = cuts + 1 => Allowed' = Allowed + Delays
         /\ restarts' = restarts + 1 /\ cuts' = cuts => Allowed' = Allowed + Delays
<1> DEFINE n == 1 + restarts + cuts
<1>1. \A k \in Nat : Delays * k \in Nat /\ Delays * (k + 1) = Delays * k + Delays
  BY RetryAssumption
<1>2. restarts \in Nat /\ cuts \in Nat /\ restarts' \in Nat /\ cuts' \in Nat
  BY RetryAssumption DEF TypeOK
<1>8. \A a, b \in Nat : 1 + a + b \in Nat
  OBVIOUS
<1>3. n \in Nat /\ (1 + restarts' + cuts') \in Nat
  BY <1>2, <1>8
<1>4. Allowed = Delays * n /\ Allowed' = Delays * (1 + restarts' + cuts')
  BY DEF Allowed
<1>5. restarts' = restarts /\ cuts' = cuts => 1 + restarts' + cuts' = n
  OBVIOUS
<1>6. restarts' = restarts /\ cuts' = cuts + 1 => 1 + restarts' + cuts' = n + 1
  BY <1>2
<1>7. restarts' = restarts + 1 /\ cuts' = cuts => 1 + restarts' + cuts' = n + 1
  BY <1>2
<1> HIDE DEF n
<1> QED
  BY <1>1, <1>3, <1>4, <1>5, <1>6, <1>7

\* What the next cycle owes is at most one schedule.
LEMMA OwedNextBounds ==
  ASSUME TypeOK, RowIsSound
  PROVE  OwedNext \in Nat /\ OwedNext <= Delays /\ row.retry.count \in Nat
         /\ (holder = NoOwner => OwedNext = Delays - row.retry.count)
         /\ (holder # NoOwner => OwedNext = 0)
<1>1. row.retry.count \in Nat /\ row.retry.count <= Delays /\ Delays \in Nat
  BY RetryAssumption DEF RowIsSound, TypeOK, InvoiceRow, RetryState
<1> QED
  BY <1>1 DEF OwedNext

\* The same as one implication, to be used of the next state too.
LEMMA OwedNextIsNat == TypeOK /\ RowIsSound => OwedNext \in Nat /\ OwedNext <= Delays
BY OwedNextBounds

\* The arithmetic of a step: what is owed changes by no more than is allowed in
\* addition.
Fits == /\ attempts' <= Allowed'
        /\ stripe' = "open" => attempts' + OwedInAll' + OwedNext' <= Allowed'

\* A step adds to the attempts and to what is still owed no more than the restart
\* or the cut it counts allows in addition.
LEMMA ScheduleStays ==
  /\ TypeOK /\ AllAreSound /\ RowIsSound /\ WithinSchedule
  /\ TypeOK' /\ AllAreSound' /\ RowIsSound'
  /\ [Next]_vars
  => WithinSchedule'
<1> SUFFICES ASSUME TypeOK, AllAreSound, RowIsSound, WithinSchedule,
                    TypeOK', AllAreSound', RowIsSound', [Next]_vars
             PROVE  Fits
  BY DEF WithinSchedule, Fits
<1>1. /\ attempts \in Nat /\ attempts' \in Nat /\ Allowed \in Nat /\ Allowed' \in Nat
      /\ OwedNext \in Nat /\ OwedNext' \in Nat /\ OwedNext' <= Delays
      /\ Delays \in Nat /\ (stripe' = "open" => stripe = "open")
      /\ OwedNext' = IF holder' = NoOwner THEN Delays - row'.retry.count ELSE 0
      /\ OwedNext = IF holder = NoOwner THEN Delays - row.retry.count ELSE 0
      /\ row.retry.count \in Nat /\ row.retry.count <= Delays
      /\ row'.retry.count \in Nat /\ row'.retry.count <= Delays
  <2>1. Forward
    BY OnwardOnly
  <2>2. OwedNext \in Nat
    BY OwedNextIsNat
  <2>3. OwedNext' \in Nat /\ OwedNext' <= Delays
    <3>1. (OwedNext \in Nat /\ OwedNext <= Delays)'
      <4>1. TypeOK' /\ RowIsSound'
        OBVIOUS
      <4> QED
        BY <4>1, OwedNextIsNat, PTL
    <3> QED
      BY <3>1
  <2>4. row.retry.count \in Nat /\ row'.retry.count \in Nat
    BY DEF TypeOK, InvoiceRow, RetryState
  <2>5. row.retry.count <= Delays /\ row'.retry.count <= Delays
    BY DEF RowIsSound
  <2> QED
    BY <2>1, <2>2, <2>3, <2>4, <2>5, AllowedGrows, RetryAssumption DEF TypeOK, Forward, OwedNext
<1>2. /\ attempts <= Allowed
      /\ stripe = "open" => attempts + OwedInAll + OwedNext <= Allowed
  BY DEF WithinSchedule
<1>3. OwedInAll \in Nat /\ OwedInAll' \in Nat
  <2>1. ASSUME NEW p \in Process, \A q \in Process \ {p} : handler'[q] = handler[q]
        PROVE  OwedInAll \in Nat /\ OwedInAll' \in Nat
    BY <2>1, OwedMoves
  <2>2. ASSUME handler' = handler PROVE OwedInAll \in Nat /\ OwedInAll' \in Nat
    <3>1. PICK p : p \in Process
      BY RetryAssumption DEF Process
    <3> QED
      BY <2>1, <2>2, <3>1
  <2>3. BuyerPays \/ RetryFallsDue \/ LeaseLapse \/ Redeliver \/ UNCHANGED vars => handler' = handler
    BY DEF BuyerPays, RetryFallsDue, LeaseLapse, Redeliver, vars
  <2> QED
    BY <2>1, <2>2, <2>3, OneMoves DEF Next
<1>4. ASSUME handler' = handler PROVE OwedInAll' = OwedInAll
  BY <1>4 DEF OwedInAll, Owed, At
<1>5. CASE UNCHANGED vars
  BY <1>1, <1>2, <1>4, <1>5, AllowedGrows DEF vars, Fits
<1>6. CASE BuyerPays
  BY <1>1, <1>2, <1>6, AllowedGrows DEF BuyerPays, Paid, Fits
<1>7. CASE RetryFallsDue
  <2>1. /\ UNCHANGED <<stripe, holder, handler, attempts, restarts, cuts>>
        /\ row' = [row EXCEPT !.retry.next = "due"]
    BY <1>7 DEF RetryFallsDue
  <2>2. row'.retry.count = row.retry.count
    BY <2>1 DEF TypeOK, InvoiceRow, RetryState
  <2> QED
    BY <1>1, <1>2, <1>4, <2>1, <2>2, AllowedGrows DEF Fits
<1>8. CASE LeaseLapse \/ Redeliver
  <2>1. /\ UNCHANGED <<handler, attempts, restarts>> /\ cuts' = cuts + 1
    BY <1>8 DEF LeaseLapse, Redeliver, Cut
  <2>2. OwedInAll' = OwedInAll /\ Allowed' = Allowed + Delays
    BY <1>4, <2>1, AllowedGrows
  <2> QED
    BY <1>1, <1>2, <1>3, <2>1, <2>2 DEF Fits
<1>9. ASSUME NEW p \in Process, TakeInvoiceEvent(p) \/ Reconcile(p) PROVE Fits
  <2>1. /\ p \notin Worker
        /\ UNCHANGED <<stripe, row, holder, attempts, restarts, cuts>>
    BY <1>9, RetryAssumption DEF TakeInvoiceEvent, Reconcile, rows
  <2>2. OwedInAll' = OwedInAll
    BY <1>9, <2>1, OneMoves, OwedMoves DEF Step
  <2> QED
    BY <1>1, <1>2, <2>1, <2>2, AllowedGrows DEF Fits
<1>10. ASSUME NEW p \in Process, Select(p) PROVE Fits
  <2>1. /\ p \in Worker /\ At(p, "idle") /\ holder = NoOwner /\ holder' # NoOwner
        /\ UNCHANGED <<stripe, row, attempts, restarts, cuts>>
    BY <1>10, RetryAssumption DEF Select, AcquireLease, rows
  <2>2. handler'[p].pc = "paying" /\ handler'[p].count = row.retry.count
    BY <1>10 DEF Select, TypeOK, Handler
  <2>3. Owed(p) = 0 /\ Owed(p)' = Delays - row.retry.count
    BY <2>1, <2>2 DEF Owed, At
  <2>4. PICK rest \in Nat : OwedInAll = rest + Owed(p) /\ OwedInAll' = rest + Owed(p)'
    BY <1>10, <2>1, OneMoves, OwedMoves DEF Step
  <2>5. OwedInAll' + OwedNext' = OwedInAll + OwedNext
    BY <1>1, <2>1, <2>3, <2>4
  <2> QED
    BY <1>1, <1>2, <1>3, <2>1, <2>5, AllowedGrows DEF Fits
<1>11. ASSUME NEW p \in Process, PayInvoice(p) PROVE Fits
  <2>1. /\ p \in Worker /\ At(p, "paying")
        /\ UNCHANGED <<row, holder, restarts, cuts>>
        /\ attempts' = IF stripe = "open" THEN attempts + 1 ELSE attempts
    BY <1>11 DEF PayInvoice, AllAreSound, ProcessIsSound, At, rows
  <2>2. /\ handler'[p].pc \in {"reading", "recording"} /\ handler'[p].count = handler[p].count
    BY <1>11 DEF PayInvoice, TypeOK, Handler
  <2>3. Owed(p) = Delays - handler[p].count /\ Owed(p) > 0 /\ Owed(p) \in Nat /\ handler[p].count \in Nat
    BY <2>1, OwedValues DEF TypeOK, Handler
  <2>4. Owed(p)' = Delays - handler[p].count - 1
    BY <2>2 DEF Owed, At
  <2>5. PICK rest \in Nat : OwedInAll = rest + Owed(p) /\ OwedInAll' = rest + Owed(p)'
    BY <1>11, <2>1, OneMoves, OwedMoves DEF Step
  <2>6. OwedInAll = OwedInAll' + 1 /\ OwedNext' = OwedNext /\ Allowed' = Allowed
    BY <1>1, <2>1, <2>3, <2>4, <2>5, AllowedGrows
  <2> QED
    BY <1>1, <1>2, <1>3, <2>1, <2>6 DEF Fits
<1>12. ASSUME NEW p \in Process, ReadInvoice(p) PROVE Fits
  <2>1. /\ At(p, "reading") /\ UNCHANGED <<stripe, row, holder, attempts, restarts, cuts>>
        /\ handler'[p].pc = "writing" /\ handler'[p].count = handler[p].count
    BY <1>12, Reads DEF ReadInvoice, rows
  <2>2. Owed(p)' = Owed(p)
    BY <2>1 DEF Owed, At
  <2>3. OwedInAll' = OwedInAll
    BY <1>12, <2>2, OneMoves, OwedMoves DEF Step
  <2> QED
    BY <1>1, <1>2, <2>1, <2>3, AllowedGrows DEF Fits
<1>13. ASSUME NEW p \in Process, WriteInvoice(p) PROVE Fits
  <2>1. /\ At(p, "writing") /\ UNCHANGED <<stripe, holder, attempts, cuts>>
        /\ handler'[p].pc = "settling" /\ handler'[p].count = handler[p].count
    BY <1>13, Writes DEF WriteInvoice
  <2>2. Owed(p)' = Owed(p)
    BY <2>1 DEF Owed, At
  <2>3. OwedInAll' = OwedInAll
    BY <1>13, <2>2, OneMoves, OwedMoves DEF Step
  <2>4. CASE restarts' = restarts
    <3>1. ASSUME stripe = "open" PROVE OwedNext' = OwedNext
      <4>1. Status(p) # "PAID"
        BY <1>13, <3>1 DEF WriteInvoice, AllAreSound, ProcessIsSound, At, Status
      <4>2. row'.retry \in {row.retry, InitialState}
        BY <1>13, <4>1 DEF WriteInvoice, RetryOnceFailed
      <4>3. CASE row.status = "PAST_DUE"
        <5>1. row'.retry = row.retry
          BY <1>13, <2>4, <3>1, <4>3 DEF WriteInvoice, TypeOK
        <5> QED
          BY <1>1, <2>1, <5>1
      <4>4. CASE row.status # "PAST_DUE"
        <5>1. row.retry = Cleared
          BY <3>1, <4>4 DEF RowIsSound
        <5>2. row'.retry.count = row.retry.count
          BY <4>2, <5>1, SchedulesAreSound
        <5> QED
          BY <1>1, <2>1, <5>2
      <4> QED
        BY <4>3, <4>4
    <3> QED
      BY <1>1, <1>2, <2>1, <2>3, <2>4, <3>1, AllowedGrows DEF Fits
  <2>5. CASE restarts' # restarts
    <3>1. restarts' = restarts + 1
      BY <1>13, <2>5 DEF WriteInvoice
    <3>2. Allowed' = Allowed + Delays
      BY <2>1, <3>1, AllowedGrows
    <3> QED
      BY <1>1, <1>2, <1>3, <2>1, <2>3, <3>2 DEF Fits
  <2> QED
    BY <2>4, <2>5
<1>14. ASSUME NEW p \in Process, SettleSubscription(p), stripe = "open" => OwedInAll' + OwedNext' = OwedInAll + OwedNext
       PROVE  Fits
  <2>1. UNCHANGED <<stripe, attempts, restarts, cuts>>
    BY <1>14 DEF SettleSubscription
  <2> QED
    BY <1>1, <1>2, <1>3, <1>14, <2>1, AllowedGrows DEF Fits
<1>15. ASSUME NEW p \in Process, SettleSubscription(p), stripe = "open"
       PROVE  OwedInAll' + OwedNext' = OwedInAll + OwedNext
  <2>1. At(p, "settling") /\ row' = row
    BY <1>15 DEF SettleSubscription
  <2>2. Status(p) = "PAST_DUE"
    BY <1>15, <2>1 DEF AllAreSound, ProcessIsSound, At, Status
  <2>3. CASE p \in Worker
    <3>1. Failed(p)
      BY <1>15, <2>2, <2>3 DEF SettleSubscription
    <3>2. handler'[p].pc = "recording" /\ handler'[p].count = handler[p].count /\ holder' = holder
      BY <3>1 DEF Failed, TypeOK, Idle
    <3>3. Owed(p)' = Owed(p)
      BY <2>1, <3>2 DEF Owed, At
    <3>4. OwedInAll' = OwedInAll
      BY <1>15, <3>3, OneMoves, OwedMoves DEF Step
    <3> QED
      BY <1>1, <2>1, <3>2, <3>4
  <2>4. CASE p \notin Worker
    <3>1. OwedInAll' = OwedInAll
      BY <1>15, <2>4, OneMoves, OwedMoves DEF Step
    <3>2. holder' = holder
      <4>1. Stop(p)
        BY <1>15, <2>4 DEF SettleSubscription, Done
      <4> QED
        BY <2>4, <4>1 DEF Stop, TypeOK
    <3> QED
      BY <1>1, <2>1, <3>1, <3>2
  <2> QED
    BY <2>3, <2>4
<1>16. ASSUME NEW p \in Process, RecordAttempt(p) PROVE Fits
  <2> DEFINE n == handler[p].count
  <2>1. /\ p \in Worker /\ At(p, "recording") /\ n < Delays /\ n \in Nat
        /\ UNCHANGED <<stripe, attempts, restarts, cuts>>
    BY <1>16 DEF RecordAttempt, AllAreSound, ProcessIsSound, At, TypeOK, Handler
  <2>2. row'.retry = AfterAttempt(n)
    BY <1>16 DEF RecordAttempt, TypeOK, InvoiceRow
  <2>3. row'.retry.count = n + 1
    BY <2>1, <2>2, SchedulesAreSound
  <2>4. handler'[p].pc = "idle" /\ holder' = IF holder = p THEN NoOwner ELSE holder
    BY <1>16 DEF RecordAttempt, Done, Stop, Idle, TypeOK
  <2>5. Owed(p) = Delays - n - 1 /\ Owed(p)' = 0
    BY <2>1, <2>4 DEF Owed, At
  <2>6. PICK rest \in Nat : OwedInAll = rest + Owed(p) /\ OwedInAll' = rest + Owed(p)'
    BY <1>16, <2>1, OneMoves, OwedMoves DEF Step
  <2> HIDE DEF n
  <2>7. OwedNext' <= Delays - n - 1
    BY <1>1, <2>1, <2>3
  <2>8. OwedInAll' + OwedNext' <= OwedInAll + OwedNext
    BY <1>1, <2>1, <2>5, <2>6, <2>7
  <2> QED
    BY <1>1, <1>2, <1>3, <2>1, <2>8, AllowedGrows DEF Fits
<1>17. ASSUME NEW p \in Process, FailAttempt(p) \/ Crash(p) PROVE Fits
  <2>1. UNCHANGED <<stripe, row, attempts, restarts>> /\ cuts' = cuts + 1
    BY <1>17 DEF FailAttempt, Crash, Cut, rows
  <2>2. OwedInAll' <= OwedInAll
    <3>1. CASE p \notin Worker
      <4>1. OwedInAll' = OwedInAll
        BY <1>17, <3>1, OneMoves, OwedMoves
      <4> QED
        BY <1>3, <4>1
    <3>2. CASE p \in Worker
      <4>1. Owed(p)' <= Owed(p) /\ Owed(p) \in Nat /\ Owed(p)' \in Nat
        <5>1. Owed(p) \in Nat /\ handler[p].count \in Nat
          BY <3>2, OwedValues DEF TypeOK, Handler
        <5>2. CASE Crash(p)
          <6>1. handler'[p].pc = "idle"
            BY <5>2 DEF Crash, Stop, Idle, TypeOK
          <6> QED
            BY <5>1, <6>1 DEF Owed, At
        <5>3. CASE FailAttempt(p)
          <6>1. /\ handler'[p].pc = "recording" /\ handler'[p].count = handler[p].count
                /\ handler[p].pc # "idle" /\ handler[p].count < Delays
            BY <5>3 DEF FailAttempt, Failed, Idle, TypeOK, AllAreSound, ProcessIsSound
          <6> QED
            BY <1>1, <5>1, <6>1 DEF Owed, At
        <5> QED
          BY <1>17, <5>2, <5>3
      <4>2. PICK rest \in Nat : OwedInAll = rest + Owed(p) /\ OwedInAll' = rest + Owed(p)'
        BY <1>17, <3>2, OneMoves, OwedMoves
      <4> QED
        BY <4>1, <4>2
    <3> QED
      BY <3>1, <3>2
  <2>3. Allowed' = Allowed + Delays
    BY <2>1, AllowedGrows
  <2> QED
    BY <1>1, <1>2, <1>3, <2>1, <2>2, <2>3 DEF Fits
<1>18. ASSUME NEW p \in Process, Step(p) PROVE Fits
  <2>1. SettleSubscription(p) => Fits
    BY <1>14, <1>15
  <2> QED
    BY <1>9, <1>10, <1>11, <1>12, <1>13, <1>16, <1>18, <2>1 DEF Step
<1> QED
  BY <1>5, <1>6, <1>7, <1>8, <1>17, <1>18 DEF Next

-----------------------------------------------------------------------------
\* Before the invoice is opened no attempt was made and nothing is owed but the
\* first schedule.
LEMMA RetryIInvInit == Init => RetryIInv
<1> SUFFICES ASSUME Init PROVE RetryIInv
  OBVIOUS
<1>1. Delays \in Nat \ {0} /\ MaxCuts \in Nat
  BY RetryAssumption
<1>2. \A p \in Process : handler[p].pc = "idle"
  BY DEF Init, Idle
<1>3. TypeOK
  <2>1. Idle \in Handler /\ Cleared \in RetryState
    BY DEF Idle, Handler, InvoiceStatus, RetryState, Cleared
  <2> QED
    BY <1>1, <2>1 DEF Init, TypeOK, InvoiceRow, InvoiceStatus, SubStatus
<1>4. AllAreSound
  BY <1>2 DEF AllAreSound, ProcessIsSound
<1>5. RowIsSound
  <2>1. 0 <= Delays /\ ~(0 >= Delays)
    BY <1>1
  <2>2. /\ row.retry = Cleared /\ row.status = "DRAFT" /\ attempts = 0 /\ cuts = 0
        /\ events = {"PAST_DUE"} /\ holder = NoOwner
    BY DEF Init
  <2> QED
    BY <2>1, <2>2, RetryAssumption, SchedulesAreSound DEF RowIsSound
<1>6. FewRestarts
  BY CallersAreFinite DEF Init, FewRestarts
<1>7. WithinSchedule
  <2>1. OwedInAll = 0
    <3>1. \A w \in Worker : OwedBy[w] = 0
      BY <1>2 DEF OwedBy, Owed, At, Process
    <3>2. OwedInAll = SumFunctionOnSet(OwedBy, Worker)
      BY DEF OwedInAll, OwedBy
    <3> QED
      BY <3>1, <3>2, CallersAreFinite, SumOfZeros
  <2>2. OwedNext = Delays - 0
    BY SchedulesAreSound DEF Init, OwedNext
  <2>3. Allowed = Delays
    BY <1>1 DEF Init, Allowed
  <2> QED
    BY <1>1, <2>1, <2>2, <2>3 DEF Init, WithinSchedule
<1> QED
  BY <1>3, <1>4, <1>5, <1>6, <1>7 DEF RetryIInv

\* Every step of the workers, the webhooks, the reconcilers and the faults keeps
\* the inductive invariant.
LEMMA RetryIInvStep == RetryIInv /\ [Next]_vars => RetryIInv'
<1> SUFFICES ASSUME RetryIInv, [Next]_vars PROVE RetryIInv'
  OBVIOUS
<1>1. TypeOK /\ AllAreSound /\ RowIsSound /\ FewRestarts /\ WithinSchedule
  BY DEF RetryIInv
<1>2. TypeOK'
  BY <1>1, TypeStays
<1>3. AllAreSound'
  BY <1>1, <1>2, SoundStays
<1>4. RowIsSound'
  BY <1>1, <1>2, RowStays
<1>5. FewRestarts'
  BY <1>1, <1>2, <1>4, FewRestartsStay
<1>6. WithinSchedule'
  BY <1>1, <1>2, <1>3, <1>4, ScheduleStays
<1> QED
  BY <1>2, <1>3, <1>4, <1>5, <1>6 DEF RetryIInv

\* Every invoice is attempted as often as its schedule says (processInvoiceRetry):
\* at most one schedule for the first failure and one more for each restart, lost
\* answer, crash or overlap of cycles, restarts come at most once per caller less
\* one (markInvoiceFailed), and a schedule that is exhausted has been used up.
THEOREM RetryCorrect == Spec => []RetryInv
<1>1. RetryIInv => RetryInv
  <2> SUFFICES ASSUME RetryIInv PROVE AttemptsFollowTheSchedule
    BY DEF RetryIInv, RetryInv
  <2>1. /\ restarts < Cardinality(Webhook \cup Reconciler)
        /\ attempts <= Delays * (1 + restarts + cuts)
    BY DEF RetryIInv, FewRestarts, WithinSchedule, Caller, Allowed
  <2>2. ASSUME row.retry.exhausted, stripe = "open" PROVE attempts + cuts >= Delays
    <3>1. /\ row.retry.count >= Delays /\ row.retry.count <= attempts + cuts
      BY <2>2 DEF RetryIInv, RowIsSound
    <3>2. row.retry.count \in Nat /\ attempts \in Nat /\ cuts \in Nat /\ Delays \in Nat
      BY RetryAssumption DEF RetryIInv, TypeOK, InvoiceRow, RetryState
    <3> QED
      BY <3>1, <3>2
  <2> QED
    BY <2>1, <2>2 DEF AttemptsFollowTheSchedule
<1> QED
  BY <1>1, RetryIInvInit, RetryIInvStep, PTL DEF Spec
=============================================================================
