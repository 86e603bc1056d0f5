---------------------- MODULE OverageCollectionProofs ----------------------
(***************************************************************************)
(* Settling is final and exact for any number of processes, periods and    *)
(* faults: OverageCollection implements PeriodBilling.  That induction is  *)
(* about the order of periods; nothing in it rests on the lease.  The one  *)
(* that bounds the charges does: it counts the cycles that run without it. *)
(***************************************************************************)
EXTENDS OverageCollection, FiniteSums, FiniteSetTheorems, SequenceTheorems, WellFoundedInduction, TLAPS

\* What the argument needs of the types.
BillingTypeOK ==
  /\ linked \in BOOLEAN
  /\ now \in Period
  /\ bill \in [Period -> [status : InvoiceStatus, settled : BOOLEAN, copies : Nat]]
  /\ counted \in [Period -> Nat]
  /\ over \in [Period -> [status : InvoiceStatus, units : Nat, ext : Nat]]
  /\ sub \in [status : {"PENDING", "ACTIVE", "PAST_DUE", "CANCELED"},
              period : 0..(Periods + 1), cancelAtPeriodEnd : BOOLEAN]
  /\ worker \in [Worker -> [pc : Pc, todo : SUBSET Period, ext : Nat]]

\* Periods are opened one after the other, none before it begins, and one that
\* is rolled over locally only together with the settlement of the one before.
OpenedInOrder ==
  /\ \E k \in 0..now : Opened = 1..k
  /\ ~linked => \A n \in Opened : n + 1 \in Opened => bill[n].settled

\* An amount belongs to a settlement, and only what was opened is settled.
SettledRows ==
  \A n \in Period : /\ bill[n].settled => n \in Opened
                    /\ over[n].status # "NONE" => bill[n].settled
                    /\ over[n].status = "NONE" => over[n].units = 0

\* The setup session belongs to the first period of a subscription without a price.
SetupIsFirst == /\ linked => setup = "none"
                /\ setup \in {"open", "expired"} => 1 \notin Opened
                /\ ~linked /\ sub.status = "CANCELED" => now > 1

\* A cycle settles what had ended when it began, and charges what was settled.
CycleIsSound(w) ==
  /\ worker[w].pc \in {"settling", "reading", "item", "invoice", "pay", "mark", "write"} => worker[w].todo # {}
  /\ At(w, "settling") => \A n \in worker[w].todo : n < now
  /\ worker[w].pc \in {"item", "invoice", "pay", "mark", "write"} => over[Current(w)].status # "NONE"

CyclesLookBack == \A w \in Worker : CycleIsSound(w)

StripeInvoice == [period : Period, items : [Period -> Nat], status : {"draft", "open", "paid"}]

\* So does every invoice made at Stripe.
InvoicesHaveRows ==
  /\ inv \in Seq(StripeInvoice) /\ pending \in [Period -> Nat]
  /\ \A i \in DOMAIN inv : over[inv[i].period].status # "NONE"

\* A handler has an invoice made at Stripe, and a status to write or to compare.
HandlersAreSound ==
  /\ handler \in [Webhook -> [pc : {"idle", "read", "write", "access"}, inv : Nat,
                              status : InvoiceStatus]]
  /\ \A h \in Webhook : handler[h].pc # "idle" =>
       handler[h].inv \in DOMAIN inv /\ handler[h].status # "NONE"
  /\ \A h \in Webhook : handler[h].pc = "access" => linked

BillingInv == /\ BillingTypeOK /\ OpenedInOrder /\ SettledRows /\ SetupIsFirst
              /\ CyclesLookBack /\ InvoicesHaveRows /\ HandlersAreSound

-----------------------------------------------------------------------------
(* Facts about the helpers. *)

LEMMA LeastPeriod ==
  ASSUME NEW S \in SUBSET Nat, S # {}
  PROVE  \E n \in S : \A m \in S : n <= m
<1>1. PICK n \in S : \A m \in S : ~(<<m, n>> \in OpToRel(<, Nat))
  BY NatLessThanWellFounded, WFMin
<1>2. \A m \in S : ~(m < n)
  BY <1>1 DEF OpToRel
<1> QED
  BY <1>2

LEMMA PeriodsAreNaturals == Periods \in Nat \ {0} /\ Period \subseteq Nat \ {0}
BY OverageAssumption DEF Period

\* The row that is worked on is one of those that are left.
LEMMA CurrentIsLeft ==
  ASSUME BillingTypeOK, NEW w \in Worker, worker[w].todo # {}
  PROVE  Current(w) \in worker[w].todo
<1>1. worker[w].todo \in SUBSET Nat
  BY PeriodsAreNaturals DEF BillingTypeOK
<1>2. \E n \in worker[w].todo : \A m \in worker[w].todo : n <= m
  BY <1>1, LeastPeriod
<1> QED
  BY <1>2 DEF Current

\* Rows are kept: their amount, and whether there is one at all.
OverageKept ==
  /\ over' \in [Period -> [status : InvoiceStatus, units : Nat, ext : Nat]]
  /\ \A m \in Period : /\ over'[m].units = over[m].units
                       /\ over'[m].status = "NONE" <=> over[m].status = "NONE"

LEMMA WritingKeeps ==
  ASSUME BillingTypeOK, NEW n \in Period, NEW i \in Nat, NEW status \in InvoiceStatus \ {"NONE"},
         over[n].status # "NONE", WriteInvoice(n, i, status)
  PROVE  OverageKept
<1>1. CASE over' = over
  BY <1>1 DEF BillingTypeOK, OverageKept
<1>2. CASE over' = [over EXCEPT ![n].status = status, ![n].ext = i]
  <2>1. over[n] = [status |-> over[n].status, units |-> over[n].units, ext |-> over[n].ext]
    BY DEF BillingTypeOK
  <2>2. over'[n] = [status |-> status, units |-> over[n].units, ext |-> i]
    BY <1>2, <2>1 DEF BillingTypeOK
  <2>3. \A m \in Period \ {n} : over'[m] = over[m]
    BY <1>2 DEF BillingTypeOK
  <2>4. over' \in [Period -> [status : InvoiceStatus, units : Nat, ext : Nat]]
    <3>1. over' = [m \in Period |-> over'[m]]
      BY <1>2 DEF BillingTypeOK
    <3>2. \A m \in Period : over'[m] \in [status : InvoiceStatus, units : Nat, ext : Nat]
      BY <2>2, <2>3 DEF BillingTypeOK
    <3> QED
      BY <3>1, <3>2
  <2> QED
    BY <2>2, <2>3, <2>4 DEF OverageKept
<1> QED
  BY <1>1, <1>2 DEF WriteInvoice

LEMMA SettlementBilled ==
  ASSUME NEW used \in Nat
  PROVE  BuildSettlement(used) \in 0..used
<1>1. CASE used <= Quota
  BY <1>1 DEF BuildSettlement
<1>2. CASE used > Quota
  <2> DEFINE a == used - Quota + UnitRequests - 1
             q == a \div UnitRequests
  <2>1. a \in Nat /\ UnitRequests \in Nat \ {0} /\ Quota \in Nat
    BY <1>2, OverageAssumption
  <2>2. q \in Nat /\ UnitRequests * q <= a /\ a < UnitRequests * q + UnitRequests
    BY <2>1
  <2>3. q <= used - Quota
    BY <1>2, <2>1, <2>2
  <2> QED
    BY <1>2, <2>1, <2>2, <2>3 DEF BuildSettlement
<1> QED
  BY <1>1, <1>2, OverageAssumption

LEMMA SettlementCovers ==
  ASSUME NEW used \in Nat
  PROVE  Billing!Covers(BuildSettlement(used), used)
<1>1. CASE used <= Quota
  <2>1. Quota \in Nat /\ UnitRequests \in Nat \ {0}
    BY OverageAssumption
  <2>2. BuildSettlement(used) = 0 /\ 0 * UnitRequests = 0
    BY <1>1, <2>1 DEF BuildSettlement
  <2> QED
    BY <1>1, <2>1, <2>2 DEF Billing!Covers
<1>2. CASE used > Quota
  <2> DEFINE a == used - Quota + UnitRequests - 1
             q == a \div UnitRequests
  <2>1. a \in Nat /\ UnitRequests \in Nat \ {0} /\ Quota \in Nat
    BY <1>2, OverageAssumption
  <2>2. q \in Nat /\ UnitRequests * q <= a /\ a < UnitRequests * q + UnitRequests
    BY <2>1
  <2>3. used <= Quota + q * UnitRequests /\ used > Quota + (q - 1) * UnitRequests
    BY <1>2, <2>1, <2>2
  <2>4. BuildSettlement(used) = q
    BY <1>2, <2>1 DEF BuildSettlement
  <2> HIDE DEF q
  <2> QED
    BY <2>3, <2>4 DEF Billing!Covers
<1> QED
  BY <1>1, <1>2, OverageAssumption

-----------------------------------------------------------------------------
(* Cycles *)

WorkerType == [Worker -> [pc : Pc, todo : SUBSET Period, ext : Nat]]

\* Time and rows only go forward.
Grows == /\ {now, now'} \subseteq Nat /\ now <= now'
         /\ \A n \in Period : over[n].status # "NONE" => over'[n].status # "NONE"

LEMMA OthersStay ==
  ASSUME BillingTypeOK, Grows, NEW w \in Worker, CycleIsSound(w), worker'[w] = worker[w]
  PROVE  CycleIsSound(w)'
<1>1. Current(w)' = Current(w)
  BY DEF Current
<1>2. worker[w].pc \in {"item", "invoice", "pay", "mark", "write"} => Current(w) \in Period
  BY CurrentIsLeft DEF CycleIsSound, BillingTypeOK
<1>3. worker[w].todo \subseteq Nat
  BY PeriodsAreNaturals DEF BillingTypeOK
<1> QED
  BY <1>1, <1>2, <1>3 DEF CycleIsSound, Grows, At

\* Whatever one cycle does, it is enough to look at that one.
LEMMA OneCycleMoves ==
  ASSUME BillingTypeOK, CyclesLookBack, Grows, NEW w \in Worker,
         NEW c \in [pc : Pc, todo : SUBSET Period, ext : Nat],
         worker' = [worker EXCEPT ![w] = c],
         CycleIsSound(w)'
  PROVE  worker' \in WorkerType /\ CyclesLookBack'
<1>1. worker' \in WorkerType
  BY DEF BillingTypeOK, WorkerType
<1>2. ASSUME NEW v \in Worker, v # w PROVE CycleIsSound(v)'
  <2>1. worker'[v] = worker[v] /\ CycleIsSound(v)
    BY <1>2 DEF BillingTypeOK, CyclesLookBack
  <2> QED
    BY <2>1, OthersStay
<1> QED
  BY <1>1, <1>2 DEF CyclesLookBack

LEMMA WorkIsSound ==
  ASSUME BillingTypeOK, CyclesLookBack, Grows, NEW w \in Worker,
         NEW todo \in SUBSET Period, NEW pc \in {"settling", "reading"},
         NEW none \in {"settled", "idle"}, Work(w, todo, pc, none),
         pc = "settling" => \A n \in todo : n < now'
  PROVE  worker' \in WorkerType /\ CyclesLookBack'
<1> DEFINE c == [pc |-> IF todo = {} THEN none ELSE pc, todo |-> todo, ext |-> 0]
<1>1. c \in [pc : Pc, todo : SUBSET Period, ext : Nat] /\ worker' = [worker EXCEPT ![w] = c]
  BY DEF Work, Pc
<1>2. worker'[w] = c
  BY <1>1 DEF BillingTypeOK
<1>3. CycleIsSound(w)'
  BY <1>2 DEF CycleIsSound, At
<1> QED
  BY <1>1, <1>3, OneCycleMoves

\* A row is taken on through the calls that charge it.
LEMMA CallsAreSound ==
  ASSUME BillingTypeOK, CyclesLookBack, Grows, NEW w \in Worker, worker[w].todo # {},
         NEW pc \in {"item", "invoice", "pay", "mark", "write"}, NEW ext \in Nat,
         worker' = [worker EXCEPT ![w].pc = pc, ![w].ext = ext],
         over'[Current(w)].status # "NONE"
  PROVE  worker' \in WorkerType /\ CyclesLookBack'
<1> DEFINE c == [pc |-> pc, todo |-> worker[w].todo, ext |-> ext]
<1>1. c \in [pc : Pc, todo : SUBSET Period, ext : Nat]
  BY DEF Pc, BillingTypeOK
<1>2. worker[w] = [pc |-> worker[w].pc, todo |-> worker[w].todo, ext |-> worker[w].ext]
  BY DEF BillingTypeOK
<1>3. worker'[w] = c /\ \A v \in Worker \ {w} : worker'[v] = worker[v]
  BY <1>2 DEF BillingTypeOK
<1>4. worker' = [worker EXCEPT ![w] = c]
  <2>1. worker' = [v \in Worker |-> worker'[v]] /\ worker = [v \in Worker |-> worker[v]]
    BY DEF BillingTypeOK
  <2> QED
    BY <1>3, <2>1
<1>5. worker'[w].todo = worker[w].todo /\ worker'[w].pc = pc
  BY <1>3
<1>6. Current(w)' = Current(w)
  BY <1>5 DEF Current
<1>7. CycleIsSound(w)'
  BY <1>5, <1>6 DEF CycleIsSound, At
<1> QED
  BY <1>1, <1>4, <1>7, OneCycleMoves

-----------------------------------------------------------------------------
(* Rows *)

BillType == [Period -> [status : InvoiceStatus, settled : BOOLEAN, copies : Nat]]
OverType == [Period -> [status : InvoiceStatus, units : Nat, ext : Nat]]
SubType == [status : {"PENDING", "ACTIVE", "PAST_DUE", "CANCELED"},
            period : 0..(Periods + 1), cancelAtPeriodEnd : BOOLEAN]

LEMMA BillUpdates ==
  ASSUME BillingTypeOK, NEW n \in Period, NEW c \in [status : InvoiceStatus, settled : BOOLEAN, copies : Nat],
         bill' = [bill EXCEPT ![n] = c]
  PROVE  bill' \in BillType /\ bill'[n] = c /\ \A m \in Period \ {n} : bill'[m] = bill[m]
BY DEF BillingTypeOK, BillType

LEMMA SettlingUpdates ==
  ASSUME BillingTypeOK, NEW n \in Period, bill' = [bill EXCEPT ![n].settled = TRUE]
  PROVE  /\ bill' \in BillType
         /\ bill'[n].settled /\ Opened' = Opened
         /\ \A m \in Period \ {n} : bill'[m] = bill[m]
<1>1. bill[n] = [status |-> bill[n].status, settled |-> bill[n].settled, copies |-> bill[n].copies]
  BY DEF BillingTypeOK
<1> DEFINE c == [status |-> bill[n].status, settled |-> TRUE, copies |-> bill[n].copies]
<1>2. c \in [status : InvoiceStatus, settled : BOOLEAN, copies : Nat]
  BY DEF BillingTypeOK
<1>3. /\ bill' = [m \in Period |-> bill'[m]]
      /\ bill'[n] = c
      /\ \A m \in Period \ {n} : bill'[m] = bill[m]
  BY <1>1 DEF BillingTypeOK
<1>4. bill' \in BillType
  <2>1. \A m \in Period : bill'[m] \in [status : InvoiceStatus, settled : BOOLEAN, copies : Nat]
    BY <1>2, <1>3 DEF BillingTypeOK
  <2> QED
    BY <1>3, <2>1 DEF BillType
<1> QED
  BY <1>3, <1>4 DEF Opened

LEMMA RollingUpdates ==
  ASSUME BillingTypeOK, NEW n \in Period, n + 1 \in Period,
         bill' = [bill EXCEPT ![n].settled = TRUE,
                              ![n + 1] = Bill("PAID", bill[n + 1].copies + 1)]
  PROVE  /\ bill' \in BillType
         /\ bill'[n].settled /\ ~bill'[n + 1].settled
         /\ Opened' = Opened \cup {n + 1}
         /\ \A m \in Period \ {n, n + 1} : bill'[m] = bill[m]
<1>1. bill[n] = [status |-> bill[n].status, settled |-> bill[n].settled, copies |-> bill[n].copies]
  BY DEF BillingTypeOK
<1> DEFINE c == [status |-> bill[n].status, settled |-> TRUE, copies |-> bill[n].copies]
           d == [status |-> "PAID", settled |-> FALSE, copies |-> bill[n + 1].copies + 1]
<1>2. /\ c \in [status : InvoiceStatus, settled : BOOLEAN, copies : Nat]
      /\ d \in [status : InvoiceStatus, settled : BOOLEAN, copies : Nat]
  BY DEF BillingTypeOK, InvoiceStatus
<1>3. n # n + 1
  BY PeriodsAreNaturals
<1>4. d = Bill("PAID", bill[n + 1].copies + 1)
  BY DEF Bill
<1>5. /\ bill' = [m \in Period |-> bill'[m]]
      /\ bill'[n] = c /\ bill'[n + 1] = d
      /\ \A m \in Period \ {n, n + 1} : bill'[m] = bill[m]
  BY <1>1, <1>3, <1>4 DEF BillingTypeOK
<1>6. bill' \in BillType
  <2>1. \A m \in Period : bill'[m] \in [status : InvoiceStatus, settled : BOOLEAN, copies : Nat]
    BY <1>2, <1>5 DEF BillingTypeOK
  <2> QED
    BY <1>5, <2>1 DEF BillType
<1>7. /\ bill'[n].status = bill[n].status /\ bill'[n].settled
      /\ bill'[n + 1].status = "PAID" /\ ~bill'[n + 1].settled
  BY <1>5
<1>8. Opened' = Opened \cup {n + 1}
  <2>1. \A m \in Period : bill'[m].status = "PAID" <=> bill[m].status = "PAID" \/ m = n + 1
    BY <1>5, <1>7
  <2> DEFINE k == n + 1
  <2>2. k \in Period
    OBVIOUS
  <2> HIDE DEF k
  <2>3. Opened' = Opened \cup {k}
    BY <2>1, <2>2, Zenon DEF Opened, k
  <2> QED
    BY <2>3 DEF k
<1> QED
  BY <1>5, <1>6, <1>7, <1>8

LEMMA StatusUpdates ==
  ASSUME BillingTypeOK, NEW n \in Period, NEW status \in InvoiceStatus,
         bill' = [bill EXCEPT ![n].status = status]
  PROVE  /\ bill' \in BillType
         /\ \A m \in Period : bill'[m].settled = bill[m].settled
         /\ Opened' = IF status = "PAID" THEN Opened \cup {n} ELSE Opened \ {n}
<1>1. bill[n] = [status |-> bill[n].status, settled |-> bill[n].settled, copies |-> bill[n].copies]
  BY DEF BillingTypeOK
<1> DEFINE c == [status |-> status, settled |-> bill[n].settled, copies |-> bill[n].copies]
<1>2. c \in [status : InvoiceStatus, settled : BOOLEAN, copies : Nat]
  BY DEF BillingTypeOK
<1>3. /\ bill' = [m \in Period |-> bill'[m]]
      /\ bill'[n] = c
      /\ \A m \in Period \ {n} : bill'[m] = bill[m]
  BY <1>1 DEF BillingTypeOK
<1>4. bill' \in BillType
  <2>1. \A m \in Period : bill'[m] \in [status : InvoiceStatus, settled : BOOLEAN, copies : Nat]
    BY <1>2, <1>3 DEF BillingTypeOK
  <2> QED
    BY <1>3, <2>1 DEF BillType
<1> QED
  BY <1>3, <1>4 DEF Opened

-----------------------------------------------------------------------------
(* Every step keeps the invariant. *)

RowsKeep == /\ linked' \in BOOLEAN /\ now' \in Period
            /\ bill' \in BillType /\ over' \in OverType /\ sub' \in SubType
            /\ counted' \in [Period -> Nat]
            /\ OpenedInOrder' /\ SettledRows' /\ SetupIsFirst'

LEMMA InvSplits ==
  ASSUME RowsKeep, worker' \in WorkerType, CyclesLookBack', InvoicesHaveRows',
         HandlersAreSound'
  PROVE  BillingInv'
BY DEF RowsKeep, BillType, OverType, SubType, WorkerType, BillingInv, BillingTypeOK

rowVars == <<linked, now, sub, bill, setup, counted, over>>

LEMMA RowsUntouched ==
  ASSUME BillingInv, UNCHANGED rowVars
  PROVE  RowsKeep /\ Grows
BY PeriodsAreNaturals DEF rowVars, BillingInv, BillingTypeOK, RowsKeep, Grows, OpenedInOrder, SettledRows,
  SetupIsFirst, Opened, BillType, OverType, SubType

LEMMA InvoicesAreTyped ==
  ASSUME InvoicesHaveRows, NEW i \in DOMAIN inv
  PROVE  i \in Nat /\ inv[i] \in StripeInvoice /\ inv[i].period \in Period
<1>1. inv \in Seq(StripeInvoice) /\ i \in 1..Len(inv)
  BY LenProperties DEF InvoicesHaveRows
<1>2. inv[i] \in StripeInvoice
  BY <1>1, ElementOfSeq
<1> QED
  BY <1>1, <1>2 DEF StripeInvoice

LEMMA InvoicesUntouched ==
  ASSUME BillingInv, Grows, UNCHANGED stripeVars
  PROVE  InvoicesHaveRows'
<1>1. \A i \in DOMAIN inv : inv[i].period \in Period
  BY InvoicesAreTyped DEF BillingInv
<1> QED
  BY <1>1 DEF BillingInv, InvoicesHaveRows, Grows, stripeVars

LEMMA HandlersUntouched ==
  ASSUME BillingInv, UNCHANGED <<linked, handler>>, DOMAIN inv \subseteq DOMAIN inv'
  PROVE  HandlersAreSound'
BY DEF BillingInv, HandlersAreSound

LEMMA CyclesUntouched ==
  ASSUME BillingInv, Grows, worker' = worker
  PROVE  worker' \in WorkerType /\ CyclesLookBack'
BY OthersStay DEF BillingInv, BillingTypeOK, CyclesLookBack, WorkerType

\* The amounts stay and no row goes or comes.
LEMMA OverageKeptIsSound ==
  ASSUME BillingInv, OverageKept, UNCHANGED <<linked, now, bill, setup, counted>>,
         sub' \in SubType, ~linked => sub' = sub
  PROVE  RowsKeep /\ Grows
<1>1. Opened' = Opened
  BY DEF Opened
<1>2. OpenedInOrder'
  BY <1>1 DEF BillingInv, OpenedInOrder
<1>3. SettledRows'
  BY <1>1 DEF BillingInv, SettledRows, OverageKept
<1>4. SetupIsFirst'
  BY <1>1 DEF BillingInv, SetupIsFirst, BillingTypeOK
<1>5. Grows
  BY PeriodsAreNaturals DEF BillingInv, BillingTypeOK, Grows, OverageKept
<1> QED
  BY <1>2, <1>3, <1>4, <1>5 DEF BillingInv, BillingTypeOK, RowsKeep, OverageKept, BillType, OverType

LEMMA HandleSetupEventKeeps ==
  ASSUME BillingInv, HandleSetupEvent
  PROVE  RowsKeep /\ Grows
<1> DEFINE status == IF setup = "completed" THEN "PAID" ELSE "VOID"
<1>1. 1 \in Period /\ status \in InvoiceStatus /\ now = 1 /\ ~linked
  BY OverageAssumption DEF Period, InvoiceStatus, HandleSetupEvent, BillingInv, SetupIsFirst, BillingTypeOK
<1>2. /\ bill' \in BillType
      /\ \A m \in Period : bill'[m].settled = bill[m].settled
      /\ Opened' = IF status = "PAID" THEN Opened \cup {1} ELSE Opened \ {1}
  <2>1. bill' = [bill EXCEPT ![1].status = status]
    BY DEF HandleSetupEvent
  <2> QED
    BY <1>1, <2>1, StatusUpdates DEF BillingInv
<1>3. PICK k \in 0..1 : Opened = 1..k
  BY <1>1 DEF BillingInv, OpenedInOrder
<1>4. /\ setup = "completed" => Opened' = 1..1
      /\ setup # "completed" => setup = "expired" /\ Opened' = Opened /\ 1 \notin Opened
  <2>1. Opened = {} \/ Opened = {1}
    BY <1>3
  <2>2. CASE setup = "completed"
    <3>1. Opened' = Opened \cup {1}
      BY <1>2, <2>2
    <3> QED
      BY <2>1, <2>2, <3>1
  <2>3. CASE setup # "completed"
    <3>1. Opened' = Opened \ {1}
      BY <1>2, <2>3
    <3>2. setup = "expired" /\ 1 \notin Opened
      BY <2>3 DEF HandleSetupEvent, BillingInv, SetupIsFirst
    <3> QED
      BY <2>3, <3>1, <3>2
  <2> QED
    BY <2>2, <2>3
<1>5. OpenedInOrder'
  <2>1. CASE setup = "completed"
    <3>1. 1 \in 0..now' /\ Opened' = 1..1
      BY <1>1, <1>4, <2>1 DEF HandleSetupEvent
    <3> QED
      BY <3>1 DEF OpenedInOrder
  <2>2. CASE setup # "completed"
    BY <1>2, <1>4, <2>2 DEF BillingInv, OpenedInOrder, HandleSetupEvent, Opened
  <2> QED
    BY <2>1, <2>2
<1>6. SettledRows'
  <2>1. Opened \subseteq Opened'
    BY <1>3, <1>4
  <2> QED
    BY <1>2, <2>1 DEF BillingInv, SettledRows, HandleSetupEvent
<1>7. sub' \in SubType /\ sub'.status \in {"ACTIVE", "PAST_DUE"}
  <2>1. sub = [status |-> sub.status, period |-> sub.period, cancelAtPeriodEnd |-> sub.cancelAtPeriodEnd]
    BY DEF BillingInv, BillingTypeOK
  <2>2. \/ sub' = [status |-> "ACTIVE", period |-> 1, cancelAtPeriodEnd |-> sub.cancelAtPeriodEnd]
        \/ sub' = [status |-> "PAST_DUE", period |-> sub.period, cancelAtPeriodEnd |-> sub.cancelAtPeriodEnd]
    BY <2>1 DEF HandleSetupEvent
  <2> QED
    BY <2>2, OverageAssumption DEF BillingInv, BillingTypeOK, SubType
<1>8. SetupIsFirst'
  BY <1>1, <1>4, <1>7 DEF SetupIsFirst, HandleSetupEvent
<1>9. Grows
  BY <1>1 DEF Grows, HandleSetupEvent
<1> QED
  BY <1>2, <1>5, <1>6, <1>7, <1>8, <1>9
    DEF RowsKeep, HandleSetupEvent, BillingInv, BillingTypeOK, OverType

LEMMA StripeRenewsKeeps ==
  ASSUME BillingInv, StripeRenews
  PROVE  RowsKeep /\ Grows /\ Opened' = Opened \cup {now} /\ now - 1 \in Opened
<1> DEFINE c == Bill("PAID", 1)
<1>1. c \in [status : InvoiceStatus, settled : BOOLEAN, copies : Nat] /\ ~c.settled /\ c.status = "PAID"
  BY DEF Bill, InvoiceStatus
<1> HIDE DEF c
<1>2. now \in Period /\ now \notin Opened /\ now - 1 \in Opened /\ linked
  BY DEF StripeRenews
<1>3. /\ bill' \in BillType /\ bill'[now] = c
      /\ \A m \in Period \ {now} : bill'[m] = bill[m]
  <2>1. bill' = [bill EXCEPT ![now] = c]
    BY DEF StripeRenews, c
  <2> QED
    BY <1>1, <1>2, <2>1, BillUpdates DEF BillingInv
<1>4. Opened' = Opened \cup {now}
  BY <1>1, <1>2, <1>3 DEF Opened
<1>5. PICK k \in 0..now : Opened = 1..k
  BY DEF BillingInv, OpenedInOrder
<1>6. Opened' = 1..now
  BY <1>2, <1>4, <1>5, PeriodsAreNaturals
<1>7. OpenedInOrder'
  <2>1. now' = now /\ now \in 0..now' /\ linked'
    BY <1>2, PeriodsAreNaturals DEF StripeRenews
  <2> QED
    BY <1>6, <2>1 DEF OpenedInOrder
<1>8. SettledRows'
  BY <1>1, <1>2, <1>3, <1>4 DEF BillingInv, SettledRows, StripeRenews
<1>9. sub' \in SubType
  <2>1. sub = [status |-> sub.status, period |-> sub.period, cancelAtPeriodEnd |-> sub.cancelAtPeriodEnd]
    BY DEF BillingInv, BillingTypeOK
  <2>2. sub' = [status |-> "ACTIVE", period |-> sub.period, cancelAtPeriodEnd |-> sub.cancelAtPeriodEnd]
    BY <2>1 DEF StripeRenews
  <2> QED
    BY <2>2 DEF BillingInv, BillingTypeOK, SubType
<1>10. SetupIsFirst'
  BY <1>2 DEF BillingInv, SetupIsFirst, StripeRenews
<1>11. Grows
  BY <1>2, PeriodsAreNaturals DEF Grows, StripeRenews
<1> QED
  BY <1>2, <1>3, <1>4, <1>7, <1>8, <1>9, <1>10, <1>11
    DEF RowsKeep, StripeRenews, BillingInv, BillingTypeOK, OverType

\* The subscription alone, or nothing, changes.
LEMMA SubscriptionChanges ==
  ASSUME BillingInv, UNCHANGED <<linked, now, bill, setup, counted, over>>,
         sub' \in SubType, ~linked /\ sub'.status = "CANCELED" => sub.status = "CANCELED"
  PROVE  RowsKeep /\ Grows
<1>1. Opened' = Opened
  BY DEF Opened
<1>2. OpenedInOrder' /\ SettledRows' /\ SetupIsFirst'
  BY <1>1 DEF BillingInv, OpenedInOrder, SettledRows, SetupIsFirst
<1>3. Grows
  BY PeriodsAreNaturals DEF BillingInv, BillingTypeOK, Grows
<1> QED
  BY <1>2, <1>3 DEF BillingInv, BillingTypeOK, RowsKeep, BillType, OverType

LEMMA NextPeriodKeeps ==
  ASSUME BillingInv, NextPeriod
  PROVE  RowsKeep /\ Grows /\ Opened' = Opened
<1>1. Opened' = Opened
  BY DEF Opened, NextPeriod
<1>2. now \in Nat \ {0} /\ now' = now + 1 /\ now' \in Period
  BY PeriodsAreNaturals DEF NextPeriod, BillingInv, BillingTypeOK, Period
<1>3. OpenedInOrder'
  <2>1. PICK k \in 0..now : Opened = 1..k
    BY DEF BillingInv, OpenedInOrder
  <2>2. k \in 0..now' /\ Opened' = 1..k
    BY <1>1, <1>2, <2>1
  <2> QED
    BY <1>1, <2>2 DEF NextPeriod, BillingInv, OpenedInOrder
<1>4. SettledRows' /\ SetupIsFirst'
  <2>1. SettledRows'
    BY <1>1 DEF NextPeriod, BillingInv, SettledRows
  <2>2. now' > 1
    BY <1>2
  <2>3. SetupIsFirst'
    BY <1>1, <2>2 DEF NextPeriod, BillingInv, SetupIsFirst
  <2> QED
    BY <2>1, <2>3
<1>5. Grows
  BY <1>2 DEF Grows, NextPeriod
<1> QED
  BY <1>1, <1>2, <1>3, <1>4, <1>5
    DEF BillingInv, BillingTypeOK, RowsKeep, BillType, OverType, SubType, NextPeriod

LEMMA FinishSetupKeeps ==
  ASSUME BillingInv, FinishSetup
  PROVE  RowsKeep /\ Grows /\ Opened' = Opened
<1>1. Opened' = Opened
  BY DEF Opened, FinishSetup
<1>2. OpenedInOrder' /\ SettledRows'
  BY <1>1 DEF FinishSetup, BillingInv, OpenedInOrder, SettledRows
<1>3. SetupIsFirst'
  BY <1>1 DEF FinishSetup, BillingInv, SetupIsFirst
<1>4. Grows
  BY PeriodsAreNaturals DEF Grows, FinishSetup, BillingInv, BillingTypeOK
<1> QED
  BY <1>1, <1>2, <1>3, <1>4
    DEF BillingInv, BillingTypeOK, RowsKeep, BillType, OverType, SubType, FinishSetup

LEMMA RecordUsageKeeps ==
  ASSUME BillingInv, NEW n \in Period, RecordUsage(n)
  PROVE  RowsKeep /\ Grows /\ Opened' = Opened
<1>1. Opened' = Opened
  BY DEF Opened, RecordUsage
<1>2. OpenedInOrder' /\ SettledRows' /\ SetupIsFirst'
  BY <1>1 DEF RecordUsage, BillingInv, OpenedInOrder, SettledRows, SetupIsFirst
<1>3. counted' \in [Period -> Nat]
  BY DEF RecordUsage, BillingInv, BillingTypeOK
<1>4. Grows
  BY PeriodsAreNaturals DEF Grows, RecordUsage, BillingInv, BillingTypeOK
<1> QED
  BY <1>1, <1>2, <1>3, <1>4
    DEF BillingInv, BillingTypeOK, RowsKeep, BillType, OverType, SubType, RecordUsage

-----------------------------------------------------------------------------
(* Settling *)

\* What a transaction that settles period n does.
Settles(n) ==
  /\ n \in Opened /\ n < now /\ ~bill[n].settled
  /\ bill'[n].settled /\ over'[n].units = BuildSettlement(counted[n])
  /\ \A m \in Period \ {n} : /\ bill'[m].settled = bill[m].settled
                             /\ over'[m] = over[m]
  /\ \/ Opened' = Opened /\ sub' = sub
     \/ Opened' = Opened /\ ~linked /\ sub'.status = "CANCELED"
     \/ /\ ~linked /\ sub.status # "CANCELED" /\ sub'.status = "ACTIVE"
        /\ Opened = 1..n /\ Opened' = Opened \cup {n + 1}

\* Only a period that is not settled is settled, and so nothing was opened after it.
LEMMA RollsFromLast ==
  ASSUME BillingInv, NEW n \in Opened, ~linked, ~bill[n].settled
  PROVE  Opened = 1..n /\ n + 1 \notin Opened
<1>1. PICK k \in 0..now : Opened = 1..k
  BY DEF BillingInv, OpenedInOrder
<1>2. n + 1 \notin Opened
  BY DEF BillingInv, OpenedInOrder
<1>3. now \in Nat
  BY PeriodsAreNaturals DEF BillingInv, BillingTypeOK
<1> QED
  BY <1>1, <1>2, <1>3

LEMMA RollOverSettles ==
  ASSUME BillingInv, NEW n \in Period, n < now, MaySettle(n), RollOver(n)
  PROVE  /\ bill' \in BillType /\ sub' \in SubType
         /\ n \in Opened /\ ~bill[n].settled /\ bill'[n].settled
         /\ \A m \in Period \ {n} : bill'[m].settled = bill[m].settled
         /\ \/ Opened' = Opened /\ sub' = sub
            \/ Opened' = Opened /\ ~linked /\ sub'.status = "CANCELED"
            \/ /\ ~linked /\ sub.status # "CANCELED" /\ sub'.status = "ACTIVE"
               /\ Opened = 1..n /\ Opened' = Opened \cup {n + 1}
<1>1. n \in Opened /\ ~bill[n].settled
  BY DEF MaySettle, Opened
<1>2. BillingTypeOK /\ n + 1 \in Period
  <2>1. BillingTypeOK /\ Periods \in Nat
    BY PeriodsAreNaturals DEF BillingInv
  <2>2. n \in 1..(Periods + 1) /\ now \in 1..(Periods + 1)
    BY <2>1 DEF BillingTypeOK, Period
  <2> QED
    BY <2>1, <2>2 DEF Period
<1>3. sub = [status |-> sub.status, period |-> sub.period, cancelAtPeriodEnd |-> sub.cancelAtPeriodEnd]
  BY <1>2 DEF BillingTypeOK
<1>4. CASE ~LocallyManaged \/ (~sub.cancelAtPeriodEnd /\ sub.status = "CANCELED")
  <2>1. sub' = sub /\ bill' = [bill EXCEPT ![n].settled = TRUE]
    BY <1>4 DEF RollOver
  <2>2. sub' \in SubType
    BY <1>2, <2>1 DEF BillingTypeOK, SubType
  <2> QED
    BY <1>1, <1>2, <2>1, <2>2, SettlingUpdates
<1>5. CASE LocallyManaged /\ sub.cancelAtPeriodEnd
  <2>1. /\ sub' = [sub EXCEPT !.status = "CANCELED", !.cancelAtPeriodEnd = FALSE]
        /\ bill' = [bill EXCEPT ![n].settled = TRUE]
    BY <1>5 DEF RollOver
  <2>2. sub' = [status |-> "CANCELED", period |-> sub.period, cancelAtPeriodEnd |-> FALSE]
    BY <1>3, <2>1
  <2>3. sub' \in SubType /\ sub'.status = "CANCELED" /\ ~linked
    BY <1>2, <1>5, <2>2 DEF BillingTypeOK, SubType, LocallyManaged
  <2> QED
    BY <1>1, <1>2, <2>1, <2>3, SettlingUpdates
<1>6. CASE LocallyManaged /\ ~sub.cancelAtPeriodEnd /\ sub.status # "CANCELED"
  <2>1. /\ sub' = [sub EXCEPT !.status = "ACTIVE", !.period = n + 1]
        /\ bill' = [bill EXCEPT ![n].settled = TRUE,
                                ![n + 1] = Bill("PAID", bill[n + 1].copies + 1)]
    BY <1>6 DEF RollOver
  <2>2. sub' = [status |-> "ACTIVE", period |-> n + 1, cancelAtPeriodEnd |-> sub.cancelAtPeriodEnd]
    BY <1>3, <2>1
  <2>3. sub' \in SubType /\ sub'.status = "ACTIVE" /\ ~linked
    BY <1>2, <1>6, <2>2, OverageAssumption DEF BillingTypeOK, SubType, LocallyManaged, Period
  <2>4. Opened = 1..n /\ n + 1 \notin Opened
    BY <1>1, <2>3, RollsFromLast
  <2>5. ~bill[n + 1].settled
    BY <1>2, <2>4 DEF BillingInv, SettledRows
  <2>6. /\ bill' \in BillType
        /\ bill'[n].settled /\ ~bill'[n + 1].settled
        /\ Opened' = Opened \cup {n + 1}
        /\ \A m \in Period \ {n, n + 1} : bill'[m] = bill[m]
    BY <1>2, <2>1, RollingUpdates
  <2>7. ASSUME NEW m \in Period \ {n} PROVE bill'[m].settled = bill[m].settled
    <3>1. CASE m = n + 1
      <4>1. bill[m].settled \in BOOLEAN /\ bill'[m].settled \in BOOLEAN
        BY <1>2, <2>6 DEF BillingTypeOK, BillType
      <4> QED
        BY <2>5, <2>6, <3>1, <4>1
    <3>2. CASE m # n + 1
      BY <2>6, <3>2
    <3> QED
      BY <3>1, <3>2
  <2> QED
    BY <1>1, <1>6, <2>3, <2>4, <2>6, <2>7
<1> QED
  BY <1>4, <1>5, <1>6

LEMMA SettlingKeeps ==
  ASSUME BillingInv, NEW n \in Period, n < now, MaySettle(n), RollOver(n),
         UNCHANGED <<linked, now, setup, counted>>,
         over' = IF BuildSettlement(counted[n]) > 0 /\ over[n].status = "NONE"
                   THEN [over EXCEPT ![n] = [status |-> "DRAFT",
                                             units |-> BuildSettlement(counted[n]), ext |-> 0]]
                   ELSE over
  PROVE  RowsKeep /\ Grows /\ Settles(n)
<1> DEFINE units == BuildSettlement(counted[n])
<1>1. BillingTypeOK /\ units \in Nat
  <2>1. BillingTypeOK /\ counted[n] \in Nat
    BY DEF BillingInv, BillingTypeOK
  <2> QED
    BY <2>1, SettlementBilled
<1>2. /\ bill' \in BillType /\ sub' \in SubType
      /\ n \in Opened /\ ~bill[n].settled /\ bill'[n].settled
      /\ \A m \in Period \ {n} : bill'[m].settled = bill[m].settled
      /\ \/ Opened' = Opened /\ sub' = sub
         \/ Opened' = Opened /\ ~linked /\ sub'.status = "CANCELED"
         \/ /\ ~linked /\ sub.status # "CANCELED" /\ sub'.status = "ACTIVE"
            /\ Opened = 1..n /\ Opened' = Opened \cup {n + 1}
  BY RollOverSettles
<1>3. over[n].status = "NONE" /\ over[n].units = 0
  BY <1>2 DEF BillingInv, SettledRows
<1>4. /\ over' \in OverType
      /\ over'[n].units = units
      /\ over'[n].status = "NONE" => over'[n].units = 0
      /\ \A m \in Period \ {n} : over'[m] = over[m]
  <2>1. CASE units > 0
    <3>1. over' = [over EXCEPT ![n] = [status |-> "DRAFT", units |-> units, ext |-> 0]]
      BY <1>3, <2>1
    <3> HIDE DEF units
    <3> QED
      BY <1>1, <3>1 DEF BillingTypeOK, OverType, InvoiceStatus
  <2>2. CASE ~(units > 0)
    <3>1. over' = over /\ units = 0
      BY <1>1, <2>2
    <3> QED
      BY <1>1, <1>3, <3>1 DEF BillingTypeOK, OverType
  <2> QED
    BY <2>1, <2>2
<1>5. Settles(n)
  BY <1>2, <1>4 DEF Settles
<1>6. OpenedInOrder'
  <2>1. PICK k \in 0..now : Opened = 1..k
    BY DEF BillingInv, OpenedInOrder
  <2>2. now \in Nat /\ n \in Nat /\ linked' = linked /\ now' = now
    BY <1>1, PeriodsAreNaturals DEF BillingTypeOK
  <2>3. \A m \in Opened : m \in Period /\ (bill[m].settled => bill'[m].settled)
    BY <1>2 DEF Opened
  <2>4. CASE Opened' = Opened
    BY <2>1, <2>2, <2>3, <2>4 DEF BillingInv, OpenedInOrder
  <2>5. CASE ~linked /\ Opened = 1..n /\ Opened' = Opened \cup {n + 1}
    <3>1. Opened' = 1..(n + 1) /\ n + 1 \in 0..now'
      BY <2>2, <2>5
    <3>2. ASSUME NEW m \in Opened', m + 1 \in Opened' PROVE bill'[m].settled
      <4>1. m = n \/ (m \in Opened /\ m + 1 \in Opened)
        BY <2>2, <2>5, <3>1, <3>2
      <4> QED
        BY <1>2, <2>3, <2>5, <4>1 DEF BillingInv, OpenedInOrder
    <3> QED
      BY <3>1, <3>2 DEF OpenedInOrder
  <2> QED
    BY <1>2, <2>4, <2>5
<1>7. SettledRows'
  <2>1. Opened \subseteq Opened'
    BY <1>2
  <2>2. ASSUME NEW m \in Period
        PROVE  /\ bill'[m].settled => m \in Opened'
               /\ over'[m].status # "NONE" => bill'[m].settled
               /\ over'[m].status = "NONE" => over'[m].units = 0
    <3>1. CASE m = n
      BY <1>2, <1>4, <2>1, <3>1
    <3>2. CASE m # n
      BY <1>2, <1>4, <2>1, <3>2 DEF BillingInv, SettledRows
    <3> QED
      BY <3>1, <3>2
  <2> QED
    BY <2>2 DEF SettledRows
<1>8. SetupIsFirst'
  <2>1. now \in Nat /\ n \in Nat \ {0} /\ now' > 1
    BY <1>1, PeriodsAreNaturals DEF BillingTypeOK
  <2>2. 1 \in Opened
    <3>1. PICK k \in 0..now : Opened = 1..k
      BY DEF BillingInv, OpenedInOrder
    <3> QED
      BY <1>2, <2>1, <3>1
  <2> QED
    BY <2>1, <2>2 DEF BillingInv, SetupIsFirst
<1>9. Grows
  <2>1. \A m \in Period : over[m].status # "NONE" => over'[m].status # "NONE"
    BY <1>3, <1>4
  <2> QED
    BY <1>1, <2>1, PeriodsAreNaturals DEF Grows, BillingTypeOK
<1> QED
  BY <1>1, <1>2, <1>4, <1>5, <1>6, <1>7, <1>8, <1>9 DEF RowsKeep, BillingTypeOK

LEMMA MaterializeKeeps ==
  ASSUME BillingInv, NEW w \in Worker, Materialize(w)
  PROVE  /\ RowsKeep /\ Grows /\ worker' \in WorkerType /\ CyclesLookBack'
         /\ UNCHANGED rowVars \/ \E n \in Period : Settles(n) /\ UNCHANGED <<linked, now, counted>>
<1> DEFINE n == Current(w)
<1>1. BillingTypeOK /\ CyclesLookBack /\ CycleIsSound(w)
  BY DEF BillingInv, CyclesLookBack
<1>2. worker[w].todo # {} /\ \A m \in worker[w].todo : m < now
  BY <1>1 DEF CycleIsSound, At, Materialize
<1>3. worker[w].todo \in SUBSET Period /\ n \in worker[w].todo
  BY <1>1, <1>2, CurrentIsLeft DEF BillingTypeOK
<1>4. RowsKeep /\ Grows /\ (UNCHANGED rowVars \/ Settles(n))
  <2>1. CASE MaySettle(n)
    BY <1>2, <1>3, <2>1, SettlingKeeps DEF Materialize
  <2>2. CASE ~MaySettle(n)
    <3>1. UNCHANGED rowVars
      BY <2>2 DEF Materialize, rowVars
    <3> QED
      BY <3>1, RowsUntouched
  <2> QED
    BY <2>1, <2>2
<1>5. worker' \in WorkerType /\ CyclesLookBack'
  <2> DEFINE todo == worker[w].todo \ {n}
  <2>1. todo \in SUBSET Period /\ Work(w, todo, "settling", "settled")
    BY <1>3 DEF Materialize, Advance
  <2>2. \A m \in todo : m < now'
    BY <1>2 DEF Materialize
  <2> HIDE DEF todo
  <2> QED
    BY <1>1, <1>4, <2>1, <2>2, WorkIsSound
<1> QED
  BY <1>3, <1>4, <1>5 DEF Materialize

-----------------------------------------------------------------------------
(* The steps of a cycle that leave the rows alone. *)

LEMMA AdvanceIsSound ==
  ASSUME BillingInv, Grows, NEW w \in Worker, Advance(w, "reading", "idle")
  PROVE  worker' \in WorkerType /\ CyclesLookBack'
<1> DEFINE todo == worker[w].todo \ {Current(w)}
<1>1. todo \in SUBSET Period /\ Work(w, todo, "reading", "idle")
  BY DEF Advance, BillingInv, BillingTypeOK
<1> HIDE DEF todo
<1> QED
  BY <1>1, WorkIsSound DEF BillingInv

LEMMA AcquireIsSound ==
  ASSUME BillingInv, Grows, NEW w \in Worker, Acquire(w)
  PROVE  worker' \in WorkerType /\ CyclesLookBack'
<1>1. Due \in SUBSET Period /\ Work(w, Due, "settling", "settled")
  BY DEF Acquire, Due
<1>2. \A n \in Due : n < now'
  BY DEF Due, Acquire
<1> QED
  BY <1>1, <1>2, WorkIsSound DEF BillingInv

LEMMA FetchPendingIsSound ==
  ASSUME BillingInv, Grows, NEW w \in Worker, FetchPending(w)
  PROVE  worker' \in WorkerType /\ CyclesLookBack'
<1>1. Pending \in SUBSET Period /\ Work(w, Pending, "reading", "idle")
  BY DEF FetchPending, Pending
<1> QED
  BY <1>1, WorkIsSound DEF BillingInv

LEMMA GotoIsCall ==
  ASSUME BillingTypeOK, NEW w \in Worker, NEW pc \in Pc, Goto(w, pc)
  PROVE  worker[w].ext \in Nat /\ worker' = [worker EXCEPT ![w].pc = pc, ![w].ext = worker[w].ext]
<1>1. worker[w] = [pc |-> worker[w].pc, todo |-> worker[w].todo, ext |-> worker[w].ext]
      /\ worker[w].ext \in Nat
  BY DEF BillingTypeOK
<1> QED
  BY <1>1 DEF Goto, BillingTypeOK

LEMMA ReadOverageIsSound ==
  ASSUME BillingInv, Grows, NEW w \in Worker, ReadOverage(w)
  PROVE  worker' \in WorkerType /\ CyclesLookBack'
<1>1. CASE Current(w) \in Pending /\ Goto(w, "item")
  <2>1. worker[w].todo # {}
    BY DEF ReadOverage, At, BillingInv, CyclesLookBack, CycleIsSound
  <2>2. over'[Current(w)].status # "NONE"
    BY <1>1 DEF Pending, ReadOverage
  <2>3. worker[w].ext \in Nat /\ worker' = [worker EXCEPT ![w].pc = "item", ![w].ext = worker[w].ext]
    BY <1>1, GotoIsCall DEF BillingInv, Pc
  <2> QED
    BY <2>1, <2>2, <2>3, CallsAreSound DEF BillingInv
<1>2. CASE Advance(w, "reading", "idle")
  BY <1>2, AdvanceIsSound
<1> QED
  BY <1>1, <1>2 DEF ReadOverage

\* The row a call is about exists and stays.
LEMMA CallHasRow ==
  ASSUME BillingInv, Grows, NEW w \in Worker, worker[w].pc \in {"item", "invoice", "pay", "mark", "write"}
  PROVE  /\ worker[w].todo # {} /\ Current(w) \in Period
         /\ over[Current(w)].status # "NONE" /\ over'[Current(w)].status # "NONE"
<1>1. worker[w].todo # {} /\ over[Current(w)].status # "NONE"
  BY DEF BillingInv, CyclesLookBack, CycleIsSound
<1>2. Current(w) \in worker[w].todo /\ worker[w].todo \subseteq Period
  BY <1>1, CurrentIsLeft DEF BillingInv, BillingTypeOK
<1> QED
  BY <1>1, <1>2 DEF Grows

LEMMA GotoIsSound ==
  ASSUME BillingInv, Grows, NEW w \in Worker, worker[w].pc \in {"item", "invoice", "pay", "mark", "write"},
         NEW pc \in {"invoice", "mark", "write"}, Goto(w, pc)
  PROVE  worker' \in WorkerType /\ CyclesLookBack'
<1>1. worker[w].ext \in Nat /\ worker' = [worker EXCEPT ![w].pc = pc, ![w].ext = worker[w].ext]
  BY GotoIsCall DEF BillingInv, Pc
<1> QED
  BY <1>1, CallHasRow, CallsAreSound DEF BillingInv

-----------------------------------------------------------------------------
(* Invoices at Stripe and what is reported of them. *)

LEMMA CreateInvoiceKeeps ==
  ASSUME BillingInv, Grows, NEW w \in Worker, CreateInvoice(w)
  PROVE  worker' \in WorkerType /\ CyclesLookBack' /\ InvoicesHaveRows' /\ HandlersAreSound'
<1> DEFINE made == [period |-> Current(w), items |-> pending, status |-> "draft"]
<1>1. worker[w].pc = "invoice" /\ inv' = Append(inv, made)
  BY DEF CreateInvoice, At
<1>2. Current(w) \in Period /\ worker[w].todo # {} /\ over'[Current(w)].status # "NONE"
  BY <1>1, CallHasRow
<1>3. inv \in Seq(StripeInvoice) /\ Len(inv) \in Nat /\ DOMAIN inv = 1..Len(inv)
  BY LenProperties DEF BillingInv, InvoicesHaveRows
<1>4. made \in StripeInvoice /\ made.period = Current(w)
  BY <1>2 DEF StripeInvoice, BillingInv, InvoicesHaveRows
<1> HIDE DEF made
<1>5. InvoicesHaveRows'
  <2>1. /\ inv' \in Seq(StripeInvoice) /\ DOMAIN inv' = 1..(Len(inv) + 1)
        /\ \A j \in 1..Len(inv) : inv'[j] = inv[j]
        /\ inv'[Len(inv) + 1] = made
    BY <1>1, <1>3, <1>4, AppendProperties, LenProperties
  <2>2. ASSUME NEW j \in DOMAIN inv' PROVE over'[inv'[j].period].status # "NONE"
    <3>1. CASE j = Len(inv) + 1
      BY <1>2, <1>4, <2>1, <3>1
    <3>2. CASE j # Len(inv) + 1
      <4>1. j \in DOMAIN inv /\ inv'[j] = inv[j]
        BY <1>3, <2>1, <3>2
      <4>2. inv[j].period \in Period /\ over[inv[j].period].status # "NONE"
        BY <4>1, InvoicesAreTyped DEF BillingInv, InvoicesHaveRows
      <4> QED
        BY <4>1, <4>2 DEF Grows
    <3> QED
      BY <3>1, <3>2
  <2>3. pending' \in [Period -> Nat]
    BY DEF CreateInvoice
  <2> QED
    BY <2>1, <2>2, <2>3 DEF InvoicesHaveRows
<1>6. worker' \in WorkerType /\ CyclesLookBack'
  <2>1. worker' = [worker EXCEPT ![w].pc = "pay", ![w].ext = Len(inv) + 1] /\ Len(inv) + 1 \in Nat
    BY <1>3 DEF CreateInvoice
  <2> QED
    BY <1>2, <2>1, CallsAreSound DEF BillingInv
<1>7. HandlersAreSound'
  <2>1. DOMAIN inv \subseteq DOMAIN inv'
    BY <1>1, <1>3, <1>4, AppendProperties, LenProperties
  <2> QED
    BY <2>1, HandlersUntouched DEF CreateInvoice
<1> QED
  BY <1>5, <1>6, <1>7

LEMMA PayInvoiceKeeps ==
  ASSUME BillingInv, Grows, NEW w \in Worker, PayInvoice(w)
  PROVE  InvoicesHaveRows' /\ HandlersAreSound'
<1> DEFINE i == worker[w].ext
<1>1. PICK status \in {"draft", "open", "paid"} : inv' = [inv EXCEPT ![i].status = status]
  BY DEF PayInvoice
<1>2. inv \in Seq(StripeInvoice) /\ DOMAIN inv = 1..Len(inv) /\ pending' \in [Period -> Nat]
  BY LenProperties DEF BillingInv, InvoicesHaveRows, PayInvoice
<1>3. \A j \in DOMAIN inv : inv[j].period \in Period
  BY InvoicesAreTyped DEF BillingInv
<1>4. CASE i \in DOMAIN inv
  <2> DEFINE paid == [period |-> inv[i].period, items |-> inv[i].items, status |-> status]
  <2>1. inv[i] \in StripeInvoice
    BY <1>4, InvoicesAreTyped DEF BillingInv
  <2>2. paid \in StripeInvoice /\ [inv[i] EXCEPT !.status = status] = paid /\ paid.period = inv[i].period
    BY <2>1 DEF StripeInvoice
  <2>3. inv' = [inv EXCEPT ![i] = paid]
    BY <1>1, <2>2
  <2> HIDE DEF paid
  <2>4. /\ inv' \in Seq(StripeInvoice)
        /\ Len(inv') = Len(inv)
        /\ \A j \in 1..Len(inv) : inv'[j] = IF j = i THEN paid ELSE inv[j]
    BY <1>2, <1>4, <2>2, <2>3, ExceptSeq
  <2>5. DOMAIN inv' = DOMAIN inv /\ \A j \in DOMAIN inv : inv'[j].period = inv[j].period
    BY <1>2, <2>2, <2>4, LenProperties
  <2>6. HandlersAreSound'
    BY <2>5, HandlersUntouched DEF PayInvoice
  <2> QED
    BY <1>2, <1>3, <2>4, <2>5, <2>6 DEF InvoicesHaveRows, BillingInv, Grows
<1>5. CASE i \notin DOMAIN inv
  <2>1. inv = [j \in DOMAIN inv |-> inv[j]]
    BY <1>2
  <2>2. inv' = inv
    BY <1>1, <1>5, <2>1
  <2>3. HandlersAreSound'
    BY <2>2, HandlersUntouched DEF PayInvoice
  <2> QED
    BY <1>2, <1>3, <2>2, <2>3 DEF InvoicesHaveRows, BillingInv, Grows
<1> QED
  BY <1>4, <1>5

LEMMA WriteCollectedKeeps ==
  ASSUME BillingInv, NEW w \in Worker, WriteCollected(w)
  PROVE  OverageKept /\ RowsKeep /\ Grows
<1>1. worker[w].pc = "write"
  BY DEF WriteCollected, At
<1>2. Current(w) \in Period /\ over[Current(w)].status # "NONE" /\ worker[w].ext \in Nat
  <2>1. worker[w].todo # {} /\ over[Current(w)].status # "NONE"
    BY <1>1 DEF BillingInv, CyclesLookBack, CycleIsSound
  <2> QED
    BY <2>1, CurrentIsLeft DEF BillingInv, BillingTypeOK
<1>3. CollectedStatus(worker[w].ext) \in InvoiceStatus \ {"NONE"}
  BY DEF CollectedStatus, InvoiceStatus
<1>4. OverageKept
  BY <1>2, <1>3, WritingKeeps DEF BillingInv, WriteCollected
<1>5. sub' \in SubType /\ sub' = sub
  BY DEF WriteCollected, BillingInv, BillingTypeOK, SubType
<1> QED
  BY <1>4, <1>5, OverageKeptIsSound DEF WriteCollected

\* The invoice of a handler and the row it is about.
LEMMA HandlerHasRow ==
  ASSUME BillingInv, NEW h \in Webhook, handler[h].pc # "idle"
  PROVE  LET i == handler[h].inv IN
         /\ i \in DOMAIN inv /\ i \in Nat \ {0} /\ inv[i].period \in Period
         /\ over[inv[i].period].status \in InvoiceStatus \ {"NONE"}
         /\ handler[h].status \in InvoiceStatus \ {"NONE"}
<1> DEFINE i == handler[h].inv
<1>1. i \in DOMAIN inv /\ handler[h].status \in InvoiceStatus \ {"NONE"}
  BY DEF BillingInv, HandlersAreSound
<1>2. i \in Nat \ {0} /\ inv[i].period \in Period
  <2>1. DOMAIN inv = 1..Len(inv) /\ Len(inv) \in Nat
    BY LenProperties DEF BillingInv, InvoicesHaveRows
  <2> QED
    BY <1>1, <2>1, InvoicesAreTyped DEF BillingInv
<1>3. over[inv[i].period].status \in InvoiceStatus \ {"NONE"}
  BY <1>1, <1>2 DEF BillingInv, InvoicesHaveRows, BillingTypeOK
<1> QED
  BY <1>1, <1>2, <1>3

\* A handler moves on, with an invoice and a status.
LEMMA HandlerMoves ==
  ASSUME BillingInv, UNCHANGED <<linked, inv>>, NEW h \in Webhook,
         NEW c \in [pc : {"idle", "read", "write", "access"}, inv : Nat, status : InvoiceStatus],
         c.pc # "idle" => c.inv \in DOMAIN inv /\ c.status # "NONE",
         c.pc = "access" => linked,
         handler' = [handler EXCEPT ![h] = c]
  PROVE  HandlersAreSound'
BY DEF BillingInv, HandlersAreSound

LEMMA HandlerStepIsSound ==
  ASSUME BillingInv, NEW h \in Webhook, HandlerStep(h)
  PROVE  HandlersAreSound'
<1> DEFINE Call == [pc : {"idle", "read", "write", "access"}, inv : Nat, status : InvoiceStatus]
<1>1. inv' = inv /\ linked' = linked
  BY DEF HandlerStep, ResolveInvoice, ReadInvoice, SyncInvoice, SyncAccess, DropEvent, stripeVars
<1>2. CASE handler' = [handler EXCEPT ![h] = NoEvent]
  <2>1. NoEvent \in Call /\ NoEvent.pc = "idle"
    BY DEF NoEvent, InvoiceStatus
  <2> QED
    BY <1>1, <1>2, <2>1, HandlerMoves
<1>3. CASE ResolveInvoice(h)
  <2>0. PICK i \in DOMAIN inv : \E status \in Reported(i) :
          \/ \E pc \in {"read", "access"} :
               /\ pc = "access" => linked
               /\ handler' = [handler EXCEPT ![h] = [pc |-> pc, inv |-> i, status |-> status]]
          \/ handler' = handler
    BY <1>3 DEF ResolveInvoice
  <2>1. PICK status \in Reported(i) :
          \/ \E pc \in {"read", "access"} :
               /\ pc = "access" => linked
               /\ handler' = [handler EXCEPT ![h] = [pc |-> pc, inv |-> i, status |-> status]]
          \/ handler' = handler
    BY <2>0
  <2>2. status \in {"DRAFT", "PAID", "PAST_DUE"} /\ i \in Nat
    BY InvoicesAreTyped DEF Reported, BillingInv
  <2>3. ASSUME NEW pc \in {"read", "access"}, pc = "access" => linked,
               handler' = [handler EXCEPT ![h] = [pc |-> pc, inv |-> i, status |-> status]]
        PROVE  HandlersAreSound'
    <3> DEFINE c == [pc |-> pc, inv |-> i, status |-> status]
    <3>1. c \in Call /\ c.inv \in DOMAIN inv /\ c.status # "NONE"
          /\ (c.pc = "access" => linked)
      BY <2>2, <2>3 DEF InvoiceStatus
    <3>2. handler' = [handler EXCEPT ![h] = c]
      BY <2>3
    <3> HIDE DEF c
    <3> QED
      BY <1>1, <3>1, <3>2, HandlerMoves
  <2>4. CASE handler' = handler
    BY <1>1, <2>4, HandlersUntouched
  <2> QED
    BY <2>1, <2>3, <2>4
<1>4. CASE ReadInvoice(h)
  <2> DEFINE i == handler[h].inv
  <2>1. /\ i \in DOMAIN inv /\ i \in Nat /\ over[inv[i].period].status \in InvoiceStatus \ {"NONE"}
        /\ handler[h].status \in InvoiceStatus \ {"NONE"}
    BY <1>4, HandlerHasRow DEF ReadInvoice
  <2>2. handler[h] = [pc |-> handler[h].pc, inv |-> i, status |-> handler[h].status]
    BY DEF BillingInv, HandlersAreSound
  <2>3. handler' = [handler EXCEPT ![h] = NoEvent]
        \/ \E status \in InvoiceStatus \ {"NONE"} :
             handler' = [handler EXCEPT ![h] = [pc |-> "write", inv |-> i, status |-> status]]
    <3>1. CASE handler[h].status = "DRAFT"
      BY <1>4, <2>1, <3>1 DEF ReadInvoice
    <3>2. CASE handler[h].status # "DRAFT" /\ PaidByAnother(inv[i].period, i)
      BY <1>4, <3>2 DEF ReadInvoice
    <3>3. CASE handler[h].status # "DRAFT" /\ ~PaidByAnother(inv[i].period, i)
      <4>1. handler' = [handler EXCEPT ![h] = [handler[h] EXCEPT !.pc = "write"]]
        BY <1>4, <3>3 DEF ReadInvoice
      <4>2. [handler[h] EXCEPT !.pc = "write"] = [pc |-> "write", inv |-> i, status |-> handler[h].status]
        BY <2>2
      <4> QED
        BY <2>1, <4>1, <4>2
    <3> QED
      BY <3>1, <3>2, <3>3
  <2>4. ASSUME NEW status \in InvoiceStatus \ {"NONE"},
               handler' = [handler EXCEPT ![h] = [pc |-> "write", inv |-> i, status |-> status]]
        PROVE  HandlersAreSound'
    <3> DEFINE c == [pc |-> "write", inv |-> i, status |-> status]
    <3>1. c \in Call /\ c.inv \in DOMAIN inv /\ c.status # "NONE"
          /\ c.pc = "write"
      BY <2>1
    <3>2. handler' = [handler EXCEPT ![h] = c]
      BY <2>4
    <3> HIDE DEF c
    <3> QED
      BY <1>1, <3>1, <3>2, HandlerMoves
  <2> QED
    BY <1>2, <2>3, <2>4
<1> QED
  BY <1>2, <1>3, <1>4 DEF HandlerStep, SyncInvoice, SyncAccess, DropEvent

\* An event of an invoice changes how an amount stands, or the row of a subscription
\* that Stripe manages.
LEMMA HandlerStepKeeps ==
  ASSUME BillingInv, NEW h \in Webhook, HandlerStep(h)
  PROVE  /\ OverageKept /\ RowsKeep /\ Grows
         /\ ~linked => sub' = sub
<1>1. BillingTypeOK /\ sub \in SubType
  BY DEF BillingInv, BillingTypeOK, SubType
<1>2. CASE SyncInvoice(h)
  <2> DEFINE i == handler[h].inv
  <2>1. /\ i \in Nat /\ inv[i].period \in Period /\ over[inv[i].period].status # "NONE"
        /\ handler[h].status \in InvoiceStatus \ {"NONE"}
    BY <1>2, HandlerHasRow DEF SyncInvoice
  <2>2. WriteInvoice(inv[i].period, i, handler[h].status)
    BY <1>2 DEF SyncInvoice
  <2>3. OverageKept
    BY <1>1, <2>1, <2>2, WritingKeeps
  <2> QED
    BY <1>1, <1>2, <2>3, OverageKeptIsSound DEF SyncInvoice
<1>3. CASE SyncAccess(h)
  <2>1. sub = [status |-> sub.status, period |-> sub.period, cancelAtPeriodEnd |-> sub.cancelAtPeriodEnd]
    BY <1>1 DEF SubType
  <2>2. sub' \in SubType
    <3>1. \/ sub' = [status |-> "ACTIVE", period |-> sub.period, cancelAtPeriodEnd |-> sub.cancelAtPeriodEnd]
          \/ sub' = [status |-> "PAST_DUE", period |-> sub.period, cancelAtPeriodEnd |-> sub.cancelAtPeriodEnd]
      BY <1>3, <2>1 DEF SyncAccess
    <3> QED
      BY <1>1, <3>1 DEF SubType
  <2>3. OverageKept
    BY <1>1, <1>3 DEF SyncAccess, OverageKept, BillingTypeOK
  <2>4. linked
    BY <1>3 DEF SyncAccess, BillingInv, HandlersAreSound
  <2> QED
    BY <1>3, <2>2, <2>3, <2>4, OverageKeptIsSound DEF SyncAccess
<1>4. CASE ResolveInvoice(h) \/ ReadInvoice(h) \/ DropEvent(h)
  <2>1. UNCHANGED <<linked, now, bill, setup, counted, over>> /\ sub' = sub
    BY <1>4 DEF ResolveInvoice, ReadInvoice, DropEvent
  <2>2. OverageKept
    BY <1>1, <2>1 DEF OverageKept, BillingTypeOK
  <2> QED
    BY <1>1, <2>1, <2>2, OverageKeptIsSound
<1> QED
  BY <1>2, <1>3, <1>4 DEF HandlerStep

-----------------------------------------------------------------------------
(* The invariant *)

LEMMA BillingInvInit == Init => BillingInv
<1> SUFFICES ASSUME Init PROVE BillingInv
  OBVIOUS
<1>1. Period \subseteq Nat \ {0} /\ 1 \in Period /\ Periods + 1 \in Nat
  BY PeriodsAreNaturals DEF Period
<1>2. \A n \in Period : bill[n] = IF n > 1 THEN Bill("NONE", 0)
                                  ELSE Bill(IF linked THEN "PAID" ELSE "DRAFT", 1)
  BY DEF Init
<1>3. \A n \in Period : /\ bill[n] \in [status : InvoiceStatus, settled : BOOLEAN, copies : Nat]
                        /\ ~bill[n].settled
                        /\ bill[n].status = "PAID" <=> n = 1 /\ linked
  <2> SUFFICES ASSUME NEW n \in Period
               PROVE  /\ bill[n] \in [status : InvoiceStatus, settled : BOOLEAN, copies : Nat]
                      /\ ~bill[n].settled
                      /\ bill[n].status = "PAID" <=> n = 1 /\ linked
    OBVIOUS
  <2>1. n > 1 \/ n = 1
    BY <1>1
  <2>2. CASE n > 1
    <3>1. bill[n] = [status |-> "NONE", settled |-> FALSE, copies |-> 0] /\ n # 1
      BY <1>1, <1>2, <2>2 DEF Bill
    <3> QED
      BY <3>1 DEF InvoiceStatus
  <2>3. CASE n = 1 /\ linked
    <3>1. bill[n] = [status |-> "PAID", settled |-> FALSE, copies |-> 1]
      BY <1>1, <1>2, <2>3 DEF Bill
    <3> QED
      BY <2>3, <3>1 DEF InvoiceStatus
  <2>4. CASE n = 1 /\ ~linked
    <3>1. bill[n] = [status |-> "DRAFT", settled |-> FALSE, copies |-> 1]
      BY <1>1, <1>2, <2>4 DEF Bill
    <3> QED
      BY <2>4, <3>1 DEF InvoiceStatus
  <2> QED
    BY <2>1, <2>2, <2>3, <2>4
<1>4. BillingTypeOK
  <2>1. bill \in [Period -> [status : InvoiceStatus, settled : BOOLEAN, copies : Nat]]
    <3>1. bill = [n \in Period |-> bill[n]]
      BY DEF Init
    <3> QED
      BY <1>3, <3>1
  <2>2. over \in [Period -> [status : InvoiceStatus, units : Nat, ext : Nat]]
    BY DEF Init, InvoiceStatus
  <2>3. worker \in [Worker -> [pc : Pc, todo : SUBSET Period, ext : Nat]]
    BY DEF Init, Idle, Pc
  <2>4. sub \in [status : {"PENDING", "ACTIVE", "PAST_DUE", "CANCELED"},
                 period : 0..(Periods + 1), cancelAtPeriodEnd : BOOLEAN]
    BY <1>1 DEF Init
  <2> QED
    BY <1>1, <2>1, <2>2, <2>3, <2>4 DEF Init, BillingTypeOK
<1>5. Opened = IF linked THEN 1..1 ELSE 1..0
  <2>1. \A n : n \in Opened <=> n = 1 /\ linked
    BY <1>1, <1>3 DEF Opened
  <2> QED
    BY <2>1
<1>6. OpenedInOrder
  <2>1. 0 \in 0..now /\ 1 \in 0..now
    BY DEF Init
  <2>2. CASE linked
    BY <1>5, <2>1, <2>2 DEF OpenedInOrder
  <2>3. CASE ~linked
    <3>1. Opened = 1..0 /\ Opened = {}
      BY <1>5, <2>3
    <3> QED
      BY <2>1, <3>1 DEF OpenedInOrder
  <2> QED
    BY <2>2, <2>3
<1>7. SettledRows
  BY <1>3 DEF SettledRows, Init
<1>8. SetupIsFirst
  BY <1>5 DEF SetupIsFirst, Init, SetupSession
<1>9. CyclesLookBack
  BY DEF CyclesLookBack, CycleIsSound, At, Init, Idle
<1>10. InvoicesHaveRows
  BY EmptySeq DEF InvoicesHaveRows, Init
<1>11. HandlersAreSound
  BY DEF HandlersAreSound, Init, NoEvent, InvoiceStatus
<1> QED
  BY <1>4, <1>6, <1>7, <1>8, <1>9, <1>10, <1>11 DEF BillingInv

\* The steps outside the worker leave its cycles and Stripe's invoices alone.
LEMMA OutsideKeeps ==
  ASSUME BillingInv, RowsKeep, Grows, UNCHANGED <<linked, handler, stripeVars, worker>>
  PROVE  BillingInv'
<1>1. HandlersAreSound'
  BY HandlersUntouched DEF stripeVars
<1> QED
  BY <1>1, CyclesUntouched, InvoicesUntouched, InvSplits

LEMMA CyclesKeep ==
  ASSUME BillingInv, RowsKeep, Grows, UNCHANGED <<linked, handler, stripeVars>>,
         worker' \in WorkerType, CyclesLookBack'
  PROVE  BillingInv'
<1>1. HandlersAreSound'
  BY HandlersUntouched DEF stripeVars
<1> QED
  BY <1>1, InvoicesUntouched, InvSplits

LEMMA HandlerKeeps ==
  ASSUME BillingInv, NEW h \in Webhook, HandlerStep(h)
  PROVE  BillingInv'
<1>1. RowsKeep /\ Grows /\ HandlersAreSound'
  BY HandlerStepKeeps, HandlerStepIsSound
<1>2. UNCHANGED <<stripeVars, worker>>
  BY DEF HandlerStep, ResolveInvoice, ReadInvoice, SyncInvoice, SyncAccess, DropEvent
<1> QED
  BY <1>1, <1>2, CyclesUntouched, InvoicesUntouched, InvSplits

LEMMA CancelSubscriptionKeeps ==
  ASSUME BillingInv, CancelSubscription \/ StripeEnds
  PROVE  RowsKeep /\ Grows /\ (~linked => sub'.status = sub.status)
<1>1. sub = [status |-> sub.status, period |-> sub.period, cancelAtPeriodEnd |-> sub.cancelAtPeriodEnd]
  BY DEF BillingInv, BillingTypeOK
<1>2. \/ sub' = [status |-> sub.status, period |-> sub.period, cancelAtPeriodEnd |-> TRUE]
      \/ linked /\ sub' = [status |-> "CANCELED", period |-> sub.period, cancelAtPeriodEnd |-> FALSE]
  BY <1>1 DEF CancelSubscription, StripeEnds
<1>3. sub' \in SubType /\ (~linked => sub'.status = sub.status)
  <2>1. /\ sub.status \in {"PENDING", "ACTIVE", "PAST_DUE", "CANCELED"}
        /\ sub.period \in 0..(Periods + 1)
    BY DEF BillingInv, BillingTypeOK
  <2> QED
    <3>1. CASE sub' = [status |-> sub.status, period |-> sub.period, cancelAtPeriodEnd |-> TRUE]
      BY <2>1, <3>1 DEF SubType
    <3>2. CASE linked /\ sub' = [status |-> "CANCELED", period |-> sub.period, cancelAtPeriodEnd |-> FALSE]
      BY <2>1, <3>2 DEF SubType
    <3> QED
      BY <1>2, <3>1, <3>2
<1>4. UNCHANGED <<linked, now, bill, setup, counted, over>>
  BY DEF CancelSubscription, StripeEnds
<1> QED
  BY <1>3, <1>4, SubscriptionChanges

\* A row is given up, by an error or with the process.
LEMMA GivingUpIsSound ==
  ASSUME BillingInv, Grows, now' = now, NEW w \in Worker, FailRow(w) \/ Crash(w)
  PROVE  worker' \in WorkerType /\ CyclesLookBack'
<1>1. CASE At(w, "settling") /\ Advance(w, "settling", "settled")
  <2> DEFINE todo == worker[w].todo \ {Current(w)}
  <2>1. todo \in SUBSET Period /\ Work(w, todo, "settling", "settled")
    BY <1>1 DEF Advance, BillingInv, BillingTypeOK
  <2>2. \A n \in todo : n < now'
    BY <1>1 DEF BillingInv, CyclesLookBack, CycleIsSound
  <2> HIDE DEF todo
  <2> QED
    BY <2>1, <2>2, WorkIsSound DEF BillingInv
<1>2. CASE Advance(w, "reading", "idle")
  BY <1>2, AdvanceIsSound
<1>3. CASE Crash(w)
  <2>1. worker' = [worker EXCEPT ![w] = Idle] /\ Idle \in [pc : Pc, todo : SUBSET Period, ext : Nat]
    BY <1>3 DEF Crash, Idle, Pc
  <2>2. worker'[w] = Idle
    BY <2>1 DEF BillingInv, BillingTypeOK
  <2>3. CycleIsSound(w)'
    BY <2>2 DEF CycleIsSound, At, Idle
  <2> QED
    BY <2>1, <2>3, OneCycleMoves DEF BillingInv
<1> QED
  BY <1>1, <1>2, <1>3 DEF FailRow

LEMMA WorkerStepKeeps ==
  ASSUME BillingInv, NEW w \in Worker, WorkerStep(w) \/ FailRow(w) \/ Crash(w)
  PROVE  BillingInv'
<1>1. CASE Materialize(w)
  <2>1. UNCHANGED <<linked, handler, stripeVars>>
    BY <1>1 DEF Materialize
  <2> QED
    BY <1>1, <2>1, MaterializeKeeps, CyclesKeep
<1>2. CASE Acquire(w) \/ FetchPending(w) \/ ReadOverage(w) \/ FailRow(w) \/ Crash(w)
  <2>1. UNCHANGED rowVars /\ UNCHANGED <<linked, handler, stripeVars>>
    BY <1>2 DEF Acquire, FetchPending, ReadOverage, FailRow, Crash, rowVars
  <2>2. RowsKeep /\ Grows /\ now' = now
    BY <2>1, RowsUntouched DEF rowVars
  <2>3. worker' \in WorkerType /\ CyclesLookBack'
    BY <1>2, <2>2, AcquireIsSound, FetchPendingIsSound, ReadOverageIsSound, GivingUpIsSound
  <2> QED
    BY <2>1, <2>2, <2>3, CyclesKeep
<1>3. CASE CreateItem(w)
  <2>1. UNCHANGED rowVars /\ inv' = inv /\ UNCHANGED <<linked, handler>>
    BY <1>3 DEF CreateItem, rowVars
  <2>2. RowsKeep /\ Grows
    BY <2>1, RowsUntouched
  <2>3. worker' \in WorkerType /\ CyclesLookBack'
    BY <1>3, <2>2, GotoIsSound DEF CreateItem, At
  <2>4. InvoicesHaveRows'
    <3>1. pending' \in [Period -> Nat]
      <4>1. pending \in [Period -> Nat] /\ Current(w) \in Period
        BY <1>3, <2>2, CallHasRow DEF CreateItem, At, BillingInv, InvoicesHaveRows
      <4>2. pending' = [pending EXCEPT ![Current(w)] = pending[Current(w)] + 1]
        BY <1>3 DEF CreateItem
      <4> QED
        BY <4>1, <4>2
    <3>2. over' = over
      BY <2>1 DEF rowVars
    <3> QED
      BY <2>1, <3>1, <3>2 DEF BillingInv, InvoicesHaveRows
  <2>5. HandlersAreSound'
    BY <2>1, HandlersUntouched
  <2> QED
    BY <2>2, <2>3, <2>4, <2>5, InvSplits
<1>4. CASE CreateInvoice(w)
  <2>1. RowsKeep /\ Grows
    BY <1>4, RowsUntouched DEF CreateInvoice, rowVars
  <2> QED
    BY <1>4, <2>1, CreateInvoiceKeeps, InvSplits
<1>5. CASE PayInvoice(w)
  <2>1. RowsKeep /\ Grows
    BY <1>5, RowsUntouched DEF PayInvoice, rowVars
  <2>2. worker' \in WorkerType /\ CyclesLookBack'
    BY <1>5, <2>1, GotoIsSound DEF PayInvoice, At
  <2> QED
    BY <1>5, <2>1, <2>2, PayInvoiceKeeps, InvSplits
<1>6. CASE MarkCollected(w)
  <2>1. UNCHANGED rowVars /\ UNCHANGED <<linked, handler, stripeVars>>
    BY <1>6 DEF MarkCollected, rowVars
  <2>2. RowsKeep /\ Grows
    BY <2>1, RowsUntouched
  <2>3. worker' \in WorkerType /\ CyclesLookBack'
    BY <1>6, <2>2, AdvanceIsSound, GotoIsSound DEF MarkCollected, At
  <2> QED
    BY <2>1, <2>2, <2>3, CyclesKeep
<1>7. CASE WriteCollected(w)
  <2>1. RowsKeep /\ Grows
    BY <1>7, WriteCollectedKeeps
  <2>2. worker' \in WorkerType /\ CyclesLookBack' /\ UNCHANGED <<linked, handler, stripeVars>>
    BY <1>7, <2>1, AdvanceIsSound DEF WriteCollected
  <2> QED
    BY <2>1, <2>2, CyclesKeep
<1> QED
  BY <1>1, <1>2, <1>3, <1>4, <1>5, <1>6, <1>7 DEF WorkerStep

LEMMA BillingInvNext == BillingInv /\ [Next]_vars => BillingInv'
<1> SUFFICES ASSUME BillingInv, [Next]_vars PROVE BillingInv'
  OBVIOUS
<1>1. CASE NextPeriod
  BY <1>1, NextPeriodKeeps, OutsideKeeps DEF NextPeriod
<1>2. CASE FinishSetup
  BY <1>2, FinishSetupKeeps, OutsideKeeps DEF FinishSetup
<1>3. CASE HandleSetupEvent
  BY <1>3, HandleSetupEventKeeps, OutsideKeeps DEF HandleSetupEvent
<1>4. CASE CancelSubscription \/ StripeEnds
  BY <1>4, CancelSubscriptionKeeps, OutsideKeeps DEF CancelSubscription, StripeEnds
<1>5. CASE StripeRenews
  BY <1>5, StripeRenewsKeeps, OutsideKeeps DEF StripeRenews
<1>6. ASSUME NEW n \in Period, RecordUsage(n) PROVE BillingInv'
  BY <1>6, RecordUsageKeeps, OutsideKeeps DEF RecordUsage
<1>7. ASSUME NEW w \in Worker, WorkerStep(w) \/ FailRow(w) \/ Crash(w) PROVE BillingInv'
  BY <1>7, WorkerStepKeeps
<1>8. CASE LeaseLapse \/ UNCHANGED vars
  <2>1. UNCHANGED rowVars /\ UNCHANGED <<linked, handler, stripeVars, worker>>
    BY <1>8 DEF LeaseLapse, vars, rowVars, stripeVars
  <2> QED
    BY <2>1, RowsUntouched, OutsideKeeps
<1>9. ASSUME NEW h \in Webhook, HandlerStep(h) PROVE BillingInv'
  BY <1>9, HandlerKeeps
<1> QED
  BY <1>1, <1>2, <1>3, <1>4, <1>5, <1>6, <1>7, <1>8, <1>9 DEF Next

\* Every period is settled after its end and opened in turn: the rows, the
\* cycles and Stripe's invoices stay in step (processDueOverageCollection).
THEOREM BillingCorrect == Spec => []BillingInv
<1> QED
  BY BillingInvInit, BillingInvNext, PTL DEF Spec

-----------------------------------------------------------------------------
(* The refinement *)

opened == Cardinality(Opened)
billed == [n \in Period |-> IF bill[n].settled THEN {over[n].units} ELSE {}]
ended == ~linked /\ sub.status = "CANCELED"

\* Opened in order, the number of open periods tells which they are.
LEMMA OpenedCounted ==
  ASSUME NEW k \in Nat
  PROVE  Cardinality(1..k) = k
<1>1. Cardinality(1..k) = IF 1 > k THEN 0 ELSE k - 1 + 1
  BY FS_Interval
<1> QED
  BY <1>1

LEMMA OpenedInTurn ==
  ASSUME BillingInv
  PROVE  opened \in 0..now /\ Opened = 1..opened
<1>1. PICK k \in 0..now : Opened = 1..k
  BY DEF BillingInv, OpenedInOrder
<1>2. now \in Nat
  BY PeriodsAreNaturals DEF BillingInv, BillingTypeOK
<1>3. k \in Nat
  BY <1>1, <1>2
<1>4. opened = k
  BY <1>1, <1>3, OpenedCounted DEF opened
<1> QED
  BY <1>1, <1>4

\* One more period than before.
LEMMA OneMoreOpen ==
  ASSUME BillingInv, Opened' = Opened \cup {opened + 1}
  PROVE  opened' = opened + 1
<1>1. opened \in Nat /\ Opened = 1..opened
  BY OpenedInTurn, PeriodsAreNaturals DEF BillingInv, BillingTypeOK
<1>2. Opened' = 1..(opened + 1)
  BY <1>1
<1>3. Cardinality(1..(opened + 1)) = opened + 1
  BY <1>1, OpenedCounted
<1> QED
  BY <1>2, <1>3 DEF opened

LEMMA BillingMapsInit == Init => Billing!Init
<1> SUFFICES ASSUME Init PROVE Billing!Init
  OBVIOUS
<1>1. BillingInv
  BY BillingInvInit
<1>2. now = 1 /\ opened \in {0, 1}
  <2>1. now = 1
    BY DEF Init
  <2> QED
    BY <1>1, <2>1, OpenedInTurn
<1>3. \A n \in Period : ~bill[n].settled
  BY DEF Init, Bill
<1>4. billed = [n \in 1..(Periods + 1) |-> {}]
  BY <1>3 DEF billed, Period
<1>5. ended = FALSE
  BY DEF Init, ended
<1>6. counted = [n \in 1..(Periods + 1) |-> 0]
  BY DEF Init, Period
<1> QED
  BY <1>2, <1>4, <1>5, <1>6 DEF Billing!Init, opened, billed, ended

\* What a step shows of itself.
AmountsStay == \A n \in Period : /\ bill'[n].settled = bill[n].settled
                                 /\ over'[n].units = over[n].units

LEMMA AmountsUntouched ==
  ASSUME AmountsStay
  PROVE  billed' = billed
BY DEF AmountsStay, billed

LEMMA MapsToStutter ==
  ASSUME AmountsStay, now' = now, counted' = counted, Opened' = Opened, ended' = ended
  PROVE  UNCHANGED Billing!vars
<1>1. opened' = opened /\ billed' = billed
  BY AmountsUntouched DEF opened
<1> QED
  BY <1>1 DEF Billing!vars, opened, billed, ended

LEMMA MapsToOpen ==
  ASSUME BillingInv, AmountsStay, now' = now, counted' = counted, ~ended, ended' = ended,
         Opened' = Opened \cup {opened + 1}, opened < now
  PROVE  Billing!Open
<1>1. billed' = billed /\ opened' = opened + 1
  BY AmountsUntouched, OneMoreOpen
<1> QED
  BY <1>1 DEF Billing!Open, opened, billed, ended

LEMMA MapsToSettle ==
  ASSUME BillingInv, RowsKeep, NEW n \in Period, Settles(n), UNCHANGED <<linked, now, counted>>
  PROVE  \E m \in 1..(Periods + 1) : Billing!Settle(m)
<1> DEFINE units == BuildSettlement(counted[n])
<1>1. counted[n] \in Nat /\ n \in Nat \ {0} /\ opened \in Nat
  BY OpenedInTurn, PeriodsAreNaturals DEF BillingInv, BillingTypeOK
<1>2. n <= opened /\ n < now
  <2>1. n \in 1..opened
    BY OpenedInTurn DEF Settles
  <2> QED
    BY <2>1 DEF Settles
<1>3. billed[n] = {}
  BY DEF Settles, billed
<1>4. units \in 0..counted[n] /\ Billing!Covers(units, counted[n])
  BY <1>1, SettlementBilled, SettlementCovers
<1> HIDE DEF units
<1>5. billed' = [billed EXCEPT ![n] = {units}]
  <2>1. billed'[n] = {units}
    BY DEF Settles, billed, units
  <2>2. \A m \in Period \ {n} : billed'[m] = billed[m]
    BY DEF Settles, billed
  <2>3. billed' = [m \in Period |-> billed'[m]] /\ billed = [m \in Period |-> billed[m]]
    BY DEF billed
  <2> QED
    BY <2>1, <2>2, <2>3
<1>6. \/ opened' = opened /\ ended' = ended
      \/ ~ended /\ n = opened /\ opened' = opened + 1 /\ ended' = ended
      \/ ended' = TRUE /\ opened' = opened
  <2>1. CASE Opened' = Opened /\ sub' = sub
    BY <2>1 DEF opened, ended
  <2>2. CASE Opened' = Opened /\ ~linked /\ sub'.status = "CANCELED"
    BY <2>2 DEF opened, ended
  <2>3. CASE /\ ~linked /\ sub.status # "CANCELED" /\ sub'.status = "ACTIVE"
             /\ Opened = 1..n /\ Opened' = Opened \cup {n + 1}
    <3>1. n = opened
      <4>1. Cardinality(1..n) = n
        BY <1>1, OpenedCounted
      <4> QED
        BY <2>3, <4>1 DEF opened
    <3>2. opened' = opened + 1
      BY <2>3, <3>1, OneMoreOpen
    <3>3. ~ended /\ ended' = ended
      BY <2>3 DEF ended
    <3> QED
      BY <3>1, <3>2, <3>3
  <2> QED
    BY <2>1, <2>2, <2>3 DEF Settles
<1>7. Billing!Settle(n)
  BY <1>2, <1>3, <1>4, <1>5, <1>6 DEF Billing!Settle, opened, billed, ended
<1> QED
  BY <1>7 DEF Period

LEMMA RowsUntouchedStutter ==
  ASSUME UNCHANGED rowVars
  PROVE  UNCHANGED Billing!vars
<1>1. AmountsStay /\ Opened' = Opened /\ ended' = ended
  BY DEF rowVars, AmountsStay, Opened, ended
<1> QED
  BY <1>1, MapsToStutter DEF rowVars

\* The first session that is finished opens the first period; its events that come
\* again find it open, and one that expired opens nothing.
LEMMA HandleSetupEventMaps ==
  ASSUME BillingInv, HandleSetupEvent
  PROVE  Billing!Open \/ UNCHANGED Billing!vars
<1> DEFINE status == IF setup = "completed" THEN "PAID" ELSE "VOID"
<1>1. 1 \in Period /\ now = 1 /\ ~linked /\ linked' = linked
  BY OverageAssumption DEF Period, HandleSetupEvent, BillingInv, SetupIsFirst, BillingTypeOK
<1>2. /\ \A m \in Period : bill'[m].settled = bill[m].settled
      /\ Opened' = IF setup = "completed" THEN Opened \cup {1} ELSE Opened \ {1}
  <2>1. bill' = [bill EXCEPT ![1].status = status] /\ status \in InvoiceStatus
    BY DEF HandleSetupEvent, InvoiceStatus
  <2> QED
    BY <1>1, <2>1, StatusUpdates DEF BillingInv
<1>3. AmountsStay
  BY <1>2 DEF AmountsStay, HandleSetupEvent
<1>4. ~ended /\ ended' = ended
  <2>1. ~ended
    BY <1>1 DEF BillingInv, SetupIsFirst, ended
  <2>2. sub'.status \in {"ACTIVE", "PAST_DUE"}
    <3>1. sub = [status |-> sub.status, period |-> sub.period, cancelAtPeriodEnd |-> sub.cancelAtPeriodEnd]
      BY DEF BillingInv, BillingTypeOK
    <3> QED
      BY <3>1 DEF HandleSetupEvent
  <2> QED
    BY <2>1, <2>2 DEF ended
<1>5. now' = now /\ counted' = counted
  BY DEF HandleSetupEvent
<1>6. opened \in 0..1 /\ Opened = 1..opened
  BY <1>1, OpenedInTurn
<1>7. CASE setup = "completed" /\ opened = 0
  <2>1. Opened' = Opened \cup {opened + 1} /\ opened < now
    BY <1>1, <1>2, <1>7
  <2> QED
    BY <1>3, <1>4, <1>5, <2>1, MapsToOpen
<1>8. CASE setup = "completed" /\ opened = 1
  <2>1. Opened' = Opened
    BY <1>2, <1>6, <1>8
  <2> QED
    BY <1>3, <1>4, <1>5, <2>1, MapsToStutter
<1>9. CASE setup # "completed"
  <2>1. 1 \notin Opened
    BY <1>9 DEF HandleSetupEvent, BillingInv, SetupIsFirst
  <2>2. Opened' = Opened
    BY <1>2, <1>9, <2>1
  <2> QED
    BY <1>3, <1>4, <1>5, <2>2, MapsToStutter
<1> QED
  BY <1>6, <1>7, <1>8, <1>9

LEMMA StripeRenewsMaps ==
  ASSUME BillingInv, StripeRenews
  PROVE  Billing!Open
<1>1. now \in Period /\ now \notin Opened /\ now - 1 \in Opened /\ linked /\ linked'
  BY DEF StripeRenews
<1>2. Opened' = Opened \cup {now}
  BY StripeRenewsKeeps
<1>3. opened \in 0..now /\ Opened = 1..opened /\ now \in Nat
  BY OpenedInTurn, PeriodsAreNaturals DEF BillingInv, BillingTypeOK
<1>4. now = opened + 1 /\ opened < now
  BY <1>1, <1>3
<1>5. AmountsStay
  <2>1. ~bill[now].settled /\ bill[now].settled \in BOOLEAN
    BY <1>1 DEF BillingInv, SettledRows, BillingTypeOK
  <2>2. bill' = [bill EXCEPT ![now] = Bill("PAID", 1)]
    BY DEF StripeRenews
  <2>3. bill'[now].settled = bill[now].settled
    BY <1>1, <2>1, <2>2 DEF Bill, BillingInv, BillingTypeOK
  <2>4. \A m \in Period \ {now} : bill'[m] = bill[m]
    BY <2>2 DEF BillingInv, BillingTypeOK
  <2> QED
    BY <2>3, <2>4 DEF AmountsStay, StripeRenews
<1>6. ~ended /\ ended' = ended
  BY <1>1 DEF ended
<1> QED
  BY <1>2, <1>4, <1>5, <1>6, MapsToOpen DEF StripeRenews

LEMMA NextPeriodMaps ==
  ASSUME BillingInv, NextPeriod
  PROVE  Billing!Pass
<1>1. AmountsStay /\ Opened' = Opened /\ ended' = ended /\ counted' = counted
  BY DEF NextPeriod, AmountsStay, Opened, ended
<1>2. opened' = opened /\ billed' = billed
  BY <1>1, AmountsUntouched DEF opened
<1> QED
  BY <1>1, <1>2 DEF NextPeriod, Billing!Pass, opened, billed, ended

LEMMA RecordUsageMaps ==
  ASSUME BillingInv, NEW n \in Period, RecordUsage(n)
  PROVE  \E m \in 1..(Periods + 1) : Billing!Count(m)
<1>1. AmountsStay /\ Opened' = Opened /\ ended' = ended /\ now' = now
  BY DEF RecordUsage, AmountsStay, Opened, ended
<1>2. opened' = opened /\ billed' = billed
  BY <1>1, AmountsUntouched DEF opened
<1>3. n <= opened
  <2>1. n \in 1..opened /\ opened \in Nat
    BY OpenedInTurn, PeriodsAreNaturals DEF RecordUsage, BillingInv, BillingTypeOK
  <2> QED
    BY <2>1
<1>4. Billing!Count(n)
  BY <1>1, <1>2, <1>3 DEF RecordUsage, Billing!Count, opened, billed, ended
<1> QED
  BY <1>4 DEF Period

LEMMA OverageKeptStutters ==
  ASSUME OverageKept, UNCHANGED <<linked, now, bill, counted>>, ~linked => sub'.status = sub.status
  PROVE  UNCHANGED Billing!vars
<1>1. AmountsStay /\ Opened' = Opened /\ ended' = ended
  BY DEF OverageKept, AmountsStay, Opened, ended
<1> QED
  BY <1>1, MapsToStutter

LEMMA WorkerStepMaps ==
  ASSUME BillingInv, NEW w \in Worker, WorkerStep(w) \/ FailRow(w) \/ Crash(w)
  PROVE  (\E m \in 1..(Periods + 1) : Billing!Settle(m)) \/ UNCHANGED Billing!vars
<1>1. CASE Materialize(w)
  <2>1. \/ UNCHANGED rowVars
        \/ \E n \in Period : Settles(n) /\ UNCHANGED <<linked, now, counted>>
    BY <1>1, MaterializeKeeps
  <2>2. RowsKeep
    BY <1>1, MaterializeKeeps
  <2> QED
    BY <2>1, <2>2, MapsToSettle, RowsUntouchedStutter
<1>2. CASE WriteCollected(w)
  <2>1. OverageKept
    BY <1>2, WriteCollectedKeeps
  <2> QED
    BY <1>2, <2>1, OverageKeptStutters DEF WriteCollected
<1>3. CASE ~Materialize(w) /\ ~WriteCollected(w)
  <2>1. UNCHANGED rowVars
    BY <1>3 DEF WorkerStep, Acquire, FetchPending, ReadOverage, CreateItem, CreateInvoice, PayInvoice,
      MarkCollected, FailRow, Crash, rowVars
  <2> QED
    BY <2>1, RowsUntouchedStutter
<1> QED
  BY <1>1, <1>2, <1>3

LEMMA BillingMapsNext == BillingInv /\ [Next]_vars => [Billing!Next]_(Billing!vars)
<1> SUFFICES ASSUME BillingInv, [Next]_vars PROVE [Billing!Next]_(Billing!vars)
  OBVIOUS
<1>1. CASE NextPeriod
  BY <1>1, NextPeriodMaps DEF Billing!Next
<1>2. CASE HandleSetupEvent
  BY <1>2, HandleSetupEventMaps DEF Billing!Next
<1>3. CASE StripeRenews
  BY <1>3, StripeRenewsMaps DEF Billing!Next
<1>4. ASSUME NEW n \in Period, RecordUsage(n) PROVE [Billing!Next]_(Billing!vars)
  BY <1>4, RecordUsageMaps DEF Billing!Next
<1>5. ASSUME NEW w \in Worker, WorkerStep(w) \/ FailRow(w) \/ Crash(w)
      PROVE  [Billing!Next]_(Billing!vars)
  BY <1>5, WorkerStepMaps DEF Billing!Next
<1>6. CASE CancelSubscription \/ StripeEnds
  <2>1. ~linked => sub'.status = sub.status
    BY <1>6, CancelSubscriptionKeeps
  <2>2. AmountsStay /\ Opened' = Opened /\ ended' = ended
    BY <1>6, <2>1 DEF CancelSubscription, StripeEnds, AmountsStay, Opened, ended
  <2> QED
    BY <1>6, <2>2, MapsToStutter DEF CancelSubscription, StripeEnds
<1>7. CASE FinishSetup
  <2>1. AmountsStay /\ Opened' = Opened /\ ended' = ended
    BY <1>7 DEF FinishSetup, AmountsStay, Opened, ended
  <2> QED
    BY <1>7, <2>1, MapsToStutter DEF FinishSetup
<1>8. ASSUME NEW h \in Webhook, HandlerStep(h) PROVE UNCHANGED Billing!vars
  <2>1. OverageKept /\ (~linked => sub'.status = sub.status)
    BY <1>8, HandlerStepKeeps
  <2>2. UNCHANGED <<linked, now, bill, counted>>
    BY <1>8 DEF HandlerStep, ResolveInvoice, ReadInvoice, SyncInvoice, SyncAccess, DropEvent
  <2> QED
    BY <2>1, <2>2, OverageKeptStutters
<1>9. CASE LeaseLapse \/ UNCHANGED vars
  <2>1. UNCHANGED rowVars
    BY <1>9 DEF LeaseLapse, vars, rowVars
  <2> QED
    BY <2>1, RowsUntouchedStutter
<1> QED
  BY <1>1, <1>2, <1>3, <1>4, <1>5, <1>6, <1>7, <1>8, <1>9 DEF Next

\* Each period is settled once, after it has ended, for exactly the units that
\* exceed the quota of what was counted by then, whatever processes, events and
\* faults there are (materializeSourceInvoice).
THEOREM SettlingRefines == Spec => ImplementsPeriodBilling
<1>1. BillingInv /\ [Next]_vars => [Billing!Next]_(Billing!vars)
  BY BillingMapsNext
<1> QED
  BY <1>1, BillingMapsInit, BillingCorrect, PTL DEF Spec, ImplementsPeriodBilling, Billing!Spec

-----------------------------------------------------------------------------
(* What a row says of its charge. *)

\* A cycle that pays has the invoice it made, for the row it works on, and nobody
\* else is about to pay it.
PaysItsOwn(w) ==
  LET i == worker[w].ext IN
  /\ worker[w].pc \in {"pay", "mark", "write"} => i \in DOMAIN inv /\ inv[i].period = Current(w)
  /\ At(w, "pay") => /\ inv[i].status = "draft"
                     /\ \A v \in Worker \ {w} : At(v, "pay") => worker[v].ext # i

PaymentsAreOwn == \A w \in Worker : PaysItsOwn(w)

\* Stripe was paid an invoice made for period n.
PaidFor(n) == \E i \in DOMAIN inv : inv[i].period = n /\ inv[i].status = "paid"

Recorded(n) ==
  LET i == over[n].ext IN
  /\ i # 0 => i \in DOMAIN inv /\ inv[i].period = n
  /\ over[n].status = "PAID" => i # 0 /\ PaidFor(n)

\* A handler that is going to write PAID has it from Stripe or from the row.
HandlersKnow ==
  \A h \in Webhook : handler[h].pc # "idle" /\ handler[h].status = "PAID" =>
    PaidFor(inv[handler[h].inv].period)

\* An invoice has a row of its own only where the row it was made for carries one.
PhantomsAreSpare ==
  \A i \in phantom : i \in DOMAIN inv /\ over[inv[i].period].ext # 0

ChargeInv == /\ BillingInv /\ PaymentsAreOwn /\ \A n \in Period : Recorded(n)
             /\ HandlersKnow /\ PhantomsAreSpare

\* Invoices are only added, and one that is paid stays paid.
InvoicesGrow ==
  /\ DOMAIN inv \subseteq DOMAIN inv'
  /\ \A i \in DOMAIN inv : /\ inv'[i].period = inv[i].period
                           /\ inv[i].status = "paid" => inv'[i].status = "paid"

LEMMA PaymentsLast ==
  ASSUME NEW n, PaidFor(n), InvoicesGrow
  PROVE  PaidFor(n)'
BY DEF PaidFor, InvoicesGrow

LEMMA RecordStays ==
  ASSUME NEW n \in Period, Recorded(n), InvoicesGrow, over'[n] = over[n]
  PROVE  Recorded(n)'
BY PaymentsLast DEF Recorded, InvoicesGrow

LEMMA HandlersStillKnow ==
  ASSUME BillingInv, HandlersKnow, InvoicesGrow, handler' = handler
  PROVE  HandlersKnow'
<1> SUFFICES ASSUME NEW h \in Webhook, handler[h].pc # "idle", handler[h].status = "PAID"
             PROVE  \E j \in DOMAIN inv' : /\ inv'[j].period = inv'[handler[h].inv].period
                                           /\ inv'[j].status = "paid"
  BY DEF HandlersKnow, PaidFor
<1>1. handler[h].inv \in DOMAIN inv
  BY HandlerHasRow
<1>2. PICK j \in DOMAIN inv : /\ inv[j].period = inv[handler[h].inv].period
                              /\ inv[j].status = "paid"
  BY DEF HandlersKnow, PaidFor
<1> QED
  BY <1>1, <1>2 DEF InvoicesGrow

LEMMA PhantomsStay ==
  ASSUME BillingInv, PhantomsAreSpare, InvoicesGrow, phantom' = phantom,
         \A n \in Period : over[n].ext # 0 => over'[n].ext # 0
  PROVE  PhantomsAreSpare'
<1> SUFFICES ASSUME NEW i \in phantom
             PROVE  i \in DOMAIN inv' /\ over'[inv'[i].period].ext # 0
  BY DEF PhantomsAreSpare
<1>1. i \in DOMAIN inv /\ over[inv[i].period].ext # 0
  BY DEF PhantomsAreSpare
<1>2. inv[i].period \in Period
  BY <1>1, InvoicesAreTyped DEF BillingInv
<1> QED
  BY <1>1, <1>2 DEF InvoicesGrow

LEMMA WritingRecords ==
  ASSUME ChargeInv, NEW n \in Period, NEW i \in DOMAIN inv, inv[i].period = n,
         NEW status, status = "PAID" => PaidFor(n), WriteInvoice(n, i, status), inv' = inv
  PROVE  \A m \in Period : Recorded(m)'
<1>1. InvoicesGrow /\ i # 0
  <2>1. DOMAIN inv = 1..Len(inv)
    BY LenProperties DEF ChargeInv, BillingInv, InvoicesHaveRows
  <2> QED
    BY <2>1 DEF InvoicesGrow
<1>2. CASE over' = over
  BY <1>1, <1>2, RecordStays DEF ChargeInv
<1>3. CASE over' = [over EXCEPT ![n].status = status, ![n].ext = i]
  <2>1. over[n] = [status |-> over[n].status, units |-> over[n].units, ext |-> over[n].ext]
    BY DEF ChargeInv, BillingInv, BillingTypeOK
  <2>2. over'[n] = [status |-> status, units |-> over[n].units, ext |-> i]
    BY <1>3, <2>1 DEF ChargeInv, BillingInv, BillingTypeOK
  <2>3. \A m \in Period \ {n} : over'[m] = over[m]
    BY <1>3 DEF ChargeInv, BillingInv, BillingTypeOK
  <2>4. status = "PAID" => PaidFor(n)'
    BY <1>1, PaymentsLast
  <2>5. Recorded(n)'
    BY <1>1, <2>2, <2>4 DEF Recorded
  <2>6. \A m \in Period \ {n} : Recorded(m)'
    BY <1>1, <2>3, RecordStays DEF ChargeInv
  <2> QED
    BY <2>5, <2>6
<1> QED
  BY <1>2, <1>3 DEF WriteInvoice

\* Rows stay as they are.
LEMMA RowsRecorded ==
  ASSUME ChargeInv, InvoicesGrow, over' = over
  PROVE  \A n \in Period : Recorded(n)'
BY RecordStays DEF ChargeInv

\* Nobody begins to pay.
LEMMA PaymentsStay ==
  ASSUME ChargeInv, inv' = inv,
         \A v \in Worker : worker'[v] = worker[v] \/ worker'[v].pc \notin {"pay", "mark", "write"}
  PROVE  PaymentsAreOwn'
<1> SUFFICES ASSUME NEW w \in Worker PROVE PaysItsOwn(w)'
  BY DEF PaymentsAreOwn
<1>1. CASE worker'[w].pc \notin {"pay", "mark", "write"}
  BY <1>1 DEF PaysItsOwn, At
<1>2. CASE worker'[w] = worker[w]
  <2>1. PaysItsOwn(w) /\ Current(w)' = Current(w)
    BY <1>2 DEF ChargeInv, PaymentsAreOwn, Current
  <2>2. \A v \in Worker \ {w} : At(v, "pay")' => At(v, "pay") /\ worker'[v].ext = worker[v].ext
    BY DEF At
  <2> QED
    BY <1>2, <2>1, <2>2 DEF PaysItsOwn, At
<1> QED
  BY <1>1, <1>2

\* On to other rows, or to a call before the payment.
LEMMA WorkPaysNothing ==
  ASSUME BillingTypeOK, NEW w \in Worker, NEW todo, NEW pc \in {"settling", "reading"},
         NEW none \in {"settled", "idle"}, Work(w, todo, pc, none)
  PROVE  \A v \in Worker : worker'[v] = worker[v] \/ worker'[v].pc \notin {"pay", "mark", "write"}
BY DEF Work, BillingTypeOK

LEMMA GotoPaysNothing ==
  ASSUME BillingTypeOK, NEW w \in Worker, NEW pc \in {"item", "invoice"}, Goto(w, pc)
  PROVE  \A v \in Worker : worker'[v] = worker[v] \/ worker'[v].pc \notin {"pay", "mark", "write"}
<1>1. worker'[w].pc = pc /\ \A v \in Worker \ {w} : worker'[v] = worker[v]
  BY DEF Goto, BillingTypeOK
<1> QED
  BY <1>1

LEMMA CreateInvoiceRecords ==
  ASSUME ChargeInv, NEW w \in Worker, CreateInvoice(w)
  PROVE  InvoicesGrow /\ PaymentsAreOwn' /\ \A n \in Period : Recorded(n)'
<1> DEFINE made == [period |-> Current(w), items |-> pending, status |-> "draft"]
           new == Len(inv) + 1
<1>1. BillingInv /\ BillingTypeOK /\ worker[w].pc = "invoice"
  BY DEF ChargeInv, BillingInv, CreateInvoice, At
<1>2. Current(w) \in Period
  <2>1. RowsKeep /\ Grows
    BY <1>1, RowsUntouched DEF CreateInvoice, rowVars
  <2> QED
    BY <1>1, <2>1, CallHasRow
<1>3. made \in StripeInvoice /\ inv \in Seq(StripeInvoice) /\ inv' = Append(inv, made)
  BY <1>1, <1>2 DEF StripeInvoice, BillingInv, InvoicesHaveRows, CreateInvoice
<1>4. made.period = Current(w) /\ made.status = "draft"
  OBVIOUS
<1> HIDE DEF made
<1>5. /\ DOMAIN inv = 1..Len(inv) /\ DOMAIN inv' = 1..new /\ new \in Nat /\ new \notin DOMAIN inv
      /\ \A i \in DOMAIN inv : inv'[i] = inv[i]
      /\ inv'[new] = made
  BY <1>3, AppendProperties, LenProperties
<1>6. InvoicesGrow
  BY <1>5 DEF InvoicesGrow
<1>7. \A n \in Period : Recorded(n)'
  BY <1>6, RowsRecorded DEF CreateInvoice
<1>8. /\ worker'[w].pc = "pay" /\ worker'[w].ext = new /\ worker'[w].todo = worker[w].todo
      /\ \A v \in Worker \ {w} : worker'[v] = worker[v]
  <2>1. worker[w] = [pc |-> worker[w].pc, todo |-> worker[w].todo, ext |-> worker[w].ext]
    BY <1>1 DEF BillingTypeOK
  <2>2. worker' = [worker EXCEPT ![w].pc = "pay", ![w].ext = new]
    BY DEF CreateInvoice
  <2> HIDE DEF new
  <2> QED
    BY <1>1, <2>1, <2>2 DEF BillingTypeOK
<1>9. PaysItsOwn(w)'
  <2>1. Current(w)' = Current(w)
    BY <1>8 DEF Current
  <2>2. \A v \in Worker \ {w} : At(v, "pay")' => worker'[v].ext \in DOMAIN inv
    BY <1>8 DEF ChargeInv, PaymentsAreOwn, PaysItsOwn, At
  <2>3. new \in DOMAIN inv' /\ inv'[new].period = Current(w)' /\ inv'[new].status = "draft"
    BY <1>4, <1>5, <2>1
  <2> HIDE DEF new
  <2> QED
    BY <1>5, <1>8, <2>2, <2>3 DEF PaysItsOwn, At
<1>10. ASSUME NEW v \in Worker, v # w PROVE PaysItsOwn(v)'
  <2>1. worker'[v] = worker[v] /\ Current(v)' = Current(v) /\ PaysItsOwn(v)
    BY <1>8, <1>10 DEF Current, ChargeInv, PaymentsAreOwn
  <2>2. \A u \in Worker \ {v} : At(u, "pay")' => u = w \/ (At(u, "pay") /\ worker'[u].ext = worker[u].ext)
    BY <1>8 DEF At
  <2>3. worker[v].pc \in {"pay", "mark", "write"} => worker[v].ext \in DOMAIN inv
    BY <2>1 DEF PaysItsOwn
  <2> HIDE DEF new
  <2> QED
    BY <1>5, <1>6, <1>8, <2>1, <2>2, <2>3 DEF PaysItsOwn, At, InvoicesGrow
<1> QED
  BY <1>6, <1>7, <1>9, <1>10 DEF PaymentsAreOwn

LEMMA PayInvoiceRecords ==
  ASSUME ChargeInv, NEW w \in Worker, PayInvoice(w)
  PROVE  InvoicesGrow /\ PaymentsAreOwn' /\ \A n \in Period : Recorded(n)'
<1> DEFINE i == worker[w].ext
<1>1. BillingInv /\ BillingTypeOK
  BY DEF ChargeInv, BillingInv
<1>2. i \in DOMAIN inv /\ inv[i].period = Current(w) /\ inv[i].status = "draft"
      /\ \A v \in Worker \ {w} : At(v, "pay") => worker[v].ext # i
  BY DEF ChargeInv, PaymentsAreOwn, PaysItsOwn, PayInvoice, At
<1>3. PICK status \in {"draft", "open", "paid"} : inv' = [inv EXCEPT ![i].status = status]
  BY DEF PayInvoice
<1>4. inv[i] \in StripeInvoice
  BY <1>1, <1>2, InvoicesAreTyped DEF BillingInv
<1>5. /\ DOMAIN inv' = DOMAIN inv
      /\ inv'[i].period = inv[i].period
      /\ \A j \in DOMAIN inv \ {i} : inv'[j] = inv[j]
  <2>1. inv \in [DOMAIN inv -> StripeInvoice]
    BY <1>1, LenProperties DEF BillingInv, InvoicesHaveRows
  <2>2. inv[i] = [period |-> inv[i].period, items |-> inv[i].items, status |-> inv[i].status]
    BY <1>4 DEF StripeInvoice
  <2>3. inv'[i] = [period |-> inv[i].period, items |-> inv[i].items, status |-> status]
    BY <1>2, <1>3, <2>1, <2>2
  <2> QED
    BY <1>2, <1>3, <2>1, <2>3
<1> HIDE DEF i
<1>6. InvoicesGrow
  <2>1. ASSUME NEW j \in DOMAIN inv
        PROVE  inv'[j].period = inv[j].period /\ (inv[j].status = "paid" => inv'[j].status = "paid")
    <3>1. CASE j = i
      BY <1>2, <1>5, <3>1
    <3>2. CASE j # i
      BY <1>5, <3>2
    <3> QED
      BY <3>1, <3>2
  <2> QED
    BY <1>5, <2>1 DEF InvoicesGrow
<1>7. \A n \in Period : Recorded(n)'
  BY <1>6, RowsRecorded DEF PayInvoice
<1>8. /\ worker'[w].pc = "mark" /\ worker'[w].ext = i /\ worker'[w].todo = worker[w].todo
      /\ \A v \in Worker \ {w} : worker'[v] = worker[v]
  <2>1. worker[w] = [pc |-> worker[w].pc, todo |-> worker[w].todo, ext |-> i]
    BY <1>1 DEF BillingTypeOK, i
  <2>2. worker' = [worker EXCEPT ![w].pc = "mark"]
    BY DEF PayInvoice, Goto
  <2> QED
    BY <1>1, <2>1, <2>2 DEF BillingTypeOK
<1>9. PaysItsOwn(w)'
  <2>1. Current(w)' = Current(w)
    BY <1>8 DEF Current
  <2> QED
    BY <1>2, <1>5, <1>8, <2>1 DEF PaysItsOwn, At
<1>10. ASSUME NEW v \in Worker, v # w PROVE PaysItsOwn(v)'
  <2>1. worker'[v] = worker[v] /\ Current(v)' = Current(v) /\ PaysItsOwn(v)
    BY <1>8, <1>10 DEF Current, ChargeInv, PaymentsAreOwn
  <2>2. \A u \in Worker \ {v} : At(u, "pay")' => At(u, "pay") /\ worker'[u].ext = worker[u].ext
    BY <1>8 DEF At
  <2>3. At(v, "pay") => worker[v].ext # i
    BY <1>2, <1>10
  <2>4. worker[v].pc \in {"pay", "mark", "write"} =>
          worker[v].ext \in DOMAIN inv' /\ inv'[worker[v].ext].period = Current(v)
    BY <1>5, <1>6, <2>1 DEF PaysItsOwn, InvoicesGrow
  <2>5. At(v, "pay") => inv'[worker[v].ext].status = "draft"
    BY <1>5, <2>1, <2>3 DEF PaysItsOwn, At
  <2> QED
    BY <2>1, <2>2, <2>4, <2>5 DEF PaysItsOwn, At
<1> QED
  BY <1>6, <1>7, <1>9, <1>10 DEF PaymentsAreOwn

LEMMA MarkCollectedRecords ==
  ASSUME ChargeInv, NEW w \in Worker, MarkCollected(w)
  PROVE  InvoicesGrow /\ PaymentsAreOwn' /\ \A n \in Period : Recorded(n)'
<1>1. BillingTypeOK /\ inv' = inv /\ over' = over
  BY DEF ChargeInv, BillingInv, MarkCollected, stripeVars
<1>2. InvoicesGrow
  BY <1>1 DEF InvoicesGrow
<1>3. CASE Advance(w, "reading", "idle")
  BY <1>1, <1>2, <1>3, WorkPaysNothing, PaymentsStay, RowsRecorded DEF Advance
<1>4. CASE Goto(w, "write")
  <2>1. /\ worker'[w].pc = "write" /\ worker'[w].ext = worker[w].ext /\ worker'[w].todo = worker[w].todo
        /\ \A v \in Worker \ {w} : worker'[v] = worker[v]
    <3>1. worker[w] = [pc |-> worker[w].pc, todo |-> worker[w].todo, ext |-> worker[w].ext]
      BY <1>1 DEF BillingTypeOK
    <3>2. worker' = [worker EXCEPT ![w].pc = "write"]
      BY <1>4 DEF Goto
    <3> QED
      BY <1>1, <3>1, <3>2 DEF BillingTypeOK
  <2>2. PaysItsOwn(w)'
    <3>1. Current(w)' = Current(w)
      BY <2>1 DEF Current
    <3>2. worker[w].ext \in DOMAIN inv /\ inv[worker[w].ext].period = Current(w)
      BY DEF ChargeInv, PaymentsAreOwn, PaysItsOwn, MarkCollected, At
    <3> QED
      BY <1>1, <2>1, <3>1, <3>2 DEF PaysItsOwn, At
  <2>3. ASSUME NEW v \in Worker, v # w PROVE PaysItsOwn(v)'
    <3>1. worker'[v] = worker[v] /\ Current(v)' = Current(v) /\ PaysItsOwn(v)
      BY <2>1, <2>3 DEF Current, ChargeInv, PaymentsAreOwn
    <3>2. \A u \in Worker \ {v} : At(u, "pay")' => At(u, "pay") /\ worker'[u].ext = worker[u].ext
      BY <2>1 DEF At
    <3> QED
      BY <1>1, <3>1, <3>2 DEF PaysItsOwn, At
  <2> QED
    BY <1>1, <1>2, <2>2, <2>3, RowsRecorded DEF PaymentsAreOwn
<1> QED
  BY <1>3, <1>4 DEF MarkCollected

LEMMA WriteCollectedRecords ==
  ASSUME ChargeInv, NEW w \in Worker, WriteCollected(w)
  PROVE  PaymentsAreOwn' /\ \A n \in Period : Recorded(n)'
<1> DEFINE i == worker[w].ext
<1>1. BillingInv /\ BillingTypeOK /\ inv' = inv
  BY DEF ChargeInv, BillingInv, WriteCollected, stripeVars
<1>2. i \in DOMAIN inv /\ inv[i].period = Current(w)
  BY DEF ChargeInv, PaymentsAreOwn, PaysItsOwn, WriteCollected, At
<1>3. Current(w) \in Period
  BY <1>1, <1>2, InvoicesAreTyped DEF BillingInv
<1>4. CollectedStatus(i) = "PAID" => PaidFor(Current(w))
  BY <1>2 DEF CollectedStatus, PaidFor
<1>5. WriteInvoice(Current(w), i, CollectedStatus(i))
  BY DEF WriteCollected
<1> HIDE DEF i
<1>6. \A n \in Period : Recorded(n)'
  BY <1>1, <1>2, <1>3, <1>4, <1>5, WritingRecords
<1>7. PaymentsAreOwn'
  BY <1>1, WorkPaysNothing, PaymentsStay DEF WriteCollected, Advance
<1> QED
  BY <1>6, <1>7

LEMMA MaterializeRecords ==
  ASSUME ChargeInv, NEW w \in Worker, Materialize(w)
  PROVE  PaymentsAreOwn' /\ \A n \in Period : Recorded(n)'
<1> DEFINE n == Current(w)
<1>1. BillingInv /\ BillingTypeOK /\ inv' = inv
  BY DEF ChargeInv, BillingInv, Materialize, stripeVars
<1>2. over' = over \/ \E units : over' = [over EXCEPT ![n] = [status |-> "DRAFT", units |-> units, ext |-> 0]]
  BY DEF Materialize
<1>3. \A m \in Period : over'[m] = over[m] \/ (over'[m].status = "DRAFT" /\ over'[m].ext = 0)
  <2>1. CASE over' = over
    BY <2>1
  <2>2. ASSUME NEW units, over' = [over EXCEPT ![n] = [status |-> "DRAFT", units |-> units, ext |-> 0]]
        PROVE  \A m \in Period : over'[m] = over[m] \/ (over'[m].status = "DRAFT" /\ over'[m].ext = 0)
    BY <1>1, <2>2 DEF BillingTypeOK
  <2> QED
    BY <1>2, <2>1, <2>2
<1>4. \A m \in Period : Recorded(m)'
  BY <1>1, <1>3 DEF ChargeInv, Recorded, PaidFor
<1>5. PaymentsAreOwn'
  BY <1>1, WorkPaysNothing, PaymentsStay DEF Materialize, Advance
<1> QED
  BY <1>4, <1>5

\* A handler moves on, and knows of a payment if it is going to write one.
LEMMA HandlerMovesKnowing ==
  ASSUME ChargeInv, inv' = inv, NEW h \in Webhook, NEW c,
         c.pc # "idle" /\ c.status = "PAID" => PaidFor(inv[c.inv].period),
         handler' = [handler EXCEPT ![h] = c]
  PROVE  HandlersKnow'
<1>1. handler'[h] = c /\ \A g \in Webhook \ {h} : handler'[g] = handler[g]
  BY DEF ChargeInv, BillingInv, HandlersAreSound
<1> SUFFICES ASSUME NEW g \in Webhook, handler'[g].pc # "idle", handler'[g].status = "PAID"
             PROVE  \E j \in DOMAIN inv : /\ inv[j].period = inv[handler'[g].inv].period
                                          /\ inv[j].status = "paid"
  BY DEF HandlersKnow, PaidFor
<1>2. CASE g = h
  BY <1>1, <1>2 DEF PaidFor
<1>3. CASE g # h
  BY <1>1, <1>3 DEF ChargeInv, HandlersKnow, PaidFor
<1> QED
  BY <1>2, <1>3

LEMMA HandlerStepKnows ==
  ASSUME ChargeInv, NEW h \in Webhook, HandlerStep(h)
  PROVE  HandlersKnow'
<1>1. inv' = inv /\ BillingInv /\ InvoicesGrow
  BY DEF ChargeInv, HandlerStep, ResolveInvoice, ReadInvoice, SyncInvoice, SyncAccess, DropEvent,
     stripeVars, InvoicesGrow
<1>2. CASE handler' = [handler EXCEPT ![h] = NoEvent]
  BY <1>1, <1>2, HandlerMovesKnowing DEF NoEvent
<1>3. CASE ResolveInvoice(h)
  <2>0. PICK i \in DOMAIN inv : \E status \in Reported(i) :
          \/ \E pc \in {"read", "access"} :
               handler' = [handler EXCEPT ![h] = [pc |-> pc, inv |-> i, status |-> status]]
          \/ handler' = handler
    BY <1>3 DEF ResolveInvoice
  <2>1. PICK status \in Reported(i) :
          \/ \E pc \in {"read", "access"} :
               handler' = [handler EXCEPT ![h] = [pc |-> pc, inv |-> i, status |-> status]]
          \/ handler' = handler
    BY <2>0
  <2>2. status = "PAID" => PaidFor(inv[i].period)
    BY DEF Reported, PaidFor
  <2>3. ASSUME NEW pc \in {"read", "access"},
               handler' = [handler EXCEPT ![h] = [pc |-> pc, inv |-> i, status |-> status]]
        PROVE  HandlersKnow'
    <3> DEFINE c == [pc |-> pc, inv |-> i, status |-> status]
    <3>1. (c.pc # "idle" /\ c.status = "PAID" => PaidFor(inv[c.inv].period))
          /\ handler' = [handler EXCEPT ![h] = c]
      BY <2>2, <2>3
    <3> HIDE DEF c
    <3> QED
      BY <1>1, <3>1, HandlerMovesKnowing
  <2>4. CASE handler' = handler
    BY <1>1, <2>4, HandlersStillKnow DEF ChargeInv
  <2> QED
    BY <2>1, <2>3, <2>4
<1>4. CASE ReadInvoice(h)
  <2> DEFINE i == handler[h].inv
             n == inv[i].period
  <2>1. i \in DOMAIN inv /\ n \in Period /\ handler[h].pc # "idle"
    BY <1>1, <1>4, HandlerHasRow DEF ReadInvoice
  <2>2. CASE handler[h].status = "DRAFT"
    <3> DEFINE c == [pc |-> "write", inv |-> i, status |-> over[n].status]
    <3>1. handler' = [handler EXCEPT ![h] = c]
      BY <1>4, <2>2 DEF ReadInvoice
    <3>2. c.inv = i /\ (c.status = "PAID" => PaidFor(n))
      BY <2>1 DEF ChargeInv, Recorded
    <3> HIDE DEF c
    <3> QED
      BY <1>1, <3>1, <3>2, HandlerMovesKnowing
  <2>3. CASE handler[h].status # "DRAFT" /\ PaidByAnother(n, i)
    BY <1>2, <1>4, <2>3 DEF ReadInvoice
  <2>4. CASE handler[h].status # "DRAFT" /\ ~PaidByAnother(n, i)
    <3> DEFINE c == [pc |-> "write", inv |-> i, status |-> handler[h].status]
    <3>1. handler[h] = [pc |-> handler[h].pc, inv |-> i, status |-> handler[h].status]
      BY <1>1 DEF BillingInv, HandlersAreSound
    <3>2. handler' = [handler EXCEPT ![h] = [handler[h] EXCEPT !.pc = "write"]]
      BY <1>4, <2>4 DEF ReadInvoice
    <3>3. [handler[h] EXCEPT !.pc = "write"] = c
      BY <3>1
    <3>4. c.inv = i /\ (c.status = "PAID" => PaidFor(n))
      BY <2>1 DEF ChargeInv, HandlersKnow
    <3> HIDE DEF c
    <3> QED
      BY <1>1, <3>2, <3>3, <3>4, HandlerMovesKnowing
  <2> QED
    BY <2>2, <2>3, <2>4
<1> QED
  BY <1>2, <1>3, <1>4 DEF HandlerStep, SyncInvoice, SyncAccess, DropEvent

LEMMA HandlerStepRecords ==
  ASSUME ChargeInv, NEW h \in Webhook, HandlerStep(h)
  PROVE  InvoicesGrow /\ PaymentsAreOwn' /\ \A n \in Period : Recorded(n)'
<1>1. inv' = inv /\ worker' = worker
  BY DEF HandlerStep, ResolveInvoice, ReadInvoice, SyncInvoice, SyncAccess, DropEvent, stripeVars
<1>2. PaymentsAreOwn' /\ InvoicesGrow
  BY <1>1, PaymentsStay DEF InvoicesGrow
<1>3. CASE over' = over
  BY <1>2, <1>3, RowsRecorded
<1>4. CASE SyncInvoice(h)
  <2> DEFINE i == handler[h].inv
  <2>1. i \in DOMAIN inv /\ inv[i].period \in Period /\ handler[h].pc # "idle"
    BY <1>4, HandlerHasRow DEF SyncInvoice, ChargeInv
  <2>2. handler[h].status = "PAID" => PaidFor(inv[i].period)
    BY <2>1 DEF ChargeInv, HandlersKnow
  <2>3. WriteInvoice(inv[i].period, i, handler[h].status)
    BY <1>4 DEF SyncInvoice
  <2> HIDE DEF i
  <2> QED
    BY <1>1, <1>2, <2>1, <2>2, <2>3, WritingRecords
<1> QED
  BY <1>2, <1>3, <1>4 DEF HandlerStep, ResolveInvoice, ReadInvoice, SyncAccess, DropEvent

LEMMA WorkerStepRecords ==
  ASSUME ChargeInv, NEW w \in Worker, WorkerStep(w) \/ FailRow(w) \/ Crash(w)
  PROVE  InvoicesGrow /\ PaymentsAreOwn' /\ \A n \in Period : Recorded(n)'
<1>1. BillingTypeOK
  BY DEF ChargeInv, BillingInv
<1>2. CASE CreateInvoice(w) \/ PayInvoice(w) \/ MarkCollected(w)
  BY <1>2, CreateInvoiceRecords, PayInvoiceRecords, MarkCollectedRecords
<1>3. CASE Materialize(w) \/ WriteCollected(w)
  <2>1. InvoicesGrow
    BY <1>3 DEF Materialize, WriteCollected, stripeVars, InvoicesGrow
  <2> QED
    BY <1>3, <2>1, MaterializeRecords, WriteCollectedRecords
<1>4. CASE Acquire(w) \/ FetchPending(w) \/ ReadOverage(w) \/ CreateItem(w) \/ FailRow(w) \/ Crash(w)
  <2>1. inv' = inv /\ over' = over
    BY <1>4 DEF Acquire, FetchPending, ReadOverage, CreateItem, FailRow, Crash, stripeVars
  <2>2. InvoicesGrow
    BY <2>1 DEF InvoicesGrow
  <2>3. \A v \in Worker : worker'[v] = worker[v] \/ worker'[v].pc \notin {"pay", "mark", "write"}
    <3>1. CASE Acquire(w)
      BY <1>1, <3>1, WorkPaysNothing DEF Acquire
    <3>2. CASE FetchPending(w)
      BY <1>1, <3>2, WorkPaysNothing DEF FetchPending
    <3>3. CASE ReadOverage(w)
      BY <1>1, <3>3, WorkPaysNothing, GotoPaysNothing DEF ReadOverage, Advance
    <3>4. CASE CreateItem(w)
      BY <1>1, <3>4, GotoPaysNothing DEF CreateItem
    <3>5. CASE FailRow(w)
      BY <1>1, <3>5, WorkPaysNothing DEF FailRow, Advance
    <3>6. CASE Crash(w)
      BY <1>1, <3>6 DEF Crash, Idle, BillingTypeOK
    <3> QED
      BY <1>4, <3>1, <3>2, <3>3, <3>4, <3>5, <3>6
  <2> QED
    BY <2>1, <2>2, <2>3, PaymentsStay, RowsRecorded
<1> QED
  BY <1>2, <1>3, <1>4 DEF WorkerStep

\* Once it carries an invoice, a row always does.
LEMMA LinksLast ==
  ASSUME ChargeInv, [Next]_vars
  PROVE  \A n \in Period : over[n].ext # 0 => over'[n].ext # 0
<1> SUFFICES ASSUME NEW n \in Period, over[n].ext # 0 PROVE over'[n].ext # 0
  OBVIOUS
<1>1. BillingInv /\ BillingTypeOK /\ over[n].status # "NONE"
  BY DEF ChargeInv, BillingInv, Recorded, InvoicesHaveRows
<1>2. ASSUME NEW m \in Period, NEW i \in Nat \ {0}, NEW status, WriteInvoice(m, i, status)
      PROVE  over'[n].ext # 0
  <2>1. CASE over' = over
    BY <2>1
  <2>2. CASE over' = [over EXCEPT ![m].status = status, ![m].ext = i]
    <3>1. CASE n = m
      <4>1. over[n] = [status |-> over[n].status, units |-> over[n].units, ext |-> over[n].ext]
        BY <1>1 DEF BillingTypeOK
      <4>2. over'[n] = [status |-> status, units |-> over[n].units, ext |-> i]
        BY <1>1, <2>2, <3>1, <4>1 DEF BillingTypeOK
      <4> QED
        BY <4>2
    <3>2. CASE n # m
      BY <1>1, <2>2, <3>2 DEF BillingTypeOK
    <3> QED
      BY <3>1, <3>2
  <2> QED
    BY <1>2, <2>1, <2>2 DEF WriteInvoice
<1>3. ASSUME NEW w \in Worker, Materialize(w) PROVE over'[n].ext # 0
  <2>1. CASE over' = over
    BY <2>1
  <2>2. ASSUME NEW row, over[Current(w)].status = "NONE", over' = [over EXCEPT ![Current(w)] = row]
        PROVE  over'[n].ext # 0
    BY <1>1, <2>2 DEF BillingTypeOK
  <2> QED
    BY <1>3, <2>1, <2>2 DEF Materialize
<1>4. ASSUME NEW w \in Worker, WriteCollected(w) PROVE over'[n].ext # 0
  <2>1. worker[w].ext \in DOMAIN inv /\ inv[worker[w].ext].period = Current(w)
    BY <1>4 DEF ChargeInv, PaymentsAreOwn, PaysItsOwn, WriteCollected, At
  <2>2. DOMAIN inv = 1..Len(inv) /\ Len(inv) \in Nat
    BY <1>1, LenProperties DEF BillingInv, InvoicesHaveRows
  <2>3. worker[w].ext \in Nat \ {0} /\ Current(w) \in Period
    BY <1>1, <2>1, <2>2, InvoicesAreTyped DEF BillingInv
  <2> QED
    BY <1>2, <1>4, <2>3 DEF WriteCollected
<1>5. ASSUME NEW h \in Webhook, SyncInvoice(h) PROVE over'[n].ext # 0
  <2>1. handler[h].inv \in Nat \ {0} /\ inv[handler[h].inv].period \in Period
    BY <1>1, <1>5, HandlerHasRow DEF SyncInvoice
  <2> QED
    BY <1>2, <1>5, <2>1 DEF SyncInvoice
<1>6. ASSUME NEW w \in Worker, WorkerStep(w) \/ FailRow(w) \/ Crash(w)
      PROVE  Materialize(w) \/ WriteCollected(w) \/ over' = over
  BY <1>6 DEF WorkerStep, Acquire, FetchPending, ReadOverage, CreateItem, CreateInvoice, PayInvoice,
     MarkCollected, FailRow, Crash
<1>7. ASSUME NEW h \in Webhook, HandlerStep(h) PROVE SyncInvoice(h) \/ over' = over
  BY <1>7 DEF HandlerStep, ResolveInvoice, ReadInvoice, SyncAccess, DropEvent
<1>8. CASE \/ NextPeriod \/ FinishSetup \/ HandleSetupEvent \/ CancelSubscription \/ StripeRenews
           \/ StripeEnds \/ LeaseLapse \/ (\E m \in Period : RecordUsage(m)) \/ UNCHANGED vars
  BY <1>8 DEF NextPeriod, FinishSetup, HandleSetupEvent, CancelSubscription, StripeRenews, StripeEnds,
     LeaseLapse, RecordUsage, vars
<1> QED
  BY <1>3, <1>4, <1>5, <1>6, <1>7, <1>8 DEF Next

LEMMA HandlerStepSpares ==
  ASSUME ChargeInv, NEW h \in Webhook, HandlerStep(h), \A n \in Period : over[n].ext # 0 => over'[n].ext # 0
  PROVE  PhantomsAreSpare'
<1>1. inv' = inv /\ BillingInv /\ PhantomsAreSpare /\ InvoicesGrow
  BY DEF ChargeInv, HandlerStep, ResolveInvoice, ReadInvoice, SyncInvoice, SyncAccess, DropEvent,
     stripeVars, InvoicesGrow
<1>2. CASE phantom' = phantom
  BY <1>1, <1>2, PhantomsStay
<1>3. ASSUME NEW i \in DOMAIN inv, ~RowFound(i), phantom' = phantom \cup {i}, over' = over
      PROVE  PhantomsAreSpare'
  BY <1>1, <1>3 DEF PhantomsAreSpare, RowFound
<1> QED
  BY <1>2, <1>3 DEF HandlerStep, ResolveInvoice, ReadInvoice, SyncInvoice, SyncAccess, DropEvent

LEMMA ChargeInvNext == ChargeInv /\ [Next]_vars => ChargeInv'
<1> SUFFICES ASSUME ChargeInv, [Next]_vars PROVE ChargeInv'
  OBVIOUS
<1>1. BillingInv' /\ BillingInv /\ HandlersKnow /\ PhantomsAreSpare
  BY BillingInvNext DEF ChargeInv
<1> DEFINE Kept == InvoicesGrow /\ PaymentsAreOwn' /\ \A n \in Period : Recorded(n)'
<1>2. ASSUME NEW w \in Worker, WorkerStep(w) \/ FailRow(w) \/ Crash(w)
      PROVE  Kept /\ UNCHANGED <<handler, phantom>>
  <2>1. UNCHANGED <<handler, phantom>>
    BY <1>2 DEF WorkerStep, Acquire, Materialize, FetchPending, ReadOverage, CreateItem, CreateInvoice,
       PayInvoice, MarkCollected, WriteCollected, FailRow, Crash
  <2> QED
    BY <1>2, <2>1, WorkerStepRecords
<1>3. ASSUME \/ NextPeriod \/ FinishSetup \/ HandleSetupEvent \/ CancelSubscription \/ StripeRenews
             \/ StripeEnds \/ LeaseLapse \/ (\E n \in Period : RecordUsage(n)) \/ UNCHANGED vars
      PROVE  Kept /\ UNCHANGED <<handler, phantom>>
  <2>1. UNCHANGED <<over, inv, worker, handler, phantom>>
    BY <1>3 DEF NextPeriod, FinishSetup, HandleSetupEvent, CancelSubscription, StripeRenews, StripeEnds,
       LeaseLapse, RecordUsage, vars, stripeVars
  <2>2. InvoicesGrow
    BY <2>1 DEF InvoicesGrow
  <2> QED
    BY <2>1, <2>2, PaymentsStay, RowsRecorded
<1>5. ASSUME NEW h \in Webhook, HandlerStep(h)
      PROVE  Kept /\ HandlersKnow' /\ PhantomsAreSpare'
  BY <1>5, HandlerStepRecords, HandlerStepKnows, HandlerStepSpares, LinksLast
<1>6. ASSUME Kept, UNCHANGED <<handler, phantom>>
      PROVE  HandlersKnow' /\ PhantomsAreSpare'
  BY <1>1, <1>6, HandlersStillKnow, PhantomsStay, LinksLast
<1> HIDE DEF Kept
<1>7. Kept /\ HandlersKnow' /\ PhantomsAreSpare'
  <2>1. CASE \E w \in Worker : WorkerStep(w) \/ FailRow(w) \/ Crash(w)
    BY <1>2, <1>6, <2>1
  <2>2. CASE \E h \in Webhook : HandlerStep(h)
    BY <1>5, <2>2
  <2>3. CASE \/ NextPeriod \/ FinishSetup \/ HandleSetupEvent \/ CancelSubscription \/ StripeRenews
             \/ StripeEnds \/ LeaseLapse \/ (\E n \in Period : RecordUsage(n)) \/ UNCHANGED vars
    BY <1>3, <1>6, <2>3
  <2> QED
    BY <2>1, <2>2, <2>3 DEF Next
<1> QED
  BY <1>1, <1>7 DEF ChargeInv, Kept

LEMMA ChargeInvInit == Init => ChargeInv
<1>1. Init => /\ PaymentsAreOwn /\ \A n \in Period : Recorded(n)
              /\ HandlersKnow /\ PhantomsAreSpare
  BY DEF Init, Idle, NoEvent, PaymentsAreOwn, PaysItsOwn, At, Recorded, HandlersKnow, PhantomsAreSpare
<1> QED
  BY <1>1, BillingInvInit DEF ChargeInv

-----------------------------------------------------------------------------
(* How often a period is charged. *)

\* Its amount may still be taken up.
Open(n) == over[n].status = "NONE" \/ n \in Pending

\* A cycle that has asked for the item of period n and not recorded its charge.
Holds(w, n) == worker[w].pc \in {"invoice", "pay", "mark", "write"} /\ Current(w) = n

\* A cycle that may still ask for one, by rows it has read or is going to read.
MayCharge(w, n) ==
  \/ worker[w].pc \in {"settling", "settled"}
  \/ /\ worker[w].pc \in {"reading", "item", "invoice", "pay", "mark", "write"}
     /\ n \in worker[w].todo /\ ~Holds(w, n)

\* The lease covers one cycle.  Others run on: as many as there were cuts at most.
Strays(n) == {w \in Worker \ {holder} : MayCharge(w, n)}

\* What the cycle under the lease, or the next one, may add.
Left(n) ==
  IF holder # NoOwner /\ Holds(holder, n) THEN 0
  ELSE IF Open(n) \/ (holder # NoOwner /\ At(holder, "item") /\ Current(holder) = n) THEN 1 ELSE 0

WithinBudget(n) == /\ IsFiniteSet(Strays(n))
                   /\ Charges(n) + Cardinality(Strays(n)) + Left(n) <= 1 + cuts

\* A period has one SUBSCRIPTION invoice, and none before it is opened.
OpenedOnce(n) == bill[n].copies <= 1 /\ (n > 1 /\ n \notin Opened => bill[n].copies = 0)

\* The types the other arguments need not speak of.
RestTypeOK == /\ setup \in {"none", "open", "completed", "expired"}
              /\ phantom \subseteq Nat
              /\ holder \in Worker \cup {NoOwner}
              /\ cuts \in 0..MaxCuts

BudgetInv == /\ ChargeInv /\ RestTypeOK
             /\ \A n \in Period : OpenedOnce(n) /\ WithinBudget(n)

\* The items of period n, invoice by invoice.
ItemsOf(n) == [i \in DOMAIN inv |-> inv[i].items[n]]

LEMMA ItemsAreCounted ==
  ASSUME BillingInv, NEW n \in Period
  PROVE  /\ DOMAIN inv = 1..Len(inv) /\ Len(inv) \in Nat /\ IsFiniteSet(DOMAIN inv)
         /\ Counts(ItemsOf(n), DOMAIN inv) /\ pending[n] \in Nat
         /\ Charges(n) = pending[n] + SumFunctionOnSet(ItemsOf(n), DOMAIN inv)
         /\ Charges(n) \in Nat
<1>1. DOMAIN inv = 1..Len(inv) /\ Len(inv) \in Nat /\ pending[n] \in Nat
  BY LenProperties DEF BillingInv, InvoicesHaveRows
<1>2. IsFiniteSet(DOMAIN inv)
  BY <1>1, FS_Interval
<1>3. Counts(ItemsOf(n), DOMAIN inv)
  BY InvoicesAreTyped DEF BillingInv, StripeInvoice, Counts, ItemsOf
<1>4. Charges(n) = pending[n] + SumFunctionOnSet(ItemsOf(n), DOMAIN inv)
  BY DEF Charges, SumFunction, ItemsOf
<1>5. SumFunctionOnSet(ItemsOf(n), DOMAIN inv) \in Nat
  BY <1>2, <1>3, SumType
<1> QED
  BY <1>1, <1>2, <1>3, <1>4, <1>5

\* Invoices keep their items.
LEMMA ChargesStay ==
  ASSUME BillingInv, NEW n \in Period, pending'[n] = pending[n], DOMAIN inv' = DOMAIN inv,
         \A i \in DOMAIN inv : inv'[i].items = inv[i].items
  PROVE  Charges(n)' = Charges(n)
<1> DEFINE f == ItemsOf(n)
           g == [i \in DOMAIN inv' |-> inv'[i].items[n]]
<1>1. \A i \in DOMAIN inv : g[i] = f[i]
  BY DEF ItemsOf
<1>2. Charges(n)' = pending'[n] + SumFunctionOnSet(g, DOMAIN inv)
  BY DEF Charges, SumFunction
<1>3. /\ IsFiniteSet(DOMAIN inv) /\ Counts(f, DOMAIN inv)
      /\ Charges(n) = pending[n] + SumFunctionOnSet(f, DOMAIN inv)
  BY ItemsAreCounted
<1> HIDE DEF f, g
<1>4. SumFunctionOnSet(g, DOMAIN inv) = SumFunctionOnSet(f, DOMAIN inv)
  BY <1>1, <1>3, SumSame
<1> QED
  BY <1>2, <1>3, <1>4

\* A new invoice takes what is pending, and no more.
LEMMA InvoicingMovesCharges ==
  ASSUME BillingInv, NEW w \in Worker, CreateInvoice(w), NEW n \in Period
  PROVE  Charges(n)' = Charges(n)
<1> DEFINE f == ItemsOf(n)
           g == [i \in DOMAIN inv' |-> inv'[i].items[n]]
           new == Len(inv) + 1
           made == [period |-> Current(w), items |-> pending, status |-> "draft"]
<1>1. /\ DOMAIN inv = 1..Len(inv) /\ Len(inv) \in Nat /\ IsFiniteSet(DOMAIN inv)
      /\ Counts(f, DOMAIN inv) /\ pending[n] \in Nat
      /\ Charges(n) = pending[n] + SumFunctionOnSet(f, DOMAIN inv)
  BY ItemsAreCounted
<1>2. inv' = Append(inv, made) /\ made.items[n] = pending[n] /\ inv \in Seq(StripeInvoice)
  BY DEF CreateInvoice, BillingInv, InvoicesHaveRows
<1> HIDE DEF made
<1>3. /\ DOMAIN inv' = 1..new /\ inv'[new] = made
      /\ \A i \in 1..Len(inv) : inv'[i] = inv[i]
  BY <1>1, <1>2 DEF new
<1>4. /\ DOMAIN inv' = DOMAIN inv \cup {new} /\ new \notin DOMAIN inv
      /\ g[new] = pending[n] /\ \A i \in DOMAIN inv : g[i] = f[i]
  BY <1>1, <1>2, <1>3 DEF ItemsOf
<1>5. Charges(n)' = 0 + SumFunctionOnSet(g, DOMAIN inv')
  BY DEF Charges, SumFunction, CreateInvoice
<1> HIDE DEF f, g, new
<1>6. IsFiniteSet(DOMAIN inv') /\ Counts(g, DOMAIN inv')
  <2>1. IsFiniteSet(DOMAIN inv')
    BY <1>1, <1>4, FS_AddElement
  <2> QED
    BY <1>1, <1>4, <2>1 DEF Counts
<1>7. SumFunctionOnSet(g, DOMAIN inv \cup {new}) = SumFunctionOnSet(g, DOMAIN inv) + g[new]
  BY <1>4, <1>6, SumSteps
<1>8. SumFunctionOnSet(g, DOMAIN inv) = SumFunctionOnSet(f, DOMAIN inv)
  BY <1>1, <1>4, SumSame
<1>9. SumFunctionOnSet(f, DOMAIN inv) \in Nat
  BY <1>1, SumType
<1> QED
  BY <1>1, <1>4, <1>5, <1>7, <1>8, <1>9

-----------------------------------------------------------------------------
(* An amount that was taken up is not taken up again. *)

NoneReopens == \A n \in Period : Open(n)' => Open(n)

LEMMA SameRowsStayTaken ==
  ASSUME over' = over
  PROVE  NoneReopens /\ \A n \in Period : Open(n)' = Open(n)
BY DEF NoneReopens, Open, Pending

LEMMA WritingTakes ==
  ASSUME BillingTypeOK, NEW n \in Period, NEW i \in Nat \ {0}, NEW status \in InvoiceStatus \ {"NONE"},
         over' = [over EXCEPT ![n].status = status, ![n].ext = i]
  PROVE  ~Open(n)' /\ NoneReopens
<1>1. over[n] = [status |-> over[n].status, units |-> over[n].units, ext |-> over[n].ext]
  BY DEF BillingTypeOK
<1>2. over'[n] = [status |-> status, units |-> over[n].units, ext |-> i]
      /\ \A m \in Period \ {n} : over'[m] = over[m]
  BY <1>1 DEF BillingTypeOK
<1>3. over'[n].status # "NONE" /\ over'[n].ext # 0
  BY <1>2
<1>4. ~Open(n)'
  BY <1>3 DEF Open, Pending
<1> QED
  BY <1>2, <1>4 DEF NoneReopens, Open, Pending

LEMMA SettlingOpensNothing ==
  ASSUME BillingInv, NEW w \in Worker, Materialize(w)
  PROVE  NoneReopens
<1> DEFINE n == Current(w)
<1>1. CASE over' = over
  BY <1>1, SameRowsStayTaken
<1>2. ASSUME NEW units, over[n].status = "NONE",
             over' = [over EXCEPT ![n] = [status |-> "DRAFT", units |-> units, ext |-> 0]]
      PROVE  NoneReopens
  <2>1. \A m \in Period \ {n} : over'[m] = over[m]
    BY <1>2 DEF BillingInv, BillingTypeOK
  <2> QED
    BY <1>2, <2>1 DEF NoneReopens, Open, Pending
<1> QED
  BY <1>1, <1>2 DEF Materialize

LEMMA HandlersReopenNothing ==
  ASSUME BillingInv, NEW h \in Webhook, HandlerStep(h)
  PROVE  NoneReopens
<1>1. CASE over' = over
  BY <1>1, SameRowsStayTaken
<1>2. CASE SyncInvoice(h)
  <2> DEFINE i == handler[h].inv
  <2>1. /\ BillingTypeOK /\ i \in Nat \ {0} /\ inv[i].period \in Period
        /\ handler[h].status \in InvoiceStatus \ {"NONE"}
    BY <1>2, HandlerHasRow DEF SyncInvoice, BillingInv
  <2>2. \/ over' = over
        \/ over' = [over EXCEPT ![inv[i].period].status = handler[h].status, ![inv[i].period].ext = i]
    BY <1>2 DEF SyncInvoice, WriteInvoice
  <2> HIDE DEF i
  <2> QED
    BY <1>1, <2>1, <2>2, WritingTakes
<1> QED
  BY <1>1, <1>2 DEF HandlerStep, ResolveInvoice, ReadInvoice, SyncAccess, DropEvent

\* What a cycle has recorded, or found recorded, is not taken up again: an invoice
\* whose id has gone to another row leaves one that carries another id.
LEMMA CollectedIsTaken ==
  ASSUME ChargeInv, NEW w \in Worker, WriteCollected(w)
  PROVE  NoneReopens /\ \A n \in Period : n = Current(w) => ~Open(n)'
<1> DEFINE i == worker[w].ext
           n == Current(w)
<1>1. BillingInv /\ BillingTypeOK /\ i \in DOMAIN inv /\ inv[i].period = n
  BY DEF ChargeInv, BillingInv, PaymentsAreOwn, PaysItsOwn, WriteCollected, At
<1>2. n \in Period /\ i \in Nat \ {0} /\ over[n].status # "NONE"
  <2>1. DOMAIN inv = 1..Len(inv) /\ Len(inv) \in Nat
    BY <1>1, LenProperties DEF BillingInv, InvoicesHaveRows
  <2> QED
    BY <1>1, <2>1, InvoicesAreTyped DEF BillingInv, InvoicesHaveRows
<1>3. CollectedStatus(i) \in InvoiceStatus \ {"NONE"}
  BY DEF CollectedStatus, InvoiceStatus
<1>4. WriteInvoice(n, i, CollectedStatus(i))
  BY DEF WriteCollected
<1> HIDE DEF i, n
<1>5. CASE i \in phantom
  <2>1. over' = over /\ over[n].ext # 0
    BY <1>1, <1>4, <1>5 DEF WriteInvoice, ChargeInv, PhantomsAreSpare
  <2> QED
    BY <1>2, <2>1, SameRowsStayTaken DEF Open, Pending, n
<1>6. CASE i \notin phantom
  <2>1. over' = [over EXCEPT ![n].status = CollectedStatus(i), ![n].ext = i]
    BY <1>4, <1>6 DEF WriteInvoice
  <2>2. NoneReopens /\ \A m \in Period : m = n => ~Open(m)'
    BY <1>1, <1>2, <1>3, <2>1, WritingTakes
  <2> QED
    BY <2>2 DEF n
<1> QED
  BY <1>5, <1>6

-----------------------------------------------------------------------------
(* One cycle moves. *)

\* Only w moves; it may end, and the lease with it.
OnlyMoves(w) ==
  /\ \A v \in Worker \ {w} : worker'[v] = worker[v]
  /\ holder' = holder \/ (holder = w /\ holder' = NoOwner /\ worker'[w].pc = "idle")

LEMMA ReleaseMoves ==
  ASSUME NEW w \in Worker, \A v \in Worker \ {w} : worker'[v] = worker[v], Release(w)
  PROVE  OnlyMoves(w)
BY DEF OnlyMoves, Release

LEMMA WorkMoves ==
  ASSUME BillingTypeOK, NEW w \in Worker, NEW todo, NEW pc, NEW none, Work(w, todo, pc, none)
  PROVE  /\ worker'[w].pc = IF todo = {} THEN none ELSE pc
         /\ worker'[w].todo = todo
         /\ \A v \in Worker \ {w} : worker'[v] = worker[v]
BY DEF Work, BillingTypeOK

LEMMA GotoMoves ==
  ASSUME BillingTypeOK, NEW w \in Worker, NEW pc \in Pc, NEW ext,
         worker' = [worker EXCEPT ![w].pc = pc, ![w].ext = ext] \/ Goto(w, pc)
  PROVE  /\ worker'[w].pc = pc /\ worker'[w].todo = worker[w].todo /\ Current(w)' = Current(w)
         /\ \A v \in Worker \ {w} : worker'[v] = worker[v]
<1>1. worker[w] = [pc |-> worker[w].pc, todo |-> worker[w].todo, ext |-> worker[w].ext]
  BY DEF BillingTypeOK
<1>2. /\ worker'[w].pc = pc /\ worker'[w].todo = worker[w].todo
      /\ \A v \in Worker \ {w} : worker'[v] = worker[v]
  <2>1. CASE worker' = [worker EXCEPT ![w].pc = pc, ![w].ext = ext]
    BY <1>1, <2>1 DEF BillingTypeOK
  <2>2. CASE Goto(w, pc)
    BY <1>1, <2>2 DEF Goto, BillingTypeOK
  <2> QED
    BY <2>1, <2>2
<1> QED
  BY <1>2 DEF Current

LEMMA StandingStill ==
  ASSUME NEW v \in Worker, worker'[v] = worker[v], NEW n \in Period
  PROVE  /\ MayCharge(v, n)' = MayCharge(v, n) /\ Holds(v, n)' = Holds(v, n)
         /\ At(v, "item")' = At(v, "item") /\ Current(v)' = Current(v)
<1>1. Current(v)' = Current(v)
  BY DEF Current
<1> QED
  BY <1>1 DEF MayCharge, Holds, At

LEMMA NoNewStrays ==
  ASSUME RestTypeOK, NEW w \in Worker, OnlyMoves(w), NEW n \in Period,
         MayCharge(w, n)' => MayCharge(w, n)
  PROVE  Strays(n)' \subseteq Strays(n)
<1> SUFFICES ASSUME NEW v \in Worker, v # holder', MayCharge(v, n)'
             PROVE  v # holder /\ MayCharge(v, n)
  BY DEF Strays
<1>1. CASE v # w
  BY <1>1, StandingStill DEF OnlyMoves
<1>2. CASE v = w
  <2>1. worker'[w].pc # "idle"
    BY <1>2 DEF MayCharge
  <2> QED
    BY <1>2, <2>1 DEF OnlyMoves
<1> QED
  BY <1>1, <1>2

LEMMA LeftIsFew == ASSUME NEW n \in Period PROVE Left(n) \in {0, 1} /\ Left(n)' \in {0, 1}
BY DEF Left

LEMMA NothingLeftAnew ==
  ASSUME RestTypeOK, NEW w \in Worker, OnlyMoves(w), NEW n \in Period,
         Open(n)' => Open(n),
         Holds(w, n) => ~Open(n)' \/ (holder' = holder /\ Holds(w, n)'),
         At(w, "item")' /\ Current(w)' = n => Open(n) /\ ~Holds(w, n)
  PROVE  Left(n)' <= Left(n)
<1>1. CASE holder = w
  <2>1. CASE holder' = holder
    BY <1>1, <2>1 DEF Left
  <2>2. CASE holder' = NoOwner
    BY <1>1, <2>2, OverageAssumption DEF Left
  <2> QED
    BY <2>1, <2>2 DEF OnlyMoves
<1>2. CASE holder # w
  <2>1. holder' = holder
    BY <1>2 DEF OnlyMoves
  <2>2. CASE holder = NoOwner
    BY <2>1, <2>2 DEF Left
  <2>3. CASE holder # NoOwner
    <3>1. holder \in Worker /\ worker'[holder] = worker[holder]
      BY <1>2, <2>3 DEF RestTypeOK, OnlyMoves
    <3>2. /\ Holds(holder, n)' = Holds(holder, n) /\ At(holder, "item")' = At(holder, "item")
          /\ (Current(holder) = n)' = (Current(holder) = n)
      <4>1. Current(holder)' = Current(holder)
        BY <2>1, <3>1 DEF Current
      <4> QED
        BY <2>1, <3>1, <4>1 DEF Holds, At
    <3> QED
      BY <2>1, <2>3, <3>2 DEF Left
  <2> QED
    BY <2>2, <2>3
<1> QED
  BY <1>1, <1>2

\* A step that takes up nothing.
LEMMA BudgetStays ==
  ASSUME BudgetInv, NEW n \in Period, Charges(n)' = Charges(n),
         Strays(n)' \subseteq Strays(n), Left(n)' <= Left(n), cuts' = cuts
  PROVE  WithinBudget(n)'
<1>1. WithinBudget(n) /\ BillingInv /\ cuts \in Nat
  BY OverageAssumption DEF BudgetInv, ChargeInv, RestTypeOK
<1>2. IsFiniteSet(Strays(n)') /\ Cardinality(Strays(n)') <= Cardinality(Strays(n))
  BY <1>1, FS_Subset DEF WithinBudget
<1>3. Cardinality(Strays(n)) \in Nat /\ Cardinality(Strays(n)') \in Nat
  BY <1>1, <1>2, FS_CardinalityType DEF WithinBudget
<1>4. Charges(n) \in Nat
  BY <1>1, ItemsAreCounted
<1> QED
  BY <1>1, <1>2, <1>3, <1>4, LeftIsFew DEF WithinBudget

\* A cut gives back what a cycle was about to do at most.
LEMMA CutsRaiseBudget ==
  ASSUME BudgetInv, NEW n \in Period, UNCHANGED stripeVars,
         Strays(n)' \subseteq Strays(n), cuts' = cuts + 1
  PROVE  WithinBudget(n)'
<1>1. WithinBudget(n) /\ BillingInv /\ cuts \in Nat
  BY OverageAssumption DEF BudgetInv, ChargeInv, RestTypeOK
<1>2. IsFiniteSet(Strays(n)') /\ Cardinality(Strays(n)') <= Cardinality(Strays(n))
  BY <1>1, FS_Subset DEF WithinBudget
<1>3. Cardinality(Strays(n)) \in Nat /\ Cardinality(Strays(n)') \in Nat
  BY <1>1, <1>2, FS_CardinalityType DEF WithinBudget
<1>4. Charges(n) \in Nat /\ Charges(n)' = Charges(n)
  BY <1>1, ItemsAreCounted, ChargesStay DEF stripeVars
<1> QED
  BY <1>1, <1>2, <1>3, <1>4, LeftIsFew DEF WithinBudget

-----------------------------------------------------------------------------
(* The budget, step by step. *)

\* A step of cycle w is judged by what the cycle may do before and after it.
LEMMA CycleStaysWithinBudget ==
  ASSUME BudgetInv, NEW w \in Worker, OnlyMoves(w), NEW n \in Period,
         Charges(n)' = Charges(n), cuts' = cuts, NoneReopens,
         MayCharge(w, n)' => MayCharge(w, n),
         Holds(w, n) => ~Open(n)' \/ (holder' = holder /\ Holds(w, n)'),
         At(w, "item")' /\ Current(w)' = n => Open(n) /\ ~Holds(w, n)
  PROVE  WithinBudget(n)'
<1>1. RestTypeOK /\ (Open(n)' => Open(n))
  BY DEF BudgetInv, NoneReopens
<1> QED
  BY <1>1, NoNewStrays, NothingLeftAnew, BudgetStays

LEMMA AcquireWithinBudget ==
  ASSUME BudgetInv, NEW w \in Worker, Acquire(w), NEW n \in Period
  PROVE  WithinBudget(n)'
<1>1. BillingInv /\ BillingTypeOK
  BY DEF BudgetInv, ChargeInv, BillingInv
<1>2. /\ holder = NoOwner /\ holder' = w /\ w # NoOwner /\ cuts' = cuts /\ over' = over
      /\ UNCHANGED stripeVars /\ Work(w, Due, "settling", "settled")
  BY OverageAssumption DEF Acquire
<1>3. worker'[w].pc \in {"settling", "settled"} /\ \A v \in Worker \ {w} : worker'[v] = worker[v]
  BY <1>1, <1>2, WorkMoves
<1>4. Charges(n)' = Charges(n)
  BY <1>1, <1>2, ChargesStay DEF stripeVars
<1>5. Strays(n)' \subseteq Strays(n)
  BY <1>2, <1>3, StandingStill, OverageAssumption DEF Strays
<1>6. Left(n)' <= Left(n)
  <2>1. Open(n)' = Open(n)
    BY <1>2, SameRowsStayTaken
  <2>2. Left(n) = IF Open(n) THEN 1 ELSE 0
    BY <1>2 DEF Left
  <2>3. Left(n)' = IF Open(n)' THEN 1 ELSE 0
    BY <1>2, <1>3 DEF Left, Holds, At
  <2> QED
    BY <2>1, <2>2, <2>3
<1> QED
  BY <1>2, <1>4, <1>5, <1>6, BudgetStays

LEMMA MaterializeWithinBudget ==
  ASSUME BudgetInv, NEW w \in Worker, Materialize(w), NEW n \in Period
  PROVE  WithinBudget(n)'
<1>1. BillingInv /\ BillingTypeOK
  BY DEF BudgetInv, ChargeInv, BillingInv
<1>2. /\ worker[w].pc = "settling" /\ cuts' = cuts /\ UNCHANGED stripeVars
      /\ Work(w, worker[w].todo \ {Current(w)}, "settling", "settled") /\ Release(w)
  BY DEF Materialize, At, Advance
<1>3. worker'[w].pc \in {"settling", "settled"} /\ OnlyMoves(w)
  BY <1>1, <1>2, WorkMoves, ReleaseMoves
<1>4. Charges(n)' = Charges(n) /\ NoneReopens
  BY <1>1, <1>2, ChargesStay, SettlingOpensNothing DEF stripeVars
<1>5. MayCharge(w, n) /\ ~Holds(w, n) /\ ~At(w, "item")'
  BY <1>2, <1>3 DEF MayCharge, Holds, At
<1> QED
  BY <1>2, <1>3, <1>4, <1>5, CycleStaysWithinBudget

LEMMA FetchPendingWithinBudget ==
  ASSUME BudgetInv, NEW w \in Worker, FetchPending(w), NEW n \in Period
  PROVE  WithinBudget(n)'
<1>1. BillingInv /\ BillingTypeOK
  BY DEF BudgetInv, ChargeInv, BillingInv
<1>2. /\ worker[w].pc = "settled" /\ cuts' = cuts /\ UNCHANGED stripeVars /\ over' = over
      /\ Work(w, Pending, "reading", "idle") /\ Release(w)
  BY DEF FetchPending, At
<1>3. worker'[w].pc \in {"reading", "idle"} /\ OnlyMoves(w)
  BY <1>1, <1>2, WorkMoves, ReleaseMoves
<1>4. Charges(n)' = Charges(n) /\ NoneReopens
  BY <1>1, <1>2, ChargesStay, SameRowsStayTaken DEF stripeVars
<1>5. MayCharge(w, n) /\ ~Holds(w, n) /\ ~At(w, "item")'
  BY <1>2, <1>3 DEF MayCharge, Holds, At
<1> QED
  BY <1>2, <1>3, <1>4, <1>5, CycleStaysWithinBudget

LEMMA ReadOverageWithinBudget ==
  ASSUME BudgetInv, NEW w \in Worker, ReadOverage(w), NEW n \in Period
  PROVE  WithinBudget(n)'
<1>1. BillingInv /\ BillingTypeOK
  BY DEF BudgetInv, ChargeInv, BillingInv
<1>2. worker[w].pc = "reading" /\ cuts' = cuts /\ UNCHANGED stripeVars /\ over' = over /\ Release(w)
  BY DEF ReadOverage, At
<1>3. Charges(n)' = Charges(n) /\ NoneReopens
  BY <1>1, <1>2, ChargesStay, SameRowsStayTaken DEF stripeVars
<1>4. ~Holds(w, n)
  BY <1>2 DEF Holds
<1>5. CASE Current(w) \in Pending /\ Goto(w, "item")
  <2>1. /\ worker'[w].pc = "item" /\ worker'[w].todo = worker[w].todo /\ Current(w)' = Current(w)
        /\ \A v \in Worker \ {w} : worker'[v] = worker[v]
    BY <1>1, <1>5, GotoMoves DEF Pc
  <2>2. OnlyMoves(w)
    BY <1>2, <2>1, ReleaseMoves
  <2>3. MayCharge(w, n)' => MayCharge(w, n)
    BY <1>2, <1>4, <2>1 DEF MayCharge
  <2>4. At(w, "item")' /\ Current(w)' = n => Open(n)
    BY <1>5, <2>1 DEF Open
  <2> QED
    BY <1>2, <1>3, <1>4, <2>2, <2>3, <2>4, CycleStaysWithinBudget
<1>6. CASE Advance(w, "reading", "idle")
  <2> DEFINE todo == worker[w].todo \ {Current(w)}
  <2>1. Work(w, todo, "reading", "idle") /\ todo \subseteq worker[w].todo
    BY <1>6 DEF Advance
  <2> HIDE DEF todo
  <2>2. worker'[w].pc \in {"reading", "idle"} /\ worker'[w].todo = todo /\ OnlyMoves(w)
    BY <1>1, <1>2, <2>1, WorkMoves, ReleaseMoves
  <2>3. (MayCharge(w, n)' => MayCharge(w, n)) /\ ~At(w, "item")'
    BY <1>2, <1>4, <2>1, <2>2 DEF MayCharge, At
  <2> QED
    BY <1>2, <1>3, <1>4, <2>2, <2>3, CycleStaysWithinBudget
<1> QED
  BY <1>5, <1>6 DEF ReadOverage

\* Taking an item up is the only thing that adds to the charges.
LEMMA CreateItemWithinBudget ==
  ASSUME BudgetInv, NEW w \in Worker, CreateItem(w), NEW n \in Period
  PROVE  WithinBudget(n)'
<1>1. BillingInv /\ BillingTypeOK /\ RestTypeOK
  BY DEF BudgetInv, ChargeInv, BillingInv
<1>2. /\ worker[w].pc = "item" /\ cuts' = cuts /\ inv' = inv /\ over' = over /\ holder' = holder
      /\ UNCHANGED rowVars
      /\ Goto(w, "invoice") /\ pending' = [pending EXCEPT ![Current(w)] = pending[Current(w)] + 1]
  BY DEF CreateItem, At, rowVars
<1>3. Current(w) \in Period /\ Current(w) \in worker[w].todo
  <2>1. Grows
    BY <1>1, <1>2, RowsUntouched
  <2> QED
    BY <1>1, <1>2, <2>1, CallHasRow, CurrentIsLeft
<1>4. /\ worker'[w].pc = "invoice" /\ worker'[w].todo = worker[w].todo /\ Current(w)' = Current(w)
      /\ \A v \in Worker \ {w} : worker'[v] = worker[v]
  BY <1>1, <1>2, GotoMoves DEF Pc
<1>5. OnlyMoves(w) /\ NoneReopens
  BY <1>2, <1>4, SameRowsStayTaken DEF OnlyMoves
<1>6. pending \in [Period -> Nat]
  BY <1>1 DEF BillingInv, InvoicesHaveRows
<1>7. CASE Current(w) # n
  <2>1. Charges(n)' = Charges(n)
    BY <1>1, <1>2, <1>6, <1>7, ChargesStay
  <2>2. (MayCharge(w, n)' => MayCharge(w, n)) /\ ~Holds(w, n) /\ ~At(w, "item")'
    BY <1>2, <1>4, <1>7 DEF MayCharge, Holds, At
  <2> QED
    BY <1>2, <1>5, <2>1, <2>2, CycleStaysWithinBudget
<1>8. CASE Current(w) = n
  <2> DEFINE s == Strays(n)
             t == Strays(n)'
  <2>1. Charges(n)' = Charges(n) + 1 /\ Charges(n) \in Nat
    <3>1. Charges(n) = pending[n] + SumFunctionOnSet(ItemsOf(n), DOMAIN inv)
          /\ pending[n] \in Nat /\ Charges(n) \in Nat
          /\ SumFunctionOnSet(ItemsOf(n), DOMAIN inv) \in Nat
      BY <1>1, ItemsAreCounted, SumType
    <3>2. Charges(n)' = pending'[n] + SumFunctionOnSet(ItemsOf(n), DOMAIN inv)
      BY <1>2 DEF Charges, SumFunction, ItemsOf
    <3>3. pending'[n] = pending[n] + 1
      BY <1>2, <1>3, <1>6, <1>8
    <3> QED
      BY <3>1, <3>2, <3>3
  <2>2. MayCharge(w, n) /\ ~MayCharge(w, n)' /\ ~Holds(w, n) /\ Holds(w, n)'
    BY <1>2, <1>3, <1>4, <1>8 DEF MayCharge, Holds
  <2>3. WithinBudget(n) /\ cuts \in Nat /\ Open(n)' = Open(n)
    BY <1>1, <1>2, SameRowsStayTaken, OverageAssumption DEF BudgetInv, RestTypeOK
  <2>4. IsFiniteSet(s) /\ Cardinality(s) \in Nat
    BY <2>3, FS_CardinalityType DEF WithinBudget
  <2>5. \A v \in Worker \ {w} : MayCharge(v, n)' = MayCharge(v, n)
    BY <1>4, StandingStill
  <2>6. t = s \ {w}
    BY <1>2, <2>2, <2>5 DEF Strays
  <2>7. CASE holder = w
    <3>1. t = s /\ w # NoOwner
      BY <2>6, <2>7, OverageAssumption DEF Strays
    <3>2. Left(n) = 1 /\ Left(n)' = 0
      BY <1>2, <1>8, <2>2, <2>7, <3>1 DEF Left, At
    <3> HIDE DEF s, t
    <3>3. Charges(n)' + Cardinality(t) + Left(n)' <= 1 + cuts'
      BY <1>2, <2>1, <2>3, <2>4, <3>1, <3>2 DEF WithinBudget, s
    <3> QED
      BY <2>4, <3>1, <3>3 DEF WithinBudget, t
  <2>8. CASE holder # w
    <3>1. w \in s
      BY <2>2, <2>8 DEF Strays
    <3>2. IsFiniteSet(t) /\ Cardinality(t) = Cardinality(s) - 1
      BY <2>4, <2>6, <3>1, FS_RemoveElement
    <3>3. Left(n)' <= Left(n)
      <4>1. Holds(w, n) => ~Open(n)' \/ (holder' = holder /\ Holds(w, n)')
        BY <2>2
      <4>2. ~At(w, "item")'
        BY <1>4 DEF At
      <4> QED
        BY <1>1, <1>5, <2>3, <4>1, <4>2, NothingLeftAnew
    <3> HIDE DEF s, t
    <3>4. Charges(n)' + Cardinality(t) + Left(n)' <= 1 + cuts'
      BY <1>2, <2>1, <2>3, <2>4, <3>2, <3>3, LeftIsFew DEF WithinBudget, s
    <3> QED
      BY <3>2, <3>4 DEF WithinBudget, t
  <2> QED
    BY <2>7, <2>8
<1> QED
  BY <1>7, <1>8

LEMMA CreateInvoiceWithinBudget ==
  ASSUME BudgetInv, NEW w \in Worker, CreateInvoice(w), NEW n \in Period
  PROVE  WithinBudget(n)'
<1>1. BillingInv /\ BillingTypeOK
  BY DEF BudgetInv, ChargeInv, BillingInv
<1>2. /\ worker[w].pc = "invoice" /\ cuts' = cuts /\ over' = over /\ holder' = holder
      /\ worker' = [worker EXCEPT ![w].pc = "pay", ![w].ext = Len(inv) + 1]
  BY DEF CreateInvoice, At
<1>3. /\ worker'[w].pc = "pay" /\ worker'[w].todo = worker[w].todo /\ Current(w)' = Current(w)
      /\ \A v \in Worker \ {w} : worker'[v] = worker[v]
  BY <1>1, <1>2, GotoMoves DEF Pc
<1>4. OnlyMoves(w) /\ NoneReopens /\ Charges(n)' = Charges(n)
  BY <1>1, <1>2, <1>3, SameRowsStayTaken, InvoicingMovesCharges DEF OnlyMoves
<1>5. /\ MayCharge(w, n)' => MayCharge(w, n)
      /\ Holds(w, n)' = Holds(w, n) /\ ~At(w, "item")'
  BY <1>2, <1>3 DEF MayCharge, Holds, At
<1> QED
  BY <1>2, <1>4, <1>5, CycleStaysWithinBudget

\* Paying an invoice changes nothing but how it stands.
LEMMA PaymentKeepsItems ==
  ASSUME BillingInv, NEW w \in Worker, PayInvoice(w)
  PROVE  DOMAIN inv' = DOMAIN inv
         /\ \A j \in DOMAIN inv : inv'[j].items = inv[j].items /\ inv'[j].period = inv[j].period
<1> DEFINE i == worker[w].ext
<1>1. PICK status \in {"draft", "open", "paid"} : inv' = [inv EXCEPT ![i].status = status]
  BY DEF PayInvoice
<1>2. inv \in [DOMAIN inv -> StripeInvoice]
  BY LenProperties DEF BillingInv, InvoicesHaveRows
<1>3. \A j \in DOMAIN inv :
        inv[j] = [period |-> inv[j].period, items |-> inv[j].items, status |-> inv[j].status]
  BY <1>2 DEF StripeInvoice
<1>4. ASSUME NEW j \in DOMAIN inv
      PROVE  inv'[j].items = inv[j].items /\ inv'[j].period = inv[j].period
  <2>1. CASE j = i
    <3>1. inv'[j] = [period |-> inv[j].period, items |-> inv[j].items, status |-> status]
      BY <1>1, <1>2, <1>3, <2>1
    <3> QED
      BY <3>1
  <2>2. CASE j # i
    BY <1>1, <1>2, <2>2
  <2> QED
    BY <2>1, <2>2
<1> QED
  BY <1>1, <1>2, <1>4

LEMMA PayInvoiceWithinBudget ==
  ASSUME BudgetInv, NEW w \in Worker, PayInvoice(w), NEW n \in Period
  PROVE  WithinBudget(n)'
<1>1. BillingInv /\ BillingTypeOK
  BY DEF BudgetInv, ChargeInv, BillingInv
<1>2. /\ worker[w].pc = "pay" /\ cuts' = cuts /\ over' = over /\ holder' = holder
      /\ pending' = pending /\ Goto(w, "mark")
  BY DEF PayInvoice, At
<1>3. /\ worker'[w].pc = "mark" /\ worker'[w].todo = worker[w].todo /\ Current(w)' = Current(w)
      /\ \A v \in Worker \ {w} : worker'[v] = worker[v]
  BY <1>1, <1>2, GotoMoves DEF Pc
<1>5. DOMAIN inv' = DOMAIN inv /\ \A j \in DOMAIN inv : inv'[j].items = inv[j].items
  BY <1>1, PaymentKeepsItems
<1>6. OnlyMoves(w) /\ NoneReopens /\ Charges(n)' = Charges(n)
  BY <1>1, <1>2, <1>3, <1>5, SameRowsStayTaken, ChargesStay DEF OnlyMoves
<1>7. /\ MayCharge(w, n)' => MayCharge(w, n)
      /\ Holds(w, n)' = Holds(w, n) /\ ~At(w, "item")'
  BY <1>2, <1>3 DEF MayCharge, Holds, At
<1> QED
  BY <1>2, <1>6, <1>7, CycleStaysWithinBudget

LEMMA MarkCollectedWithinBudget ==
  ASSUME BudgetInv, NEW w \in Worker, MarkCollected(w), NEW n \in Period
  PROVE  WithinBudget(n)'
<1>1. BillingInv /\ BillingTypeOK
  BY DEF BudgetInv, ChargeInv, BillingInv
<1>2. worker[w].pc = "mark" /\ cuts' = cuts /\ UNCHANGED stripeVars /\ over' = over /\ Release(w)
  BY DEF MarkCollected, At
<1>3. Charges(n)' = Charges(n) /\ NoneReopens
  BY <1>1, <1>2, ChargesStay, SameRowsStayTaken DEF stripeVars
<1>4. CASE PaidByAnother(Current(w), worker[w].ext) /\ Advance(w, "reading", "idle")
  <2> DEFINE todo == worker[w].todo \ {Current(w)}
  <2>1. Work(w, todo, "reading", "idle") /\ \A m \in todo : m \in worker[w].todo /\ m # Current(w)
    BY <1>4 DEF Advance
  <2> HIDE DEF todo
  <2>2. worker'[w].pc \in {"reading", "idle"} /\ worker'[w].todo = todo /\ OnlyMoves(w)
    BY <1>1, <1>2, <2>1, WorkMoves, ReleaseMoves
  <2>3. MayCharge(w, n)' => MayCharge(w, n)
    BY <1>2, <2>1, <2>2 DEF MayCharge, Holds
  <2>4. (Holds(w, n) => ~Open(n)') /\ ~At(w, "item")'
    BY <1>2, <1>4, <2>2 DEF Holds, At, PaidByAnother, Open, Pending
  <2> QED
    BY <1>2, <1>3, <2>2, <2>3, <2>4, CycleStaysWithinBudget
<1>5. CASE Goto(w, "write")
  <2>1. /\ worker'[w].pc = "write" /\ worker'[w].todo = worker[w].todo /\ Current(w)' = Current(w)
        /\ \A v \in Worker \ {w} : worker'[v] = worker[v]
    BY <1>1, <1>5, GotoMoves DEF Pc
  <2>2. OnlyMoves(w) /\ holder' = holder
    BY <1>2, <2>1, ReleaseMoves DEF Release
  <2>3. /\ MayCharge(w, n)' => MayCharge(w, n)
        /\ Holds(w, n)' = Holds(w, n) /\ ~At(w, "item")'
    BY <1>2, <2>1 DEF MayCharge, Holds, At
  <2> QED
    BY <1>2, <1>3, <2>2, <2>3, CycleStaysWithinBudget
<1> QED
  BY <1>4, <1>5 DEF MarkCollected

LEMMA WriteCollectedWithinBudget ==
  ASSUME BudgetInv, NEW w \in Worker, WriteCollected(w), NEW n \in Period
  PROVE  WithinBudget(n)'
<1>1. ChargeInv /\ BillingInv /\ BillingTypeOK
  BY DEF BudgetInv, ChargeInv, BillingInv
<1> DEFINE todo == worker[w].todo \ {Current(w)}
<1>2. /\ worker[w].pc = "write" /\ cuts' = cuts /\ UNCHANGED stripeVars
      /\ Work(w, todo, "reading", "idle") /\ Release(w)
  BY DEF WriteCollected, At, Advance
<1>3. \A m \in todo : m \in worker[w].todo /\ m # Current(w)
  OBVIOUS
<1> HIDE DEF todo
<1>4. worker'[w].pc \in {"reading", "idle"} /\ worker'[w].todo = todo /\ OnlyMoves(w)
  BY <1>1, <1>2, WorkMoves, ReleaseMoves
<1>5. Charges(n)' = Charges(n) /\ NoneReopens /\ (n = Current(w) => ~Open(n)')
  BY <1>1, <1>2, ChargesStay, CollectedIsTaken DEF stripeVars
<1>6. MayCharge(w, n)' => MayCharge(w, n)
  BY <1>2, <1>3, <1>4 DEF MayCharge, Holds
<1>7. (Holds(w, n) => ~Open(n)') /\ ~At(w, "item")'
  BY <1>4, <1>5 DEF Holds, At
<1> QED
  BY <1>2, <1>4, <1>5, <1>6, <1>7, CycleStaysWithinBudget

LEMMA GivingUpWithinBudget ==
  ASSUME BudgetInv, NEW w \in Worker, FailRow(w) \/ Crash(w), NEW n \in Period
  PROVE  WithinBudget(n)'
<1>1. BillingInv /\ BillingTypeOK /\ RestTypeOK
  BY DEF BudgetInv, ChargeInv, BillingInv
<1>2. cuts' = cuts + 1 /\ UNCHANGED stripeVars /\ Release(w)
  BY DEF FailRow, Crash, Cut
<1> DEFINE todo == worker[w].todo \ {Current(w)}
<1>3. \A m \in todo : m \in worker[w].todo /\ m # Current(w)
  OBVIOUS
<1>4. OnlyMoves(w) /\ (MayCharge(w, n)' => MayCharge(w, n))
  <2>1. CASE At(w, "settling") /\ Advance(w, "settling", "settled")
    <3>1. Work(w, todo, "settling", "settled")
      BY <2>1 DEF Advance
    <3> HIDE DEF todo
    <3>2. OnlyMoves(w)
      BY <1>1, <1>2, <3>1, WorkMoves, ReleaseMoves
    <3> QED
      BY <2>1, <3>2 DEF MayCharge, At
  <2>2. CASE worker[w].pc \in {"item", "invoice", "pay", "mark", "write"} /\ Advance(w, "reading", "idle")
    <3>1. Work(w, todo, "reading", "idle")
      BY <2>2 DEF Advance
    <3> HIDE DEF todo
    <3>2. worker'[w].pc \in {"reading", "idle"} /\ worker'[w].todo = todo /\ OnlyMoves(w)
      BY <1>1, <1>2, <3>1, WorkMoves, ReleaseMoves
    <3> QED
      BY <1>3, <2>2, <3>2 DEF MayCharge, Holds
  <2>3. CASE Crash(w)
    <3>1. worker'[w] = Idle /\ \A v \in Worker \ {w} : worker'[v] = worker[v]
      BY <1>1, <2>3 DEF Crash, BillingTypeOK
    <3>2. OnlyMoves(w)
      BY <1>2, <3>1, ReleaseMoves
    <3> QED
      BY <3>1, <3>2 DEF MayCharge, Idle
  <2> QED
    BY <2>1, <2>2, <2>3 DEF FailRow
<1>5. Strays(n)' \subseteq Strays(n)
  BY <1>1, <1>4, NoNewStrays
<1> QED
  BY <1>2, <1>5, CutsRaiseBudget

\* The cycle that loses its lease is one more that runs on.
LEMMA LeaseLapseWithinBudget ==
  ASSUME BudgetInv, LeaseLapse, NEW n \in Period
  PROVE  WithinBudget(n)'
<1> DEFINE h == holder
           s == Strays(n)
           t == Strays(n)'
<1>1. /\ BillingInv /\ h \in Worker /\ h # NoOwner /\ cuts \in Nat
      /\ WithinBudget(n)
  BY OverageAssumption DEF BudgetInv, ChargeInv, RestTypeOK, LeaseLapse
<1>2. /\ holder' = NoOwner /\ cuts' = cuts + 1 /\ UNCHANGED stripeVars
      /\ over' = over /\ worker' = worker
  BY DEF LeaseLapse, Cut
<1>3. Charges(n) \in Nat /\ Charges(n)' = Charges(n)
  BY <1>1, <1>2, ItemsAreCounted, ChargesStay DEF stripeVars
<1>4. \A v \in Worker : MayCharge(v, n)' = MayCharge(v, n)
  BY <1>2, StandingStill
<1>5. Left(n)' = IF Open(n) THEN 1 ELSE 0
  BY <1>2, SameRowsStayTaken DEF Left
<1>6. IsFiniteSet(s) /\ Cardinality(s) \in Nat
  BY <1>1, FS_CardinalityType DEF WithinBudget
<1>7. h \notin s
  BY DEF Strays
<1>8. CASE MayCharge(h, n)
  <2>1. t = s \cup {h}
    BY <1>1, <1>2, <1>4, <1>8, OverageAssumption DEF Strays
  <2>2. IsFiniteSet(t) /\ Cardinality(t) = Cardinality(s) + 1
    BY <1>6, <1>7, <2>1, FS_AddElement
  <2>3. ~Holds(h, n)
    BY <1>8 DEF MayCharge, Holds
  <2>4. Left(n)' <= Left(n)
    BY <1>1, <1>5, <2>3 DEF Left
  <2> HIDE DEF s, t
  <2>5. Charges(n)' + Cardinality(t) + Left(n)' <= 1 + cuts'
    BY <1>1, <1>2, <1>3, <1>6, <2>2, <2>4, LeftIsFew DEF WithinBudget, s
  <2> QED
    BY <2>2, <2>5 DEF WithinBudget, t
<1>9. CASE ~MayCharge(h, n)
  <2>1. t \subseteq s
    BY <1>1, <1>2, <1>4, <1>9 DEF Strays
  <2> QED
    BY <1>2, <2>1, CutsRaiseBudget
<1> QED
  BY <1>8, <1>9

\* Everybody else leaves the charges alone.
LEMMA OutsideWithinBudget ==
  ASSUME BudgetInv, NoneReopens, UNCHANGED <<stripeVars, worker, holder, cuts>>, NEW n \in Period
  PROVE  WithinBudget(n)'
<1>1. Charges(n)' = Charges(n)
  BY ChargesStay DEF BudgetInv, ChargeInv, stripeVars
<1>2. Strays(n)' = Strays(n)
  BY DEF Strays, MayCharge, Holds, Current
<1>3. Left(n)' <= Left(n)
  BY DEF Left, Holds, Current, At, NoneReopens
<1> QED
  BY <1>1, <1>2, <1>3, BudgetStays

-----------------------------------------------------------------------------
(* A period is opened once. *)

AllOpenedOnce == \A n \in Period : OpenedOnce(n)

\* Invoices that stay, and periods that are opened no more than they were.
LEMMA CopiesStay ==
  ASSUME NEW n \in Period, OpenedOnce(n), bill'[n].copies = bill[n].copies,
         n > 1 => (n \in Opened => n \in Opened')
  PROVE  OpenedOnce(n)'
BY DEF OpenedOnce

LEMMA SetupOpensFirst ==
  ASSUME BillingInv, AllOpenedOnce, HandleSetupEvent
  PROVE  AllOpenedOnce'
<1> SUFFICES ASSUME NEW n \in Period PROVE OpenedOnce(n)'
  BY DEF AllOpenedOnce
<1> DEFINE status == IF setup = "completed" THEN "PAID" ELSE "VOID"
<1>1. bill' = [bill EXCEPT ![1].status = status] /\ n \in Nat
  BY PeriodsAreNaturals DEF HandleSetupEvent
<1>2. bill[n] = [status |-> bill[n].status, settled |-> bill[n].settled, copies |-> bill[n].copies]
  BY DEF BillingInv, BillingTypeOK
<1> HIDE DEF status
<1>3. CASE n = 1
  <2>1. bill'[n] = [status |-> status, settled |-> bill[n].settled, copies |-> bill[n].copies]
    BY <1>1, <1>2, <1>3 DEF BillingInv, BillingTypeOK
  <2> QED
    BY <1>3, <2>1 DEF AllOpenedOnce, OpenedOnce
<1>4. CASE n # 1
  <2>1. bill'[n] = bill[n]
    BY <1>1, <1>4 DEF BillingInv, BillingTypeOK
  <2> QED
    BY <2>1, CopiesStay DEF AllOpenedOnce, Opened
<1> QED
  BY <1>3, <1>4

LEMMA RenewalOpensOnce ==
  ASSUME BillingInv, AllOpenedOnce, StripeRenews
  PROVE  AllOpenedOnce'
<1> SUFFICES ASSUME NEW n \in Period PROVE OpenedOnce(n)'
  BY DEF AllOpenedOnce
<1>1. bill' = [bill EXCEPT ![now] = Bill("PAID", 1)] /\ now \in Period
  BY DEF StripeRenews
<1>2. CASE n = now
  <2>1. bill'[n] = Bill("PAID", 1)
    BY <1>1, <1>2 DEF BillingInv, BillingTypeOK
  <2> QED
    BY <2>1 DEF OpenedOnce, Opened, Bill
<1>3. CASE n # now
  <2>1. bill'[n] = bill[n]
    BY <1>1, <1>3 DEF BillingInv, BillingTypeOK
  <2> QED
    BY <2>1, CopiesStay DEF AllOpenedOnce, Opened
<1> QED
  BY <1>2, <1>3

\* What is rolled over to was not opened before, so it has no invoice yet.
LEMMA RollOverOpensOnce ==
  ASSUME BillingInv, AllOpenedOnce, NEW n \in Period, n + 1 \in Period, MaySettle(n), RollOver(n)
  PROVE  AllOpenedOnce'
<1> SUFFICES ASSUME NEW m \in Period PROVE OpenedOnce(m)'
  BY DEF AllOpenedOnce
<1>1. bill[n] = [status |-> bill[n].status, settled |-> bill[n].settled, copies |-> bill[n].copies]
  BY DEF BillingInv, BillingTypeOK
<1>2. BillingTypeOK /\ OpenedOnce(m) /\ n \in Opened /\ ~bill[n].settled
  BY DEF BillingInv, AllOpenedOnce, MaySettle, Opened
<1>3. CASE bill' = [bill EXCEPT ![n].settled = TRUE]
  <2>1. bill'[m].copies = bill[m].copies
    <3>1. CASE m = n
      <4>1. bill'[m] = [status |-> bill[n].status, settled |-> TRUE, copies |-> bill[n].copies]
        BY <1>1, <1>2, <1>3, <3>1 DEF BillingTypeOK
      <4> QED
        BY <3>1, <4>1
    <3>2. CASE m # n
      BY <1>2, <1>3, <3>2 DEF BillingTypeOK
    <3> QED
      BY <3>1, <3>2
  <2>2. Opened' = Opened
    BY <1>2, <1>3, SettlingUpdates
  <2> QED
    BY <1>2, <2>1, <2>2, CopiesStay
<1>4. CASE ~linked /\ bill' = [bill EXCEPT ![n].settled = TRUE,
                                           ![n + 1] = Bill("PAID", bill[n + 1].copies + 1)]
  <2>1. n \in Nat \ {0} /\ n + 1 > 1 /\ n + 1 # n
    BY PeriodsAreNaturals
  <2>2. n + 1 \notin Opened /\ bill[n + 1].copies = 0
    <3>1. n + 1 \notin Opened
      BY <1>2, <1>4, RollsFromLast
    <3>2. OpenedOnce(n + 1)
      BY DEF AllOpenedOnce
    <3> QED
      BY <2>1, <3>1, <3>2 DEF OpenedOnce
  <2>3. Opened' = Opened \cup {n + 1} /\ \A k \in Period \ {n, n + 1} : bill'[k] = bill[k]
    BY <1>2, <1>4, RollingUpdates
  <2>4. CASE m = n + 1
    <3>1. bill'[m] = Bill("PAID", bill[n + 1].copies + 1)
      BY <1>2, <1>4, <2>1, <2>4 DEF BillingTypeOK
    <3>2. bill'[m].copies = 1
      BY <2>2, <3>1 DEF Bill
    <3> QED
      BY <2>3, <2>4, <3>2 DEF OpenedOnce
  <2>5. CASE m = n
    <3>1. bill'[m] = [status |-> bill[n].status, settled |-> TRUE, copies |-> bill[n].copies]
      BY <1>1, <1>2, <1>4, <2>1, <2>5 DEF BillingTypeOK
    <3> QED
      BY <1>2, <2>3, <2>5, <3>1, CopiesStay
  <2>6. CASE m # n /\ m # n + 1
    BY <1>2, <2>3, <2>6, CopiesStay
  <2> QED
    BY <2>4, <2>5, <2>6
<1> QED
  BY <1>3, <1>4 DEF RollOver, LocallyManaged

LEMMA MaterializeOpensOnce ==
  ASSUME BillingInv, AllOpenedOnce, NEW w \in Worker, Materialize(w)
  PROVE  AllOpenedOnce'
<1> DEFINE n == Current(w)
<1>1. BillingTypeOK /\ worker[w].todo # {} /\ \A m \in worker[w].todo : m < now
  BY DEF BillingInv, CyclesLookBack, CycleIsSound, At, Materialize
<1>2. n \in Period /\ n + 1 \in Period
  <2>1. n \in Period /\ n < now /\ now \in Period
    BY <1>1, CurrentIsLeft DEF BillingTypeOK
  <2>2. Periods \in Nat
    BY PeriodsAreNaturals
  <2> HIDE DEF n
  <2> QED
    BY <2>1, <2>2 DEF Period
<1>3. CASE MaySettle(n) /\ RollOver(n)
  BY <1>2, <1>3, RollOverOpensOnce
<1>4. CASE bill' = bill
  BY <1>4 DEF AllOpenedOnce, OpenedOnce, Opened
<1> QED
  BY <1>3, <1>4 DEF Materialize

-----------------------------------------------------------------------------
(* Together *)

LEMMA RestIsTyped ==
  ASSUME BudgetInv, [Next]_vars
  PROVE  RestTypeOK'
<1>1. RestTypeOK /\ BillingInv /\ NoOwner \notin Worker /\ MaxCuts \in Nat
  BY OverageAssumption DEF BudgetInv, ChargeInv
<1>2. ASSUME NEW w \in Worker, WorkerStep(w) \/ FailRow(w) \/ Crash(w)
      PROVE  RestTypeOK'
  <2>1. holder' \in {holder, NoOwner, w} /\ setup' = setup /\ phantom' = phantom
    BY <1>2 DEF WorkerStep, Acquire, Materialize, FetchPending, ReadOverage, CreateItem, CreateInvoice,
      PayInvoice, MarkCollected, WriteCollected, FailRow, Crash, Release
  <2>2. cuts' = cuts \/ Cut
    BY <1>2 DEF WorkerStep, Acquire, Materialize, FetchPending, ReadOverage, CreateItem, CreateInvoice,
      PayInvoice, MarkCollected, WriteCollected, FailRow, Crash
  <2>3. cuts' \in 0..MaxCuts
    BY <1>1, <2>2 DEF Cut, RestTypeOK
  <2> QED
    BY <1>1, <2>1, <2>3 DEF RestTypeOK
<1>3. CASE LeaseLapse
  <2>1. cuts' \in 0..MaxCuts
    BY <1>1, <1>3 DEF LeaseLapse, Cut, RestTypeOK
  <2> QED
    BY <1>1, <1>3, <2>1 DEF LeaseLapse, RestTypeOK
<1>4. ASSUME NEW h \in Webhook, HandlerStep(h) PROVE RestTypeOK'
  <2>1. UNCHANGED <<setup, holder, cuts>>
    BY <1>4 DEF HandlerStep, ResolveInvoice, ReadInvoice, SyncInvoice, SyncAccess, DropEvent
  <2>2. phantom' = phantom \/ \E i \in DOMAIN inv : phantom' = phantom \cup {i}
    BY <1>4 DEF HandlerStep, ResolveInvoice, ReadInvoice, SyncInvoice, SyncAccess, DropEvent
  <2>3. DOMAIN inv \subseteq Nat
    BY <1>1, InvoicesAreTyped DEF BillingInv
  <2> QED
    BY <1>1, <2>1, <2>2, <2>3 DEF RestTypeOK
<1>5. CASE \/ NextPeriod \/ FinishSetup \/ HandleSetupEvent \/ CancelSubscription
           \/ StripeRenews \/ StripeEnds \/ (\E n \in Period : RecordUsage(n)) \/ UNCHANGED vars
  BY <1>1, <1>5 DEF NextPeriod, FinishSetup, HandleSetupEvent, CancelSubscription, StripeRenews,
    StripeEnds, RecordUsage, vars, RestTypeOK
<1> QED
  BY <1>2, <1>3, <1>4, <1>5 DEF Next

LEMMA OpenedOnceNext ==
  ASSUME BudgetInv, [Next]_vars
  PROVE  AllOpenedOnce'
<1>1. BillingInv /\ AllOpenedOnce
  BY DEF BudgetInv, ChargeInv, AllOpenedOnce
<1>2. CASE HandleSetupEvent \/ StripeRenews \/ \E w \in Worker : Materialize(w)
  BY <1>1, <1>2, SetupOpensFirst, RenewalOpensOnce, MaterializeOpensOnce
<1>3. CASE bill' = bill
  BY <1>1, <1>3 DEF AllOpenedOnce, OpenedOnce, Opened
<1>4. ASSUME NEW w \in Worker, WorkerStep(w) \/ FailRow(w) \/ Crash(w)
      PROVE  Materialize(w) \/ bill' = bill
  BY <1>4 DEF WorkerStep, Acquire, FetchPending, ReadOverage, CreateItem, CreateInvoice,
      PayInvoice, MarkCollected, WriteCollected, FailRow, Crash
<1>5. CASE \/ NextPeriod \/ FinishSetup \/ CancelSubscription \/ StripeEnds \/ LeaseLapse
           \/ (\E h \in Webhook : HandlerStep(h)) \/ (\E n \in Period : RecordUsage(n))
           \/ UNCHANGED vars
  BY <1>3, <1>5 DEF NextPeriod, FinishSetup, CancelSubscription, StripeEnds, LeaseLapse,
      HandlerStep, ResolveInvoice, ReadInvoice, SyncInvoice, SyncAccess, DropEvent, RecordUsage, vars
<1> QED
  BY <1>2, <1>3, <1>4, <1>5 DEF Next

LEMMA BudgetNext ==
  ASSUME BudgetInv, [Next]_vars, NEW n \in Period
  PROVE  WithinBudget(n)'
<1>1. BillingInv
  BY DEF BudgetInv, ChargeInv
<1>2. ASSUME NEW w \in Worker, WorkerStep(w) \/ FailRow(w) \/ Crash(w)
      PROVE  WithinBudget(n)'
  BY <1>2, AcquireWithinBudget, MaterializeWithinBudget, FetchPendingWithinBudget,
     ReadOverageWithinBudget, CreateItemWithinBudget, CreateInvoiceWithinBudget,
     PayInvoiceWithinBudget, MarkCollectedWithinBudget, WriteCollectedWithinBudget,
     GivingUpWithinBudget DEF WorkerStep
<1>3. CASE LeaseLapse
  BY <1>3, LeaseLapseWithinBudget
<1>4. ASSUME NEW h \in Webhook, HandlerStep(h) PROVE WithinBudget(n)'
  <2>1. UNCHANGED <<stripeVars, worker, holder, cuts>>
    BY <1>4 DEF HandlerStep, ResolveInvoice, ReadInvoice, SyncInvoice, SyncAccess, DropEvent
  <2> QED
    BY <1>1, <1>4, <2>1, HandlersReopenNothing, OutsideWithinBudget
<1>5. CASE \/ NextPeriod \/ FinishSetup \/ HandleSetupEvent \/ CancelSubscription
           \/ StripeRenews \/ StripeEnds \/ (\E m \in Period : RecordUsage(m)) \/ UNCHANGED vars
  <2>1. over' = over /\ UNCHANGED <<stripeVars, worker, holder, cuts>>
    BY <1>5 DEF NextPeriod, FinishSetup, HandleSetupEvent, CancelSubscription, StripeRenews,
      StripeEnds, RecordUsage, vars, stripeVars
  <2> QED
    BY <2>1, SameRowsStayTaken, OutsideWithinBudget
<1> QED
  BY <1>2, <1>3, <1>4, <1>5 DEF Next

LEMMA BudgetInvInit == Init => BudgetInv
<1> SUFFICES ASSUME Init PROVE BudgetInv
  OBVIOUS
<1>1. ChargeInv
  BY ChargeInvInit
<1>2. RestTypeOK
  BY OverageAssumption DEF Init, RestTypeOK, SetupSession
<1> SUFFICES ASSUME NEW n \in Period PROVE OpenedOnce(n) /\ WithinBudget(n)
  BY <1>1, <1>2 DEF BudgetInv
<1>3. OpenedOnce(n)
  <2>1. bill[n] = IF n > 1 THEN Bill("NONE", 0) ELSE Bill(IF linked THEN "PAID" ELSE "DRAFT", 1)
    BY DEF Init
  <2> QED
    BY <2>1 DEF OpenedOnce, Bill
<1>4. Strays(n) = {}
  BY DEF Init, Idle, Strays, MayCharge
<1>5. Charges(n) = 0
  <2> DEFINE f == ItemsOf(n)
  <2>1. DOMAIN inv = {} /\ pending[n] = 0 /\ IsFiniteSet(DOMAIN inv)
    BY FS_EmptySet DEF Init
  <2>2. Charges(n) = 0 + SumFunctionOnSet(f, DOMAIN inv)
    BY <2>1 DEF Charges, SumFunction, ItemsOf
  <2> HIDE DEF f
  <2>3. SumFunctionOnSet(f, DOMAIN inv) = 0
    BY <2>1, SumOfZeros
  <2> QED
    BY <2>2, <2>3
<1>6. WithinBudget(n)
  <2>1. cuts = 0
    BY DEF Init
  <2> QED
    BY <1>4, <1>5, <2>1, LeftIsFew, FS_EmptySet DEF WithinBudget
<1> QED
  BY <1>3, <1>6

LEMMA BudgetInvNext == BudgetInv /\ [Next]_vars => BudgetInv'
<1> SUFFICES ASSUME BudgetInv, [Next]_vars PROVE BudgetInv'
  OBVIOUS
<1>1. ChargeInv'
  BY ChargeInvNext DEF BudgetInv
<1>2. \A n \in Period : OpenedOnce(n)' /\ WithinBudget(n)'
  BY OpenedOnceNext, BudgetNext DEF AllOpenedOnce
<1> QED
  BY <1>1, <1>2, RestIsTyped DEF BudgetInv

LEMMA BudgetInvBounds == BudgetInv => OverageInv
<1> SUFFICES ASSUME BudgetInv PROVE OverageInv
  OBVIOUS
<1>1. BillingInv /\ RestTypeOK
  BY DEF BudgetInv, ChargeInv
<1>2. TypeOK
  BY <1>1 DEF BillingInv, BillingTypeOK, InvoicesHaveRows, StripeInvoice, HandlersAreSound, RestTypeOK,
     TypeOK, Period
<1>3. ASSUME NEW n \in Period PROVE bill[n].copies <= 1 /\ Charges(n) <= 1 + cuts
  <2>1. OpenedOnce(n) /\ WithinBudget(n) /\ Charges(n) \in Nat /\ cuts \in Nat
    BY <1>1, ItemsAreCounted, OverageAssumption DEF BudgetInv, RestTypeOK
  <2>2. Cardinality(Strays(n)) \in Nat
    BY <2>1, FS_CardinalityType DEF WithinBudget
  <2> QED
    BY <2>1, <2>2, LeftIsFew DEF OpenedOnce, WithinBudget
<1> QED
  BY <1>2, <1>3 DEF OverageInv, ChargesAreBounded

\* Whatever number of processes run and wherever they are cut off, an overage is
\* charged once, and once more per crash, lost answer or lapsed lease at most, and
\* no period is opened twice (processDueOverageCollection, createManagedInvoice).
THEOREM ChargesBounded == Spec => []OverageInv
BY BudgetInvInit, BudgetInvNext, BudgetInvBounds, PTL DEF Spec

-----------------------------------------------------------------------------
(* What the rows say as long as nothing was cut off. *)

ItemOf(n) == [m \in Period |-> IF m = n THEN 1 ELSE 0]
NoItems == [m \in Period |-> 0]

\* Only the cycle under the lease runs, and it has put one item into every invoice.
Uncut ==
  cuts = 0 =>
    /\ \A w \in Worker : ~At(w, "idle") => holder = w
    /\ \A w \in Worker : At(w, "invoice") => pending = ItemOf(Current(w))
    /\ (\A w \in Worker : ~At(w, "invoice")) => pending = NoItems
    /\ \A i \in DOMAIN inv : inv[i].items = ItemOf(inv[i].period)

RecordInv == BudgetInv /\ Uncut

LEMMA UncutInit == Init => Uncut
BY DEF Init, Idle, Uncut, At, NoItems

\* The steps of the cycle under the lease that ask nothing of Stripe.
LEMMA UncutByCycle ==
  ASSUME BudgetInv, Uncut, cuts = 0, NEW w \in Worker, OnlyMoves(w),
         ~At(w, "idle"), ~At(w, "invoice"), ~At(w, "invoice")', UNCHANGED stripeVars
  PROVE  Uncut'
<1>1. holder = w /\ \A v \in Worker \ {w} : At(v, "idle")
  BY DEF Uncut
<1>2. \A v \in Worker \ {w} : worker'[v].pc = "idle"
  BY <1>1 DEF OnlyMoves, At
<1>3. \A v \in Worker : ~At(v, "idle")' => holder' = v
  BY <1>1, <1>2 DEF OnlyMoves, At
<1>4. \A v \in Worker : ~At(v, "invoice") /\ ~At(v, "invoice")'
  BY <1>1, <1>2 DEF At
<1> QED
  BY <1>3, <1>4 DEF Uncut, stripeVars

LEMMA AcquireUncut ==
  ASSUME BudgetInv, Uncut, cuts = 0, NEW w \in Worker, Acquire(w)
  PROVE  Uncut'
<1>1. BillingTypeOK /\ holder = NoOwner /\ holder' = w /\ Work(w, Due, "settling", "settled")
      /\ UNCHANGED stripeVars
  BY DEF BudgetInv, ChargeInv, BillingInv, Acquire
<1>2. \A v \in Worker : At(v, "idle")
  BY <1>1, OverageAssumption DEF Uncut
<1>3. worker'[w].pc \in {"settling", "settled"} /\ \A v \in Worker \ {w} : worker'[v] = worker[v]
  BY <1>1, WorkMoves
<1>4. \A v \in Worker : ~At(v, "invoice") /\ ~At(v, "invoice")'
  BY <1>2, <1>3 DEF At
<1>5. \A v \in Worker : ~At(v, "idle")' => holder' = v
  BY <1>1, <1>2, <1>3 DEF At
<1> QED
  BY <1>1, <1>4, <1>5 DEF Uncut, stripeVars

LEMMA CreateItemUncut ==
  ASSUME BudgetInv, Uncut, cuts = 0, NEW w \in Worker, CreateItem(w)
  PROVE  Uncut'
<1>1. BillingInv /\ BillingTypeOK /\ worker[w].pc = "item" /\ holder' = holder /\ inv' = inv
      /\ Goto(w, "invoice") /\ pending' = [pending EXCEPT ![Current(w)] = pending[Current(w)] + 1]
      /\ UNCHANGED rowVars
  BY DEF BudgetInv, ChargeInv, BillingInv, CreateItem, At, rowVars
<1>2. holder = w /\ \A v \in Worker \ {w} : worker[v].pc = "idle"
  BY <1>1 DEF Uncut, At
<1>3. Current(w) \in Period
  <2>1. Grows
    BY <1>1, RowsUntouched
  <2> QED
    BY <1>1, <2>1, CallHasRow
<1>4. /\ worker'[w].pc = "invoice" /\ Current(w)' = Current(w)
      /\ \A v \in Worker \ {w} : worker'[v] = worker[v]
  BY <1>1, GotoMoves DEF Pc
<1>5. pending' = ItemOf(Current(w))
  <2>1. pending = NoItems
    BY <1>1, <1>2 DEF Uncut, At
  <2> QED
    BY <1>1, <1>3, <2>1 DEF NoItems, ItemOf
<1>6. (\A v \in Worker : ~At(v, "idle") => holder = v)'
  BY <1>1, <1>2, <1>4 DEF At
<1>7. (\A v \in Worker : At(v, "invoice") => pending = ItemOf(Current(v)))'
  <2>1. \A v \in Worker : At(v, "invoice")' => v = w
    BY <1>2, <1>4 DEF At
  <2> QED
    BY <1>4, <1>5, <2>1 DEF ItemOf
<1>8. (\A k \in DOMAIN inv : inv[k].items = ItemOf(inv[k].period))'
  BY <1>1 DEF Uncut, ItemOf
<1>9. At(w, "invoice")'
  BY <1>4 DEF At
<1> QED
  BY <1>6, <1>7, <1>8, <1>9 DEF Uncut

LEMMA CreateInvoiceUncut ==
  ASSUME BudgetInv, Uncut, cuts = 0, NEW w \in Worker, CreateInvoice(w)
  PROVE  Uncut'
<1> DEFINE made == [period |-> Current(w), items |-> pending, status |-> "draft"]
<1>1. BillingInv /\ BillingTypeOK /\ worker[w].pc = "invoice" /\ holder' = holder
      /\ inv' = Append(inv, made) /\ pending' = NoItems
      /\ worker' = [worker EXCEPT ![w].pc = "pay", ![w].ext = Len(inv) + 1]
  BY DEF BudgetInv, ChargeInv, BillingInv, CreateInvoice, At, NoItems
<1>2. holder = w /\ (\A v \in Worker \ {w} : worker[v].pc = "idle") /\ pending = ItemOf(Current(w))
  BY <1>1 DEF Uncut, At
<1>3. worker'[w].pc = "pay" /\ \A v \in Worker \ {w} : worker'[v] = worker[v]
  BY <1>1, GotoMoves DEF Pc
<1>4. made.items = ItemOf(made.period)
  BY <1>2
<1> HIDE DEF made
<1>5. \A i \in DOMAIN inv' : inv'[i].items = ItemOf(inv'[i].period)
  <2>1. inv \in Seq(StripeInvoice)
    BY <1>1 DEF BillingInv, InvoicesHaveRows
  <2>2. /\ DOMAIN inv = 1..Len(inv) /\ DOMAIN inv' = 1..(Len(inv) + 1) /\ Len(inv) \in Nat
        /\ \A i \in 1..Len(inv) : inv'[i] = inv[i]
        /\ inv'[Len(inv) + 1] = made
    BY <1>1, <2>1, LenProperties
  <2>3. \A i \in DOMAIN inv' : i \in DOMAIN inv \/ i = Len(inv) + 1
    BY <2>2
  <2> QED
    BY <1>4, <2>2, <2>3 DEF Uncut
<1> QED
  BY <1>1, <1>2, <1>3, <1>5 DEF Uncut, At, ItemOf

LEMMA PayInvoiceUncut ==
  ASSUME BudgetInv, Uncut, cuts = 0, NEW w \in Worker, PayInvoice(w)
  PROVE  Uncut'
<1>1. BillingInv /\ BillingTypeOK /\ worker[w].pc = "pay" /\ holder' = holder /\ pending' = pending
      /\ Goto(w, "mark")
  BY DEF BudgetInv, ChargeInv, BillingInv, PayInvoice, At
<1>2. holder = w /\ \A v \in Worker \ {w} : worker[v].pc = "idle"
  BY <1>1 DEF Uncut, At
<1>3. worker'[w].pc = "mark" /\ \A v \in Worker \ {w} : worker'[v] = worker[v]
  BY <1>1, GotoMoves DEF Pc
<1>4. DOMAIN inv' = DOMAIN inv
      /\ \A i \in DOMAIN inv : inv'[i].items = inv[i].items /\ inv'[i].period = inv[i].period
  BY PaymentKeepsItems DEF BudgetInv, ChargeInv
<1> QED
  BY <1>1, <1>2, <1>3, <1>4 DEF Uncut, At, ItemOf, NoItems

LEMMA WorkerStepUncut ==
  ASSUME BudgetInv, Uncut, cuts = 0, NEW w \in Worker, WorkerStep(w)
  PROVE  Uncut'
<1>1. BillingTypeOK
  BY DEF BudgetInv, ChargeInv, BillingInv
<1>2. CASE Acquire(w) \/ CreateItem(w) \/ CreateInvoice(w) \/ PayInvoice(w)
  BY <1>2, AcquireUncut, CreateItemUncut, CreateInvoiceUncut, PayInvoiceUncut
<1>3. CASE Materialize(w) \/ FetchPending(w) \/ ReadOverage(w) \/ MarkCollected(w) \/ WriteCollected(w)
  <2>1. UNCHANGED stripeVars /\ ~At(w, "idle") /\ ~At(w, "invoice") /\ Release(w)
    BY <1>3 DEF Materialize, FetchPending, ReadOverage, MarkCollected, WriteCollected, At
  <2>2. worker'[w].pc # "invoice" /\ \A v \in Worker \ {w} : worker'[v] = worker[v]
    <3>1. CASE Materialize(w)
      BY <1>1, <3>1, WorkMoves DEF Materialize, Advance
    <3>2. CASE FetchPending(w)
      BY <1>1, <3>2, WorkMoves DEF FetchPending
    <3>3. CASE ReadOverage(w)
      <4>1. Goto(w, "item") \/ Advance(w, "reading", "idle")
        BY <3>3 DEF ReadOverage
      <4>2. CASE Goto(w, "item")
        <5>1. "item" \in Pc
          BY DEF Pc
        <5> QED
          BY <1>1, <4>2, <5>1, GotoMoves
      <4>3. CASE Advance(w, "reading", "idle")
        BY <1>1, <4>3, WorkMoves DEF Advance
      <4> QED
        BY <4>1, <4>2, <4>3
    <3>4. CASE MarkCollected(w)
      <4>1. Goto(w, "write") \/ Advance(w, "reading", "idle")
        BY <3>4 DEF MarkCollected
      <4>2. CASE Goto(w, "write")
        <5>1. "write" \in Pc
          BY DEF Pc
        <5> QED
          BY <1>1, <4>2, <5>1, GotoMoves
      <4>3. CASE Advance(w, "reading", "idle")
        BY <1>1, <4>3, WorkMoves DEF Advance
      <4> QED
        BY <4>1, <4>2, <4>3
    <3>5. CASE WriteCollected(w)
      BY <1>1, <3>5, WorkMoves DEF WriteCollected, Advance
    <3> QED
      BY <1>3, <3>1, <3>2, <3>3, <3>4, <3>5
  <2>3. OnlyMoves(w) /\ ~At(w, "invoice")'
    BY <2>1, <2>2, ReleaseMoves DEF At
  <2> QED
    BY <2>1, <2>3, UncutByCycle
<1> QED
  BY <1>2, <1>3 DEF WorkerStep

LEMMA UncutNext == BudgetInv /\ Uncut /\ [Next]_vars => Uncut'
<1> SUFFICES ASSUME BudgetInv, Uncut, [Next]_vars PROVE Uncut'
  OBVIOUS
<1>1. CASE cuts' = cuts + 1
  <2>1. cuts \in Nat
    BY OverageAssumption DEF BudgetInv, RestTypeOK
  <2> QED
    BY <1>1, <2>1 DEF Uncut
<1>2. ASSUME NEW w \in Worker, WorkerStep(w) PROVE Uncut'
  <2>1. cuts' = cuts
    BY <1>2 DEF WorkerStep, Acquire, Materialize, FetchPending, ReadOverage, CreateItem, CreateInvoice,
       PayInvoice, MarkCollected, WriteCollected
  <2>2. CASE cuts = 0
    BY <1>2, <2>2, WorkerStepUncut
  <2> QED
    BY <2>1, <2>2 DEF Uncut
<1>3. ASSUME NEW w \in Worker, FailRow(w) \/ Crash(w) PROVE Uncut'
  BY <1>1, <1>3 DEF FailRow, Crash, Cut
<1>4. CASE LeaseLapse
  BY <1>1, <1>4 DEF LeaseLapse, Cut
<1>5. CASE UNCHANGED <<stripeVars, holder, worker, cuts>>
  BY <1>5 DEF Uncut, At, Current, stripeVars, ItemOf, NoItems
<1>6. ASSUME NEW h \in Webhook, HandlerStep(h) PROVE Uncut'
  BY <1>5, <1>6 DEF HandlerStep, ResolveInvoice, ReadInvoice, SyncInvoice, SyncAccess, DropEvent
<1>7. CASE \/ NextPeriod \/ FinishSetup \/ HandleSetupEvent \/ CancelSubscription
           \/ StripeRenews \/ StripeEnds \/ (\E n \in Period : RecordUsage(n)) \/ UNCHANGED vars
  BY <1>5, <1>7 DEF NextPeriod, FinishSetup, HandleSetupEvent, CancelSubscription, StripeRenews,
     StripeEnds, RecordUsage, vars, stripeVars
<1> QED
  BY <1>2, <1>3, <1>4, <1>6, <1>7 DEF Next

\* Two invoices with an item of the period would be two charges.
LEMMA InvoicedOnce ==
  ASSUME RecordInv, cuts = 0, NEW i \in DOMAIN inv, NEW j \in DOMAIN inv,
         inv[i].period = inv[j].period
  PROVE  i = j
<1> DEFINE n == inv[i].period
           f == ItemsOf(n)
           D == DOMAIN inv
<1>1. BillingInv /\ n \in Period /\ WithinBudget(n)
  BY InvoicesAreTyped DEF RecordInv, BudgetInv, ChargeInv, BillingInv
<1>2. f[i] = 1 /\ f[j] = 1
  BY <1>1 DEF RecordInv, Uncut, ItemsOf, ItemOf
<1>3. IsFiniteSet(D) /\ Counts(f, D) /\ Charges(n) \in Nat
      /\ pending[n] \in Nat /\ Charges(n) = pending[n] + SumFunctionOnSet(f, D)
  BY <1>1, ItemsAreCounted
<1>4. Charges(n) <= 1
  <2>1. Cardinality(Strays(n)) \in Nat
    BY <1>1, FS_CardinalityType DEF WithinBudget
  <2> QED
    BY <1>1, <1>3, <2>1, LeftIsFew DEF WithinBudget
<1> HIDE DEF f, n, D
<1>5. SUFFICES ASSUME i # j PROVE FALSE
  OBVIOUS
<1>6. i \in D /\ j \in D
  BY DEF D
<1>7. SumFunctionOnSet(f, {i, j}) = 2
  <2>1. IsFiniteSet(D) /\ Counts(f, D) /\ i # j
    BY <1>3, <1>5
  <2>2. SumFunctionOnSet(f, {i, j}) = f[i] + f[j]
    BY <1>6, <2>1, SumOfTwo
  <2> QED
    BY <1>2, <2>2
<1>8. {i, j} \in SUBSET D
  BY <1>6
<1>9. SumFunctionOnSet(f, {i, j}) <= SumFunctionOnSet(f, D) /\ SumFunctionOnSet(f, D) \in Nat
  BY <1>3, <1>8, SumGrows, SumType
<1> QED
  BY <1>3, <1>4, <1>7, <1>9

LEMMA RecordInvRecords == RecordInv => RecordedAsCharged
<1> SUFFICES ASSUME RecordInv, NEW n \in Period
             PROVE  LET i == over[n].ext IN
                    /\ i # 0 => i \in DOMAIN inv /\ inv[i].period = n
                    /\ over[n].status = "PAID" =>
                         /\ \E j \in DOMAIN inv : inv[j].period = n /\ inv[j].status = "paid"
                         /\ cuts = 0 => inv[i].status = "paid" /\ inv[i].items = ItemOf(n)
                    /\ over[n].status # "NONE" => bill[n].settled
  BY DEF RecordedAsCharged, ItemOf
<1> DEFINE i == over[n].ext
<1>1. Recorded(n) /\ (over[n].status # "NONE" => bill[n].settled)
  BY DEF RecordInv, BudgetInv, ChargeInv, BillingInv, SettledRows
<1>2. ASSUME over[n].status = "PAID", cuts = 0
      PROVE  inv[i].status = "paid" /\ inv[i].items = ItemOf(n)
  <2>1. i \in DOMAIN inv /\ inv[i].period = n
    BY <1>1, <1>2 DEF Recorded
  <2>2. PICK j \in DOMAIN inv : inv[j].period = n /\ inv[j].status = "paid"
    BY <1>1, <1>2 DEF Recorded, PaidFor
  <2>3. i = j
    BY <1>2, <2>1, <2>2, InvoicedOnce
  <2> QED
    BY <1>2, <2>1, <2>2, <2>3 DEF RecordInv, Uncut
<1> QED
  BY <1>1, <1>2 DEF Recorded, PaidFor

\* Whatever overlaps, is late or is lost, a row carries an invoice made for it and is
\* PAID only after one of them was paid; as long as nothing was cut off, that is the
\* one it carries, and this overage is all it is for (createManagedInvoice,
\* markInvoicePaid, syncInvoiceFromExternal).
THEOREM ChargesAreRecorded == Spec => []RecordedAsCharged
<1>1. Init => RecordInv
  BY BudgetInvInit, UncutInit DEF RecordInv
<1>2. RecordInv /\ [Next]_vars => RecordInv'
  BY BudgetInvNext, UncutNext DEF RecordInv
<1> QED
  BY <1>1, <1>2, RecordInvRecords, PTL DEF Spec
=============================================================================
