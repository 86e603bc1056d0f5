----------------------- MODULE GatewayAdmissionProofs -----------------------
(***************************************************************************)
(* For any number of calls and any limits: the quota is kept, the bucket   *)
(* keeps its budget while it is used in the order of the clock, and the    *)
(* gateway meters access as MeteredAccess says.                            *)
(***************************************************************************)
EXTENDS GatewayAdmission, FiniteSums, TLAPS

USE PlanAssumption, LimiterAssumption, BoundsAssumption

CallRecord == [pc : Pc, n : 1..MaxRequest, at : Time, now : Time]

\* Multiplication distributes over sums (refillTokens, checkAndConsume).
LEMMA Distributes ==
  ASSUME NEW a \in Int, NEW b \in Int, NEW c \in Int
  PROVE  /\ a * (b + c) = a * b + a * c
         /\ (b + c) * a = b * a + c * a
         /\ a * b \in Int
  OBVIOUS

\* Products of quantities are quantities (refillTokens).
LEMMA Products == ASSUME NEW a \in Nat, NEW b \in Nat PROVE a * b \in Nat
  OBVIOUS

\* What is recorded by time adds up to a number (UsageRecord.requestCount).
LEMMA TimesAdd ==
  ASSUME NEW f \in [Time -> Nat], NEW S \in SUBSET Time
  PROVE  IsFiniteSet(S) /\ Counts(f, S) /\ SumFunctionOnSet(f, S) \in Nat
<1>1. IsFiniteSet(S) /\ Counts(f, S)
  <2>1. IsFiniteSet(Time)
    BY FS_Interval DEF Time
  <2> QED
    BY <2>1, FS_Subset DEF Counts
<1> QED
  BY <1>1, SumType

\* One more record adds to the sums over the times that see it
\* (recordUsageInTransaction).
LEMMA SumAfter ==
  ASSUME NEW f \in [Time -> Nat], NEW t \in Time, NEW n \in Nat, NEW S \in SUBSET Time,
         NEW g, g[t] = f[t] + n, \A u \in Time \ {t} : g[u] = f[u]
  PROVE  SumFunctionOnSet(g, S) = SumFunctionOnSet(f, S) + IF t \in S THEN n ELSE 0
<1>1. IsFiniteSet(S) /\ Counts(f, S)
  BY TimesAdd
<1>2. CASE t \in S
  <2>1. \A u \in S \ {t} : g[u] = f[u]
    OBVIOUS
  <2>2. SumFunctionOnSet(g, S) = SumFunctionOnSet(f, S) + n
    BY <1>1, <1>2, <2>1, SumRaised
  <2> QED
    BY <1>2, <2>2
<1>3. CASE t \notin S
  <2>1. \A u \in S : g[u] = f[u]
    BY <1>3
  <2>2. SumFunctionOnSet(g, S) = SumFunctionOnSet(f, S)
    BY <1>1, <2>1, SumSame
  <2>3. SumFunctionOnSet(f, S) \in Nat
    BY TimesAdd
  <2> QED
    BY <1>3, <2>2, <2>3
<1> QED
  BY <1>2, <1>3

\* The rows, and the reports among them, add up to a number (recordUsage).
LEMMA RecordedAdds ==
  ASSUME TypeOK, NEW S \in SUBSET Time
  PROVE  RateUsed(S) \in Nat /\ Reported(S) \in Nat
<1>1. recorded \in [Time -> Nat] /\ reported \in [Time -> Nat]
  BY DEF TypeOK
<1>2. SumFunctionOnSet(recorded, S) \in Nat /\ SumFunctionOnSet(reported, S) \in Nat
  BY <1>1, TimesAdd
<1> QED
  BY <1>2 DEF RateUsed, Reported

\* The windows that see a moment grow by what is recorded there
\* (recordUsageInTransaction).
LEMMA RateRaised ==
  ASSUME TypeOK, NEW t \in Time, NEW n \in Nat, RecordUsage(t, n), NEW S \in SUBSET Time
  PROVE  SumFunctionOnSet(recorded', S) = RateUsed(S) + IF t \in S THEN n ELSE 0
<1>1. /\ recorded \in [Time -> Nat] /\ recorded'[t] = recorded[t] + n
      /\ \A u \in Time \ {t} : recorded'[u] = recorded[u]
  BY DEF TypeOK, RecordUsage
<1>2. SumFunctionOnSet(recorded', S) = SumFunctionOnSet(recorded, S) + IF t \in S THEN n ELSE 0
  BY <1>1, SumAfter
<1> QED
  BY <1>2 DEF RateUsed

\* So do the reports among it (recordUsage).
LEMMA ReportedRaised ==
  ASSUME TypeOK, NEW t \in Time, NEW n \in Nat, NEW S \in SUBSET Time,
         reported'[t] = reported[t] + n, \A u \in Time \ {t} : reported'[u] = reported[u]
  PROVE  SumFunctionOnSet(reported', S) = Reported(S) + IF t \in S THEN n ELSE 0
<1>1. reported \in [Time -> Nat]
  BY DEF TypeOK
<1>2. SumFunctionOnSet(reported', S) = SumFunctionOnSet(reported, S) + IF t \in S THEN n ELSE 0
  BY <1>1, SumAfter
<1> QED
  BY <1>2 DEF Reported

\* A refill leaves the bucket between empty and full (refillTokens).
LEMMA RefillType ==
  ASSUME TypeOK, NEW now \in Time
  PROVE  Refilled(now) \in 0..Capacity
<1>1. Larger(0, now - bucket.last) \in Nat
  BY DEF TypeOK, Time, Larger
<1>2. Burst * Larger(0, now - bucket.last) \in Nat
  BY <1>1, Products
<1>3. Capacity \in Nat
  BY Products DEF Capacity
<1> QED
  BY <1>2, <1>3 DEF TypeOK, Refilled, Smaller

\* A refill by a call that is not late adds no more than the time since the
\* last one is worth (refillTokens).
LEMMA RefillGain ==
  ASSUME TypeOK, BurstBudget, NEW now \in Time, now >= bucket.last
  PROVE  granted * BurstWindow + Refilled(now) <= Capacity + Burst * (now - 1)
<1>1. Capacity \in Nat /\ granted * BurstWindow \in Nat
  BY Products DEF Capacity, TypeOK
<1>2. Larger(0, now - bucket.last) = now - bucket.last
  BY DEF Larger, TypeOK, Time
<1>3. Refilled(now) <= bucket.tokens + Burst * (now - bucket.last)
  <2>1. Burst * (now - bucket.last) \in Int
    BY Distributes DEF TypeOK, Time
  <2> QED
    BY <1>1, <1>2, <2>1 DEF Refilled, Smaller, TypeOK
<1>4. Burst * (now - 1) = Burst * (now - bucket.last) + Burst * (bucket.last - 1)
  <2>1. now - 1 = (now - bucket.last) + (bucket.last - 1)
    BY DEF TypeOK, Time
  <2>2. now - bucket.last \in Int /\ bucket.last - 1 \in Int
    BY DEF TypeOK, Time
  <2> QED
    BY <2>1, <2>2, Distributes
<1>5. /\ Burst * (now - bucket.last) \in Int /\ Burst * (bucket.last - 1) \in Int
      /\ Refilled(now) \in Int /\ bucket.tokens \in Int
  <2>1. now - bucket.last \in Int /\ bucket.last - 1 \in Int /\ bucket.tokens \in Int
    BY <1>1 DEF TypeOK, Time
  <2>2. Burst * (now - bucket.last) \in Int /\ Burst * (bucket.last - 1) \in Int
    BY <2>1, Distributes
  <2>3. Refilled(now) \in Int
    BY <1>1, RefillType
  <2> QED
    BY <2>1, <2>2, <2>3
<1> QED
  BY <1>1, <1>3, <1>4, <1>5 DEF BurstBudget

\* The initial state satisfies the invariant.
LEMMA InitGate == Init => GateInv
<1> SUFFICES ASSUME Init PROVE GateInv
  OBVIOUS
<1>1. Capacity \in Nat
  BY Products DEF Capacity
<1>2. TypeOK
  BY <1>1 DEF Init, TypeOK, Time, Pc
<1>3. QuotaKept
  <2>1. Reported(Time) \in Nat
    BY <1>2, RecordedAdds
  <2> QED
    BY <2>1 DEF Init, QuotaKept
<1>4. BurstInOrder
  BY <1>1 DEF Init, BurstInOrder, BurstBudget
<1> QED
  BY <1>2, <1>3, <1>4 DEF GateInv

\* What a step that leaves limits, records and bucket alone preserves.
LEMMA QuietStep ==
  ASSUME GateInv, call' \in [Call -> CallRecord], clock' \in Time, clock' >= clock,
         \A c \in Call : call'[c].now <= clock', entitled' \in BOOLEAN,
         UNCHANGED <<bucket, recorded, used, history>>
  PROVE  GateInv'
<1>1. TypeOK'
  BY DEF GateInv, TypeOK, history, CallRecord, Capacity
<1>2. QuotaKept'
  BY DEF GateInv, QuotaKept, Reported, history
<1>3. BurstInOrder'
  BY DEF GateInv, BurstInOrder, BurstBudget, history, TypeOK, Time
<1> QED
  BY <1>1, <1>2, <1>3 DEF GateInv

\* A step of one call that changes its stage only.
LEMMA GotoType ==
  ASSUME GateInv, NEW c \in Call, NEW pc \in Pc, Goto(c, pc)
  PROVE  /\ call' \in [Call -> CallRecord]
         /\ \A d \in Call : call'[d].now = call[d].now
<1>1. call \in [Call -> CallRecord]
  BY DEF GateInv, TypeOK, CallRecord
<1>2. [call[c] EXCEPT !.pc = pc] \in CallRecord
  BY <1>1 DEF CallRecord
<1> QED
  BY <1>1, <1>2 DEF Goto, CallRecord

\* Recording adds to the aggregates what it adds to the rows.
LEMMA RecordType ==
  ASSUME GateInv, NEW t \in Time, NEW n \in 1..MaxRequest, RecordUsage(t, n)
  PROVE  recorded' \in [Time -> Nat] /\ used' \in Nat /\ used' = used + n
  BY DEF GateInv, TypeOK, RecordUsage

\* The bucket after a call, and what has passed it (checkAndConsume).
LEMMA BurstStep ==
  ASSUME GateInv, NEW c \in Call, ConsumeBurst(c)
  PROVE  GateInv'
<1> DEFINE now == call[c].now
           n == call[c].n
           left == Refilled(now) - n * BurstWindow
<1>1. /\ call[c] \in CallRecord /\ now \in Time /\ n \in Nat /\ now <= clock
      /\ clock \in Time /\ bucket.last \in Time /\ granted \in Nat
  BY DEF GateInv, TypeOK, CallRecord, BurstInOrder
<1>2. /\ n * BurstWindow \in Nat /\ granted * BurstWindow \in Nat
      /\ Capacity \in Nat /\ Refilled(now) \in 0..Capacity
  <2>1. Refilled(now) \in 0..Capacity
    BY <1>1, RefillType DEF GateInv
  <2>2. /\ n * BurstWindow \in Nat /\ granted * BurstWindow \in Nat
        /\ Capacity \in Nat
    BY <1>1, Products DEF Capacity
  <2> QED
    BY <2>1, <2>2
<1>3. PICK tokens \in 0..Capacity, more \in Nat :
        /\ bucket' = [tokens |-> tokens, last |-> now]
        /\ granted' = granted + more
        /\ tokens = Refilled(now) - more * BurstWindow
        /\ \E pc \in Pc : Goto(c, pc)
  <2>1. CASE left >= 0
    <3>1. left \in 0..Capacity
      BY <1>2, <2>1
    <3>2. /\ bucket' = [tokens |-> left, last |-> now]
          /\ granted' = granted + n
          /\ Goto(c, "passed")
      BY <2>1 DEF ConsumeBurst, SetBucket
    <3> QED
      BY <1>1, <3>1, <3>2 DEF Pc
  <2>2. CASE ~(left >= 0)
    <3>1. /\ bucket' = [tokens |-> Refilled(now), last |-> now]
          /\ granted' = granted
          /\ Goto(c, "refused")
      BY <2>2 DEF ConsumeBurst, SetBucket
    <3>2. granted' = granted + 0 /\ Refilled(now) = Refilled(now) - 0 * BurstWindow
      BY <1>1, <1>2, <3>1
    <3> QED
      BY <1>2, <3>1, <3>2 DEF Pc
  <2> QED
    BY <2>1, <2>2
<1>4. /\ late' = [late EXCEPT !.refill = @ \/ now < bucket.last]
      /\ UNCHANGED <<clock, entitled, recorded, used, reported>>
  BY DEF ConsumeBurst
<1>5. /\ call' \in [Call -> CallRecord]
      /\ \A d \in Call : call'[d].now = call[d].now
  BY <1>3, GotoType
<1>6. TypeOK'
  <2>1. late' \in [charge : BOOLEAN, refill : BOOLEAN]
    BY <1>4 DEF GateInv, TypeOK
  <2>2. bucket' \in [tokens : 0..Capacity, last : Time]
    BY <1>1, <1>3
  <2> QED
    BY <1>1, <1>3, <1>4, <1>5, <2>1, <2>2 DEF GateInv, TypeOK, CallRecord
<1>7. QuotaKept'
  BY <1>4 DEF GateInv, QuotaKept, Reported
<1>8. BurstInOrder'
  <2>1. bucket'.last <= clock' /\ \A d \in Call : call'[d].now <= clock'
    BY <1>1, <1>3, <1>4, <1>5 DEF GateInv, BurstInOrder
  <2>2. ASSUME ~late'.refill PROVE BurstBudget'
    <3>1. ~late.refill /\ ~(now < bucket.last)
      BY <1>4, <2>2 DEF GateInv, TypeOK
    <3>2. now >= bucket.last /\ BurstBudget
      BY <1>1, <3>1 DEF GateInv, BurstInOrder, Time
    <3>3. granted * BurstWindow + Refilled(now) <= Capacity + Burst * (now - 1)
      BY <1>1, <3>2, RefillGain DEF GateInv
    <3>4. granted' * BurstWindow = granted * BurstWindow + more * BurstWindow
      BY <1>1, <1>3, Distributes
    <3>5. /\ more * BurstWindow \in Nat
          /\ Burst * (now - 1) \in Int
      <4>1. now - 1 \in Int /\ Burst \in Int /\ BurstWindow \in Nat
        BY <1>1 DEF Time
      <4>2. more * BurstWindow \in Nat
        BY <1>3, <4>1, Products
      <4> HIDE DEF now
      <4>3. Burst * (now - 1) \in Int
        BY <4>1, Distributes
      <4> QED
        BY <4>2, <4>3
    <3>6. granted' * BurstWindow + tokens = granted * BurstWindow + Refilled(now)
      BY <1>2, <1>3, <3>4, <3>5
    <3>7. bucket'.tokens = tokens /\ bucket'.last = now
      BY <1>3
    <3> QED
      BY <3>3, <3>6, <3>7 DEF BurstBudget, Capacity
  <2> QED
    BY <2>1, <2>2 DEF BurstInOrder
<1> QED
  BY <1>6, <1>7, <1>8 DEF GateInv

\* Every step preserves the invariant.
LEMMA NextGate == GateInv /\ [Next]_vars => GateInv'
<1> SUFFICES ASSUME GateInv, [Next]_vars PROVE GateInv'
  OBVIOUS
<1>0. /\ call \in [Call -> CallRecord] /\ clock \in Time /\ entitled \in BOOLEAN
      /\ \A c \in Call : call[c].now <= clock
      /\ clock <= clock
  BY DEF GateInv, TypeOK, CallRecord, BurstInOrder, Time
<1>1. CASE UNCHANGED vars
  BY <1>0, <1>1, QuietStep DEF vars, history
<1>2. CASE Tick
  <2>1. clock' \in Time /\ clock' >= clock /\ \A c \in Call : call'[c].now <= clock'
    BY <1>0, <1>2 DEF Tick, Time, CallRecord
  <2> QED
    BY <1>0, <1>2, <2>1, QuietStep DEF Tick
<1>3. CASE ChangeAccess
  BY <1>0, <1>3, QuietStep DEF ChangeAccess
<1>4. CASE RecordReport
  <2>1. PICK t \in Time, n \in 1..MaxRequest :
          RecordUsage(t, n) /\ reported' = [reported EXCEPT ![t] = @ + n]
    BY <1>4 DEF RecordReport
  <2>2. UNCHANGED <<clock, entitled, call, bucket, granted, late>>
    BY <1>4 DEF RecordReport
  <2>3. /\ Reported(Time) \in Nat
        /\ SumFunctionOnSet(reported', Time) = Reported(Time) + n
    <3>1. n \in Nat /\ Time \in SUBSET Time /\ TypeOK
      BY DEF GateInv
    <3>2. reported'[t] = reported[t] + n /\ \A u \in Time \ {t} : reported'[u] = reported[u]
      BY <2>1, <3>1 DEF TypeOK
    <3> QED
      BY <3>1, <3>2, RecordedAdds, ReportedRaised
  <2>4. recorded' \in [Time -> Nat] /\ used' \in Nat /\ used' = used + n
    BY <2>1, RecordType
  <2>5. TypeOK'
    <3>1. reported' \in [Time -> Nat]
      BY <2>1 DEF GateInv, TypeOK
    <3> QED
      BY <2>2, <2>4, <3>1 DEF GateInv, TypeOK, Capacity
  <2>6. QuotaKept'
    BY <2>3, <2>4 DEF GateInv, QuotaKept, Reported, TypeOK
  <2>7. BurstInOrder'
    BY <2>2 DEF GateInv, BurstInOrder, BurstBudget
  <2> QED
    BY <2>5, <2>6, <2>7 DEF GateInv
<1>5. ASSUME NEW c \in Call, Arrive(c) PROVE GateInv'
  <2>1. PICK n \in 1..MaxRequest :
          call' = [call EXCEPT ![c].pc = "arrived", ![c].n = n, ![c].at = clock]
    BY <1>5 DEF Arrive
  <2>2. [call[c] EXCEPT !.pc = "arrived", !.n = n, !.at = clock] \in CallRecord
    BY <1>0 DEF CallRecord, Pc
  <2>3. /\ call' \in [Call -> CallRecord]
        /\ \A d \in Call : call'[d].now = call[d].now
    BY <1>0, <2>1, <2>2 DEF CallRecord
  <2> QED
    BY <1>0, <1>5, <2>3, QuietStep DEF Arrive
<1>6. ASSUME NEW c \in Call, Preliminary(c) PROVE GateInv'
  <2>1. CASE call' = [call EXCEPT ![c].pc = "checked", ![c].now = clock]
    <3>1. [call[c] EXCEPT !.pc = "checked", !.now = clock] \in CallRecord
      BY <1>0 DEF CallRecord, Pc
    <3>2. /\ call' \in [Call -> CallRecord]
          /\ \A d \in Call : call'[d].now = call[d].now \/ call'[d].now = clock
      BY <1>0, <2>1, <3>1 DEF CallRecord
    <3>3. clock' = clock
      BY <1>6 DEF Preliminary
    <3>4. \A d \in Call : call'[d].now <= clock'
      BY <1>0, <3>2, <3>3
    <3> QED
      BY <1>0, <1>6, <3>2, <3>3, <3>4, QuietStep DEF Preliminary
  <2>2. CASE Goto(c, "refused")
    BY <1>0, <1>6, <2>2, GotoType, QuietStep DEF Preliminary, Pc
  <2> QED
    BY <1>6, <2>1, <2>2 DEF Preliminary
<1>7. ASSUME NEW c \in Call, ConsumeBurst(c) PROVE GateInv'
  BY <1>7, BurstStep
<1>8. ASSUME NEW c \in Call, SelectSubscription(c) PROVE GateInv'
  <2>1. PICK pc \in Pc : Goto(c, pc)
    BY <1>8 DEF SelectSubscription, Pc
  <2> QED
    BY <1>0, <1>8, <2>1, GotoType, QuietStep DEF SelectSubscription
<1>9. ASSUME NEW c \in Call, Consume(c) PROVE GateInv'
  <2>1. call[c].at \in Time /\ call[c].n \in 1..MaxRequest
    BY <1>0 DEF CallRecord
  <2>2. UNCHANGED <<clock, entitled, bucket, reported, granted>>
    BY <1>9 DEF Consume
  <2>3. CASE WithinQuota(call[c].n) /\ RecordUsage(call[c].at, call[c].n)
               /\ Goto(c, "charged")
               /\ late' = [late EXCEPT !.charge =
                    @ \/ \E t \in Time : t > call[c].at /\ recorded[t] # reported[t]]
    <3>1. recorded' \in [Time -> Nat] /\ used' \in Nat /\ used' = used + call[c].n
      BY <2>1, <2>3, RecordType
    <3>2. /\ call' \in [Call -> CallRecord]
          /\ \A d \in Call : call'[d].now = call[d].now
      BY <2>3, GotoType DEF Pc
    <3>3. /\ late' \in [charge : BOOLEAN, refill : BOOLEAN]
          /\ late'.refill = late.refill
      BY <2>3 DEF GateInv, TypeOK
    <3>4. TypeOK'
      BY <2>2, <3>1, <3>2, <3>3 DEF GateInv, TypeOK, CallRecord, Capacity
    <3>5. QuotaKept'
      <4>1. Reported(Time) \in Nat
        BY RecordedAdds DEF GateInv
      <4> QED
        BY <2>1, <2>2, <2>3, <3>1, <4>1 DEF GateInv, QuotaKept, WithinQuota, Reported, TypeOK
    <3>6. BurstInOrder'
      BY <2>2, <3>2, <3>3 DEF GateInv, BurstInOrder, BurstBudget
    <3> QED
      BY <3>4, <3>5, <3>6 DEF GateInv
  <2>4. CASE Goto(c, "refused") /\ UNCHANGED <<recorded, used, late>>
    BY <1>0, <2>2, <2>4, GotoType, QuietStep DEF history, Pc
  <2> QED
    BY <1>9, <2>3, <2>4 DEF Consume
<1>10. ASSUME NEW c \in Call, CallUpstream(c) PROVE GateInv'
  BY <1>0, <1>10, GotoType, QuietStep DEF CallUpstream, Pc
<1>11. ASSUME NEW c \in Call, Abandon(c) PROVE GateInv'
  <2>1. PICK pc \in Pc : Goto(c, pc)
    BY <1>11 DEF Abandon, Pc
  <2> QED
    BY <1>0, <1>11, <2>1, GotoType, QuietStep DEF Abandon
<1> QED
  BY <1>1, <1>2, <1>3, <1>4, <1>5, <1>6, <1>7, <1>8, <1>9, <1>10, <1>11 DEF Next

\* Under every interleaving of calls and reports the quota is kept, and the burst
\* budget as long as the bucket was used in the order of the clock
\* (authorizeUsageWithConsumption, checkAndConsume).
THEOREM GateCorrect == Spec => []GateInv
<1>1. Init => GateInv
  BY InitGate
<1>2. GateInv /\ [Next]_vars => GateInv'
  BY NextGate
<1> QED
  BY <1>1, <1>2, PTL DEF Spec

ChargedCalls == {c \in Call : call[c].pc \in {"charged", "served", "abandoned"}}
ServedCalls == {c \in Call : call[c].pc = "served"}

\* A move between two stages changes the two sets by that call only.
LEMMA GotoSets ==
  ASSUME GateInv, NEW c \in Call, NEW pc \in Pc, Goto(c, pc)
  PROVE  /\ ChargedCalls' = IF pc \in {"charged", "served", "abandoned"}
                              THEN ChargedCalls \cup {c} ELSE ChargedCalls \ {c}
         /\ ServedCalls' = IF pc = "served" THEN ServedCalls \cup {c}
                           ELSE ServedCalls \ {c}
<1>1. call \in [Call -> CallRecord]
  BY DEF GateInv, TypeOK, CallRecord
<1>2. \A d \in Call : call'[d].pc = IF d = c THEN pc ELSE call[d].pc
  BY <1>1 DEF Goto, CallRecord
<1> QED
  BY <1>2 DEF ChargedCalls, ServedCalls

\* Every step is a step of the abstract meter, or none.
LEMMA NextMetered ==
  ASSUME GateInv, [Next]_vars
  PROVE  Metered!Next \/ UNCHANGED <<used, ChargedCalls, ServedCalls>>
<1>1. call \in [Call -> CallRecord]
  BY DEF GateInv, TypeOK, CallRecord
<1>2. CASE UNCHANGED vars \/ Tick \/ ChangeAccess
  BY <1>2 DEF vars, Tick, ChangeAccess, ChargedCalls, ServedCalls
<1>3. CASE RecordReport
  <2>1. PICK n \in 1..MaxRequest : used' = used + n
    BY <1>3 DEF RecordReport, RecordUsage
  <2>2. ChargedCalls' = ChargedCalls /\ ServedCalls' = ServedCalls
    BY <1>3 DEF RecordReport, ChargedCalls, ServedCalls
  <2>3. Metered!Report(n)
    BY <2>1, <2>2 DEF Metered!Report, ChargedCalls, ServedCalls
  <2> QED
    BY <2>3 DEF Metered!Next
<1>4. ASSUME NEW c \in Call,
             Arrive(c) \/ Preliminary(c) \/ ConsumeBurst(c) \/ SelectSubscription(c)
      PROVE  UNCHANGED <<used, ChargedCalls, ServedCalls>>
  <2>1. used' = used
    BY <1>4 DEF Arrive, Preliminary, ConsumeBurst, SelectSubscription
  <2> DEFINE Uncharged(pc) == pc \notin {"charged", "served", "abandoned"}
  <2>2. Uncharged(call[c].pc)
    BY <1>4 DEF Arrive, Preliminary, ConsumeBurst, SelectSubscription, At
  <2>3. PICK r : call' = [call EXCEPT ![c] = r] /\ Uncharged(r.pc)
    <3>1. CASE Arrive(c)
      <4>1. PICK n \in 1..MaxRequest :
              call' = [call EXCEPT ![c] = [@ EXCEPT !.pc = "arrived", !.n = n, !.at = clock]]
        BY <3>1 DEF Arrive
      <4>2. [call[c] EXCEPT !.pc = "arrived", !.n = n, !.at = clock].pc = "arrived"
        BY <1>1 DEF CallRecord
      <4> QED
        BY <4>1, <4>2
    <3>2. CASE call' = [call EXCEPT ![c].pc = "checked", ![c].now = clock]
      <4>1. [call[c] EXCEPT !.pc = "checked", !.now = clock].pc = "checked"
        BY <1>1 DEF CallRecord
      <4> QED
        BY <3>2, <4>1
    <3>3. ASSUME NEW pc \in {"passed", "selected", "refused"}, Goto(c, pc)
          PROVE  \E r : call' = [call EXCEPT ![c] = r] /\ Uncharged(r.pc)
      <4>1. [call[c] EXCEPT !.pc = pc].pc = pc
        BY <1>1 DEF CallRecord
      <4> QED
        BY <3>3, <4>1 DEF Goto
    <3> QED
      BY <1>4, <3>1, <3>2, <3>3 DEF Preliminary, ConsumeBurst, SelectSubscription
  <2>4. Uncharged(call'[c].pc) /\ \A d \in Call \ {c} : call'[d].pc = call[d].pc
    BY <1>1, <2>3
  <2> QED
    BY <2>1, <2>2, <2>4 DEF ChargedCalls, ServedCalls
<1>5. ASSUME NEW c \in Call, Consume(c)
      PROVE  Metered!Next \/ UNCHANGED <<used, ChargedCalls, ServedCalls>>
  <2>1. c \notin ChargedCalls /\ c \notin ServedCalls
    BY <1>5 DEF Consume, At, ChargedCalls, ServedCalls
  <2>2. CASE Goto(c, "charged") /\ used' = used + call[c].n /\ WithinQuota(call[c].n)
    <3>1. ChargedCalls' = ChargedCalls \cup {c} /\ ServedCalls' = ServedCalls
      BY <2>1, <2>2, GotoSets DEF Pc
    <3>2. call[c].n \in 1..MaxRequest
      BY <1>1 DEF CallRecord
    <3>3. PICK n \in 1..MaxRequest : n = call[c].n
      BY <3>2
    <3>4. Metered!Charge(c, n)
      BY <2>1, <2>2, <3>1, <3>3 DEF Metered!Charge, WithinQuota, ChargedCalls, ServedCalls
    <3> QED
      BY <3>4 DEF Metered!Next
  <2>3. CASE Goto(c, "refused") /\ used' = used
    BY <2>1, <2>3, GotoSets DEF Pc
  <2> QED
    BY <1>5, <2>2, <2>3 DEF Consume, RecordUsage
<1>6. ASSUME NEW c \in Call, CallUpstream(c) PROVE Metered!Next
  <2>1. c \in ChargedCalls \ ServedCalls
    BY <1>6 DEF CallUpstream, MayDispatch, At, ChargedCalls, ServedCalls
  <2>2. ChargedCalls' = ChargedCalls /\ ServedCalls' = ServedCalls \cup {c}
    BY <1>6, <2>1, GotoSets DEF CallUpstream, Pc
  <2>3. Metered!Serve(c)
    BY <1>6, <2>1, <2>2 DEF Metered!Serve, CallUpstream, ChargedCalls, ServedCalls
  <2> QED
    BY <2>3 DEF Metered!Next
<1>7. ASSUME NEW c \in Call, Abandon(c)
      PROVE  UNCHANGED <<used, ChargedCalls, ServedCalls>>
  <2>1. used' = used /\ c \notin ServedCalls
    BY <1>7 DEF Abandon, ServedCalls
  <2>2. CASE At(c, "charged")
    <3>1. Goto(c, "abandoned") /\ c \in ChargedCalls
      BY <1>7, <2>2 DEF Abandon, At, ChargedCalls
    <3> QED
      BY <2>1, <3>1, GotoSets DEF Pc
  <2>3. CASE ~At(c, "charged")
    <3>1. Goto(c, "refused") /\ c \notin ChargedCalls
      BY <1>7, <2>3 DEF Abandon, At, ChargedCalls
    <3> QED
      BY <2>1, <3>1, GotoSets DEF Pc
  <2> QED
    BY <2>2, <2>3
<1> QED
  BY <1>2, <1>3, <1>4, <1>5, <1>6, <1>7 DEF Next

\* The gateway meters access as MeteredAccess promises (execute,
\* authorizeUsageWithConsumption).
THEOREM GateRefines == Spec => ImplementsMeteredAccess
<1>1. Init => Metered!Init
  BY DEF Init, Metered!Init
<1>2. GateInv /\ [Next]_vars => [Metered!Next]_<<used, ChargedCalls, ServedCalls>>
  BY NextMetered
<1>3. Spec => []GateInv
  BY GateCorrect
<1> QED
  BY <1>1, <1>2, <1>3, PTL DEF Spec, ImplementsMeteredAccess, Metered!Spec, ChargedCalls,
                              ServedCalls

\* A charge that no later one precedes stays within the limit in every window that
\* sees it: the window at its own time has all there is, but for later reports.
LEMMA ChargeInOrder ==
  ASSUME TypeOK, NEW c \in Call, WithinRate(c), NEW t \in Time,
         \A u \in Time : u > call[c].at => recorded[u] = reported[u],
         call[c].at <= t, call[c].at >= t - RateWindowLength
  PROVE  LET W == {u \in Time : u <= t /\ u >= t - RateWindowLength} IN
         RateUsed(W) + call[c].n <= Rpm + Reported(W)
<1> DEFINE at == call[c].at
           W == {u \in Time : u <= t /\ u >= t - RateWindowLength}
           A == {u \in W : u <= at}
           Z == {u \in W : u > at}
           R == RateWindow(at)
<1>1. at \in Time /\ call[c].n \in Nat
  BY DEF TypeOK, Time
<1>2. /\ IsFiniteSet(W) /\ Counts(recorded, W) /\ IsFiniteSet(R) /\ Counts(recorded, R)
      /\ R \in SUBSET Time
  <2>1. R \in SUBSET Time
    BY <1>1 DEF RateWindow, Larger, Time
  <2>2. W \in SUBSET Time /\ IsFiniteSet(Time)
    BY FS_Interval DEF Time
  <2> HIDE DEF W, R
  <2> QED
    BY <2>1, <2>2, FS_Subset DEF Counts, TypeOK
<1>0. Counts(reported, W)
  BY DEF Counts, TypeOK
<1>3. A \in SUBSET W /\ Z \in SUBSET W /\ A \cap Z = {} /\ A \cup Z = W
  BY <1>1 DEF Time
<1>4. A \in SUBSET R
  BY <1>1 DEF RateWindow, Larger, Time
<1>5. \A u \in Z : recorded[u] = reported[u]
  OBVIOUS
<1>6. RateUsed(R) + call[c].n <= Rpm
  BY DEF WithinRate
<1> HIDE DEF W, A, Z, R
<1>7. RateUsed(W) = RateUsed(A) + RateUsed(Z)
  BY <1>2, <1>3, SumOfParts DEF RateUsed
<1>8. RateUsed(Z) = Reported(Z) /\ Reported(Z) \in Nat
  <2>1. IsFiniteSet(Z) /\ Counts(reported, Z)
    BY <1>0, <1>2, <1>3, FS_Subset DEF Counts
  <2> QED
    BY <1>5, <2>1, SumSame, SumType DEF RateUsed, Reported
<1>9. RateUsed(A) <= RateUsed(R) /\ RateUsed(R) \in Nat /\ RateUsed(A) \in Nat
  BY <1>2, <1>3, <1>4, SumGrows, SumSteps DEF RateUsed
<1>10. Reported(Z) <= Reported(W) /\ Reported(W) \in Nat
  BY <1>0, <1>2, <1>3, SumGrows, SumType DEF Reported
<1>11. RateUsed(W) + call[c].n <= Rpm + Reported(W)
  BY <1>1, <1>6, <1>7, <1>8, <1>9, <1>10
<1> QED
  BY <1>11 DEF W

LEMMA RateInOrderStep == TypeOK /\ TypeOK' /\ RateInOrder /\ [Next]_vars => RateInOrder'
<1> SUFFICES ASSUME TypeOK, TypeOK', RateInOrder, [Next]_vars PROVE RateInOrder'
  OBVIOUS
<1> DEFINE Window(t) == {u \in Time : u <= t /\ u >= t - RateWindowLength}
<1>1. ASSUME UNCHANGED <<recorded, reported, late>> PROVE RateInOrder'
  BY <1>1 DEF RateInOrder, RateKept, RateUsed, Reported
<1>2. CASE RecordReport
  <2>1. PICK t \in Time, n \in 1..MaxRequest :
          RecordUsage(t, n) /\ reported' = [reported EXCEPT ![t] = @ + n]
    BY <1>2 DEF RecordReport
  <2>2. late' = late
    BY <1>2 DEF RecordReport
  <2>3. ASSUME ~late.charge, NEW s \in Time
        PROVE  SumFunctionOnSet(recorded', Window(s))
                 <= Rpm + SumFunctionOnSet(reported', Window(s))
    <3>1. RateUsed(Window(s)) <= Rpm + Reported(Window(s))
      BY <2>3 DEF RateInOrder, RateKept
    <3>2. Window(s) \in SUBSET Time
      OBVIOUS
    <3> HIDE DEF Window
    <3>3. /\ n \in Nat /\ reported'[t] = reported[t] + n
          /\ \A u \in Time \ {t} : reported'[u] = reported[u]
      BY <2>1 DEF TypeOK
    <3>4. LET more == IF t \in Window(s) THEN n ELSE 0 IN
          /\ RateUsed(Window(s)) \in Nat
          /\ SumFunctionOnSet(recorded', Window(s)) = RateUsed(Window(s)) + more
          /\ Reported(Window(s)) \in Nat
          /\ SumFunctionOnSet(reported', Window(s)) = Reported(Window(s)) + more
      <4>1. RateUsed(Window(s)) \in Nat /\ Reported(Window(s)) \in Nat
        BY <3>2, RecordedAdds
      <4>2. SumFunctionOnSet(recorded', Window(s))
              = RateUsed(Window(s)) + IF t \in Window(s) THEN n ELSE 0
        BY <2>1, <3>2, <3>3, RateRaised
      <4>3. SumFunctionOnSet(reported', Window(s))
              = Reported(Window(s)) + IF t \in Window(s) THEN n ELSE 0
        BY <3>2, <3>3, ReportedRaised
      <4> QED
        BY <4>1, <4>2, <4>3
    <3> QED
      BY <3>1, <3>3, <3>4
  <2> QED
    BY <2>2, <2>3 DEF RateInOrder, RateKept, RateUsed, Reported
<1>3. ASSUME NEW c \in Call, Consume(c) PROVE RateInOrder'
  <2> DEFINE at == call[c].at
             n == call[c].n
  <2>1. at \in Time /\ n \in Nat /\ reported' = reported
    BY <1>3 DEF Consume, TypeOK
  <2>2. CASE /\ WithinRate(c) /\ RecordUsage(at, n)
             /\ late' = [late EXCEPT !.charge = @ \/ \E t \in Time : t > at /\ recorded[t] # reported[t]]
    <3>1. ASSUME ~late'.charge
          PROVE  ~late.charge /\ \A u \in Time : u > at => recorded[u] = reported[u]
      <4>1. late'.charge = (late.charge \/ \E t \in Time : t > at /\ recorded[t] # reported[t])
        BY <2>2 DEF TypeOK
      <4> QED
        BY <3>1, <4>1, Zenon
    <3>2. ASSUME ~late'.charge, NEW s \in Time
          PROVE  SumFunctionOnSet(recorded', Window(s)) <= Rpm + Reported(Window(s))
      <4>1. RateUsed(Window(s)) <= Rpm + Reported(Window(s))
        BY <3>1, <3>2 DEF RateInOrder, RateKept
      <4>2. Window(s) \in SUBSET Time /\ (at \in Window(s) <=> at <= s /\ at >= s - RateWindowLength)
        BY <2>1
      <4>3. at \in Window(s) => RateUsed(Window(s)) + n <= Rpm + Reported(Window(s))
        BY <3>1, <3>2, <2>2, <4>2, ChargeInOrder
      <4> HIDE DEF Window, at, n
      <4>4. /\ RateUsed(Window(s)) \in Nat
            /\ SumFunctionOnSet(recorded', Window(s))
                 = RateUsed(Window(s)) + IF at \in Window(s) THEN n ELSE 0
        BY <2>1, <2>2, <4>2, RecordedAdds, RateRaised
      <4>5. Reported(Window(s)) \in Nat
        BY <4>2, RecordedAdds
      <4> QED
        BY <2>1, <4>1, <4>3, <4>4, <4>5
    <3> QED
      BY <2>1, <3>2 DEF RateInOrder, RateKept, RateUsed, Reported
  <2>3. CASE UNCHANGED <<recorded, late>>
    BY <1>1, <2>1, <2>3
  <2> QED
    BY <1>3, <2>2, <2>3 DEF Consume
<1>4. ASSUME NEW c \in Call, ConsumeBurst(c) PROVE RateInOrder'
  <2>1. recorded' = recorded /\ reported' = reported /\ late'.charge = late.charge
    BY <1>4 DEF ConsumeBurst, TypeOK
  <2> QED
    BY <2>1 DEF RateInOrder, RateKept, RateUsed, Reported
<1>5. ASSUME NEW c \in Call, \/ Arrive(c) \/ Preliminary(c) \/ SelectSubscription(c)
                             \/ CallUpstream(c) \/ Abandon(c)
      PROVE  UNCHANGED <<recorded, reported, late>>
  BY <1>5 DEF Arrive, Preliminary, SelectSubscription, CallUpstream, Abandon, history
<1>6. CASE Tick \/ ChangeAccess \/ UNCHANGED vars
  BY <1>1, <1>6 DEF Tick, ChangeAccess, vars, history
<1> QED
  BY <1>1, <1>2, <1>3, <1>4, <1>5, <1>6 DEF Next

\* The limit of requests per minute is kept by any number of calls that are charged in
\* the order they arrived in (authorizeUsageWithConsumption).
THEOREM RateCorrect == Spec => []RateInOrder
<1>1. Init => RateInOrder
  <2> SUFFICES ASSUME Init, NEW t \in Time
               PROVE  LET W == {u \in Time : u <= t /\ u >= t - RateWindowLength} IN
                      RateUsed(W) <= Rpm + Reported(W)
    BY DEF RateInOrder, RateKept
  <2> DEFINE W == {u \in Time : u <= t /\ u >= t - RateWindowLength}
  <2>1. IsFiniteSet(W) /\ \A u \in W : recorded[u] = 0 /\ reported[u] = 0
    <3>1. W \in SUBSET Time /\ IsFiniteSet(Time)
      BY FS_Interval DEF Time
    <3> HIDE DEF W
    <3> QED
      BY <3>1, FS_Subset DEF Init
  <2> HIDE DEF W
  <2>2. RateUsed(W) = 0 /\ Reported(W) = 0
    BY <2>1, SumOfZeros DEF RateUsed, Reported
  <2>3. RateUsed(W) <= Rpm + Reported(W)
    BY <2>2
  <2> QED
    BY <2>3 DEF W
<1>2. GateInv => TypeOK
  BY DEF GateInv
<1> QED
  BY <1>1, <1>2, RateInOrderStep, GateCorrect, PTL DEF Spec
=============================================================================
