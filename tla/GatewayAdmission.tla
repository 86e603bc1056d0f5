-------------------------- MODULE GatewayAdmission --------------------------
(***************************************************************************)
(* Calls of one buyer through the gateway, against one subscription within *)
(* one billing period: a first look at the limits, the burst bucket, then  *)
(* the transaction that locks the subscription, decides and records, then  *)
(* the call upstream.  Time is in ticks; each call fixes occurredAt when   *)
(* it arrives and the bucket's `now' before it waits for the bucket, and   *)
(* both may be old when they are used.                                     *)
(*                                                                         *)
(* The plan has an RPM limit and the burst limiter is enabled.  A token is *)
(* worth BurstWindow units here, so that a tick refills Burst whole units. *)
(***************************************************************************)
EXTENDS Integers, Functions

CONSTANTS Call,          \* calls, each made once
          MaxRequest,    \* largest requestCount
          Quota, AllowOverage, Rpm,   \* the plan
          RateWindowLength,           \* RATE_LIMIT_WINDOW_SECONDS
          Burst,         \* resolveBurstLimit of the plan
          BurstWindow,   \* gatewayBurstWindowSeconds
          MaxTime,       \* bound on the clock
          MaxReports     \* bound on usage reported past the gateway

ASSUME PlanAssumption == /\ Quota \in Nat /\ Rpm \in Nat \ {0}
                         /\ AllowOverage \in BOOLEAN
                         /\ MaxRequest \in Nat \ {0}
ASSUME LimiterAssumption == /\ RateWindowLength \in Nat
                            /\ Burst \in Nat \ {0} /\ BurstWindow \in Nat \ {0}
ASSUME BoundsAssumption == MaxTime \in Nat \ {0} /\ MaxReports \in Nat

VARIABLES clock,
          entitled,   \* the key is active and the subscription has access
          call,       \* per call: where it stands, its size and its times
          bucket,     \* the GatewayBurstBucket row
          recorded,   \* UsageRecord rows: requests by occurredAt
          used,       \* the period's UsageDailyAggregate rows together
          reported,   \* history: those of them recorded past the gateway
          granted,    \* history: requests the bucket let pass
          late        \* history: a charge, or a refill, came after one that was
                      \* later by the clock
vars == <<clock, entitled, call, bucket, recorded, used, reported, granted, late>>
history == <<reported, granted, late>>

Time == 1..MaxTime
Capacity == Burst * BurstWindow

Pc == {"new", "arrived", "checked", "passed", "selected", "charged",
       "served", "refused", "abandoned"}

TypeOK ==
  /\ clock \in Time
  /\ entitled \in BOOLEAN
  /\ call \in [Call -> [pc : Pc, n : 1..MaxRequest, at : Time, now : Time]]
  /\ bucket \in [tokens : 0..Capacity, last : Time]
  /\ recorded \in [Time -> Nat]
  /\ reported \in [Time -> Nat]
  /\ used \in Nat /\ granted \in Nat
  /\ late \in [charge : BOOLEAN, refill : BOOLEAN]

\* A bucket that does not exist yet is created full.
Init == /\ clock = 1
        /\ entitled = TRUE
        /\ call = [c \in Call |-> [pc |-> "new", n |-> 1, at |-> 1, now |-> 1]]
        /\ bucket = [tokens |-> Capacity, last |-> 1]
        /\ recorded = [t \in Time |-> 0]
        /\ reported = [t \in Time |-> 0]
        /\ used = 0 /\ granted = 0
        /\ late = [charge |-> FALSE, refill |-> FALSE]

At(c, pc) == call[c].pc = pc
Goto(c, pc) == call' = [call EXCEPT ![c].pc = pc]

Tick == /\ clock < MaxTime
        /\ clock' = clock + 1
        /\ UNCHANGED <<entitled, call, bucket, recorded, used, history>>

\* Billing ends or restores access, the buyer revokes the key.
ChangeAccess == /\ entitled' = ~entitled
                /\ UNCHANGED <<clock, call, bucket, recorded, used, history>>

-----------------------------------------------------------------------------
Smaller(x, y) == IF x < y THEN x ELSE y
Larger(x, y) == IF x > y THEN x ELSE y

WithinQuota(n) == AllowOverage \/ used + n <= Quota

\* A plausible slip: rows of the same moment are not seen.
RateWindowOpen(t) == Larger(1, t - RateWindowLength)..t - 1

RateWindow(t) == Larger(1, t - RateWindowLength)..t

RateUsed(T) == SumFunctionOnSet(recorded, T)

WithinRate(c) == RateUsed(RateWindow(call[c].at)) + call[c].n <= Rpm

Arrive(c) ==
  /\ At(c, "new")
  /\ \E n \in 1..MaxRequest :
       call' = [call EXCEPT ![c].pc = "arrived", ![c].n = n, ![c].at = clock]
  /\ UNCHANGED <<clock, entitled, bucket, recorded, used, history>>

\* The first pass charges nothing.  A call that passes takes the bucket's `now'
\* next; one larger than the bucket goes no further.
Preliminary(c) ==
  /\ At(c, "arrived")
  /\ IF entitled /\ WithinQuota(call[c].n) /\ WithinRate(c) /\ call[c].n <= Burst
       THEN call' = [call EXCEPT ![c].pc = "checked", ![c].now = clock]
       ELSE Goto(c, "refused")
  /\ UNCHANGED <<clock, entitled, bucket, recorded, used, history>>

Refilled(now) ==
  Smaller(Capacity, bucket.tokens + Burst * Larger(0, now - bucket.last))

\* A plausible slip: the time of the refill is not moved.
SetBucketTokens(tokens, now) == bucket' = [bucket EXCEPT !.tokens = tokens]

SetBucket(tokens, now) == bucket' = [tokens |-> tokens, last |-> now]

\* checkAndConsume, on the locked row; a repetition after a serialization conflict
\* has the same `now'.
ConsumeBurst(c) ==
  LET now == call[c].now
      left == Refilled(now) - call[c].n * BurstWindow IN
  /\ At(c, "checked")
  /\ IF left >= 0
       THEN /\ SetBucket(left, now)
            /\ Goto(c, "passed")
            /\ granted' = granted + call[c].n
       ELSE /\ SetBucket(Refilled(now), now)
            /\ Goto(c, "refused")
            /\ UNCHANGED granted
  /\ late' = [late EXCEPT !.refill = @ \/ now < bucket.last]
  /\ UNCHANGED <<clock, entitled, recorded, used, reported>>

\* The transaction's first read, not yet under the lock.
SelectSubscription(c) ==
  /\ At(c, "passed")
  /\ Goto(c, IF entitled THEN "selected" ELSE "refused")
  /\ UNCHANGED <<clock, entitled, bucket, recorded, used, history>>

\* recordUsageInTransaction: the row and the aggregates.
RecordUsage(t, n) == /\ recorded' = [recorded EXCEPT ![t] = @ + n]
                     /\ used' = used + n

\* FOR UPDATE excludes every other insert for this subscription until the commit.
Consume(c) ==
  LET at == call[c].at IN
  /\ At(c, "selected")
  /\ IF WithinQuota(call[c].n) /\ WithinRate(c)
       THEN /\ RecordUsage(at, call[c].n)
            /\ Goto(c, "charged")
            /\ late' = [late EXCEPT !.charge =
                          @ \/ \E t \in Time : t > at /\ recorded[t] # reported[t]]
       ELSE /\ Goto(c, "refused")
            /\ UNCHANGED <<recorded, used, late>>
  /\ UNCHANGED <<clock, entitled, bucket, reported, granted>>

\* A plausible slip: the call is sent while its charge is being decided.
MayDispatchEarly(c) == call[c].pc \in {"selected", "charged"}

MayDispatch(c) == At(c, "charged")

CallUpstream(c) ==
  /\ MayDispatch(c)
  /\ Goto(c, "served")
  /\ UNCHANGED <<clock, entitled, bucket, recorded, used, history>>

\* A conflict in the last attempt, a database error, the end of the process, or
\* an upstream that cannot be reached: what was taken and recorded stays so.
Abandon(c) ==
  /\ call[c].pc \notin {"new", "served", "refused", "abandoned"}
  /\ Goto(c, IF At(c, "charged") THEN "abandoned" ELSE "refused")
  /\ UNCHANGED <<clock, entitled, bucket, recorded, used, history>>

Reported(T) == SumFunctionOnSet(reported, T)

\* A queued report of the ingest worker, or an immediate one: neither looks at
\* the limits, and it may name any time of the period, ahead of the clock too.
RecordReport ==
  /\ \E t \in Time, n \in 1..MaxRequest :
       /\ Reported(Time) + n <= MaxReports
       /\ RecordUsage(t, n)
       /\ reported' = [reported EXCEPT ![t] = @ + n]
  /\ UNCHANGED <<clock, entitled, call, bucket, granted, late>>

Next == \/ Tick \/ ChangeAccess \/ RecordReport
        \/ \E c \in Call :
             \/ Arrive(c) \/ Preliminary(c) \/ ConsumeBurst(c)
             \/ SelectSubscription(c) \/ Consume(c) \/ CallUpstream(c)
             \/ Abandon(c)

Spec == Init /\ [][Next]_vars

-----------------------------------------------------------------------------
\* The plan's quota is not exceeded by more than what was reported past the
\* gateway, however many calls passed the first look (authorizeUsageWithConsumption).
QuotaKept == AllowOverage \/ used <= Quota + Reported(Time)

\* What the bucket gave and still holds is what it held and gained since.
BurstBudget == granted * BurstWindow + bucket.tokens
                 <= Capacity + Burst * (bucket.last - 1)

\* As long as the row is locked in the order of the callers' clocks, no
\* stretch of time sees more calls pass than the bucket holds and regains
\* (checkAndConsume).
BurstInOrder == /\ bucket.last <= clock
                /\ \A c \in Call : call[c].now <= clock
                /\ ~late.refill => BurstBudget

GateInv == TypeOK /\ QuotaKept /\ BurstInOrder

\* Every rolling minute stays within the RPM limit, but for what was reported of it
\* past the gateway.  Calls charged out of the order they arrived in may break it.
RateKept == \A t \in Time :
              LET W == {u \in Time : u <= t /\ u >= t - RateWindowLength} IN
              RateUsed(W) <= Rpm + Reported(W)

\* As long as calls are charged in the order they arrived in, the RPM limit is
\* kept (authorizeUsageWithConsumption).
RateInOrder == ~late.charge => RateKept

Metered == INSTANCE MeteredAccess WITH
  counted <- used,
  charged <- {c \in Call : call[c].pc \in {"charged", "served", "abandoned"}},
  served <- {c \in Call : call[c].pc = "served"}

\* The gateway charges each call once, before it is served, and within the quota
\* (execute, authorizeUsageWithConsumption).
ImplementsMeteredAccess == Metered!Spec
=============================================================================
