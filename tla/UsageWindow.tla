---------------------------- MODULE UsageWindow ----------------------------
(***************************************************************************)
(* How much a subscription used in a period: whole UTC days come from the  *)
(* daily aggregates, the partial days at either end from UsageRecord rows. *)
(* Rows written before the aggregates existed (aggregatedAt null) are in   *)
(* no aggregate and are added wherever they fall.  The tables are those of *)
(* UsageIngest, for one subscription; a bucket is the time its day starts. *)
(* The queries of one window read one state, as they do in the             *)
(* serializable transaction that settles a period; outside of it a row     *)
(* that is written between two of them may be in one sum and not in the    *)
(* other.                                                                  *)
(***************************************************************************)
EXTENDS UsageIngest

CONSTANTS DayLength,
          OccurredAt,   \* when each event happened
          Unaggregated, \* rows an older build wrote, with aggregatedAt null
          Instant       \* moments where the windows looked at start and end

DayStart(t) == (t \div DayLength) * DayLength

ASSUME DayLengthAssumption == DayLength \in Nat \ {0}
ASSUME OccurredAtAssumption == OccurredAt \in [Event -> Nat]
ASSUME BucketAssumption ==
         /\ Bucket \subseteq Nat
         /\ \A e \in Event : Usage[e].bucket = DayStart(OccurredAt[e])
ASSUME UnaggregatedAssumption ==
         /\ Unaggregated \subseteq [at : Nat, endpoint : Endpoint, count : Nat]
         /\ IsFiniteSet(Unaggregated)
ASSUME InstantAssumption == Instant \subseteq Nat

-----------------------------------------------------------------------------
\* A plausible slip: the day in which the window ends is taken whole.
FullDaysEndRoundedUp(end) == DayStart(end + DayLength - 1)

FullDaysStart(start) == IF start = DayStart(start) THEN start
                                                   ELSE DayStart(start) + DayLength
FullDaysEnd(end) == DayStart(end)
StartPartialEnd(start, end) ==
  IF FullDaysStart(start) < end THEN FullDaysStart(start) ELSE end
EndPartialStart(start, end) ==
  IF FullDaysEnd(end) > StartPartialEnd(start, end)
    THEN FullDaysEnd(end) ELSE StartPartialEnd(start, end)

\* UsageRecord rows of events, and those without aggregatedAt: gte from, lt to.
Within(t, from, to) == from <= t /\ t < to

AggregatedRows(from, to, endpoints) ==
  SumFunctionOnSet(Recorded,
    {e \in Event : Within(OccurredAt[e], from, to) /\ Usage[e].endpoint \in endpoints})
UnaggregatedRows(from, to, endpoints) ==
  SumFunctionOnSet([r \in Unaggregated |-> r.count],
    {r \in Unaggregated : Within(r.at, from, to) /\ r.endpoint \in endpoints})

RawUsage(from, to, endpoints) ==
  AggregatedRows(from, to, endpoints) + UnaggregatedRows(from, to, endpoints)

Days(from, to) == {b \in Bucket : Within(b, from, to)}
DailyUsage(from, to) == SumFunctionOnSet(daily, Days(from, to))
EndpointDailyUsage(from, to, p) ==
  SumFunctionOnSet([b \in Bucket |-> endpointDaily[b][p]], Days(from, to))

\* Both sums take rows at the two ends and, between them, aggregates and the
\* rows that are in none.  A window inside one day has no days between.
WindowSum(start, end, endpoints, dailySum) ==
  IF start >= end
    THEN 0
    ELSE RawUsage(start, StartPartialEnd(start, end), endpoints)
         + dailySum
         + UnaggregatedRows(FullDaysStart(start), FullDaysEnd(end), endpoints)
         + RawUsage(EndPartialStart(start, end), end, endpoints)

SumUsageForWindow(start, end) ==
  WindowSum(start, end, Endpoint, DailyUsage(FullDaysStart(start), FullDaysEnd(end)))

\* Per endpoint, before the list is sorted and cut to its limit.
EndpointUsageForWindow(p, start, end) ==
  WindowSum(start, end, {p}, EndpointDailyUsage(FullDaysStart(start), FullDaysEnd(end), p))

-----------------------------------------------------------------------------
\* Whatever the queue is doing, each window counts each row in it once and no
\* other, in total and per endpoint: also when it starts or ends at midnight,
\* lies within one day, or holds rows that no aggregate knows of
\* (sumUsageForWindow, listEndpointUsageForWindow).
WindowsAreExact ==
  \A start, end \in Instant :
    start < end =>
      /\ SumUsageForWindow(start, end) = RawUsage(start, end, Endpoint)
      /\ \A p \in Endpoint :
           EndpointUsageForWindow(p, start, end) = RawUsage(start, end, {p})
=============================================================================
