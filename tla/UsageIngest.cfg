CONSTANTS
  j1 = j1
  j2 = j2
  j3 = j3
  d1 = d1
  search = search
  health = health
  Worker = {w1, w2}
  NoOwner = NoOwner
  Job = {j1, j2, j3}
  Direct = {d1}
  Bucket <- MCDays
  Endpoint = {search, health}
  Usage <- MCUsage
  Poison = {j2, j3}
  BatchSize = 2
  MaxFaults = 1
  DayLength = 3
  OccurredAt <- MCOccurredAt
  Unaggregated <- MCUnaggregated
  Instant <- MCInstants
SPECIFICATION FairSpec
INVARIANTS
  IngestInv
  AggregatesMatchRows
  WindowsAreExact
PROPERTIES
  ImplementsLedger
  EveryJobSettles
