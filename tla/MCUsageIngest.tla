--------------------------- MODULE MCUsageIngest ---------------------------
(* Three jobs, two of them poison and so able to fill every batch, a direct  *)
(* write and two rows from before the aggregates, over two days of three     *)
(* moments each, and two processes whose leases may lapse at any step.       *)
EXTENDS UsageWindow, TLC

CONSTANTS j1, j2, j3, d1, search, health

MCDays == {0, 3}
MCOccurredAt == j1 :> 1 @@ j2 :> 3 @@ j3 :> 4 @@ d1 :> 3
MCUsage == j1 :> [bucket |-> 0, endpoint |-> search, count |-> 2]
           @@ j2 :> [bucket |-> 3, endpoint |-> health, count |-> 1]
           @@ j3 :> [bucket |-> 3, endpoint |-> search, count |-> 1]
           @@ d1 :> [bucket |-> 3, endpoint |-> health, count |-> 1]
MCUnaggregated == {[at |-> 2, endpoint |-> search, count |-> 3],
                   [at |-> 5, endpoint |-> health, count |-> 1]}
MCInstants == {0, 2, 4, 6}
=============================================================================
