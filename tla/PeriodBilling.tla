--------------------------- MODULE PeriodBilling ---------------------------
(***************************************************************************)
(* What settling usage promises: periods follow one another, each is       *)
(* settled once, after it has ended, for the usage counted by then; what   *)
(* is counted later changes nothing that was settled, and a subscription   *)
(* that ended opens no further period.                                     *)
(***************************************************************************)
EXTENDS Naturals

CONSTANTS Periods, Quota, UnitRequests

VARIABLES now,      \* the period that is running
          opened,   \* periods paid for so far
          counted,  \* usage recorded in each period
          billed,   \* what each period was settled for: {} before, then {units}
          ended

vars == <<now, opened, counted, billed, ended>>

\* The least number of units that covers what exceeds the quota.
Covers(units, used) ==
  /\ used <= Quota + units * UnitRequests
  /\ units = 0 \/ used > Quota + (units - 1) * UnitRequests

Init == /\ now = 1
        /\ opened \in {0, 1}
        /\ counted = [n \in 1..Periods |-> 0]
        /\ billed = [n \in 1..Periods |-> {}]
        /\ ended = FALSE

Pass == /\ now' = now + 1
        /\ UNCHANGED <<opened, counted, billed, ended>>

Open == /\ ~ended
        /\ opened < now
        /\ opened' = opened + 1
        /\ UNCHANGED <<now, counted, billed, ended>>

Count(n) == /\ n <= opened
            /\ counted' = [counted EXCEPT ![n] = @ + 1]
            /\ UNCHANGED <<now, opened, billed, ended>>

Settle(n) ==
  /\ n <= opened /\ n < now
  /\ billed[n] = {}
  /\ \E units \in 0..counted[n] :
       /\ Covers(units, counted[n])
       /\ billed' = [billed EXCEPT ![n] = {units}]
  /\ \/ UNCHANGED <<opened, ended>>
     \/ /\ ~ended /\ n = opened
        /\ opened' = opened + 1
        /\ UNCHANGED ended
     \/ ended' = TRUE /\ UNCHANGED opened
  /\ UNCHANGED <<now, counted>>

Next == Pass \/ Open \/ \E n \in 1..Periods : Count(n) \/ Settle(n)

Spec == Init /\ [][Next]_vars
=============================================================================
