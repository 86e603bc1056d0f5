---------------------------- MODULE MeteredAccess ----------------------------
(***************************************************************************)
(* What the gateway promises a seller, within one usage window: a call is  *)
(* charged once, before it is served, and never beyond the plan's quota.   *)
(* Usage reported from elsewhere is charged without asking.                *)
(***************************************************************************)
EXTENDS Naturals

CONSTANTS Call, MaxRequest, Quota, AllowOverage

VARIABLES counted,    \* usage of the window
          charged,    \* calls it includes
          served      \* calls sent upstream

Init == counted = 0 /\ charged = {} /\ served = {}

Charge(c, n) == /\ c \notin charged
                /\ AllowOverage \/ counted + n <= Quota
                /\ counted' = counted + n
                /\ charged' = charged \cup {c}
                /\ UNCHANGED served

Report(n) == /\ counted' = counted + n
             /\ UNCHANGED <<charged, served>>

Serve(c) == /\ c \in charged \ served
            /\ served' = served \cup {c}
            /\ UNCHANGED <<counted, charged>>

Next == \/ \E n \in 1..MaxRequest : Report(n) \/ \E c \in Call : Charge(c, n)
        \/ \E c \in Call : Serve(c)

Spec == Init /\ [][Next]_<<counted, charged, served>>
=============================================================================
