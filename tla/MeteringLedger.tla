--------------------------- MODULE MeteringLedger ---------------------------
(***************************************************************************)
(* What usage metering promises: every accepted usage event is added to    *)
(* the total of its bucket once, and nothing else ever changes a total.    *)
(***************************************************************************)
EXTENDS Naturals

CONSTANTS Queued,     \* events accepted first and counted later
          Immediate,  \* events counted by the call that brings them
          Bucket,     \* subscription and UTC day
          Usage       \* the bucket and the request count of each event

Event == Queued \cup Immediate

VARIABLES accepted, counted, total

vars == <<accepted, counted, total>>

Init == /\ accepted = {}
        /\ counted = {}
        /\ total = [b \in Bucket |-> 0]

Accept(e) == /\ e \notin accepted
             /\ accepted' = accepted \cup {e}
             /\ UNCHANGED <<counted, total>>

AddToTotal(e) == /\ e \notin counted
                 /\ counted' = counted \cup {e}
                 /\ total' = [total EXCEPT ![Usage[e].bucket] = @ + Usage[e].count]

CountAccepted(e) == /\ e \in accepted
                    /\ AddToTotal(e)
                    /\ UNCHANGED accepted

CountImmediately(e) == /\ e \notin accepted
                       /\ accepted' = accepted \cup {e}
                       /\ AddToTotal(e)

Next == \/ \E e \in Queued : Accept(e) \/ CountAccepted(e)
        \/ \E e \in Immediate : CountImmediately(e)

Spec == Init /\ [][Next]_vars
=============================================================================
