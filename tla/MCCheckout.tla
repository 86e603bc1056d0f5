----------------------------- MODULE MCCheckout -----------------------------
(* Two subscriptions of one buyer, and enough time for a period, the grace   *)
(* after it and a failure after both.                                        *)
EXTENDS Checkout, TLC

Symmetry == Permutations(Caller) \cup Permutations(Sub)
=============================================================================
