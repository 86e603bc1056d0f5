------------------------ MODULE MCBackgroundJobLease ------------------------
(* Three processes and six ticks: a lease can be taken, outlived by its      *)
(* cycle, taken over and taken back while old clock readings are in flight.  *)
EXTENDS BackgroundJobLease, TLC

Symmetry == Permutations(Owner)
=============================================================================
