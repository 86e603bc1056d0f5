---------------------------- MODULE MCStripeSync ----------------------------
(* The checkout and one renewal: a webhook call side by side with the        *)
(* reconciliation worker.                                                    *)
EXTENDS StripeSync
=============================================================================
