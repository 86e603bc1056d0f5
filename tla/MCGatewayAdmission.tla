------------------------- MODULE MCGatewayAdmission -------------------------
(* A few calls of one or two requests against small limits. *)
EXTENDS GatewayAdmission, TLC

Symmetry == Permutations(Call)
=============================================================================
