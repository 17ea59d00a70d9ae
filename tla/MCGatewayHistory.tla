-------------------------- MODULE MCGatewayHistory --------------------------
(* The instances of MCGateway, with the history of GatewayHistory. *)
EXTENDS MCGateway, GatewayHistory

\* Nothing tells two passes apart; only for runs without liveness.
PassSymmetry == Permutations(Passes)
=============================================================================
