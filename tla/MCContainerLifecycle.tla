------------------------ MODULE MCContainerLifecycle ------------------------
(* Instances of ContainerLifecycle for TLC. *)
EXTENDS ContainerLifecycle, TLC

CONSTANTS g1, g2, c1, c2

\* The gateways are alike.
GatewaySymmetry == Permutations(Gateways)
=============================================================================
