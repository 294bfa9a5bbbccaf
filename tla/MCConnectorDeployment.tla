----------------------- MODULE MCConnectorDeployment -----------------------
(* Level 4 for two connectors. *)
EXTENDS ConnectorDeployment, TLC

Symmetry == Permutations(Connectors)
===========================================================================
