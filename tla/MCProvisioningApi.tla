------------------------- MODULE MCProvisioningApi -------------------------
(* ProvisioningApi for TLC.                                                 *)
EXTENDS ProvisioningApi, TLC

Symmetry == Permutations(Requests)
=============================================================================
