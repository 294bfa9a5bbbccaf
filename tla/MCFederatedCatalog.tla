------------------------- MODULE MCFederatedCatalog -------------------------
(* FederatedCatalog for TLC: two participants that both name a dataset "x". *)
EXTENDS FederatedCatalog, TLC

CONSTANTS p1, p2

TwoOffers == (p1 :> {[assets |-> {"x"}, announced |-> FALSE], [assets |-> {}, announced |-> TRUE]})
             @@ (p2 :> {[assets |-> {"x", "y"}, announced |-> TRUE]})
=============================================================================
