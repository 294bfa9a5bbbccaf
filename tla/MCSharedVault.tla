--------------------------- MODULE MCSharedVault ---------------------------
(* The shared Vault on a small instance. *)
EXTENDS SharedVault
===========================================================================
