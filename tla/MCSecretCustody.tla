-------------------------- MODULE MCSecretCustody ---------------------------
(* SecretCustody on a small instance: its constants are in the .cfg.        *)
EXTENDS SecretCustody, TLC

CONSTANTS w1, h1, h2

Symmetry == Permutations(Handlers)

=============================================================================
