-------------------------- MODULE MCSecretContents --------------------------
(***************************************************************************)
(* SecretContents for TLC.                                                 *)
(***************************************************************************)
EXTENDS SecretContents, TLC

Symmetry == Permutations(Handlers)
=============================================================================
