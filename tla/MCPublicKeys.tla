---------------------------- MODULE MCPublicKeys ----------------------------
(***************************************************************************)
(* PublicKeys for TLC.  Handlers and ids of keys are interchangeable: no   *)
(* action compares or orders them.                                         *)
(***************************************************************************)
EXTENDS PublicKeys, TLC

Symmetry == Permutations(Handlers) \cup Permutations(KeyIds)
=============================================================================
