----------------------------- MODULE MCAccounts -----------------------------
(***************************************************************************)
(* Accounts for TLC.                                                       *)
(***************************************************************************)
EXTENDS Accounts, TLC

Symmetry == Permutations(Handlers) \cup Permutations(Uids)
              \cup Permutations(Wraps) \cup Permutations(Names)
=============================================================================
