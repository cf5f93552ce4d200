---------------------------- MODULE MCAccessKeys ----------------------------
(***************************************************************************)
(* AccessKeys for TLC: u1 is a member of the only stream, u2 of none.      *)
(***************************************************************************)
EXTENDS AccessKeys, TLC

CONSTANTS u1, u2, s1

MCUsers   == {u1, u2}
MCStreams == {s1}
MCMember  == (u1 :> {s1}) @@ (u2 :> {})

Symmetry == Permutations(Handlers) \cup Permutations(KeyIds)
=============================================================================
