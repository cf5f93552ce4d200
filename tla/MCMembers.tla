----------------------------- MODULE MCMembers ------------------------------
(***************************************************************************)
(* Members for TLC.  Handlers, users, streams and ids are interchangeable: *)
(* no action orders them.                                                  *)
(***************************************************************************)
EXTENDS Members, TLC

Symmetry == Permutations(Handlers) \cup Permutations(Users)
              \cup Permutations(Streams) \cup Permutations(MemberIds)
=============================================================================
