------------------------------ MODULE MCStreams -----------------------------
(***************************************************************************)
(* Streams for TLC.  Handlers and ids are interchangeable (not used for    *)
(* liveness).                                                              *)
(***************************************************************************)
EXTENDS Streams, TLC

Symmetry == Permutations(Handlers) \cup Permutations(Ids)
=============================================================================
