----------------------------- MODULE MCBrowser ------------------------------
(***************************************************************************)
(* Browser for TLC: each of two users owns one stream, so the two can be   *)
(* exchanged together with their streams.                                  *)
(***************************************************************************)
EXTENDS Browser, TLC

CONSTANTS u1, u2, s1, s2

MCUsers   == {u1, u2}
MCOwned   == (u1 :> {s1}) @@ (u2 :> {s2})
MCCounted == {s1, s2}
Swap      == (u1 :> u2) @@ (u2 :> u1) @@ (s1 :> s2) @@ (s2 :> s1)
Symmetry  == Permutations(Tabs) \cup Permutations(Jwts) \cup {Swap}
=============================================================================
