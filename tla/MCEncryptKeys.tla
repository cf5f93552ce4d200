---------------------------- MODULE MCEncryptKeys ---------------------------
(***************************************************************************)
(* Instances of EncryptKeys for TLC.                                       *)
(***************************************************************************)
EXTENDS EncryptKeys, TLC

\* Clients create and change the keys of every target as they like, ...
AnyFlags == [t \in Targets |-> BOOLEAN]

\* ... or they only ever turn keys on, except those of one target, which they
\* turn off and never on again.
CONSTANT OffTarget
CreateFlagsOf == [t \in Targets |-> IF t = OffTarget THEN BOOLEAN ELSE {TRUE}]
PatchFlagsOf  == [t \in Targets |-> {t # OffTarget}]

\* Requests that run the same hooks, and ids that only name rows, can be
\* exchanged (not used for liveness).
Symmetry == Permutations(Handlers) \cup Permutations(KeyIds)
=============================================================================
