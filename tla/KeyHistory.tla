----------------------------- MODULE KeyHistory -----------------------------
(***************************************************************************)
(* What the data keys of one stream promise their users, whatever the      *)
(* server, PostgreSQL and Vault do to provide it: every target owns a      *)
(* history of versions 1, 2, 3, ... that grows one version at a time, no   *)
(* version is skipped, reused or withdrawn, and the histories disappear    *)
(* only together, with the stream.                                         *)
(***************************************************************************)
EXTENDS Naturals

CONSTANT Targets        \* the places of a configuration file a key can go to

VARIABLES versions,     \* versions[t]: the versions published for target t
          open          \* the stream still exists

keyVars == <<versions, open>>

Init == /\ versions = [t \in Targets |-> {}]
        /\ open = TRUE

\* A data key for t is registered or renewed.
Publish(t) ==
    /\ open
    /\ \E n \in versions[t] \cup {0} :
         /\ versions[t] = 1..n
         /\ versions' = [versions EXCEPT ![t] = 1..(n + 1)]
    /\ UNCHANGED open

\* The stream is removed, and the keys of all targets with it.
Drop == /\ open
        /\ open' = FALSE
        /\ versions' = [t \in Targets |-> {}]

Next == Drop \/ \E t \in Targets : Publish(t)

Spec == Init /\ [][Next]_keyVars
=============================================================================
