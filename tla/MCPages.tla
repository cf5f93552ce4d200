------------------------------ MODULE MCPages -------------------------------
(***************************************************************************)
(* Pages for TLC.                                                          *)
(***************************************************************************)
EXTENDS Pages, TLC

\* Requests have no order.
Symmetry == Permutations(Calls)

\* Finds, gets and requests of the tab that are under way.
Load == Cardinality(asked) + Cardinality(answers) + Cardinality(UnderWay)
          + Cardinality(cfgAnswers) + Cardinality({TRUE} \cap {cfgAsked})

\* The table may differ from the server, and no find under way will change that.
Astray == stale /\ Everything \notin asked /\ \A a \in answers : ~ a.full

\* Three things are under way at a time, one or two when the table is astray; there is
\* one row at first, but for members; new data keys are enabled.
Bounds ==
    /\ Load <= IF ~ Astray THEN 3 ELSE IF kind \in {"PublicKey", "EncryptKey"} THEN 1 ELSE 2
    /\ changes = 0 /\ kind # "Member" => ids <= 1
    /\ kind = "EncryptKey" /\ form # NoForm => form.flag \/ form.op = "patch"
=============================================================================
