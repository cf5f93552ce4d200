--------------------------- MODULE MCConfigFiles ----------------------------
(***************************************************************************)
(* ConfigFiles for TLC: files, targets and queries.                        *)
(***************************************************************************)
EXTENDS ConfigFiles, TLC

MCTargets  == << <<"*", "a">>, <<"s", "a">>, <<"s", "a", "b">>, <<"x*", "a">> >>
MCServices == <<"r", "s">>

MapsRS == (<<"r">> :> Map) @@ (<<"s">> :> Map)
MCDocuments ==
    {[format |-> f, tree |-> <<>>] : f \in {"empty", "broken", "scalar", "v2 without config"}}
    \cup {[format |-> "v2", tree |-> MapsRS @@ (<<"s", "c">> :> Scalar)],
          [format |-> "v1", tree |-> MapsRS @@ (<<"s", "a">> :> Map) @@ (<<"s", "a", "c">> :> Scalar)],
          [format |-> "v1", tree |-> (<<"r">> :> Nil) @@ (<<"s">> :> Scalar)]}

MCApiQuery == [select |-> {"object", "attachments", "secrets"}, embed |-> {"text"}]
MCQueries ==
    {MCApiQuery,
     [select |-> {"yaml"}, embed |-> {"attachment", "secret", "text"}],
     [select |-> {"object"}, embed |-> {"secret"}],
     [select |-> {"yaml"}, embed |-> Bad],
     [select |-> Bad, embed |-> {}]}

(***************************************************************************)
(* Bounds: which record may have which target; and of what others do, one  *)
(* change is followed further, or the removal of the stream.               *)
(***************************************************************************)
MCTargetsOf == <<{1, 3}, {1, 2, 3}, {1, 2, 3, 4}, {2, 3}>>

Removed    == {i \in Items : IF i \in Keys THEN ~ item[i].secret ELSE ~ item[i].live}
MadePublic == {i \in DOMAIN rows \ Removed : rows[i].secret # item[i].secret}
NewRights  == {r \in {"membership", "publicKey"} :
                 IF r = "membership" THEN r \in missing
                 ELSE step \notin {"idle", "publicKey"} /\ publicKey = (r \in missing)}

Bounds ==
    /\ \A i \in Items : item[i].target \in MCTargetsOf[i]
    /\ Removed = Items \/ Cardinality(Removed \cup MadePublic) + Cardinality(NewRights) <= 1
=============================================================================
