--------------------------- MODULE EncryptKeysMet ---------------------------
(***************************************************************************)
(* EncryptKeys with history variables, on which no action depends.         *)
(***************************************************************************)
EXTENDS EncryptKeys

VARIABLES
    overtaken, \* PATCHes since whose check a newer version has been committed
    missed     \* keys committed between the look-up of a removal and its DELETE

metVars == <<vars, overtaken, missed>>

New == {k \in KeyIds : db[k] = NoRow /\ db'[k] # NoRow}

MetInit == Init /\ overtaken = {} /\ missed = {}

MetNext ==
    /\ Next
    /\ overtaken' = {h \in Handlers : /\ pc'[h] \in {"patch", "commitPatch"}
                                      /\ \/ h \in overtaken
                                         \/ \E k \in New : db'[k].target = row'[h].target}
    /\ missed' = missed \cup {k \in New : \E g \in Handlers : pc[g] = "delete"}

MetSpec == MetInit /\ [][MetNext]_metVars

\* screen-201.md: the record of a version that is no longer the latest cannot be
\* changed, but by a PATCH that was checked before the newer one was committed.
OldRecordsFrozen ==
    [][\A h \in Handlers :
         CommitPatch(h) => Latest(kid[h]) \/ h \in overtaken]_metVars

\* encrypt-keys.test.ts: once the stream is removed, Vault has none of its keys any
\* more, but those committed between the look-up and the DELETE of the removal.
NoSecretAfterRemoval ==
    ~ live => \A k \in KeyIds : vault[k] # NoSecret => k \in missed
=============================================================================
