----------------------------- MODULE EncryptKeys ----------------------------
(***************************************************************************)
(* The data keys of one stream: the `encrypt-keys' service with the hooks  *)
(* of process-encrypt-keys.ts, and the removal of the stream itself, as    *)
(* far as it touches the keys (process-stream.ts).  Streams share no row,  *)
(* no index entry and no Vault path, so one stream is enough.              *)
(*                                                                         *)
(* A request runs in a handler.  Node interleaves handlers at every await, *)
(* and several servers may run, so an action is one access to a shared     *)
(* store.  A handler works inside a READ COMMITTED transaction, hence it   *)
(* reads what is committed, and what it writes shows when it commits; the  *)
(* write to Vault is never part of the transaction.                        *)
(***************************************************************************)
EXTENDS Naturals, FiniteSets

CONSTANTS
    Handlers,   \* requests being served at the same time
    Targets,    \* embedding targets of the stream's configuration file
    KeyIds,     \* ids of rows of encrypt_keys (bounds the number of creates)
    CreateFlags,\* values of "enabled" that clients send in a POST for a target ...
    PatchFlags, \* ... and in a PATCH
    Faults,     \* values of pc at which the handler's next call may fail
    NoKey, NoRow, NoSecret

Row    == [target : Targets, version : Nat, enabled : BOOLEAN]
Secret == [target : Targets, version : Nat]
PCs    == {"idle", "insert", "disableOld", "register", "commitCreate",
           "patch", "commitPatch", "delete", "cleanup"}

ASSUME ConstantsAssumption ==
    /\ NoKey \notin KeyIds
    /\ NoRow \notin Row
    /\ NoSecret \notin Secret
    /\ CreateFlags \in [Targets -> SUBSET BOOLEAN]
    /\ PatchFlags \in [Targets -> SUBSET BOOLEAN]
    /\ Faults \subseteq PCs \ {"idle"}

VARIABLES
    db,         \* db[k]: the committed row of key k
    live,       \* the row of the stream is committed
    vault,      \* vault[k]: what Vault stores at streams.<sid>.encrypt-keys.<k>
    removals,   \* keys with a DELETE request on its way to Vault
    used,       \* ids taken from the sequence encrypt_keys_id_seq
    pc,         \* pc[h]: the call handler h makes next
    kid,        \* kid[h]: the key h inserts or patches
    row,        \* row[h]: the row h writes; h's transaction owns it
    secrets     \* secrets[h]: the keys h found for removal (params.secrets)

shared == <<db, live, vault, removals, used>>
vars   == <<db, live, vault, removals, used, pc, kid, row, secrets>>

TypeOK ==
    /\ db \in [KeyIds -> Row \cup {NoRow}]
    /\ live \in BOOLEAN
    /\ vault \in [KeyIds -> Secret \cup {NoSecret}]
    /\ removals \subseteq KeyIds
    /\ used \subseteq KeyIds
    /\ pc \in [Handlers -> PCs]
    /\ kid \in [Handlers -> KeyIds \cup {NoKey}]
    /\ row \in [Handlers -> Row \cup {NoRow}]
    /\ secrets \in [Handlers -> SUBSET KeyIds]

Init ==
    /\ db = [k \in KeyIds |-> NoRow]
    /\ live = TRUE
    /\ vault = [k \in KeyIds |-> NoSecret]
    /\ removals = {}
    /\ used = {}
    /\ pc = [h \in Handlers |-> "idle"]
    /\ kid = [h \in Handlers |-> NoKey]
    /\ row = [h \in Handlers |-> NoRow]
    /\ secrets = [h \in Handlers |-> {}]

-----------------------------------------------------------------------------
(***************************************************************************)
(* The committed rows, and the locks PostgreSQL holds for transactions.    *)
(***************************************************************************)
KeysOf(t)   == {k \in KeyIds : db[k] # NoRow /\ db[k].target = t}
Versions(t) == {db[k].version : k \in KeysOf(t)}
Latest(k)   == \A j \in KeysOf(db[k].target) : db[j].version <= db[k].version

\* h has inserted a row, which keeps its entry of the unique index and a
\* shared lock on the row of the stream until h commits or rolls back.
Inserted(h) == pc[h] \in {"disableOld", "register", "commitCreate"}

\* h has updated a row, and keeps it locked.
Patched(h)  == pc[h] = "commitPatch"

\* h has deleted the row of the stream and, by cascade, those of its keys.
Deleted(h)  == pc[h] = "cleanup"

Goto(h, l)  == pc' = [pc EXCEPT ![h] = l]

\* The request of h is answered, the context of its hooks is gone.
Answer(h)   == /\ Goto(h, "idle")
               /\ kid' = [kid EXCEPT ![h] = NoKey]
               /\ row' = [row EXCEPT ![h] = NoRow]
               /\ secrets' = [secrets EXCEPT ![h] = {}]

-----------------------------------------------------------------------------
(***************************************************************************)
(* POST /encrypt-keys                                                      *)
(***************************************************************************)
\* The version after that of the committed row that sorts first, 1 for a new
\* target.
GenerateVersion(t) ==
    IF KeysOf(t) = {} THEN {1}
    ELSE {db[k].version + 1 : k \in {j \in KeysOf(t) : Latest(j)}}

\* Start of the transaction and before-hooks.  The id is in truth taken by
\* the INSERT, but nobody sees it before.
PrepareEncryptKey(h) ==
    /\ pc[h] = "idle"
    /\ live
    /\ \E t \in Targets, e \in BOOLEAN, k \in KeyIds \ used :
         /\ e \in CreateFlags[t]
         /\ \E v \in GenerateVersion(t) :
              row' = [row EXCEPT ![h] = [target |-> t, version |-> v,
                                         enabled |-> e]]
         /\ kid' = [kid EXCEPT ![h] = k]
         /\ used' = used \cup {k}
    /\ Goto(h, "insert")
    /\ UNCHANGED <<db, live, vault, removals, secrets>>

\* The INSERT waits while another transaction has inserted the same index
\* entry or deleted the stream.
InsertUnblocked(h) ==
    \A g \in Handlers \ {h} :
        /\ ~ Deleted(g)
        /\ Inserted(g) => \/ row[g].target # row[h].target
                          \/ row[g].version # row[h].version

InsertKey(h) ==
    /\ pc[h] = "insert"
    /\ InsertUnblocked(h)
    /\ live
    /\ row[h].version \notin Versions(row[h].target)
    /\ Goto(h, "disableOld")
    /\ UNCHANGED <<shared, kid, row, secrets>>

\* Mutant: the service has no error hook that rolls back.
InsertNotRolledBack(h) ==
    /\ pc[h] = "insert"
    /\ InsertUnblocked(h)
    /\ ~ live \/ row[h].version \in Versions(row[h].target)
    /\ UNCHANGED vars

\* The unique index or the foreign key refuses the row: Conflict, rollback.
InsertRefused(h) ==
    /\ pc[h] = "insert"
    /\ InsertUnblocked(h)
    /\ ~ live \/ row[h].version \in Versions(row[h].target)
    /\ Answer(h)
    /\ UNCHANGED shared

\* Mutant: the query of the nested patch lacks the target.
DisableAllTargets(h) ==
    /\ pc[h] = "disableOld"
    /\ \A g \in Handlers : ~ Patched(g)
    /\ db' = [k \in KeyIds |-> IF db[k] # NoRow
                               THEN [db[k] EXCEPT !.enabled = FALSE]
                               ELSE db[k]]
    /\ Goto(h, "register")
    /\ UNCHANGED <<live, vault, removals, used, kid, row, secrets>>

\* Mutant: the query of the nested patch matches no older version.
DisableNothing(h) ==
    /\ pc[h] = "disableOld"
    /\ Goto(h, "register")
    /\ UNCHANGED <<shared, kid, row, secrets>>

\* The nested service.patch(null, {enabled: false}) runs the hooks of a PATCH
\* and so opens and commits a transaction of its own: the older rows change
\* now, whatever becomes of h.  It waits for rows that a PATCH has locked.
DisableOldKey(h) ==
    /\ pc[h] = "disableOld"
    /\ \A g \in Handlers : Patched(g) => kid[g] \notin KeysOf(row[h].target)
    /\ db' = [k \in KeyIds |-> IF k \in KeysOf(row[h].target)
                               THEN [db[k] EXCEPT !.enabled = FALSE]
                               ELSE db[k]]
    /\ Goto(h, "register")
    /\ UNCHANGED <<live, vault, removals, used, kid, row, secrets>>

RegisterEncryptKey(h) ==
    /\ pc[h] = "register"
    /\ vault' = [vault EXCEPT ![kid[h]] = [target  |-> row[h].target,
                                           version |-> row[h].version]]
    /\ Goto(h, "commitCreate")
    /\ UNCHANGED <<db, live, removals, used, kid, row, secrets>>

\* Mutant: the commit comes before the hook that writes to Vault.
CommitCreateEarly(h) ==
    /\ pc[h] = "register"
    /\ db' = [db EXCEPT ![kid[h]] = row[h]]
    /\ Answer(h)
    /\ UNCHANGED <<live, vault, removals, used>>

CommitCreate(h) ==
    /\ pc[h] = "commitCreate"
    /\ db' = [db EXCEPT ![kid[h]] = row[h]]
    /\ Answer(h)
    /\ UNCHANGED <<live, vault, removals, used>>

-----------------------------------------------------------------------------
(***************************************************************************)
(* PATCH /encrypt-keys/<id>                                                *)
(***************************************************************************)
\* Mutant: the record is compared with no other one.
DisallowNothing(h) ==
    /\ pc[h] = "idle"
    /\ \E k \in KeyIds, e \in BOOLEAN :
         /\ db[k] # NoRow /\ e \in PatchFlags[db[k].target]
         /\ kid' = [kid EXCEPT ![h] = k]
         /\ row' = [row EXCEPT ![h] = [db[k] EXCEPT !.enabled = e]]
    /\ Goto(h, "patch")
    /\ UNCHANGED <<shared, secrets>>

\* Refused with MethodNotAllowed unless k is the latest version now.
DisallowModifyOldRecord(h) ==
    /\ pc[h] = "idle"
    /\ \E k \in KeyIds, e \in BOOLEAN :
         /\ db[k] # NoRow /\ e \in PatchFlags[db[k].target]
         /\ Latest(k)
         /\ kid' = [kid EXCEPT ![h] = k]
         /\ row' = [row EXCEPT ![h] = [db[k] EXCEPT !.enabled = e]]
    /\ Goto(h, "patch")
    /\ UNCHANGED <<shared, secrets>>

\* The UPDATE waits for the lock on the row, then NotFound if it is gone.
PatchKey(h) ==
    /\ pc[h] = "patch"
    /\ \A g \in Handlers : ~ Deleted(g) /\ (Patched(g) => kid[g] # kid[h])
    /\ \/ /\ db[kid[h]] = NoRow
          /\ Answer(h)
       \/ /\ db[kid[h]] # NoRow
          /\ Goto(h, "commitPatch")
          /\ UNCHANGED <<kid, row, secrets>>
    /\ UNCHANGED shared

CommitPatch(h) ==
    /\ pc[h] = "commitPatch"
    /\ db' = [db EXCEPT ![kid[h]].enabled = row[h].enabled]
    /\ Answer(h)
    /\ UNCHANGED <<live, vault, removals, used>>

-----------------------------------------------------------------------------
(***************************************************************************)
(* DELETE /streams/<id>                                                    *)
(***************************************************************************)
\* Mutant: only the keys in use are looked up.
PrepareCleanupEnabled(h) ==
    /\ pc[h] = "idle"
    /\ live
    /\ secrets' = [secrets EXCEPT ![h] = {k \in KeyIds : db[k] # NoRow /\ db[k].enabled}]
    /\ Goto(h, "delete")
    /\ UNCHANGED <<shared, kid, row>>

\* The keys are looked up outside the transaction (no trx in the params).
PrepareCleanupSecrets(h) ==
    /\ pc[h] = "idle"
    /\ live
    /\ secrets' = [secrets EXCEPT ![h] = {k \in KeyIds : db[k] # NoRow}]
    /\ Goto(h, "delete")
    /\ UNCHANGED <<shared, kid, row>>

\* The DELETE waits for every transaction that has a lock on the stream or on
\* one of its keys.  Then all the removals from Vault start at once.
DeleteStream(h) ==
    /\ pc[h] = "delete"
    /\ \A g \in Handlers : ~ Inserted(g) /\ ~ Patched(g) /\ ~ Deleted(g)
    /\ \/ /\ ~ live
          /\ Answer(h)
          /\ UNCHANGED removals
       \/ /\ live
          /\ removals' = removals \cup secrets[h]
          /\ Goto(h, "cleanup")
          /\ UNCHANGED <<kid, row, secrets>>
    /\ UNCHANGED <<db, live, vault, used>>

\* Vault serves one of the removals.
RemoveSecret(k) ==
    /\ k \in removals
    /\ removals' = removals \ {k}
    /\ vault' = [vault EXCEPT ![k] = NoSecret]
    /\ UNCHANGED <<db, live, used, pc, kid, row, secrets>>

\* Mutant: no cascade, only the keys looked up before are deleted.
CommitRemoveFound(h) ==
    /\ pc[h] = "cleanup"
    /\ secrets[h] \cap removals = {}
    /\ db' = [k \in KeyIds |-> IF k \in secrets[h] THEN NoRow ELSE db[k]]
    /\ live' = FALSE
    /\ Answer(h)
    /\ UNCHANGED <<vault, removals, used>>

CommitRemove(h) ==
    /\ pc[h] = "cleanup"
    /\ secrets[h] \cap removals = {}
    /\ db' = [k \in KeyIds |-> NoRow]
    /\ live' = FALSE
    /\ Answer(h)
    /\ UNCHANGED <<vault, removals, used>>

-----------------------------------------------------------------------------
(***************************************************************************)
(* A call fails (Vault or PostgreSQL refuses or times out, the server      *)
(* stops): the error hook, or PostgreSQL itself, rolls back.  Removals     *)
(* that Promise.all has started stay on their way.                         *)
(***************************************************************************)
Fail(h) ==
    /\ pc[h] \in Faults
    /\ Answer(h)
    /\ UNCHANGED shared

CreateStep(h) == \/ InsertKey(h) \/ InsertRefused(h) \/ DisableOldKey(h)
                 \/ RegisterEncryptKey(h) \/ CommitCreate(h)
PatchStep(h)  == PatchKey(h) \/ CommitPatch(h)
RemoveStep(h) == DeleteStream(h) \/ CommitRemove(h)

Request(h) == \/ PrepareEncryptKey(h)
              \/ DisallowModifyOldRecord(h)
              \/ PrepareCleanupSecrets(h)

Next == \/ \E h \in Handlers : \/ Request(h) \/ CreateStep(h) \/ PatchStep(h)
                               \/ RemoveStep(h) \/ Fail(h)
        \/ \E k \in KeyIds : RemoveSecret(k)

Spec == Init /\ [][Next]_vars

\* Node resumes every handler whose call has returned, and the lock queues of
\* PostgreSQL are first come, first served: a step that is enabled again and
\* again is taken.  Clients need not send anything.
FairSpec ==
    /\ Spec
    /\ \A h \in Handlers : /\ SF_vars(CreateStep(h)) /\ SF_vars(PatchStep(h))
                           /\ SF_vars(RemoveStep(h))
    /\ \A k \in KeyIds : WF_vars(RemoveSecret(k))

-----------------------------------------------------------------------------
(***************************************************************************)
(* What the keys are for their users.                                      *)
(***************************************************************************)
\* The versions of a target are 1, 2, ..., n, each carried by one row.
\* generateVersion reads and inserts in two steps, and only the unique index
\* stops two requests that read the same version.
VersionsGapless ==
    \A t \in Targets :
        /\ \A v \in Versions(t) : v >= 1 /\ 1..v \subseteq Versions(t)
        /\ \A j, k \in KeysOf(t) : db[j].version = db[k].version => j = k

\* A key in the database can be fetched from Vault, and Vault has it under the
\* same target and version: the key is written to Vault before its row is
\* committed (registerEncryptKey, then commit), and cleanupSecrets takes it
\* away only together with the stream.
KeyHasSecret ==
    \A k \in KeyIds :
        db[k] # NoRow => \/ vault[k] = [target  |-> db[k].target,
                                        version |-> db[k].version]
                         \/ \E h \in Handlers : Deleted(h)

\* The configuration file embeds one key per target, since disableOldKey
\* turns off the older versions before a new one is committed, unless a client
\* turns a key of the target on again.
AtMostOneEnabled ==
    \A t \in Targets : TRUE \notin PatchFlags[t] =>
        \A j, k \in KeysOf(t) : db[j].enabled /\ db[k].enabled => j = k

\* screen-201.md: the server turns a version off when a newer one replaces it.
\* So if clients never turn the keys of a target off, the latest version is on,
\* except while the request that replaces it runs.
LatestStaysEnabled ==
    \A k \in KeyIds :
        (db[k] # NoRow /\ Latest(k)) =>
            \/ FALSE \in CreateFlags[db[k].target] \cup PatchFlags[db[k].target]
            \/ db[k].enabled
            \/ \E h \in Handlers : Inserted(h) /\ row[h].target = db[k].target

\* Every request is answered.
EveryRequestAnswered ==
    \A h \in Handlers : pc[h] # "idle" ~> pc[h] = "idle"

\* The rows implement the histories of versions that KeyHistory promises.
History == INSTANCE KeyHistory
             WITH versions <- [t \in Targets |-> Versions(t)], open <- live

KeepsHistory == History!Spec
=============================================================================
