------------------------------ MODULE AccessKeys -----------------------------
(***************************************************************************)
(* Access keys: the `access-keys' service with processAccessKeys and       *)
(* processAccessKeysQuery, the log-in with a key (ApiKeyStrategy) and the  *)
(* scheduled removal of expired keys.                                      *)
(*                                                                         *)
(* A key is a row, and four things in Vault: a policy, an AppRole, a       *)
(* secret id of the role, and an entry with both ids for its owner.        *)
(* Streams that keys are for change nothing after creation: the members of *)
(* streams are a constant here, and the lines that name streams a set.     *)
(*                                                                         *)
(* An action is one access to a shared store, as in EncryptKeys.           *)
(***************************************************************************)
EXTENDS Naturals, FiniteSets

CONSTANTS
    Handlers,   \* requests being served at the same time
    Job,        \* the scheduled job
    Users, Streams,
    Member,     \* Member[u]: the streams of user u
    KeyIds,     \* ids of keys (bounds the number of creations)
    Faults,     \* values of pc at which the handler's next call may fail
    NoKey, NoRow

\* The streams of a key; none stands for the flag allPermitted.
Row == [owner : Users, scope : SUBSET Streams]
PCs == {"idle", "policy", "role", "secret", "info", "commit",
        "delete", "uninfo", "unrole", "unpolicy", "ask", "login"}
Ops == {"none", "create", "remove", "login", "sweep"}
Processes == Handlers \cup {Job}

ASSUME ConstantsAssumption ==
    /\ NoKey \notin KeyIds /\ NoRow \notin Row /\ Job \notin Handlers
    /\ Member \in [Users -> SUBSET Streams]
    /\ Faults \subseteq PCs \ {"idle"}

VARIABLES
    db,         \* db[k]: the committed row of key k
    due,        \* keys whose expirationTime has passed
    used,       \* ids taken from the sequence
    policy,     \* policy[k]: the row that the policy access-key-<k> is made from
    role, secret, info, \* keys with a role, a secret id and an entry in Vault
    sessions,   \* keys that a Vault token has been issued for
    pc,         \* pc[p]: the call process p makes next
    op, key, row, \* its request, the key it is about and the row of the key
    found,      \* found[p]: the rows that its find has returned
    queue,      \* keys that the job has still to remove
    \* History variable: keys with a request that failed half-way in Vault.
    damaged

rows    == <<db, due, used>>
vault   == <<policy, role, secret, info, sessions>>
request == <<op, key, row, found>>
vars    == <<rows, vault, pc, request, queue, damaged>>

TypeOK ==
    /\ db \in [KeyIds -> Row \cup {NoRow}]
    /\ due \subseteq KeyIds /\ used \subseteq KeyIds
    /\ policy \in [KeyIds -> Row \cup {NoRow}]
    /\ role \subseteq KeyIds /\ secret \subseteq role
    /\ info \subseteq KeyIds /\ sessions \subseteq KeyIds
    /\ pc \in [Processes -> PCs]
    /\ op \in [Processes -> Ops]
    /\ key \in [Processes -> KeyIds \cup {NoKey}]
    /\ row \in [Processes -> Row \cup {NoRow}]
    /\ found \in [Processes -> SUBSET KeyIds]
    /\ queue \subseteq KeyIds /\ damaged \subseteq KeyIds

Init ==
    /\ db = [k \in KeyIds |-> NoRow]
    /\ due = {} /\ used = {}
    /\ policy = [k \in KeyIds |-> NoRow]
    /\ role = {} /\ secret = {} /\ info = {} /\ sessions = {}
    /\ pc = [p \in Processes |-> "idle"]
    /\ op = [p \in Processes |-> "none"]
    /\ key = [p \in Processes |-> NoKey]
    /\ row = [p \in Processes |-> NoRow]
    /\ found = [p \in Processes |-> {}]
    /\ queue = {} /\ damaged = {}

-----------------------------------------------------------------------------
Goto(p, l) == pc' = [pc EXCEPT ![p] = l]
Rows       == {k \in KeyIds : db[k] # NoRow}

Start(p, o, k, r, ks, l) ==
    /\ pc[p] = "idle"
    /\ op' = [op EXCEPT ![p] = o]
    /\ key' = [key EXCEPT ![p] = k]
    /\ row' = [row EXCEPT ![p] = r]
    /\ found' = [found EXCEPT ![p] = ks]
    /\ Goto(p, l)

Answer(p) == /\ Goto(p, "idle")
             /\ op' = [op EXCEPT ![p] = "none"]
             /\ key' = [key EXCEPT ![p] = NoKey]
             /\ row' = [row EXCEPT ![p] = NoRow]
             /\ found' = [found EXCEPT ![p] = {}]

\* checkStreams: either all streams, or some of the streams of the user.
Scopes(u) == {scope \in SUBSET Streams : scope \subseteq Member[u]}

\* POST /access-keys, until the row is inserted.
CreateKey(h) ==
    \E u \in Users, k \in KeyIds \ used : \E scope \in Scopes(u) :
        /\ Start(h, "create", k, [owner |-> u, scope |-> scope], {}, "policy")
        /\ used' = used \cup {k}
        /\ UNCHANGED <<db, due, vault, queue, damaged>>

\* DELETE /access-keys/<k> by its owner: onlyMyself has found the row.
RemoveKey(h) ==
    \E k \in Rows :
        /\ Start(h, "remove", k, db[k], {}, "delete")
        /\ UNCHANGED <<rows, vault, queue, damaged>>

\* withinExpirationTime: the keys of u that a find returns.
WithinExpirationTime(u) == {k \in Rows \ due : db[k].owner = u}

\* POST /authentication with a secret id of k: getAppRole finds the user's keys.
FindKeys(h) ==
    \E u \in Users, k \in KeyIds :
        /\ WithinExpirationTime(u) # {}
        /\ Start(h, "login", k, NoRow, WithinExpirationTime(u), "ask")
        /\ UNCHANGED <<rows, vault, queue, damaged>>

\* cleanupAccessKeys runs, once its last run is over.
FindExpired ==
    /\ queue = {}
    /\ Start(Job, "sweep", NoKey, NoRow, Rows \cap due, "ask")
    /\ UNCHANGED <<rows, vault, queue, damaged>>

\* The removals of the job run side by side.
RemoveExpired(h) ==
    \E k \in queue :
        /\ Start(h, "remove", k, db[k], {}, "delete")
        /\ queue' = queue \ {k}
        /\ UNCHANGED <<rows, vault, damaged>>

-----------------------------------------------------------------------------
(***************************************************************************)
(* registerAppRole                                                         *)
(***************************************************************************)
RegisterVaultPolicy(h) ==
    /\ pc[h] = "policy"
    /\ policy' = [policy EXCEPT ![key[h]] = row[h]]
    /\ Goto(h, "role")
    /\ UNCHANGED <<rows, role, secret, info, sessions, request, queue, damaged>>

RegisterVaultAppRole(h) ==
    /\ pc[h] = "role"
    /\ role' = role \cup {key[h]}
    /\ Goto(h, "secret")
    /\ UNCHANGED <<rows, policy, secret, info, sessions, request, queue, damaged>>

\* Mutant: no secret id is generated.
SkipSecretId(h) ==
    /\ pc[h] = "secret"
    /\ Goto(h, "info")
    /\ UNCHANGED <<rows, vault, request, queue, damaged>>

GenerateAppRoleSecretId(h) ==
    /\ pc[h] = "secret"
    /\ secret' = secret \cup {key[h]}
    /\ Goto(h, "info")
    /\ UNCHANGED <<rows, policy, role, info, sessions, request, queue, damaged>>

\* Mutant: the transaction is committed before the entry is stored.
CommitBeforeInfo(h) ==
    /\ pc[h] = "info"
    /\ db' = [db EXCEPT ![key[h]] = row[h]]
    /\ info' = info \cup {k \in {key[h]} : db[k] # NoRow}
    /\ Goto(h, IF db[key[h]] = NoRow THEN "info" ELSE "commit")
    /\ UNCHANGED <<due, used, policy, role, secret, sessions, request, queue, damaged>>

\* addExpirationRecord inserts a row in the same transaction first.
StoreAppRoleInfo(h) ==
    /\ pc[h] = "info"
    /\ info' = info \cup {key[h]}
    /\ Goto(h, "commit")
    /\ UNCHANGED <<rows, policy, role, secret, sessions, request, queue, damaged>>

Commit(h) ==
    /\ pc[h] = "commit"
    /\ db' = [db EXCEPT ![key[h]] = IF op[h] = "create" THEN row[h] ELSE NoRow]
    /\ Answer(h)
    /\ UNCHANGED <<due, used, vault, queue, damaged>>

-----------------------------------------------------------------------------
(***************************************************************************)
(* unregisterAppRole                                                       *)
(***************************************************************************)
\* A transaction that has deleted the row of k holds its lock.
Deleting(k) == {p \in Processes : /\ op[p] = "remove" /\ key[p] = k
                                  /\ pc[p] # "delete"}

\* NotFound, when another request has removed the key.
DeleteRow(h) ==
    /\ pc[h] = "delete" /\ Deleting(key[h]) = {}
    /\ \/ /\ db[key[h]] = NoRow
          /\ Answer(h)
       \/ /\ db[key[h]] # NoRow
          /\ Goto(h, "uninfo")
          /\ UNCHANGED request
    /\ UNCHANGED <<rows, vault, queue, damaged>>

RemoveAppRoleInfo(h) ==
    /\ pc[h] = "uninfo"
    /\ info' = info \ {key[h]}
    /\ Goto(h, "unrole")
    /\ UNCHANGED <<rows, policy, role, secret, sessions, request, queue, damaged>>

\* Mutant: the role is left in Vault.
LeaveVaultAppRole(h) ==
    /\ pc[h] = "unrole"
    /\ Goto(h, "unpolicy")
    /\ UNCHANGED <<rows, vault, request, queue, damaged>>

\* The role takes its secret ids with it, but not the tokens issued.
UnregisterVaultAppRole(h) ==
    /\ pc[h] = "unrole"
    /\ role' = role \ {key[h]} /\ secret' = secret \ {key[h]}
    /\ Goto(h, "unpolicy")
    /\ UNCHANGED <<rows, policy, info, sessions, request, queue, damaged>>

\* Mutant: the policy is left in Vault.
LeaveVaultPolicy(h) ==
    /\ pc[h] = "unpolicy"
    /\ Goto(h, "commit")
    /\ UNCHANGED <<rows, vault, request, queue, damaged>>

UnregisterVaultPolicy(h) ==
    /\ pc[h] = "unpolicy"
    /\ policy' = [policy EXCEPT ![key[h]] = NoRow]
    /\ Goto(h, "commit")
    /\ UNCHANGED <<rows, role, secret, info, sessions, request, queue, damaged>>

-----------------------------------------------------------------------------
(***************************************************************************)
(* Finds: populateVaultInfo asks Vault about every row, and one entry that *)
(* is missing refuses them all.                                            *)
(***************************************************************************)
PopulateVaultInfo(p) ==
    /\ pc[p] = "ask"
    /\ \/ /\ op[p] = "sweep"
          /\ queue' = IF found[p] \subseteq info THEN found[p] ELSE {}
          /\ Answer(p)
       \/ /\ op[p] = "login" /\ found[p] \subseteq info /\ key[p] \in found[p]
          /\ Goto(p, "login")
          /\ UNCHANGED <<request, queue>>
       \/ /\ op[p] = "login"
          /\ ~ (found[p] \subseteq info /\ key[p] \in found[p])
          /\ Answer(p)
          /\ UNCHANGED queue
    /\ UNCHANGED <<rows, vault, damaged>>

\* Vault takes the secret id until it expires, and issues a token.
Login(h) ==
    /\ pc[h] = "login"
    /\ sessions' = sessions \cup {k \in {key[h]} : k \in secret \ due}
    /\ Answer(h)
    /\ UNCHANGED <<rows, policy, role, secret, info, queue, damaged>>

\* A call fails: the transaction is rolled back, what Vault has accepted stays.
Fail(p) ==
    /\ pc[p] \in Faults
    /\ damaged' = damaged \cup {k \in {key[p]} :
         \/ op[p] = "create" /\ pc[p] # "policy"
         \/ op[p] = "remove" /\ pc[p] \notin {"delete", "uninfo"}}
    /\ Answer(p)
    /\ UNCHANGED <<rows, vault, queue>>

\* Time passes.
Expire == \E k \in Rows \ due : /\ due' = due \cup {k}
                                /\ UNCHANGED <<db, used, vault, pc, request,
                                               queue, damaged>>

Step(h) == \/ RegisterVaultPolicy(h) \/ RegisterVaultAppRole(h)
           \/ GenerateAppRoleSecretId(h)
           \/ StoreAppRoleInfo(h) \/ Commit(h)
           \/ DeleteRow(h) \/ RemoveAppRoleInfo(h)
           \/ UnregisterVaultAppRole(h) \/ UnregisterVaultPolicy(h)
           \/ PopulateVaultInfo(h) \/ Login(h)

Request(h) == CreateKey(h) \/ RemoveKey(h) \/ FindKeys(h) \/ RemoveExpired(h)

Next == \/ \E h \in Handlers : Request(h) \/ Step(h) \/ Fail(h)
        \/ FindExpired \/ PopulateVaultInfo(Job) \/ Fail(Job) \/ Expire

Spec == Init /\ [][Next]_vars

-----------------------------------------------------------------------------
Busy(k) == \E p \in Processes : op[p] \in {"create", "remove"} /\ key[p] = k

\* A key that can be listed can be used: its role, its secret id and its entry
\* are in Vault and the policy grants what the row says, however requests and
\* the job meet, unless a removal is at work on it or has failed half-way.
RowUsable ==
    \A k \in Rows \ damaged :
        (\A p \in Deleting(k) : pc[p] = "uninfo") =>
            /\ k \in info /\ k \in secret
            /\ policy[k] = db[k]

\* Nothing stays in Vault of a key without a row, unless its creation has
\* failed half-way.
NothingLeft ==
    \A k \in KeyIds \ (Rows \cup damaged) :
        ~ Busy(k) => k \notin role \cup info /\ policy[k] = NoRow

\* A token issued for a key reads something only while the key has a row, also
\* when requests fail half-way.
ReadsOnlyWithRow ==
    \A k \in sessions : policy[k] # NoRow => db[k] # NoRow

\* A find (a log-in, a run of the job) that Vault refuses meets a key whose
\* removal is at work, is done since, or has failed half-way: creations, and
\* removals that fail before they have changed Vault, never make a find fail.
FindsComplete ==
    \A p \in Processes : pc[p] = "ask" =>
        \A k \in found[p] \ info :
            k \in damaged \/ k \notin Rows \/ Deleting(k) # {}
=============================================================================
