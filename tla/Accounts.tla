------------------------------ MODULE Accounts ------------------------------
(***************************************************************************)
(* Users and their log-ins: the `users' service with processUsers, the     *)
(* Shibboleth front end (index.php), the strategies `local' and            *)
(* `shibboleth', and the scheduled clean-up of the cubbyhole.              *)
(*                                                                         *)
(* A user is a row with an id, and in Vault a policy named after the id.   *)
(* A local user has also a userpass account, named after the user; a user  *)
(* of Shibboleth an AppRole, named after the id.  The front end hands the  *)
(* browser a wrapping token around a secret id of the role, and leaves the *)
(* rest of what the log-in needs in the cubbyhole under the token's name.  *)
(*                                                                         *)
(* An action is one access to a shared store, as in EncryptKeys.  What a   *)
(* session is good for once it exists is the matter of module Browser.     *)
(***************************************************************************)
EXTENDS Naturals, FiniteSets

CONSTANTS
    Handlers,   \* requests being served at the same time
    Names,      \* names of users
    Uids,       \* ids of users (bounds the number of rows)
    Wraps,      \* wrapping tokens (bounds the number of Shibboleth log-ins)
    Passwords,
    Faults,     \* values of pc at which the handler's next call may fail
    NoUid, NoName, NoWrap, NoPassword, NoRow, NoAccount, NoEntry

Row     == [name : Names, local : BOOLEAN, deleted : BOOLEAN]
Account == [uid : Uids, password : Passwords]
Entry   == [name : Names, uid : Uids]
Session == [uid : Uids \cup {NoUid}, vault : Uids, wrap : Wraps \cup {NoWrap}]

\* Mutant: the whole name.
WholeName(w) == w

\* x.slice(0, -1): the name of an entry without its last character.
Cut(w) == <<w, "cut">>

PCs == {"idle", "insert", "policy", "userpass", "commit", "unuserpass", "unpolicy",
        "check", "set", "role", "wrap", "store", "uncubby", "unwrap",
        "approle", "login"}
Ops == {"none", "create", "remove", "password", "frontend", "shibboleth", "local"}

ASSUME ConstantsAssumption ==
    /\ NoUid \notin Uids /\ NoWrap \notin Wraps /\ NoName \notin Names
    /\ NoPassword \notin Passwords
    /\ NoRow \notin Row /\ NoAccount \notin Account /\ NoEntry \notin Entry
    /\ Faults \subseteq PCs \ {"idle"}
    /\ \A w \in Wraps : <<w, "cut">> \notin Wraps   \* tokens have one length

VARIABLES
    rows,       \* rows[i]: the committed row with id i
    used,       \* ids taken from the sequence
    policies,   \* ids i with a policy user-<i>
    userpass,   \* userpass[n]: the account of name n
    roles,      \* ids i with an AppRole shibboleth-<i>
    wrapped,    \* wrapped[w]: the id whose secret id the token w still wraps
    cubby,      \* cubby[w]: the entry for w in the cubbyhole
    cookies,    \* wrapping tokens that browsers have been given
    sessions,   \* log-ins answered: the user's row, the id whose policy the
                \* Vault token has, and the wrapping token that was used
    pc,         \* pc[h]: the call handler h makes next
    op, name, uid, wrap, password, \* its request
    queue,      \* names of entries that the clean-up has still to remove
    \* History variables: ids with a request that failed half-way; ids whose
    \* policy, and tokens whose entry, Vault refused to store; tokens whose
    \* entry a failed log-in has taken; the password last agreed with a user.
    damaged, refused, lost, told

vault   == <<policies, userpass, roles, wrapped, cubby>>
request == <<op, name, uid, wrap, password>>
history == <<damaged, refused, lost, told>>
vars    == <<rows, used, vault, cookies, sessions, pc, request, queue, history>>

TypeOK ==
    /\ rows \in [Uids -> Row \cup {NoRow}] /\ used \subseteq Uids
    /\ policies \subseteq Uids /\ roles \subseteq Uids
    /\ userpass \in [Names -> Account \cup {NoAccount}]
    /\ wrapped \in [Wraps -> Uids \cup {NoUid}]
    /\ cubby \in [Wraps -> Entry \cup {NoEntry}]
    /\ cookies \subseteq Wraps /\ sessions \subseteq Session
    /\ pc \in [Handlers -> PCs]
    /\ op \in [Handlers -> Ops]
    /\ name \in [Handlers -> Names \cup {NoName}]
    /\ uid \in [Handlers -> Uids \cup {NoUid}]
    /\ wrap \in [Handlers -> Wraps \cup {NoWrap}]
    /\ password \in [Handlers -> Passwords \cup {NoPassword}]
    /\ queue \subseteq {Cut(w) : w \in Wraps}
    /\ damaged \subseteq Uids /\ lost \subseteq Wraps
    /\ refused \subseteq Uids \cup Wraps
    /\ told \in [Uids -> Passwords \cup {NoPassword}]

Init ==
    /\ rows = [i \in Uids |-> NoRow] /\ used = {}
    /\ policies = {} /\ roles = {}
    /\ userpass = [n \in Names |-> NoAccount]
    /\ wrapped = [w \in Wraps |-> NoUid]
    /\ cubby = [w \in Wraps |-> NoEntry]
    /\ cookies = {} /\ sessions = {}
    /\ pc = [h \in Handlers |-> "idle"]
    /\ op = [h \in Handlers |-> "none"]
    /\ name = [h \in Handlers |-> NoName]
    /\ uid = [h \in Handlers |-> NoUid]
    /\ wrap = [h \in Handlers |-> NoWrap]
    /\ password = [h \in Handlers |-> NoPassword]
    /\ queue = {} /\ damaged = {} /\ refused = {} /\ lost = {}
    /\ told = [i \in Uids |-> NoPassword]

-----------------------------------------------------------------------------
Goto(h, l) == pc' = [pc EXCEPT ![h] = l]

Start(h, o, n, i, w, p, l) ==
    /\ pc[h] = "idle"
    /\ op' = [op EXCEPT ![h] = o]
    /\ name' = [name EXCEPT ![h] = n]
    /\ uid' = [uid EXCEPT ![h] = i]
    /\ wrap' = [wrap EXCEPT ![h] = w]
    /\ password' = [password EXCEPT ![h] = p]
    /\ Goto(h, l)

Answer(h) == /\ Goto(h, "idle")
             /\ op' = [op EXCEPT ![h] = "none"]
             /\ name' = [name EXCEPT ![h] = NoName]
             /\ uid' = [uid EXCEPT ![h] = NoUid]
             /\ wrap' = [wrap EXCEPT ![h] = NoWrap]
             /\ password' = [password EXCEPT ![h] = NoPassword]

\* softDelete: the rows that requests see.
Live == {i \in Uids : rows[i] # NoRow /\ ~ rows[i].deleted}

RowsOf(n) == {i \in Live : rows[i].name = n}

\* A transaction that has inserted or changed a row holds its lock, and its
\* entry in the unique index of the names that are not deleted.
Locked(n) ==
    \E h \in Handlers :
        /\ name[h] = n
        /\ \/ op[h] \in {"create", "remove", "password"}
           \/ op[h] = "frontend" /\ uid[h] # NoUid /\ rows[uid[h]] = NoRow

\* POST /users by a system administrator, until the row is inserted.
CreateUser(h) ==
    \E n \in Names, i \in Uids \ used, p \in Passwords :
        /\ RowsOf(n) = {} /\ ~ Locked(n)
        /\ Start(h, "create", n, i, NoWrap, p, "policy")
        /\ used' = used \cup {i}
        /\ UNCHANGED <<rows, vault, cookies, sessions, queue, history>>

\* DELETE /users/<i> by a system administrator, until the row is marked.
RemoveUser(h) ==
    \E i \in Live :
        /\ ~ Locked(rows[i].name)
        /\ Start(h, "remove", rows[i].name, i, NoWrap, NoPassword, "unuserpass")
        /\ UNCHANGED <<rows, used, vault, cookies, sessions, queue, history>>

\* Mutant: the new password is sent to Vault without a transaction.
PatchAtOnce(h) ==
    \E i \in Live, p \in Passwords, l \in {"check", "set"} :
        /\ Start(h, "password", rows[i].name, i, NoWrap, p, l)
        /\ UNCHANGED <<rows, used, vault, cookies, sessions, queue, history>>

\* PATCH /users/<i> with a password, by the user or by an administrator, who
\* is not asked for the current one.
PatchPassword(h) ==
    \E i \in Live, p \in Passwords, l \in {"check", "set"} :
        /\ ~ Locked(rows[i].name)
        /\ Start(h, "password", rows[i].name, i, NoWrap, p, l)
        /\ UNCHANGED <<rows, used, vault, cookies, sessions, queue, history>>

-----------------------------------------------------------------------------
(***************************************************************************)
(* processUsers                                                            *)
(***************************************************************************)
\* createPolicy of processUsers, create_policy of the front end.
CreatePolicy(h) ==
    /\ pc[h] = "policy"
    /\ policies' = policies \cup {uid[h]}
    /\ Goto(h, IF op[h] = "create" THEN "userpass" ELSE "role")
    /\ UNCHANGED <<rows, used, userpass, roles, wrapped, cubby, cookies, sessions,
                   request, queue, history>>

\* vault.update is a PUT and a GET: the policy stays when the GET fails.
PolicyHalfDone(h) ==
    /\ pc[h] = "policy" /\ pc[h] \in Faults /\ op[h] = "create"
    /\ policies' = policies \cup {uid[h]}
    /\ damaged' = damaged \cup {uid[h]}
    /\ Answer(h)
    /\ UNCHANGED <<rows, used, userpass, roles, wrapped, cubby, cookies, sessions,
                   queue, refused, lost, told>>

CreateVaultUser(h) ==
    /\ pc[h] = "userpass"
    /\ userpass' = [userpass EXCEPT ![name[h]] =
                      [uid |-> uid[h], password |-> password[h]]]
    /\ Goto(h, "commit")
    /\ UNCHANGED <<rows, used, policies, roles, wrapped, cubby, cookies, sessions,
                   request, queue, history>>

\* createVaultUser removes the policy again when Vault refuses the account.
UndoPolicy(h) ==
    /\ pc[h] = "userpass" /\ pc[h] \in Faults
    /\ Goto(h, "unpolicy")
    /\ UNCHANGED <<rows, used, vault, cookies, sessions, request, queue, history>>

\* Vault has the account, and the answer is lost: the policy goes all the same.
AccountHalfDone(h) ==
    /\ pc[h] = "userpass" /\ pc[h] \in Faults
    /\ userpass' = [userpass EXCEPT ![name[h]] =
                      [uid |-> uid[h], password |-> password[h]]]
    /\ damaged' = damaged \cup {uid[h]}
    /\ Goto(h, "unpolicy")
    /\ UNCHANGED <<rows, used, policies, roles, wrapped, cubby, cookies, sessions,
                   request, queue, refused, lost, told>>

RemoveVaultUser(h) ==
    /\ pc[h] = "unuserpass"
    /\ userpass' = [userpass EXCEPT ![name[h]] = NoAccount]
    /\ Goto(h, "unpolicy")
    /\ UNCHANGED <<rows, used, policies, roles, wrapped, cubby, cookies, sessions,
                   request, queue, history>>

\* Mutant: the policy of a removed user stays.
LeavePolicy(h) ==
    /\ pc[h] = "unpolicy"
    /\ \/ op[h] = "remove" /\ Goto(h, "commit") /\ UNCHANGED request
       \/ op[h] = "create" /\ Answer(h)
    /\ UNCHANGED <<rows, used, vault, cookies, sessions, queue, history>>

RemovePolicy(h) ==
    /\ pc[h] = "unpolicy"
    /\ policies' = policies \ {uid[h]}
    /\ \/ op[h] = "remove" /\ Goto(h, "commit") /\ UNCHANGED request
       \/ op[h] = "create" /\ Answer(h)
    /\ UNCHANGED <<rows, used, userpass, roles, wrapped, cubby, cookies, sessions,
                   queue, history>>

\* Vault takes the current password, or the request ends.
CheckCurrentPassword(h) ==
    /\ pc[h] = "check"
    /\ \/ userpass[name[h]] # NoAccount /\ Goto(h, "set") /\ UNCHANGED request
       \/ Answer(h)
    /\ UNCHANGED <<rows, used, vault, cookies, sessions, queue, history>>

\* Vault changes the password of an account, and creates none.
ChangePassword(h) ==
    /\ pc[h] = "set"
    /\ \/ /\ userpass[name[h]] # NoAccount
          /\ userpass' = [userpass EXCEPT ![name[h]].password = password[h]]
          /\ Goto(h, "commit")
          /\ UNCHANGED request
       \/ /\ userpass[name[h]] = NoAccount
          /\ Answer(h)
          /\ UNCHANGED userpass
    /\ UNCHANGED <<rows, used, policies, roles, wrapped, cubby, cookies, sessions,
                   queue, history>>

\* The end of every transaction, with the answer.
Commit(h) ==
    LET i == uid[h]
    IN  /\ pc[h] = "commit"
        /\ rows' = CASE op[h] = "remove" -> [rows EXCEPT ![i].deleted = TRUE]
                     [] op[h] # "remove" /\ rows[i] = NoRow ->
                          [rows EXCEPT ![i] = [name |-> name[h], deleted |-> FALSE,
                                               local |-> op[h] = "create"]]
                     [] OTHER -> rows
        /\ told' = IF op[h] \in {"create", "password"}
                     THEN [told EXCEPT ![i] = password[h]] ELSE told
        /\ cookies' = cookies \cup ({wrap[h]} \ {NoWrap})
        /\ Answer(h)
        /\ UNCHANGED <<used, vault, sessions, queue, damaged, refused, lost>>

-----------------------------------------------------------------------------
(***************************************************************************)
(* index.php                                                               *)
(***************************************************************************)
\* get_approle: the row of the user, if there is one that is not local.
FindUidByName(h) ==
    \E n \in Names :
        LET found == {i \in RowsOf(n) : ~ rows[i].local}
        IN  /\ \/ \E i \in found : Start(h, "frontend", n, i, NoWrap, NoPassword, "wrap")
               \/ /\ found = {}
                  /\ Start(h, "frontend", n, NoUid, NoWrap, NoPassword, "insert")
            /\ UNCHANGED <<rows, used, vault, cookies, sessions, queue, history>>

\* Mutant: the conflict is not noticed, the new id is used.
StoreEppnAnyway(h) ==
    /\ pc[h] = "insert"
    /\ \E i \in Uids \ used :
         /\ used' = used \cup {i}
         /\ uid' = [uid EXCEPT ![h] = i]
         /\ Goto(h, "policy")
    /\ UNCHANGED <<rows, vault, cookies, sessions, op, name, wrap, password, queue,
                   history>>

\* ON CONFLICT DO NOTHING gives no id back: the page ends with an error.
StoreEppnDb(h) ==
    /\ pc[h] = "insert" /\ ~ Locked(name[h])
    /\ \E i \in Uids \ used :
         /\ used' = used \cup {i}
         /\ \/ /\ RowsOf(name[h]) = {}
               /\ uid' = [uid EXCEPT ![h] = i]
               /\ Goto(h, "policy")
               /\ UNCHANGED <<op, name, wrap, password>>
            \/ RowsOf(name[h]) # {} /\ Answer(h)
    /\ UNCHANGED <<rows, vault, cookies, sessions, queue, history>>

\* vault_api does not look at the status: without a policy the front end goes on.
PolicyRefused(h) ==
    /\ pc[h] = "policy" /\ pc[h] \in Faults /\ op[h] = "frontend"
    /\ refused' = refused \cup {uid[h]}
    /\ Goto(h, "role")
    /\ UNCHANGED <<rows, used, vault, cookies, sessions, request, queue, damaged,
                   lost, told>>

CreateApprole(h) ==
    /\ pc[h] = "role"
    /\ roles' = roles \cup {uid[h]}
    /\ Goto(h, "wrap")
    /\ UNCHANGED <<rows, used, policies, userpass, wrapped, cubby, cookies, sessions,
                   request, queue, history>>

\* A Vault that refuses (the role is missing) makes the page end with an error.
GenerateSecretId(h) ==
    /\ pc[h] = "wrap"
    /\ uid[h] \in roles
    /\ \E w \in Wraps :
         /\ wrapped[w] = NoUid /\ cubby[w] = NoEntry
         /\ w \notin cookies \cup {wrap[g] : g \in Handlers}
         /\ wrapped' = [wrapped EXCEPT ![w] = uid[h]]
         /\ wrap' = [wrap EXCEPT ![h] = w]
    /\ Goto(h, "store")
    /\ UNCHANGED <<rows, used, policies, userpass, roles, cubby, cookies, sessions,
                   op, name, uid, password, queue, history>>

\* The entry, or an error status that nobody looks at.
StoreApproleInfo(h) ==
    /\ pc[h] = "store"
    /\ \/ /\ cubby' = [cubby EXCEPT ![wrap[h]] = [name |-> name[h], uid |-> uid[h]]]
          /\ UNCHANGED refused
       \/ /\ pc[h] \in Faults
          /\ refused' = refused \cup {wrap[h]}
          /\ UNCHANGED cubby
    /\ Goto(h, "commit")
    /\ UNCHANGED <<rows, used, policies, userpass, roles, wrapped, cookies, sessions,
                   request, queue, damaged, lost, told>>

-----------------------------------------------------------------------------
(***************************************************************************)
(* ShibbolethStrategy                                                      *)
(***************************************************************************)
\* POST /authentication with a wrapping token, as often as the browser likes.
\* The id in uid[h] stands for the role id of the entry.
GetShibbolethParams(h) ==
    \E w \in cookies :
        /\ cubby[w] # NoEntry
        /\ Start(h, "shibboleth", cubby[w].name, cubby[w].uid, w, NoPassword, "uncubby")
        /\ UNCHANGED <<rows, used, vault, cookies, sessions, queue, history>>

RemoveShibbolethParams(h) ==
    /\ pc[h] = "uncubby"
    /\ cubby' = [cubby EXCEPT ![wrap[h]] = NoEntry]
    /\ Goto(h, "unwrap")
    /\ UNCHANGED <<rows, used, policies, userpass, roles, wrapped, cookies, sessions,
                   request, queue, history>>

\* Mutant: the secret id stays in the token when it is read.
ReadSecretId(h) ==
    /\ pc[h] = "unwrap"
    /\ \/ wrapped[wrap[h]] = NoUid /\ Answer(h)
       \/ wrapped[wrap[h]] # NoUid /\ Goto(h, "approle") /\ UNCHANGED request
    /\ UNCHANGED <<rows, used, vault, cookies, sessions, queue, history>>

\* getSecretId: a token gives its secret id once, and only while it lasts.
GetSecretId(h) ==
    /\ pc[h] = "unwrap"
    /\ \/ wrapped[wrap[h]] = NoUid /\ Answer(h)
       \/ wrapped[wrap[h]] # NoUid /\ Goto(h, "approle") /\ UNCHANGED request
    /\ wrapped' = [wrapped EXCEPT ![wrap[h]] = NoUid]
    /\ UNCHANGED <<rows, used, policies, userpass, roles, cubby, cookies, sessions,
                   queue, history>>

\* vaultLogin, then findEntity; a user without a row makes a session of nobody.
VaultLogin(h) ==
    /\ pc[h] = "approle" /\ uid[h] \in roles
    /\ \E i \in IF RowsOf(name[h]) = {} THEN {NoUid} ELSE RowsOf(name[h]) :
         sessions' = sessions \cup {[uid |-> i, vault |-> uid[h], wrap |-> wrap[h]]}
    /\ Answer(h)
    /\ UNCHANGED <<rows, used, vault, cookies, queue, history>>

-----------------------------------------------------------------------------
(***************************************************************************)
(* SscfgLocalStrategy                                                      *)
(***************************************************************************)
FindEntity(h) ==
    \E i \in Live :
        /\ Start(h, "local", rows[i].name, i, NoWrap, NoPassword, "login")
        /\ UNCHANGED <<rows, used, vault, cookies, sessions, queue, history>>

\* Vault takes the password, or answers with an error.
Login(h) ==
    /\ pc[h] = "login"
    /\ sessions' = sessions \cup
         {[uid |-> uid[h], vault |-> a.uid, wrap |-> NoWrap] :
             a \in {userpass[name[h]]} \ {NoAccount}}
    /\ Answer(h)
    /\ UNCHANGED <<rows, used, vault, cookies, queue, history>>

-----------------------------------------------------------------------------
(***************************************************************************)
(* cleanupCubbyhole: the filter that should keep tokens still in use is    *)
(* an async function, so that every entry is taken for expired.  But each  *)
(* name is cut, as if it were that of a directory with a slash at its end, *)
(* and what is removed under the name is an entry that does not exist.     *)
(***************************************************************************)
ListCubbyhole ==
    /\ queue = {}
    /\ queue' = {Cut(w) : w \in {v \in Wraps : cubby[v] # NoEntry}}
    /\ UNCHANGED <<rows, used, vault, cookies, sessions, pc, request, history>>

RemoveEntry ==
    \E n \in queue :
        /\ queue' = queue \ {n}
        /\ cubby' = [w \in Wraps |-> IF w = n THEN NoEntry ELSE cubby[w]]
        /\ UNCHANGED <<rows, used, policies, userpass, roles, wrapped, cookies,
                       sessions, pc, request, history>>

-----------------------------------------------------------------------------
\* A wrapping token, and the secret id in it, last three minutes.
Expire ==
    \E w \in Wraps :
        /\ wrapped[w] # NoUid
        /\ wrapped' = [wrapped EXCEPT ![w] = NoUid]
        /\ UNCHANGED <<rows, used, policies, userpass, roles, cubby, cookies,
                       sessions, pc, request, queue, history>>

\* A call fails: the row is rolled back, what Vault has accepted stays.  The
\* header with the token is sent also when the commit fails.
Fail(h) ==
    /\ pc[h] \in Faults \ {"userpass"}
    /\ damaged' = damaged \cup {i \in {uid[h]} :
         \/ op[h] = "create" /\ pc[h] \in {"unpolicy", "commit"}
         \/ op[h] = "remove" /\ pc[h] # "unuserpass"
         \/ op[h] = "password" /\ pc[h] = "commit"
         \/ op[h] = "frontend" /\ i # NoUid /\ rows[i] = NoRow /\ pc[h] # "policy"}
    /\ cookies' = cookies \cup {w \in {wrap[h]} : op[h] = "frontend" /\ pc[h] = "commit"}
    /\ lost' = lost \cup {w \in {wrap[h]} : op[h] = "shibboleth" /\ pc[h] = "unwrap"}
    /\ Answer(h)
    /\ UNCHANGED <<rows, used, vault, sessions, queue, refused, told>>

Request(h) == \/ CreateUser(h) \/ RemoveUser(h) \/ PatchPassword(h)
              \/ FindUidByName(h) \/ GetShibbolethParams(h) \/ FindEntity(h)

Step(h) == \/ CreatePolicy(h) \/ PolicyHalfDone(h)
           \/ CreateVaultUser(h) \/ AccountHalfDone(h) \/ UndoPolicy(h)
           \/ RemoveVaultUser(h) \/ RemovePolicy(h)
           \/ CheckCurrentPassword(h) \/ ChangePassword(h) \/ Commit(h)
           \/ StoreEppnDb(h) \/ PolicyRefused(h) \/ CreateApprole(h)
           \/ GenerateSecretId(h) \/ StoreApproleInfo(h)
           \/ RemoveShibbolethParams(h) \/ GetSecretId(h) \/ VaultLogin(h) \/ Login(h)

Next == \/ \E h \in Handlers : Request(h) \/ Step(h) \/ Fail(h)
        \/ ListCubbyhole \/ RemoveEntry \/ Expire

Spec == Init /\ [][Next]_vars

-----------------------------------------------------------------------------
\* A live user can log in: a local one has the account of the name with the
\* policy of the id, and the password is the one the service has last agreed to;
\* one of Shibboleth has role and policy.  Exceptions are a request at work on
\* the user, one that failed half-way, a local account of the name that a
\* failed request has left, and a policy that Vault refused to the front end.
LiveUsersCanLogIn ==
    \A i \in Live \ damaged :
        LET n == rows[i].name
        IN  ~ Locked(n) =>
              IF rows[i].local
                THEN i \in policies /\ userpass[n] = [uid |-> i, password |-> told[i]]
                ELSE i \in roles /\ i \in policies \cup refused

\* Nothing opens the data of a removed user any more: neither the policy nor
\* the account is left, unless the removal has failed half-way, or the creation
\* after Vault had taken the account.
RemovedForGood ==
    \A i \in used \ (Live \cup damaged) :
        (\A h \in Handlers : uid[h] = i => op[h] \in {"local", "shibboleth"}) =>
            /\ i \notin policies
            /\ \A n \in Names : userpass[n] # NoAccount => userpass[n].uid # i

\* The Vault token of a session that is accepted (its user is live) never opens
\* the data of another live user.
OwnData ==
    \A s \in sessions : s.uid \in Live /\ s.vault \in Live => s.vault = s.uid

\* A browser that has got a wrapping token can log in with it: while the token
\* lasts its entry is in the cubbyhole, unless a log-in is using it or has
\* failed, or Vault refused the entry.  The clean-up, which takes every token for
\* an expired one, takes none of them away.
TokenIsGood ==
    \A w \in cookies :
        /\ wrapped[w] # NoUid /\ w \notin refused \cup lost
        /\ \A h \in Handlers : wrap[h] # w
        => cubby[w] # NoEntry

\* A wrapping token is worth one log-in, however often and at the same time the
\* browser sends it: who has a secret id from it is the only one, and nobody has
\* logged in with it before.
TokenUsedOnce ==
    \A h \in Handlers : pc[h] = "approle" =>
        /\ \A s \in sessions : s.wrap # wrap[h]
        /\ \A g \in Handlers \ {h} : pc[g] = "approle" => wrap[g] # wrap[h]
=============================================================================
