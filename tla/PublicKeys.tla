----------------------------- MODULE PublicKeys -----------------------------
(***************************************************************************)
(* The public keys of one user: the `public-keys' service with the hooks   *)
(* of process-public-key.ts.  A user's requests touch no row of another    *)
(* user, so one user is enough.  The server encrypts secrets for the key   *)
(* whose default flag is on, and tries to keep exactly one such key.  No   *)
(* constraint of the table helps: the hooks change the flags of the other  *)
(* rows through nested calls of the service, and transactionStart gives    *)
(* each nested call a transaction of its own.                              *)
(*                                                                         *)
(* An action is one access to a shared store, as in EncryptKeys.           *)
(***************************************************************************)
EXTENDS Naturals, FiniteSets

CONSTANTS
    Handlers,    \* requests of the user being served at the same time
    KeyIds,      \* ids of rows of public_keys (bounds the number of creates)
    CreateFlags, \* flags that clients ask for in a POST ...
    PatchFlags,  \* ... and in a PATCH ("keep": the flag is not mentioned)
    Removing,    \* clients remove keys
    Faults       \* values of pc at which the handler's next call may fail

\* What the database says of a key: no row, a row, a row with the default flag.
Flags == {"none", "plain", "default"}
PCs   == {"idle", "clear", "select", "write", "ensure", "choose", "promote",
          "register", "unregister", "commit"}
Ops   == {"create", "patch", "remove"}

ASSUME ConstantsAssumption ==
    /\ CreateFlags \subseteq {"plain", "default"}
    /\ PatchFlags \subseteq {"plain", "default", "keep"}
    /\ Removing \in BOOLEAN
    /\ Faults \subseteq PCs \ {"idle"}
    /\ IsFiniteSet(KeyIds)

VARIABLES
    db,         \* db[k]: the committed row of key k
    vault,      \* the keys Vault stores (users.<uid>.user-public-keys.<k>)
    used,       \* ids taken from the sequence
    pc,         \* pc[h]: the call handler h makes next
    op,         \* op[h]: the method of the request
    own,        \* own[h]: the rows that the statement of the request is about
    flag,       \* flag[h]: what the transaction of h makes of these rows
    found,      \* found[h]: the rows that h has found as the request began: those
                \* whose flag it clears, or those that a DELETE will answer with
    target,     \* target[h]: the row that h is about to promote, if any
    disturbed,  \* history variable: whether two requests have met, or a call failed
    missed      \* history variable: keys that a DELETE took without finding them

vars    == <<db, vault, used, pc, op, own, flag, found, target, disturbed, missed>>
request == <<op, own, flag, found, target>>
history == <<disturbed, missed>>

TypeOK ==
    /\ db \in [KeyIds -> Flags]
    /\ vault \subseteq KeyIds
    /\ used \subseteq KeyIds
    /\ pc \in [Handlers -> PCs]
    /\ op \in [Handlers -> Ops]
    /\ own \in [Handlers -> SUBSET KeyIds]
    /\ flag \in [Handlers -> Flags \cup {"keep"}]
    /\ found \in [Handlers -> SUBSET KeyIds]
    /\ target \in [Handlers -> SUBSET KeyIds]
    /\ disturbed \subseteq {"met", "failed"}
    /\ missed \subseteq KeyIds

Init ==
    /\ db = [k \in KeyIds |-> "none"]
    /\ vault = {}
    /\ used = {}
    /\ pc = [h \in Handlers |-> "idle"]
    /\ op = [h \in Handlers |-> "create"]
    /\ own = [h \in Handlers |-> {}]
    /\ flag = [h \in Handlers |-> "none"]
    /\ found = [h \in Handlers |-> {}]
    /\ target = [h \in Handlers |-> {}]
    /\ disturbed = {}
    /\ missed = {}

-----------------------------------------------------------------------------
Rows     == {k \in KeyIds : db[k] # "none"}
Defaults == {k \in KeyIds : db[k] = "default"}

\* The rows that h's transaction has inserted, updated or deleted.
Locked(h) == IF pc[h] \in {"idle", "clear", "select", "write"}
               THEN {} ELSE own[h]

Unlocked(h, rows) == \A g \in Handlers \ {h} : rows \cap Locked(g) = {}

Settled == \A h \in Handlers : pc[h] = "idle"

Goto(h, l) == pc' = [pc EXCEPT ![h] = l]

Start(h, o, rows, f, others, l) ==
    /\ pc[h] = "idle"
    /\ op' = [op EXCEPT ![h] = o]
    /\ own' = [own EXCEPT ![h] = rows]
    /\ flag' = [flag EXCEPT ![h] = f]
    /\ found' = [found EXCEPT ![h] = others]
    /\ Goto(h, l)
    /\ disturbed' = disturbed \cup {m \in {"met"} : ~ Settled}
    /\ UNCHANGED <<target, missed>>

\* The request of h is answered, the context of its hooks is gone.
Answer(h) == /\ Goto(h, "idle")
             /\ op' = [op EXCEPT ![h] = "create"]
             /\ own' = [own EXCEPT ![h] = {}]
             /\ flag' = [flag EXCEPT ![h] = "none"]
             /\ found' = [found EXCEPT ![h] = {}]
             /\ target' = [target EXCEPT ![h] = {}]

-----------------------------------------------------------------------------
(***************************************************************************)
(* The before-hooks.  A request that turns its key on first clears the     *)
(* flags of the others, in a nested transaction that commits at once; the  *)
(* statement is about the rows it finds when it starts.  Any other request *)
(* counts the keys: the first key has to be created with the flag on, and  *)
(* a single key cannot be turned off (BadRequest changes nothing).  The id *)
(* that the INSERT will take from the sequence is chosen when a POST       *)
(* begins; nobody else can know it before the row is committed.            *)
(***************************************************************************)
\* Mutant: the first key may be created with the flag off.
CreateKeyUnchecked(h) ==
    /\ \E k \in KeyIds \ used, f \in CreateFlags :
         /\ used' = used \cup {k}
         /\ \/ f = "default" /\ Start(h, "create", {k}, f, Defaults, "clear")
            \/ f = "plain" /\ Start(h, "create", {k}, f, {}, "write")
    /\ UNCHANGED <<db, vault>>

CreateKey(h) ==
    /\ \E k \in KeyIds \ used, f \in CreateFlags :
         /\ used' = used \cup {k}
         /\ \/ f = "default" /\ Start(h, "create", {k}, f, Defaults, "clear")
            \/ f = "plain" /\ Rows # {} /\ Start(h, "create", {k}, f, {}, "write")
    /\ UNCHANGED <<db, vault>>

\* The key of a PATCH is one that the client knows.
PatchKey(h) ==
    /\ \E k \in Rows, f \in PatchFlags :
         \/ f = "default" /\ Start(h, "patch", {k}, f, Defaults \ {k}, "clear")
         \/ f = "plain" /\ Rows # {k} /\ Start(h, "patch", {k}, f, {}, "write")
         \/ f = "keep" /\ Start(h, "patch", {k}, f, {}, "write")
    /\ UNCHANGED <<db, vault, used>>

\* DELETE of one key, or of all that match the user: the service finds the rows
\* it will answer with; the DELETE is a later statement with the same query.
RemoveKeys(h) ==
    /\ Removing
    /\ \/ \E k \in Rows : Start(h, "remove", {k}, "none", {k}, "write")
       \/ Start(h, "remove", {}, "none", Rows, "select")
    /\ UNCHANGED <<db, vault, used>>

UpdateOtherRecord(h) ==
    /\ pc[h] = "clear"
    /\ Unlocked(h, found[h])
    /\ db' = [k \in KeyIds |-> IF k \in found[h] \cap Defaults THEN "plain"
                                                               ELSE db[k]]
    /\ found' = [found EXCEPT ![h] = {}]
    /\ Goto(h, "write")
    /\ UNCHANGED <<vault, used, op, own, flag, target, history>>

-----------------------------------------------------------------------------
(***************************************************************************)
(* The statement of the request itself.                                    *)
(***************************************************************************)
InsertRow(h) ==
    /\ pc[h] = "write" /\ op[h] = "create"
    /\ Goto(h, "ensure")
    /\ UNCHANGED <<db, vault, used, request, history>>

\* A PATCH that does not mention the flag returns the one of the row.
UpdateRow(h) ==
    /\ pc[h] = "write" /\ op[h] = "patch"
    /\ Unlocked(h, own[h])
    /\ \E k \in own[h] :
         \/ /\ db[k] = "none"
            /\ Answer(h)
         \/ /\ db[k] # "none"
            /\ flag' = [flag EXCEPT ![h] = IF @ = "keep" THEN db[k] ELSE @]
            /\ Goto(h, "ensure")
            /\ UNCHANGED <<op, own, found, target>>
    /\ UNCHANGED <<db, vault, used, history>>

\* The DELETE of all keys begins: it is about the rows committed by now, those
\* that have come since the find included.  It takes the ones that are still
\* there once it has their locks.
SelectRows(h) ==
    /\ pc[h] = "select"
    /\ own' = [own EXCEPT ![h] = Rows]
    /\ Goto(h, "write")
    /\ UNCHANGED <<db, vault, used, op, flag, found, target, history>>

DeleteRows(h) ==
    /\ pc[h] = "write" /\ op[h] = "remove"
    /\ Unlocked(h, own[h])
    /\ own' = [own EXCEPT ![h] = @ \cap Rows]
    /\ Goto(h, "ensure")
    /\ UNCHANGED <<db, vault, used, op, flag, found, target, history>>

-----------------------------------------------------------------------------
(***************************************************************************)
(* The after-hooks.  If no key has the flag as far as h's transaction can  *)
(* see, ensureDefaultRecord gives it to the key updated last (here: to any *)
(* other key), again in a nested transaction.  Then Vault is told.         *)
(***************************************************************************)
\* Mutant: creates are not registered in Vault.
AfterEnsureUnregistered(h) ==
    Goto(h, IF op[h] = "remove" THEN "unregister" ELSE "commit")

AfterEnsure(h) == Goto(h, CASE op[h] = "create" -> "register"
                            [] op[h] = "remove" -> "unregister"
                            [] op[h] = "patch"  -> "commit")

\* Mutant: the count runs outside the transaction.
CountCommittedRecords(h) ==
    /\ pc[h] = "ensure"
    /\ IF Defaults # {} \/ flag[h] = "default" THEN AfterEnsure(h)
                                               ELSE Goto(h, "choose")
    /\ UNCHANGED <<db, vault, used, request, history>>

\* Mutant: the row of the request itself is not counted.
CountOtherRecords(h) ==
    /\ pc[h] = "ensure"
    /\ IF Defaults \ own[h] # {} THEN AfterEnsure(h) ELSE Goto(h, "choose")
    /\ UNCHANGED <<db, vault, used, request, history>>

CountDefaultRecords(h) ==
    /\ pc[h] = "ensure"
    /\ IF Defaults \ own[h] # {} \/ flag[h] = "default" THEN AfterEnsure(h)
                                                        ELSE Goto(h, "choose")
    /\ UNCHANGED <<db, vault, used, request, history>>

ChooseDefaultRecord(h) ==
    /\ pc[h] = "choose"
    /\ \/ /\ Rows \subseteq own[h]
          /\ AfterEnsure(h)
          /\ UNCHANGED target
       \/ /\ \E k \in Rows \ own[h] : target' = [target EXCEPT ![h] = {k}]
          /\ Goto(h, "promote")
    /\ UNCHANGED <<db, vault, used, op, own, flag, found, history>>

\* The nested PATCH waits for the row; NotFound ends the request.
EnsureDefaultRecord(h) ==
    /\ pc[h] = "promote"
    /\ Unlocked(h, target[h])
    /\ \E k \in target[h] :
         \/ /\ db[k] = "none"
            /\ Answer(h)
            /\ UNCHANGED db
         \/ /\ db[k] # "none"
            /\ db' = [db EXCEPT ![k] = "default"]
            /\ AfterEnsure(h)
            /\ target' = [target EXCEPT ![h] = {}]
            /\ UNCHANGED <<op, own, flag, found>>
    /\ UNCHANGED <<vault, used, history>>

RegisterPublicKey(h) ==
    /\ pc[h] = "register"
    /\ vault' = vault \cup own[h]
    /\ Goto(h, "commit")
    /\ UNCHANGED <<db, used, request, history>>

\* What the DELETE answers with are the rows that were found before it.
UnregisterPublicKey(h) ==
    /\ pc[h] = "unregister"
    /\ vault' = vault \ found[h]
    /\ Goto(h, "commit")
    /\ UNCHANGED <<db, used, request, history>>

Commit(h) ==
    /\ pc[h] = "commit"
    /\ db' = [k \in KeyIds |-> IF k \in own[h] THEN flag[h] ELSE db[k]]
    /\ Answer(h)
    /\ missed' = IF op[h] = "remove" THEN missed \cup (own[h] \ found[h])
                                    ELSE missed
    /\ UNCHANGED <<vault, used, disturbed>>

\* A call fails, or processPublicKey refuses the key that a POST is about to
\* insert: rollback.  Of the removals that Promise.all has started some may be
\* done.
Fail(h) ==
    /\ pc[h] \in Faults
    /\ \E gone \in SUBSET (IF pc[h] = "unregister" THEN found[h] ELSE {}) :
         vault' = vault \ gone
    /\ Answer(h)
    /\ disturbed' = disturbed \cup {"failed"}
    /\ UNCHANGED <<db, used, missed>>

Step(h) == \/ UpdateOtherRecord(h)
           \/ InsertRow(h) \/ UpdateRow(h) \/ SelectRows(h) \/ DeleteRows(h)
           \/ CountDefaultRecords(h) \/ ChooseDefaultRecord(h)
           \/ EnsureDefaultRecord(h)
           \/ RegisterPublicKey(h) \/ UnregisterPublicKey(h)
           \/ Commit(h)

Next == \E h \in Handlers : \/ CreateKey(h) \/ PatchKey(h) \/ RemoveKeys(h)
                            \/ Step(h) \/ Fail(h)

Spec == Init /\ [][Next]_vars

\* The lock queues of PostgreSQL are fair, and Node resumes every handler whose
\* call has returned.  Clients need not send anything.
FairSpec == Spec /\ \A h \in Handlers : SF_vars(Step(h))

-----------------------------------------------------------------------------
(***************************************************************************)
(* What the keys are for their user.                                       *)
(***************************************************************************)
\* screen-621.md: a key that is turned on turns the others off.  So between
\* requests no two keys have the flag.
AtMostOneDefault == Settled => \A j, k \in Defaults : j = k

\* 'The default public key must be registered.': between requests, a user who
\* has keys has one to encrypt secrets for.
DefaultRegistered == Settled /\ Rows # {} => Defaults # {}

\* Both hold after requests one at a time that did not fail.
OneDefaultUnmet == disturbed # {} \/ (AtMostOneDefault /\ DefaultRegistered)

\* h has cleared the other flags and is going to commit a default key.
Replacing(h) ==
    /\ flag[h] = "default"
    /\ pc[h] \in {"write", "ensure", "choose", "promote", "register", "commit"}

\* The default is only ever missing while a request that replaces it runs,
\* however requests that create, turn on or edit keys are interleaved.
DefaultOrReplacing ==
    Rows # {} => Defaults # {} \/ \E h \in Handlers : Replacing(h)

\* A key of the database can be fetched from Vault, except while its removal
\* runs: it is registered before its row is committed.
KeyInVault ==
    \A k \in Rows \ vault : \E h \in Handlers : k \in Locked(h) /\ op[h] = "remove"

\* Vault keeps nothing of a key without a row, except while a create runs, and
\* except for a key committed after a DELETE of all keys has looked for them and
\* before its statement begins: unregisterPublicKey goes by what was found.
NothingLeftInVault ==
    \A k \in vault \ Rows : k \in missed \/ \E h \in Handlers : k \in Locked(h)

\* Both together: the table public_keys and Vault have the same keys, except for
\* those that a request is at work on and those a DELETE of all keys has missed.
VaultMatches == KeyInVault /\ NothingLeftInVault

\* h's next statement waits for a row that another request has locked.
Waiting(h) == ~ Unlocked(h, CASE pc[h] = "clear" -> found[h]
                              [] pc[h] = "promote" -> target[h]
                              [] pc[h] = "write" /\ op[h] # "create" -> own[h]
                              [] OTHER -> {})

\* Requests never wait for each other in a circle: some request at work goes on.
\* PostgreSQL cannot see such a circle, for the locks are held by transactions
\* that are idle while their nested calls wait.
NoCyclicWait == (\A h \in Handlers : pc[h] # "idle" => Waiting(h)) => Settled

\* Every request is answered.
EveryRequestAnswered ==
    \A h \in Handlers : pc[h] # "idle" ~> pc[h] = "idle"
=============================================================================
