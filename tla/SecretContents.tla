---------------------------- MODULE SecretContents --------------------------
(***************************************************************************)
(* Contents that are secret or not: the `attach-files' and                 *)
(* `user-parameters' services with their hooks.                            *)
(*                                                                         *)
(* The row of a record holds its content, or, when the record is secret,   *)
(* Vault holds it and the row holds Null.  A PATCH of the flag moves the   *)
(* content.  Both services do the same, except that the row of a user      *)
(* parameter also says whether the content is a text, and that its user    *)
(* has to be a member when it is created.                                  *)
(*                                                                         *)
(* An action is one access to a shared store, as in EncryptKeys.           *)
(***************************************************************************)
EXTENDS Naturals, FiniteSets

CONSTANTS
    Handlers,       \* requests being served at the same time
    AttachFiles, UserParameters,    \* ids of records (bound the creations)
    Texts, Binaries,                \* contents
    Faults,         \* values of pc at which the handler's next call may fail
    Null,           \* no content in a row, no entry in Vault
    Absent,         \* a field that a request does not give
    NoRow, NoId

Items    == AttachFiles \cup UserParameters
Contents == Texts \cup Binaries
Row == [secret : BOOLEAN, content : Contents \cup {Null}, isBinary : BOOLEAN]
Data == [secret : BOOLEAN \cup {Absent}, content : Contents \cup {Null, Absent},
         isBinary : BOOLEAN \cup {Absent}]
Nothing == [secret |-> Absent, content |-> Absent, isBinary |-> Absent]
PCs == {"idle", "read", "fetch", "write", "vault", "commit"}
Ops == {"none", "create", "patch", "remove"}

ASSUME ConstantsAssumption ==
    /\ Null \notin Contents /\ Absent \notin Contents /\ Null # Absent
    /\ Absent \notin BOOLEAN
    /\ NoRow \notin Row /\ NoId \notin Items
    /\ Texts \cap Binaries = {}
    /\ Faults \subseteq PCs \ {"idle"}

VARIABLES
    db,         \* db[i]: the committed row of record i
    vault,      \* vault[i]: its content in Vault
    used,       \* ids taken from the sequences
    pc, op, id, \* the request of a handler
    asked,      \* the fields that the request gives
    data,       \* the fields that the statement writes
    secretContent, \* params.attachFile, params.userParameter: for Vault
    row,        \* the row that the statement returned
    \* History variables: no action of the server depends on them.
    crossed,    \* handlers that met another request about the same record
    doubtful,   \* records with such requests, or with a failure after Vault
                \* has changed, and no later request alone that gives all
    last        \* last[i]: the content that a client has given last

request == <<op, id, asked, data, secretContent, row>>
history == <<crossed, doubtful, last>>
vars    == <<db, vault, used, pc, request, history>>

TypeOK ==
    /\ db \in [Items -> Row \cup {NoRow}]
    /\ vault \in [Items -> Contents \cup {Null}]
    /\ used \subseteq Items
    /\ pc \in [Handlers -> PCs] /\ op \in [Handlers -> Ops]
    /\ id \in [Handlers -> Items \cup {NoId}]
    /\ asked \in [Handlers -> Data] /\ data \in [Handlers -> Data]
    /\ secretContent \in [Handlers -> Contents \cup {Absent}]
    /\ row \in [Handlers -> Row \cup {NoRow}]
    /\ crossed \subseteq Handlers /\ doubtful \subseteq Items
    /\ last \in [Items -> Contents \cup {Null}]

Init ==
    /\ db = [i \in Items |-> NoRow]
    /\ vault = [i \in Items |-> Null]
    /\ used = {}
    /\ pc = [h \in Handlers |-> "idle"] /\ op = [h \in Handlers |-> "none"]
    /\ id = [h \in Handlers |-> NoId]
    /\ asked = [h \in Handlers |-> Nothing]
    /\ data = [h \in Handlers |-> Nothing]
    /\ secretContent = [h \in Handlers |-> Absent]
    /\ row = [h \in Handlers |-> NoRow]
    /\ crossed = {} /\ doubtful = {}
    /\ last = [i \in Items |-> Null]

-----------------------------------------------------------------------------
Goto(h, l) == pc' = [pc EXCEPT ![h] = l]
About(i)   == {g \in Handlers : pc[g] # "idle" /\ id[g] = i}

Answer(h) == /\ Goto(h, "idle")
             /\ op' = [op EXCEPT ![h] = "none"]
             /\ id' = [id EXCEPT ![h] = NoId]
             /\ asked' = [asked EXCEPT ![h] = Nothing]
             /\ data' = [data EXCEPT ![h] = Nothing]
             /\ secretContent' = [secretContent EXCEPT ![h] = Absent]
             /\ row' = [row EXCEPT ![h] = NoRow]
             /\ crossed' = crossed \ {h}

\* The flag that comes with a content: textContent or content, for a user
\* parameter; a file that is attached counts as binary.
IsBinary(content) == content \in Binaries

\* What a client may give: a content or none, the flag secret or none.
Requests(i) ==
    {[secret |-> s, content |-> c,
      isBinary |-> IF c = Absent THEN Absent ELSE IsBinary(c)] :
        s \in BOOLEAN \cup {Absent},
        c \in (IF i \in AttachFiles THEN Binaries ELSE Contents) \cup {Absent}}

\* processContent: a secret content is left out of the row.
ProcessContent(item) ==
    [item EXCEPT !.content = IF item.secret THEN Null ELSE item.content]

ForVault(item) == IF item.secret THEN item.content ELSE Absent

\* The fields of new replace those of old.
Overlay(old, new) ==
    [f \in {"secret", "content", "isBinary"} |->
        IF new[f] = Absent THEN old[f] ELSE new[f]]

-----------------------------------------------------------------------------
(***************************************************************************)
(* Requests.                                                               *)
(***************************************************************************)
Start(h, o, i, r) ==
    /\ pc[h] = "idle"
    /\ op' = [op EXCEPT ![h] = o]
    /\ id' = [id EXCEPT ![h] = i]
    /\ asked' = [asked EXCEPT ![h] = r]
    /\ crossed' = crossed \cup About(i) \cup {g \in {h} : About(i) # {}}
    /\ doubtful' = doubtful \cup {j \in {i} : About(i) # {}}
    /\ UNCHANGED <<db, vault, row, last>>

\* beforeCreateProcess
Create(h, i) ==
    \E r \in {q \in Requests(i) : q.content # Absent /\ q.secret # Absent} :
        /\ i \notin used /\ used' = used \cup {i}
        /\ Start(h, "create", i, r)
        /\ data' = [data EXCEPT ![h] = ProcessContent(r)]
        /\ secretContent' = [secretContent EXCEPT ![h] = ForVault(r)]
        /\ Goto(h, "write")

CreateAttachFile(h) == \E i \in AttachFiles : Create(h, i)

\* verifyUser has found the user among the members of the stream.
CreateUserParameter(h) == \E i \in UserParameters : Create(h, i)

\* beforePatchProcess, as far as it needs no current value.
Patch(h) ==
    \E i \in Items : \E r \in Requests(i) :
        /\ db[i] # NoRow
        /\ Start(h, "patch", i, r)
        /\ UNCHANGED used
        /\ IF (r.content = Absent) = (r.secret = Absent)
           THEN /\ data' = [data EXCEPT ![h] =
                     IF r.content = Absent THEN r ELSE ProcessContent(r)]
                /\ secretContent' = [secretContent EXCEPT ![h] =
                     IF r.content = Absent THEN Absent ELSE ForVault(r)]
                /\ Goto(h, "write")
           ELSE Goto(h, "read") /\ UNCHANGED <<data, secretContent>>

Remove(h) ==
    \E i \in Items :
        /\ db[i] # NoRow
        /\ Start(h, "remove", i, Nothing)
        /\ Goto(h, "write")
        /\ UNCHANGED <<used, data, secretContent>>

-----------------------------------------------------------------------------
\* Mutant: a content is written without a look at the current flag.
CompleteBlindly(h, secret, content) ==
    /\ data' = [data EXCEPT ![h] = IF asked[h].content # Absent THEN asked[h]
         ELSE ProcessContent([asked[h] EXCEPT !.content = content])]
    /\ secretContent' = [secretContent EXCEPT ![h] =
         IF asked[h].content # Absent THEN Absent
         ELSE ForVault([asked[h] EXCEPT !.content = content])]
    /\ Goto(h, "write")

\* The rest of beforePatchProcess, with the current flag and content.
Complete(h, secret, content) ==
    LET given == asked[h]
        item  == IF given.content # Absent THEN [given EXCEPT !.secret = secret]
                 ELSE [given EXCEPT !.content = content]
        same  == given.content = Absent /\ given.secret = secret
    IN  /\ data' = [data EXCEPT ![h] =
             IF same THEN given ELSE ProcessContent(item)]
        /\ secretContent' = [secretContent EXCEPT ![h] =
             IF same THEN Absent ELSE ForVault(item)]
        /\ Goto(h, "write")

\* getCurrentValue reads the row, without a lock; it throws when there is no
\* row, or no content in a row that is not secret ...
GetCurrentValue(h) ==
    /\ pc[h] = "read"
    /\ \/ /\ db[id[h]] # NoRow /\ db[id[h]].secret
          /\ Goto(h, "fetch")
          /\ UNCHANGED <<request, crossed>>
       \/ /\ db[id[h]] # NoRow => ~ db[id[h]].secret /\ db[id[h]].content = Null
          /\ Answer(h)
       \/ /\ db[id[h]] # NoRow /\ ~ db[id[h]].secret /\ db[id[h]].content # Null
          /\ Complete(h, FALSE, db[id[h]].content)
          /\ UNCHANGED <<op, id, asked, row, crossed>>
    /\ UNCHANGED <<db, vault, used, doubtful, last>>

\* ... and asks Vault for the content of a secret record.
GetContentFromVault(h) ==
    /\ pc[h] = "fetch"
    /\ \/ /\ vault[id[h]] = Null
          /\ Answer(h)
       \/ /\ vault[id[h]] # Null
          /\ Complete(h, TRUE, vault[id[h]])
          /\ UNCHANGED <<op, id, asked, row, crossed>>
    /\ UNCHANGED <<db, vault, used, doubtful, last>>

\* A transaction locks the row from its statement to its end.
Locked(i) == \E g \in Handlers : id[g] = i /\ pc[g] \in {"vault", "commit"}

\* The statement; NotFound, when another request has removed the record.
Write(h) ==
    /\ pc[h] = "write" /\ ~ Locked(id[h])
    /\ \/ /\ op[h] # "create" /\ db[id[h]] = NoRow
          /\ Answer(h)
       \/ /\ op[h] = "create" \/ db[id[h]] # NoRow
          /\ row' = [row EXCEPT ![h] = IF op[h] = "create" THEN data[h]
                                       ELSE Overlay(db[id[h]], data[h])]
          /\ Goto(h, "vault")
          /\ UNCHANGED <<op, id, asked, data, secretContent, crossed>>
    /\ UNCHANGED <<db, vault, used, doubtful, last>>

\* registerAttachFile, unregisterAttachFile: the entry of record i afterwards.
EntryOfAttachFile(h, i) ==
    CASE op[h] = "create" /\ secretContent[h] = Absent -> vault[i]
      [] op[h] # "remove" /\ row[h].secret ->
            IF secretContent[h] = Absent THEN vault[i] ELSE secretContent[h]
      [] OTHER -> Null

\* Mutant: a PATCH leaves the entry of a record that is secret no longer.
KeepUserParameter(h, i) ==
    IF secretContent[h] # Absent THEN secretContent[h] ELSE vault[i]

\* registerUserParameter, unregisterUserParameter.
EntryOfUserParameter(h, i) ==
    IF op[h] = "remove" \/ (op[h] = "patch" /\ ~ row[h].secret) THEN Null
    ELSE IF secretContent[h] # Absent THEN secretContent[h] ELSE vault[i]

AfterProcess(h) ==
    /\ pc[h] = "vault"
    /\ vault' = [vault EXCEPT ![id[h]] =
         IF id[h] \in AttachFiles THEN EntryOfAttachFile(h, id[h])
                                  ELSE EntryOfUserParameter(h, id[h])]
    /\ Goto(h, "commit")
    /\ UNCHANGED <<db, used, request, history>>

Commit(h) ==
    LET i == id[h]
        complete == op[h] # "patch" \/ Absent \notin {asked[h].secret, asked[h].content}
    IN  /\ pc[h] = "commit"
        /\ db' = [db EXCEPT ![i] = IF op[h] = "remove" THEN NoRow ELSE row[h]]
        /\ last' = [last EXCEPT ![i] =
             IF asked[h].content # Absent THEN asked[h].content ELSE last[i]]
        /\ doubtful' = doubtful \ {j \in {i} : complete /\ h \notin crossed}
        /\ Answer(h)
        /\ UNCHANGED <<vault, used>>

\* A call fails: the row is rolled back, what Vault has accepted stays.
Fail(h) ==
    /\ pc[h] \in Faults
    /\ doubtful' = doubtful \cup {i \in {id[h]} : pc[h] = "commit"}
    /\ Answer(h)
    /\ UNCHANGED <<db, vault, used, last>>

Request(h) == CreateAttachFile(h) \/ CreateUserParameter(h) \/ Patch(h) \/ Remove(h)

Step(h) == \/ GetCurrentValue(h) \/ GetContentFromVault(h)
           \/ Write(h) \/ AfterProcess(h) \/ Commit(h)

Next == \E h \in Handlers : Request(h) \/ Step(h) \/ Fail(h)

Spec == Init /\ [][Next]_vars

-----------------------------------------------------------------------------
Settled(i) == i \notin doubtful /\ ~ Locked(i)

\* A secret content is in Vault and not in the database, any other content is
\* in the database and not in Vault, and nothing is left of a record that is
\* removed; unless two requests about the record have met, or one has failed
\* after Vault had changed, and none since that gives the whole record.
ContentWhereFlagSays ==
    \A i \in Items : Settled(i) =>
        /\ (db[i] # NoRow /\ db[i].secret) <=> vault[i] # Null
        /\ db[i] # NoRow => (db[i].secret <=> db[i].content = Null)

\* Then also the content is the one that a client gave last, however often the
\* flag was changed and requests failed in between, and the row says rightly
\* whether it is a text.
ContentKept ==
    \A i \in Items : Settled(i) /\ db[i] # NoRow =>
        /\ last[i] = IF db[i].secret THEN vault[i] ELSE db[i].content
        /\ db[i].isBinary = IsBinary(last[i])
=============================================================================
