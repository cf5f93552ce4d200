-------------------------------- MODULE Pages -------------------------------
(***************************************************************************)
(* The pages of the web interface: tables, dialogs and the store of one    *)
(* tab, for one kind of record at a time (and the configuration file that  *)
(* the page of a stream shows with them), with any other clients.          *)
(*                                                                         *)
(* The tab draws what its store has (feathers-vuex: answers are merged,    *)
(* nothing else leaves the store).  A dialog holds a form, which can be    *)
(* sent more than once, and closed while requests of it are under way; on  *)
(* the way to the server and back a request may be overtaken by others,    *)
(* and the server may have done what the tab is told has failed.           *)
(* What goes on inside a request of the server is the matter of the other  *)
(* modules: here its effect is one step, and a row is a name, a flag and   *)
(* the number of the change that made it what it is.  All users administer *)
(* the streams concerned, except where the members are the rows.           *)
(***************************************************************************)
EXTENDS Naturals, FiniteSets

CONSTANTS
    Names,      \* targets, users or names of streams, according to the kind
    Me,         \* the user of the tab
    MaxIds,     \* ids taken from the sequence (a bound)
    MaxChanges, \* changes of the rows (a bound)
    MaxFinds,   \* finds under way when a dialog is opened (a bound)
    Calls,      \* requests of the tab under way at the same time (a bound)
    NoRow, NoForm, NoCall

Kinds == {"PublicKey", "EncryptKey", "Member", "AttachFile", "UserParameter",
          "AccessKey", "Stream"}
Ids == 1 .. MaxIds
Row == [name : Names, flag : BOOLEAN, latest : BOOLEAN, stamp : 0 .. MaxChanges + 1]
Unsaved == MaxChanges + 1   \* stamp of a row that only the store has

RowOrNone == Row \cup {NoRow}

\* What a form sends, and what its dialog does then: check: what the rule has found
\* that asks the server for the name, if there is one; scope: names of the rows
\* found again; config: `change-stream'; informed: what the tab showed was right
\* when the dialog was opened, and no row has changed since.
Form == [op : {"create", "patch", "remove"}, id : Ids \cup {0}, name : Names,
         flag : BOOLEAN, check : {"none", "asked", "ok", "dup", "overtaken"},
         scope : SUBSET Names, config : BOOLEAN, informed : BOOLEAN]

\* A request under way, the row that answers it, and whether the dialog that has
\* sent it is still there to hear the answer.
Call == [form : Form, state : {"sent", "ok"},
         answer : RowOrNone, heard : BOOLEAN]
Query == [names : SUBSET Names, ids : SUBSET Ids]
Everything == [names |-> Names, ids |-> Ids]

ASSUME ConstantsAssumption ==
    /\ Me \in Names /\ IsFiniteSet(Names) /\ Cardinality(Names) > 1
    /\ MaxIds \in Nat /\ MaxIds > 1 /\ MaxChanges \in Nat /\ MaxFinds \in Nat
    /\ NoRow \notin Row /\ NoForm \notin Form /\ NoCall \notin Call

VARIABLES
    kind,       \* the kind of record the page is about (never changes)
    rows, ids, changes, \* the server: rows, last id taken, last change
    store,      \* the store of the tab
    form,       \* the form of the dialog that is open
    calls,      \* the requests of the tab
    asked,      \* finds the server has not read for yet, ...
    answers,    \* ... and answers on their way; old: rows have changed since
    cfg, cfgAsked, cfgAnswers, \* the same of the configuration file: whether it was
                               \* made after the last change
    \* History variables: the store may differ from the server because of others, of
    \* an answer overtaken, lost or not heard, of a failure or of a rule not waited for;
    \* rows it will not get rid of; and the same for the configuration file.
    stale, gone, cfgStale

server == <<kind, rows, ids, changes>>
find   == <<asked, answers>>
config == <<cfg, cfgAsked, cfgAnswers, cfgStale>>
vars   == <<server, store, form, calls, find, config, stale, gone>>

TypeOK ==
    /\ kind \in Kinds /\ rows \in [Ids -> RowOrNone]
    /\ ids \in 0 .. MaxIds /\ changes \in 0 .. MaxChanges
    /\ store \in [Ids -> RowOrNone]
    /\ form \in Form \cup {NoForm}
    /\ calls \in [Calls -> Call \cup {NoCall}]
    /\ form = NoForm => \A c \in Calls : calls[c] # NoCall => ~ calls[c].heard
    /\ asked \subseteq Query
    /\ \A a \in answers : /\ a.rows \in [Ids -> RowOrNone]
                          /\ a.full \in BOOLEAN /\ a.old \in BOOLEAN
    /\ cfg \in BOOLEAN /\ cfgAsked \in BOOLEAN
    /\ cfgAnswers \subseteq BOOLEAN /\ cfgStale \in BOOLEAN
    /\ stale \in BOOLEAN /\ gone \subseteq Ids

-----------------------------------------------------------------------------
Live        == {i \in Ids : rows[i] # NoRow}
Shown       == {i \in Ids : store[i] # NoRow}
UnderWay    == {c \in Calls : calls[c] # NoCall}
Quiet       == UnderWay = {} /\ asked = {} /\ answers = {}
StreamParts == {"EncryptKey", "AttachFile", "UserParameter", "Stream"}

\* What others have made before: the last key is the default one (or the version in
\* use of a target), a stream has two administrators.
Before(n) ==
    [i \in Ids |->
       IF i <= n
         THEN [name   |-> IF i = 2 /\ kind \in {"Member", "Stream"}
                            THEN CHOOSE m \in Names : m # Me ELSE Me,
               flag   |-> kind \in {"PublicKey", "EncryptKey"} => i = n,
               latest |-> kind = "EncryptKey" => i = n, stamp |-> 0]
         ELSE NoRow]

Init ==
    /\ kind \in Kinds
    /\ ids \in IF kind = "Member" THEN {2} ELSE 0 .. 2
    /\ rows = Before(ids)
    /\ changes = 0
    /\ store = [i \in Ids |-> NoRow]
    /\ form = NoForm /\ calls = [c \in Calls |-> NoCall]
    /\ asked = {Everything} /\ answers = {}
    /\ cfg = FALSE /\ cfgAsked = (kind \in StreamParts) /\ cfgAnswers = {}
    /\ stale = TRUE /\ gone = {} /\ cfgStale = TRUE

-----------------------------------------------------------------------------
(***************************************************************************)
(* The dialogs: what can be sent, given what the tab shows.                *)
(***************************************************************************)
NewForm == [op |-> "create", id |-> 0, name |-> Me, flag |-> TRUE,
            check |-> "none", scope |-> {}, config |-> FALSE, informed |-> FALSE]
Change(o, i) == [NewForm EXCEPT !.op = o, !.id = i, !.name = store[i].name]

\* The first key is to be the default one; then all keys are found again.
PublicKeyRegister(only) ==
    {[NewForm EXCEPT !.flag = f, !.scope = Names] : f \in IF only THEN {TRUE} ELSE BOOLEAN}

\* The flag of an only key cannot be changed.
PublicKeyUpdate(i, only) ==
    {[Change("patch", i) EXCEPT !.flag = f, !.scope = Names] :
       f \in IF only THEN {store[i].flag} ELSE BOOLEAN}
PublicKeyDelete(i) == {[Change("remove", i) EXCEPT !.scope = Names]}

PublicKeysTable ==
    UNION {PublicKeyUpdate(i, Shown = {i}) \cup PublicKeyDelete(i) : i \in Shown}
PublicKeysView  == PublicKeyRegister(Shown = {}) \cup PublicKeysTable

\* The fields of a key: generated or from a file, enabled or not.
EncryptKeyDialog(q) == {[q EXCEPT !.flag = f, !.config = TRUE] : f \in BOOLEAN}

\* A new target: unique-target asks whether there is one.
EncryptKeyCreate == UNION {EncryptKeyDialog([NewForm EXCEPT !.name = n, !.check = "asked"]) :
                             n \in Names}

\* Mutant: the older versions are not found again.
EncryptKeyUpdateAlone(i) == EncryptKeyDialog([Change("create", i) EXCEPT !.id = 0])

\* A new version of a target; then the rows of the target are found again.
EncryptKeyUpdate(i) ==
    EncryptKeyDialog([Change("create", i) EXCEPT !.id = 0, !.scope = {store[i].name}])
EncryptKeyUpdateParams(i) ==
    {[Change("patch", i) EXCEPT !.flag = f, !.config = TRUE] : f \in BOOLEAN}

\* Mutant: every version has buttons.
AnyVersion == Shown

\* Only the latest versions have buttons.
Editable == {i \in Shown : store[i].latest}

EncryptKeyTable == UNION {EncryptKeyUpdate(i) \cup EncryptKeyUpdateParams(i) : i \in Editable}
EncryptKeysView == EncryptKeyCreate \cup EncryptKeyTable

MemberCreate    == {[NewForm EXCEPT !.name = n, !.flag = FALSE] : n \in Names}
MemberUpdate(i) == {[Change("patch", i) EXCEPT !.flag = f] : f \in BOOLEAN}
MemberDelete(i) == {Change("remove", i)}

\* The row of the user has no buttons.
MembersTable == UNION {MemberUpdate(i) \cup MemberDelete(i) :
                         i \in {j \in Shown : store[j].name # Me}}
MembersView  == MemberCreate \cup MembersTable

\* For a new file, or for the one of a row.
AttachFileDialog(q)       == {[q EXCEPT !.config = TRUE]}
AttachFileDeleteDialog(i) == {[Change("remove", i) EXCEPT !.config = TRUE]}
AttachFileTable == UNION {AttachFileDialog(Change("patch", i)) \cup AttachFileDeleteDialog(i) :
                            i \in Shown}
AttachFilesView == AttachFileDialog(NewForm) \cup AttachFileTable

UserParameterDialog(q)       == {[q EXCEPT !.config = TRUE]}
UserParameterDeleteDialog(i) == {[Change("remove", i) EXCEPT !.config = TRUE]}
UserParameterTable == UNION {UserParameterDialog(Change("patch", i))
                               \cup UserParameterDeleteDialog(i) : i \in Shown}
UserParametersView == UserParameterDialog(NewForm) \cup UserParameterTable

AccessKeyCreateDialog == {NewForm}
AccessKeyCard(i)      == {Change("remove", i)}
AccessKeysList        == UNION {AccessKeyCard(i) : i \in Shown}
AccessKeysView        == AccessKeyCreateDialog \cup AccessKeysList

\* unique-name asks for the name of a new stream, a name is not changed.  A stream
\* that is removed has no configuration file any more.
StreamNameTextField(q, readonly) == IF readonly THEN q ELSE [q EXCEPT !.check = "asked"]
StreamBasicInfoCreate ==
    {StreamNameTextField([NewForm EXCEPT !.name = n], FALSE) : n \in Names}
StreamBasicInfoUpdate(i) ==
    {StreamNameTextField([Change("patch", i) EXCEPT !.config = TRUE], TRUE)}
StreamDeleteDialog(i) == {Change("remove", i)}
StreamsTable == UNION {StreamBasicInfoUpdate(i) \cup StreamDeleteDialog(i) : i \in Shown}
StreamsView  == StreamBasicInfoCreate \cup StreamsTable

Offered ==
    CASE kind = "PublicKey"     -> PublicKeysView
      [] kind = "EncryptKey"    -> EncryptKeysView
      [] kind = "Member"        -> MembersView
      [] kind = "AttachFile"    -> AttachFilesView
      [] kind = "UserParameter" -> UserParametersView
      [] kind = "AccessKey"     -> AccessKeysView
      [] kind = "Stream"        -> StreamsView

-----------------------------------------------------------------------------
(***************************************************************************)
(* The server: what it refuses, and what a request makes of the rows.      *)
(***************************************************************************)
Taken(n) == \E i \in Live : rows[i].name = n
Admin(u) == \E i \in Live : rows[i].name = u /\ rows[i].flag

\* Members are found by administrators only.
Visible == IF kind = "Member" /\ ~ Admin(Me) THEN {} ELSE Live

\* The two unique constraints.
Conflict(q) == q.op = "create" /\ kind \in {"Member", "Stream"} /\ Taken(q.name)

Refused(q, u) ==
    \/ Conflict(q)
    \/ q.op # "create" /\ q.id \notin Live
    \/ kind = "PublicKey" /\ q.op # "remove" /\ ~ q.flag /\ Live \subseteq {q.id}
    \/ kind = "EncryptKey" /\ q.op = "patch" /\ q.id \in Live /\ ~ rows[q.id].latest
    \/ kind = "Member" /\ (~ Admin(u) \/ (q.id \in Live /\ rows[q.id].name = u))

\* A new default key takes the flag from the others.
Cleared(r) == IF r # NoRow /\ r.flag
                THEN [r EXCEPT !.flag = FALSE, !.stamp = changes + 1] ELSE r

\* A new version of a target disables the older ones.
Outdated(r, n) ==
    IF r # NoRow /\ r.name = n /\ r.latest
      THEN [r EXCEPT !.flag = FALSE, !.latest = FALSE, !.stamp = changes + 1] ELSE r

\* What becomes of the rows other than i.
Beside(q, i) ==
    [j \in Ids |-> CASE kind = "PublicKey" /\ q.op # "remove" /\ q.flag -> Cleared(rows[j])
                     [] kind = "EncryptKey" /\ q.op = "create" -> Outdated(rows[j], q.name)
                     [] OTHER -> rows[j]]

Written(q, i) ==
    LET new == [name |-> q.name, flag |-> q.flag, latest |-> TRUE, stamp |-> changes + 1]
    IN  [Beside(q, i) EXCEPT ![i] = IF q.op = "remove" THEN NoRow ELSE new]

\* When no key has the flag any more, another key gets it.
Promoted(r, i) ==
    LET left == {j \in Ids \ {i} : r[j] # NoRow}
    IN  IF kind # "PublicKey" \/ left = {} \/ \E j \in Ids : r[j] # NoRow /\ r[j].flag
          THEN {r}
          ELSE {[m \in Ids |-> IF m = j THEN [r[m] EXCEPT !.flag = TRUE, !.stamp = changes + 1]
                                        ELSE r[m]] : j \in left}

\* The id of the row: the next of the sequence for a create.
Target(q) == IF q.op = "create" THEN ids + 1 ELSE q.id

Apply(q) ==
    /\ changes < MaxChanges /\ Target(q) \in Ids
    /\ rows' \in Promoted(Written(q, Target(q)), Target(q))
    /\ changes' = changes + 1
    /\ IF kind = "Stream" /\ q.op # "patch" THEN UNCHANGED <<cfg, cfgAnswers>>
         ELSE cfg' = FALSE /\ cfgAnswers' = {FALSE : c \in cfgAnswers}
    /\ ids' = IF q.op = "create" THEN ids + 1 ELSE ids
    /\ answers' = {[a EXCEPT !.old = TRUE] : a \in answers}
    /\ UNCHANGED kind

-----------------------------------------------------------------------------
(***************************************************************************)
(* The dialog                                                              *)
(***************************************************************************)
\* A form that was right about the rows may no longer be: they have changed.
Behind(q) ==
    IF q = NoForm THEN NoForm
    ELSE [q EXCEPT !.informed = FALSE,
                   !.check = IF @ \in {"ok", "dup"} THEN "overtaken" ELSE @]
CallsBehind ==
    [c \in Calls |-> IF calls[c] = NoCall THEN NoCall
                     ELSE [calls[c] EXCEPT !.form = Behind(calls[c].form)]]

\* A dialog that is closed is gone: its requests go on, but nobody hears of them.
Unheard ==
    [c \in Calls |-> IF calls[c] = NoCall THEN NoCall ELSE [calls[c] EXCEPT !.heard = FALSE]]
Close == form' = NoForm

Open(q) ==
    /\ form = NoForm
    /\ Cardinality(asked) + Cardinality(answers) < MaxFinds
    /\ form' = [q EXCEPT !.informed = Quiet /\ ~ stale /\ gone = {}]
    /\ asked' = IF q.id = 0 THEN asked ELSE asked \cup {[names |-> Names, ids |-> {q.id}]}
    /\ UNCHANGED <<server, store, calls, answers, config, stale, gone>>

\* Mutant: the rule is content with rows that have been found.
RuleAnsweredAlways ==
    /\ form # NoForm /\ form.check # "none"
    /\ form' = [form EXCEPT !.check = "ok"]
    /\ UNCHANGED <<server, store, calls, find, config, stale, gone>>

\* The rule asks when the name is typed, and again when the form is sent.
RuleAnswered ==
    /\ form # NoForm /\ form.check # "none"
    /\ form' = [form EXCEPT !.check = IF Taken(form.name) THEN "dup" ELSE "ok"]
    /\ UNCHANGED <<server, store, calls, find, config, stale, gone>>

\* Mutant: what the requests of a cancelled dialog bring is heard.
CancelForm ==
    /\ form # NoForm
    /\ Close
    /\ UNCHANGED <<server, store, calls, find, config, stale, gone>>

\* Also while requests are under way.
Cancel ==
    /\ form # NoForm
    /\ Close /\ calls' = Unheard
    /\ UNCHANGED <<server, store, find, config, stale, gone>>

\* FormWrapper commits a PATCH to the store first, unless `eager' is off.
Eager(q) == q.op = "patch" /\ kind \notin {"Member", "Stream"}

\* The button is disabled while a rule is known to be broken, and at no other time:
\* the form may be sent again before there is an answer.  onSubmit validates once
\* more and sends the form whatever comes out.  The dialog that removes an access
\* key does not wait.
Submit(c) ==
    LET waits == kind # "AccessKey" \/ form.op # "remove"
        new   == [form |-> form, state |-> "sent", answer |-> NoRow, heard |-> waits]
    IN  /\ form # NoForm /\ form.check # "dup" /\ calls[c] = NoCall
        /\ IF waits THEN form' = form /\ calls' = [calls EXCEPT ![c] = new]
                    ELSE Close /\ calls' = [Unheard EXCEPT ![c] = new]
        /\ store' = IF Eager(form) /\ store[form.id] # NoRow
                      THEN [store EXCEPT ![form.id] = [@ EXCEPT !.flag = form.flag,
                                                                !.stamp = Unsaved]]
                      ELSE store
        /\ UNCHANGED <<server, find, config, stale, gone>>

Is(c, s) == calls[c] # NoCall /\ calls[c].state = s

\* A rule not waited for may let a taken name through: no row is found again then.
Serve(c) ==
    LET q == calls[c].form
    IN  /\ Is(c, "sent") /\ ~ Refused(q, Me)
        /\ Apply(q)
        /\ calls' = [CallsBehind EXCEPT ![c] =
                       [form   |-> [Behind(q) EXCEPT !.id = Target(q)], state |-> "ok",
                        answer |-> rows'[Target(q)], heard |-> calls[c].heard]]
        /\ form' = Behind(form)
        /\ stale' = (stale \/ (q.check # "none" /\ Taken(q.name)))
        /\ UNCHANGED <<store, asked, cfgAsked, cfgStale, gone>>

\* The dialog shows the error and stays; adding a member that is one is no error.
\* When a failed request ends at the tab makes no difference to anything else.
AnsweredWithError(c) ==
    IF kind = "Member" /\ Conflict(calls[c].form) /\ calls[c].heard
      THEN Close /\ calls' = [Unheard EXCEPT ![c] = NoCall]
      ELSE calls' = [calls EXCEPT ![c] = NoCall] /\ UNCHANGED form

Refuse(c) ==
    /\ Is(c, "sent") /\ Refused(calls[c].form, Me)
    /\ AnsweredWithError(c)
    /\ stale' = (stale \/ Eager(calls[c].form))
    /\ UNCHANGED <<server, store, find, config, gone>>

\* The request, without effect on the server.
Fail(c) ==
    /\ Is(c, "sent")
    /\ calls' = [calls EXCEPT ![c] = NoCall]
    /\ stale' = (stale \/ Eager(calls[c].form))
    /\ UNCHANGED <<server, store, form, find, config, gone>>

\* The answer, or a get that completes it: the server has made the change, and the
\* tab takes it for refused.
AnswerLost(c) ==
    LET q == calls[c].form
    IN  /\ Is(c, "ok")
        /\ calls' = [calls EXCEPT ![c] = NoCall]
        /\ stale' = TRUE
        /\ gone' = gone \cup ({q.id} \ Visible)
        /\ cfgStale' = (cfgStale \/ q.config)
        /\ UNCHANGED <<server, store, form, find, cfg, cfgAsked, cfgAnswers>>

\* A key's answer does not say whether it is the latest: a new one is, for another
\* one the tab asks once more.
Completed(k) ==
    IF kind # "EncryptKey" \/ k.answer = NoRow THEN k.answer
    ELSE [k.answer EXCEPT !.latest = k.form.op = "create" \/ rows[k.form.id].latest]

\* Mutant: onComplete is not called.
AnsweredSilently(c) ==
    /\ Is(c, "ok")
    /\ store' = [store EXCEPT ![calls[c].form.id] = Completed(calls[c])]
    /\ Close /\ calls' = [Unheard EXCEPT ![c] = NoCall]
    /\ UNCHANGED <<server, find, config, stale, gone>>

\* The answer goes into the store (a removed row leaves it).  If the dialog is still
\* there, its events make the page find again what they are about, and it is closed.
\* The row of the answer may be older than the server's, unless a later answer for
\* it is to come.
Answered(c) ==
    LET q    == calls[c].form
        row  == Completed(calls[c])
        last == \A d \in UnderWay \ {c} : ~ (Is(d, "ok") /\ calls[d].form.id = q.id)
    IN  /\ Is(c, "ok")
        /\ store' = [store EXCEPT ![q.id] = row]
        /\ gone' = IF row # NoRow /\ last THEN gone \cup ({q.id} \ Visible) ELSE gone
        /\ IF calls[c].heard
             THEN /\ asked' = asked \cup {[names |-> s, ids |-> Ids] : s \in {q.scope} \ {{}}}
                  /\ cfgAsked' = (cfgAsked \/ q.config)
                  /\ Close /\ calls' = [Unheard EXCEPT ![c] = NoCall]
                  /\ stale' = (stale \/ (last /\ row # rows[q.id]))
                  /\ UNCHANGED cfgStale
             ELSE /\ calls' = [calls EXCEPT ![c] = NoCall]
                  /\ stale' = (stale \/ (last /\ row # rows[q.id]) \/ q.scope # {})
                  /\ cfgStale' = (cfgStale \/ q.config)
                  /\ UNCHANGED <<form, asked, cfgAsked>>
        /\ UNCHANGED <<server, answers, cfg, cfgAnswers>>

-----------------------------------------------------------------------------
(***************************************************************************)
(* Finds, and gets of the configuration file                               *)
(***************************************************************************)
ReadRows(q) ==
    /\ answers' = answers \cup
         {[rows |-> [i \in Ids |-> IF i \in Visible \cap q.ids /\ rows[i].name \in q.names
                                     THEN rows[i] ELSE NoRow],
           full |-> (q = Everything), old |-> FALSE]}
    /\ asked' = asked \ {q}
    /\ UNCHANGED <<server, store, form, calls, config, stale, gone>>

FindFails(q) ==
    /\ asked' = asked \ {q}
    /\ stale' = TRUE
    /\ UNCHANGED <<server, store, form, calls, answers, config, gone>>

\* Rows are added and replaced, none are dropped.
FindAnswered(a) ==
    /\ answers' = answers \ {a}
    /\ store' = [i \in Ids |-> IF a.rows[i] # NoRow THEN a.rows[i] ELSE store[i]]
    /\ stale' = IF a.old THEN TRUE ELSE stale /\ ~ a.full
    /\ gone' = gone \cup {i \in Ids \ Visible : a.rows[i] # NoRow}
    /\ UNCHANGED <<server, form, calls, asked, config>>

ReadConfig ==
    /\ cfgAsked
    /\ cfgAsked' = FALSE /\ cfgAnswers' = cfgAnswers \cup {TRUE}
    /\ UNCHANGED <<server, store, form, calls, find, cfg, cfgStale, stale, gone>>

ConfigFails ==
    /\ cfgAsked
    /\ cfgAsked' = FALSE /\ cfgStale' = TRUE
    /\ UNCHANGED <<server, store, form, calls, find, cfg, cfgAnswers, stale, gone>>

ConfigAnswered(c) ==
    /\ cfgAnswers' = cfgAnswers \ {c}
    /\ cfg' = c /\ cfgStale' = ~ c
    /\ UNCHANGED <<server, store, form, calls, find, cfgAsked, stale, gone>>

-----------------------------------------------------------------------------
\* Another client, another tab of the user, a request that was under way when the
\* page was loaded again, or the clean-up of access keys, changes the rows.
Request(o, i, n, f) ==
    [NewForm EXCEPT !.op = o, !.id = IF o = "create" THEN 0 ELSE i, !.name = n, !.flag = f]

OtherOps ==
    CASE kind = "EncryptKey" -> {"create", "patch"}
      [] kind = "AccessKey"  -> {"create", "remove"}
      [] OTHER -> {"create", "patch", "remove"}
OtherNames == IF kind \in {"EncryptKey", "Member", "Stream"} THEN Names ELSE {Me}
OtherFlags == IF kind \in {"PublicKey", "Member"} THEN BOOLEAN ELSE {TRUE}
AnyRequest ==
    UNION {{Request(o, i, n, f) : n \in OtherNames, f \in OtherFlags} : o \in OtherOps, i \in Ids}

Other(q, u) ==
    /\ ~ Refused(q, u)
    /\ q.op # "create" => q.name = rows[q.id].name
    /\ Apply(q)
    /\ stale' = TRUE /\ cfgStale' = TRUE
    /\ gone' = gone \cup (Visible \ Visible')
    /\ form' = Behind(form) /\ calls' = CallsBehind
    /\ UNCHANGED <<store, asked, cfgAsked>>

\* The page is loaded again: what was under way is not waited for any more.
Reload ==
    /\ store' = [i \in Ids |-> NoRow]
    /\ Close /\ calls' = [c \in Calls |-> NoCall]
    /\ asked' = {Everything} /\ answers' = {}
    /\ cfg' = FALSE /\ cfgAsked' = (kind \in StreamParts) /\ cfgAnswers' = {}
    /\ stale' = TRUE /\ gone' = {} /\ cfgStale' = TRUE
    /\ UNCHANGED server

Next == \/ \E q \in Offered : Open(q)
        \/ RuleAnswered \/ Cancel
        \/ \E c \in Calls : \/ Submit(c) \/ Serve(c) \/ Refuse(c) \/ Fail(c) \/ AnswerLost(c)
                            \/ Answered(c)
        \/ \E q \in asked : ReadRows(q) \/ FindFails(q)
        \/ \E a \in answers : FindAnswered(a)
        \/ ReadConfig \/ ConfigFails \/ \E b \in cfgAnswers : ConfigAnswered(b)
        \/ \E q \in AnyRequest, u \in Names : Other(q, u)
        \/ Reload

Spec == Init /\ [][Next]_vars

-----------------------------------------------------------------------------
\* When nothing is under way the table shows the rows of the server, also those
\* that the tab's own requests have changed besides the one they were about, and
\* also when a form was sent twice; unless others changed rows, an answer was
\* overtaken, lost or not heard by a dialog that would have found more rows again,
\* a find or a save failed, or a rule was not waited for.
StoreAgrees ==
    Quiet /\ ~ stale =>
    \A i \in Ids \ gone : store[i] = IF i \in Visible THEN rows[i] ELSE NoRow

\* The server refuses only what a page could not know: the buttons and fields of a
\* page that is up to date offer nothing that is refused (but the page of members
\* does not look who is one already).  Rows that have changed since the dialog was
\* opened, by others or by the same form sent before, are none of these.
RefusedOnlyIfBehind ==
    [][\A c \in Calls : Refuse(c) =>
         \/ ~ calls[c].form.informed
         \/ calls[c].form.check \notin {"none", "ok"}
         \/ kind = "Member" /\ calls[c].form.op = "create"]_vars

\* A form for something new never takes the name of what is there (and disables the
\* key of another), unless the rule was not waited for, or rows have changed since it
\* has answered: others were faster, or the form was sent before.
NewIsNew ==
    [][\A c \in Calls :
         Serve(c) /\ calls[c].form.check # "none" /\ Taken(calls[c].form.name)
         => calls[c].form.check \in {"asked", "overtaken"}]_vars

\* The page of a stream shows the configuration file as it is after the last change
\* made there, unless others changed rows, a get failed or was overtaken, or the
\* answer to a change was lost, or not heard because its dialog was closed.
ConfigShown ==
    /\ kind \in StreamParts /\ UnderWay = {} /\ ~ cfgAsked /\ cfgAnswers = {}
    => cfgStale \/ cfg
=============================================================================
