---------------------------- MODULE ConfigFiles -----------------------------
(***************************************************************************)
(* A GET of a configuration file: the `config-files' service, the          *)
(* `api-v1-configs' and `api-v1-secrets' services for programs, and the    *)
(* embedding of utils/sinetstreamConfigFile.ts.                            *)
(*                                                                         *)
(* The file is a tree.  Data keys, attached files and user parameters are  *)
(* put into it in three stages, each at the paths that its target names.   *)
(* What is secret comes from Vault, whose answers arrive in any order.     *)
(* While the request runs, other clients make secret records public, and   *)
(* remove records, the whole stream, the user's membership or default key. *)
(* The names that Streams has too differ: a module can extend both.        *)
(***************************************************************************)
EXTENDS Naturals, FiniteSets, SequencesExt

CONSTANTS
    Keys, Files, Parameters,    \* ids of records, in the order of updatedAt
    Targets,        \* sequence of paths, in the order in which they are sorted
    Services,       \* sequence of names of services, in the order of the file
    Documents,      \* files that may be registered: [format, tree]
    Queries,        \* [select, embed] of a request; Bad where it is refused
    ApiQuery,       \* the one of the service `api-v1-configs'
    Map, Scalar, Nil,   \* nodes of a tree that are not embedded values
    Bad

Items  == Keys \cup Files \cup Parameters
Stages == {"key", "file", "param"}
StageOf(i) == IF i \in Keys THEN "key" ELSE IF i \in Files THEN "file" ELSE "param"
Steps == {"idle", "publicKey"} \cup Stages
       \cup {"wait", "answered", "failed", "secret not found"}

\* live: enabled, and for a key the newest version of its target; secret: Vault has
\* the content.  A record that is removed is neither.
Record == [target : DOMAIN Targets, live : BOOLEAN, secret : BOOLEAN, text : BOOLEAN]
Formats == {"empty", "broken", "scalar", "v1", "v2", "v2 without config"}

\* What `yaml' makes of a file: only maps have something below them.
IsDocument(d) ==
    \A p \in DOMAIN d :
        /\ p \in Seq(STRING) \ {<<>>} /\ d[p] \in {Map, Scalar, Nil}
        /\ \A n \in 1 .. Len(p) - 1 :
             SubSeq(p, 1, n) \in DOMAIN d /\ d[SubSeq(p, 1, n)] = Map

ASSUME FilesAssumption ==
    /\ Items \subseteq Nat /\ IsFiniteSet(Items)
    /\ Keys \cap Files = {} /\ Parameters \cap (Keys \cup Files) = {}
    /\ Targets \in Seq(Seq(STRING)) /\ Services \in Seq(STRING)
    /\ \A t \in DOMAIN Targets : Len(Targets[t]) >= 2
    /\ {Map, Scalar, Nil} \cap Items = {}
    /\ \A d \in Documents : d.format \in Formats /\ IsDocument(d.tree)

VARIABLES
    item,       \* item[i]: the row of record i
    document,   \* the file that is registered
    query,
    step,       \* the stage that comes next, or what has become of the request
    missing,    \* what the user lacks at present
    publicKey,  \* the request has found a default key of the user
    tree,       \* data.doc: path |-> Map, Scalar, Nil or the record embedded
    rows,       \* the rows that the stages have read
    pending,    \* records whose secret the stage waits for
    attachments, secrets,   \* the lists to return
    header,     \* of the file: its version is 2, it has a fingerprint
    comments    \* at the top of the file
answer   == <<attachments, secrets, header, comments>>
fileVars == <<item, document, query, step, missing, publicKey, tree, rows, pending, answer>>

FileTypeOK ==
    /\ item \in [Items -> Record] /\ document \in Documents
    /\ query \in Queries /\ step \in Steps /\ publicKey \in BOOLEAN
    /\ missing \subseteq {"membership", "publicKey"}
    /\ \A p \in DOMAIN tree : tree[p] \in Items \cup {Map, Scalar, Nil}
    /\ \A p \in DOMAIN tree : tree[p] \in Items => tree[p] \in DOMAIN rows
    /\ DOMAIN rows \subseteq Items /\ \A i \in DOMAIN rows : rows[i] \in Record
    /\ pending \subseteq DOMAIN rows /\ (step = "wait" <=> pending # {})
    /\ attachments \subseteq DOMAIN rows /\ secrets \subseteq DOMAIN rows
    /\ attachments \cap secrets = {}
    /\ header \subseteq {"version", "fingerprint"}
    /\ comments \subseteq {"error", "warning"}

\* A file or a parameter that is not enabled is never found, as if there were
\* none; only a parameter can be a text.
FileInit ==
    /\ item \in [Items -> Record]
    /\ \A i \in Items : /\ IF i \in Keys THEN item[i].secret ELSE item[i].live
                        /\ item[i].text => i \in Parameters
    /\ \A i, j \in Keys : i # j /\ item[i].live /\ item[j].live =>
            item[i].target # item[j].target
    /\ document \in Documents /\ query \in Queries
    /\ step = "idle" /\ missing \in SUBSET {"publicKey"} /\ publicKey = FALSE
    /\ tree = document.tree /\ rows = <<>> /\ pending = {}
    /\ attachments = {} /\ secrets = {} /\ comments = {}
    /\ header = {v \in {"version"} : document.format \in {"v2", "v2 without config"}}

-----------------------------------------------------------------------------
(***************************************************************************)
(* Embedding in a tree d the value v, for the target with number t.        *)
(***************************************************************************)
Place(p) == CHOOSE n \in DOMAIN Services : Services[n] = p[1]

\* `*' stands for every service that is a map.
Paths(d, t) ==
    IF Targets[t][1] # "*" THEN {Targets[t]}
    ELSE {<<s>> \o Tail(Targets[t]) :
            s \in {n \in ToSet(Services) : <<n>> \in DOMAIN d /\ d[<<n>>] = Map}}

\* BadFileFormat: something that is no map is in the middle of the path.
Blocked(d, p) == \E q \in DOMAIN d : IsStrictPrefix(q, p) /\ d[q] \notin {Map, Nil}

\* IllegalArgument: verifyTargetFormat has let such a name through.
Illegal(t) == Targets[t][1] \notin ToSet(Services) \cup {"*"}

\* A file of version 2 without a map `config' has no services: getServices
\* gives a map that is not part of the file, and the value is lost.
Detached == document.format = "v2 without config"

EmbedFails(d, t) == Illegal(t) \/ (~ Detached /\ \E p \in Paths(d, t) : Blocked(d, p))

Way(P) == UNION {{SubSeq(p, 1, n) : n \in 1..(Len(p) - 1)} : p \in P}

\* Mutant: the maps on the way are made anew.
AddToNewMaps(d, P, v) ==
    LET lost == {q \in DOMAIN d : \E p \in P \cup Way(P) : Len(p) > 1 /\ IsStrictPrefix(p, q)}
    IN  [q \in ((DOMAIN d) \ lost) \cup P \cup Way(P) |->
            IF q \in P THEN v ELSE IF q \in Way(P) THEN Map ELSE d[q]]

\* addValue for each path of P: what is at the path goes, with all below it;
\* maps that are missing on the way are added.
AddValue(d, P, v) ==
    LET lost == {q \in DOMAIN d : \E p \in P : IsStrictPrefix(p, q)}
    IN  [q \in ((DOMAIN d) \ lost) \cup P \cup Way(P) |->
            IF q \in P THEN v ELSE IF q \in Way(P) THEN Map ELSE d[q]]

\* embedValue: of several paths, those before the first that is blocked.
EmbedValue(d, t, v) ==
    LET P == Paths(d, t)
    IN  IF Illegal(t) \/ Detached THEN d
        ELSE AddValue(d, {p \in P : \A q \in P : Blocked(d, q) => Place(p) < Place(q)}, v)

\* Mutant: the newest first.
BeforeNewest(i, j) == \/ item[i].target < item[j].target
                      \/ item[i].target = item[j].target /\ i > j

\* $sort: { target: 1, updatedAt: 1 }
Before(i, j) == \/ item[i].target < item[j].target
                \/ item[i].target = item[j].target /\ i < j

InOrder(S) == CHOOSE s \in [1 .. Cardinality(S) -> S] :
                  \A m, n \in DOMAIN s : m < n => Before(s[m], s[n])

\* The trees after each of the records s, of which none is left out when another
\* fails.
Trees(d, s) ==
    LET after[n \in 0 .. Len(s)] ==
          IF n = 0 THEN d ELSE EmbedValue(after[n - 1], item[s[n]].target, s[n])
    IN  after

EmbedAll(d, s) == Trees(d, s)[Len(s)]

SomeFails(d, s) ==
    \E n \in DOMAIN s : EmbedFails(Trees(d, s)[n - 1], item[s[n]].target)

-----------------------------------------------------------------------------
(***************************************************************************)
(* The request.                                                            *)
(***************************************************************************)
Wants(what)  == what \in query.select
Embeds(what) == query.embed # Bad /\ what \in query.embed
After(s)     == IF s = "key" THEN "file" ELSE IF s = "file" THEN "param" ELSE "answered"

\* Mutant: the answer is as if nothing had happened.
FailSilently(comment) ==
    step' = (IF Wants("yaml") THEN "answered" ELSE "failed") /\ UNCHANGED comments

\* Something throws: with `yaml' selected the answer is the tree as it is, and
\* the comment says so.
Failed(comment) ==
    IF Wants("yaml") THEN step' = "answered" /\ comments' = comments \cup comment
                     ELSE step' = "failed" /\ UNCHANGED comments

\* _get.  The service for programs knows streams by their names, and asks
\* whether the access key is for the stream.
Get ==
    /\ step = "idle"
    /\ CASE query.select = Bad -> step' = "failed" /\ UNCHANGED comments
         [] query.select # Bad /\ document.format = "empty" ->
                step' = "answered" /\ UNCHANGED comments
         [] query.select # Bad /\ document.format = "broken" -> Failed({"error"})
         [] OTHER -> step' = "publicKey" /\ UNCHANGED comments
    /\ UNCHANGED <<item, document, query, missing, publicKey, tree, rows, pending,
                   attachments, secrets, header>>

GetApiV1Config ==
    /\ step = "idle" /\ query = ApiQuery
    /\ step' = "failed"
    /\ UNCHANGED <<item, document, query, missing, publicKey, tree, rows, pending, answer>>

\* A user without a default key, or whose key is not in Vault, has none; any
\* other failure is the answer, whatever is selected.
GetPublicKey ==
    /\ step = "publicKey"
    /\ \/ publicKey' = ("publicKey" \notin missing) /\ step' = "key"
       \/ step' = "failed" /\ UNCHANGED publicKey
    /\ UNCHANGED <<item, document, query, missing, tree, rows, pending, answer>>

\* Stage s up to its first await: of the rows F found, the lists get A and L,
\* E are embedded at once, each of them even when another fails, and W are
\* asked from Vault.  The file is converted to version 2, unless it is no map:
\* then this throws, and there is no place for a comment either.
Apply(s, F, A, L, E, W) ==
    /\ step = s
    /\ rows' = [i \in DOMAIN rows \cup F |-> IF i \in F THEN item[i] ELSE rows[i]]
    /\ attachments' = attachments \cup A /\ secrets' = secrets \cup L
    /\ header' = header \cup {v \in {"version"} : F # {} /\ document.format # "scalar"}
    /\ CASE F = {} -> step' = After(s) /\ UNCHANGED <<tree, pending, comments>>
         [] F # {} /\ document.format = "scalar" -> Failed({}) /\ UNCHANGED <<tree, pending>>
         [] F # {} /\ document.format # "scalar" /\ query.embed = Bad ->
                Failed({"error"}) /\ UNCHANGED <<tree, pending>>
         [] OTHER ->
                /\ tree' = EmbedAll(tree, InOrder(E))
                /\ IF SomeFails(tree, InOrder(E))
                   THEN Failed({"error"}) /\ UNCHANGED pending
                   ELSE /\ pending' = W
                        /\ step' = IF W = {} THEN After(s) ELSE "wait"
                        /\ UNCHANGED comments
    /\ UNCHANGED <<item, document, query, missing, publicKey>>

\* All versions of a key are listed when the newest is enabled; as long as there is
\* the stream there are its keys, in Vault.
ApplyEncryptKeys ==
    LET found  == {k \in Keys : item[k].secret}
        live   == {k \in found : item[k].live}
        listed == {k \in found : \E l \in live : item[l].target = item[k].target}
    IN  Apply("key", found, {}, listed, {}, IF Embeds("secret") THEN live ELSE {})

\* Mutant: secret files are attached too.
AttachAllFiles ==
    LET live  == {f \in Files : item[f].live}
        plain == {f \in live : ~ item[f].secret}
    IN  Apply("file", live, live, {}, {f \in plain : Embeds("attachment")}, live \ plain)

ApplyAttachFiles ==
    LET live  == {f \in Files : item[f].live}
        plain == {f \in live : ~ item[f].secret}
    IN  Apply("file", live, plain, {}, {f \in plain : Embeds("attachment")}, live \ plain)

ApplyUserParameters ==
    LET live  == {p \in Parameters : item[p].live}
        plain == {p \in live : ~ item[p].secret}
        texts == {p \in plain : item[p].text}
    IN  Apply("param", live, plain \ texts, {},
              {p \in texts : Embeds("text")} \cup {p \in plain \ texts : Embeds("attachment")},
              live \ plain)

\* embedSecret, when it does not fail.
EmbedSecret(i) ==
    IF publicKey
    THEN /\ tree' = EmbedValue(tree, item[i].target, i)
         /\ header' = header \cup {"fingerprint"}
         /\ UNCHANGED comments
    ELSE comments' = comments \cup {"warning"} /\ UNCHANGED <<tree, header>>

\* Mutant: only what is embedded is listed.
ListWhenEmbedded(i) ==
    secrets' = IF Embeds("secret") THEN secrets \cup {i} ELSE secrets

List(i) == secrets' = secrets \cup {i}

\* Vault answers: the policy of who is no member any more does not let it give the
\* content.  Promise.all fails with the first failure; what the other answers would
\* bring is no longer waited for.
VaultAnswers(i) ==
    LET gone == ~ item[i].secret \/ "membership" \in missing
        bad  == Embeds("secret") /\ publicKey /\ EmbedFails(tree, item[i].target)
    IN  /\ i \in pending
        /\ IF gone THEN UNCHANGED secrets ELSE List(i)
        /\ IF gone \/ bad
           THEN /\ tree' = IF gone THEN tree ELSE EmbedValue(tree, item[i].target, i)
                /\ pending' = {} /\ Failed({"error"}) /\ UNCHANGED header
           ELSE /\ pending' = pending \ {i}
                /\ step' = IF pending = {i} THEN After(StageOf(i)) ELSE "wait"
                /\ IF Embeds("secret") THEN EmbedSecret(i)
                   ELSE UNCHANGED <<tree, header, comments>>
        /\ UNCHANGED <<item, document, query, missing, publicKey, rows, attachments>>

\* The request, or the program that has its answer, is not done.
Served == \/ step \in {"publicKey", "wait"} \cup Stages
          \/ step = "answered" /\ query = ApiQuery

\* A PATCH of another client makes a record public: its content leaves Vault.
MakePublic(i) ==
    /\ Served /\ i \in Items \ Keys /\ item[i].secret
    /\ item' = [item EXCEPT ![i].secret = FALSE]
    /\ UNCHANGED <<document, query, step, missing, publicKey, tree, rows, pending, answer>>

\* DELETE of a record, or of the stream with all its records: their contents leave
\* Vault before the rows go.
RemoveRecords(S) ==
    /\ Served
    /\ S = Items \/ (\E i \in Items \ Keys : S = {i})
    /\ \E i \in S : item[i].live \/ item[i].secret
    /\ item' = [i \in Items |->
                  IF i \in S THEN [item[i] EXCEPT !.live = FALSE, !.secret = FALSE] ELSE item[i]]
    /\ UNCHANGED <<document, query, step, missing, publicKey, tree, rows, pending, answer>>

\* An administrator removes or adds the user as a member; the user removes or
\* registers the default key.
ChangeRights ==
    /\ Served /\ missing' \in SUBSET {"membership", "publicKey"}
    /\ UNCHANGED <<item, document, query, step, publicKey, tree, rows, pending, answer>>

\* The `api-v1-secrets' service: a program asks for a secret that is listed.  It looks
\* for the public key, the record, the stream and the content, in this order.
GetSecret(i) ==
    /\ step = "answered" /\ query = ApiQuery /\ i \in secrets
    /\ step' = IF missing = {} /\ item[i].secret THEN step ELSE "secret not found"
    /\ UNCHANGED <<item, document, query, missing, publicKey, tree, rows, pending, answer>>

FileNext ==
    \/ Get \/ GetApiV1Config \/ GetPublicKey
    \/ ApplyEncryptKeys \/ ApplyAttachFiles \/ ApplyUserParameters
    \/ \E i \in Items : VaultAnswers(i) \/ MakePublic(i) \/ GetSecret(i)
    \/ \E S \in SUBSET Items : RemoveRecords(S)
    \/ ChangeRights

FileSpec == FileInit /\ [][FileNext]_fileVars

-----------------------------------------------------------------------------
Complete == step = "answered" /\ "error" \notin comments
            /\ document.format \notin {"empty", "scalar"}

\* The records that a request means to embed.
Claims ==
    {i \in DOMAIN rows :
        /\ rows[i].live
        /\ IF rows[i].secret THEN Embeds("secret") /\ publicKey
           ELSE IF rows[i].text THEN Embeds("text") ELSE Embeds("attachment")}

\* j comes after i: a later stage; in a stage, a secret after what is not, and
\* otherwise the one that was updated later.
Later(j, i) ==
    \/ <<StageOf(i), StageOf(j)>> \in {<<"key", "file">>, <<"key", "param">>, <<"file", "param">>}
    \/ /\ StageOf(i) = StageOf(j) /\ ~ rows[i].secret
       /\ \/ rows[j].secret
          \/ rows[j].target > rows[i].target
          \/ rows[j].target = rows[i].target /\ j > i

\* An answer without an error has at a path the value that comes last, in
\* whatever order Vault answers; only of two secrets of one stage either may be
\* there.
LastWins ==
    Complete => \A p \in DOMAIN tree : tree[p] \in Items =>
        \A j \in Claims : p \in Paths(tree, rows[j].target) => ~ Later(j, tree[p])

\* An answer without an error has every value that it means to embed, or one
\* that replaced it at its path or above; unless the file has no services.
EverythingEmbedded ==
    Complete /\ ~ Detached => \A i \in Claims :
        \A p \in Paths(document.tree, rows[i].target) :
            \E q \in DOMAIN tree : IsPrefix(q, p) /\ tree[q] \in Claims

\* Wherever it fails, what no target names stays as it is registered.
OthersKept ==
    \A p \in DOMAIN document.tree :
        (\A i \in DOMAIN rows : \A q \in Paths(tree, rows[i].target) : ~ IsPrefix(q, p)) =>
            /\ p \in DOMAIN tree
            /\ tree[p] # document.tree[p] => document.tree[p] = Nil /\ tree[p] = Map

\* A program that embeds by itself gets everything it needs: each live record
\* is a text in the file, attached, or listed as a secret; and a secret that it then
\* does not find has been made public or removed since, by itself or with its stream,
\* or the user is no member any more or has no default key.
NothingLost ==
    /\ Complete => \A i \in DOMAIN rows :
          rows[i].live => \/ i \in (IF rows[i].secret THEN secrets ELSE attachments)
                          \/ rows[i].text /\ ~ rows[i].secret
    /\ step = "secret not found" =>
          missing # {} \/ \E i \in secrets : rows[i].secret /\ ~ item[i].secret
=============================================================================
