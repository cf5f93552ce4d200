# Formal models of the SINETStream configuration server

TLA+ modules about the system of this repository, with the TLC configurations
that check small instances and TLAPS proofs that hold for all instances. Paths
are relative to `src/`; `srv` stands for `docker/nodejs/sscfg-srv/src`, `ui` for
`docker/nginx/sscfg-ui/src`.

## 1. The system

Users (through the web interface) and programs (through SINETStream clients)
talk REST to a Feathers server. Its rows are in PostgreSQL; keys, passwords,
secret contents and policies in HashiCorp Vault; the Vault tokens of sessions in
Redis. A PHP page behind Shibboleth registers users of the identity federation,
and logs them in to Vault by itself.

Every mutation of the server runs the same way: *before* hooks, one statement,
*after* hooks. `srv/hooks/transaction.ts` opens a READ COMMITTED transaction in
the before-hooks, commits it last in the after-hooks, and rolls it back in the
error hooks. Four things make this hard:

* **Vault is not part of the transaction.** What is written there between the
  statement and the commit stays when the commit fails.
* **Hooks call services again.** A nested call without the caller's transaction
  starts one of its own, which commits at once whatever becomes of the outer
  one, and waits for rows that the outer one, or another request, has locked.
* **Node interleaves requests at every `await`**, and several servers may run.
  What a hook reads is not locked, and may be stale at the statement or at the
  commit. Only unique indexes and foreign keys speak last.
* **Browsers lag behind.** A tab draws the rows its store has, which come from
  answers that may arrive late, in another order, or for another user.

| Component | State | Operations | Meets | Correct when | Status |
|---|---|---|---|---|---|
| data keys (`srv/hooks/process-encrypt-keys.ts`) | `encrypt_keys`; Vault | POST (a new version), PATCH (flag); removal of the stream | streams, Vault | versions 1..n, each with its secret; one enabled per target; old versions frozen | modelled |
| streams (`srv/services/streams`, `srv/hooks/populate-topics.ts`) | `streams`, `topics` | POST, PATCH, DELETE (cascade) | every table of a stream | topics are those of the file; nothing outlives the stream; nobody waits for ever | modelled |
| public keys (`srv/hooks/process-public-key.ts`) | `public_keys`; Vault | POST, PATCH, DELETE | Vault; itself through nested calls | one default key; in Vault while the row exists; no circle of waiting requests | partly |
| members and policies (`srv/hooks/update-vault-policy.ts`, `members-only.ts`, `must-be-administrator.ts`) | `members`; Vault policies | POST, PATCH, DELETE | streams, Vault | policy = rows; an administrator remains | modelled |
| access keys (`srv/hooks/process-access-keys*.ts`, `srv/schedule.ts`) | `access_keys`; AppRoles, secret ids, policies, entries in Vault | POST, DELETE, find, log-in with a key, hourly clean-up | Vault, schedule | a listed key works; a key that is gone opens nothing | modelled |
| attached files, user parameters (`srv/hooks/process-attach-files.ts`, `process-user-parameters.ts`) | two tables; Vault when `secret` is on | POST, PATCH (moves the content), DELETE | Vault | the content is in one place, and is the one given last | modelled |
| users (`srv/hooks/process-users.ts`) | `users`; policies and accounts in Vault | POST, change of the password, removal | Vault, authentication | a live user can log in, a removed one opens nothing | partly |
| authentication (`srv/authentication.ts`, `redis.ts`) | JWTs, Redis, wrapped tokens, cubbyhole | log-in by password, API key, Shibboleth; clean-up | Redis, Vault, users | a session has the Vault token of its own user | modelled |
| Shibboleth front end (`docker/shibboleth/image/php`) | the same rows and Vault, on its own | first log-in, policy, role, wrapped token | users, authentication | two first log-ins end in one user | modelled |
| configuration files (`srv/services/config-files`, `api-v1-*`, `srv/utils/sinetstreamConfigFile.ts`) | none of their own | GET: three stages of embedding | keys, files, parameters, Vault | every target gets its value, nothing else changes | modelled |
| encryption of secrets (`srv/utils/crypto.ts`) | none | encryption for the default public key | configuration files | only the owner reads a secret | partly |
| Vault client (`srv/services/sys-vault`) | the token per session | one call per operation | everything above | — | partly |
| session of the web interface (`ui/router`, `ui/store`, log-in and log-out views) | localStorage, memory and store of a tab | visit, log-in, log-out, reload | authentication | a tab shows nobody else's records | modelled |
| pages of the web interface (`ui/components`, `ui/views`) | store, forms | tables, dialogs | every service | the table shows what the server has | partly |
| database pool, read-only services, set-up, scripts | — | — | — | — | not modelled (section 7) |

The hard behaviours, each at its line, are the `hazards` of `PROJECT.json`.

## 2. Modules

| Module | Models | Extended by |
|---|---|---|
| `KeyHistory` | abstract specification of data keys: per target the versions 1..n, which grow by one or go with the stream | |
| `EncryptKeys` | data keys of one stream, with the removal of the stream | `MCEncryptKeys`, `EncryptKeysMet` |
| `EncryptKeysMet` | the same with two history variables: who has been overtaken, what a removal has missed | `MCEncryptKeysMet`, `EncryptKeysProofs` |
| `PublicKeys` | the public keys of one user | `MCPublicKeys`, `PublicKeysProofs` |
| `Members` | rows and policies of members, streams as far as they see them | `MCMembers`, `MembersProofs` |
| `Streams` | streams and topics | `MCStreams`, `StreamsProofs` |
| `AccessKeys` | access keys, log-ins with them, the clean-up job | `MCAccessKeys`, `AccessKeysProofs` |
| `SecretContents` | attached files and user parameters | `MCSecretContents`, `SecretContentsProofs` |
| `Accounts` | users, passwords, the Shibboleth front end, log-ins, the clean-up of wrapped tokens | `MCAccounts`, `AccountsProofs` |
| `Browser` | JWTs, Vault tokens in Redis, the tabs of one browser | `MCBrowser`, `InterfaceProofs` |
| `ConfigFiles` | a GET of a configuration file, by a person or a program | `MCConfigFiles`, `StreamsProofs` |
| `Pages` | tables, dialogs and store of one tab, for seven kinds of record | `MCPages`, `InterfaceProofs` |

`InterfaceProofs` extends `Pages` and `Browser`, `StreamsProofs` extends `Streams`
and `ConfigFiles`: so names differ in the two of each pair (`BrowserSpec`,
`FileSpec`, `step`, `sessions`, ...).

How they fit together. Streams are the root: `EncryptKeys` and `Members` contain
the removal of the stream they hang on, `SecretContents` and `AccessKeys` have
removal of their own. `Accounts` ends where a session begins, `Browser` begins
there. `Pages` takes each request of the server as one step, `ConfigFiles` each
record as a row that may be made public at any time; what happens inside those
steps is what the other modules are about.

### How to read a module of the server

* A *handler* is one request being served. `pc[h]` names the call it makes next;
  the action that starts a request contains its before-hooks up to the first call
  that matters, `Answer` drops what the hooks kept.
* **One action is one access to a shared store** (PostgreSQL, Vault, Redis).
  Between two of them Node may run other handlers, and other servers may act.
  Reads that only lead to a rejection are merged with the start of the request.
* What a transaction wrote stays with its handler (`row`, `own`, `data`) until
  the commit; `db` is what is committed and what everybody else reads. A nested
  transaction without `trx` changes `db` at once.
* Locks are derived from `pc`: a statement is disabled while it would wait.
* `Fail` is any call that fails at a `pc` in `Faults`: the row is rolled back,
  what Vault has accepted stays. A crash of the server is the same to both.
* An id is chosen when a request begins, though PostgreSQL takes it at the
  INSERT: nobody else can know it before.
* **History variables** say what has met or failed (`crossed`, `doubtful`,
  `disturbed`, `damaged`, `mixed`, `late`, ...). No action of the system depends
  on them; they let a property name its exceptions exactly.

### Correspondence with the code

`PROJECT.json` maps every definition to its lines. In short:

* **`EncryptKeys`.** POST: `PrepareEncryptKey` (`generateVersion` reads the newest
  version), `InsertKey` or `InsertRefused` (unique index, foreign key),
  `DisableOldKey` (a nested PATCH that commits at once), `RegisterEncryptKey`,
  `CommitCreate`. PATCH: `DisallowModifyOldRecord`, `PatchKey`, `CommitPatch`.
  Removal: `PrepareCleanupSecrets` (looks keys up outside the transaction),
  `DeleteStream`, `RemoveSecret` (each call of the `Promise.all`), `CommitRemove`.
* **`PublicKeys`.** `CreateKey`, `PatchKey`, `RemoveKeys` are the before-hooks
  (and the rows that a DELETE finds); `SelectRows` begins the DELETE of all keys;
  `UpdateOtherRecord` clears the flags of the others in a nested transaction;
  then the statement; `CountDefaultRecords`, `ChooseDefaultRecord` (the code takes
  the key updated last, the model any) and `EnsureDefaultRecord` are
  `ensureDefaultRecord`; `RegisterPublicKey`, `UnregisterPublicKey`; `Commit`.
* **`Members`.** `Start` is the transaction and `mustBeAdministrator`;
  `InsertMember` and `UpdateMember` the statement with index, foreign key and
  `exceptMyself`; `GetPolicy` computes the whole policy from the rows that the
  transaction sees, `UpdateVaultPolicy` writes it. A policy is a set of grants;
  grants of a removed stream stay, and are worth nothing.
* **`Streams`.** PATCH is `upsertGraph`: fetch of the topics, then deletion and
  insertion of the difference, then the row. A configuration file is the set of
  its topics. A PATCH without a file clears the topics. A request refused for its
  name or its sender changes nothing and is left out.
* **`AccessKeys`.** Creation is policy, role, secret id, entry, commit; removal is
  the DELETE and the same backwards. Finds, log-ins and the job ask Vault about
  each row of `found`.
* **`SecretContents`.** `beforePatchProcess` is `Patch`, and `GetCurrentValue` and
  `GetContentFromVault` when the current value is needed (`Complete`). The two
  services differ in what is left in Vault (`EntryOf...`).
* **`Accounts`.** The front end's statements in their order: the row of a first
  log-in (with its ON CONFLICT), policy, role, wrapped secret id, cubbyhole entry,
  cookie; then the log-in with it. A refusal that `vault_api` hides is `refused`.
  The clean-up lists every entry of the cubbyhole, whatever its age, because the
  filter of the schedule is asynchronous and keeps all; but it cuts the last
  character of each name (`Cut`), and what it then removes does not exist. An
  account that Vault refuses (`UndoPolicy`), or takes without the server getting
  the answer (`AccountHalfDone`), makes the policy go.
* **`Browser`.** One action per step of the guard, the log-in pages, `create` of
  the authentication service, `LogoutView`; `Restart` is Redis losing everything.
* **`ConfigFiles`.** A tree of paths; three stages, in each what is not secret in
  the order of the query (`InOrder`) and secrets as Vault answers; `Trees` are the
  documents after each embedding, `Paths` expands `*`, and a value at a path
  replaces all that is below it (`AddValue`). While it runs, others make records
  public, remove them or the stream, and change what the user has of membership
  and default key (`missing`); `GetSecret` looks again for all of that. The
  services look records up for each other without their hooks (those are for
  external calls): a membership that is lost is noticed when Vault is asked.
* **`Pages`.** One kind of record at a time; the form of the dialog that is open,
  requests (`calls`), finds and answers under way, the rows of the server with
  others changing them. A form may be sent again before there is an answer
  (`Submit`: the button is disabled only while a rule is broken), and its dialog
  closed while requests of it are under way (`Cancel`, or the answer to another of
  them). Every dialog is mounted by `v-if`: one that is closed is gone, its
  requests go on, their answers reach the store, and its events reach nobody
  (`Unheard`). `Fail` is a request without effect on the server; `AnswerLost` is
  one that the server has carried out and the tab takes for refused, because the
  answer is lost or the get that completes it fails (`encryptKeys.ts`,
  `members.ts`). That a request fails and that the tab hears of it is one step: a
  dialog shows the error and nothing else happens, so it makes no difference when.

## 3. Runs

Each run is one question. All of them pass; `CHECK_DEADLOCK FALSE`, because a
system whose ids are used up and whose requests are answered stops.

| Run | Instance | States | Properties |
|---|---|---|---|
| `encrypt_keys_history` | 2 handlers, 1 target, 2 keys; failures except in `cleanupSecrets`; fair | 3,733 | `KeyHasSecret`, `KeepsHistory` (refinement of `KeyHistory`), `EveryRequestAnswered` |
| `encrypt_keys_flags` | 3 handlers, 2 targets (keys of one are only turned off, of the other only on), 3 keys; failures before the Vault write | 887,444 | `AtMostOneEnabled`, `LatestStaysEnabled`, `OldRecordsFrozen`, `NoSecretAfterRemoval` |
| `public_keys_replacing` | 2 handlers, 3 keys, creations and turning on; fair | 16,381 | `DefaultOrReplacing`, `NoCyclicWait`, `EveryRequestAnswered` |
| `public_keys_vault` | 3 handlers, 3 keys, all operations, failures before Vault is told | 3,614,415 | `VaultMatches`, `OneDefaultUnmet` |
| `members_access` | 2 handlers, 2 users, 2 streams, 3 rows, any failure | 473,549 | `PolicyMatches`, `AdminRemains`, `OnlyAdministratorsChange` |
| `streams` | 2 handlers, 2 streams, 2 topics, 4 writing requests, any failure; fair | 245,656 | `TopicsMatch`, `EveryRequestAnswered` |
| `access_keys` | 2 handlers and the job, 2 users, 2 keys, any failure | 990,989 | `RowUsable`, `NothingLeft`, `ReadsOnlyWithRow`, `FindsComplete` |
| `secret_contents` | 2 handlers, a file and a parameter, a text and a binary, any failure | 1,418,045 | `ContentWhereFlagSays`, `ContentKept` |
| `config_files` | 1 key, 2 files, 1 parameter, 4 targets, 2 services, 7 documents, 5 queries, 1 change by others or the removal of the stream | 3,466,956 | `FileTypeOK`, `LastWins`, `EverythingEmbedded`, `OthersKept`, `NothingLost` |
| `accounts` | 2 handlers, 2 names, 2 ids, 2 passwords, 1 wrapped token, any failure | 1,156,464 | `LiveUsersCanLogIn`, `RemovedForGood`, `OwnData`, `TokenIsGood`, `TokenUsedOnce` |
| `browser` | 2 tabs, 2 users, 2 log-ins, JWTs of 2 ticks, restarts of Redis | 2,973,865 | `SessionHasToken`, `NothingOfOthers` |
| `pages` | 7 kinds in turn, 2 names, 3 ids, 2 changes, 2 requests of the tab at a time, any request or find failing, any answer lost | 2,184,504 | `TypeOK`, `StoreAgrees`, `ConfigShown`, `RefusedOnlyIfBehind`, `NewIsNew` |

Where no run checks a type invariant, it is proved only (section 5); every other
invariant and action property is both checked by its run and proved.

### Bounds

* Each set of ids bounds the creations of a behaviour. Two handlers show every
  race of two requests; three (`encrypt_keys_flags`, `public_keys_vault`) one
  request racing two, which it takes for a flag cleared by one while two others
  commit. Two users and two streams let requests share both, either or neither; the third row of
  `members_access` lets a member be removed and come back. Two access keys let a
  find meet one key being created and one being removed.
* The contents of `secret_contents` are one of each kind, so that a content may
  be replaced by another (of the parameter) and `isBinary` be wrong.
* The targets of `config_files` (`*.a`, `s.a`, `s.a.b`, `x*.a`) overlap: one is
  the prefix of another, one names the same path by the wild card, one is
  accepted by `process-target.ts` and fails in the embedding. Which record may
  have which of them is bounded (`MCTargetsOf`), such that any two of them meet in
  one stage or in two, and so are the changes that others make (`Bounds`, a
  constraint of TLC). The documents are one of each outcome of the parser and the
  two versions of the format.
* `browser` has two ticks, so that a JWT may expire before, between and after
  two log-ins.
* `pages` has two changes and two requests at a time, so that one may be overtaken
  by another, a form sent twice and a dialog closed with a request under way. The
  constraint `Bounds` of `MCPages` keeps three things (requests, finds, gets of the
  configuration file) under way at a time, so that two requests meet one find, and
  fewer once the table is known to differ from the server and no find of
  everything is on its way, where little is claimed any more; it lets a table have
  at most one row at first (members: two), and new data keys be enabled.
* `MaxRequests` of `streams`, `MaxNow` of `browser`, `MaxChanges`, `MaxIds` and `MaxFinds`
  of `pages` bound counters in the guards, `Calls` of `pages` the requests of the tab.

For the modules with a proof the theorems remove the bounds. Symmetry (`MC*`) is
used without liveness only: no action orders handlers, requests, ids or users.

### Fairness

`FairSpec` is strong fairness of each handler's own steps (weak fairness of the
single removals from Vault): Node resumes a handler whose call has returned,
Vault answers or fails, and the lock queues of PostgreSQL are first come, first
served, so that a statement that is enabled again and again is executed. `Fail`
is no part of it: requests are answered without failing. Clients are not assumed to
send anything. `Members`, `SecretContents` and `Accounts` have no liveness
property: nobody there waits for another but for a row that its holder gives
back. That expired access keys are removed in the end was left out, for
the run would take longer than all others together.

## 4. What the exceptions say

A property names the cases in which the code does not keep it. These are facts
about the code, each reached by the run in a behaviour:

* **Data keys.** A PATCH that was checked before a POST committed changes a
  version that is no longer the newest (`OldRecordsFrozen`). A key created while
  its stream is being removed stays in Vault (`NoSecretAfterRemoval`). A POST
  that fails after `DisableOldKey` leaves no enabled version
  (`LatestStaysEnabled` is checked with failures up to that call).
* **Public keys.** Two POSTs or PATCHes at the same time leave two defaults, a
  POST refused after the flags are cleared leaves none (`OneDefaultUnmet`), and
  with removals two requests may promote each other's locked key and wait for
  ever in transactions that look idle to PostgreSQL (`NoCyclicWait` is checked
  without removals). A key committed after a DELETE of all keys has found its
  rows, and before the statement begins, loses its row and stays in Vault
  (`VaultMatches`; the history variable `missed` names these keys and no other).
* **Members.** Two requests about one user may write the older policy last, a
  commit that fails leaves grants (`PolicyMatches`); two administrators may
  remove each other (`AdminRemains`); a change may be committed for a sender who
  has been demoted meanwhile (`OnlyAdministratorsChange`).
* **Streams.** Two PATCHes that meet leave the topics of both files, and a PATCH
  of the comment alone leaves none; the next PATCH with a file, alone, puts it
  right (`TopicsMatch`).
* **Access keys.** A creation or removal that fails half-way leaves a key
  `damaged`: its row is listed and every find of its owner, and the job, fails
  (`FindsComplete`, `NothingLeft`).
* **Contents.** Two PATCHes of one record, or a failing commit, may leave its
  content in neither place (`ContentWhereFlagSays`).
* **Configuration files.** Of two secrets of one stage at one path either may be
  there (`LastWins`). A file of version 2 whose `config` is no map loses its
  values without an error (`EverythingEmbedded`). Which records an array of the
  answer names after a failed stage is not stated. A secret that is listed is not
  found later when it was made public or removed, when the stream was, or when the
  user lost the membership or the default key (`NothingLost`).
* **Accounts.** A policy refused to the front end is noticed by nobody
  (`LiveUsersCanLogIn`). The clean-up takes every entry of the cubbyhole for that
  of an expired token, and removes none, because it cuts the names: entries of
  tokens still to be used stay (`TokenIsGood`), and so do those of expired ones.
  An account that Vault took while its answer was lost stays without its policy
  (`RemovedForGood`). The role of a removed Shibboleth user stays in Vault, a
  cookie is set also when the front end's commit fails, a local user with the
  name of an eppn keeps its owner out, and a log-in without a row gives a JWT
  without a subject.
* **Sessions.** Redis losing its entries leaves JWTs without a Vault token
  (`SessionHasToken`); a log-out may be overtaken by a find, and after an error
  401 another user finds the records of the one before (`NothingOfOthers`).
* **Pages.** A refused PATCH leaves the form's values in the table, and a find
  brings a deleted row back. A change that the server made while the tab was told
  that it had failed (a lost answer, a get that fails after the change) is not
  shown, and neither are the other rows or the configuration file that a dialog
  closed too early would have found again (`StoreAgrees`, `ConfigShown`). A form
  sent again before the answer is there takes the name that it has taken already
  (a new version of the target), or is refused (`NewIsNew`, `RefusedOnlyIfBehind`);
  and the page of members offers users who are members already
  (`RefusedOnlyIfBehind`).

## 5. Proofs

TLAPS checks eight modules to the last leaf. The constants are arbitrary, under
the assumption of each module (`ConstantsAssumption`, `FilesAssumption`,
`BrowserAssumption`): the `No...` values are no ids or rows, bounds are natural
numbers, clients send what the API accepts, and in a file only maps have
something below them. Every module of proofs has the same plan: an invariant
`IInv` that contains `TypeOK` and is inductive (`Invariance`), one lemma for each
action, and theorems that follow from `IInv`, or from `IInv` and a further
invariant where a hypothesis is needed.

* **`EncryptKeysProofs`.** `IInv`: what a handler at each `pc` knows of its request
  (`ContextInv`), which locks exclude each other (`LockInv`), that ids are used
  once (`FreshInv`), and that an inserted row carries the version after the
  newest (`NextInv`). The last is why versions have no gap: two creates may read
  the same version, but the index keeps the second waiting and then refuses it.
  Theorems: `TypeCorrect`, `Gapless`, `Refinement` (`Spec => KeepsHistory`),
  `SecretsKept` if no call fails in `cleanupSecrets`, `OneEnabled` if no client
  turns a key on by PATCH. `LatestEnabled` (`LatestStaysEnabled` if no call fails
  after `DisableOldKey`) needs `LatestInv`: of a target whose keys clients only
  turn on, the newest is enabled, or the create that has cleared it is under way.
  Over `EncryptKeysMet`: `OldFrozen` (`FrozenInv`: who is not overtaken patches
  the newest version) and `NothingLeft` (`LeftInv`: a secret in Vault has a row,
  or was missed by the removal, or its create is about to commit; if that commit
  does not fail).
* **`PublicKeysProofs`.** `IInv`: contexts, fresh ids, that a row locked by
  one request is changed by no other, and that a DELETE takes what it has found.
  `VaultInStep` (`VaultMatches` if neither
  Vault nor commits fail), `SomeoneGoesOn` (`NoCyclicWait` if clients create keys
  and turn them on: who waits to promote a key is the create of a row that nobody
  has seen), `DefaultKept` (`DefaultOrReplacing` without removals, turning off and
  failures: who clears a default is going to commit one), `OneDefault`
  (`OneDefaultUnmet`: while requests have neither met nor failed, at most one of
  them is under way, and `AloneInv` says at each `pc` what it is going to leave).
* **`MembersProofs`.** `IInv`: contexts, what sequences and locks keep apart
  (`PairInv`), and `RowsConsistent`. `RowsKept`; `AdminKept` and `SenderKept` (while no two
  requests about a stream overlap, who sent a request is still an administrator
  when it is committed, and `exceptMyself` keeps the row from being the sender's:
  `OverlapInv`); `PoliciesKept` (a request that met no other about the user writes
  what its transaction sees: `MentionInv`, `CrossInv`, `PolicyInv`).
* **`StreamsProofs`.** `IInv`: contexts, `Current` (a PATCH that is not `late` has
  read the stream as it is), `Apart` (ids from the sequence, row locks), topics
  have streams. `TopicsKept`, `TopicsOwned`.
* **`StreamsProofs`, of configuration files.** `FileInv`: each live record that has
  been read is in its list, is a text, or Vault is still asked for it
  (`FilesLoseNothing`). `EmbedInv` adds what the tree of the answer is at every
  moment. `TreeInv`: only maps have something below them, the services of the
  registered file are still there, and what no target names is as it was, also in
  the middle of a stage that fails. `OrderInv`: while nothing has failed, all
  records read so far are embedded or Vault is asked for them, and none that is
  embedded comes later than what is at its path. The steps of it are facts about
  the algorithm: `EmbedAdds` (what `embedValue` does, wherever it stops),
  `AddedTree`, `AddedOthers`, `AddedEmbedded`, `AddedLast` (what one embedding
  keeps), `InOrderIs` (records can be sorted) and `EmbedStage` (a whole stage).
  The recursion of `Trees` and the sorting are dealt with by induction over sets
  of numbers: `Upwards` says that a set of naturals with 0 and every successor has
  all of them, and follows from `NatLessThanWellFounded` and `WFMin` of the
  library, neither of which needs an operator as a parameter; `TreesAre` shows
  with it that the recursive function exists. `FilesTypes`, `LastOneWins`,
  `AllEmbedded`, `RestIsKept`.
* **`AccessKeysProofs`.** `IInv`: `Creation` and `Removal` (what has been done in
  Vault at each `pc`), `Apart`, and per key `Settled` (nobody creates a key that
  others have found), `Usable`, `Left`. `KeysUsable`, `VaultCleared`,
  `TokensBounded`, `FindsAnswered`.
* **`SecretContentsProofs`.** `Agrees(r, v, l)` says that a row, an entry of Vault
  and the content given last fit together. `IInv`: every record that is not
  doubtful agrees (`Rest`), and for a request that has met nobody, what it is
  going to leave agrees (`Right`, which looks ahead from its `pc` to the commit);
  requests about one record know that they have met (`Apart`). The lemmas
  `WholeAgrees`, `SameAgrees`, `ContentAgrees`, `FlagAgrees` are the cases of
  `beforePatchProcess`. `ContentPlace`, `ContentLast`.
* **`InterfaceProofs`, of pages.** `IInv`: every form, in the dialog or under way,
  is one that a dialog makes, and as long as no row has changed since the dialog
  was opened there is no reason to refuse it and no name that is taken, and every
  request that the server has carried out is known by the row it made (`FormInv`).
  An answer under way that nothing has overtaken shows the rows as they are, and a
  row that the table shows differently is about to come, by an answer or by a find
  that is made or that the answer of a dialog still there will ask for (`Coming`),
  or the table is known as stale (`StoreInv`); the configuration shown follows its
  stream in the same way (`ConfigInv`). Opening, sending, closing and being
  overtaken by a change of the rows are lemmas about all requests at once
  (`Submitted`, `Served`, `OvertakenCalls`, `UnheardCalls`). `PagesTypes`,
  `StoreFollows`, `ConfigFollows`, and the action properties `OffersAccepted`,
  `NothingTaken`.
* **`InterfaceProofs`, of sessions.** `SessionInv`: contexts of tabs, `Backed` (a JWT
  of a browser has its entry in Redis, which lasts at least as long), `Own` (store
  and finds of a tab belong to its user). `SessionTypes`, `TokenLasts`,
  `StoreIsOwn`.
* **`AccountsProofs`.** `IInv` has four parts. `RowsInv`: who holds a name keeps
  others from it (`Apart`), and every id in an account, an entry of the cubbyhole
  or a session belongs, or will belong, to the name that it stands next to
  (`Named`, also of an id whose row is still to be inserted). `VaultInv`: what a
  handler has done in Vault (`Done`), that a user whom no request has begun to
  change has all it needs (`Usable`), and that an id which has and gets no row has
  nothing (`Cleared`); `WithinKeeps` says once that a holder disturbs nobody
  else. `TokensInv` and `Spent`: where the entry of a token is, and that a secret
  id has one owner. `UsersCanLogIn`, `RemovedStayOut`, `SessionsOwn`,
  `TokensWork`, `TokensOnce`.

Only model-checked: liveness (`EveryRequestAnswered` in three runs), for fairness
and ENABLED are out of the prover's reach. Every invariant and every action
property of the runs is also a theorem. Hypotheses (on `Faults`, or on what
clients do) are those of the run that checks the property.

## 6. Plan

Done, in this order: data keys, public keys, members; streams and access keys;
contents; users and log-ins; sessions; configuration files; pages; proofs of all
their invariants and action properties. What is left, most worthwhile first:

1. `PublicKeys`: PATCH without an id as an action of its own.
2. A pool of connections that the step structure of the modules above is composed
   with, once the size of the pool is part of the repository.
3. `Accounts`: profiles and the flag systemAdmin.

## 7. Not modelled

* **Database pool** (`srv/objection.ts`): its size and time-out are defaults of a
  library; the models grant every request the connections that it asks for.
* **Read-only services** (`info`, `stream-names`, `topics`): no state changes.
* **Set-up and wiring** (`srv/app.ts`, channels, logger): no state of their own.
* **Operation scripts** (set-up, unsealing, backup, restore, `usermgmt.py`): run
  by hand, one at a time, on containers and files. Backup saves the volumes one
  after the other.
* **Within the modelled parts:** formats of keys and encryption; times except
  expiry; comments and wording; paging and filters of finds; avatars and
  profiles; the renewal of the server's own Vault token; layout of pages, key
  pairs made in the browser, and the warnings about shared topics of
  `ConfigFileTextarea.vue`, which depend on timing inside vee-validate. The
  hooks that only refuse reads change no state and are left out.
