------------------------------- MODULE Members ------------------------------
(***************************************************************************)
(* The members of streams and the Vault policies of users: the `members'   *)
(* service with mustBeAdministrator, exceptMyself and updateVaultPolicy,   *)
(* and the creation and removal of streams as far as members are concerned.*)
(*                                                                         *)
(* A user reads the secrets of a stream with a Vault token whose policy    *)
(* user-<uid> lists the streams of the user.  Every request about a user   *)
(* computes the whole policy from the rows that its transaction sees and   *)
(* writes it to Vault before it commits.                                   *)
(*                                                                         *)
(* An action is one access to a shared store, as in EncryptKeys.           *)
(***************************************************************************)
EXTENDS Naturals, FiniteSets

CONSTANTS
    Handlers,   \* requests being served at the same time
    Users, Streams,
    MemberIds,  \* ids of rows of members (bounds the number of insertions)
    Faults,     \* values of pc at which the handler's next call may fail
    NoId, NoRow, NoUser

Row   == [stream : Streams, user : Users, admin : BOOLEAN]
Grant == [stream : Streams, admin : BOOLEAN]
PCs   == {"idle", "write", "policy", "put", "commit"}
Ops   == {"none", "add", "change", "remove", "open", "close"}

ASSUME ConstantsAssumption ==
    /\ NoId \notin MemberIds
    /\ NoRow \notin Row
    /\ NoUser \notin Users
    /\ Faults \subseteq PCs \ {"idle"}

VARIABLES
    db,         \* db[m]: the committed row of member m
    live,       \* the streams whose row is committed
    taken,      \* ids taken from the sequence of streams ...
    used,       \* ... and from that of members
    policy,     \* policy[u]: what the policy of user u grants
    pc,         \* pc[h]: the call handler h makes next
    op, actor,  \* the request of h, and the user who sent it
    mid, row,   \* the row of members it is about (close: an admin's row)
    plan,       \* plan[h]: the policy that h has computed
    \* History variables: no action of the server depends on them.
    crossed,    \* handlers whose request ran together with another one
                \* about the same user
    doubtful,   \* users with such requests, or with a failed commit, and no
                \* request that ran alone since
    overlapped  \* streams that two requests were about at the same time

rows    == <<db, live, taken, used>>
request == <<op, actor, mid, row>>
history == <<crossed, doubtful, overlapped>>
vars    == <<rows, policy, pc, request, plan, history>>

TypeOK ==
    /\ db \in [MemberIds -> Row \cup {NoRow}]
    /\ live \subseteq taken /\ taken \subseteq Streams
    /\ used \subseteq MemberIds
    /\ policy \in [Users -> SUBSET Grant]
    /\ pc \in [Handlers -> PCs]
    /\ op \in [Handlers -> Ops]
    /\ actor \in [Handlers -> Users \cup {NoUser}]
    /\ mid \in [Handlers -> MemberIds \cup {NoId}]
    /\ row \in [Handlers -> Row \cup {NoRow}]
    /\ plan \in [Handlers -> SUBSET Grant]
    /\ crossed \subseteq Handlers
    /\ doubtful \subseteq Users
    /\ overlapped \subseteq Streams

Init ==
    /\ db = [m \in MemberIds |-> NoRow]
    /\ live = {} /\ taken = {} /\ used = {}
    /\ policy = [u \in Users |-> {}]
    /\ pc = [h \in Handlers |-> "idle"]
    /\ op = [h \in Handlers |-> "none"]
    /\ actor = [h \in Handlers |-> NoUser]
    /\ mid = [h \in Handlers |-> NoId]
    /\ row = [h \in Handlers |-> NoRow]
    /\ plan = [h \in Handlers |-> {}]
    /\ crossed = {} /\ doubtful = {} /\ overlapped = {}

-----------------------------------------------------------------------------
Busy(h)  == pc[h] # "idle"
Goto(h, l) == pc' = [pc EXCEPT ![h] = l]

\* The policy of u that the given rows call for.
Grants(members, u) ==
    {[stream |-> members[m].stream, admin |-> members[m].admin] :
        m \in {n \in MemberIds : members[n] # NoRow /\ members[n].user = u}}

\* mustBeAdministrator: u may change stream s as far as the committed rows say.
MustBeAdministrator(u, s) ==
    \E m \in MemberIds : db[m] = [stream |-> s, user |-> u, admin |-> TRUE]

\* What the transaction of h makes of its row, and the rows that it sees.
After(h) == IF op[h] = "remove" THEN NoRow ELSE row[h]
Seen(h)  == [db EXCEPT ![mid[h]] = After(h)]

\* The requests at work about user u.
About(u) == {g \in Handlers : Busy(g) /\ op[g] # "close" /\ row[g].user = u}

\* The transaction of h begins, and the request has passed the check of its
\* before-hooks.
Start(h, o, a, m, r) ==
    LET met == IF o = "close" THEN {} ELSE About(r.user)
    IN  /\ ~ Busy(h)
        /\ op' = [op EXCEPT ![h] = o]
        /\ actor' = [actor EXCEPT ![h] = a]
        /\ mid' = [mid EXCEPT ![h] = m]
        /\ row' = [row EXCEPT ![h] = r]
        /\ Goto(h, "write")
        /\ crossed' = crossed \cup met \cup {g \in {h} : met # {}}
        /\ doubtful' = doubtful \cup {u \in {r.user} : met # {}}
        /\ overlapped' = overlapped \cup
             {s \in {r.stream} : \E g \in Handlers : Busy(g) /\ row[g].stream = s}
        /\ UNCHANGED <<db, live, policy, plan>>

\* The request of h is answered, the context of its hooks is gone.
Answer(h) == /\ Goto(h, "idle")
             /\ op' = [op EXCEPT ![h] = "none"]
             /\ actor' = [actor EXCEPT ![h] = NoUser]
             /\ mid' = [mid EXCEPT ![h] = NoId]
             /\ row' = [row EXCEPT ![h] = NoRow]
             /\ plan' = [plan EXCEPT ![h] = {}]
             /\ crossed' = crossed \ {h}
             /\ UNCHANGED overlapped

-----------------------------------------------------------------------------
(***************************************************************************)
(* Requests.                                                               *)
(***************************************************************************)
AddMember(h) ==
    \E a, u \in Users, s \in Streams, admin \in BOOLEAN, m \in MemberIds \ used :
        /\ MustBeAdministrator(a, s)
        /\ Start(h, "add", a, m, [stream |-> s, user |-> u, admin |-> admin])
        /\ used' = used \cup {m}
        /\ UNCHANGED taken

\* Mutant: the sender has to be a member.
ChangeByMember(h) ==
    \E a \in Users, admin \in BOOLEAN, m, n \in MemberIds :
        /\ db[m] # NoRow /\ db[n] # NoRow
        /\ db[n].user = a /\ db[n].stream = db[m].stream
        /\ Start(h, "change", a, m, [db[m] EXCEPT !.admin = admin])
        /\ UNCHANGED <<taken, used>>

ChangeMember(h) ==
    \E a \in Users, admin \in BOOLEAN, m \in MemberIds :
        /\ db[m] # NoRow
        /\ MustBeAdministrator(a, db[m].stream)
        /\ Start(h, "change", a, m, [db[m] EXCEPT !.admin = admin])
        /\ UNCHANGED <<taken, used>>

RemoveMember(h) ==
    \E a \in Users, m \in MemberIds :
        /\ db[m] # NoRow
        /\ MustBeAdministrator(a, db[m].stream)
        /\ Start(h, "remove", a, m, db[m])
        /\ UNCHANGED <<taken, used>>

\* POST /streams: addInitialMember makes its sender the first administrator.
OpenStream(h) ==
    \E a \in Users, s \in Streams \ taken, m \in MemberIds \ used :
        /\ Start(h, "open", a, m, [stream |-> s, user |-> a, admin |-> TRUE])
        /\ taken' = taken \cup {s}
        /\ used' = used \cup {m}

\* DELETE /streams/<id>
CloseStream(h) ==
    \E a \in Users, s \in Streams :
        /\ MustBeAdministrator(a, s)
        /\ Start(h, "close", a, NoId, [stream |-> s, user |-> a, admin |-> TRUE])
        /\ UNCHANGED <<taken, used>>

-----------------------------------------------------------------------------
(***************************************************************************)
(* The statement of the request.  A transaction that has done its own      *)
(* locks its row of members and keeps the stream from being deleted; one   *)
(* that deletes a stream locks the stream and its members.                 *)
(***************************************************************************)
Locked(h) == pc[h] \in {"policy", "put", "commit"}

Conflict(g, h) ==
    /\ row[g].stream = row[h].stream
    /\ \/ op[g] = "close" \/ op[h] = "close"
       \/ row[g].user = row[h].user

Unlocked(h) == \A g \in Handlers \ {h} : Locked(g) => ~ Conflict(g, h)

\* The unique index and the foreign key accept the row of h.
Insertable(h) ==
    \/ op[h] = "open"
    \/ /\ row[h].stream \in live
       /\ \A m \in MemberIds : db[m] # NoRow =>
            \/ db[m].stream # row[h].stream
            \/ db[m].user # row[h].user

InsertMember(h) ==
    /\ pc[h] = "write" /\ op[h] \in {"add", "open"}
    /\ Unlocked(h)
    /\ \/ /\ ~ Insertable(h)
          /\ Answer(h)
          /\ UNCHANGED doubtful
       \/ /\ Insertable(h)
          /\ Goto(h, "policy")
          /\ UNCHANGED <<request, plan, history>>
    /\ UNCHANGED <<rows, policy>>

\* Mutant: the hooks lack exceptMyself.
UpdateMyself(h) ==
    /\ pc[h] = "write" /\ op[h] \in {"change", "remove"}
    /\ Unlocked(h)
    /\ db[mid[h]] # NoRow
    /\ Goto(h, "policy")
    /\ UNCHANGED <<rows, policy, request, plan, history>>

\* NotFound, or exceptMyself refuses after the fact, and the row is rolled back.
UpdateMember(h) ==
    /\ pc[h] = "write" /\ op[h] \in {"change", "remove"}
    /\ Unlocked(h)
    /\ \/ /\ db[mid[h]] = NoRow \/ row[h].user = actor[h]
          /\ Answer(h)
          /\ UNCHANGED doubtful
       \/ /\ db[mid[h]] # NoRow /\ row[h].user # actor[h]
          /\ Goto(h, "policy")
          /\ UNCHANGED <<request, plan, history>>
    /\ UNCHANGED <<rows, policy>>

\* The cascade takes the members; no policy is written.
DeleteStream(h) ==
    /\ pc[h] = "write" /\ op[h] = "close"
    /\ Unlocked(h)
    /\ \/ /\ row[h].stream \notin live
          /\ Answer(h)
          /\ UNCHANGED doubtful
       \/ /\ row[h].stream \in live
          /\ Goto(h, "commit")
          /\ UNCHANGED <<request, plan, history>>
    /\ UNCHANGED <<rows, policy>>

-----------------------------------------------------------------------------
(***************************************************************************)
(* The after-hooks.                                                        *)
(***************************************************************************)
\* Mutant: the rows are read outside the transaction.
GetPolicyOutside(h) ==
    /\ pc[h] = "policy"
    /\ plan' = [plan EXCEPT ![h] = Grants(db, row[h].user)]
    /\ Goto(h, "put")
    /\ UNCHANGED <<rows, policy, request, history>>

GetPolicy(h) ==
    /\ pc[h] = "policy"
    /\ plan' = [plan EXCEPT ![h] = Grants(Seen(h), row[h].user)]
    /\ Goto(h, "put")
    /\ UNCHANGED <<rows, policy, request, history>>

UpdateVaultPolicy(h) ==
    /\ pc[h] = "put"
    /\ policy' = [policy EXCEPT ![row[h].user] = plan[h]]
    /\ Goto(h, "commit")
    /\ UNCHANGED <<rows, request, plan, history>>

CommitMember(h) ==
    /\ pc[h] = "commit" /\ op[h] # "close"
    /\ db' = [db EXCEPT ![mid[h]] = After(h)]
    /\ live' = live \cup {s \in {row[h].stream} : op[h] = "open"}
    /\ doubtful' = doubtful \ {u \in {row[h].user} : h \notin crossed}
    /\ Answer(h)
    /\ UNCHANGED <<taken, used, policy>>

CommitClose(h) ==
    /\ pc[h] = "commit" /\ op[h] = "close"
    /\ db' = [m \in MemberIds |->
                IF db[m] # NoRow /\ db[m].stream = row[h].stream THEN NoRow
                                                                 ELSE db[m]]
    /\ live' = live \ {row[h].stream}
    /\ Answer(h)
    /\ UNCHANGED <<taken, used, policy, doubtful>>

\* A call fails: the error hook, or PostgreSQL itself, rolls back.  What Vault
\* has accepted stays.
Fail(h) ==
    /\ pc[h] \in Faults
    /\ doubtful' = doubtful \cup
         {u \in {row[h].user} : pc[h] = "commit" /\ op[h] # "close"}
    /\ Answer(h)
    /\ UNCHANGED <<rows, policy>>

Step(h) == \/ InsertMember(h) \/ UpdateMember(h) \/ DeleteStream(h)
           \/ GetPolicy(h) \/ UpdateVaultPolicy(h)
           \/ CommitMember(h) \/ CommitClose(h)

Request(h) == \/ AddMember(h) \/ ChangeMember(h) \/ RemoveMember(h)
              \/ OpenStream(h) \/ CloseStream(h)

Next == \E h \in Handlers : Request(h) \/ Step(h) \/ Fail(h)

Spec == Init /\ [][Next]_vars

-----------------------------------------------------------------------------
(***************************************************************************)
(* What members may rely on.                                               *)
(***************************************************************************)
\* A user is a member of a stream once, and members are members of streams
\* that exist, however creations and removals are interleaved.
RowsConsistent ==
    \A m, n \in {k \in MemberIds : db[k] # NoRow} :
        /\ db[m].stream \in live
        /\ db[m].stream = db[n].stream /\ db[m].user = db[n].user => m = n

\* While no request about a user runs, the policy of the user grants just what
\* the user's rows call for (grants on streams that are gone are worth
\* nothing).  Two requests about the user at the same time may break this, and
\* so may a commit that fails; the next request that runs alone mends it.
PolicyMatches ==
    \A u \in Users \ doubtful :
        About(u) = {} => {g \in policy[u] : g.stream \in live} = Grants(db, u)

\* A stream keeps an administrator, as no one removes or demotes himself; but
\* two requests about the stream at the same time may take the last two away.
AdminRemains ==
    \A s \in live \ overlapped : \E u \in Users : MustBeAdministrator(u, s)

\* members.test.ts: a user who is not an administrator of the stream cannot
\* change its members, but by a request that another one about the stream met.
OnlyAdministratorsChange ==
    [][\A h \in Handlers :
         CommitMember(h) /\ op[h] # "open" =>
            MustBeAdministrator(actor[h], row[h].stream) \/ row[h].stream \in overlapped]_vars
=============================================================================
