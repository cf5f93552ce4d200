------------------------------- MODULE Streams ------------------------------
(***************************************************************************)
(* The streams themselves: the `streams' service, and the table `topics'   *)
(* that populate-topics.ts derives from the configuration file of a        *)
(* stream.  What else hangs on a stream is the matter of other modules     *)
(* (EncryptKeys, SecretContents, Members); a request that is refused for   *)
(* its name or its sender changes nothing and is left out.                 *)
(*                                                                         *)
(* An action is one access to a shared store, as in EncryptKeys.           *)
(***************************************************************************)
EXTENDS Naturals, FiniteSets

CONSTANTS
    Handlers,    \* requests being served at the same time
    Ids,         \* ids of rows of streams (bounds the number of creations)
    Names,       \* names of streams
    Topics,      \* names of topics
    MaxRequests, \* requests that write topics (a bound)
    Faults,      \* values of pc at which the handler's next call may fail
    NoRow, NoRequest, NoGraph

\* A configuration file is the set of the topics in it.
Row   == [name : Names, file : SUBSET Topics]

\* A row of topics; `by' is the request that has inserted it and stands for the id.
Topic == [stream : Ids, name : Topics, by : Nat]

\* hasFile: the data have a configFile.
Request == [op : {"create", "patch", "remove"}, id : Ids, name : Names,
            file : SUBSET Topics, hasFile : BOOLEAN, by : Nat]
Graph   == [file : SUBSET Topics, rows : SUBSET Topic]
PCs     == {"idle", "insert", "commitCreate", "fetch", "deleteTopics", "insertTopics",
            "update", "commitPatch", "delete", "commitRemove"}

ASSUME ConstantsAssumption ==
    /\ NoRow \notin Row /\ NoRequest \notin Request /\ NoGraph \notin Graph
    /\ MaxRequests \in Nat
    /\ Faults \subseteq PCs \ {"idle"}

VARIABLES
    streams,   \* streams[i]: the committed row of stream i
    topics,    \* the committed rows of topics
    used,      \* ids taken from the sequence streams_id_seq
    requests,  \* requests so far
    pc,        \* pc[h]: the call handler h makes next
    req,       \* req[h]: the data of the request, after the before-hooks
    graph,     \* graph[h]: what upsertGraph has read of the stream
    \* History variables: PATCHes that have read the topics before another one was
    \* committed, and streams whose topics may differ from their file: the last PATCH
    \* was such a one, or had no configuration file.
    late, mixed

vars == <<streams, topics, used, requests, pc, req, graph, late, mixed>>

TypeOK ==
    /\ streams \in [Ids -> Row \cup {NoRow}]
    /\ topics \subseteq Topic
    /\ used \subseteq Ids
    /\ requests \in 0 .. MaxRequests
    /\ pc \in [Handlers -> PCs]
    /\ req \in [Handlers -> Request \cup {NoRequest}]
    /\ graph \in [Handlers -> Graph \cup {NoGraph}]
    /\ late \subseteq Handlers
    /\ mixed \subseteq Ids
    /\ \A h \in Handlers : pc[h] = "idle" <=> req[h] = NoRequest

Init ==
    /\ streams = [i \in Ids |-> NoRow]
    /\ topics = {}
    /\ used = {}
    /\ requests = 0
    /\ pc = [h \in Handlers |-> "idle"]
    /\ req = [h \in Handlers |-> NoRequest]
    /\ graph = [h \in Handlers |-> NoGraph]
    /\ late = {} /\ mixed = {}

-----------------------------------------------------------------------------
Live(i)     == streams[i] # NoRow
TopicsOf(i) == {t \in topics : t.stream = i}

\* A request without a configuration file is one with no topics.
PopulateTopics(q) == IF q.hasFile THEN q.file ELSE {}
NewTopics(q) == {[stream |-> q.id, name |-> t, by |-> q.by] : t \in PopulateTopics(q)}

\* What a transaction has done and PostgreSQL keeps locked for it.
Inserted(h) == pc[h] = "commitCreate"
Replaced(h) == pc[h] \in {"insertTopics", "update", "commitPatch"}
Added(h)    == pc[h] \in {"update", "commitPatch"} /\ PopulateTopics(req[h]) # {}
Updated(h)  == pc[h] = "commitPatch"
Removed(h)  == pc[h] = "commitRemove"

\* The other requests about the stream of h.
Beside(h) == {g \in Handlers \ {h} : pc[g] # "idle" /\ req[g].id = req[h].id}

Goto(h, l) == pc' = [pc EXCEPT ![h] = l]

Answer(h) == /\ Goto(h, "idle")
             /\ req' = [req EXCEPT ![h] = NoRequest]
             /\ graph' = [graph EXCEPT ![h] = NoGraph]

Start(h, q, l) ==
    /\ pc[h] = "idle"
    /\ requests < MaxRequests
    /\ requests' = requests + 1
    /\ req' = [req EXCEPT ![h] = q]
    /\ Goto(h, l)
    /\ UNCHANGED <<streams, topics, graph, late, mixed>>

\* The error hook rolls back.
Refuse(h) ==
    /\ Answer(h)
    /\ late' = late \ {h}
    /\ UNCHANGED <<streams, topics, used, requests, mixed>>

-----------------------------------------------------------------------------
(***************************************************************************)
(* POST /streams                                                           *)
(***************************************************************************)
\* The id is in truth taken by the INSERT, but nobody sees it before.
CreateStream(h) ==
    \E i \in Ids \ used, n \in Names, f \in SUBSET Topics :
      /\ used' = used \cup {i}
      /\ Start(h, [op |-> "create", id |-> i, name |-> n, file |-> f,
                   hasFile |-> TRUE, by |-> requests + 1], "insert")

\* The unique index: the INSERT waits for another one of the name, or for a removal.
InsertUnblocked(h) ==
    \A g \in Handlers \ {h} :
      /\ Inserted(g) => req[g].name # req[h].name
      /\ Removed(g) => streams[req[g].id].name # req[h].name

NameTaken(n) == \E i \in Ids : Live(i) /\ streams[i].name = n

\* insertGraph, and addInitialMember in the same transaction.
InsertStream(h) ==
    /\ pc[h] = "insert"
    /\ InsertUnblocked(h) /\ ~ NameTaken(req[h].name)
    /\ Goto(h, "commitCreate")
    /\ UNCHANGED <<streams, topics, used, requests, req, graph, late, mixed>>

InsertRefused(h) ==
    /\ pc[h] = "insert"
    /\ InsertUnblocked(h) /\ NameTaken(req[h].name)
    /\ Refuse(h)

CommitCreate(h) ==
    /\ pc[h] = "commitCreate"
    /\ streams' = [streams EXCEPT ![req[h].id] = [name |-> req[h].name, file |-> req[h].file]]
    /\ topics' = topics \cup NewTopics(req[h])
    /\ Answer(h)
    /\ UNCHANGED <<used, requests, late, mixed>>

-----------------------------------------------------------------------------
(***************************************************************************)
(* PATCH /streams/<id>: upsertGraph reads the stream with its topics,      *)
(* deletes these, inserts the new ones and updates the row.                *)
(***************************************************************************)
PatchStream(h) ==
    \E i \in Ids, f \in SUBSET Topics, b \in BOOLEAN :
      /\ Live(i)
      /\ ~ b => f = {}
      /\ Start(h, [op |-> "patch", id |-> i, name |-> streams[i].name, file |-> f,
                   hasFile |-> b, by |-> requests + 1], "fetch")
      /\ UNCHANGED used

FetchGraph(h) ==
    /\ pc[h] = "fetch"
    /\ Live(req[h].id)
    /\ graph' = [graph EXCEPT ![h] = [file |-> streams[req[h].id].file,
                                      rows |-> TopicsOf(req[h].id)]]
    /\ Goto(h, "deleteTopics")
    /\ UNCHANGED <<streams, topics, used, requests, req, late, mixed>>

\* The rows that g has deleted, and that are there as long as it has not committed.
Deleted(g) == IF Removed(g) THEN TopicsOf(req[g].id)
              ELSE IF Replaced(g) THEN graph[g].rows \cap topics ELSE {}

\* Mutant: only rows of the new file are exchanged.
DeleteTopicsOfFile(h) ==
    /\ pc[h] = "deleteTopics"
    /\ graph' = [graph EXCEPT ![h].rows = {t \in @ : t.name \in PopulateTopics(req[h])}]
    /\ Goto(h, "insertTopics")
    /\ UNCHANGED <<streams, topics, used, requests, req, late, mixed>>

\* Rows that are gone meanwhile need no deletion.
DeleteTopics(h) ==
    /\ pc[h] = "deleteTopics"
    /\ \A g \in Beside(h) : Deleted(g) \cap graph[h].rows = {}
    /\ Goto(h, "insertTopics")
    /\ UNCHANGED <<streams, topics, used, requests, req, graph, late, mixed>>

\* The unique index of (stream_id, name), and the foreign key.
InsertTopicsUnblocked(h) ==
    LET new == PopulateTopics(req[h])
    IN  \A g \in Beside(h) :
          /\ Added(g) => PopulateTopics(req[g]) \cap new = {}
          /\ \A t \in Deleted(g) : t.name \notin new
          /\ Removed(g) => new = {}

TopicRefused(h) ==
    LET new == PopulateTopics(req[h])
    IN  \/ new # {} /\ ~ Live(req[h].id)
        \/ \E t \in TopicsOf(req[h].id) \ graph[h].rows : t.name \in new

InsertTopics(h) ==
    /\ pc[h] = "insertTopics"
    /\ InsertTopicsUnblocked(h) /\ ~ TopicRefused(h)
    /\ Goto(h, "update")
    /\ UNCHANGED <<streams, topics, used, requests, req, graph, late, mixed>>

InsertTopicsRefused(h) ==
    /\ pc[h] = "insertTopics"
    /\ InsertTopicsUnblocked(h) /\ TopicRefused(h)
    /\ Refuse(h)

\* Mutant: an UPDATE of the key, which the foreign keys of new topics keep waiting.
UpdateUnblockedByTopics(h) ==
    \A g \in Beside(h) : ~ Added(g) /\ ~ Updated(g) /\ ~ Removed(g)

\* updatedUser and updatedAt are always new, so the row is always locked; the name is
\* not, so that foreign keys do not matter.
UpdateUnblocked(h) == \A g \in Beside(h) : ~ Updated(g) /\ ~ Removed(g)

UpdateStream(h) ==
    /\ pc[h] = "update"
    /\ UpdateUnblocked(h) /\ Live(req[h].id)
    /\ Goto(h, "commitPatch")
    /\ UNCHANGED <<streams, topics, used, requests, req, graph, late, mixed>>

\* The row, or already the graph, is not found.
PatchRefused(h) ==
    /\ \/ pc[h] = "fetch"
       \/ pc[h] = "update" /\ UpdateUnblocked(h)
    /\ ~ Live(req[h].id)
    /\ Refuse(h)

\* The UPDATE writes what differs from what upsertGraph has read.
Patched(h, r) == IF r # NoRow /\ req[h].hasFile /\ req[h].file # graph[h].file
                   THEN [r EXCEPT !.file = req[h].file] ELSE r

\* The PATCHes that have read the topics of the stream of h.
Fetched(h) == {g \in Beside(h) : graph[g] # NoGraph}

CommitPatch(h) ==
    /\ pc[h] = "commitPatch"
    /\ streams' = [streams EXCEPT ![req[h].id] = Patched(h, @)]
    /\ topics' = (topics \ graph[h].rows) \cup NewTopics(req[h])
    /\ Answer(h)
    /\ late' = (late \ {h}) \cup Fetched(h)
    /\ mixed' = IF h \in late \/ ~ req[h].hasFile THEN mixed \cup {req[h].id}
                                                  ELSE mixed \ {req[h].id}
    /\ UNCHANGED <<used, requests>>

-----------------------------------------------------------------------------
(***************************************************************************)
(* DELETE /streams/<id>                                                    *)
(***************************************************************************)
RemoveStream(h) ==
    \E i \in Ids :
      /\ Live(i)
      /\ Start(h, [op |-> "remove", id |-> i, name |-> streams[i].name, file |-> {},
                   hasFile |-> FALSE, by |-> requests + 1], "delete")
      /\ UNCHANGED used

\* The DELETE, with its cascade, waits for whoever has locked the row of the stream
\* or of a topic, for all of them at once (a circle that this makes PostgreSQL ends
\* by failing one of the statements).
DeleteUnblocked(h) ==
    \A g \in Beside(h) :
      ~ Added(g) /\ ~ Updated(g) /\ ~ Removed(g) /\ Deleted(g) = {}

DeleteStream(h) ==
    /\ pc[h] = "delete"
    /\ DeleteUnblocked(h) /\ Live(req[h].id)
    /\ Goto(h, "commitRemove")
    /\ UNCHANGED <<streams, topics, used, requests, req, graph, late, mixed>>

DeleteRefused(h) ==
    /\ pc[h] = "delete"
    /\ DeleteUnblocked(h) /\ ~ Live(req[h].id)
    /\ Refuse(h)

CommitRemove(h) ==
    /\ pc[h] = "commitRemove"
    /\ streams' = [streams EXCEPT ![req[h].id] = NoRow]
    /\ topics' = topics \ TopicsOf(req[h].id)
    /\ Answer(h)
    /\ mixed' = mixed \ {req[h].id}
    /\ UNCHANGED <<used, requests, late>>

-----------------------------------------------------------------------------
\* A call fails.
Fail(h) == pc[h] \in Faults /\ Refuse(h)

Step(h) ==
    \/ InsertStream(h) \/ InsertRefused(h) \/ CommitCreate(h)
    \/ FetchGraph(h) \/ DeleteTopics(h) \/ InsertTopics(h) \/ InsertTopicsRefused(h)
    \/ UpdateStream(h) \/ PatchRefused(h) \/ CommitPatch(h)
    \/ DeleteStream(h) \/ DeleteRefused(h) \/ CommitRemove(h)

Next == \E h \in Handlers :
          CreateStream(h) \/ PatchStream(h) \/ RemoveStream(h) \/ Step(h) \/ Fail(h)

Spec     == Init /\ [][Next]_vars
FairSpec == Spec /\ \A h \in Handlers : SF_vars(Step(h))

-----------------------------------------------------------------------------
\* The topics of a stream, by which the server tells who shares a topic, are those of
\* its configuration file, unless the last PATCH had no configuration file or had read
\* the topics before another PATCH was committed; the next PATCH alone puts them right.
TopicsMatch ==
    \A i \in Ids \ mixed :
      Live(i) => {t.name : t \in TopicsOf(i)} = streams[i].file

\* No topic outlives its stream, also when a PATCH meets the removal.
TopicsHaveStream == \A t \in topics : Live(t.stream)

\* Every request is answered: none waits for ever for the locks of the others.
EveryRequestAnswered == \A h \in Handlers : pc[h] # "idle" ~> pc[h] = "idle"
=============================================================================
