---------------------------- MODULE StreamsProofs ---------------------------
(***************************************************************************)
(* Theorems about Streams, for any number of requests, streams, names and  *)
(* topics; and then about ConfigFiles, for any records, targets, files and *)
(* queries: what is listed, and what is embedded where.                    *)
(***************************************************************************)
EXTENDS Streams, ConfigFiles, SequenceTheorems, FiniteSetTheorems, WellFoundedInduction, TLAPS

Patching == {"fetch", "deleteTopics", "insertTopics", "update", "commitPatch"}

\* What a handler knows of its request.
Context(h) ==
    /\ pc[h] # "idle" => req[h].id \in used
    /\ pc[h] \in {"insert", "commitCreate"} => /\ req[h].op = "create" /\ req[h].hasFile = TRUE
                                               /\ ~ Live(req[h].id)
    /\ pc[h] \in Patching => req[h].op = "patch"
    /\ pc[h] \in {"delete", "commitRemove"} => req[h].op = "remove"
    /\ graph[h] # NoGraph => /\ pc[h] \in Patching \ {"fetch"}
                             /\ \A t \in graph[h].rows : t.stream = req[h].id
    /\ pc[h] \in Patching \ {"fetch"} => graph[h] # NoGraph
    /\ pc[h] \in {"commitPatch", "commitRemove"} => Live(req[h].id)

\* What the sequence and the locks keep apart.
Apart(g, h) ==
    /\ pc[g] # "idle" /\ pc[h] \in {"insert", "commitCreate"} => req[g].id # req[h].id
    /\ {pc[g], pc[h]} \subseteq {"commitPatch", "commitRemove"} => req[g].id # req[h].id

\* A PATCH that is not late has read the stream as it is.
Current(h) ==
    graph[h] # NoGraph /\ h \notin late /\ Live(req[h].id) =>
      /\ graph[h].rows = TopicsOf(req[h].id)
      /\ graph[h].file = streams[req[h].id].file

HandlerInv == \A h \in Handlers : Context(h) /\ Current(h)
PairInv    == \A g, h \in Handlers : g # h => Apart(g, h)
RowsInv    == (\A i \in Ids : Live(i) => i \in used) /\ TopicsHaveStream

IInv == TypeOK /\ HandlerInv /\ PairInv /\ RowsInv /\ TopicsMatch

LEMMA InitInv == Init => IInv
<1> SUFFICES ASSUME Init PROVE IInv
  OBVIOUS
<1>1. TypeOK
  BY ConstantsAssumption DEF Init, TypeOK, PCs
<1>2. HandlerInv
  BY DEF Init, HandlerInv, Context, Current, Patching
<1> QED
  BY <1>1, <1>2 DEF Init, IInv, PairInv, Apart, RowsInv, TopicsHaveStream, TopicsMatch, Live

-----------------------------------------------------------------------------
\* The topics that a request inserts.
LEMMA NewNames ==
    ASSUME NEW q
    PROVE  /\ {t.name : t \in NewTopics(q)} = PopulateTopics(q)
           /\ \A t \in NewTopics(q) : t.stream = q.id
<1>1. \A t \in NewTopics(q) : t.stream = q.id /\ t.name \in PopulateTopics(q)
  BY DEF NewTopics
<1>2. ASSUME NEW n \in PopulateTopics(q)
      PROVE  \E t \in NewTopics(q) : t.name = n
  <2>1. [stream |-> q.id, name |-> n, by |-> q.by] \in NewTopics(q)
    BY <1>2 DEF NewTopics
  <2> QED
    BY <2>1
<1> QED
  BY <1>1, <1>2

LEMMA NewType ==
    ASSUME NEW q \in Request PROVE NewTopics(q) \subseteq Topic
BY DEF NewTopics, PopulateTopics, Request, Topic

\* The request of a handler at work.
LEMMA RequestType ==
    ASSUME TypeOK, NEW h \in Handlers, pc[h] # "idle"
    PROVE  req[h] \in Request /\ req[h].id \in Ids /\ req[h].file \in SUBSET Topics
                              /\ req[h].hasFile \in BOOLEAN
BY DEF TypeOK, Request

LEMMA GraphType ==
    ASSUME TypeOK, NEW h \in Handlers, graph[h] # NoGraph
    PROVE  graph[h] \in Graph /\ graph[h].file \in SUBSET Topics /\ graph[h].rows \subseteq Topic
BY DEF TypeOK, Graph

\* Rows stay as they are while h goes on.
LEMMA RowsStay ==
    ASSUME IInv, TypeOK', NEW h \in Handlers,
           UNCHANGED <<streams, topics, mixed>>, used \subseteq used',
           \A g \in Handlers \ {h} : /\ pc'[g] = pc[g] /\ req'[g] = req[g]
                                     /\ graph'[g] = graph[g]
                                     /\ g \in late' <=> g \in late,
           Context(h)', Current(h)',
           \A g \in Handlers \ {h} : Apart(g, h)' /\ Apart(h, g)'
    PROVE  IInv'
<1>1. \A i : Live(i)' <=> Live(i)
  BY DEF Live
<1>2. \A i : TopicsOf(i)' = TopicsOf(i)
  BY DEF TopicsOf
<1>3. ASSUME NEW g \in Handlers \ {h} PROVE Context(g)' /\ Current(g)'
  <2>1. Context(g) /\ Current(g)
    BY DEF IInv, HandlerInv
  <2>2. Context(g)'
    BY <1>1, <2>1 DEF Context
  <2>3. Current(g)'
    BY <1>1, <1>2, <2>1 DEF Current
  <2> QED
    BY <2>2, <2>3
<1>4. HandlerInv'
  BY <1>3 DEF HandlerInv
<1>5. PairInv'
  <2> SUFFICES ASSUME NEW f \in Handlers, NEW g \in Handlers, f # g PROVE Apart(f, g)'
    BY DEF PairInv
  <2>1. CASE f # h /\ g # h
    BY <2>1 DEF IInv, PairInv, Apart
  <2> QED
    BY <2>1
<1>6. RowsInv'
  BY <1>1 DEF IInv, RowsInv, TopicsHaveStream
<1>7. TopicsMatch'
  BY <1>1, <1>2 DEF IInv, TopicsMatch
<1> QED
  BY <1>4, <1>5, <1>6, <1>7 DEF IInv

\* What is left of a request that has been answered.
LEMMA Answered ==
    ASSUME TypeOK, NEW h \in Handlers, Answer(h)
    PROVE  /\ pc' \in [Handlers -> PCs] /\ req' \in [Handlers -> Request \cup {NoRequest}]
           /\ graph' \in [Handlers -> Graph \cup {NoGraph}]
           /\ pc'[h] = "idle" /\ req'[h] = NoRequest /\ graph'[h] = NoGraph
           /\ \A g \in Handlers \ {h} : /\ pc'[g] = pc[g] /\ req'[g] = req[g]
                                        /\ graph'[g] = graph[g]
           /\ \A g \in Handlers : pc'[g] = "idle" <=> req'[g] = NoRequest
BY DEF TypeOK, Answer, Goto, PCs

LEMMA IdleInv ==
    ASSUME NEW h \in Handlers, pc'[h] = "idle", graph'[h] = NoGraph
    PROVE  /\ Context(h)' /\ Current(h)'
           /\ \A g \in Handlers : Apart(g, h)' /\ Apart(h, g)'
BY DEF Context, Current, Apart, Patching

LEMMA RefuseInv ==
    ASSUME IInv, NEW h \in Handlers, Refuse(h) PROVE IInv'
<1>1. TypeOK /\ Answer(h) /\ late' = late \ {h}
      /\ UNCHANGED <<streams, topics, used, requests, mixed>>
  BY DEF IInv, Refuse
<1>2. TypeOK'
  BY <1>1, Answered DEF TypeOK
<1> QED
  BY <1>1, <1>2, Answered, IdleInv, RowsStay

-----------------------------------------------------------------------------
\* A request begins.
LEMMA StartInv ==
    ASSUME IInv, NEW h \in Handlers, NEW q, NEW l,
           q \in Request, q.id \in used', used \subseteq used', used' \subseteq Ids,
           Start(h, q, l),
           \/ l = "insert" /\ q.op = "create" /\ q.hasFile = TRUE /\ q.id \notin used
           \/ l = "fetch" /\ q.op = "patch" /\ Live(q.id)
           \/ l = "delete" /\ q.op = "remove" /\ Live(q.id)
    PROVE  IInv'
<1>1. TypeOK /\ HandlerInv /\ PairInv /\ RowsInv
  BY DEF IInv
<1>2. /\ pc[h] = "idle" /\ pc'[h] = l /\ req'[h] = q /\ l \in PCs
      /\ graph' = graph /\ late' = late /\ l # "idle" /\ graph[h] = NoGraph
      /\ \A g \in Handlers \ {h} : pc'[g] = pc[g] /\ req'[g] = req[g]
      /\ UNCHANGED <<streams, topics, mixed>>
  BY <1>1 DEF Start, Goto, TypeOK, PCs, HandlerInv, Context, Patching
<1>3. TypeOK'
  <2>1. requests' \in 0 .. MaxRequests
    BY <1>1, ConstantsAssumption DEF Start, TypeOK
  <2>2. pc' \in [Handlers -> PCs] /\ req' \in [Handlers -> Request \cup {NoRequest}]
    BY <1>1, <1>2 DEF Start, Goto, TypeOK
  <2>3. \A g \in Handlers : pc'[g] = "idle" <=> req'[g] = NoRequest
    BY <1>1, <1>2, ConstantsAssumption DEF TypeOK
  <2> QED
    BY <1>1, <1>2, <2>1, <2>2, <2>3 DEF TypeOK
<1>4. Context(h)' /\ Current(h)'
  <2>1. q.id \notin used => ~ Live(q.id)
    BY <1>1 DEF RowsInv, TypeOK, Live, Request
  <2> QED
    BY <1>2, <2>1 DEF Context, Current, Patching, Live
<1>5. ASSUME NEW g \in Handlers \ {h} PROVE Apart(g, h)' /\ Apart(h, g)'
  <2>1. /\ pc[g] # "idle" => req[g].id \in used
        /\ pc[g] \in {"insert", "commitCreate"} => pc[g] # "idle"
    BY <1>1 DEF HandlerInv, Context
  <2>2. pc[g] \in {"insert", "commitCreate"} => ~ Live(req[g].id)
    BY <1>1 DEF HandlerInv, Context
  <2>3. Apart(g, h)'
    BY <1>2, <2>1 DEF Apart
  <2>4. pc[g] \in {"insert", "commitCreate"} => req[g].id # q.id
    BY <2>1, <2>2
  <2> QED
    BY <1>2, <2>3, <2>4 DEF Apart
<1> QED
  BY <1>2, <1>3, <1>4, <1>5, RowsStay

LEMMA RequestInv ==
    ASSUME IInv, NEW h \in Handlers, CreateStream(h) \/ PatchStream(h) \/ RemoveStream(h)
    PROVE  IInv'
<1>1. /\ TypeOK /\ requests + 1 \in Nat /\ used \subseteq Ids
      /\ \A i \in Ids : Live(i) => i \in used /\ streams[i].name \in Names
  BY ConstantsAssumption DEF IInv, TypeOK, RowsInv, Live, Row
<1>2. CASE CreateStream(h)
  <2>1. PICK i \in Ids \ used, n \in Names, f \in SUBSET Topics :
          /\ used' = used \cup {i}
          /\ Start(h, [op |-> "create", id |-> i, name |-> n, file |-> f,
                       hasFile |-> TRUE, by |-> requests + 1], "insert")
    BY <1>2 DEF CreateStream
  <2> DEFINE q == [op |-> "create", id |-> i, name |-> n, file |-> f,
                   hasFile |-> TRUE, by |-> requests + 1]
  <2>2. q \in Request /\ q.op = "create" /\ q.hasFile = TRUE /\ q.id = i
    BY <1>1 DEF Request
  <2>3. Start(h, q, "insert")
    BY <2>1
  <2> HIDE DEF q
  <2> QED
    BY <1>1, <2>1, <2>2, <2>3, StartInv
<1>3. CASE PatchStream(h)
  <2>1. PICK i \in Ids, f \in SUBSET Topics, b \in BOOLEAN :
          /\ Live(i)
          /\ Start(h, [op |-> "patch", id |-> i, name |-> streams[i].name, file |-> f,
                       hasFile |-> b, by |-> requests + 1], "fetch")
          /\ UNCHANGED used
    BY <1>3 DEF PatchStream
  <2> DEFINE q == [op |-> "patch", id |-> i, name |-> streams[i].name, file |-> f,
                   hasFile |-> b, by |-> requests + 1]
  <2>2. q \in Request /\ q.op = "patch" /\ q.id = i
    BY <1>1, <2>1 DEF Request
  <2>3. Start(h, q, "fetch")
    BY <2>1
  <2> HIDE DEF q
  <2> QED
    BY <1>1, <2>1, <2>2, <2>3, StartInv
<1>4. CASE RemoveStream(h)
  <2>1. PICK i \in Ids :
          /\ Live(i)
          /\ Start(h, [op |-> "remove", id |-> i, name |-> streams[i].name, file |-> {},
                       hasFile |-> FALSE, by |-> requests + 1], "delete")
          /\ UNCHANGED used
    BY <1>4 DEF RemoveStream
  <2> DEFINE q == [op |-> "remove", id |-> i, name |-> streams[i].name, file |-> {},
                   hasFile |-> FALSE, by |-> requests + 1]
  <2>2. q \in Request /\ q.op = "remove" /\ q.id = i
    BY <1>1, <2>1 DEF Request
  <2>3. Start(h, q, "delete")
    BY <2>1
  <2> HIDE DEF q
  <2> QED
    BY <1>1, <2>1, <2>2, <2>3, StartInv
<1> QED
  BY <1>2, <1>3, <1>4

\* A statement of the transaction of h: nothing is committed.
LEMMA StatementInv ==
    ASSUME IInv, NEW h \in Handlers, NEW l,
           pc[h] # "idle", Goto(h, l), l \in PCs \ {"idle"},
           UNCHANGED <<streams, topics, used, requests, req, graph, late, mixed>>,
           \/ pc[h] = "insert" /\ l = "commitCreate"
           \/ pc[h] = "deleteTopics" /\ l = "insertTopics"
           \/ pc[h] = "insertTopics" /\ l = "update"
           \/ /\ \/ pc[h] = "update" /\ l = "commitPatch"
                 \/ pc[h] = "delete" /\ l = "commitRemove"
              /\ Live(req[h].id) /\ UpdateUnblocked(h)
    PROVE  IInv'
<1>1. TypeOK /\ HandlerInv /\ PairInv
  BY DEF IInv
<1>2. pc'[h] = l /\ \A g \in Handlers \ {h} : pc'[g] = pc[g]
  BY <1>1 DEF Goto, TypeOK
<1>3. TypeOK'
  <2>1. pc' \in [Handlers -> PCs]
    BY <1>1 DEF Goto, TypeOK
  <2> QED
    BY <1>1, <1>2, <2>1 DEF TypeOK
<1>4. Context(h) /\ Current(h)
  BY <1>1 DEF HandlerInv
<1>5. Context(h)' /\ Current(h)'
  BY <1>2, <1>4 DEF Context, Current, Live, TopicsOf, Patching
<1>6. ASSUME NEW g \in Handlers \ {h} PROVE Apart(g, h)' /\ Apart(h, g)'
  <2>1. Apart(g, h) /\ Apart(h, g)
    BY <1>1, <1>6 DEF PairInv
  <2>2. l \in {"commitPatch", "commitRemove"} /\ pc[g] \in {"commitPatch", "commitRemove"}
          => req[g].id # req[h].id
    BY DEF UpdateUnblocked, Beside, Updated, Removed
  <2>3. /\ pc'[g] = pc[g] /\ pc'[h] = l /\ req' = req
        /\ l \in {"insert", "commitCreate"} => pc[h] = "insert"
    BY <1>2
  <2>4. Apart(g, h)'
    BY <2>1, <2>2, <2>3 DEF Apart
  <2>5. Apart(h, g)'
    BY <2>1, <2>2, <2>3 DEF Apart
  <2> QED
    BY <2>4, <2>5
<1> QED
  BY <1>2, <1>3, <1>5, <1>6, RowsStay

LEMMA FetchInv ==
    ASSUME IInv, NEW h \in Handlers, FetchGraph(h) PROVE IInv'
<1> PICK q : q = req[h]
  OBVIOUS
<1>1. TypeOK /\ HandlerInv /\ PairInv /\ pc[h] = "fetch" /\ q \in Request /\ q.id \in Ids
  BY RequestType DEF IInv, FetchGraph
<1> PICK G : G = [file |-> streams[q.id].file, rows |-> TopicsOf(q.id)]
  OBVIOUS
<1>2. /\ Live(q.id) /\ pc'[h] = "deleteTopics" /\ graph'[h] = G
      /\ pc' \in [Handlers -> PCs]
      /\ \A g \in Handlers \ {h} : pc'[g] = pc[g] /\ graph'[g] = graph[g]
      /\ UNCHANGED <<streams, topics, used, requests, req, late, mixed>>
  BY <1>1 DEF FetchGraph, Goto, TypeOK, PCs
<1>3. streams[q.id] \in Row
  BY <1>1, <1>2 DEF TypeOK, Live
<1>4. G \in Graph /\ G # NoGraph
  BY <1>1, <1>3, ConstantsAssumption DEF Graph, Row, TopicsOf, TypeOK
<1>5. TypeOK'
  <2>1. graph' \in [Handlers -> Graph \cup {NoGraph}]
    BY <1>1, <1>4 DEF FetchGraph, TypeOK
  <2> QED
    BY <1>1, <1>2, <2>1 DEF TypeOK
<1>6. Context(h)' /\ Current(h)'
  <2>1. Context(h)
    BY <1>1 DEF HandlerInv
  <2>2. G.rows = TopicsOf(q.id) /\ G.file = streams[q.id].file
        /\ \A t \in G.rows : t.stream = q.id
    BY DEF TopicsOf
  <2>3. Context(h)'
    BY <1>1, <1>2, <1>4, <2>1, <2>2 DEF Context, Patching
  <2>4. Current(h)'
    BY <1>2, <2>2 DEF Current, TopicsOf
  <2> QED
    BY <2>3, <2>4
<1>7. ASSUME NEW g \in Handlers \ {h} PROVE Apart(g, h)' /\ Apart(h, g)'
  <2>1. Apart(g, h) /\ Apart(h, g)
    BY <1>1, <1>7 DEF PairInv
  <2>2. Apart(g, h)'
    BY <1>1, <1>2, <2>1 DEF Apart
  <2>3. Apart(h, g)'
    BY <1>1, <1>2, <2>1 DEF Apart
  <2> QED
    BY <2>2, <2>3
<1> QED
  BY <1>2, <1>5, <1>6, <1>7, RowsStay

-----------------------------------------------------------------------------
\* A commit of h changes the stream of its request only.
LEMMA CommitInv ==
    ASSUME IInv, NEW h \in Handlers, NEW i, i = req[h].id, i \in Ids,
           pc[h] # "idle", Answer(h), UNCHANGED <<used, requests>>,
           streams' \in [Ids -> Row \cup {NoRow}], topics' \subseteq Topic,
           late' \subseteq Handlers, mixed' \subseteq Ids,
           \A j \in Ids \ {i} : streams'[j] = streams[j],
           \A t : t.stream # i => (t \in topics' <=> t \in topics),
           \A j \in Ids \ {i} : j \in mixed' <=> j \in mixed,
           \A g \in Handlers \ {h} : g \in late => g \in late',
           \A g \in Handlers \ {h} : req[g].id = i /\ graph[g] # NoGraph /\ Live(i)'
                                        => g \in late',
           \A g \in Handlers \ {h} : pc[g] \in {"insert", "commitCreate", "commitPatch", "commitRemove"}
                                        => req[g].id # i,
           \A t \in topics' : t.stream = i => Live(i)',
           i \notin mixed' /\ Live(i)'
             => {t.name : t \in {u \in topics' : u.stream = i}} = streams'[i].file
    PROVE  IInv'
<1>1. TypeOK /\ HandlerInv /\ PairInv /\ RowsInv /\ TopicsMatch
  BY DEF IInv
<1>2. /\ pc'[h] = "idle" /\ graph'[h] = NoGraph
      /\ \A g \in Handlers \ {h} : pc'[g] = pc[g] /\ req'[g] = req[g] /\ graph'[g] = graph[g]
  BY <1>1, Answered
<1>3. TypeOK'
  BY <1>1, Answered DEF TypeOK
<1>4. /\ \A j \in Ids \ {i} : Live(j)' <=> Live(j)
      /\ \A j \in Ids \ {i} : TopicsOf(j)' = TopicsOf(j)
  <2>1. \A j \in Ids \ {i} : Live(j)' <=> Live(j)
    BY DEF Live
  <2>2. ASSUME NEW j \in Ids \ {i} PROVE TopicsOf(j)' = TopicsOf(j)
    BY DEF TopicsOf
  <2> QED
    BY <2>1, <2>2
<1>5. ASSUME NEW g \in Handlers \ {h} PROVE Context(g)' /\ Current(g)'
  <2> PICK r : r = req[g].id
    OBVIOUS
  <2>1. /\ Context(g) /\ Current(g)
        /\ pc'[g] = pc[g] /\ req'[g] = req[g] /\ graph'[g] = graph[g] /\ used' = used
        /\ req'[g].id = r
    BY <1>1, <1>2 DEF HandlerInv
  <2>2. pc[g] # "idle" => r \in Ids
    BY <1>1, RequestType
  <2>3. pc[g] \in {"insert", "commitCreate", "commitPatch", "commitRemove"}
          => streams'[r] = streams[r]
    BY <2>2
  <2>4. Context(g)'
    BY <2>1, <2>3 DEF Context, Live, Patching
  <2>5. graph[g] # NoGraph => pc[g] # "idle"
    BY <2>1 DEF Context, Patching
  <2>6. Current(g)'
    <3>1. CASE graph[g] = NoGraph
      BY <2>1, <3>1 DEF Current
    <3>2. CASE graph[g] # NoGraph /\ r # i
      <4>1. r \in Ids \ {i} /\ streams'[r] = streams[r]
        BY <2>2, <2>5, <3>2
      <4>2. {t \in topics' : t.stream = r} = {t \in topics : t.stream = r}
        BY <4>1
      <4> QED
        BY <2>1, <3>2, <4>1, <4>2 DEF Current, Live, TopicsOf
    <3>3. CASE graph[g] # NoGraph /\ r = i
      <4>1. Live(i)' => g \in late'
        BY <3>3
      <4> QED
        BY <2>1, <3>3, <4>1 DEF Current, Live
    <3> QED
      BY <3>1, <3>2, <3>3
  <2> QED
    BY <2>4, <2>6
<1>6. HandlerInv'
  BY <1>2, <1>5, IdleInv DEF HandlerInv
<1>7. PairInv'
  <2> SUFFICES ASSUME NEW f \in Handlers, NEW g \in Handlers, f # g PROVE Apart(f, g)'
    BY DEF PairInv
  <2>1. CASE f # h /\ g # h
    BY <1>1, <1>2, <2>1 DEF PairInv, Apart
  <2> QED
    BY <1>2, <2>1, IdleInv
<1>8. RowsInv'
  <2>1. i \in used
    BY <1>1 DEF HandlerInv, Context
  <2>2. ASSUME NEW t \in topics' PROVE Live(t.stream)'
    <3>1. CASE t.stream = i
      BY <2>2, <3>1
    <3>2. CASE t.stream # i
      <4>1. t \in topics /\ t.stream \in Ids
        BY <1>1, <2>2, <3>2 DEF TypeOK, Topic
      <4> QED
        BY <1>1, <1>4, <3>2, <4>1 DEF RowsInv, TopicsHaveStream
    <3> QED
      BY <3>1, <3>2
  <2> QED
    BY <1>1, <1>4, <2>1, <2>2 DEF RowsInv, TopicsHaveStream
<1>9. TopicsMatch'
  <2> SUFFICES ASSUME NEW j \in Ids \ mixed', Live(j)'
               PROVE  {t.name : t \in TopicsOf(j)'} = streams'[j].file
    BY DEF TopicsMatch
  <2>1. CASE j = i
    BY <2>1 DEF TopicsOf
  <2>2. CASE j # i
    BY <1>1, <1>4, <2>2 DEF TopicsMatch
  <2> QED
    BY <2>1, <2>2
<1> QED
  BY <1>3, <1>6, <1>7, <1>8, <1>9 DEF IInv

LEMMA CommitCreateInv ==
    ASSUME IInv, NEW h \in Handlers, CommitCreate(h) PROVE IInv'
<1> PICK q, i : q = req[h] /\ i = q.id
  OBVIOUS
<1>1. /\ TypeOK /\ HandlerInv /\ PairInv /\ RowsInv /\ TopicsMatch
      /\ pc[h] = "commitCreate" /\ q \in Request /\ i \in Ids /\ Answer(h)
  BY RequestType DEF IInv, CommitCreate
<1>2. /\ streams' = [streams EXCEPT ![i] = [name |-> q.name, file |-> q.file]]
      /\ topics' = topics \cup NewTopics(q)
      /\ UNCHANGED <<used, requests, late, mixed>>
  BY DEF CommitCreate
<1>3. ~ Live(i) /\ q.hasFile = TRUE /\ i \in used
  BY <1>1 DEF HandlerInv, Context
<1>4. \A t \in topics : t.stream # i
  BY <1>1, <1>3 DEF RowsInv, TopicsHaveStream
<1>5. [name |-> q.name, file |-> q.file] \in Row
  BY <1>1 DEF Request, Row
<1>6. /\ streams' \in [Ids -> Row \cup {NoRow}] /\ streams'[i].file = q.file
      /\ \A j \in Ids \ {i} : streams'[j] = streams[j]
      /\ Live(i)'
  BY <1>1, <1>2, <1>5, ConstantsAssumption DEF TypeOK, Live
<1>7. topics' \subseteq Topic /\ late' \subseteq Handlers /\ mixed' \subseteq Ids
  BY <1>1, <1>2, NewType DEF TypeOK
<1>8. \A t : t.stream # i => (t \in topics' <=> t \in topics)
  BY <1>2, NewNames
<1>9. ASSUME NEW g \in Handlers \ {h}, pc[g] # "idle" PROVE req[g].id # i
  BY <1>1, <1>9 DEF PairInv, Apart
<1>10. ASSUME NEW g \in Handlers \ {h}, graph[g] # NoGraph PROVE req[g].id # i
  BY <1>1, <1>9, <1>10 DEF HandlerInv, Context, Patching
<1>11. {t.name : t \in {u \in topics' : u.stream = i}} = streams'[i].file
  <2>1. {u \in topics' : u.stream = i} = NewTopics(q)
    BY <1>2, <1>4, NewNames
  <2> QED
    BY <1>3, <1>6, <2>1, NewNames DEF PopulateTopics
<1> QED
  BY <1>1, <1>2, <1>6, <1>7, <1>8, <1>9, <1>10, <1>11, CommitInv

LEMMA CommitRemoveInv ==
    ASSUME IInv, NEW h \in Handlers, CommitRemove(h) PROVE IInv'
<1> PICK i : i = req[h].id
  OBVIOUS
<1>1. /\ TypeOK /\ HandlerInv /\ PairInv /\ pc[h] = "commitRemove" /\ i \in Ids /\ Answer(h)
  BY RequestType DEF IInv, CommitRemove
<1>2. /\ streams' = [streams EXCEPT ![i] = NoRow] /\ topics' = topics \ TopicsOf(i)
      /\ mixed' = mixed \ {i} /\ UNCHANGED <<used, requests, late>>
  BY DEF CommitRemove
<1>3. Live(i)
  BY <1>1 DEF HandlerInv, Context
<1>4. /\ streams' \in [Ids -> Row \cup {NoRow}] /\ ~ Live(i)'
      /\ \A j \in Ids \ {i} : streams'[j] = streams[j]
      /\ topics' \subseteq Topic /\ late' \subseteq Handlers /\ mixed' \subseteq Ids
  BY <1>1, <1>2 DEF TypeOK, Live
<1>5. /\ \A t : t.stream # i => (t \in topics' <=> t \in topics)
      /\ \A t \in topics' : t.stream # i
      /\ \A j \in Ids \ {i} : j \in mixed' <=> j \in mixed
  BY <1>2 DEF TopicsOf
<1>6. ASSUME NEW g \in Handlers \ {h},
             pc[g] \in {"insert", "commitCreate", "commitPatch", "commitRemove"}
      PROVE  req[g].id # i
  <2>1. CASE pc[g] \in {"insert", "commitCreate"}
    BY <1>1, <1>3, <2>1 DEF HandlerInv, Context
  <2>2. CASE pc[g] \in {"commitPatch", "commitRemove"}
    BY <1>1, <2>2 DEF PairInv, Apart
  <2> QED
    BY <1>6, <2>1, <2>2
<1> QED
  BY <1>1, <1>2, <1>4, <1>5, <1>6, CommitInv

LEMMA CommitPatchInv ==
    ASSUME IInv, NEW h \in Handlers, CommitPatch(h) PROVE IInv'
<1> PICK q, i, G : q = req[h] /\ i = q.id /\ G = graph[h]
  OBVIOUS
<1>1. /\ TypeOK /\ HandlerInv /\ PairInv /\ pc[h] = "commitPatch" /\ q \in Request
      /\ i \in Ids /\ q.file \in SUBSET Topics /\ Answer(h)
  BY RequestType DEF IInv, CommitPatch
<1>2. /\ streams' = [streams EXCEPT ![i] = Patched(h, @)]
      /\ topics' = (topics \ G.rows) \cup NewTopics(q)
      /\ late' = (late \ {h}) \cup Fetched(h)
      /\ mixed' = IF h \in late \/ ~ q.hasFile THEN mixed \cup {i} ELSE mixed \ {i}
      /\ UNCHANGED <<used, requests>>
  BY DEF CommitPatch
<1>3. Live(i) /\ G # NoGraph /\ \A t \in G.rows : t.stream = i
  BY <1>1 DEF HandlerInv, Context, Patching
<1>4. /\ streams' \in [Ids -> Row \cup {NoRow}] /\ Live(i)'
      /\ \A j \in Ids \ {i} : streams'[j] = streams[j]
      /\ streams'[i].file = IF q.hasFile /\ q.file # G.file THEN q.file ELSE streams[i].file
  <2>1. streams[i] \in Row
    BY <1>1, <1>3 DEF TypeOK, Live
  <2>2. /\ Patched(h, streams[i]) \in Row
        /\ Patched(h, streams[i]).file = IF q.hasFile /\ q.file # G.file
                                           THEN q.file ELSE streams[i].file
    BY <1>1, <1>3, <2>1 DEF Patched, Row, Live
  <2>3. streams'[i] = Patched(h, streams[i])
    BY <1>1, <1>2 DEF TypeOK
  <2>4. streams' \in [Ids -> Row \cup {NoRow}]
    BY <1>1, <1>2, <2>2 DEF TypeOK
  <2> QED
    BY <1>1, <1>2, <2>2, <2>3, <2>4, ConstantsAssumption DEF Live, TypeOK
<1>5. topics' \subseteq Topic /\ late' \subseteq Handlers /\ mixed' \subseteq Ids
  BY <1>1, <1>2, NewType DEF TypeOK, Fetched, Beside
<1>6. /\ \A t : t.stream # i => (t \in topics' <=> t \in topics)
      /\ \A j \in Ids \ {i} : j \in mixed' <=> j \in mixed
      /\ \A g \in Handlers \ {h} : g \in late => g \in late'
  BY <1>2, <1>3, NewNames
<1>7. ASSUME NEW g \in Handlers \ {h}, req[g].id = i, graph[g] # NoGraph PROVE g \in late'
  BY <1>1, <1>2, <1>7 DEF Fetched, Beside, HandlerInv, Context, Patching
<1>8. ASSUME NEW g \in Handlers \ {h},
             pc[g] \in {"insert", "commitCreate", "commitPatch", "commitRemove"}
      PROVE  req[g].id # i
  <2>1. CASE pc[g] \in {"insert", "commitCreate"}
    BY <1>1, <1>3, <2>1 DEF HandlerInv, Context
  <2>2. CASE pc[g] \in {"commitPatch", "commitRemove"}
    BY <1>1, <2>2 DEF PairInv, Apart
  <2> QED
    BY <1>8, <2>1, <2>2
<1>9. ASSUME i \notin mixed'
      PROVE  {t.name : t \in {u \in topics' : u.stream = i}} = streams'[i].file
  <2>1. h \notin late /\ q.hasFile = TRUE
    BY <1>1, <1>2, <1>9 DEF Request
  <2>2. G.rows = TopicsOf(i) /\ G.file = streams[i].file
    BY <1>1, <1>3, <2>1 DEF HandlerInv, Current
  <2>3. {u \in topics' : u.stream = i} = NewTopics(q)
    BY <1>2, <2>2, NewNames DEF TopicsOf
  <2> QED
    BY <1>4, <2>1, <2>2, <2>3, NewNames DEF PopulateTopics
<1> QED
  BY <1>1, <1>2, <1>4, <1>5, <1>6, <1>7, <1>8, <1>9, CommitInv

-----------------------------------------------------------------------------
LEMMA StepInv ==
    ASSUME IInv, NEW h \in Handlers, Step(h) PROVE IInv'
<1>1. CASE InsertStream(h)
  BY <1>1, StatementInv DEF InsertStream, PCs
<1>2. CASE FetchGraph(h)
  BY <1>2, FetchInv
<1>3. CASE DeleteTopics(h)
  BY <1>3, StatementInv DEF DeleteTopics, PCs
<1>4. CASE InsertTopics(h)
  BY <1>4, StatementInv DEF InsertTopics, PCs
<1>5. CASE UpdateStream(h)
  <2>1. /\ pc[h] = "update" /\ Goto(h, "commitPatch") /\ Live(req[h].id) /\ UpdateUnblocked(h)
        /\ UNCHANGED <<streams, topics, used, requests, req, graph, late, mixed>>
    BY <1>5 DEF UpdateStream
  <2>2. "commitPatch" \in PCs \ {"idle"} /\ pc[h] # "idle"
    BY <2>1 DEF PCs
  <2> QED
    BY <2>1, <2>2, StatementInv
<1>6. CASE DeleteStream(h)
  <2>1. UpdateUnblocked(h)
    BY <1>6 DEF DeleteStream, DeleteUnblocked, UpdateUnblocked
  <2>2. /\ pc[h] = "delete" /\ Goto(h, "commitRemove") /\ Live(req[h].id)
        /\ UNCHANGED <<streams, topics, used, requests, req, graph, late, mixed>>
    BY <1>6 DEF DeleteStream
  <2>3. "commitRemove" \in PCs \ {"idle"} /\ pc[h] # "idle"
    BY <2>2 DEF PCs
  <2> QED
    BY <2>1, <2>2, <2>3, StatementInv
<1>7. CASE InsertRefused(h) \/ InsertTopicsRefused(h) \/ PatchRefused(h) \/ DeleteRefused(h)
  BY <1>7, RefuseInv DEF InsertRefused, InsertTopicsRefused, PatchRefused, DeleteRefused
<1> QED
  BY <1>1, <1>2, <1>3, <1>4, <1>5, <1>6, <1>7,
     CommitCreateInv, CommitPatchInv, CommitRemoveInv DEF Step

LEMMA StutterInv ==
    ASSUME IInv, UNCHANGED vars PROVE IInv'
BY DEF IInv, vars, TypeOK, HandlerInv, Context, Current, PairInv, Apart, RowsInv,
       TopicsHaveStream, TopicsMatch, Live, TopicsOf

\* The invariant that everything below is read off.
THEOREM Invariance == Spec => []IInv
<1>1. IInv /\ [Next]_vars => IInv'
  <2> SUFFICES ASSUME IInv, [Next]_vars PROVE IInv'
    OBVIOUS
  <2>1. CASE Next
    <3>1. PICK h \in Handlers :
            CreateStream(h) \/ PatchStream(h) \/ RemoveStream(h) \/ Step(h) \/ Fail(h)
      BY <2>1 DEF Next
    <3>2. CASE Fail(h)
      BY <3>2, RefuseInv DEF Fail
    <3> QED
      BY <3>1, <3>2, RequestInv, StepInv
  <2> QED
    BY <2>1, StutterInv
<1> QED
  BY InitInv, <1>1, PTL DEF Spec

\* The state has its type; in particular, a request is forgotten when it is answered.
THEOREM TypeCorrect == Spec => []TypeOK
<1>1. IInv => TypeOK
  BY DEF IInv
<1> QED
  BY <1>1, Invariance, PTL

\* The topics of a stream are those of its configuration file, as populate-topics.ts
\* and upsertGraph leave them, but for the exceptions that TopicsMatch names.
THEOREM TopicsKept == Spec => []TopicsMatch
<1>1. IInv => TopicsMatch
  BY DEF IInv
<1> QED
  BY <1>1, Invariance, PTL

\* No topic is left without its stream, whatever meets the removal.
THEOREM TopicsOwned == Spec => []TopicsHaveStream
<1>1. IInv => TopicsHaveStream
  BY DEF IInv, RowsInv
<1> QED
  BY <1>1, Invariance, PTL

-----------------------------------------------------------------------------
(***************************************************************************)
(* Configuration files of a stream (module ConfigFiles): the lists that a  *)
(* program works with.                                                     *)
(***************************************************************************)
\* The stages come one after the other, each with records of its own.
StageInv ==
    /\ step \in {"idle", "publicKey", "key"} => DOMAIN rows = {}
    /\ step = "file" => DOMAIN rows \subseteq Keys
    /\ step = "param" => DOMAIN rows \subseteq Keys \cup Files
    /\ step = "wait" => \/ pending \cup DOMAIN rows \subseteq Keys
                        \/ pending \subseteq Files /\ DOMAIN rows \subseteq Keys \cup Files
                        \/ pending \subseteq Parameters
    /\ pending # {} => step = "wait"

\* Records as they are and as they have been read; a secret that is listed or that
\* Vault is asked for was one when it was read.
RecordInv ==
    /\ item \in [Items -> Record]
    /\ \A i \in Items : item[i].text => i \in Parameters
    /\ DOMAIN rows \subseteq Items
    /\ \A i \in pending \cup secrets : i \in DOMAIN rows /\ rows[i].secret

\* Each live record that has been read is in its list, is a text, or Vault is still
\* asked for it.
Listed(i) == \/ i \in (IF rows[i].secret THEN secrets ELSE attachments)
             \/ rows[i].text /\ ~ rows[i].secret
             \/ rows[i].secret /\ i \in pending
Running == step \in Stages \cup {"wait"} \/ Complete
ListInv == Running => \A i \in DOMAIN rows : rows[i].live => Listed(i)

\* Why a secret that is listed may not be found.
FoundInv == step = "secret not found" =>
              missing # {} \/ \E i \in secrets : rows[i].secret /\ ~ item[i].secret

FileInv == StageInv /\ RecordInv /\ ListInv /\ FoundInv

\* A failure ends the request with a comment or without an answer.
LEMMA FailureEnds ==
    ASSUME NEW c, Failed(c), UNCHANGED document,
           "error" \in c \/ document.format = "scalar"
    PROVE  step' \in {"answered", "failed"} /\ ~ Running'
<1>1. CASE Wants("yaml")
  <2>1. step' = "answered" /\ comments' = comments \cup c
    BY <1>1 DEF Failed
  <2>2. ~ Complete'
    BY <2>1 DEF Complete
  <2> QED
    BY <2>1, <2>2 DEF Running, Stages
<1>2. CASE ~ Wants("yaml")
  BY <1>2 DEF Failed, Running, Complete, Stages
<1> QED
  BY <1>1, <1>2

\* One stage, given the lists that it makes of the records that it finds.
LEMMA StageStep ==
    ASSUME FileInv, NEW s, NEW F, NEW A, NEW L, NEW E, NEW W,
           \/ s = "key" /\ F \subseteq Keys
           \/ s = "file" /\ F \subseteq Files
           \/ s = "param" /\ F \subseteq Parameters,
           L \cup W \subseteq F, \A i \in L \cup W : item[i].secret,
           \A i \in F : item[i].live =>
             IF item[i].secret THEN i \in L \cup W ELSE i \in A \/ item[i].text,
           Apply(s, F, A, L, E, W)
    PROVE  FileInv'
<1>1. /\ step = s
      /\ rows' = [i \in DOMAIN rows \cup F |-> IF i \in F THEN item[i] ELSE rows[i]]
      /\ attachments' = attachments \cup A /\ secrets' = secrets \cup L
      /\ UNCHANGED <<item, document, query, publicKey>>
  BY DEF Apply
<1>2. /\ DOMAIN rows' = DOMAIN rows \cup F /\ DOMAIN rows \cap F = {}
      /\ \A i \in F : rows'[i] = item[i]
      /\ \A i \in DOMAIN rows : rows'[i] = rows[i]
      /\ pending = {}
  BY <1>1, FilesAssumption DEF FileInv, StageInv
<1>3. \/ Failed({}) /\ document.format = "scalar" /\ pending' = {}
      \/ Failed({"error"}) /\ pending' = {}
      \/ pending' = W /\ step' = IF W = {} THEN After(s) ELSE "wait"
  BY <1>2 DEF Apply
<1>4. RecordInv' /\ pending' \subseteq W
  BY <1>1, <1>2, <1>3 DEF FileInv, RecordInv, Items
<1>5. CASE step' \in {"answered", "failed"} /\ ~ Running' /\ pending' = {}
  BY <1>4, <1>5 DEF FileInv, StageInv, ListInv, FoundInv
<1>6. CASE pending' = W /\ step' = IF W = {} THEN After(s) ELSE "wait"
  <2>1. StageInv' /\ FoundInv'
    BY <1>1, <1>2, <1>6 DEF FileInv, StageInv, FoundInv, After
  <2>2. ASSUME NEW i \in DOMAIN rows', rows'[i].live PROVE Listed(i)'
    <3>1. CASE i \in F
      BY <1>1, <1>2, <1>6, <2>2, <3>1 DEF Listed
    <3>2. CASE i \in DOMAIN rows
      <4>1. Listed(i)
        BY <1>1, <1>2, <2>2, <3>2 DEF FileInv, ListInv, Running, Stages
      <4> QED
        BY <1>1, <1>2, <3>2, <4>1 DEF Listed
    <3> QED
      BY <1>2, <3>1, <3>2
  <2> QED
    BY <1>4, <2>1, <2>2 DEF FileInv, ListInv
<1> QED
  BY <1>1, <1>3, <1>5, <1>6, FailureEnds

\* The three stages.
LEMMA StagesStep ==
    ASSUME FileInv,
           ApplyEncryptKeys \/ ApplyAttachFiles \/ ApplyUserParameters
    PROVE  FileInv'
<1>1. RecordInv /\ Keys \cap Files = {} /\ Parameters \cap (Keys \cup Files) = {}
  BY FilesAssumption DEF FileInv
<1>2. CASE ApplyEncryptKeys
  <2> DEFINE found  == {k \in Keys : item[k].secret}
             live   == {k \in found : item[k].live}
             listed == {k \in found : \E l \in live : item[l].target = item[k].target}
             W      == IF Embeds("secret") THEN live ELSE {}
  <2>1. Apply("key", found, {}, listed, {}, W)
    BY <1>2 DEF ApplyEncryptKeys
  <2>2. /\ found \subseteq Keys /\ listed \cup W \subseteq found
        /\ \A i \in listed \cup W : item[i].secret
        /\ \A i \in found : item[i].secret /\ (item[i].live => i \in listed)
    OBVIOUS
  <2> HIDE DEF found, live, listed, W
  <2>3. \A i \in found : item[i].live =>
          IF item[i].secret THEN i \in listed \cup W ELSE i \in {} \/ item[i].text
    BY <2>2
  <2> QED
    BY <2>1, <2>2, <2>3, StageStep
<1>3. CASE ApplyAttachFiles
  <2> DEFINE live  == {f \in Files : item[f].live}
             plain == {f \in live : ~ item[f].secret}
             E     == {f \in plain : Embeds("attachment")}
  <2>1. Apply("file", live, plain, {}, E, live \ plain)
    BY <1>3 DEF ApplyAttachFiles
  <2>2. /\ live \subseteq Files /\ \A i \in live \ plain : item[i].secret
        /\ \A i \in live : IF item[i].secret THEN i \in live \ plain ELSE i \in plain
    OBVIOUS
  <2> HIDE DEF live, plain, E
  <2> QED
    BY <2>1, <2>2, StageStep
<1>4. CASE ApplyUserParameters
  <2> DEFINE live  == {p \in Parameters : item[p].live}
             plain == {p \in live : ~ item[p].secret}
             texts == {p \in plain : item[p].text}
             E     == {p \in texts : Embeds("text")}
                        \cup {p \in plain \ texts : Embeds("attachment")}
  <2>1. Apply("param", live, plain \ texts, {}, E, live \ plain)
    BY <1>4 DEF ApplyUserParameters
  <2>2. /\ live \subseteq Parameters /\ \A i \in live \ plain : item[i].secret
        /\ \A i \in live : IF item[i].secret THEN i \in live \ plain
                                             ELSE i \in plain \ texts \/ item[i].text
    OBVIOUS
  <2> HIDE DEF live, plain, texts, E
  <2> QED
    BY <2>1, <2>2, StageStep
<1> QED
  BY <1>2, <1>3, <1>4

\* An answer of Vault: the secret is listed, or the request ends.
LEMMA VaultStep ==
    ASSUME FileInv, NEW i \in Items, VaultAnswers(i)
    PROVE  FileInv'
<1>1. /\ i \in pending /\ step = "wait" /\ StageInv /\ RecordInv /\ ListInv /\ FoundInv
      /\ UNCHANGED <<item, document, query, publicKey, rows, attachments>>
      /\ i \in DOMAIN rows /\ rows[i].secret
  BY DEF VaultAnswers, FileInv, StageInv, RecordInv
<1>2. secrets' = secrets \cup {i} \/ secrets' = secrets
  BY DEF VaultAnswers, List
<1>3. \/ Failed({"error"}) /\ pending' = {}
      \/ /\ pending' = pending \ {i} /\ secrets' = secrets \cup {i}
         /\ step' = IF pending = {i} THEN After(StageOf(i)) ELSE "wait"
  BY DEF VaultAnswers, List
<1>4. RecordInv'
  BY <1>1, <1>2, <1>3 DEF RecordInv, Items
<1>5. CASE step' \in {"answered", "failed"} /\ ~ Running' /\ pending' = {}
  BY <1>4, <1>5 DEF FileInv, StageInv, ListInv, FoundInv
<1>6. CASE /\ pending' = pending \ {i} /\ secrets' = secrets \cup {i}
           /\ step' = IF pending = {i} THEN After(StageOf(i)) ELSE "wait"
  <2>1. StageInv' /\ FoundInv'
    BY <1>1, <1>6, FilesAssumption DEF StageInv, FoundInv, After, StageOf, Items
  <2>2. \A j \in DOMAIN rows : rows[j].live => Listed(j)
    BY <1>1 DEF ListInv, Running
  <2>3. \A j \in DOMAIN rows' : rows'[j].live => Listed(j)'
    BY <1>1, <1>6, <2>2 DEF Listed
  <2> QED
    BY <1>4, <2>1, <2>3 DEF FileInv, ListInv
<1> QED
  BY <1>1, <1>3, <1>5, <1>6, FailureEnds

\* What other clients change of the records.
LEMMA ItemsChange ==
    ASSUME item \in [Items -> Record],
           \/ \E i \in Items : MakePublic(i)
           \/ \E S \in SUBSET Items : RemoveRecords(S)
           \/ ChangeRights
    PROVE  /\ item' \in [Items -> Record]
           /\ \A j \in Items : item'[j].text = item[j].text /\ item'[j].target = item[j].target
<1>1. CASE \E i \in Items : MakePublic(i)
  <2>1. PICK i \in Items : item' = [item EXCEPT ![i].secret = FALSE]
    BY <1>1 DEF MakePublic
  <2> QED
    BY <2>1 DEF Record
<1>2. CASE \E S \in SUBSET Items : RemoveRecords(S)
  <2>1. PICK S \in SUBSET Items :
          item' = [i \in Items |->
                     IF i \in S THEN [item[i] EXCEPT !.live = FALSE, !.secret = FALSE] ELSE item[i]]
    BY <1>2 DEF RemoveRecords
  <2> QED
    BY <2>1 DEF Record
<1>3. CASE ChangeRights
  BY <1>3 DEF ChangeRights
<1> QED
  BY <1>1, <1>2, <1>3

\* The rest: the request, the default key, other clients and a program that asks.
LEMMA RestStep ==
    ASSUME FileInv,
           \/ Get \/ GetApiV1Config \/ GetPublicKey
           \/ \E i \in Items : MakePublic(i) \/ GetSecret(i)
           \/ \E S \in SUBSET Items : RemoveRecords(S)
           \/ ChangeRights
           \/ UNCHANGED fileVars
    PROVE  FileInv'
<1>1. StageInv /\ RecordInv /\ ListInv /\ FoundInv
  BY DEF FileInv
<1>2. CASE Get \/ GetApiV1Config \/ GetPublicKey
  <2>1. /\ DOMAIN rows = {} /\ step \in {"idle", "publicKey"}
        /\ UNCHANGED <<item, rows, pending, secrets>>
        /\ step' \in {"failed", "answered", "publicKey", "key"}
    BY <1>1, <1>2 DEF StageInv, Get, GetApiV1Config, GetPublicKey, Failed,
                      answer
  <2> QED
    BY <1>1, <2>1 DEF FileInv, StageInv, RecordInv, ListInv, FoundInv
<1>3. ASSUME \/ \E i \in Items : MakePublic(i)
             \/ \E S \in SUBSET Items : RemoveRecords(S)
             \/ ChangeRights
      PROVE  FileInv'
  <2>1. /\ step # "secret not found"
        /\ UNCHANGED <<document, step, rows, pending, attachments, secrets, comments>>
    BY <1>3 DEF MakePublic, RemoveRecords, ChangeRights, Served, Stages, answer
  <2>2. RecordInv'
    <3>1. /\ item' \in [Items -> Record]
          /\ \A j \in Items : item'[j].text = item[j].text
      BY <1>1, <1>3, ItemsChange DEF RecordInv
    <3> QED
      BY <1>1, <2>1, <3>1 DEF RecordInv
  <2> QED
    BY <1>1, <2>1, <2>2 DEF FileInv, StageInv, ListInv, Listed, Running, Complete, FoundInv
<1>4. ASSUME NEW i \in Items, GetSecret(i) PROVE FileInv'
  <2>1. /\ step = "answered" /\ i \in secrets
        /\ step' = IF missing = {} /\ item[i].secret THEN step ELSE "secret not found"
        /\ UNCHANGED <<item, document, missing, rows, pending, attachments, secrets, comments>>
    BY <1>4 DEF GetSecret, answer
  <2>2. FoundInv'
    BY <1>1, <2>1 DEF FoundInv, RecordInv
  <2>3. ListInv'
    BY <1>1, <2>1 DEF ListInv, Listed, Running, Complete, Stages
  <2> QED
    BY <1>1, <2>1, <2>2, <2>3 DEF FileInv, RecordInv, StageInv
<1>5. CASE UNCHANGED fileVars
  BY <1>1, <1>5 DEF fileVars, answer, FileInv, StageInv, RecordInv, ListInv, FoundInv, Listed,
                   Running, Complete
<1> QED
  BY <1>2, <1>3, <1>4, <1>5

LEMMA InitFile == FileInit => FileInv
<1> SUFFICES ASSUME FileInit PROVE FileInv
  OBVIOUS
<1>1. rows = <<>> /\ pending = {} /\ secrets = {} /\ step = "idle"
  BY DEF FileInit
<1>2. DOMAIN rows = {}
  BY <1>1
<1>3. RecordInv
  BY <1>1, <1>2 DEF FileInit, RecordInv, Items
<1> QED
  BY <1>1, <1>2, <1>3 DEF FileInv, StageInv, ListInv, FoundInv

\* A program that embeds by itself gets every live record as a text, attached or as a
\* secret that is listed, whatever fails and whatever others change meanwhile; and it
\* finds the secret, unless that was made public or removed since, by itself or with
\* its stream, or the user is no member any more or has no default key.
THEOREM FilesLoseNothing == FileSpec => []NothingLost
<1>1. FileInit => FileInv
  BY InitFile
<1>2. FileInv /\ [FileNext]_fileVars => FileInv'
  BY StagesStep, VaultStep, RestStep DEF FileNext
<1>3. FileInv => NothingLost
  <2> SUFFICES ASSUME FileInv, Complete, NEW i \in DOMAIN rows, rows[i].live
               PROVE  \/ i \in (IF rows[i].secret THEN secrets ELSE attachments)
                      \/ rows[i].text /\ ~ rows[i].secret
    BY DEF NothingLost, FileInv, FoundInv
  <2>1. pending = {} /\ Listed(i)
    BY DEF FileInv, StageInv, ListInv, Running, Complete
  <2> QED
    BY <2>1 DEF Listed
<1> QED
  BY <1>1, <1>2, <1>3, PTL DEF FileSpec

-----------------------------------------------------------------------------
(***************************************************************************)
(* Induction, and paths                                                    *)
(***************************************************************************)
\* A set of numbers has a smallest one.
LEMMA Smallest ==
    ASSUME NEW T, T \subseteq Nat, T # {}
    PROVE  \E x \in T : \A y \in T : x <= y
<1> DEFINE R == {ss \in Nat \X Nat : ss[1] < ss[2]}
<1>1. IsWellFoundedOn(R, Nat)
  BY NatLessThanWellFounded DEF OpToRel
<1>2. \A x, y \in Nat : y < x => <<y, x>> \in R
  OBVIOUS
<1> HIDE DEF R
<1>3. PICK x \in T : \A y \in T : ~ (<<y, x>> \in R)
  BY <1>1, WFMin
<1>4. \A y \in T : ~ (y < x)
  BY <1>2, <1>3
<1> QED
  BY <1>4

\* Induction for a set of numbers instead of a property of numbers.
LEMMA Upwards ==
    ASSUME NEW N, N \subseteq Nat, 0 \in N, \A n \in N : n + 1 \in N
    PROVE  N = Nat
<1> SUFFICES ASSUME NEW m \in Nat, m \notin N PROVE FALSE
  OBVIOUS
<1>1. PICK x \in Nat \ N : \A y \in Nat \ N : x <= y
  BY Smallest
<1>2. x # 0 /\ x - 1 \in Nat
  BY <1>1
<1>3. x - 1 \in N
  BY <1>1, <1>2
<1> QED
  BY <1>1, <1>2, <1>3

Path == Seq(STRING) \ {<<>>}

\* PrefixMeans, element by element.
LEMMA PrefixMeans ==
    ASSUME NEW s \in Seq(STRING), NEW t \in Seq(STRING)
    PROVE  IsPrefix(s, t) <=> Len(s) <= Len(t) /\ \A k \in 1 .. Len(s) : s[k] = t[k]
<1>1. Len(s) \in Nat /\ Len(t) \in Nat /\ SubSeq(s, 1, Len(s)) = s
  BY LenProperties, SubSeqFull
<1>2. CASE Len(s) <= Len(t)
  <2>1. \A i \in 1 .. Len(s) : t[i] \in STRING
    BY <1>1, <1>2, ElementOfSeq
  <2>2. /\ SubSeq(t, 1, Len(s)) \in Seq(STRING) /\ Len(SubSeq(t, 1, Len(s))) = Len(s)
        /\ \A i \in 1 .. Len(s) : SubSeq(t, 1, Len(s))[i] = t[i]
    BY <1>1, <2>1, SubSeqProperties
  <2>3. (\A k \in 1 .. Len(s) : s[k] = t[k]) => SubSeq(t, 1, Len(s)) = s
    BY <2>2, SeqEqual
  <2> QED
    BY <1>1, <1>2, <2>2, <2>3 DEF IsPrefix
<1>3. CASE ~ Len(s) <= Len(t)
  BY <1>3 DEF IsPrefix
<1> QED
  BY <1>2, <1>3

\* The same of strict prefixes.
LEMMA StrictMeans ==
    ASSUME NEW s \in Seq(STRING), NEW t \in Seq(STRING)
    PROVE  IsStrictPrefix(s, t) <=> Len(s) < Len(t) /\ \A k \in 1 .. Len(s) : s[k] = t[k]
<1>1. Len(s) \in Nat /\ Len(t) \in Nat
  BY LenProperties
<1>2. Len(s) = Len(t) /\ (\A k \in 1 .. Len(s) : s[k] = t[k]) => s = t
  BY SeqEqual
<1> QED
  BY <1>1, <1>2, PrefixMeans DEF IsStrictPrefix

\* Prefixes are ordered.
LEMMA PrefixOrder ==
    ASSUME NEW p \in Seq(STRING), NEW q \in Seq(STRING), NEW r \in Seq(STRING)
    PROVE  /\ IsPrefix(p, p)
           /\ IsPrefix(p, q) /\ IsPrefix(q, r) => IsPrefix(p, r)
           /\ IsStrictPrefix(p, q) /\ IsPrefix(q, r) => IsStrictPrefix(p, r)
           /\ IsPrefix(p, q) <=> p = q \/ IsStrictPrefix(p, q)
           /\ IsPrefix(p, q) => Len(p) <= Len(q)
           /\ IsStrictPrefix(p, q) => Len(p) < Len(q)
<1>1. Len(p) \in Nat /\ Len(q) \in Nat /\ Len(r) \in Nat
  BY LenProperties
<1>2. IsPrefix(p, p)
  BY <1>1, PrefixMeans
<1>3. IsPrefix(p, q) <=> p = q \/ IsStrictPrefix(p, q)
  BY <1>2 DEF IsStrictPrefix
<1>4. IsPrefix(p, q) /\ IsPrefix(q, r) => IsPrefix(p, r)
  BY <1>1, PrefixMeans
<1>5. IsStrictPrefix(p, q) /\ IsPrefix(q, r) => IsStrictPrefix(p, r)
  BY <1>1, PrefixMeans, StrictMeans
<1> QED
  BY <1>1, <1>2, <1>3, <1>4, <1>5, PrefixMeans, StrictMeans

\* The beginnings of a path are its strict prefixes.
LEMMA Beginnings ==
    ASSUME NEW p \in Path
    PROVE  /\ Len(p) \in Nat \ {0}
           /\ \A n \in 1 .. Len(p) - 1 : /\ SubSeq(p, 1, n) \in Path
                                         /\ IsStrictPrefix(SubSeq(p, 1, n), p)
           /\ \A q \in Path : IsStrictPrefix(q, p) =>
                \E n \in 1 .. Len(p) - 1 : q = SubSeq(p, 1, n)
<1>1. p \in Seq(STRING) /\ Len(p) \in Nat /\ Len(p) # 0
  BY EmptySeq, LenProperties DEF Path
<1>2. ASSUME NEW n \in 1 .. Len(p) - 1
      PROVE  /\ SubSeq(p, 1, n) \in Seq(STRING) /\ Len(SubSeq(p, 1, n)) = n
             /\ \A i \in 1 .. n : SubSeq(p, 1, n)[i] = p[i]
  <2>1. \A i \in 1 .. n : p[i] \in STRING
    BY <1>1, ElementOfSeq
  <2> QED
    BY <1>1, <2>1, SubSeqProperties
<1>3. ASSUME NEW n \in 1 .. Len(p) - 1
      PROVE  SubSeq(p, 1, n) \in Path /\ IsStrictPrefix(SubSeq(p, 1, n), p)
  <2>1. PICK q : q = SubSeq(p, 1, n)
    OBVIOUS
  <2>2. /\ q \in Seq(STRING) /\ Len(q) = n /\ n < Len(p)
        /\ \A i \in 1 .. n : q[i] = p[i]
    BY <1>1, <1>2, <2>1
  <2>3. q # <<>>
    BY <2>2, EmptySeq
  <2>4. IsStrictPrefix(q, p)
    BY <1>1, <2>2, StrictMeans
  <2> QED
    BY <2>1, <2>2, <2>3, <2>4 DEF Path
<1>4. ASSUME NEW q \in Path, IsStrictPrefix(q, p)
      PROVE  \E n \in 1 .. Len(p) - 1 : q = SubSeq(p, 1, n)
  <2>1. q \in Seq(STRING) /\ Len(q) \in 1 .. Len(p) - 1 /\ \A i \in 1 .. Len(q) : q[i] = p[i]
    BY <1>1, <1>4, EmptySeq, LenProperties, StrictMeans DEF Path
  <2>2. q = SubSeq(p, 1, Len(q))
    BY <1>2, <2>1, SeqEqual
  <2> QED
    BY <2>1, <2>2
<1> QED
  BY <1>1, <1>3, <1>4

\* What Way adds to paths.
LEMMA Ways ==
    ASSUME NEW P, P \subseteq Path
    PROVE  /\ Way(P) \subseteq Path
           /\ \A q \in Path : q \in Way(P) <=> \E p \in P : IsStrictPrefix(q, p)
<1>1. \A q : q \in Way(P) <=> \E p \in P : \E n \in 1 .. Len(p) - 1 : q = SubSeq(p, 1, n)
  BY SMTT(30) DEF Way
<1>2. ASSUME NEW q \in Way(P) PROVE q \in Path /\ \E p \in P : IsStrictPrefix(q, p)
  <2>1. PICK p \in P : \E n \in 1 .. Len(p) - 1 : q = SubSeq(p, 1, n)
    BY <1>1
  <2>2. p \in Path
    OBVIOUS
  <2> QED
    BY <2>1, <2>2, Beginnings
<1>3. ASSUME NEW q \in Path, NEW p \in P, IsStrictPrefix(q, p) PROVE q \in Way(P)
  <2>1. p \in Path
    OBVIOUS
  <2> QED
    BY <1>1, <1>3, <2>1, Beginnings
<1> QED
  BY <1>2, <1>3

-----------------------------------------------------------------------------
(***************************************************************************)
(* Trees, and the paths that a target names                                *)
(***************************************************************************)
\* What embedding keeps of a document: only maps have something below them, and
\* services are no values.
Tree(d) ==
    \A p \in DOMAIN d :
        /\ p \in Path /\ d[p] \in Items \cup {Map, Scalar, Nil}
        /\ d[p] \in Items => Len(p) >= 2
        /\ \A q \in Path : IsStrictPrefix(q, p) => q \in DOMAIN d /\ d[q] = Map

\* Services of d are services of e.
ServicesKept(d, e) ==
    \A s \in STRING : <<s>> \in DOMAIN d /\ d[<<s>>] = Map =>
                      <<s>> \in DOMAIN e /\ e[<<s>>] = Map

LEMMA DocumentTree ==
    ASSUME NEW f \in Documents
    PROVE  Tree(f.tree) /\ \A p \in DOMAIN f.tree : f.tree[p] \notin Items
<1>1. IsDocument(f.tree) /\ {Map, Scalar, Nil} \cap Items = {}
  BY FilesAssumption
<1> DEFINE d == f.tree
<1> SUFFICES ASSUME NEW p \in DOMAIN d
             PROVE  /\ p \in Path /\ d[p] \in {Map, Scalar, Nil}
                    /\ \A q \in Path : IsStrictPrefix(q, p) => q \in DOMAIN d /\ d[q] = Map
  BY <1>1 DEF Tree
<1>2. p \in Path /\ d[p] \in {Map, Scalar, Nil}
  BY <1>1 DEF IsDocument, Path
<1>3. \A n \in 1 .. Len(p) - 1 : SubSeq(p, 1, n) \in DOMAIN d /\ d[SubSeq(p, 1, n)] = Map
  BY <1>1 DEF IsDocument
<1>4. ASSUME NEW q \in Path, IsStrictPrefix(q, p) PROVE q \in DOMAIN d /\ d[q] = Map
  <2>1. PICK n \in 1 .. Len(p) - 1 : q = SubSeq(p, 1, n)
    BY <1>2, <1>4, Beginnings
  <2> QED
    BY <1>3, <2>1
<1> QED
  BY <1>2, <1>4

LEMMA Single ==
    ASSUME NEW S, NEW s \in S
    PROVE  <<s>> \in Seq(S) /\ Len(<<s>>) = 1 /\ <<s>>[1] = s /\ <<s>> # <<>>
OBVIOUS

\* The name of a service is a path, a strict prefix of what is in the service.
LEMMA ServicePath ==
    ASSUME NEW s \in STRING
    PROVE  /\ <<s>> \in Path /\ Len(<<s>>) = 1 /\ <<s>>[1] = s
           /\ \A p \in Path : Len(p) >= 2 /\ p[1] = s => IsStrictPrefix(<<s>>, p)
           /\ \A p \in Path : Len(p) >= 2 => ~ IsPrefix(p, <<s>>)
<1>1. PICK r : r = <<s>>
  OBVIOUS
<1>2. r \in Seq(STRING) /\ Len(r) = 1 /\ r[1] = s /\ r # <<>>
  BY <1>1, Single
<1>3. ASSUME NEW p \in Path, Len(p) >= 2, p[1] = s PROVE IsStrictPrefix(r, p)
  <2>1. p \in Seq(STRING) /\ Len(p) \in Nat
    BY LenProperties DEF Path
  <2>2. \A k \in 1 .. Len(r) : r[k] = p[k]
    <3> TAKE k \in 1 .. Len(r)
    <3>1. k = 1
      BY <1>2
    <3> QED
      BY <1>2, <1>3, <3>1
  <2> QED
    BY <1>2, <1>3, <2>1, <2>2, StrictMeans
<1>4. ASSUME NEW p \in Path, Len(p) >= 2, IsPrefix(p, r) PROVE FALSE
  <2>1. p \in Seq(STRING) /\ Len(p) \in Nat
    BY LenProperties DEF Path
  <2>2. Len(p) <= Len(r)
    BY <1>2, <1>4, <2>1, PrefixMeans
  <2> QED
    BY <1>2, <1>4, <2>1, <2>2
<1> QED
  BY <1>1, <1>2, <1>3, <1>4 DEF Path

LEMMA TargetPath ==
    ASSUME NEW t \in DOMAIN Targets
    PROVE  /\ t \in Nat /\ Targets[t] \in Path /\ Len(Targets[t]) \in Nat /\ Len(Targets[t]) >= 2
           /\ \A s \in STRING :
                /\ <<s>> \o Tail(Targets[t]) \in Path
                /\ Len(<<s>> \o Tail(Targets[t])) = Len(Targets[t])
                /\ (<<s>> \o Tail(Targets[t]))[1] = s
<1>1. t \in Nat /\ Targets[t] \in Seq(STRING) /\ Len(Targets[t]) >= 2
  BY FilesAssumption, LenProperties, ElementOfSeq
<1>2. Len(Targets[t]) \in Nat /\ Targets[t] # <<>>
  BY <1>1, LenProperties, EmptySeq
<1>3. Tail(Targets[t]) \in Seq(STRING) /\ Len(Tail(Targets[t])) = Len(Targets[t]) - 1
  BY <1>1, <1>2, HeadTailProperties
<1>4. ASSUME NEW s \in STRING
      PROVE  /\ <<s>> \o Tail(Targets[t]) \in Path
             /\ Len(<<s>> \o Tail(Targets[t])) = Len(Targets[t])
             /\ (<<s>> \o Tail(Targets[t]))[1] = s
  <2>1. <<s>> \in Seq(STRING) /\ Len(<<s>>) = 1 /\ <<s>>[1] = s
    BY Single
  <2>2. PICK r : r = Tail(Targets[t])
    OBVIOUS
  <2>3. /\ <<s>> \o r \in Seq(STRING) /\ Len(<<s>> \o r) = 1 + Len(r)
        /\ \A i \in 1 .. 1 + Len(r) : (<<s>> \o r)[i] = IF i <= 1 THEN <<s>>[i] ELSE r[i - 1]
    BY <1>3, <2>1, <2>2, ConcatProperties
  <2>4. 1 \in 1 .. 1 + Len(r) /\ Len(<<s>> \o r) = Len(Targets[t])
    BY <1>1, <1>2, <1>3, <2>2, <2>3
  <2>5. <<s>> \o r # <<>>
    BY <1>1, <1>2, <2>3, <2>4, EmptySeq
  <2>6. (<<s>> \o r)[1] = s
    BY <2>1, <2>3, <2>4
  <2>7. <<s>> \o r \in Path
    BY <2>3, <2>5 DEF Path
  <2> QED
    BY <2>2, <2>4, <2>6, <2>7
<1> QED
  BY <1>1, <1>2, <1>4 DEF Path

\* The paths of a target: its own, or those in each service that is a map.
LEMMA PathsOne ==
    ASSUME NEW d, NEW t \in DOMAIN Targets, Targets[t][1] # "*"
    PROVE  Paths(d, t) = {Targets[t]}
BY DEF Paths

LEMMA PathsStar ==
    ASSUME NEW d, NEW t \in DOMAIN Targets, Targets[t][1] = "*", NEW p \in Paths(d, t)
    PROVE  \E s \in ToSet(Services) : /\ <<s>> \in DOMAIN d /\ d[<<s>>] = Map
                                      /\ p = <<s>> \o Tail(Targets[t])
BY DEF Paths

LEMMA StarPaths ==
    ASSUME NEW d, NEW t \in DOMAIN Targets, Targets[t][1] = "*",
           NEW s \in ToSet(Services), <<s>> \in DOMAIN d, d[<<s>>] = Map
    PROVE  <<s>> \o Tail(Targets[t]) \in Paths(d, t)
BY DEF Paths

LEMMA ServiceNames == ToSet(Services) \subseteq STRING
BY FilesAssumption, ElementOfSeq, LenProperties DEF ToSet

\* They are as long as the target.
LEMMA TargetPaths ==
    ASSUME NEW d, NEW t \in DOMAIN Targets, NEW p \in Paths(d, t)
    PROVE  /\ p \in Path /\ p \in Seq(STRING) /\ Len(p) = Len(Targets[t])
           /\ Len(p) \in Nat /\ Len(p) >= 2
           /\ Targets[t][1] # "*" => p[1] = Targets[t][1]
           /\ Targets[t][1] = "*" => p[1] \in ToSet(Services)
<1>1. CASE Targets[t][1] # "*"
  <2>1. p = Targets[t]
    BY <1>1, PathsOne
  <2> QED
    BY <1>1, <2>1, TargetPath DEF Path
<1>2. CASE Targets[t][1] = "*"
  <2>1. PICK s \in ToSet(Services) : p = <<s>> \o Tail(Targets[t])
    BY <1>2, PathsStar
  <2>2. s \in STRING
    BY ServiceNames
  <2>3. p \in Path /\ Len(p) = Len(Targets[t]) /\ p[1] = s
    BY <2>1, <2>2, TargetPath
  <2> QED
    BY <1>2, <2>3, TargetPath DEF Path
<1> QED
  BY <1>1, <1>2

\* No path of a target goes through another one.
LEMMA NoneThrough ==
    ASSUME NEW d, NEW t \in DOMAIN Targets, NEW p \in Paths(d, t), NEW q \in Paths(d, t)
    PROVE  ~ IsStrictPrefix(p, q)
<1>1. p \in Seq(STRING) /\ q \in Seq(STRING) /\ Len(p) = Len(q) /\ Len(p) \in Nat
  BY TargetPaths
<1> QED
  BY <1>1, PrefixOrder

\* A path has a place among the services.
LEMMA PathPlace ==
    ASSUME NEW d, NEW t \in DOMAIN Targets, ~ Illegal(t), NEW p \in Paths(d, t)
    PROVE  Place(p) \in Nat
<1>1. p[1] \in ToSet(Services)
  BY TargetPaths DEF Illegal
<1>2. \E n \in DOMAIN Services : Services[n] = p[1]
  BY <1>1 DEF ToSet
<1>3. DOMAIN Services \subseteq Nat
  BY FilesAssumption, LenProperties
<1> QED
  BY <1>2, <1>3 DEF Place

\* With the services a tree keeps the paths; and it has no path but its own.
LEMMA PathsKept ==
    ASSUME NEW d, NEW e, NEW t \in DOMAIN Targets, ServicesKept(d, e), NEW p \in Paths(d, t)
    PROVE  p \in Paths(e, t)
<1>1. CASE Targets[t][1] # "*"
  BY <1>1, PathsOne
<1>2. CASE Targets[t][1] = "*"
  <2>1. PICK s \in ToSet(Services) : /\ <<s>> \in DOMAIN d /\ d[<<s>>] = Map
                                     /\ p = <<s>> \o Tail(Targets[t])
    BY <1>2, PathsStar
  <2>2. s \in STRING
    BY ServiceNames
  <2>3. <<s>> \in DOMAIN e /\ e[<<s>>] = Map
    BY <2>1, <2>2 DEF ServicesKept
  <2> QED
    BY <1>2, <2>1, <2>3, StarPaths
<1> QED
  BY <1>1, <1>2

LEMMA OwnPaths ==
    ASSUME NEW d, NEW e, NEW t \in DOMAIN Targets, Tree(d),
           NEW p \in DOMAIN d, p \in Paths(e, t)
    PROVE  p \in Paths(d, t)
<1>1. CASE Targets[t][1] # "*"
  BY <1>1, PathsOne
<1>2. CASE Targets[t][1] = "*"
  <2>1. PICK s \in ToSet(Services) : p = <<s>> \o Tail(Targets[t])
    BY <1>2, PathsStar
  <2>2. s \in STRING
    BY ServiceNames
  <2>3. p \in Path /\ Len(p) >= 2 /\ p[1] = s
    BY <2>1, <2>2, TargetPath
  <2>4. <<s>> \in Path /\ IsStrictPrefix(<<s>>, p)
    BY <2>2, <2>3, ServicePath
  <2>5. <<s>> \in DOMAIN d /\ d[<<s>>] = Map
    BY <2>4 DEF Tree
  <2> QED
    BY <1>2, <2>1, <2>5, StarPaths
<1> QED
  BY <1>1, <1>2

-----------------------------------------------------------------------------
(***************************************************************************)
(* One embedding                                                           *)
(***************************************************************************)
\* e is d with the value v at the paths P.
AddedTo(d, P, v, e) ==
    /\ P \subseteq Path
    /\ \A p \in P : Len(p) >= 2 /\ ~ Blocked(d, p)
    /\ \A p, q \in P : ~ IsStrictPrefix(p, q)
    /\ DOMAIN e = {p \in DOMAIN d : \A q \in P : ~ IsStrictPrefix(q, p)} \cup P \cup Way(P)
    /\ \A p \in P : e[p] = v
    /\ \A p \in Way(P) \ P : e[p] = Map
    /\ \A p \in DOMAIN e : p \notin P \cup Way(P) => e[p] = d[p]

\* The paths at which a value is put.
Taken(d, t) ==
    IF Illegal(t) \/ Detached THEN {}
    ELSE {p \in Paths(d, t) : \A q \in Paths(d, t) : Blocked(d, q) => Place(p) < Place(q)}

LEMMA AddValueAdds ==
    ASSUME NEW d, NEW P, P \subseteq Path, NEW v,
           \A p \in P : Len(p) >= 2 /\ ~ Blocked(d, p),
           \A p, q \in P : ~ IsStrictPrefix(p, q)
    PROVE  AddedTo(d, P, v, AddValue(d, P, v))
<1> DEFINE D == {p \in DOMAIN d : \A q \in P : ~ IsStrictPrefix(q, p)} \cup P \cup Way(P)
<1>1. AddValue(d, P, v)
        = [q \in D |-> IF q \in P THEN v ELSE IF q \in Way(P) THEN Map ELSE d[q]]
  <2>1. D = ((DOMAIN d) \ {q \in DOMAIN d : \E p \in P : IsStrictPrefix(p, q)}) \cup P \cup Way(P)
    OBVIOUS
  <2> QED
    BY <2>1 DEF AddValue
<1> QED
  BY <1>1 DEF AddedTo

\* What EmbedValue does, wherever it stops.
LEMMA EmbedAdds ==
    ASSUME NEW d, NEW t \in DOMAIN Targets, NEW v
    PROVE  /\ Taken(d, t) \subseteq Paths(d, t)
           /\ AddedTo(d, Taken(d, t), v, EmbedValue(d, t, v))
           /\ ~ EmbedFails(d, t) /\ ~ Detached => Taken(d, t) = Paths(d, t)
<1> DEFINE P == Taken(d, t)
<1>1. P \subseteq Paths(d, t)
  BY DEF Taken
<1>2. CASE Illegal(t) \/ Detached
  <2>1. P = {} /\ EmbedValue(d, t, v) = d
    BY <1>2 DEF Taken, EmbedValue
  <2>2. Way({}) = {}
    BY DEF Way
  <2>3. AddedTo(d, {}, v, d)
    BY <2>2 DEF AddedTo
  <2> QED
    BY <1>1, <1>2, <2>1, <2>3 DEF EmbedFails
<1>3. CASE ~ (Illegal(t) \/ Detached)
  <2>1. /\ P = {p \in Paths(d, t) : \A q \in Paths(d, t) : Blocked(d, q) => Place(p) < Place(q)}
        /\ EmbedValue(d, t, v) = AddValue(d, P, v)
    BY <1>3 DEF Taken, EmbedValue
  <2>2. ASSUME NEW p \in P PROVE p \in Path /\ Len(p) >= 2 /\ ~ Blocked(d, p)
    <3>1. p \in Paths(d, t) /\ Place(p) \in Nat /\ p \in Path /\ Len(p) >= 2
      BY <1>1, <1>3, PathPlace, TargetPaths
    <3>2. Blocked(d, p) => Place(p) < Place(p)
      BY <2>1, <3>1
    <3> QED
      BY <3>1, <3>2
  <2>3. \A p, q \in P : ~ IsStrictPrefix(p, q)
    BY <1>1, NoneThrough
  <2> HIDE DEF P
  <2>4. AddedTo(d, P, v, AddValue(d, P, v))
    BY <2>2, <2>3, AddValueAdds
  <2>5. ~ EmbedFails(d, t) => P = Paths(d, t)
    BY <1>3, <2>1 DEF EmbedFails
  <2> QED
    BY <1>1, <2>1, <2>4, <2>5 DEF P
<1> QED
  BY <1>2, <1>3

LEMMA AddedWay ==
    ASSUME NEW d, NEW P, NEW v, NEW e, AddedTo(d, P, v, e)
    PROVE  /\ Way(P) \subseteq Path /\ Way(P) \cap P = {}
           /\ \A q \in Way(P) : \E p \in P : IsStrictPrefix(q, p)
           /\ \A q \in Path, p \in P : IsStrictPrefix(q, p) => q \in Way(P)
           /\ \A q \in Way(P) : q \in DOMAIN d => d[q] \in {Map, Nil}
<1>1. P \subseteq Path /\ \A p \in P : ~ Blocked(d, p)
  BY DEF AddedTo
<1>2. Way(P) \subseteq Path /\ \A q \in Path : q \in Way(P) <=> \E p \in P : IsStrictPrefix(q, p)
  BY <1>1, Ways
<1>3. Way(P) \cap P = {}
  BY <1>2 DEF AddedTo
<1> QED
  BY <1>1, <1>2, <1>3 DEF Blocked

LEMMA AddedTree ==
    ASSUME NEW d, Tree(d), NEW P, NEW v \in Items, NEW e, AddedTo(d, P, v, e)
    PROVE  Tree(e)
<1> SUFFICES ASSUME NEW p \in DOMAIN e
             PROVE  /\ p \in Path /\ e[p] \in Items \cup {Map, Scalar, Nil}
                    /\ e[p] \in Items => Len(p) >= 2
                    /\ \A q \in Path : IsStrictPrefix(q, p) => q \in DOMAIN e /\ e[q] = Map
  BY DEF Tree
<1>1. P \subseteq Path /\ Way(P) \subseteq Path /\ Way(P) \cap P = {} /\ Map \notin Items
  <2>1. P \subseteq Path
    BY DEF AddedTo
  <2>2. Map \notin Items
    BY FilesAssumption
  <2> QED
    BY <2>1, <2>2, AddedWay
<1>2. \A q \in Way(P) : q \in DOMAIN e /\ e[q] = Map
  BY <1>1 DEF AddedTo
<1>3. CASE p \in P
  <2>1. e[p] = v /\ Len(p) >= 2
    BY <1>3 DEF AddedTo
  <2> QED
    BY <1>1, <1>2, <1>3, <2>1, AddedWay
<1>4. CASE p \in Way(P)
  <2>1. PICK r \in P : IsStrictPrefix(p, r)
    BY <1>4, AddedWay
  <2>2. \A q \in Path : IsStrictPrefix(q, p) => IsStrictPrefix(q, r)
    BY <1>1, <1>4, <2>1, PrefixOrder DEF Path
  <2> QED
    BY <1>1, <1>2, <1>4, <2>1, <2>2, AddedWay
<1>5. CASE p \notin P \cup Way(P)
  <2>1. p \in DOMAIN d /\ e[p] = d[p] /\ \A q \in P : ~ IsStrictPrefix(q, p)
    BY <1>5 DEF AddedTo
  <2>2. /\ p \in Path /\ d[p] \in Items \cup {Map, Scalar, Nil}
        /\ d[p] \in Items => Len(p) >= 2
        /\ \A q \in Path : IsStrictPrefix(q, p) => q \in DOMAIN d /\ d[q] = Map
    BY <2>1 DEF Tree
  <2>3. ASSUME NEW q \in Path, IsStrictPrefix(q, p) PROVE q \in DOMAIN e /\ e[q] = Map
    <3>1. q \in DOMAIN d /\ d[q] = Map /\ q \notin P
      BY <2>1, <2>2, <2>3
    <3>2. \A r \in P : ~ IsStrictPrefix(r, q)
      <4> SUFFICES ASSUME NEW r \in P, IsStrictPrefix(r, q) PROVE FALSE
        OBVIOUS
      <4>1. IsPrefix(q, p)
        BY <2>3 DEF IsStrictPrefix
      <4>2. IsStrictPrefix(r, p)
        BY <1>1, <2>2, <4>1, PrefixOrder DEF Path
      <4> QED
        BY <2>1, <4>2
    <3>3. q \in DOMAIN e
      BY <3>1, <3>2 DEF AddedTo
    <3> QED
      BY <1>2, <3>1, <3>3 DEF AddedTo
  <2> QED
    BY <2>1, <2>2, <2>3
<1> QED
  BY <1>3, <1>4, <1>5

LEMMA AddedServices ==
    ASSUME NEW d, NEW P, NEW v, NEW e, AddedTo(d, P, v, e)
    PROVE  ServicesKept(d, e)
<1> SUFFICES ASSUME NEW s \in STRING, <<s>> \in DOMAIN d, d[<<s>>] = Map
             PROVE  <<s>> \in DOMAIN e /\ e[<<s>>] = Map
  BY DEF ServicesKept
<1> PICK r : r = <<s>>
  OBVIOUS
<1>1. r \in DOMAIN d /\ d[r] = Map /\ r \in Path /\ Len(r) = 1
  BY ServicePath, Zenon
<1>2. ASSUME NEW p \in P PROVE p # r /\ ~ IsStrictPrefix(p, r)
  <2>1. p \in Path /\ Len(p) >= 2
    BY DEF AddedTo
  <2>2. ~ IsPrefix(p, r)
    BY <2>1, ServicePath
  <2>3. p # r
    <3> SUFFICES ASSUME p = r PROVE FALSE
      OBVIOUS
    <3>1. Len(p) = Len(r)
      OBVIOUS
    <3> QED
      BY <1>1, <2>1, <3>1
  <2> QED
    BY <2>2, <2>3 DEF IsStrictPrefix
<1>3. r \in DOMAIN e /\ r \notin P
  BY <1>1, <1>2 DEF AddedTo
<1> QED
  BY <1>1, <1>3 DEF AddedTo

\* What is said of the tree d of a file f when the rows are r, and D are embedded.
OthersIn(f, d, r) ==
    \A p \in DOMAIN f :
        \/ \E i \in DOMAIN r : \E q \in Paths(d, r[i].target) : IsPrefix(q, p)
        \/ p \in DOMAIN d /\ (d[p] # f[p] => f[p] = Nil /\ d[p] = Map)

EmbeddedIn(f, d, D, r) ==
    \A i \in D : \A p \in Paths(f, r[i].target) :
        \E q \in DOMAIN d : IsPrefix(q, p) /\ d[q] \in D

LaterIn(r, j, i) ==
    \/ <<StageOf(i), StageOf(j)>> \in {<<"key", "file">>, <<"key", "param">>, <<"file", "param">>}
    \/ /\ StageOf(i) = StageOf(j) /\ ~ r[i].secret
       /\ \/ r[j].secret
          \/ r[j].target > r[i].target
          \/ r[j].target = r[i].target /\ j > i

LastIn(d, D, r) ==
    \A p \in DOMAIN d : d[p] \in Items =>
        \A j \in D : p \in Paths(d, r[j].target) => ~ LaterIn(r, j, d[p])

\* The rows of records.
RowsOf(r) == DOMAIN r \subseteq Items /\ \A i \in DOMAIN r : r[i] \in Record

LEMMA RowTarget ==
    ASSUME NEW r, RowsOf(r), NEW i \in DOMAIN r
    PROVE  i \in Items /\ i \in Nat /\ r[i].target \in DOMAIN Targets /\ r[i].target \in Nat
<1>1. i \in Items /\ r[i].target \in DOMAIN Targets
  BY DEF RowsOf, Record
<1> QED
  BY <1>1, FilesAssumption, TargetPath

\* What no target names stays.
LEMMA AddedOthers ==
    ASSUME NEW f, DOMAIN f \subseteq Path, NEW d, NEW r, RowsOf(r), NEW v \in DOMAIN r,
           NEW P, P \subseteq Paths(d, r[v].target), NEW e, AddedTo(d, P, v, e),
           OthersIn(f, d, r)
    PROVE  OthersIn(f, e, r)
<1> SUFFICES ASSUME NEW p \in DOMAIN f
             PROVE  \/ \E i \in DOMAIN r : \E q \in Paths(e, r[i].target) : IsPrefix(q, p)
                    \/ p \in DOMAIN e /\ (e[p] # f[p] => f[p] = Nil /\ e[p] = Map)
  BY DEF OthersIn
<1>1. \A i \in DOMAIN r : \A q \in Paths(d, r[i].target) : q \in Paths(e, r[i].target)
  BY AddedServices, PathsKept, RowTarget
<1>2. CASE \E i \in DOMAIN r : \E q \in Paths(d, r[i].target) : IsPrefix(q, p)
  BY <1>1, <1>2
<1>3. CASE \E q \in P : IsPrefix(q, p)
  BY <1>1, <1>3
<1>4. CASE /\ p \in DOMAIN d /\ (d[p] # f[p] => f[p] = Nil /\ d[p] = Map)
           /\ \A q \in P : ~ IsPrefix(q, p)
  <2>1. P \subseteq Path /\ p \in Path
    BY DEF AddedTo
  <2>2. p \notin P /\ \A q \in P : ~ IsStrictPrefix(q, p)
    BY <1>4, <2>1, PrefixOrder DEF Path
  <2>3. p \in DOMAIN e
    BY <1>4, <2>2 DEF AddedTo
  <2>4. CASE p \in Way(P)
    <3>1. e[p] = Map
      BY <2>2, <2>4 DEF AddedTo
    <3>2. d[p] \in {Map, Nil}
      BY <1>4, <2>4, AddedWay
    <3> QED
      BY <1>4, <2>3, <3>1, <3>2
  <2>5. CASE p \notin Way(P)
    <3>1. e[p] = d[p]
      BY <2>2, <2>3, <2>5 DEF AddedTo
    <3> QED
      BY <1>4, <2>3, <3>1
  <2> QED
    BY <2>4, <2>5
<1> QED
  BY <1>2, <1>3, <1>4 DEF OthersIn

\* What is embedded stays, or is replaced by the new value.
LEMMA AddedEmbedded ==
    ASSUME NEW f, NEW d, Tree(d), ServicesKept(f, d), NEW r, RowsOf(r), NEW v \in DOMAIN r,
           NEW e, AddedTo(d, Paths(d, r[v].target), v, e),
           NEW D, D \subseteq DOMAIN r, EmbeddedIn(f, d, D, r)
    PROVE  EmbeddedIn(f, e, D \cup {v}, r)
<1> DEFINE P == Paths(d, r[v].target)
<1> SUFFICES ASSUME NEW i \in D \cup {v}, NEW p \in Paths(f, r[i].target)
             PROVE  \E q \in DOMAIN e : IsPrefix(q, p) /\ e[q] \in D \cup {v}
  BY DEF EmbeddedIn
<1>1. \A q \in P : q \in DOMAIN e /\ e[q] = v /\ q \in Seq(STRING)
  BY DEF AddedTo, Path
<1>2. p \in Seq(STRING) /\ r[v].target \in DOMAIN Targets
  BY RowTarget, TargetPaths
<1>3. CASE i = v
  <2>1. p \in P
    BY <1>2, <1>3, PathsKept
  <2> QED
    BY <1>1, <1>2, <2>1, PrefixOrder
<1>4. CASE i \in D
  <2>1. PICK q \in DOMAIN d : IsPrefix(q, p) /\ d[q] \in D
    BY <1>4 DEF EmbeddedIn
  <2>2. q \in Seq(STRING) /\ d[q] \in Items
    BY <2>1 DEF Tree, Path, RowsOf
  <2>3. CASE \E x \in P : IsStrictPrefix(x, q)
    <3>1. PICK x \in P : IsStrictPrefix(x, q)
      BY <2>3
    <3>2. IsPrefix(x, p)
      BY <1>1, <1>2, <2>1, <2>2, <3>1, PrefixOrder DEF IsStrictPrefix
    <3> QED
      BY <1>1, <3>2
  <2>4. CASE q \in P
    BY <1>1, <2>1, <2>4
  <2>5. CASE q \notin P /\ \A x \in P : ~ IsStrictPrefix(x, q)
    <3>1. q \notin Way(P)
      BY <2>2, AddedWay, FilesAssumption
    <3>2. q \in DOMAIN e /\ e[q] = d[q]
      BY <2>5, <3>1 DEF AddedTo
    <3> QED
      BY <2>1, <3>2
  <2> QED
    BY <2>3, <2>4, <2>5
<1> QED
  BY <1>3, <1>4

\* What comes last stays last, if nothing that is embedded is later.
LEMMA AddedLast ==
    ASSUME NEW d, Tree(d), NEW r, RowsOf(r), NEW v \in DOMAIN r,
           NEW e, AddedTo(d, Paths(d, r[v].target), v, e),
           NEW D, D \subseteq DOMAIN r, LastIn(d, D, r), \A j \in D : ~ LaterIn(r, j, v)
    PROVE  LastIn(e, D \cup {v}, r)
<1> DEFINE P == Paths(d, r[v].target)
<1> SUFFICES ASSUME NEW p \in DOMAIN e, e[p] \in Items, NEW j \in D \cup {v},
                    p \in Paths(e, r[j].target), LaterIn(r, j, e[p])
             PROVE  FALSE
  BY DEF LastIn
<1>1. ~ LaterIn(r, v, v)
  BY RowTarget DEF LaterIn, StageOf
<1>2. CASE p \in P
  BY <1>1, <1>2 DEF AddedTo
<1>3. CASE p \notin P
  <2>1. p \notin Way(P)
    BY <1>3, FilesAssumption DEF AddedTo
  <2>2. p \in DOMAIN d /\ e[p] = d[p]
    BY <1>3, <2>1 DEF AddedTo
  <2>3. p \in Paths(d, r[j].target)
    BY <2>2, OwnPaths, RowTarget
  <2> QED
    BY <1>3, <2>2, <2>3 DEF LastIn
<1> QED
  BY <1>2, <1>3

-----------------------------------------------------------------------------
(***************************************************************************)
(* The embeddings of a stage                                               *)
(***************************************************************************)
\* Trees is what its definition says: the recursive function is one.
LEMMA TreesAre ==
    ASSUME NEW d, NEW s, Len(s) \in Nat
    PROVE  /\ DOMAIN Trees(d, s) = 0 .. Len(s) /\ Trees(d, s)[0] = d
           /\ \A n \in 1 .. Len(s) :
                Trees(d, s)[n] = EmbedValue(Trees(d, s)[n - 1], item[s[n]].target, s[n])
<1> DEFINE Put(x, n) == EmbedValue(x, item[s[n]].target, s[n])
           Rec(f, k) == f = [n \in 0 .. k |-> IF n = 0 THEN d ELSE Put(f[n - 1], n)]
           N == {k \in Nat : \E f : Rec(f, k)}
<1> HIDE DEF Put
<1>1. 0 \in N
  <2>1. Rec([n \in 0 .. 0 |-> d], 0)
    OBVIOUS
  <2> QED
    BY <2>1
<1>2. ASSUME NEW k \in N PROVE k + 1 \in N
  <2>1. PICK f : Rec(f, k)
    OBVIOUS
  <2> DEFINE g == [n \in 0 .. k + 1 |-> IF n = k + 1 THEN Put(f[k], k + 1) ELSE f[n]]
  <2>2. ASSUME NEW n \in 0 .. k + 1
        PROVE  g[n] = IF n = 0 THEN d ELSE Put(g[n - 1], n)
    <3>1. CASE n = k + 1
      BY <3>1
    <3>2. CASE n # k + 1
      <4>1. n \in 0 .. k /\ g[n] = f[n] /\ (n # 0 => g[n - 1] = f[n - 1])
        BY <3>2
      <4>2. f[n] = IF n = 0 THEN d ELSE Put(f[n - 1], n)
        BY <2>1, <4>1
      <4> HIDE DEF g
      <4> QED
        BY <4>1, <4>2
    <3> QED
      BY <3>1, <3>2
  <2>3. g = [n \in 0 .. k + 1 |-> g[n]]
    OBVIOUS
  <2>4. g = [n \in 0 .. k + 1 |-> IF n = 0 THEN d ELSE Put(g[n - 1], n)]
    <3> HIDE DEF g
    <3> QED
      BY <2>2, <2>3
  <2>5. \E h : Rec(h, k + 1)
    <3> PICK h : h = g
      OBVIOUS
    <3>1. h = [n \in 0 .. k + 1 |-> IF n = 0 THEN d ELSE Put(h[n - 1], n)]
      <4> HIDE DEF g
      <4> QED
        BY <2>4
    <3> QED
      BY <3>1
  <2> QED
    BY <2>5
<1>3. N = Nat
  <2>1. N \subseteq Nat
    OBVIOUS
  <2> HIDE DEF N
  <2> QED
    BY <1>1, <1>2, <2>1, Upwards
<1>4. \E f : Rec(f, Len(s))
  BY <1>3
<1>5. Trees(d, s) = CHOOSE f : Rec(f, Len(s))
  BY DEF Trees, Put
<1>6. Rec(Trees(d, s), Len(s))
  <2> HIDE DEF Rec
  <2> QED
    BY <1>4, <1>5
<1>7. PICK f : f = Trees(d, s)
  OBVIOUS
<1>8. f = [n \in 0 .. Len(s) |-> IF n = 0 THEN d ELSE Put(f[n - 1], n)]
  BY <1>6, <1>7
<1>9. DOMAIN f = 0 .. Len(s) /\ f[0] = d /\ \A n \in 1 .. Len(s) : f[n] = Put(f[n - 1], n)
  BY <1>8
<1> QED
  BY <1>7, <1>9 DEF Put

\* The first of some records.
LEMMA FirstRecord ==
    ASSUME item \in [Items -> Record], NEW S, S \subseteq Items, S # {}
    PROVE  \E m \in S : \A j \in S \ {m} : Before(m, j)
<1>1. \A i \in S : i \in Nat /\ item[i].target \in Nat
  BY FilesAssumption, TargetPath DEF Record
<1>2. PICK x \in {item[i].target : i \in S} : \A y \in {item[i].target : i \in S} : x <= y
  BY <1>1, Smallest
<1>3. PICK m \in {i \in S : item[i].target = x} :
          \A j \in {i \in S : item[i].target = x} : m <= j
  BY <1>1, <1>2, Smallest
<1>4. ASSUME NEW j \in S \ {m} PROVE Before(m, j)
  <2>1. x <= item[j].target /\ item[m].target = x /\ m \in Nat /\ j \in Nat /\ m # j
        /\ item[j].target \in Nat /\ item[m].target \in Nat
    BY <1>1, <1>2, <1>3
  <2>2. item[j].target = x => m <= j
    BY <1>3
  <2> QED
    BY <2>1, <2>2 DEF Before
<1> QED
  BY <1>3, <1>4

Sorted(s) == \A m, n \in DOMAIN s : m < n => Before(s[m], s[n])

\* Records can be put in order.
LEMMA OrderExists ==
    ASSUME item \in [Items -> Record], NEW S \in SUBSET Items
    PROVE  \E s \in [1 .. Cardinality(S) -> S] : Sorted(s)
<1> DEFINE Has(T) == \E s \in [1 .. Cardinality(T) -> T] : Sorted(s)
           N == {n \in Nat : \A T \in SUBSET Items : Cardinality(T) = n => Has(T)}
<1>1. \A T \in SUBSET Items : IsFiniteSet(T) /\ Cardinality(T) \in Nat
  BY FilesAssumption, FS_Subset, FS_CardinalityType
<1>2. 0 \in N
  <2> SUFFICES ASSUME NEW T \in SUBSET Items, Cardinality(T) = 0 PROVE Has(T)
    OBVIOUS
  <2>1. [n \in 1 .. 0 |-> 0] \in [1 .. 0 -> T] /\ Sorted([n \in 1 .. 0 |-> 0])
    BY DEF Sorted
  <2> QED
    BY <2>1
<1>3. ASSUME NEW n \in N PROVE n + 1 \in N
  <2> SUFFICES ASSUME NEW T \in SUBSET Items, Cardinality(T) = n + 1 PROVE Has(T)
    OBVIOUS
  <2>1. T # {}
    BY FS_EmptySet
  <2>2. PICK m \in T : \A j \in T \ {m} : Before(m, j)
    BY <2>1, FirstRecord
  <2>3. T \ {m} \in SUBSET Items /\ Cardinality(T \ {m}) = n
    BY <1>1, FS_RemoveElement
  <2>4. PICK s \in [1 .. n -> T \ {m}] : Sorted(s)
    BY <2>3
  <2> DEFINE r == [k \in 1 .. n + 1 |-> IF k = 1 THEN m ELSE s[k - 1]]
  <2>5. ASSUME NEW k \in 1 .. n + 1, k # 1
        PROVE  r[k] = s[k - 1] /\ k - 1 \in DOMAIN s /\ r[k] \in T \ {m}
    BY <2>5
  <2>6. r[1] = m /\ DOMAIN r = 1 .. n + 1
    OBVIOUS
  <2>7. r \in [1 .. n + 1 -> T]
    OBVIOUS
  <2> HIDE DEF r
  <2>8. ASSUME NEW k \in DOMAIN r, NEW l \in DOMAIN r, k < l PROVE Before(r[k], r[l])
    <3>1. l \in 1 .. n + 1 /\ l # 1 /\ k \in 1 .. n + 1
      BY <2>6, <2>8
    <3>2. CASE k = 1
      BY <2>2, <2>5, <2>6, <3>1, <3>2
    <3>3. CASE k # 1
      <4>1. k - 1 < l - 1
        BY <2>8, <3>1
      <4> QED
        BY <2>4, <2>5, <3>1, <3>3, <4>1 DEF Sorted
    <3> QED
      BY <3>2, <3>3
  <2>9. Sorted(r)
    BY <2>8 DEF Sorted
  <2> QED
    BY <2>7, <2>9
<1>4. N = Nat
  <2>1. N \subseteq Nat
    OBVIOUS
  <2> HIDE DEF N
  <2> QED
    BY <1>2, <1>3, <2>1, Upwards
<1> QED
  BY <1>1, <1>4

\* What InOrder gives has each of the records once, those that come before first.
LEMMA InOrderIs ==
    ASSUME item \in [Items -> Record], NEW S \in SUBSET Items, NEW s, s = InOrder(S)
    PROVE  /\ Len(s) \in Nat /\ DOMAIN s = 1 .. Len(s) /\ Sorted(s)
           /\ \A n \in 1 .. Len(s) : s[n] \in S
           /\ \A i \in S : \E n \in 1 .. Len(s) : s[n] = i
<1> DEFINE c == Cardinality(S)
<1>1. IsFiniteSet(S) /\ c \in Nat
  BY FilesAssumption, FS_Subset, FS_CardinalityType
<1>2. s \in [1 .. c -> S] /\ Sorted(s)
  BY OrderExists DEF InOrder, Sorted
<1>3. Len(s) = c
  <2>1. s \in Seq(S)
    BY <1>1, <1>2, SeqDef
  <2>2. Len(s) \in Nat /\ DOMAIN s = 1 .. Len(s)
    BY <2>1, LenProperties
  <2>3. 1 .. Len(s) = 1 .. c
    BY <1>2, <2>2
  <2> QED
    BY <1>1, <2>2, <2>3
<1>4. \A m, n \in 1 .. c : m < n => s[m] # s[n]
  <2> SUFFICES ASSUME NEW m \in 1 .. c, NEW n \in 1 .. c, m < n, s[m] = s[n] PROVE FALSE
    OBVIOUS
  <2>1. Before(s[m], s[m])
    BY <1>2 DEF Sorted
  <2>2. s[m] \in Items
    BY <1>2
  <2>3. s[m] \in Nat /\ item[s[m]].target \in Nat
    BY <2>2, FilesAssumption, TargetPath DEF Record
  <2> QED
    BY <2>1, <2>3 DEF Before
<1>5. s \in Injection(1 .. c, S)
  BY <1>1, <1>2, <1>4 DEF Injection, IsInjective
<1>6. Cardinality(1 .. c) = c
  BY <1>1, FS_Interval
<1>7. s \in Surjection(1 .. c, S)
  BY <1>1, <1>5, <1>6, FS_Injection
<1>8. \A i \in S : \E n \in 1 .. c : s[n] = i
  BY <1>7 DEF Surjection
<1> QED
  BY <1>1, <1>2, <1>3, <1>8

\* What holds of the tree d of a file f, whatever has failed.
TreeOf(f, d, r) ==
    /\ Tree(d) /\ ServicesKept(f, d) /\ OthersIn(f, d, r)
    /\ \A p \in DOMAIN d : d[p] \in Items => d[p] \in DOMAIN r

\* One embedding of the record v.
LEMMA EmbedStep ==
    ASSUME document \in Documents, NEW r, RowsOf(r), NEW v \in DOMAIN r,
           NEW d, TreeOf(document.tree, d, r), NEW e, e = EmbedValue(d, r[v].target, v)
    PROVE  /\ TreeOf(document.tree, e, r) /\ (Detached => e = d)
           /\ \A D \in SUBSET DOMAIN r : ~ Detached /\ ~ EmbedFails(d, r[v].target) =>
                /\ EmbeddedIn(document.tree, d, D, r) =>
                     EmbeddedIn(document.tree, e, D \cup {v}, r)
                /\ LastIn(d, D, r) /\ (\A j \in D : ~ LaterIn(r, j, v)) =>
                     LastIn(e, D \cup {v}, r)
<1> DEFINE t == r[v].target
           P == Taken(d, t)
<1>1. v \in Items /\ t \in DOMAIN Targets
  BY RowTarget
<1>2. P \subseteq Paths(d, t) /\ AddedTo(d, P, v, e)
      /\ (~ EmbedFails(d, t) /\ ~ Detached => P = Paths(d, t))
  BY <1>1, EmbedAdds
<1>3. /\ Tree(d) /\ ServicesKept(document.tree, d) /\ OthersIn(document.tree, d, r)
      /\ \A p \in DOMAIN d : d[p] \in Items => d[p] \in DOMAIN r
  BY DEF TreeOf
<1>4. DOMAIN document.tree \subseteq Path
  BY DocumentTree DEF Tree
<1> HIDE DEF P, t
<1>5. TreeOf(document.tree, e, r)
  <2>1. Tree(e)
    BY <1>1, <1>2, <1>3, AddedTree
  <2>2. ServicesKept(document.tree, e)
    BY <1>2, <1>3, AddedServices DEF ServicesKept
  <2>3. OthersIn(document.tree, e, r)
    BY <1>2, <1>3, <1>4, AddedOthers DEF t
  <2>4. ASSUME NEW p \in DOMAIN e, e[p] \in Items PROVE e[p] \in DOMAIN r
    <3>1. CASE p \in P
      BY <1>2, <3>1 DEF AddedTo
    <3>2. CASE p \in Way(P) \ P
      BY <1>2, <2>4, <3>2, FilesAssumption DEF AddedTo
    <3>3. CASE p \notin P \cup Way(P)
      BY <1>2, <1>3, <2>4, <3>3 DEF AddedTo
    <3> QED
      BY <3>1, <3>2, <3>3
  <2> QED
    BY <2>1, <2>2, <2>3, <2>4 DEF TreeOf
<1>6. Detached => e = d
  BY DEF EmbedValue
<1>7. ASSUME NEW D \in SUBSET DOMAIN r, ~ Detached, ~ EmbedFails(d, t)
      PROVE  /\ EmbeddedIn(document.tree, d, D, r) =>
                  EmbeddedIn(document.tree, e, D \cup {v}, r)
             /\ LastIn(d, D, r) /\ (\A j \in D : ~ LaterIn(r, j, v)) => LastIn(e, D \cup {v}, r)
  <2>1. AddedTo(d, Paths(d, r[v].target), v, e)
    BY <1>2, <1>7 DEF t
  <2>2. EmbeddedIn(document.tree, d, D, r) => EmbeddedIn(document.tree, e, D \cup {v}, r)
    BY <1>3, <2>1, AddedEmbedded
  <2>3. LastIn(d, D, r) /\ (\A j \in D : ~ LaterIn(r, j, v)) => LastIn(e, D \cup {v}, r)
    BY <1>3, <2>1, AddedLast
  <2> QED
    BY <2>2, <2>3
<1> QED
  BY <1>5, <1>6, <1>7 DEF t

\* All embeddings of a stage, of the records S in their order.
LEMMA EmbedStage ==
    ASSUME document \in Documents, item \in [Items -> Record], NEW r, RowsOf(r),
           NEW S \in SUBSET DOMAIN r, \A i \in S : r[i].target = item[i].target,
           NEW d, TreeOf(document.tree, d, r), NEW e, e = EmbedAll(d, InOrder(S))
    PROVE  /\ TreeOf(document.tree, e, r) /\ (Detached => e = d)
           /\ \A D \in SUBSET DOMAIN r : ~ Detached /\ ~ SomeFails(d, InOrder(S)) =>
                /\ EmbeddedIn(document.tree, d, D, r) =>
                     EmbeddedIn(document.tree, e, D \cup S, r)
                /\ /\ LastIn(d, D, r)
                   /\ \A i \in S, j \in D : ~ LaterIn(r, j, i)
                   /\ \A i, j \in S : Before(j, i) => ~ LaterIn(r, j, i)
                   => LastIn(e, D \cup S, r)
<1>1. PICK s : s = InOrder(S)
  OBVIOUS
<1>2. S \in SUBSET Items
  BY DEF RowsOf
<1>3. /\ Len(s) \in Nat /\ DOMAIN s = 1 .. Len(s) /\ Sorted(s)
      /\ \A n \in 1 .. Len(s) : s[n] \in S
      /\ \A i \in S : \E n \in 1 .. Len(s) : s[n] = i
  BY <1>1, <1>2, InOrderIs
<1>4. PICK f : f = Trees(d, s)
  OBVIOUS
<1>5. /\ f[0] = d
      /\ \A n \in 1 .. Len(s) : f[n] = EmbedValue(f[n - 1], item[s[n]].target, s[n])
  BY <1>3, <1>4, TreesAre
<1>6. e = f[Len(s)]
  BY <1>1, <1>4 DEF EmbedAll
<1>7. SomeFails(d, s) <=> \E n \in 1 .. Len(s) : EmbedFails(f[n - 1], item[s[n]].target)
  BY <1>3, <1>4 DEF SomeFails
<1> DEFINE To(n) == {s[k] : k \in 1 .. n}
<1>8. ASSUME NEW n \in 0 .. Len(s) - 1
      PROVE  s[n + 1] \in S /\ s[n + 1] \in DOMAIN r
             /\ f[n + 1] = EmbedValue(f[n], r[s[n + 1]].target, s[n + 1])
             /\ To(n + 1) = To(n) \cup {s[n + 1]} /\ To(n) \subseteq S
  <2>1. n + 1 \in 1 .. Len(s) /\ n + 1 - 1 = n
    BY <1>3
  <2>2. s[n + 1] \in S
    BY <1>3, <2>1
  <2>3. f[n + 1] = EmbedValue(f[n], item[s[n + 1]].target, s[n + 1])
    BY <1>5, <2>1
  <2>4. To(n + 1) = To(n) \cup {s[n + 1]}
    <3>1. 1 .. n + 1 = (1 .. n) \cup {n + 1}
      OBVIOUS
    <3> QED
      BY <3>1
  <2>5. To(n) \subseteq S
    BY <1>3
  <2> QED
    BY <2>2, <2>3, <2>4, <2>5
<1>9. To(0) = {} /\ To(Len(s)) = S
  BY <1>3
<1> HIDE DEF To
<1> DEFINE N == {n \in Nat : n <= Len(s) =>
                    TreeOf(document.tree, f[n], r) /\ (Detached => f[n] = d)}
<1>10. N = Nat
  <2>1. 0 \in N
    BY <1>5
  <2>2. ASSUME NEW n \in N PROVE n + 1 \in N
    <3> SUFFICES ASSUME n + 1 <= Len(s)
                 PROVE  TreeOf(document.tree, f[n + 1], r) /\ (Detached => f[n + 1] = d)
      OBVIOUS
    <3>1. n \in 0 .. Len(s) - 1 /\ TreeOf(document.tree, f[n], r) /\ (Detached => f[n] = d)
      BY <1>3
    <3> QED
      BY <1>8, <3>1, EmbedStep
  <2>3. N \subseteq Nat
    OBVIOUS
  <2> HIDE DEF N
  <2> QED
    BY <2>1, <2>2, <2>3, Upwards
<1>11. \A n \in 0 .. Len(s) : TreeOf(document.tree, f[n], r) /\ (Detached => f[n] = d)
  BY <1>3, <1>10
<1>12. ASSUME NEW D \in SUBSET DOMAIN r, ~ Detached, ~ SomeFails(d, s),
              EmbeddedIn(document.tree, d, D, r)
       PROVE  EmbeddedIn(document.tree, e, D \cup S, r)
  <2> DEFINE M == {n \in Nat : n <= Len(s) => EmbeddedIn(document.tree, f[n], D \cup To(n), r)}
  <2>1. 0 \in M
    BY <1>5, <1>9, <1>12
  <2>2. ASSUME NEW n \in M PROVE n + 1 \in M
    <3> SUFFICES ASSUME n + 1 <= Len(s)
                 PROVE  EmbeddedIn(document.tree, f[n + 1], D \cup To(n + 1), r)
      OBVIOUS
    <3>1. n \in 0 .. Len(s) - 1 /\ n + 1 \in 1 .. Len(s) /\ n + 1 - 1 = n
          /\ EmbeddedIn(document.tree, f[n], D \cup To(n), r)
      BY <1>3
    <3>2. ~ EmbedFails(f[n], r[s[n + 1]].target)
      BY <1>7, <1>8, <1>12, <3>1
    <3>3. EmbeddedIn(document.tree, f[n + 1], (D \cup To(n)) \cup {s[n + 1]}, r)
      <4>1. D \cup To(n) \in SUBSET DOMAIN r /\ s[n + 1] \in DOMAIN r
        BY <1>8, <3>1
      <4>2. /\ TreeOf(document.tree, f[n], r)
            /\ f[n + 1] = EmbedValue(f[n], r[s[n + 1]].target, s[n + 1])
        BY <1>8, <1>11, <3>1
      <4> QED
        BY <1>12, <3>1, <3>2, <4>1, <4>2, EmbedStep
    <3>4. (D \cup To(n)) \cup {s[n + 1]} = D \cup To(n + 1)
      BY <1>8, <3>1
    <3> QED
      BY <3>3, <3>4
  <2>3. M \subseteq Nat
    OBVIOUS
  <2>4. M = Nat
    <3> HIDE DEF M
    <3> QED
      BY <2>1, <2>2, <2>3, Upwards
  <2>5. Len(s) \in M
    BY <1>3, <2>4
  <2> QED
    BY <1>3, <1>6, <1>9, <2>5
<1>13. ASSUME NEW D \in SUBSET DOMAIN r, ~ Detached, ~ SomeFails(d, s), LastIn(d, D, r),
              \A i \in S, j \in D : ~ LaterIn(r, j, i),
              \A i, j \in S : Before(j, i) => ~ LaterIn(r, j, i)
       PROVE  LastIn(e, D \cup S, r)
  <2> DEFINE M == {n \in Nat : n <= Len(s) => LastIn(f[n], D \cup To(n), r)}
  <2>1. 0 \in M
    BY <1>5, <1>9, <1>13
  <2>2. ASSUME NEW n \in M PROVE n + 1 \in M
    <3> SUFFICES ASSUME n + 1 <= Len(s)
                 PROVE  LastIn(f[n + 1], D \cup To(n + 1), r)
      OBVIOUS
    <3>1. n \in 0 .. Len(s) - 1 /\ n + 1 \in 1 .. Len(s) /\ n + 1 - 1 = n
          /\ LastIn(f[n], D \cup To(n), r)
      BY <1>3
    <3>2. ~ EmbedFails(f[n], r[s[n + 1]].target)
      BY <1>7, <1>8, <1>13, <3>1
    <3>3. ASSUME NEW j \in D \cup To(n) PROVE ~ LaterIn(r, j, s[n + 1])
      <4>1. CASE j \in D
        BY <1>8, <1>13, <3>1, <4>1
      <4>2. CASE j \in To(n)
        <5>1. PICK k \in 1 .. n : j = s[k]
          BY <4>2 DEF To
        <5>2. k \in DOMAIN s /\ n + 1 \in DOMAIN s /\ k < n + 1
          BY <1>3, <3>1
        <5>3. Before(j, s[n + 1]) /\ j \in S
          BY <1>3, <5>1, <5>2 DEF Sorted
        <5> QED
          BY <1>8, <1>13, <3>1, <5>3
      <4> QED
        BY <4>1, <4>2
    <3>4. LastIn(f[n + 1], (D \cup To(n)) \cup {s[n + 1]}, r)
      <4>1. D \cup To(n) \in SUBSET DOMAIN r /\ s[n + 1] \in DOMAIN r
        BY <1>8, <3>1
      <4>2. /\ TreeOf(document.tree, f[n], r)
            /\ f[n + 1] = EmbedValue(f[n], r[s[n + 1]].target, s[n + 1])
        BY <1>8, <1>11, <3>1
      <4> QED
        BY <1>13, <3>1, <3>2, <3>3, <4>1, <4>2, EmbedStep
    <3>5. (D \cup To(n)) \cup {s[n + 1]} = D \cup To(n + 1)
      BY <1>8, <3>1
    <3> QED
      BY <3>4, <3>5
  <2>3. M \subseteq Nat
    OBVIOUS
  <2>4. M = Nat
    <3> HIDE DEF M
    <3> QED
      BY <2>1, <2>2, <2>3, Upwards
  <2>5. Len(s) \in M
    BY <1>3, <2>4
  <2> QED
    BY <1>3, <1>6, <1>9, <2>5
<1> QED
  BY <1>1, <1>3, <1>6, <1>11, <1>12, <1>13

\* The tree holds, whatever fails, what it should.
TreeInv ==
    /\ document \in Documents /\ RowsOf(rows)
    /\ \A i \in DOMAIN rows : rows[i].target = item[i].target
    /\ TreeOf(document.tree, tree, rows)
    /\ Detached => tree = document.tree

\* While nothing has failed, what has been read is embedded or Vault is asked for it,
\* and what comes last is there.
OrderInv ==
    Running =>
        /\ ~ Detached => EmbeddedIn(document.tree, tree, Claims \ pending, rows)
        /\ LastIn(tree, Claims \ pending, rows)

\* The other variables.
FieldInv ==
    /\ query \in Queries /\ step \in Steps /\ publicKey \in BOOLEAN
    /\ missing \subseteq {"membership", "publicKey"}
    /\ step = "wait" => pending # {}
    /\ \A i \in pending : rows[i].live
    /\ \A i \in attachments : i \in DOMAIN rows /\ ~ rows[i].secret
    /\ header \subseteq {"version", "fingerprint"} /\ comments \subseteq {"error", "warning"}

EmbedInv == FileInv /\ TreeInv /\ OrderInv /\ FieldInv

\* What is said of a tree when more rows have been read.
LEMMA MoreRows ==
    ASSUME NEW r, NEW x, DOMAIN r \subseteq DOMAIN x, \A i \in DOMAIN r : x[i] = r[i],
           NEW f, NEW d, TreeOf(f, d, r)
    PROVE  /\ TreeOf(f, d, x)
           /\ \A D \in SUBSET DOMAIN r :
                /\ EmbeddedIn(f, d, D, r) => EmbeddedIn(f, d, D, x)
                /\ LastIn(d, D, r) => LastIn(d, D, x)
<1>1. TreeOf(f, d, x)
  <2>1. OthersIn(f, d, r)
    BY DEF TreeOf
  <2>2. OthersIn(f, d, x)
    BY <2>1 DEF OthersIn
  <2> QED
    BY <2>2 DEF TreeOf
<1>2. ASSUME NEW D \in SUBSET DOMAIN r, EmbeddedIn(f, d, D, r) PROVE EmbeddedIn(f, d, D, x)
  BY <1>2 DEF EmbeddedIn
<1>3. ASSUME NEW D \in SUBSET DOMAIN r, LastIn(d, D, r) PROVE LastIn(d, D, x)
  <2> SUFFICES ASSUME NEW p \in DOMAIN d, d[p] \in Items, NEW j \in D,
                      p \in Paths(d, x[j].target)
               PROVE  ~ LaterIn(x, j, d[p])
    BY DEF LastIn
  <2>1. d[p] \in DOMAIN r /\ x[j] = r[j] /\ x[d[p]] = r[d[p]]
    BY DEF TreeOf
  <2>2. ~ LaterIn(r, j, d[p])
    BY <1>3, <2>1 DEF LastIn
  <2> QED
    BY <2>1, <2>2 DEF LaterIn
<1> QED
  BY <1>1, <1>2, <1>3

\* One stage: the tree, given what it embeds, what it asks for, and its lists.
LEMMA StageTree ==
    ASSUME EmbedInv, FileInv', NEW s, NEW F, NEW A, NEW L, NEW E, NEW W,
           \/ s = "key" /\ F \subseteq Keys
           \/ s = "file" /\ F \subseteq Files
           \/ s = "param" /\ F \subseteq Parameters,
           A \subseteq {i \in F : ~ item[i].secret},
           E = {i \in F : /\ item[i].live /\ ~ item[i].secret
                          /\ IF item[i].text THEN Embeds("text") ELSE Embeds("attachment")},
           \A i \in W : i \in F /\ item[i].live /\ item[i].secret,
           \A i \in F : item[i].live /\ item[i].secret /\ Embeds("secret") => i \in W,
           Apply(s, F, A, L, E, W)
    PROVE  TreeInv' /\ OrderInv' /\ FieldInv'
<1>1. /\ step = s /\ s \in Stages
      /\ rows' = [i \in DOMAIN rows \cup F |-> IF i \in F THEN item[i] ELSE rows[i]]
      /\ attachments' = attachments \cup A
      /\ header' = header \cup {v \in {"version"} : F # {} /\ document.format # "scalar"}
      /\ UNCHANGED <<item, document, query, missing, publicKey>>
  BY DEF Apply, Stages
<1>2. /\ DOMAIN rows' = DOMAIN rows \cup F /\ DOMAIN rows \cap F = {}
      /\ \A i \in F : rows'[i] = item[i]
      /\ \A i \in DOMAIN rows : rows'[i] = rows[i]
      /\ pending = {}
  BY <1>1, FilesAssumption DEF EmbedInv, FileInv, StageInv
<1>3. item \in [Items -> Record] /\ F \subseteq Items /\ document \in Documents
  BY DEF EmbedInv, FileInv, RecordInv, TreeInv, Items
<1>4. RowsOf(rows)' /\ \A i \in DOMAIN rows' : rows'[i].target = item[i].target
  BY <1>1, <1>2, <1>3 DEF EmbedInv, TreeInv, RowsOf
<1> PICK r : r = rows'
  OBVIOUS
<1>5. /\ RowsOf(r) /\ DOMAIN rows \subseteq DOMAIN r /\ \A i \in DOMAIN rows : r[i] = rows[i]
      /\ E \in SUBSET DOMAIN r /\ \A i \in E : r[i].target = item[i].target
  BY <1>2, <1>4 DEF RowsOf
<1>6. /\ TreeOf(document.tree, tree, r) /\ (Detached => tree = document.tree)
      /\ \A D \in SUBSET DOMAIN rows :
           /\ EmbeddedIn(document.tree, tree, D, rows) => EmbeddedIn(document.tree, tree, D, r)
           /\ LastIn(tree, D, rows) => LastIn(tree, D, r)
  BY <1>5, MoreRows DEF EmbedInv, TreeInv
<1>7. \/ UNCHANGED tree
      \/ tree' = EmbedAll(tree, InOrder(E))
  BY DEF Apply
<1>8. TreeInv'
  <2>1. TreeOf(document.tree, tree', r) /\ (Detached => tree' = document.tree)
    BY <1>3, <1>5, <1>6, <1>7, EmbedStage
  <2> QED
    BY <1>1, <1>3, <1>4, <2>1 DEF TreeInv, Detached
<1>9. FieldInv'
  <2>1. step' \in Steps /\ comments' \subseteq {"error", "warning"}
    BY <1>1 DEF Apply, Failed, EmbedInv, FieldInv, Steps, Stages, After
  <2>2. /\ pending' = {} \/ pending' = W
        /\ step' = "wait" => pending' # {}
    BY <1>1, <1>2 DEF Apply, Failed, After
  <2>3. header' \subseteq {"version", "fingerprint"}
    BY <1>1 DEF EmbedInv, FieldInv
  <2>4. /\ \A i \in pending' : rows'[i].live
        /\ \A i \in attachments' : i \in DOMAIN rows' /\ ~ rows'[i].secret
    BY <1>1, <1>2, <2>2 DEF EmbedInv, FieldInv
  <2> QED
    BY <1>1, <2>1, <2>2, <2>3, <2>4 DEF EmbedInv, FieldInv
<1>10. OrderInv'
  <2> SUFFICES ASSUME Running'
               PROVE  /\ ~ Detached => EmbeddedIn(document.tree, tree', Claims' \ pending', r)
                      /\ LastIn(tree', Claims' \ pending', r)
    BY <1>1 DEF OrderInv, Detached
  <2>1. \/ F = {} /\ UNCHANGED <<tree, pending>>
        \/ tree' = EmbedAll(tree, InOrder(E)) /\ pending' = W /\ ~ SomeFails(tree, InOrder(E))
    <3>1. \/ F = {} /\ UNCHANGED <<tree, pending>>
          \/ Failed({}) /\ document.format = "scalar"
          \/ Failed({"error"})
          \/ tree' = EmbedAll(tree, InOrder(E)) /\ pending' = W /\ ~ SomeFails(tree, InOrder(E))
      BY DEF Apply
    <3>2. ~ (Failed({}) /\ document.format = "scalar")
      BY <1>1, FailureEnds
    <3>3. ~ Failed({"error"})
      BY <1>1, FailureEnds
    <3> QED
      BY <3>1, <3>2, <3>3, Zenon
  <2>2. Claims \subseteq DOMAIN rows
    BY DEF Claims
  <2>3. Claims' \ pending' = Claims \cup E
    <3>1. \A i \in DOMAIN rows : i \in Claims' <=> i \in Claims
      BY <1>1, <1>2 DEF Claims, Embeds
    <3>2. ASSUME NEW i \in F PROVE i \in Claims' \ W <=> i \in E
      <4>1. \A w : Embeds(w)' <=> Embeds(w)
        BY <1>1 DEF Embeds
      <4>2. i \in Claims' <=>
              /\ item[i].live
              /\ IF item[i].secret THEN Embeds("secret") /\ publicKey
                 ELSE IF item[i].text THEN Embeds("text") ELSE Embeds("attachment")
        BY <1>1, <1>2, <4>1 DEF Claims
      <4>3. i \in W => item[i].secret
        BY <1>2
      <4> QED
        BY <4>2, <4>3
    <3>3. Claims' \subseteq DOMAIN rows'
      BY DEF Claims
    <3> QED
      BY <1>2, <2>1, <2>2, <3>1, <3>2, <3>3
  <2>4. Running /\ pending = {}
    BY <1>1, <1>2 DEF Running
  <2>5. /\ ~ Detached => EmbeddedIn(document.tree, tree, Claims, r)
        /\ LastIn(tree, Claims, r)
    <3>1. Claims \ pending = Claims
      BY <2>4
    <3>2. /\ ~ Detached => EmbeddedIn(document.tree, tree, Claims, rows)
          /\ LastIn(tree, Claims, rows)
      BY <2>4, <3>1 DEF EmbedInv, OrderInv
    <3> QED
      BY <1>6, <2>2, <3>2
  <2>6. CASE F = {} /\ UNCHANGED <<tree, pending>>
    <3>1. E = {}
      BY <2>6
    <3> QED
      BY <2>3, <2>5, <2>6, <3>1
  <2>7. CASE tree' = EmbedAll(tree, InOrder(E)) /\ ~ SomeFails(tree, InOrder(E))
    <3>1. ASSUME NEW i \in E, NEW j \in Claims PROVE ~ LaterIn(r, j, i)
      <4>1. j \in DOMAIN rows /\ i \in F
        BY <2>2
      <4>2. \/ s = "file" /\ j \in Keys /\ i \in Files
            \/ s = "param" /\ j \in Keys \cup Files /\ i \in Parameters
        BY <1>1, <4>1 DEF EmbedInv, FileInv, StageInv
      <4> QED
        BY <4>2, FilesAssumption DEF LaterIn, StageOf
    <3>2. ASSUME NEW i \in E, NEW j \in E, Before(j, i) PROVE ~ LaterIn(r, j, i)
      <4>1. /\ r[i] = item[i] /\ r[j] = item[j] /\ ~ r[i].secret /\ ~ r[j].secret
            /\ i \in Nat /\ j \in Nat /\ r[i].target \in Nat /\ r[j].target \in Nat
        BY <1>2, <1>5, RowTarget
      <4>2. StageOf(i) = StageOf(j)
        BY FilesAssumption DEF StageOf
      <4> QED
        BY <3>2, <4>1, <4>2 DEF LaterIn, Before, StageOf
    <3>3. Claims \in SUBSET DOMAIN r
      BY <1>5, <2>2
    <3>4. CASE ~ Detached
      <4>1. /\ EmbeddedIn(document.tree, tree, Claims, r) =>
                 EmbeddedIn(document.tree, tree', Claims \cup E, r)
            /\ LastIn(tree, Claims, r) => LastIn(tree', Claims \cup E, r)
        BY <1>3, <1>5, <1>6, <2>7, <3>1, <3>2, <3>3, <3>4, EmbedStage
      <4> QED
        BY <2>3, <2>5, <3>4, <4>1
    <3>5. CASE Detached
      <4>1. tree' = document.tree
        BY <1>3, <1>5, <1>6, <2>7, <3>5, EmbedStage
      <4>2. \A p \in DOMAIN tree' : tree'[p] \notin Items
        BY <1>3, <4>1, DocumentTree
      <4> QED
        BY <3>5, <4>2 DEF LastIn
    <3> QED
      BY <3>4, <3>5
  <2> QED
    BY <2>1, <2>6, <2>7
<1> QED
  BY <1>8, <1>9, <1>10

\* The three stages.
LEMMA StagesTree ==
    ASSUME EmbedInv, ApplyEncryptKeys \/ ApplyAttachFiles \/ ApplyUserParameters
    PROVE  EmbedInv'
<1>1. /\ FileInv /\ FileInv' /\ RecordInv
      /\ Keys \cap Files = {} /\ Parameters \cap (Keys \cup Files) = {}
  BY StagesStep, FilesAssumption DEF EmbedInv, FileInv
<1>2. CASE ApplyEncryptKeys
  <2> DEFINE found  == {k \in Keys : item[k].secret}
             live   == {k \in found : item[k].live}
             listed == {k \in found : \E l \in live : item[l].target = item[k].target}
             W      == IF Embeds("secret") THEN live ELSE {}
  <2>1. Apply("key", found, {}, listed, {}, W)
    BY <1>2 DEF ApplyEncryptKeys
  <2>2. found \subseteq Keys /\ \A i \in found : item[i].secret
    OBVIOUS
  <2>3. {} = {i \in found : /\ item[i].live /\ ~ item[i].secret
                            /\ IF item[i].text THEN Embeds("text") ELSE Embeds("attachment")}
    BY <2>2
  <2>4. /\ \A i \in W : i \in found /\ item[i].live /\ item[i].secret
        /\ \A i \in found : item[i].live /\ item[i].secret /\ Embeds("secret") => i \in W
    OBVIOUS
  <2> HIDE DEF found, listed, W
  <2>5. TreeInv' /\ OrderInv' /\ FieldInv'
    BY <1>1, <2>1, <2>2, <2>3, <2>4, StageTree
  <2> QED
    BY <1>1, <2>5 DEF EmbedInv
<1>3. CASE ApplyAttachFiles
  <2> DEFINE live  == {f \in Files : item[f].live}
             plain == {f \in live : ~ item[f].secret}
             E     == {f \in plain : Embeds("attachment")}
  <2>1. Apply("file", live, plain, {}, E, live \ plain)
    BY <1>3 DEF ApplyAttachFiles
  <2>2. \A i \in Files : ~ item[i].text
    BY <1>1 DEF RecordInv, Items
  <2>3. E = {i \in live : /\ item[i].live /\ ~ item[i].secret
                          /\ IF item[i].text THEN Embeds("text") ELSE Embeds("attachment")}
    BY <2>2
  <2>4. /\ live \subseteq Files /\ plain \subseteq {i \in live : ~ item[i].secret}
        /\ \A i \in live \ plain : i \in live /\ item[i].live /\ item[i].secret
        /\ \A i \in live : item[i].live /\ item[i].secret /\ Embeds("secret") => i \in live \ plain
    OBVIOUS
  <2> HIDE DEF live, plain, E
  <2>5. TreeInv' /\ OrderInv' /\ FieldInv'
    BY <1>1, <2>1, <2>3, <2>4, StageTree
  <2> QED
    BY <1>1, <2>5 DEF EmbedInv
<1>4. CASE ApplyUserParameters
  <2> DEFINE live  == {p \in Parameters : item[p].live}
             plain == {p \in live : ~ item[p].secret}
             texts == {p \in plain : item[p].text}
             E     == {p \in texts : Embeds("text")}
                        \cup {p \in plain \ texts : Embeds("attachment")}
  <2>1. Apply("param", live, plain \ texts, {}, E, live \ plain)
    BY <1>4 DEF ApplyUserParameters
  <2>2. E = {i \in live : /\ item[i].live /\ ~ item[i].secret
                          /\ IF item[i].text THEN Embeds("text") ELSE Embeds("attachment")}
    OBVIOUS
  <2>3. /\ live \subseteq Parameters /\ plain \ texts \subseteq {i \in live : ~ item[i].secret}
        /\ \A i \in live \ plain : i \in live /\ item[i].live /\ item[i].secret
        /\ \A i \in live : item[i].live /\ item[i].secret /\ Embeds("secret") => i \in live \ plain
    OBVIOUS
  <2> HIDE DEF live, plain, texts, E
  <2>4. TreeInv' /\ OrderInv' /\ FieldInv'
    BY <1>1, <2>1, <2>2, <2>3, StageTree
  <2> QED
    BY <1>1, <2>4 DEF EmbedInv
<1> QED
  BY <1>2, <1>3, <1>4

\* An answer of Vault: the secret comes after all that is embedded.
LEMMA VaultTree ==
    ASSUME EmbedInv, NEW i \in Items, VaultAnswers(i)
    PROVE  EmbedInv'
<1>1. /\ i \in pending /\ step = "wait" /\ StageInv /\ RecordInv /\ TreeInv /\ FieldInv /\ FileInv'
      /\ i \in DOMAIN rows /\ rows[i].secret /\ rows[i].live /\ rows[i].target = item[i].target
      /\ UNCHANGED <<item, document, query, missing, publicKey, rows, attachments>>
  BY VaultStep DEF VaultAnswers, EmbedInv, FileInv, StageInv, RecordInv, TreeInv, FieldInv
<1> DEFINE fails == EmbedFails(tree, rows[i].target)
           asks  == Embeds("secret") /\ publicKey
<1>2. UNCHANGED tree \/ tree' = EmbedValue(tree, rows[i].target, i)
  BY <1>1 DEF VaultAnswers, EmbedSecret
<1>3. \/ Failed({"error"}) /\ pending' = {} /\ UNCHANGED header
      \/ /\ pending' = pending \ {i} /\ ~ (asks /\ fails)
         /\ step' = IF pending = {i} THEN After(StageOf(i)) ELSE "wait"
         /\ IF asks THEN tree' = EmbedValue(tree, rows[i].target, i) ELSE UNCHANGED tree
         /\ header' \subseteq header \cup {"fingerprint"}
         /\ comments' \subseteq comments \cup {"warning"}
  BY <1>1 DEF VaultAnswers, EmbedSecret
<1> PICK e : e = EmbedValue(tree, rows[i].target, i)
  OBVIOUS
<1>4. /\ TreeOf(document.tree, e, rows) /\ (Detached => e = tree)
      /\ \A D \in SUBSET DOMAIN rows : ~ Detached /\ ~ fails =>
           /\ EmbeddedIn(document.tree, tree, D, rows) =>
                EmbeddedIn(document.tree, e, D \cup {i}, rows)
           /\ LastIn(tree, D, rows) /\ (\A j \in D : ~ LaterIn(rows, j, i)) =>
                LastIn(e, D \cup {i}, rows)
  <2>1. document \in Documents /\ RowsOf(rows) /\ TreeOf(document.tree, tree, rows)
    BY <1>1 DEF TreeInv
  <2>2. TreeOf(document.tree, e, rows) /\ (Detached => e = tree)
    BY <1>1, <2>1, EmbedStep
  <2>3. ASSUME NEW D \in SUBSET DOMAIN rows, ~ Detached, ~ fails
        PROVE  /\ EmbeddedIn(document.tree, tree, D, rows) =>
                    EmbeddedIn(document.tree, e, D \cup {i}, rows)
               /\ LastIn(tree, D, rows) /\ (\A j \in D : ~ LaterIn(rows, j, i)) =>
                    LastIn(e, D \cup {i}, rows)
    BY <1>1, <2>1, <2>3, EmbedStep
  <2> QED
    BY <2>2, <2>3
<1>5. TreeInv'
  <2>1. TreeOf(document.tree, tree', rows) /\ (Detached => tree' = document.tree)
    BY <1>1, <1>2, <1>4 DEF TreeInv
  <2> QED
    BY <1>1, <2>1 DEF TreeInv, Detached
<1>6. FieldInv'
  <2>1. /\ step' \in Steps /\ comments' \subseteq {"error", "warning"}
        /\ header' \subseteq {"version", "fingerprint"}
    BY <1>1, <1>3 DEF Failed, FieldInv, Steps, Stages, After
  <2>2. pending' \subseteq pending /\ (step' = "wait" => pending' # {})
    BY <1>1, <1>3 DEF Failed, After
  <2> QED
    BY <1>1, <2>1, <2>2 DEF FieldInv
<1>7. OrderInv'
  <2> SUFFICES ASSUME Running'
               PROVE  /\ ~ Detached => EmbeddedIn(document.tree, tree', Claims' \ pending', rows)
                      /\ LastIn(tree', Claims' \ pending', rows)
    BY <1>1 DEF OrderInv, Detached
  <2>1. /\ pending' = pending \ {i} /\ ~ (asks /\ fails)
        /\ IF asks THEN tree' = e ELSE UNCHANGED tree
    <3>1. ~ Failed({"error"})
      BY <1>1, FailureEnds
    <3> QED
      BY <1>3, <3>1
  <2> DEFINE D == Claims \ pending
  <2>2. D \in SUBSET DOMAIN rows
    BY DEF Claims
  <2>3. Claims' = Claims /\ (i \in Claims <=> asks)
    BY <1>1 DEF Claims, Embeds
  <2>4. /\ ~ Detached => EmbeddedIn(document.tree, tree, D, rows)
        /\ LastIn(tree, D, rows)
    BY <1>1 DEF EmbedInv, OrderInv, Running
  <2>5. ASSUME NEW j \in D PROVE ~ LaterIn(rows, j, i)
    <3>1. j \in DOMAIN rows
      BY <2>2
    <3>2. \/ i \in Keys /\ j \in Keys
          \/ i \in Files /\ j \in Keys \cup Files
          \/ i \in Parameters /\ j \in Items
      BY <1>1, <3>1 DEF StageInv, RecordInv
    <3> QED
      BY <1>1, <3>2, FilesAssumption DEF LaterIn, StageOf, Items
  <2>6. CASE asks
    <3>1. Claims' \ pending' = D \cup {i}
      BY <1>1, <2>1, <2>3, <2>6
    <3>2. CASE ~ Detached
      <4>1. EmbeddedIn(document.tree, e, D \cup {i}, rows) /\ LastIn(e, D \cup {i}, rows)
        BY <1>4, <2>1, <2>2, <2>4, <2>5, <2>6, <3>2
      <4> QED
        BY <2>1, <2>6, <3>1, <3>2, <4>1
    <3>3. CASE Detached
      <4>1. tree' = document.tree
        BY <1>1, <1>4, <2>1, <2>6, <3>3 DEF TreeInv
      <4>2. \A p \in DOMAIN tree' : tree'[p] \notin Items
        BY <1>1, <4>1, DocumentTree DEF TreeInv
      <4> QED
        BY <3>3, <4>2 DEF LastIn
    <3> QED
      BY <3>2, <3>3
  <2>7. CASE ~ asks
    <3>1. Claims' \ pending' = D
      BY <1>1, <2>1, <2>3, <2>7
    <3> QED
      BY <2>1, <2>4, <2>7, <3>1
  <2> QED
    BY <2>6, <2>7
<1> QED
  BY <1>1, <1>5, <1>6, <1>7 DEF EmbedInv

\* The rest changes no tree.
LEMMA RestTree ==
    ASSUME EmbedInv,
           \/ Get \/ GetApiV1Config \/ GetPublicKey
           \/ \E i \in Items : MakePublic(i) \/ GetSecret(i)
           \/ \E S \in SUBSET Items : RemoveRecords(S)
           \/ ChangeRights
           \/ UNCHANGED fileVars
    PROVE  EmbedInv'
<1>1. FileInv /\ FileInv' /\ TreeInv /\ OrderInv /\ FieldInv /\ StageInv /\ RecordInv
  BY RestStep DEF EmbedInv, FileInv
<1>2. UNCHANGED <<document, query, tree, rows, pending, attachments, secrets, header>>
  BY DEF Get, GetApiV1Config, GetPublicKey, MakePublic, RemoveRecords, ChangeRights, GetSecret,
         fileVars, answer
<1>3. \A i \in DOMAIN rows : item'[i].target = item[i].target
  <2>1. CASE \/ \E i \in Items : MakePublic(i)
             \/ \E S \in SUBSET Items : RemoveRecords(S)
             \/ ChangeRights
    BY <1>1, <2>1, ItemsChange DEF RecordInv
  <2>2. CASE \/ Get \/ GetApiV1Config \/ GetPublicKey \/ UNCHANGED fileVars
             \/ \E i \in Items : GetSecret(i)
    BY <2>2 DEF Get, GetApiV1Config, GetPublicKey, GetSecret, fileVars
  <2> QED
    BY <2>1, <2>2
<1>4. TreeInv'
  BY <1>1, <1>2, <1>3 DEF TreeInv, Detached
<1>5. FieldInv'
  <2>1. /\ step' \in Steps /\ publicKey' \in BOOLEAN /\ comments' \subseteq {"error", "warning"}
        /\ (step' = "wait" => step = "wait")
        /\ missing' \subseteq {"membership", "publicKey"}
    <3>1. CASE Get
      BY <1>1, <3>1 DEF FieldInv, Get, Failed, Steps, Stages
    <3>2. CASE GetApiV1Config \/ GetPublicKey
      BY <1>1, <3>2 DEF FieldInv, GetApiV1Config, GetPublicKey, Steps, Stages, answer
    <3>3. CASE \E i \in Items : MakePublic(i) \/ GetSecret(i)
      BY <1>1, <3>3 DEF FieldInv, MakePublic, GetSecret, Steps, answer
    <3>4. CASE ChangeRights \/ \E S \in SUBSET Items : RemoveRecords(S)
      BY <1>1, <3>4 DEF FieldInv, RemoveRecords, ChangeRights, answer
    <3>5. CASE UNCHANGED fileVars
      BY <1>1, <3>5 DEF FieldInv, fileVars, answer
    <3> QED
      BY <3>1, <3>2, <3>3, <3>4, <3>5
  <2> QED
    BY <1>1, <1>2, <2>1 DEF FieldInv
<1>6. OrderInv'
  <2>1. CASE DOMAIN rows = {}
    <3>1. Claims' = {}
      BY <1>2, <2>1 DEF Claims
    <3> QED
      BY <3>1 DEF OrderInv, EmbeddedIn, LastIn
  <2>2. CASE DOMAIN rows # {}
    <3>1. ~ Get /\ ~ GetApiV1Config /\ ~ GetPublicKey
      BY <1>1, <2>2 DEF StageInv, Get, GetApiV1Config, GetPublicKey
    <3>2. publicKey' = publicKey /\ (Running' => Running)
      BY <1>2, <3>1 DEF MakePublic, RemoveRecords, ChangeRights, GetSecret, fileVars, answer,
                        Running, Complete, Stages
    <3>3. Claims' = Claims
      BY <1>2, <3>2 DEF Claims, Embeds
    <3> QED
      BY <1>1, <1>2, <3>2, <3>3 DEF OrderInv, Detached
  <2> QED
    BY <2>1, <2>2
<1> QED
  BY <1>1, <1>4, <1>5, <1>6 DEF EmbedInv

LEMMA InitTree == FileInit => EmbedInv
<1> SUFFICES ASSUME FileInit PROVE EmbedInv
  OBVIOUS
<1>1. /\ rows = <<>> /\ pending = {} /\ attachments = {} /\ step = "idle" /\ tree = document.tree
      /\ document \in Documents /\ query \in Queries /\ publicKey = FALSE /\ comments = {}
      /\ header \subseteq {"version"} /\ missing \subseteq {"membership", "publicKey"}
  BY DEF FileInit
<1>2. DOMAIN rows = {}
  BY <1>1
<1>3. FileInv
  BY InitFile
<1>4. TreeInv
  <2>1. Tree(tree) /\ \A p \in DOMAIN tree : tree[p] \notin Items
    BY <1>1, DocumentTree
  <2>2. TreeOf(document.tree, tree, rows)
    BY <1>1, <2>1 DEF TreeOf, ServicesKept, OthersIn
  <2> QED
    BY <1>1, <1>2, <2>2 DEF TreeInv, RowsOf
<1>5. Claims = {}
  BY <1>2 DEF Claims
<1>6. OrderInv
  BY <1>5 DEF OrderInv, EmbeddedIn, LastIn
<1>7. FieldInv
  BY <1>1 DEF FieldInv, Steps
<1> QED
  BY <1>3, <1>4, <1>6, <1>7 DEF EmbedInv

THEOREM FilesInvariance == FileSpec => []EmbedInv
<1>1. EmbedInv /\ [FileNext]_fileVars => EmbedInv'
  BY StagesTree, VaultTree, RestTree DEF FileNext
<1> QED
  BY <1>1, InitTree, PTL DEF FileSpec

\* Every variable has its type: what is in the tree is a node or a record that has been
\* read, no record is both attached and a secret, and a request waits exactly while
\* Vault has to answer.
THEOREM FilesTypes == FileSpec => []FileTypeOK
<1>1. EmbedInv => FileTypeOK
  <2> SUFFICES ASSUME EmbedInv PROVE FileTypeOK
    OBVIOUS
  <2>1. FileInv /\ TreeInv /\ FieldInv /\ StageInv /\ RecordInv
    BY DEF EmbedInv, FileInv
  <2>2. /\ \A p \in DOMAIN tree : tree[p] \in Items \cup {Map, Scalar, Nil}
        /\ \A p \in DOMAIN tree : tree[p] \in Items => tree[p] \in DOMAIN rows
        /\ DOMAIN rows \subseteq Items /\ \A i \in DOMAIN rows : rows[i] \in Record
        /\ document \in Documents
    BY <2>1 DEF TreeInv, TreeOf, Tree, RowsOf
  <2>3. /\ pending \subseteq DOMAIN rows /\ (step = "wait" <=> pending # {})
        /\ attachments \subseteq DOMAIN rows /\ secrets \subseteq DOMAIN rows
        /\ attachments \cap secrets = {}
    BY <2>1 DEF FieldInv, RecordInv, StageInv
  <2>4. /\ item \in [Items -> Record] /\ query \in Queries /\ step \in Steps
        /\ publicKey \in BOOLEAN /\ missing \subseteq {"membership", "publicKey"}
        /\ header \subseteq {"version", "fingerprint"} /\ comments \subseteq {"error", "warning"}
    BY <2>1 DEF FieldInv, RecordInv
  <2> QED
    BY <2>2, <2>3, <2>4 DEF FileTypeOK
<1> QED
  BY <1>1, FilesInvariance, PTL

\* In whatever order Vault answers, an answer without an error has at each path the value
\* that comes last of those that the request means to embed there.
THEOREM LastOneWins == FileSpec => []LastWins
<1>1. EmbedInv => LastWins
  <2> SUFFICES ASSUME EmbedInv, Complete, NEW p \in DOMAIN tree, tree[p] \in Items,
                      NEW j \in Claims, p \in Paths(tree, rows[j].target)
               PROVE  ~ Later(j, tree[p])
    BY DEF LastWins
  <2>1. Running /\ Claims \ pending = Claims
    BY DEF EmbedInv, FileInv, StageInv, Complete, Running
  <2>2. LastIn(tree, Claims, rows)
    BY <2>1 DEF EmbedInv, OrderInv
  <2>3. ~ LaterIn(rows, j, tree[p])
    BY <2>2 DEF LastIn
  <2> QED
    BY <2>3 DEF LaterIn, Later
<1> QED
  BY <1>1, FilesInvariance, PTL

\* An answer without an error has every value that the request means to embed, or one
\* that replaced it, at each path that its target names in the file as it is registered.
THEOREM AllEmbedded == FileSpec => []EverythingEmbedded
<1>1. EmbedInv => EverythingEmbedded
  <2> SUFFICES ASSUME EmbedInv, Complete, ~ Detached PROVE EverythingEmbedded
    BY DEF EverythingEmbedded
  <2>1. Running /\ Claims \ pending = Claims
    BY DEF EmbedInv, FileInv, StageInv, Complete, Running
  <2>2. EmbeddedIn(document.tree, tree, Claims, rows)
    BY <2>1 DEF EmbedInv, OrderInv
  <2> QED
    BY <2>2 DEF EverythingEmbedded, EmbeddedIn
<1> QED
  BY <1>1, FilesInvariance, PTL

\* Wherever the request fails, what no target of the records read names is as it is
\* registered, but for what was empty and is a map now.
THEOREM RestIsKept == FileSpec => []OthersKept
<1>1. EmbedInv => OthersKept
  <2> SUFFICES ASSUME EmbedInv, NEW p \in DOMAIN document.tree,
                      \A i \in DOMAIN rows : \A q \in Paths(tree, rows[i].target) : ~ IsPrefix(q, p)
               PROVE  /\ p \in DOMAIN tree
                      /\ tree[p] # document.tree[p] => document.tree[p] = Nil /\ tree[p] = Map
    BY DEF OthersKept
  <2>1. OthersIn(document.tree, tree, rows)
    BY DEF EmbedInv, TreeInv, TreeOf
  <2> QED
    BY <2>1 DEF OthersIn
<1> QED
  BY <1>1, FilesInvariance, PTL
=============================================================================
