--------------------------- MODULE MembersProofs ----------------------------
(***************************************************************************)
(* Theorems about Members, for any number of requests, users and streams.  *)
(***************************************************************************)
EXTENDS Members, TLAPS

Inserting(h) == op[h] \in {"add", "open"}
Updating(h)  == op[h] \in {"change", "remove"}

\* What a handler knows of its request.
ContextInv ==
    \A h \in Handlers :
        /\ ~ Busy(h) => op[h] = "none"
        /\ op[h] \in {"none", "close"} => mid[h] = NoId
        /\ Busy(h) => /\ row[h] \in Row /\ op[h] # "none"
                      /\ row[h].stream \in taken
        /\ op[h] = "close" => pc[h] \in {"write", "commit"}
        /\ op[h] = "open" => row[h].admin = TRUE /\ row[h].stream \notin live
        /\ Inserting(h) => mid[h] \in used /\ db[mid[h]] = NoRow
        /\ Updating(h) => mid[h] \in used
        /\ Updating(h) /\ db[mid[h]] # NoRow => /\ db[mid[h]].stream = row[h].stream
                                                /\ db[mid[h]].user = row[h].user
        /\ Updating(h) /\ Locked(h) => /\ db[mid[h]] # NoRow
                                       /\ row[h].user # actor[h]
        /\ op[h] = "add" /\ Locked(h) => Insertable(h)

\* What the sequences and the locks keep apart.
PairInv ==
    \A g, h \in Handlers : g # h =>
        /\ Inserting(h) => mid[g] # mid[h]
        /\ op[h] = "open" /\ Busy(g) => row[g].stream # row[h].stream
        /\ Locked(g) /\ Locked(h) => ~ Conflict(g, h)

RowsInv ==
    /\ \A m \in MemberIds : db[m] # NoRow => m \in used
    /\ RowsConsistent

IInv == TypeOK /\ ContextInv /\ PairInv /\ RowsInv

LEMMA InitInv == Init => IInv
BY DEF Init, IInv, TypeOK, ContextInv, PairInv, RowsInv, RowsConsistent, Busy,
       Locked, Inserting, Updating, PCs, Ops

-----------------------------------------------------------------------------
\* A request begins.
LEMMA StartInv ==
    ASSUME IInv, NEW h \in Handlers, NEW o \in Ops \ {"none"}, NEW a \in Users,
           NEW m \in MemberIds \cup {NoId}, NEW r \in Row, Start(h, o, a, m, r),
           used' = used \cup ({m} \ {NoId}),
           taken' = taken \cup {r.stream},
           o = "open" => r.admin = TRUE /\ r.stream \notin taken,
           o # "open" => r.stream \in live,
           o \in {"add", "open"} => m \in MemberIds \ used,
           o \in {"change", "remove"} => /\ m \in MemberIds /\ db[m] # NoRow
                                         /\ db[m].stream = r.stream
                                         /\ db[m].user = r.user,
           o = "close" => m = NoId
    PROVE  IInv'
<1> USE DEF IInv
<1>1. /\ pc[h] = "idle"
      /\ op' = [op EXCEPT ![h] = o] /\ actor' = [actor EXCEPT ![h] = a]
      /\ mid' = [mid EXCEPT ![h] = m] /\ row' = [row EXCEPT ![h] = r]
      /\ pc' = [pc EXCEPT ![h] = "write"]
      /\ UNCHANGED <<db, live, policy, plan>>
  BY DEF Start, Busy, Goto
<1>2. crossed' \subseteq Handlers /\ doubtful' \subseteq Users /\ overlapped' \subseteq Streams
  BY DEF Start, TypeOK, About, Row
<1>3. r.stream \in Streams /\ NoId \notin MemberIds
  BY ConstantsAssumption DEF Row
<1>4. TypeOK'
  BY <1>1, <1>2, <1>3 DEF TypeOK, PCs
<1>5. /\ op'[h] = o /\ mid'[h] = m /\ row'[h] = r /\ pc'[h] = "write"
      /\ \A g \in Handlers \ {h} : /\ op'[g] = op[g] /\ mid'[g] = mid[g]
                                   /\ row'[g] = row[g] /\ pc'[g] = pc[g]
                                   /\ actor'[g] = actor[g]
      /\ live' = live /\ db' = db /\ taken \subseteq taken' /\ used \subseteq used'
      /\ r.stream \in taken'
      /\ live \subseteq taken
  BY <1>1 DEF TypeOK
<1>6. ASSUME NEW g \in Handlers PROVE ContextInv!(g)'
  <2>1. CASE g = h
    BY <1>3, <1>5, <2>1 DEF RowsInv, Busy, Locked, Inserting, Updating, Ops
  <2>2. CASE g # h
    <3>1. ContextInv!(g)
      BY DEF ContextInv
    <3> QED
      BY <1>5, <2>2, <3>1 DEF Busy, Locked, Inserting, Updating, Insertable
  <2> QED
    BY <2>1, <2>2
<1>7. ContextInv'
  BY <1>6 DEF ContextInv
<1>8. ASSUME NEW g \in Handlers \ {h}
      PROVE  PairInv!(g, h)' /\ PairInv!(h, g)'
  <2>1. ContextInv!(g)
    BY DEF ContextInv
  <2>2. op[g] \in Ops
    BY DEF TypeOK
  <2>3. m \in MemberIds => (db[m] # NoRow => m \in used)
    BY DEF RowsInv
  <2>4. /\ Inserting(h)' => mid'[g] # mid'[h]
        /\ Inserting(g)' => mid'[h] # mid'[g]
    BY <1>3, <1>5, <2>1, <2>2, <2>3 DEF TypeOK, Inserting, Updating, Ops
  <2>5. /\ op'[h] = "open" /\ Busy(g)' => row'[g].stream # row'[h].stream
        /\ op'[g] = "open" /\ Busy(h)' => row'[h].stream # row'[g].stream
    BY <1>5, <2>1, <2>2 DEF Busy
  <2>6. ~ Locked(h)'
    BY <1>5 DEF Locked
  <2> QED
    BY <2>4, <2>5, <2>6
<1>9. ASSUME NEW f \in Handlers, NEW g \in Handlers, f # g, f # h, g # h
      PROVE  PairInv!(f, g)'
  <2>1. PairInv!(f, g)
    BY <1>9 DEF PairInv
  <2> QED
    BY <1>5, <1>9, <2>1 DEF Busy, Locked, Inserting, Conflict
<1>10. PairInv'
  BY <1>8, <1>9 DEF PairInv
<1>11. RowsInv'
  BY <1>1 DEF RowsInv, RowsConsistent
<1> QED
  BY <1>4, <1>7, <1>10, <1>11

LEMMA RequestInv ==
    ASSUME IInv, NEW h \in Handlers, Request(h) PROVE IInv'
<1>1. ASSUME NEW a \in Users, NEW s \in Streams, MustBeAdministrator(a, s)
      PROVE  s \in live /\ s \in taken
  <2>1. PICK m \in MemberIds : db[m] = [stream |-> s, user |-> a, admin |-> TRUE]
    BY <1>1 DEF MustBeAdministrator
  <2>2. [stream |-> s, user |-> a, admin |-> TRUE] \in Row
    BY DEF Row
  <2>3. db[m] \in Row /\ db[m].stream = s
    BY <2>1, <2>2
  <2>4. db[m] # NoRow
    BY <2>3, ConstantsAssumption
  <2> QED
    BY <2>3, <2>4 DEF IInv, TypeOK, RowsInv, RowsConsistent
<1>2. ASSUME NEW m \in MemberIds, db[m] # NoRow
      PROVE  /\ db[m] \in Row /\ db[m].stream \in Streams /\ db[m].user \in Users
             /\ m \in used /\ m # NoId /\ db[m].stream \in live
  BY <1>2, ConstantsAssumption DEF IInv, TypeOK, RowsInv, RowsConsistent, Row
<1>3. CASE AddMember(h)
  <2>1. PICK a \in Users, u \in Users, s \in Streams, admin \in BOOLEAN,
             m \in MemberIds \ used :
          /\ MustBeAdministrator(a, s)
          /\ Start(h, "add", a, m, [stream |-> s, user |-> u, admin |-> admin])
          /\ used' = used \cup {m}
          /\ UNCHANGED taken
    BY <1>3 DEF AddMember
  <2> DEFINE r == [stream |-> s, user |-> u, admin |-> admin]
  <2>2. /\ r \in Row /\ r.stream = s /\ taken' = taken \cup {s}
        /\ {m} \ {NoId} = {m} /\ used' = used \cup ({m} \ {NoId})
    BY <1>1, <2>1, ConstantsAssumption DEF Row
  <2>3. Start(h, "add", a, m, r)
    BY <2>1
  <2> HIDE DEF r
  <2> QED
    BY <1>1, <2>1, <2>2, <2>3, StartInv DEF Ops
<1>4. CASE ChangeMember(h)
  <2>1. PICK a \in Users, admin \in BOOLEAN, m \in MemberIds :
          /\ db[m] # NoRow
          /\ MustBeAdministrator(a, db[m].stream)
          /\ Start(h, "change", a, m, [db[m] EXCEPT !.admin = admin])
          /\ UNCHANGED <<taken, used>>
    BY <1>4 DEF ChangeMember
  <2> DEFINE r == [db[m] EXCEPT !.admin = admin]
  <2>2. r \in Row /\ r.stream = db[m].stream /\ r.user = db[m].user
    BY <1>2, <2>1 DEF Row
  <2>3. taken' = taken \cup {r.stream} /\ used' = used \cup ({m} \ {NoId})
    BY <1>1, <1>2, <2>1, <2>2
  <2>4. Start(h, "change", a, m, r)
    BY <2>1
  <2> HIDE DEF r
  <2> QED
    BY <1>1, <1>2, <2>1, <2>2, <2>3, <2>4, StartInv DEF Ops
<1>5. CASE RemoveMember(h)
  <2>1. PICK a \in Users, m \in MemberIds :
          /\ db[m] # NoRow
          /\ MustBeAdministrator(a, db[m].stream)
          /\ Start(h, "remove", a, m, db[m])
          /\ UNCHANGED <<taken, used>>
    BY <1>5 DEF RemoveMember
  <2> DEFINE r == db[m]
  <2>2. /\ r \in Row /\ r.stream = db[m].stream /\ r.user = db[m].user
        /\ r.stream \in live /\ "remove" \in Ops \ {"none"}
    BY <1>2, <2>1 DEF Ops
  <2>3. taken' = taken \cup {r.stream} /\ used' = used \cup ({m} \ {NoId})
    BY <1>1, <1>2, <2>1
  <2>4. Start(h, "remove", a, m, r)
    BY <2>1
  <2> HIDE DEF r
  <2> QED
    BY <2>1, <2>2, <2>3, <2>4, StartInv
<1>6. CASE OpenStream(h)
  <2>1. PICK a \in Users, s \in Streams \ taken, m \in MemberIds \ used :
          /\ Start(h, "open", a, m, [stream |-> s, user |-> a, admin |-> TRUE])
          /\ taken' = taken \cup {s}
          /\ used' = used \cup {m}
    BY <1>6 DEF OpenStream
  <2> DEFINE r == [stream |-> s, user |-> a, admin |-> TRUE]
  <2>2. /\ r \in Row /\ r.stream = s /\ r.admin = TRUE
        /\ used' = used \cup ({m} \ {NoId})
    BY <2>1, ConstantsAssumption DEF Row
  <2>3. Start(h, "open", a, m, r)
    BY <2>1
  <2> HIDE DEF r
  <2> QED
    BY <1>1, <2>1, <2>2, <2>3, StartInv DEF Ops
<1>7. CASE CloseStream(h)
  <2>1. PICK a \in Users, s \in Streams :
          /\ MustBeAdministrator(a, s)
          /\ Start(h, "close", a, NoId, [stream |-> s, user |-> a, admin |-> TRUE])
          /\ UNCHANGED <<taken, used>>
    BY <1>7 DEF CloseStream
  <2> DEFINE r == [stream |-> s, user |-> a, admin |-> TRUE]
  <2>2. /\ r \in Row /\ r.stream = s /\ taken' = taken \cup {s}
        /\ used' = used \cup ({NoId} \ {NoId})
    BY <1>1, <2>1 DEF Row
  <2>3. Start(h, "close", a, NoId, r)
    BY <2>1
  <2> HIDE DEF r
  <2> QED
    BY <1>1, <2>1, <2>2, <2>3, StartInv DEF Ops
<1> QED
  BY <1>3, <1>4, <1>5, <1>6, <1>7 DEF Request

\* An answer keeps apart what was apart.
LEMMA AnswerPairs ==
    ASSUME IInv, NEW h \in Handlers, Answer(h) PROVE PairInv'
BY ConstantsAssumption
DEF IInv, Answer, Goto, PairInv, ContextInv, TypeOK, Busy, Locked, Inserting,
    Updating, Conflict

\* A request that ends without a commit.
LEMMA AnswerInv ==
    ASSUME IInv, NEW h \in Handlers, Answer(h), UNCHANGED <<rows, policy>>,
           doubtful' \subseteq Users
    PROVE  IInv'
<1> USE DEF IInv, Answer, Goto, rows
<1>1. TypeOK'
  BY DEF TypeOK, PCs, Ops
<1>2. ContextInv'
  BY DEF ContextInv, TypeOK, Busy, Locked, Inserting, Updating, Insertable
<1>3. PairInv'
  BY AnswerPairs
<1>4. RowsInv'
  BY DEF RowsInv, RowsConsistent
<1> QED
  BY <1>1, <1>2, <1>3, <1>4

\* A request goes on without touching the rows.
LEMMA AdvanceInv ==
    ASSUME IInv, NEW h \in Handlers, NEW l \in {"policy", "put", "commit"},
           Goto(h, l), UNCHANGED <<rows, request, history>>,
           Busy(h), plan' \in [Handlers -> SUBSET Grant],
           policy' \in [Users -> SUBSET Grant],
           op[h] = "close" => l = "commit",
           pc[h] = "write" =>
              /\ Unlocked(h)
              /\ op[h] = "add" => Insertable(h)
              /\ Updating(h) => db[mid[h]] # NoRow /\ row[h].user # actor[h]
    PROVE  IInv'
<1> USE DEF IInv, Goto, rows, request, history
<1>1. TypeOK'
  BY DEF TypeOK, PCs
<1>2. Busy(h) /\ Locked(h)' /\ (pc[h] # "write" => Locked(h))
  BY DEF TypeOK, Busy, Locked, PCs
<1>3. \A g \in Handlers \ {h} : pc'[g] = pc[g]
  BY DEF TypeOK
<1>4. ContextInv'
  BY <1>2, <1>3 DEF ContextInv, TypeOK, Busy, Locked, Inserting, Updating, Insertable
<1>5. PairInv'
  BY <1>2, <1>3 DEF PairInv, Busy, Locked, Unlocked, Inserting, Conflict
<1>6. RowsInv'
  BY DEF RowsInv, RowsConsistent
<1> QED
  BY <1>1, <1>4, <1>5, <1>6

\* What an answer leaves of the requests.
LEMMA AnswerFrame ==
    ASSUME IInv, NEW h \in Handlers, Answer(h)
    PROVE  /\ pc'[h] = "idle" /\ op'[h] = "none" /\ mid'[h] = NoId
           /\ \A g \in Handlers \ {h} : /\ op'[g] = op[g] /\ mid'[g] = mid[g]
                                        /\ row'[g] = row[g] /\ pc'[g] = pc[g]
                                        /\ actor'[g] = actor[g] /\ plan'[g] = plan[g]
BY DEF Answer, Goto, IInv, TypeOK

LEMMA CommitMemberInv ==
    ASSUME IInv, NEW h \in Handlers, CommitMember(h) PROVE IInv'
<1> DEFINE k == mid[h]  s == row[h].stream
<1>1. /\ pc[h] = "commit" /\ op[h] # "close" /\ Busy(h) /\ Locked(h)
      /\ db' = [db EXCEPT ![mid[h]] = After(h)]
      /\ live' = live \cup {t \in {row[h].stream} : op[h] = "open"}
      /\ Answer(h) /\ UNCHANGED <<taken, used, policy>>
      /\ doubtful' \subseteq doubtful
  BY DEF CommitMember, Busy, Locked
<1>2. ContextInv!(h)
  BY DEF IInv, ContextInv
<1>3. /\ op[h] \in {"add", "open", "change", "remove"} /\ row[h] \in Row
      /\ mid[h] \in MemberIds /\ mid[h] \in used
      /\ row[h].stream \in Streams
  BY <1>1, <1>2 DEF IInv, TypeOK, Ops, Inserting, Updating, Row
<1>4. /\ db'[k] = After(h)
      /\ \A m \in MemberIds \ {k} : db'[m] = db[m]
      /\ live \subseteq live' /\ live' \subseteq live \cup {s}
      /\ op[h] = "open" => s \in live'
      /\ op[h] # "open" => live' = live
  BY <1>1, <1>3 DEF IInv, TypeOK
<1>5. After(h) # NoRow => After(h) = row[h] /\ op[h] # "remove"
  BY DEF After
<1>6. TypeOK'
  BY <1>1, <1>2, <1>3 DEF IInv, TypeOK, Answer, Goto, PCs, Ops, After
<1>7. /\ pc'[h] = "idle" /\ op'[h] = "none" /\ mid'[h] = NoId
      /\ \A g \in Handlers \ {h} : /\ op'[g] = op[g] /\ mid'[g] = mid[g]
                                   /\ row'[g] = row[g] /\ pc'[g] = pc[g]
                                   /\ actor'[g] = actor[g]
  BY <1>1, AnswerFrame
<1>8. ASSUME NEW m \in MemberIds, m # k, db[m] # NoRow, After(h) # NoRow,
             db[m].stream = s, db[m].user = row[h].user
      PROVE  FALSE
  <2>1. db[m].stream \in live
    BY <1>8 DEF IInv, RowsInv, RowsConsistent
  <2>2. CASE op[h] = "open"
    BY <1>2, <1>8, <2>1, <2>2
  <2>3. CASE op[h] = "add"
    BY <1>1, <1>2, <1>8, <2>3 DEF Insertable
  <2>4. CASE op[h] = "change"
    <3>1. db[k] # NoRow /\ db[k].stream = s /\ db[k].user = row[h].user
      BY <1>1, <1>2, <2>4 DEF Updating
    <3> QED
      BY <1>3, <1>8, <3>1 DEF IInv, RowsInv, RowsConsistent
  <2> QED
    BY <1>3, <1>5, <1>8, <2>2, <2>3, <2>4
<1>9. After(h) # NoRow => s \in live'
  <2>1. CASE op[h] = "change"
    BY <1>1, <1>2, <1>3, <1>4, <2>1 DEF Updating, IInv, RowsInv, RowsConsistent
  <2>2. CASE op[h] = "add"
    BY <1>1, <1>2, <1>4, <2>2 DEF Insertable
  <2> QED
    BY <1>3, <1>4, <1>5, <2>1, <2>2
<1>10. RowsInv'
  <2>1. ASSUME NEW m \in MemberIds, db'[m] # NoRow
        PROVE  m \in used' /\ db'[m].stream \in live'
    BY <1>1, <1>3, <1>4, <1>5, <1>9, <2>1 DEF IInv, RowsInv, RowsConsistent
  <2>2. ASSUME NEW m \in MemberIds, NEW n \in MemberIds,
               db'[m] # NoRow, db'[n] # NoRow,
               db'[m].stream = db'[n].stream, db'[m].user = db'[n].user
        PROVE  m = n
    <3>1. CASE m # k /\ n # k
      BY <1>4, <2>2, <3>1 DEF IInv, RowsInv, RowsConsistent
    <3>2. CASE m = k /\ n # k
      BY <1>4, <1>5, <1>8, <2>2, <3>2
    <3>3. CASE m # k /\ n = k
      BY <1>4, <1>5, <1>8, <2>2, <3>3
    <3> QED
      BY <3>1, <3>2, <3>3
  <2> QED
    BY <2>1, <2>2 DEF RowsInv, RowsConsistent
<1>11. ASSUME NEW g \in Handlers \ {h} PROVE ContextInv!(g)'
  <2>1. ContextInv!(g) /\ PairInv!(g, h) /\ PairInv!(h, g)
    BY DEF IInv, ContextInv, PairInv
  <2>2. /\ ~ Busy(g) => op[g] = "none"
        /\ Busy(g)' <=> Busy(g)
        /\ Locked(g)' <=> Locked(g)
        /\ Inserting(g)' <=> Inserting(g)
        /\ Updating(g)' <=> Updating(g)
    BY <1>7, <2>1 DEF Busy, Locked, Inserting, Updating
  <2>3. op[g] = "open" => row[g].stream \notin live'
    BY <1>1, <1>4, <2>1
  <2>4. Inserting(g) => db'[mid[g]] = NoRow
    BY <1>4, <2>1 DEF IInv, TypeOK
  <2>5. ASSUME Updating(g), mid[g] = k
        PROVE  /\ Updating(h)
               /\ db[k] # NoRow => row[g].stream = s /\ row[g].user = row[h].user
    BY <1>2, <1>3, <2>1, <2>5 DEF Inserting, Updating
  <2>6. ASSUME Updating(g), db'[mid[g]] # NoRow
        PROVE  /\ db'[mid[g]].stream = row[g].stream
               /\ db'[mid[g]].user = row[g].user
    BY <1>1, <1>2, <1>4, <1>5, <2>1, <2>5, <2>6 DEF IInv, TypeOK, Updating
  <2>7. ASSUME Updating(g), Locked(g) PROVE db'[mid[g]] # NoRow
    BY <1>1, <1>4, <2>1, <2>5, <2>7 DEF IInv, TypeOK, Conflict
  <2>8. ASSUME op[g] = "add", Locked(g) PROVE Insertable(g)'
    <3>1. row[g].stream \in live'
      BY <1>4, <2>1, <2>8 DEF Insertable
    <3>2. row[g].stream = s => row[g].user # row[h].user
      BY <1>1, <2>1, <2>8 DEF Conflict
    <3>3. ASSUME NEW m \in MemberIds, db'[m] # NoRow
          PROVE  db'[m].stream # row[g].stream \/ db'[m].user # row[g].user
      BY <1>4, <1>5, <2>1, <2>8, <3>2, <3>3 DEF Insertable
    <3> QED
      BY <1>7, <3>1, <3>3 DEF Insertable
  <2> QED
    BY <1>1, <1>7, <2>1, <2>2, <2>3, <2>4, <2>6, <2>7, <2>8
<1>12. ContextInv'
  <2>1. ContextInv!(h)'
    BY <1>7 DEF Busy, Locked, Inserting, Updating
  <2> QED
    BY <1>11, <2>1 DEF ContextInv
<1>13. PairInv'
  BY <1>1, AnswerPairs
<1> QED
  BY <1>6, <1>10, <1>12, <1>13 DEF IInv

LEMMA CommitCloseInv ==
    ASSUME IInv, NEW h \in Handlers, CommitClose(h) PROVE IInv'
<1>1. /\ pc[h] = "commit" /\ op[h] = "close" /\ Locked(h)
      /\ \A m \in MemberIds :
            db'[m] = IF db[m] # NoRow /\ db[m].stream = row[h].stream THEN NoRow
                                                                     ELSE db[m]
      /\ live' = live \ {row[h].stream}
      /\ Answer(h) /\ UNCHANGED <<taken, used, policy, doubtful>>
  BY DEF CommitClose, Locked
<1>2. TypeOK'
  <2>1. db' \in [MemberIds -> Row \cup {NoRow}]
    BY DEF CommitClose, IInv, TypeOK
  <2> QED
    BY <1>1, <2>1 DEF IInv, TypeOK, Answer, Goto, PCs, Ops
<1>3. /\ pc'[h] = "idle" /\ op'[h] = "none" /\ mid'[h] = NoId
      /\ \A g \in Handlers \ {h} : /\ op'[g] = op[g] /\ mid'[g] = mid[g]
                                   /\ row'[g] = row[g] /\ pc'[g] = pc[g]
                                   /\ actor'[g] = actor[g]
  BY <1>1, AnswerFrame
<1>4. RowsInv'
  BY <1>1 DEF IInv, RowsInv, RowsConsistent
<1>5. ASSUME NEW g \in Handlers \ {h} PROVE ContextInv!(g)'
  <2>1. ContextInv!(g) /\ PairInv!(g, h) /\ PairInv!(h, g)
    BY DEF IInv, ContextInv, PairInv
  <2>2. mid[g] # NoId => mid[g] \in MemberIds
    BY DEF IInv, TypeOK
  <2>3. /\ Busy(g)' <=> Busy(g)
        /\ Locked(g)' <=> Locked(g)
        /\ Inserting(g)' <=> Inserting(g)
        /\ Updating(g)' <=> Updating(g)
    BY <1>3 DEF Busy, Locked, Inserting, Updating
  <2>4. Inserting(g) \/ Updating(g) => mid[g] \in MemberIds
    BY <2>1 DEF IInv, TypeOK
  <2>5. Locked(g) => row[g].stream # row[h].stream
    BY <1>1, <2>1 DEF Conflict
  <2>6. op[g] = "add" /\ Locked(g) => Insertable(g)'
    BY <1>1, <1>3, <2>1, <2>5 DEF Insertable
  <2> QED
    BY <1>1, <1>3, <2>1, <2>3, <2>4, <2>5, <2>6
<1>6. ContextInv'
  <2>1. ContextInv!(h)'
    BY <1>3 DEF Busy, Locked, Inserting, Updating
  <2> QED
    BY <1>5, <2>1 DEF ContextInv
<1> QED
  BY <1>1, <1>2, <1>4, <1>6, AnswerPairs DEF IInv

LEMMA StepInv ==
    ASSUME IInv, NEW h \in Handlers, Step(h) \/ Fail(h) PROVE IInv'
<1>1. ContextInv!(h)
  BY DEF IInv, ContextInv
<1>2. CASE InsertMember(h)
  <2>1. CASE Answer(h) /\ UNCHANGED doubtful
    BY <1>2, <2>1, AnswerInv DEF InsertMember, IInv, TypeOK
  <2>2. CASE Insertable(h) /\ Goto(h, "policy") /\ UNCHANGED <<request, plan, history>>
    BY <1>1, <1>2, <2>2, AdvanceInv
    DEF InsertMember, IInv, TypeOK, Busy, Updating
  <2> QED
    BY <1>2, <2>1, <2>2 DEF InsertMember
<1>3. CASE UpdateMember(h)
  <2>1. CASE Answer(h) /\ UNCHANGED doubtful
    BY <1>3, <2>1, AnswerInv DEF UpdateMember, IInv, TypeOK
  <2>2. CASE /\ db[mid[h]] # NoRow /\ row[h].user # actor[h]
             /\ Goto(h, "policy") /\ UNCHANGED <<request, plan, history>>
    BY <1>1, <1>3, <2>2, AdvanceInv
    DEF UpdateMember, IInv, TypeOK, Busy
  <2> QED
    BY <1>3, <2>1, <2>2 DEF UpdateMember
<1>4. CASE DeleteStream(h)
  <2>1. CASE Answer(h) /\ UNCHANGED doubtful
    BY <1>4, <2>1, AnswerInv DEF DeleteStream, IInv, TypeOK
  <2>2. CASE Goto(h, "commit") /\ UNCHANGED <<request, plan, history>>
    BY <1>1, <1>4, <2>2, AdvanceInv
    DEF DeleteStream, IInv, TypeOK, Busy, Updating
  <2> QED
    BY <1>4, <2>1, <2>2 DEF DeleteStream
<1>5. CASE GetPolicy(h)
  <2>1. /\ pc[h] = "policy" /\ Goto(h, "put") /\ op[h] # "close"
        /\ UNCHANGED <<rows, policy, request, history>>
    BY <1>1, <1>5 DEF GetPolicy
  <2>2. row[h] \in Row /\ op[h] \in Ops \ {"none", "close"}
    BY <1>1, <2>1 DEF IInv, TypeOK, Busy
  <2>3. Seen(h) \in [MemberIds -> Row \cup {NoRow}]
    BY <2>2 DEF IInv, TypeOK, Seen, After
  <2>4. Grants(Seen(h), row[h].user) \in SUBSET Grant
    BY <2>3 DEF Grants, Grant, Row
  <2>5. plan' \in [Handlers -> SUBSET Grant]
    BY <1>5, <2>4 DEF GetPolicy, IInv, TypeOK
  <2> QED
    BY <2>1, <2>5, AdvanceInv DEF IInv, TypeOK, Busy
<1>6. CASE UpdateVaultPolicy(h)
  <2>1. /\ pc[h] = "put" /\ Goto(h, "commit") /\ op[h] # "close"
        /\ UNCHANGED <<rows, request, plan, history>>
    BY <1>1, <1>6 DEF UpdateVaultPolicy
  <2>2. policy' \in [Users -> SUBSET Grant]
    BY <1>6 DEF UpdateVaultPolicy, IInv, TypeOK
  <2> QED
    BY <2>1, <2>2, AdvanceInv DEF IInv, TypeOK, Busy
<1>7. CASE Fail(h)
  <2>1. Busy(h) /\ row[h] \in Row
    BY <1>1, <1>7, ConstantsAssumption DEF Fail, Busy
  <2>2. doubtful' \subseteq Users
    BY <1>7, <2>1 DEF Fail, IInv, TypeOK, Row
  <2> QED
    BY <1>7, <2>2, AnswerInv DEF Fail
<1> QED
  BY <1>2, <1>3, <1>4, <1>5, <1>6, <1>7, CommitMemberInv, CommitCloseInv DEF Step

LEMMA StutterInv ==
    ASSUME IInv, UNCHANGED vars PROVE IInv'
<1> USE DEF vars, rows, request, history
<1>1. TypeOK' /\ RowsInv'
  BY DEF IInv, TypeOK, RowsInv, RowsConsistent
<1>2. ContextInv'
  BY DEF IInv, ContextInv, Busy, Locked, Inserting, Updating, Insertable
<1>3. PairInv'
  BY DEF IInv, PairInv, Busy, Locked, Inserting, Conflict
<1> QED
  BY <1>1, <1>2, <1>3 DEF IInv

\* Whatever requests are interleaved and whatever fails, the strengthening IInv
\* holds.
THEOREM Invariance == Spec => []IInv
<1>1. IInv /\ [Next]_vars => IInv'
  BY RequestInv, StepInv, StutterInv DEF Next
<1> QED
  BY InitInv, <1>1, PTL DEF Spec

\* The variables keep their types.
THEOREM TypeCorrect == Spec => []TypeOK
BY Invariance, PTL DEF IInv

\* However requests are interleaved and wherever they fail, members are members
\* of streams that exist, and of none of them twice.
THEOREM RowsKept == Spec => []RowsConsistent
BY Invariance, PTL DEF IInv, RowsInv

-----------------------------------------------------------------------------
(***************************************************************************)
(* A stream keeps an administrator: as long as the requests about it come  *)
(* one after the other, the administrator who sent the request is still    *)
(* one when it is committed, and exceptMyself spares his row.              *)
(***************************************************************************)
OverlapInv ==
    /\ \A g, h \in Handlers :
          g # h /\ Busy(g) /\ Busy(h) /\ row[g].stream = row[h].stream
             => row[h].stream \in overlapped
    /\ \A s \in live \ overlapped :
          /\ \E u \in Users : MustBeAdministrator(u, s)
          /\ \A h \in Handlers : Busy(h) /\ row[h].stream = s =>
                actor[h] \in Users /\ MustBeAdministrator(actor[h], s)

\* Rows and the list of overlapped streams stay, and no request begins.
LEMMA OverlapKept ==
    ASSUME OverlapInv, UNCHANGED <<db, live, overlapped>>,
           \A h \in Handlers : Busy(h)' =>
              Busy(h) /\ row'[h] = row[h] /\ actor'[h] = actor[h]
    PROVE  OverlapInv'
BY DEF OverlapInv, MustBeAdministrator

LEMMA StartOverlap ==
    ASSUME IInv, OverlapInv, NEW h \in Handlers, NEW o \in Ops \ {"none"},
           NEW a \in Users, NEW m \in MemberIds \cup {NoId}, NEW r \in Row,
           Start(h, o, a, m, r),
           r.stream \in live => MustBeAdministrator(a, r.stream)
    PROVE  OverlapInv'
<1>1. /\ UNCHANGED <<db, live>> /\ ~ Busy(h)
      /\ row'[h] = r /\ actor'[h] = a
      /\ \A g \in Handlers \ {h} : /\ row'[g] = row[g] /\ actor'[g] = actor[g]
                                   /\ Busy(g)' <=> Busy(g)
      /\ overlapped \subseteq overlapped'
      /\ (\E g \in Handlers : Busy(g) /\ row[g].stream = r.stream)
            => r.stream \in overlapped'
  BY DEF Start, Goto, IInv, TypeOK, Busy
<1>2. \A u, s : MustBeAdministrator(u, s)' <=> MustBeAdministrator(u, s)
  BY <1>1 DEF MustBeAdministrator
<1> QED
  BY <1>1, <1>2 DEF OverlapInv

LEMMA RequestOverlap ==
    ASSUME IInv, OverlapInv, NEW h \in Handlers, Request(h) PROVE OverlapInv'
<1>1. CASE AddMember(h)
  <2>1. PICK a \in Users, u \in Users, s \in Streams, admin \in BOOLEAN,
             m \in MemberIds \ used :
          /\ MustBeAdministrator(a, s)
          /\ Start(h, "add", a, m, [stream |-> s, user |-> u, admin |-> admin])
    BY <1>1 DEF AddMember
  <2>2. /\ [stream |-> s, user |-> u, admin |-> admin] \in Row
        /\ [stream |-> s, user |-> u, admin |-> admin].stream = s
    BY DEF Row
  <2> QED
    BY <2>1, <2>2, StartOverlap DEF Ops
<1>2. CASE ChangeMember(h)
  <2>1. PICK a \in Users, admin \in BOOLEAN, m \in MemberIds :
          /\ db[m] # NoRow
          /\ MustBeAdministrator(a, db[m].stream)
          /\ Start(h, "change", a, m, [db[m] EXCEPT !.admin = admin])
    BY <1>2 DEF ChangeMember
  <2>2. db[m] \in Row
    BY <2>1 DEF IInv, TypeOK
  <2>3. /\ [db[m] EXCEPT !.admin = admin] \in Row
        /\ [db[m] EXCEPT !.admin = admin].stream = db[m].stream
    BY <2>2 DEF Row
  <2> QED
    BY <2>1, <2>3, StartOverlap DEF Ops
<1>3. CASE RemoveMember(h)
  <2>1. PICK a \in Users, m \in MemberIds :
          /\ db[m] # NoRow
          /\ MustBeAdministrator(a, db[m].stream)
          /\ Start(h, "remove", a, m, db[m])
    BY <1>3 DEF RemoveMember
  <2>2. db[m] \in Row
    BY <2>1 DEF IInv, TypeOK
  <2> QED
    BY <2>1, <2>2, StartOverlap DEF Ops
<1>4. CASE OpenStream(h)
  <2>1. PICK a \in Users, s \in Streams \ taken, m \in MemberIds \ used :
          Start(h, "open", a, m, [stream |-> s, user |-> a, admin |-> TRUE])
    BY <1>4 DEF OpenStream
  <2>2. /\ [stream |-> s, user |-> a, admin |-> TRUE] \in Row
        /\ [stream |-> s, user |-> a, admin |-> TRUE].stream = s
        /\ s \notin live
    BY DEF Row, IInv, TypeOK
  <2> QED
    BY <2>1, <2>2, StartOverlap DEF Ops
<1>5. CASE CloseStream(h)
  <2>1. PICK a \in Users, s \in Streams :
          /\ MustBeAdministrator(a, s)
          /\ Start(h, "close", a, NoId, [stream |-> s, user |-> a, admin |-> TRUE])
    BY <1>5 DEF CloseStream
  <2>2. /\ [stream |-> s, user |-> a, admin |-> TRUE] \in Row
        /\ [stream |-> s, user |-> a, admin |-> TRUE].stream = s
    BY DEF Row
  <2> QED
    BY <2>1, <2>2, StartOverlap DEF Ops
<1> QED
  BY <1>1, <1>2, <1>3, <1>4, <1>5 DEF Request

LEMMA CommitMemberOverlap ==
    ASSUME IInv, OverlapInv, NEW h \in Handlers, CommitMember(h) PROVE OverlapInv'
<1> DEFINE k == mid[h]
<1> PICK s : s = row[h].stream
  OBVIOUS
<1>1. /\ pc[h] = "commit" /\ op[h] # "close" /\ Busy(h) /\ Locked(h)
      /\ db' = [db EXCEPT ![mid[h]] = After(h)]
      /\ live' = live \cup {t \in {row[h].stream} : op[h] = "open"}
      /\ Answer(h) /\ UNCHANGED overlapped
  BY DEF CommitMember, Busy, Locked, Answer
<1>2. ContextInv!(h)
  BY DEF IInv, ContextInv
<1>3. /\ op[h] \in {"add", "open", "change", "remove"} /\ row[h] \in Row
      /\ k \in MemberIds
  BY <1>1, <1>2 DEF IInv, TypeOK, Ops, Inserting, Updating
<1>4. db'[k] = After(h) /\ \A m \in MemberIds \ {k} : db'[m] = db[m]
  BY <1>1, <1>3 DEF IInv, TypeOK
<1>5. /\ ~ Busy(h)'
      /\ \A g \in Handlers \ {h} : /\ row'[g] = row[g] /\ actor'[g] = actor[g]
                                   /\ Busy(g)' <=> Busy(g)
  BY <1>1, AnswerFrame DEF Busy
<1>6. ASSUME NEW u \in Users, NEW t \in Streams, MustBeAdministrator(u, t),
             t # s \/ Inserting(h) \/ u # row[h].user
      PROVE  MustBeAdministrator(u, t)'
  <2>1. PICK m \in MemberIds : db[m] = [stream |-> t, user |-> u, admin |-> TRUE]
    BY <1>6 DEF MustBeAdministrator
  <2>2. [stream |-> t, user |-> u, admin |-> TRUE] \in Row
    BY DEF Row
  <2>3. db[m] \in Row /\ db[m].stream = t /\ db[m].user = u
    BY <2>1, <2>2
  <2>4. db[m] # NoRow
    BY <2>3, ConstantsAssumption
  <2>5. m # k
    BY <1>2, <1>3, <1>6, <2>3, <2>4 DEF Inserting, Updating
  <2> QED
    BY <1>4, <2>1, <2>5 DEF MustBeAdministrator
<1>7. row[h].stream \in Streams /\ row[h].user \in Users /\ live \subseteq Streams
  BY <1>3 DEF Row, IInv, TypeOK
<1>8. ASSUME NEW t \in live \ overlapped, t # s
      PROVE  /\ \E u \in Users : MustBeAdministrator(u, t)'
             /\ \A g \in Handlers : Busy(g)' /\ row'[g].stream = t =>
                   actor'[g] \in Users /\ MustBeAdministrator(actor[g], t)'
  <2>1. PICK u \in Users : MustBeAdministrator(u, t)
    BY DEF OverlapInv
  <2>2. MustBeAdministrator(u, t)'
    BY <1>6, <1>7, <1>8, <2>1
  <2>3. ASSUME NEW g \in Handlers, Busy(g)', row'[g].stream = t
        PROVE  actor'[g] \in Users /\ MustBeAdministrator(actor[g], t)'
    <3>1. PICK v \in Users : actor[g] = v /\ actor'[g] = v /\ MustBeAdministrator(v, t)
      BY <1>5, <2>3 DEF OverlapInv
    <3>2. MustBeAdministrator(v, t)'
      BY <1>6, <1>7, <1>8, <3>1
    <3> QED
      BY <3>1, <3>2 DEF MustBeAdministrator
  <2> QED
    BY <2>2, <2>3
<1>9. ASSUME s \in live' \ overlapped
      PROVE  \E u \in Users : MustBeAdministrator(u, s)'
  <2>1. CASE op[h] = "open"
    <3>1. row[h].admin = TRUE
      BY <1>2, <2>1
    <3>2. row[h] = [stream |-> s, user |-> row[h].user, admin |-> TRUE]
      BY <1>3, <3>1 DEF Row
    <3>3. db'[k] = row[h]
      BY <1>4, <2>1 DEF After
    <3> QED
      BY <1>3, <1>7, <3>2, <3>3 DEF MustBeAdministrator
  <2>2. CASE op[h] = "add"
    <3>1. PICK u \in Users : MustBeAdministrator(u, s)
      BY <1>1, <1>9, <2>2 DEF OverlapInv
    <3> QED
      BY <1>6, <1>7, <2>2, <3>1 DEF Inserting
  <2>3. CASE op[h] \in {"change", "remove"}
    <3>1. s \in live \ overlapped /\ row[h].user # actor[h]
      BY <1>1, <1>2, <1>9, <2>3 DEF Updating
    <3>2. PICK u \in Users : u = actor[h] /\ MustBeAdministrator(u, s)
      BY <1>1, <3>1 DEF OverlapInv
    <3> QED
      BY <1>6, <1>7, <3>1, <3>2
  <2> QED
    BY <1>3, <2>1, <2>2, <2>3
<1>10. ASSUME NEW g \in Handlers, Busy(g)', row'[g].stream = s
       PROVE  s \in overlapped
  BY <1>1, <1>5, <1>10 DEF OverlapInv
<1>11. \A t \in live' \ overlapped' :
          /\ \E u \in Users : MustBeAdministrator(u, t)'
          /\ \A g \in Handlers : Busy(g)' /\ row'[g].stream = t =>
                actor'[g] \in Users /\ MustBeAdministrator(actor[g], t)'
  <2>1. ASSUME NEW t \in live' \ overlapped', t # s PROVE t \in live \ overlapped
    BY <1>1, <2>1
  <2> QED
    BY <1>1, <1>8, <1>9, <1>10, <2>1
<1>12. \A f, g \in Handlers :
          f # g /\ Busy(f)' /\ Busy(g)' /\ row'[f].stream = row'[g].stream
             => row'[g].stream \in overlapped'
  BY <1>1, <1>5 DEF OverlapInv
<1> QED
  BY <1>11, <1>12 DEF OverlapInv

LEMMA CommitCloseOverlap ==
    ASSUME IInv, OverlapInv, NEW h \in Handlers, CommitClose(h) PROVE OverlapInv'
<1> PICK s : s = row[h].stream
  OBVIOUS
<1>1. /\ Answer(h) /\ UNCHANGED overlapped /\ live' = live \ {s}
      /\ \A m \in MemberIds :
            db'[m] = IF db[m] # NoRow /\ db[m].stream = s THEN NoRow ELSE db[m]
  BY DEF CommitClose, Answer
<1>2. \A g \in Handlers : Busy(g)' =>
         Busy(g) /\ row'[g] = row[g] /\ actor'[g] = actor[g]
  BY <1>1, AnswerFrame DEF Busy
<1>3. ASSUME NEW u \in Users, NEW t \in live', MustBeAdministrator(u, t)
      PROVE  MustBeAdministrator(u, t)'
  <2>1. PICK m \in MemberIds : db[m] = [stream |-> t, user |-> u, admin |-> TRUE]
    BY <1>3 DEF MustBeAdministrator
  <2>2. db[m].stream = t /\ t # s
    BY <1>1, <2>1
  <2> QED
    BY <1>1, <2>1, <2>2 DEF MustBeAdministrator
<1>4. ASSUME NEW t \in live' \ overlapped'
      PROVE  \E u \in Users : MustBeAdministrator(u, t)'
  <2>1. PICK u \in Users : MustBeAdministrator(u, t)
    BY <1>1 DEF OverlapInv
  <2> QED
    BY <1>3, <2>1
<1>5. ASSUME NEW t \in live' \ overlapped', NEW g \in Handlers,
             Busy(g)', row'[g].stream = t
      PROVE  actor'[g] \in Users /\ MustBeAdministrator(actor[g], t)'
  <2>1. PICK u \in Users : actor[g] = u /\ actor'[g] = u /\ MustBeAdministrator(u, t)
    BY <1>1, <1>2, <1>5 DEF OverlapInv
  <2>2. MustBeAdministrator(u, t)'
    BY <1>3, <2>1
  <2> QED
    BY <2>1, <2>2 DEF MustBeAdministrator
<1>6. \A f, g \in Handlers :
          f # g /\ Busy(f)' /\ Busy(g)' /\ row'[f].stream = row'[g].stream
             => row'[g].stream \in overlapped'
  BY <1>1, <1>2 DEF OverlapInv
<1> QED
  BY <1>4, <1>5, <1>6 DEF OverlapInv

\* What overlapping requests may do is all they do.
THEOREM OverlapInvariance == Spec => []OverlapInv
<1>1. Init => OverlapInv
  BY DEF Init, OverlapInv, Busy
<1>2. IInv /\ OverlapInv /\ [Next]_vars => OverlapInv'
  <2> SUFFICES ASSUME IInv, OverlapInv, [Next]_vars PROVE OverlapInv'
    OBVIOUS
  <2>1. ASSUME NEW h \in Handlers, InsertMember(h) \/ UpdateMember(h) \/ DeleteStream(h)
        PROVE  OverlapInv'
    <3>1. CASE Answer(h)
      BY <2>1, <3>1, AnswerFrame, OverlapKept
      DEF InsertMember, UpdateMember, DeleteStream, Answer, rows, Busy
    <3>2. CASE /\ Goto(h, "policy") \/ Goto(h, "commit")
               /\ UNCHANGED <<request, plan, history>>
      <4>1. /\ pc[h] = "write" /\ UNCHANGED rows
            /\ \A g \in Handlers \ {h} : pc'[g] = pc[g]
        BY <2>1, <3>2
        DEF InsertMember, UpdateMember, DeleteStream, Goto, IInv, TypeOK
      <4> QED
        BY <3>2, <4>1, OverlapKept DEF rows, request, history, Busy
    <3> QED
      BY <2>1, <3>1, <3>2 DEF InsertMember, UpdateMember, DeleteStream
  <2>2. ASSUME NEW h \in Handlers, GetPolicy(h) \/ UpdateVaultPolicy(h)
        PROVE  OverlapInv'
    BY <2>2, OverlapKept
    DEF GetPolicy, UpdateVaultPolicy, Goto, IInv, TypeOK, rows, request, history, Busy
  <2>3. ASSUME NEW h \in Handlers, Fail(h) PROVE OverlapInv'
    BY <2>3, AnswerFrame, OverlapKept DEF Fail, Answer, rows, Busy
  <2>4. CASE UNCHANGED vars
    BY <2>4, OverlapKept DEF vars, rows, request, history, Busy
  <2> QED
    BY <2>1, <2>2, <2>3, <2>4, RequestOverlap, CommitMemberOverlap,
       CommitCloseOverlap DEF Next, Step
<1> QED
  BY Invariance, <1>1, <1>2, PTL DEF Spec

\* However requests are interleaved, a stream about which no two requests ran at
\* the same time has an administrator.
THEOREM AdminKept == Spec => []AdminRemains
<1>1. OverlapInv => AdminRemains
  BY DEF OverlapInv, AdminRemains
<1> QED
  BY OverlapInvariance, <1>1, PTL

\* A change is committed for an administrator, unless another request about the
\* stream ran at the same time.
THEOREM SenderKept == Spec => OnlyAdministratorsChange
<1> DEFINE A == \A h \in Handlers :
                  CommitMember(h) /\ op[h] # "open" =>
                    MustBeAdministrator(actor[h], row[h].stream) \/ row[h].stream \in overlapped
<1>1. IInv /\ OverlapInv => A
  <2> SUFFICES ASSUME IInv, OverlapInv, NEW h \in Handlers, CommitMember(h), op[h] # "open",
                      row[h].stream \notin overlapped
               PROVE  MustBeAdministrator(actor[h], row[h].stream)
    OBVIOUS
  <2>1. /\ pc[h] = "commit" /\ op[h] # "close" /\ Busy(h) /\ Locked(h)
    BY DEF CommitMember, Busy, Locked
  <2>2. ContextInv!(h)
    BY DEF IInv, ContextInv
  <2>3. op[h] \in {"add", "change", "remove"}
    BY <2>1, <2>2 DEF IInv, TypeOK, Ops
  <2>4. row[h].stream \in live
    <3>1. CASE op[h] = "add"
      BY <2>1, <2>2, <3>1 DEF Insertable
    <3>2. CASE op[h] \in {"change", "remove"}
      <4>1. db[mid[h]] # NoRow /\ db[mid[h]].stream = row[h].stream
        BY <2>1, <2>2, <3>2 DEF Updating
      <4>2. mid[h] \in used /\ used \subseteq MemberIds
        BY <2>2, <3>2 DEF Updating, IInv, TypeOK
      <4> QED
        BY <4>1, <4>2 DEF IInv, RowsInv, RowsConsistent
    <3> QED
      BY <2>3, <3>1, <3>2
  <2> QED
    BY <2>1, <2>4 DEF OverlapInv
<1>2. IInv /\ OverlapInv /\ [Next]_vars => [A]_vars
  BY <1>1
<1>3. OnlyAdministratorsChange <=> [][A]_vars
  BY DEF OnlyAdministratorsChange
<1> QED
  BY Invariance, OverlapInvariance, <1>2, <1>3, PTL DEF Spec

-----------------------------------------------------------------------------
(***************************************************************************)
(* Policies match the rows.  A request about a user that meets no other    *)
(* one writes what its transaction sees; other requests touch the user's   *)
(* rows only by removing a stream, which the locks keep away from the      *)
(* stream of the request.                                                  *)
(***************************************************************************)
Concerns(h) == Busy(h) /\ op[h] # "close"

CrossInv ==
    /\ \A g, h \in Handlers :
          g # h /\ Concerns(g) /\ Concerns(h) /\ row[g].user = row[h].user
             => h \in crossed
    /\ \A h \in crossed : Concerns(h) /\ row[h].user \in doubtful

\* Only the request that creates a stream, and its user, can know of it.
Mentions(p, s) == \E b \in BOOLEAN : [stream |-> s, admin |-> b] \in p

MentionInv ==
    /\ \A s \in Streams :
          /\ \A u \in Users : Mentions(policy[u], s) => s \in taken
          /\ \A h \in Handlers : Mentions(plan[h], s) => s \in taken
    /\ \A g \in Handlers : op[g] = "open" =>
          /\ \A u \in Users \ {row[g].user} : ~ Mentions(policy[u], row[g].stream)
          /\ \A h \in Handlers \ {g} : ~ Mentions(plan[h], row[g].stream)

\* On the streams ss, the policy p says what the rows say of u.
Holds(members, u, s, b) ==
    \E m \in MemberIds : members[m] = [stream |-> s, user |-> u, admin |-> b]
Matches(p, members, u, ss) ==
    \A s \in ss, b \in BOOLEAN :
        [stream |-> s, admin |-> b] \in p <=> Holds(members, u, s, b)

\* The streams that exist for the transaction of h.
Scope(h) == live \cup {s \in {row[h].stream} : op[h] = "open"}

PolicyInv ==
    /\ \A u \in Users \ doubtful :
          (\A h \in Handlers : Concerns(h) /\ row[h].user = u => pc[h] # "commit")
             => Matches(policy[u], db, u, live)
    /\ \A h \in Handlers \ crossed : Concerns(h) =>
          /\ pc[h] = "put" => Matches(plan[h], Seen(h), row[h].user, Scope(h))
          /\ pc[h] = "commit" =>
                Matches(policy[row[h].user], Seen(h), row[h].user, Scope(h))

PInv == IInv /\ CrossInv /\ MentionInv /\ PolicyInv

LEMMA RecordNotNoRow ==
    ASSUME NEW s \in Streams, NEW u \in Users, NEW b \in BOOLEAN
    PROVE  /\ [stream |-> s, user |-> u, admin |-> b] \in Row
           /\ [stream |-> s, user |-> u, admin |-> b] # NoRow
<1>1. [stream |-> s, user |-> u, admin |-> b] \in Row
  BY DEF Row
<1> QED
  BY <1>1, ConstantsAssumption

\* The policy computed from rows says what they say.
LEMMA GrantsHolds ==
    ASSUME NEW members \in [MemberIds -> Row \cup {NoRow}], NEW u \in Users,
           NEW s \in Streams, NEW b \in BOOLEAN
    PROVE  [stream |-> s, admin |-> b] \in Grants(members, u)
              <=> Holds(members, u, s, b)
<1>1. ASSUME [stream |-> s, admin |-> b] \in Grants(members, u)
      PROVE  Holds(members, u, s, b)
  <2>1. PICK m \in MemberIds :
          /\ members[m] # NoRow /\ members[m].user = u
          /\ [stream |-> s, admin |-> b]
               = [stream |-> members[m].stream, admin |-> members[m].admin]
    BY <1>1 DEF Grants
  <2>2. members[m].stream = s /\ members[m].admin = b /\ members[m] \in Row
    BY <2>1
  <2>3. members[m] = [stream |-> s, user |-> u, admin |-> b]
    BY <2>1, <2>2 DEF Row
  <2> QED
    BY <2>3 DEF Holds
<1>2. ASSUME Holds(members, u, s, b)
      PROVE  [stream |-> s, admin |-> b] \in Grants(members, u)
  <2>1. PICK m \in MemberIds : members[m] = [stream |-> s, user |-> u, admin |-> b]
    BY <1>2 DEF Holds
  <2>2. /\ members[m] # NoRow /\ members[m].user = u
        /\ members[m].stream = s /\ members[m].admin = b
    BY <2>1, RecordNotNoRow
  <2> QED
    BY <2>2 DEF Grants
<1> QED
  BY <1>1, <1>2

LEMMA GrantsMention ==
    ASSUME NEW members, NEW u, NEW s, Mentions(Grants(members, u), s)
    PROVE  \E m \in MemberIds : members[m] # NoRow /\ members[m].stream = s
<1>1. PICK b \in BOOLEAN : [stream |-> s, admin |-> b] \in Grants(members, u)
  BY DEF Mentions
<1>2. PICK m \in MemberIds :
        /\ members[m] # NoRow
        /\ [stream |-> s, admin |-> b]
             = [stream |-> members[m].stream, admin |-> members[m].admin]
  BY <1>1 DEF Grants
<1>3. members[m].stream = s
  BY <1>2
<1> QED
  BY <1>2, <1>3

\* PolicyInv says of policies and rows what PolicyMatches says.
LEMMA PolicyInvMatches == PInv => PolicyMatches
<1> SUFFICES ASSUME PInv, NEW u \in Users \ doubtful, About(u) = {}
             PROVE  {g \in policy[u] : g.stream \in live} = Grants(db, u)
  BY DEF PolicyMatches
<1>1. Matches(policy[u], db, u, live)
  BY DEF PInv, PolicyInv, About, Concerns
<1>2. /\ db \in [MemberIds -> Row \cup {NoRow}] /\ policy[u] \subseteq Grant
      /\ live \subseteq Streams
  BY DEF PInv, IInv, TypeOK
<1>3. ASSUME NEW g \in policy[u], g.stream \in live PROVE g \in Grants(db, u)
  <2>1. PICK s \in Streams, b \in BOOLEAN : g = [stream |-> s, admin |-> b]
    BY <1>2 DEF Grant
  <2>2. s \in live
    BY <1>3, <2>1
  <2>3. Holds(db, u, s, b)
    BY <1>1, <2>1, <2>2 DEF Matches
  <2> QED
    BY <1>2, <2>1, <2>3, GrantsHolds
<1>4. ASSUME NEW g \in Grants(db, u) PROVE g \in policy[u] /\ g.stream \in live
  <2>1. PICK m \in MemberIds :
          /\ db[m] # NoRow /\ db[m].user = u
          /\ g = [stream |-> db[m].stream, admin |-> db[m].admin]
    BY <1>4 DEF Grants
  <2>2. /\ db[m] \in Row /\ db[m].stream \in live
        /\ db[m].stream \in Streams /\ db[m].admin \in BOOLEAN
    BY <1>2, <2>1 DEF PInv, IInv, RowsInv, RowsConsistent, Row
  <2>3. Holds(db, u, db[m].stream, db[m].admin)
    BY <1>2, <2>1, <2>2, GrantsHolds
  <2>4. g \in policy[u]
    BY <1>1, <2>1, <2>2, <2>3 DEF Matches
  <2> QED
    BY <2>1, <2>2, <2>4
<1> QED
  BY <1>3, <1>4

\* Steps that leave the stores alone.
LEMMA StartPolicy ==
    ASSUME PInv, NEW h \in Handlers, NEW o \in Ops \ {"none"}, NEW a \in Users,
           NEW m \in MemberIds \cup {NoId}, NEW r \in Row, Start(h, o, a, m, r),
           taken \subseteq taken', o = "open" => r.stream \notin taken
    PROVE  CrossInv' /\ MentionInv' /\ PolicyInv'
<1> USE DEF PInv, IInv
<1>1. /\ UNCHANGED <<db, live, policy, plan>> /\ ~ Busy(h) /\ Busy(h)'
      /\ op'[h] = o /\ row'[h] = r /\ pc'[h] = "write"
      /\ \A g \in Handlers \ {h} :
            /\ row'[g] = row[g] /\ pc'[g] = pc[g] /\ op'[g] = op[g]
            /\ mid'[g] = mid[g] /\ (Busy(g)' <=> Busy(g))
  BY DEF Start, Goto, TypeOK, Busy
<1>2. r.user \in Users /\ r.stream \in Streams
  BY DEF Row
<1> DEFINE met == IF o = "close" THEN {} ELSE About(r.user)
<1>3. /\ crossed' = crossed \cup met \cup {g \in {h} : met # {}}
      /\ doubtful' = doubtful \cup {u \in {r.user} : met # {}}
      /\ \A g \in met : g # h /\ Concerns(g) /\ row[g].user = r.user
  BY <1>1 DEF Start, About, Concerns
<1>4. \A g \in Handlers \ {h} : o # "close" /\ Concerns(g) /\ row[g].user = r.user
                               => g \in met
  BY DEF About, Concerns
<1> HIDE DEF met
<1>5. /\ Concerns(h)' <=> o # "close"
      /\ ~ Concerns(h)
      /\ \A g \in Handlers \ {h} : Concerns(g)' <=> Concerns(g)
  BY <1>1 DEF Concerns
<1>6. CrossInv'
  <2>1. ASSUME NEW g \in Handlers, NEW f \in Handlers, f # g,
               Concerns(f)', Concerns(g)', row'[f].user = row'[g].user
        PROVE  g \in crossed'
    <3>1. CASE f # h /\ g # h
      BY <1>1, <1>3, <1>5, <2>1, <3>1 DEF CrossInv
    <3>2. CASE f = h
      BY <1>1, <1>3, <1>4, <1>5, <2>1, <3>2
    <3>3. CASE g = h
      BY <1>1, <1>3, <1>4, <1>5, <2>1, <3>3
    <3> QED
      BY <3>1, <3>2, <3>3
  <2>2. o = "close" => met = {}
    BY DEF met
  <2>3. ASSUME NEW g \in crossed'
        PROVE  Concerns(g)' /\ row'[g].user \in doubtful'
    <3>1. CASE g \in crossed
      BY <1>1, <1>3, <1>5, <3>1 DEF CrossInv, TypeOK
    <3>2. CASE g \in met
      <4>1. g \in Handlers
        BY <3>2 DEF met, About
      <4> QED
        BY <1>1, <1>3, <1>5, <3>2, <4>1
    <3>3. CASE g = h /\ met # {}
      BY <1>1, <1>3, <1>5, <2>2, <3>3
    <3> QED
      BY <1>3, <3>1, <3>2, <3>3
  <2> QED
    BY <2>1, <2>3 DEF CrossInv
<1>7. MentionInv'
  <2>1. ASSUME NEW s \in Streams
        PROVE  /\ \A u \in Users : Mentions(policy[u], s)' => s \in taken'
               /\ \A g \in Handlers : Mentions(plan[g], s)' => s \in taken'
    BY <1>1 DEF MentionInv, Mentions
  <2>2. ASSUME NEW g \in Handlers, op'[g] = "open"
        PROVE  /\ \A u \in Users \ {row'[g].user} : ~ Mentions(policy[u], row[g].stream)'
               /\ \A f \in Handlers \ {g} : ~ Mentions(plan[f], row[g].stream)'
    <3>1. CASE g = h
      BY <1>1, <1>2, <2>2, <3>1 DEF MentionInv, Mentions
    <3>2. CASE g # h
      BY <1>1, <2>2, <3>2 DEF MentionInv, Mentions
    <3> QED
      BY <3>1, <3>2
  <2> QED
    BY <2>1, <2>2 DEF MentionInv
<1>8. PolicyInv'
  <2>1. ASSUME NEW u \in Users \ doubtful',
               \A g \in Handlers : Concerns(g)' /\ row'[g].user = u => pc'[g] # "commit"
        PROVE  Matches(policy[u], db, u, live)
    BY <1>1, <1>3, <1>5, <2>1 DEF PolicyInv
  <2>2. \A u \in Users : Matches(policy[u], db, u, live)'
                            <=> Matches(policy[u], db, u, live)
    BY <1>1 DEF Matches, Holds
  <2>3. ASSUME NEW g \in Handlers \ crossed', Concerns(g)', pc'[g] \in {"put", "commit"}
        PROVE  /\ pc'[g] = "put" => Matches(plan[g], Seen(g), row[g].user, Scope(g))'
               /\ pc'[g] = "commit" =>
                    Matches(policy[row[g].user], Seen(g), row[g].user, Scope(g))'
    <3>1. g # h /\ g \notin crossed
      BY <1>1, <1>3, <2>3
    <3>2. Seen(g)' = Seen(g) /\ Scope(g)' = Scope(g) /\ row'[g] = row[g]
      BY <1>1, <3>1 DEF Seen, Scope, After
    <3>3. /\ pc[g] = "put" => Matches(plan[g], Seen(g), row[g].user, Scope(g))
          /\ pc[g] = "commit" =>
                Matches(policy[row[g].user], Seen(g), row[g].user, Scope(g))
      BY <1>5, <2>3, <3>1 DEF PolicyInv
    <3> QED
      BY <1>1, <3>1, <3>2, <3>3 DEF Matches, Holds
  <2> QED
    BY <2>1, <2>2, <2>3 DEF PolicyInv
<1> QED
  BY <1>6, <1>7, <1>8

\* The request of h is answered: what the others know of each other stays.
LEMMA AnswerCross ==
    ASSUME PInv, NEW h \in Handlers, Answer(h),
           \A g \in crossed \ {h} : row[g].user \in doubtful => row[g].user \in doubtful'
    PROVE  /\ CrossInv'
           /\ ~ Concerns(h)'
           /\ \A g \in Handlers \ {h} : Concerns(g)' <=> Concerns(g)
           /\ crossed' = crossed \ {h}
<1>1. /\ pc'[h] = "idle" /\ crossed' = crossed \ {h} /\ crossed \subseteq Handlers
      /\ \A g \in Handlers \ {h} : /\ op'[g] = op[g] /\ row'[g] = row[g]
                                   /\ pc'[g] = pc[g]
  BY AnswerFrame DEF PInv, IInv, TypeOK, Answer
<1>2. /\ ~ Concerns(h)'
      /\ \A g \in Handlers \ {h} : Concerns(g)' <=> Concerns(g)
  BY <1>1 DEF Concerns, Busy
<1> QED
  BY <1>1, <1>2 DEF PInv, CrossInv

LEMMA AnswerMention ==
    ASSUME PInv, NEW h \in Handlers, Answer(h), UNCHANGED <<taken, policy>>
    PROVE  MentionInv'
<1>1. /\ op'[h] = "none" /\ plan'[h] = {}
      /\ \A g \in Handlers \ {h} : /\ op'[g] = op[g] /\ row'[g] = row[g]
                                   /\ plan'[g] = plan[g]
  BY AnswerFrame DEF PInv, IInv, TypeOK, Answer
<1> QED
  BY <1>1 DEF PInv, MentionInv, Mentions

LEMMA LeavePolicy ==
    ASSUME PInv, NEW h \in Handlers, Answer(h), UNCHANGED <<rows, policy>>,
           doubtful \subseteq doubtful',
           Concerns(h) /\ pc[h] = "commit" => row[h].user \in doubtful'
    PROVE  CrossInv' /\ MentionInv' /\ PolicyInv'
<1>1. CrossInv' /\ MentionInv'
  BY AnswerCross, AnswerMention DEF rows
<1>2. /\ ~ Concerns(h)' /\ crossed' = crossed \ {h}
      /\ UNCHANGED <<db, live, policy>>
      /\ \A g \in Handlers \ {h} :
            /\ Concerns(g)' <=> Concerns(g)
            /\ op'[g] = op[g] /\ row'[g] = row[g] /\ mid'[g] = mid[g]
            /\ pc'[g] = pc[g] /\ plan'[g] = plan[g]
  BY AnswerCross, AnswerFrame DEF PInv, rows
<1>3. ASSUME NEW u \in Users \ doubtful',
             \A g \in Handlers : Concerns(g)' /\ row'[g].user = u => pc'[g] # "commit"
      PROVE  Matches(policy[u], db, u, live)'
  <2>1. \A g \in Handlers : Concerns(g) /\ row[g].user = u => pc[g] # "commit"
    BY <1>2, <1>3
  <2>2. Matches(policy[u], db, u, live)
    BY <1>3, <2>1 DEF PInv, PolicyInv
  <2> QED
    BY <1>2, <2>2 DEF Matches, Holds
<1>4. ASSUME NEW g \in Handlers \ crossed', Concerns(g)'
      PROVE  /\ pc'[g] = "put" => Matches(plan[g], Seen(g), row[g].user, Scope(g))'
             /\ pc'[g] = "commit" =>
                  Matches(policy[row[g].user], Seen(g), row[g].user, Scope(g))'
  <2>1. g # h /\ g \notin crossed
    BY <1>2, <1>4
  <2>2. Seen(g)' = Seen(g) /\ Scope(g)' = Scope(g)
    BY <1>2, <2>1 DEF Seen, Scope, After
  <2>3. /\ pc[g] = "put" => Matches(plan[g], Seen(g), row[g].user, Scope(g))
        /\ pc[g] = "commit" =>
              Matches(policy[row[g].user], Seen(g), row[g].user, Scope(g))
    BY <1>2, <1>4, <2>1 DEF PInv, PolicyInv
  <2> QED
    BY <1>2, <2>1, <2>2, <2>3 DEF Matches, Holds
<1> QED
  BY <1>1, <1>3, <1>4 DEF PolicyInv

\* The request of h goes on; only a removal of a stream goes straight to its
\* commit.
LEMMA AdvancePolicy ==
    ASSUME PInv, NEW h \in Handlers, NEW l \in {"policy", "commit"}, Goto(h, l),
           UNCHANGED <<rows, policy, request, plan, history>>,
           pc[h] = "write", l = "commit" => op[h] = "close"
    PROVE  CrossInv' /\ MentionInv' /\ PolicyInv'
<1> USE DEF PInv, rows, request, history
<1>1. /\ \A g \in Handlers \ {h} : pc'[g] = pc[g]
      /\ pc'[h] = l
      /\ \A g \in Handlers : Concerns(g)' <=> Concerns(g)
  BY DEF IInv, TypeOK, Goto, Concerns, Busy
<1>2. CrossInv'
  BY <1>1 DEF CrossInv, IInv, TypeOK
<1>5. MentionInv'
  BY DEF MentionInv, Mentions
<1>3. ASSUME NEW u \in Users \ doubtful',
             \A g \in Handlers : Concerns(g)' /\ row'[g].user = u => pc'[g] # "commit"
      PROVE  Matches(policy[u], db, u, live)'
  <2>1. \A g \in Handlers : Concerns(g) /\ row[g].user = u => pc[g] # "commit"
    BY <1>1, <1>3
  <2>2. Matches(policy[u], db, u, live)
    BY <1>3, <2>1 DEF PolicyInv
  <2> QED
    BY <2>2 DEF Matches, Holds
<1>4. ASSUME NEW g \in Handlers \ crossed', Concerns(g)'
      PROVE  /\ pc'[g] = "put" => Matches(plan[g], Seen(g), row[g].user, Scope(g))'
             /\ pc'[g] = "commit" =>
                  Matches(policy[row[g].user], Seen(g), row[g].user, Scope(g))'
  <2>1. Seen(g)' = Seen(g) /\ Scope(g)' = Scope(g)
    BY DEF Seen, Scope, After
  <2>2. pc'[g] \in {"put", "commit"} => pc'[g] = pc[g]
    BY <1>1, <1>4 DEF Concerns
  <2>3. /\ pc[g] = "put" => Matches(plan[g], Seen(g), row[g].user, Scope(g))
        /\ pc[g] = "commit" =>
              Matches(policy[row[g].user], Seen(g), row[g].user, Scope(g))
    BY <1>1, <1>4 DEF PolicyInv
  <2> QED
    BY <2>1, <2>2, <2>3 DEF Matches, Holds
<1> QED
  BY <1>2, <1>3, <1>4, <1>5 DEF PolicyInv

LEMMA GetPolicyMatches ==
    ASSUME PInv, NEW h \in Handlers, GetPolicy(h)
    PROVE  CrossInv' /\ MentionInv' /\ PolicyInv'
<1>1. /\ pc[h] = "policy" /\ pc'[h] = "put"
      /\ UNCHANGED <<db, live, taken, policy, op, mid, row, crossed, doubtful>>
      /\ plan'[h] = Grants(Seen(h), row[h].user)
      /\ \A g \in Handlers \ {h} : pc'[g] = pc[g] /\ plan'[g] = plan[g]
      /\ \A g \in Handlers : Concerns(g)' <=> Concerns(g)
  BY DEF PInv, IInv, TypeOK, ContextInv, GetPolicy, Goto, Concerns, Busy, rows,
         request, history
<1>2. ContextInv!(h) /\ Busy(h)
  BY <1>1 DEF PInv, IInv, ContextInv, Busy
<1>3. /\ row[h].user \in Users /\ row[h].stream \in taken
      /\ Seen(h) \in [MemberIds -> Row \cup {NoRow}]
      /\ Scope(h) \subseteq Streams
  <2>1. row[h] \in Row /\ row[h].stream \in taken
    BY <1>2
  <2>2. row[h].user \in Users /\ row[h].stream \in Streams
    BY <2>1 DEF Row
  <2>3. After(h) \in Row \cup {NoRow}
    BY <2>1 DEF After
  <2> QED
    BY <2>1, <2>2, <2>3 DEF PInv, IInv, TypeOK, Seen, Scope
<1>4. CrossInv'
  BY <1>1 DEF PInv, CrossInv, IInv, TypeOK
<1>5. ASSUME NEW s \in Streams, Mentions(plan'[h], s)
      PROVE  s \in live \/ s = row[h].stream
  <2>1. PICK m \in MemberIds : Seen(h)[m] # NoRow /\ Seen(h)[m].stream = s
    BY <1>1, <1>5, GrantsMention
  <2>2. CASE m = mid[h]
    BY <2>1, <2>2 DEF Seen, After, PInv, IInv, TypeOK
  <2>3. CASE m # mid[h]
    BY <2>1, <2>3 DEF Seen, PInv, IInv, TypeOK, RowsInv, RowsConsistent
  <2> QED
    BY <2>2, <2>3
<1>6. MentionInv'
  <2>1. ASSUME NEW g \in Handlers, op[g] = "open", g # h
        PROVE  ~ Mentions(plan'[h], row[g].stream)
    <3>1. row[g].stream \notin live /\ row[g].stream # row[h].stream
      BY <1>2, <2>1 DEF PInv, IInv, ContextInv, PairInv
    <3>2. row[g].stream \in Streams
      BY <2>1 DEF PInv, IInv, ContextInv, Row, Busy
    <3> QED
      BY <1>5, <3>1, <3>2
  <2>2. \A s \in Streams : Mentions(plan'[h], s) => s \in taken
    BY <1>3, <1>5 DEF PInv, IInv, TypeOK
  <2>3. \A g \in Handlers : \A s : Mentions(plan[g], s)' <=> Mentions(plan'[g], s)
    BY DEF Mentions
  <2>4. ASSUME NEW s \in Streams
        PROVE  /\ \A u \in Users : Mentions(policy'[u], s) => s \in taken'
               /\ \A g \in Handlers : Mentions(plan'[g], s) => s \in taken'
    BY <1>1, <2>2 DEF PInv, MentionInv
  <2>5. ASSUME NEW g \in Handlers, op'[g] = "open"
        PROVE  /\ \A u \in Users \ {row'[g].user} : ~ Mentions(policy'[u], row'[g].stream)
               /\ \A f \in Handlers \ {g} : ~ Mentions(plan'[f], row'[g].stream)
    BY <1>1, <2>1, <2>5 DEF PInv, MentionInv
  <2> QED
    BY <2>4, <2>5 DEF MentionInv, Mentions
<1>7. \A g \in Handlers : Seen(g)' = Seen(g) /\ Scope(g)' = Scope(g)
  BY <1>1 DEF Seen, Scope, After
<1>8. Matches(plan'[h], Seen(h), row[h].user, Scope(h))
  BY <1>1, <1>3, GrantsHolds DEF Matches
<1>9. ASSUME NEW u \in Users \ doubtful,
             \A g \in Handlers : Concerns(g)' /\ row'[g].user = u => pc'[g] # "commit"
      PROVE  Matches(policy[u], db, u, live)'
  <2>1. \A g \in Handlers : Concerns(g) /\ row[g].user = u => pc[g] # "commit"
    BY <1>1, <1>9
  <2>2. Matches(policy[u], db, u, live)
    BY <1>9, <2>1 DEF PInv, PolicyInv
  <2> QED
    BY <1>1, <2>2 DEF Matches, Holds
<1>10. ASSUME NEW g \in Handlers \ crossed', Concerns(g)'
       PROVE  /\ pc'[g] = "put" => Matches(plan[g], Seen(g), row[g].user, Scope(g))'
              /\ pc'[g] = "commit" =>
                   Matches(policy[row[g].user], Seen(g), row[g].user, Scope(g))'
  <2>1. CASE g = h
    BY <1>1, <1>7, <1>8, <2>1 DEF Matches, Holds
  <2>2. CASE g # h
    <3>1. /\ pc[g] = "put" => Matches(plan[g], Seen(g), row[g].user, Scope(g))
          /\ pc[g] = "commit" =>
                Matches(policy[row[g].user], Seen(g), row[g].user, Scope(g))
      BY <1>1, <1>10 DEF PInv, PolicyInv
    <3> QED
      BY <1>1, <1>7, <2>2, <3>1 DEF Matches, Holds
  <2> QED
    BY <2>1, <2>2
<1> QED
  BY <1>4, <1>6, <1>9, <1>10, <1>1 DEF PolicyInv

LEMMA UpdateVaultPolicyMatches ==
    ASSUME PInv, NEW h \in Handlers, UpdateVaultPolicy(h)
    PROVE  CrossInv' /\ MentionInv' /\ PolicyInv'
<1>1. /\ pc[h] = "put" /\ pc'[h] = "commit"
      /\ UNCHANGED <<db, live, taken, plan, op, mid, row, crossed, doubtful>>
      /\ \A g \in Handlers \ {h} : pc'[g] = pc[g]
      /\ \A g \in Handlers : Concerns(g)' <=> Concerns(g)
  BY DEF PInv, IInv, TypeOK, UpdateVaultPolicy, Goto, Concerns, Busy, rows,
         request, history
<1>2. ContextInv!(h) /\ Concerns(h)
  BY <1>1 DEF PInv, IInv, ContextInv, Busy, Concerns
<1>3. /\ row[h].user \in Users
      /\ policy'[row[h].user] = plan[h]
      /\ \A u \in Users \ {row[h].user} : policy'[u] = policy[u]
  <2>1. row[h] \in Row
    BY <1>2 DEF Concerns
  <2>2. row[h].user \in Users
    BY <2>1 DEF Row
  <2> QED
    BY <2>2 DEF PInv, IInv, TypeOK, UpdateVaultPolicy
<1>4. CrossInv'
  BY <1>1 DEF PInv, CrossInv, IInv, TypeOK
<1>5. MentionInv'
  <2>1. ASSUME NEW s \in Streams
        PROVE  /\ \A u \in Users : Mentions(policy'[u], s) => s \in taken'
               /\ \A g \in Handlers : Mentions(plan'[g], s) => s \in taken'
    BY <1>1, <1>3 DEF PInv, MentionInv
  <2>2. ASSUME NEW g \in Handlers, op'[g] = "open"
        PROVE  /\ \A u \in Users \ {row'[g].user} : ~ Mentions(policy'[u], row'[g].stream)
               /\ \A f \in Handlers \ {g} : ~ Mentions(plan'[f], row'[g].stream)
    BY <1>1, <1>3, <2>2 DEF PInv, MentionInv
  <2> QED
    BY <2>1, <2>2 DEF MentionInv, Mentions
<1>6. \A g \in Handlers : Seen(g)' = Seen(g) /\ Scope(g)' = Scope(g)
  BY <1>1 DEF Seen, Scope, After
<1>7. ASSUME NEW u \in Users \ doubtful,
             \A g \in Handlers : Concerns(g)' /\ row'[g].user = u => pc'[g] # "commit"
      PROVE  Matches(policy[u], db, u, live)'
  <2>1. u # row[h].user
    BY <1>1, <1>2, <1>7
  <2>2. \A g \in Handlers : Concerns(g) /\ row[g].user = u => pc[g] # "commit"
    BY <1>1, <1>7
  <2>3. Matches(policy[u], db, u, live)
    BY <1>7, <2>2 DEF PInv, PolicyInv
  <2> QED
    BY <1>1, <1>3, <2>1, <2>3 DEF Matches, Holds
<1>8. ASSUME NEW g \in Handlers \ crossed', Concerns(g)'
      PROVE  /\ pc'[g] = "put" => Matches(plan[g], Seen(g), row[g].user, Scope(g))'
             /\ pc'[g] = "commit" =>
                  Matches(policy[row[g].user], Seen(g), row[g].user, Scope(g))'
  <2>1. /\ pc[g] = "put" => Matches(plan[g], Seen(g), row[g].user, Scope(g))
        /\ pc[g] = "commit" =>
              Matches(policy[row[g].user], Seen(g), row[g].user, Scope(g))
    BY <1>1, <1>8 DEF PInv, PolicyInv
  <2>2. CASE g = h
    BY <1>1, <1>3, <1>6, <2>1, <2>2 DEF Matches, Holds
  <2>3. CASE g # h
    <3>1. row[g].user # row[h].user /\ row[g].user \in Users
      <4>1. row[g] \in Row
        BY <1>1, <1>8 DEF PInv, IInv, ContextInv, Concerns
      <4> QED
        BY <1>1, <1>2, <1>8, <2>3, <4>1 DEF PInv, CrossInv, Row
    <3> QED
      BY <1>1, <1>3, <1>6, <2>1, <2>3, <3>1 DEF Matches, Holds
  <2> QED
    BY <2>2, <2>3
<1> QED
  BY <1>1, <1>4, <1>5, <1>7, <1>8 DEF PolicyInv

LEMMA CommitMemberPolicy ==
    ASSUME PInv, NEW h \in Handlers, CommitMember(h)
    PROVE  CrossInv' /\ MentionInv' /\ PolicyInv'
<1> DEFINE k == mid[h]  w == row[h].user
<1>1. /\ pc[h] = "commit" /\ op[h] # "close" /\ Busy(h) /\ Concerns(h) /\ Locked(h)
      /\ db' = [db EXCEPT ![mid[h]] = After(h)]
      /\ live' = live \cup {t \in {row[h].stream} : op[h] = "open"}
      /\ doubtful' = doubtful \ {u \in {row[h].user} : h \notin crossed}
      /\ Answer(h) /\ UNCHANGED <<taken, policy>>
  BY DEF CommitMember, Busy, Locked, Concerns
<1>2. ContextInv!(h) /\ row[h] \in Row
  BY <1>1 DEF PInv, IInv, ContextInv
<1>3. /\ op[h] \in {"add", "open", "change", "remove"}
      /\ mid[h] \in MemberIds /\ row[h].stream \in Streams /\ row[h].user \in Users
  BY <1>1, <1>2 DEF PInv, IInv, TypeOK, Ops, Inserting, Updating, Row
<1>4. db'[k] = After(h) /\ \A m \in MemberIds \ {k} : db'[m] = db[m]
  BY <1>1, <1>3 DEF PInv, IInv, TypeOK
<1>5. CrossInv' /\ MentionInv'
  <2>1. \A g \in crossed \ {h} : row[g].user \in doubtful => row[g].user \in doubtful'
    BY <1>1 DEF PInv, CrossInv, IInv, TypeOK
  <2> QED
    BY <1>1, <2>1, AnswerCross, AnswerMention
<1>6. /\ ~ Concerns(h)' /\ crossed' = crossed \ {h}
      /\ \A g \in Handlers \ {h} :
            /\ Concerns(g)' <=> Concerns(g)
            /\ op'[g] = op[g] /\ row'[g] = row[g] /\ mid'[g] = mid[g]
            /\ pc'[g] = pc[g] /\ plan'[g] = plan[g]
  <2>1. \A g \in crossed \ {h} : row[g].user \in doubtful => row[g].user \in doubtful'
    BY <1>1 DEF PInv, CrossInv, IInv, TypeOK
  <2> QED
    BY <1>1, <2>1, AnswerCross, AnswerFrame DEF PInv
<1>7. ASSUME NEW m \in MemberIds, NEW u \in Users \ {w}, NEW s \in Streams, NEW b \in BOOLEAN
      PROVE  db'[m] = [stream |-> s, user |-> u, admin |-> b]
                <=> db[m] = [stream |-> s, user |-> u, admin |-> b]
  <2>1. CASE m # k
    BY <1>4, <2>1
  <2>2. CASE m = k
    <3>1. /\ db[k] = NoRow \/ db[k].user = w
          /\ db'[k] = NoRow \/ db'[k].user = w
      BY <1>2, <1>3, <1>4 DEF After, Inserting, Updating
    <3>2. /\ [stream |-> s, user |-> u, admin |-> b] # NoRow
          /\ [stream |-> s, user |-> u, admin |-> b].user = u
      BY RecordNotNoRow
    <3> QED
      BY <2>2, <3>1, <3>2
  <2> QED
    BY <2>1, <2>2
<1>8. ASSUME NEW m \in MemberIds, NEW u \in Users, NEW s \in Streams, NEW b \in BOOLEAN,
             db[m] = [stream |-> s, user |-> u, admin |-> b]
      PROVE  s \in live
  <2>1. db[m] # NoRow /\ db[m].stream = s
    BY <1>8, RecordNotNoRow
  <2> QED
    BY <2>1 DEF PInv, IInv, RowsInv, RowsConsistent
\* The stream that h opens, if any, is new to the others.
<1>9. op[h] = "open" =>
        /\ row[h].stream \notin live
        /\ \A u \in Users \ {w} : ~ Mentions(policy[u], row[h].stream)
        /\ \A g \in Handlers \ {h} : ~ Mentions(plan[g], row[h].stream)
  BY <1>2 DEF PInv, MentionInv
<1>10. live \subseteq Streams /\ live' \subseteq Streams /\ live \subseteq live'
  BY <1>1, <1>3 DEF PInv, IInv, TypeOK
<1>11. ASSUME NEW u \in Users \ doubtful',
              \A g \in Handlers : Concerns(g)' /\ row'[g].user = u => pc'[g] # "commit"
       PROVE  Matches(policy[u], db', u, live')
  <2>1. CASE u = w
    <3>1. h \notin crossed
      BY <1>1, <1>11, <2>1 DEF PInv, CrossInv
    <3>2. Matches(policy[u], Seen(h), u, Scope(h))
      BY <1>1, <2>1, <3>1 DEF PInv, PolicyInv
    <3>3. db' = Seen(h) /\ live' = Scope(h)
      BY <1>1 DEF Seen, Scope
    <3> QED
      BY <3>2, <3>3
  <2>2. CASE u # w
    <3>1. \A g \in Handlers : Concerns(g) /\ row[g].user = u => pc[g] # "commit"
      BY <1>6, <1>11, <2>2
    <3>2. Matches(policy[u], db, u, live)
      BY <1>1, <1>11, <2>2, <3>1 DEF PInv, PolicyInv
    <3>3. ASSUME NEW s \in live', NEW b \in BOOLEAN
          PROVE  [stream |-> s, admin |-> b] \in policy[u] <=> Holds(db', u, s, b)
      <4>1. Holds(db', u, s, b) <=> Holds(db, u, s, b)
        BY <1>7, <1>10, <2>2 DEF Holds
      <4>2. CASE s \in live
        BY <3>2, <4>1, <4>2 DEF Matches
      <4>3. CASE s \notin live
        <5>1. op[h] = "open" /\ s = row[h].stream
          BY <1>1, <4>3
        <5>2. [stream |-> s, admin |-> b] \notin policy[u]
          BY <1>9, <2>2, <5>1 DEF Mentions
        <5>3. ~ Holds(db, u, s, b)
          BY <1>8, <1>10, <4>3 DEF Holds
        <5> QED
          BY <4>1, <5>2, <5>3
      <4> QED
        BY <4>2, <4>3
    <3> QED
      BY <3>3 DEF Matches
  <2> QED
    BY <2>1, <2>2
<1>12. ASSUME NEW g \in Handlers \ crossed', Concerns(g)', NEW p,
              \/ pc[g] = "put" /\ p = plan[g]
              \/ pc[g] = "commit" /\ p = policy[row[g].user]
       PROVE  Matches(p, Seen(g)', row[g].user, Scope(g)')
  <2> PICK v : v = row[g].user
    OBVIOUS
  <2>1. /\ g # h /\ g \notin crossed /\ Concerns(g)
    BY <1>6, <1>12
  <2>2. row[g] \in Row /\ Busy(g)
    BY <2>1 DEF PInv, IInv, ContextInv, Concerns
  <2>3. v \in Users /\ row[g].stream \in Streams
    BY <2>2 DEF Row
  <2>4. v # w
    BY <1>1, <2>1 DEF PInv, CrossInv
  <2>5. Matches(p, Seen(g), v, Scope(g))
    BY <1>12, <2>1 DEF PInv, PolicyInv
  <2>6. /\ mid'[g] = mid[g] /\ After(g)' = After(g)
        /\ Scope(g)' = Scope(g) \cup {t \in {row[h].stream} : op[h] = "open"}
    BY <1>1, <1>6, <2>1 DEF After, Scope
  <2>7. /\ \A m \in MemberIds : Seen(g)[m] = IF m = mid[g] THEN After(g) ELSE db[m]
        /\ \A m \in MemberIds : Seen(g)'[m] = IF m = mid[g] THEN After(g) ELSE db'[m]
    BY <1>1, <1>3, <2>6 DEF Seen, PInv, IInv, TypeOK
  <2>8. Scope(g)' \subseteq Streams
    BY <1>3, <1>10, <2>3, <2>6 DEF Scope
  <2>9. ASSUME NEW s \in Scope(g)', NEW b \in BOOLEAN
        PROVE  [stream |-> s, admin |-> b] \in p <=> Holds(Seen(g)', v, s, b)
    <3>1. Holds(Seen(g)', v, s, b) <=> Holds(Seen(g), v, s, b)
      BY <1>7, <2>3, <2>4, <2>7, <2>8 DEF Holds
    <3>2. CASE s \in Scope(g)
      BY <2>5, <3>1, <3>2 DEF Matches
    <3>3. CASE s \notin Scope(g)
      <4>1. op[h] = "open" /\ s = row[h].stream /\ s \notin live
        BY <2>6, <3>3 DEF Scope
      <4>2. [stream |-> s, admin |-> b] \notin p
        BY <1>9, <1>12, <2>1, <2>3, <2>4, <4>1 DEF Mentions
      <4>3. row[g].stream # s
        BY <2>1, <2>2, <4>1 DEF PInv, IInv, PairInv
      <4>4. \A m \in MemberIds : Seen(g)[m] # [stream |-> s, user |-> v, admin |-> b]
        <5> SUFFICES ASSUME NEW m \in MemberIds,
                            Seen(g)[m] = [stream |-> s, user |-> v, admin |-> b]
                     PROVE  FALSE
          OBVIOUS
        <5>1. CASE m = mid[g]
          <6>1. After(g) = [stream |-> s, user |-> v, admin |-> b]
            BY <2>7, <5>1
          <6>2. After(g) = row[g]
            BY <2>3, <2>8, <6>1, RecordNotNoRow DEF After
          <6> QED
            BY <4>3, <6>1, <6>2
        <5>2. CASE m # mid[g]
          BY <1>8, <2>3, <2>7, <2>8, <4>1, <5>2
        <5> QED
          BY <5>1, <5>2
      <4> QED
        BY <3>1, <4>2, <4>4 DEF Holds
    <3> QED
      BY <3>2, <3>3
  <2> QED
    BY <2>9 DEF Matches
<1>13. PolicyInv'
  <2>1. ASSUME NEW u \in Users \ doubtful',
               \A g \in Handlers : Concerns(g)' /\ row'[g].user = u => pc'[g] # "commit"
        PROVE  Matches(policy'[u], db', u, live')
    BY <1>1, <1>11, <2>1
  <2>2. ASSUME NEW g \in Handlers \ crossed', Concerns(g)'
        PROVE  /\ pc'[g] = "put" => Matches(plan'[g], Seen(g)', row'[g].user, Scope(g)')
               /\ pc'[g] = "commit" =>
                    Matches(policy'[row'[g].user], Seen(g)', row'[g].user, Scope(g)')
    <3>1. /\ g # h /\ pc'[g] = pc[g] /\ plan'[g] = plan[g] /\ row'[g] = row[g]
          /\ policy' = policy
      BY <1>1, <1>6, <2>2
    <3>2. CASE pc[g] = "put"
      BY <1>12, <2>2, <3>1, <3>2
    <3>3. CASE pc[g] = "commit"
      BY <1>12, <2>2, <3>1, <3>3
    <3> QED
      BY <3>1, <3>2, <3>3
  <2> QED
    BY <2>1, <2>2 DEF PolicyInv, Matches, Holds
<1> QED
  BY <1>5, <1>13

LEMMA CommitClosePolicy ==
    ASSUME PInv, NEW h \in Handlers, CommitClose(h)
    PROVE  CrossInv' /\ MentionInv' /\ PolicyInv'
<1> DEFINE t == row[h].stream
<1>1. /\ pc[h] = "commit" /\ op[h] = "close" /\ Busy(h) /\ Locked(h) /\ ~ Concerns(h)
      /\ \A m \in MemberIds :
            db'[m] = IF db[m] # NoRow /\ db[m].stream = t THEN NoRow ELSE db[m]
      /\ live' = live \ {t}
      /\ Answer(h) /\ UNCHANGED <<taken, policy, doubtful>>
  BY DEF CommitClose, Busy, Locked, Concerns
<1>2. CrossInv' /\ MentionInv'
  BY <1>1, AnswerCross, AnswerMention
<1>3. /\ ~ Concerns(h)' /\ crossed' = crossed \ {h}
      /\ \A g \in Handlers \ {h} :
            /\ Concerns(g)' <=> Concerns(g)
            /\ op'[g] = op[g] /\ row'[g] = row[g] /\ mid'[g] = mid[g]
            /\ pc'[g] = pc[g] /\ plan'[g] = plan[g]
  BY <1>1, AnswerCross, AnswerFrame DEF PInv
<1>4. ASSUME NEW m \in MemberIds, NEW u \in Users, NEW s \in Streams \ {t}, NEW b \in BOOLEAN
      PROVE  db'[m] = [stream |-> s, user |-> u, admin |-> b]
                <=> db[m] = [stream |-> s, user |-> u, admin |-> b]
  <2>1. /\ [stream |-> s, user |-> u, admin |-> b] # NoRow
        /\ [stream |-> s, user |-> u, admin |-> b].stream = s
    BY RecordNotNoRow
  <2> QED
    BY <1>1, <2>1
<1>5. live \subseteq Streams
  BY DEF PInv, IInv, TypeOK
<1>6. ASSUME NEW u \in Users \ doubtful,
             \A g \in Handlers : Concerns(g)' /\ row'[g].user = u => pc'[g] # "commit"
      PROVE  Matches(policy[u], db', u, live')
  <2>1. \A g \in Handlers : Concerns(g) /\ row[g].user = u => pc[g] # "commit"
    BY <1>1, <1>3, <1>6
  <2>2. Matches(policy[u], db, u, live)
    BY <1>6, <2>1 DEF PInv, PolicyInv
  <2>3. ASSUME NEW s \in live', NEW b \in BOOLEAN
        PROVE  Holds(db', u, s, b) <=> Holds(db, u, s, b)
    BY <1>1, <1>4, <1>5 DEF Holds
  <2> QED
    BY <1>1, <2>2, <2>3 DEF Matches
<1>7. ASSUME NEW g \in Handlers \ crossed', Concerns(g)', NEW p,
             \/ pc[g] = "put" /\ p = plan[g]
             \/ pc[g] = "commit" /\ p = policy[row[g].user]
      PROVE  Matches(p, Seen(g)', row[g].user, Scope(g)')
  <2> PICK v : v = row[g].user
    OBVIOUS
  <2>1. g # h /\ g \notin crossed /\ Concerns(g) /\ Busy(g) /\ Locked(g)
    BY <1>3, <1>7 DEF Concerns, Locked
  <2>2. row[g] \in Row /\ row[g].stream # t
    BY <1>1, <2>1 DEF PInv, IInv, ContextInv, PairInv, Conflict
  <2>3. v \in Users /\ row[g].stream \in Streams
    BY <2>2 DEF Row
  <2>4. Matches(p, Seen(g), v, Scope(g))
    BY <1>7, <2>1 DEF PInv, PolicyInv
  <2>5. /\ mid'[g] = mid[g] /\ After(g)' = After(g)
        /\ Scope(g)' = Scope(g) \ {t} /\ Scope(g) \subseteq Streams
    BY <1>1, <1>3, <1>5, <2>1, <2>2, <2>3 DEF After, Scope
  <2>6. /\ \A m \in MemberIds : Seen(g)[m] = IF m = mid[g] THEN After(g) ELSE db[m]
        /\ \A m \in MemberIds : Seen(g)'[m] = IF m = mid[g] THEN After(g) ELSE db'[m]
    <3>1. db' \in [MemberIds -> Row \cup {NoRow}]
      BY CommitCloseInv DEF PInv, IInv, TypeOK
    <3> QED
      BY <2>5, <3>1 DEF Seen, PInv, IInv, TypeOK
  <2>7. ASSUME NEW s \in Scope(g)', NEW b \in BOOLEAN
        PROVE  Holds(Seen(g)', v, s, b) <=> Holds(Seen(g), v, s, b)
    BY <1>4, <2>3, <2>5, <2>6 DEF Holds
  <2> QED
    BY <2>4, <2>5, <2>7 DEF Matches
<1>8. PolicyInv'
  <2>1. ASSUME NEW u \in Users \ doubtful',
               \A g \in Handlers : Concerns(g)' /\ row'[g].user = u => pc'[g] # "commit"
        PROVE  Matches(policy'[u], db', u, live')
    BY <1>1, <1>6, <2>1
  <2>2. ASSUME NEW g \in Handlers \ crossed', Concerns(g)'
        PROVE  /\ pc'[g] = "put" => Matches(plan'[g], Seen(g)', row'[g].user, Scope(g)')
               /\ pc'[g] = "commit" =>
                    Matches(policy'[row'[g].user], Seen(g)', row'[g].user, Scope(g)')
    <3>1. /\ g # h /\ pc'[g] = pc[g] /\ plan'[g] = plan[g] /\ row'[g] = row[g]
          /\ policy' = policy
      BY <1>1, <1>3, <2>2
    <3>2. CASE pc[g] = "put"
      BY <1>7, <2>2, <3>1, <3>2
    <3>3. CASE pc[g] = "commit"
      BY <1>7, <2>2, <3>1, <3>3
    <3> QED
      BY <3>1, <3>2, <3>3
  <2> QED
    BY <2>1, <2>2 DEF PolicyInv, Matches, Holds
<1> QED
  BY <1>2, <1>8

LEMMA RequestPolicy ==
    ASSUME PInv, NEW h \in Handlers, Request(h)
    PROVE  CrossInv' /\ MentionInv' /\ PolicyInv'
<1>1. CASE AddMember(h)
  <2>1. PICK a \in Users, u \in Users, s \in Streams, admin \in BOOLEAN,
             m \in MemberIds \ used :
          /\ Start(h, "add", a, m, [stream |-> s, user |-> u, admin |-> admin])
          /\ UNCHANGED taken
    BY <1>1 DEF AddMember
  <2>2. [stream |-> s, user |-> u, admin |-> admin] \in Row
    BY DEF Row
  <2> QED
    BY <2>1, <2>2, StartPolicy DEF Ops
<1>2. CASE ChangeMember(h)
  <2>1. PICK a \in Users, admin \in BOOLEAN, m \in MemberIds :
          /\ db[m] # NoRow
          /\ Start(h, "change", a, m, [db[m] EXCEPT !.admin = admin])
          /\ UNCHANGED taken
    BY <1>2 DEF ChangeMember
  <2>2. db[m] \in Row
    BY <2>1 DEF PInv, IInv, TypeOK
  <2>3. [db[m] EXCEPT !.admin = admin] \in Row
    BY <2>2 DEF Row
  <2> QED
    BY <2>1, <2>3, StartPolicy DEF Ops
<1>3. CASE RemoveMember(h)
  <2>1. PICK a \in Users, m \in MemberIds :
          /\ db[m] # NoRow
          /\ Start(h, "remove", a, m, db[m])
          /\ UNCHANGED taken
    BY <1>3 DEF RemoveMember
  <2>2. db[m] \in Row
    BY <2>1 DEF PInv, IInv, TypeOK
  <2> QED
    BY <2>1, <2>2, StartPolicy DEF Ops
<1>4. CASE OpenStream(h)
  <2>1. PICK a \in Users, s \in Streams \ taken, m \in MemberIds \ used :
          /\ Start(h, "open", a, m, [stream |-> s, user |-> a, admin |-> TRUE])
          /\ taken' = taken \cup {s}
    BY <1>4 DEF OpenStream
  <2>2. /\ [stream |-> s, user |-> a, admin |-> TRUE] \in Row
        /\ [stream |-> s, user |-> a, admin |-> TRUE].stream = s
    BY DEF Row
  <2> QED
    BY <2>1, <2>2, StartPolicy DEF Ops
<1>5. CASE CloseStream(h)
  <2>1. PICK a \in Users, s \in Streams :
          /\ Start(h, "close", a, NoId, [stream |-> s, user |-> a, admin |-> TRUE])
          /\ UNCHANGED taken
    BY <1>5 DEF CloseStream
  <2>2. [stream |-> s, user |-> a, admin |-> TRUE] \in Row
    BY DEF Row
  <2> QED
    BY <2>1, <2>2, StartPolicy DEF Ops
<1> QED
  BY <1>1, <1>2, <1>3, <1>4, <1>5 DEF Request

LEMMA WritePolicy ==
    ASSUME PInv, NEW h \in Handlers,
           InsertMember(h) \/ UpdateMember(h) \/ DeleteStream(h)
    PROVE  CrossInv' /\ MentionInv' /\ PolicyInv'
<1>1. pc[h] = "write" /\ UNCHANGED <<rows, policy>>
  BY DEF InsertMember, UpdateMember, DeleteStream
<1>2. CASE Answer(h) /\ UNCHANGED doubtful
  BY <1>1, <1>2, LeavePolicy
<1>3. CASE Goto(h, "policy") /\ UNCHANGED <<request, plan, history>>
  BY <1>1, <1>3, AdvancePolicy
<1>4. CASE Goto(h, "commit") /\ op[h] = "close" /\ UNCHANGED <<request, plan, history>>
  BY <1>1, <1>4, AdvancePolicy
<1> QED
  BY <1>2, <1>3, <1>4 DEF InsertMember, UpdateMember, DeleteStream

\* While no request about a user runs, the user's policy is that of the user's
\* rows, unless requests about the user ran together or a commit failed, and
\* none has run alone since.
THEOREM PoliciesKept == Spec => []PolicyMatches
<1>1. Init => PInv
  BY InitInv DEF Init, PInv, CrossInv, MentionInv, PolicyInv, Concerns, Busy,
                 Mentions, Matches, Holds
<1>2. PInv /\ [Next]_vars => PInv'
  <2> SUFFICES ASSUME PInv, [Next]_vars PROVE PInv'
    OBVIOUS
  <2>1. IInv'
    BY RequestInv, StepInv, StutterInv DEF Next, PInv
  <2>2. ASSUME NEW h \in Handlers, Fail(h)
        PROVE  CrossInv' /\ MentionInv' /\ PolicyInv'
    BY <2>2, LeavePolicy DEF Fail, Concerns
  <2>3. ASSUME UNCHANGED vars
        PROVE  CrossInv' /\ MentionInv' /\ PolicyInv'
    <3> USE <2>3 DEF vars, rows, request, history, PInv
    <3>1. CrossInv'
      BY DEF CrossInv, Concerns, Busy
    <3>2. MentionInv'
      BY DEF MentionInv, Mentions
    <3>3. /\ \A h \in Handlers : Concerns(h)' <=> Concerns(h)
          /\ \A h \in Handlers : Seen(h)' = Seen(h) /\ Scope(h)' = Scope(h)
      BY DEF Concerns, Busy, Seen, Scope, After
    <3>4. PolicyInv'
      BY <3>3 DEF PolicyInv, Matches, Holds
    <3> QED
      BY <3>1, <3>2, <3>4
  <2>4. ASSUME NEW h \in Handlers, Step(h)
        PROVE  CrossInv' /\ MentionInv' /\ PolicyInv'
    <3>1. CASE InsertMember(h) \/ UpdateMember(h) \/ DeleteStream(h)
      BY <3>1, WritePolicy
    <3>2. CASE GetPolicy(h)
      BY <3>2, GetPolicyMatches
    <3>3. CASE UpdateVaultPolicy(h)
      BY <3>3, UpdateVaultPolicyMatches
    <3>4. CASE CommitMember(h)
      BY <3>4, CommitMemberPolicy
    <3>5. CASE CommitClose(h)
      BY <3>5, CommitClosePolicy
    <3> QED
      BY <2>4, <3>1, <3>2, <3>3, <3>4, <3>5 DEF Step
  <2>5. CrossInv' /\ MentionInv' /\ PolicyInv'
    BY <2>2, <2>3, <2>4, RequestPolicy DEF Next
  <2> QED
    BY <2>1, <2>5 DEF PInv
<1> QED
  BY <1>1, <1>2, PolicyInvMatches, PTL DEF Spec
=============================================================================
