------------------------ MODULE SecretContentsProofs ------------------------
(***************************************************************************)
(* Proofs about module SecretContents: types, and that the content of a    *)
(* record is where its flag says and is the one given last, for any number *)
(* of requests, records and contents, and whichever calls fail.            *)
(***************************************************************************)
EXTENDS SecretContents, TLAPS

\* Row r, entry v of Vault and the content l that was given last fit together.
Agrees(r, v, l) ==
    IF r = NoRow THEN v = Null
    ELSE /\ l \in Contents /\ r.isBinary = IsBinary(l)
         /\ IF r.secret THEN r.content = Null /\ v = l
                        ELSE r.content = l /\ v = Null

\* What the request of h is going to leave of its record, when it meets no other:
\* row, entry and content.
Written(h) == CASE op[h] = "remove" -> NoRow
                [] pc[h] = "write" /\ op[h] = "create" -> data[h]
                [] pc[h] = "write" /\ op[h] = "patch" -> Overlay(db[id[h]], data[h])
                [] OTHER -> row[h]

EntryFor(h, r) ==
    IF pc[h] = "commit" THEN vault[id[h]]
    ELSE IF op[h] = "remove" \/ (op[h] = "patch" /\ ~ r.secret) THEN Null
    ELSE IF secretContent[h] = Absent THEN vault[id[h]] ELSE secretContent[h]

LastBy(h) == IF asked[h].content = Absent THEN last[id[h]] ELSE asked[h].content

Right(h) == Agrees(Written(h), EntryFor(h, Written(h)), LastBy(h))

\* A request that gives the whole record does not depend on what was there.
Whole(h) == op[h] # "patch" \/ (asked[h].secret # Absent /\ asked[h].content # Absent)

Ready(h) ==
    /\ pc[h] \in {"write", "vault", "commit"} /\ h \notin crossed
    /\ pc[h] = "write" /\ op[h] = "patch" => db[id[h]] # NoRow
    /\ Whole(h) \/ id[h] \notin doubtful

Context(h) ==
    /\ pc[h] = "idle" => h \notin crossed
    /\ pc[h] # "idle" =>
        /\ id[h] \in Items /\ id[h] \in used
        /\ op[h] \in {"create", "patch", "remove"}
        /\ asked[h].content # Null
        /\ asked[h].isBinary =
             IF asked[h].content = Absent THEN Absent ELSE IsBinary(asked[h].content)
        /\ op[h] = "create" => data[h] \in Row /\ db[id[h]] = NoRow
        /\ op[h] = "create" /\ pc[h] # "commit" => vault[id[h]] = Null
        /\ pc[h] \in {"read", "fetch"} =>
             op[h] = "patch" /\ ~ (asked[h].content = Absent <=> asked[h].secret = Absent)
        /\ pc[h] = "fetch" /\ id[h] \notin doubtful =>
             db[id[h]] # NoRow /\ db[id[h]].secret
        /\ pc[h] \in {"vault", "commit"} => row[h] \in Row
        /\ h \in crossed => id[h] \in doubtful
        /\ Ready(h) => Right(h)

\* Two requests about one record know that they have met, and none creates it.
Apart == \A g, h \in Handlers :
    g # h /\ pc[g] # "idle" /\ pc[h] # "idle" /\ id[g] = id[h] =>
        g \in crossed /\ op[g] # "create"

Fresh == \A i \in Items : i \notin used => db[i] = NoRow /\ vault[i] = Null

Committing(i) == \E h \in Handlers : id[h] = i /\ pc[h] = "commit"

Rest == \A i \in Items \ doubtful : ~ Committing(i) => Agrees(db[i], vault[i], last[i])

ContextInv == \A h \in Handlers : Context(h)
IInv == TypeOK /\ ContextInv /\ Apart /\ Fresh /\ Rest

-----------------------------------------------------------------------------
\* Rows and fields.
LEMMA OverlayType == ASSUME NEW r \in Row, NEW d \in Data PROVE Overlay(r, d) \in Row
  BY ConstantsAssumption DEF Overlay, Row, Data

LEMMA OverlayFields ==
    ASSUME NEW r \in Row, NEW d \in Data
    PROVE  /\ Overlay(r, d).secret = IF d.secret = Absent THEN r.secret ELSE d.secret
           /\ Overlay(r, d).content = IF d.content = Absent THEN r.content ELSE d.content
           /\ Overlay(r, d).isBinary =
                IF d.isBinary = Absent THEN r.isBinary ELSE d.isBinary
  BY ConstantsAssumption DEF Overlay, Row, Data

\* What processContent leaves of an item, and what is for Vault.
LEMMA ProcessFields ==
    ASSUME NEW d \in Data, d.secret \in BOOLEAN, d.content \in Contents
    PROVE  /\ ProcessContent(d) \in Data
           /\ ProcessContent(d).secret = d.secret
           /\ ProcessContent(d).isBinary = d.isBinary
           /\ ProcessContent(d).content = (IF d.secret THEN Null ELSE d.content)
           /\ ForVault(d) = (IF d.secret THEN d.content ELSE Absent)
           /\ ForVault(d) \in Contents \cup {Absent}
  BY ConstantsAssumption DEF ProcessContent, Data, ForVault

\* What a request may give.
LEMMA RequestFields ==
    ASSUME NEW i \in Items, NEW r \in Requests(i)
    PROVE  /\ r \in Data /\ r.content # Null
           /\ r.isBinary = IF r.content = Absent THEN Absent ELSE IsBinary(r.content)
<1>1. PICK s \in BOOLEAN \cup {Absent}, c \in Contents \cup {Absent} :
        r = [secret |-> s, content |-> c,
             isBinary |-> IF c = Absent THEN Absent ELSE IsBinary(c)]
  BY DEF Requests, Contents
<1>2. IsBinary(c) \in BOOLEAN
  BY DEF IsBinary
<1>3. (IF c = Absent THEN Absent ELSE IsBinary(c)) \in BOOLEAN \cup {Absent}
  BY <1>2
<1>4. c # Null
  BY ConstantsAssumption
<1>5. r.isBinary = IF c = Absent THEN Absent ELSE IsBinary(c)
  BY <1>1
<1>6. r.content = c /\ r.secret = s
  BY <1>1
<1>7. r \in Data
  BY <1>1, <1>3 DEF Data
<1> QED
  BY <1>4, <1>5, <1>6, <1>7

-----------------------------------------------------------------------------
\* What a PATCH writes agrees with the rest of the record: when it gives all ...
LEMMA WholeAgrees ==
    ASSUME NEW r \in Row, NEW a \in Data, NEW v, a.content \in Contents,
           a.secret \in BOOLEAN, a.isBinary = IsBinary(a.content),
           NEW new, new = Overlay(r, ProcessContent(a)), NEW sc, sc = ForVault(a)
    PROVE  Agrees(new, IF ~ new.secret THEN Null ELSE IF sc = Absent THEN v ELSE sc,
                  a.content)
<1>5. IsBinary(a.content) \in BOOLEAN
  BY DEF IsBinary
<1>6. a.isBinary \in BOOLEAN
  BY <1>5
<1>1. a.content # Absent /\ Null # Absent /\ a.secret # Absent /\ a.isBinary # Absent
  BY <1>6, ConstantsAssumption
<1>2. /\ new \in Row /\ new.secret = a.secret /\ new.isBinary = a.isBinary
      /\ new.content = IF a.secret THEN Null ELSE a.content
      /\ sc = IF a.secret THEN a.content ELSE Absent
  BY <1>1, ProcessFields, OverlayFields, OverlayType
<1>3. new # NoRow
  BY <1>2, ConstantsAssumption
<1> QED
  BY <1>1, <1>2, <1>3 DEF Agrees

\* ... when it gives nothing, or the flag that the record has ...
LEMMA SameAgrees ==
    ASSUME NEW r \in Row, NEW a \in Data, NEW v, NEW l, Agrees(r, v, l),
           a.content = Absent, a.isBinary = Absent, a.secret \in {Absent, r.secret},
           NEW new, new = Overlay(r, a)
    PROVE  Agrees(new, IF ~ new.secret THEN Null ELSE v, l)
<1>1. /\ new \in Row /\ new.secret = r.secret /\ new.isBinary = r.isBinary
      /\ new.content = r.content
  BY OverlayFields, OverlayType
<1>2. new # NoRow /\ r # NoRow
  BY <1>1, ConstantsAssumption
<1> QED
  BY <1>1, <1>2 DEF Agrees

\* ... when it gives a content and the flag is the one that was read ...
LEMMA ContentAgrees ==
    ASSUME NEW r \in Row, NEW a \in Data, NEW v, a.content \in Contents,
           a.isBinary = IsBinary(a.content),
           NEW item, item = [a EXCEPT !.secret = r.secret],
           NEW new, new = Overlay(r, ProcessContent(item)), NEW sc, sc = ForVault(item)
    PROVE  Agrees(new, IF ~ new.secret THEN Null ELSE IF sc = Absent THEN v ELSE sc,
                  a.content)
<1>1. r.secret \in BOOLEAN
  BY DEF Row
<1>2. /\ item \in Data /\ item.secret = r.secret /\ item.content = a.content
      /\ item.isBinary = a.isBinary
  BY <1>1 DEF Data
<1> QED
  BY <1>1, <1>2, WholeAgrees

\* ... and when it turns the flag, and the content is the one that was read.
LEMMA FlagAgrees ==
    ASSUME NEW r \in Row, NEW a \in Data, NEW v, NEW l, Agrees(r, v, l),
           a.content = Absent, a.isBinary = Absent, a.secret \in BOOLEAN,
           NEW item, item = [a EXCEPT !.content = l],
           NEW new, new = Overlay(r, ProcessContent(item)), NEW sc, sc = ForVault(item)
    PROVE  Agrees(new, IF ~ new.secret THEN Null ELSE IF sc = Absent THEN v ELSE sc, l)
<1>1. r # NoRow /\ l \in Contents /\ r.isBinary = IsBinary(l) /\ l # Absent
      /\ Null # Absent /\ a.secret # Absent
  BY ConstantsAssumption DEF Agrees
<1>2. /\ item \in Data /\ item.secret = a.secret /\ item.content = l
      /\ item.isBinary = Absent
  BY <1>1 DEF Data
<1>3. /\ new \in Row /\ new.secret = a.secret /\ new.isBinary = r.isBinary
      /\ new.content = IF a.secret THEN Null ELSE l
      /\ sc = IF a.secret THEN l ELSE Absent
  <2>1. /\ ProcessContent(item) \in Data /\ ProcessContent(item).secret = a.secret
        /\ ProcessContent(item).isBinary = Absent
        /\ ProcessContent(item).content = IF a.secret THEN Null ELSE l
        /\ ForVault(item) = IF a.secret THEN l ELSE Absent
    <3>1. item \in Data /\ item.secret \in BOOLEAN /\ item.content \in Contents
      BY <1>1, <1>2
    <3>2. /\ ProcessContent(item) \in Data
          /\ ProcessContent(item).secret = item.secret
          /\ ProcessContent(item).isBinary = item.isBinary
          /\ ProcessContent(item).content = (IF item.secret THEN Null ELSE item.content)
          /\ ForVault(item) = (IF item.secret THEN item.content ELSE Absent)
      BY <3>1, ProcessFields
    <3> QED
      BY <1>2, <3>2
  <2>2. PICK d \in Data : d = ProcessContent(item)
    BY <2>1
  <2>3. /\ d.secret = a.secret /\ d.isBinary = Absent
        /\ d.content = (IF a.secret THEN Null ELSE l) /\ d.content # Absent
    BY <1>1, <2>1, <2>2
  <2>4. new = Overlay(r, d)
    BY <2>2
  <2>5. new \in Row /\ new.secret = a.secret /\ new.isBinary = r.isBinary
    BY <1>1, <2>3, <2>4, OverlayFields, OverlayType
  <2>6. new.content = IF a.secret THEN Null ELSE l
    BY <2>3, <2>4, OverlayFields
  <2> QED
    BY <2>1, <2>5, <2>6
<1>4. new # NoRow
  BY <1>3, ConstantsAssumption
<1> QED
  BY <1>1, <1>3, <1>4 DEF Agrees

-----------------------------------------------------------------------------
\* Nothing about the request of g changes.
Same(g) == /\ pc'[g] = pc[g] /\ op'[g] = op[g] /\ id'[g] = id[g] /\ asked'[g] = asked[g]
           /\ data'[g] = data[g] /\ secretContent'[g] = secretContent[g]
           /\ row'[g] = row[g]

LEMMA RightSame ==
    ASSUME NEW g \in Handlers, Same(g), db'[id[g]] = db[id[g]],
           vault'[id[g]] = vault[id[g]], last'[id[g]] = last[id[g]], Right(g)
    PROVE  Right(g)'
<1>1. Written(g)' = Written(g)
  BY DEF Written, Same
<1>2. LastBy(g)' = LastBy(g)
  BY DEF LastBy, Same
<1>3. EntryFor(g, Written(g))' = EntryFor(g, Written(g))
  BY <1>1 DEF EntryFor, Same
<1> QED
  BY <1>1, <1>2, <1>3 DEF Right

\* What a step of h about record i has to do: other records and requests about them do
\* not notice it, and requests about i have met h.
LEMMA Frame ==
    ASSUME IInv, TypeOK', NEW h \in Handlers, NEW i \in Items,
           \A g \in Handlers \ {h} : Same(g),
           \A j \in Items \ {i} :
             /\ db'[j] = db[j] /\ vault'[j] = vault[j] /\ last'[j] = last[j]
             /\ j \in doubtful' <=> j \in doubtful,
           used \subseteq used', used' \subseteq used \cup {i},
           \A g \in Handlers \ {h} : pc[g] # "idle" /\ id[g] = i =>
             /\ g \in crossed' /\ i \in doubtful' /\ op[g] # "create"
             /\ pc'[h] # "idle" => h \in crossed' /\ op'[h] # "create",
           \A g \in Handlers \ {h} :
             ~ (pc[g] # "idle" /\ id[g] = i) => (g \in crossed' <=> g \in crossed),
           pc[h] = "commit" => id[h] = i,
           pc'[h] # "idle" => id'[h] = i,
           Context(h)',
           i \notin used' => db'[i] = NoRow /\ vault'[i] = Null,
           i \notin doubtful' /\ ~ Committing(i)' => Agrees(db[i], vault[i], last[i])'
    PROVE  IInv'
<1>1. TypeOK /\ ContextInv /\ Apart /\ Fresh /\ Rest
  BY DEF IInv
<1>2. ASSUME NEW g \in Handlers, g # h PROVE Context(g)'
  <2>1. Same(g) /\ Context(g)
    BY <1>1, <1>2 DEF ContextInv
  <2>2. CASE pc[g] = "idle"
    BY <1>2, <2>1, <2>2 DEF Context, Same
  <2>3. CASE pc[g] # "idle" /\ id[g] = i
    <3>1. g \in crossed' /\ i \in doubtful' /\ op[g] # "create"
      BY <1>2, <2>3
    <3>2. ~ Ready(g)'
      BY <3>1 DEF Ready
    <3> QED
      BY <2>1, <2>3, <3>1, <3>2 DEF Context, Same
  <2>4. CASE pc[g] # "idle" /\ id[g] # i
    <3>1. PICK j \in Items \ {i} : j = id[g]
      BY <2>1, <2>4 DEF Context
    <3>2. /\ db'[j] = db[j] /\ vault'[j] = vault[j] /\ last'[j] = last[j]
          /\ j \in doubtful' <=> j \in doubtful
      OBVIOUS
    <3>3. g \in crossed' <=> g \in crossed
      BY <1>2, <2>4
    <3>4. Ready(g)' => Ready(g)
      BY <2>1, <3>1, <3>2, <3>3 DEF Ready, Same, Whole
    <3>5. Right(g) => Right(g)'
      BY <2>1, <3>1, <3>2, RightSame
    <3> QED
      BY <2>1, <2>4, <3>1, <3>2, <3>3, <3>4, <3>5 DEF Context, Same
  <2> QED
    BY <2>2, <2>3, <2>4
<1>3. ContextInv'
  BY <1>2 DEF ContextInv
<1>4. Apart'
  <2> SUFFICES ASSUME NEW f \in Handlers, NEW g \in Handlers, f # g, pc'[f] # "idle",
                      pc'[g] # "idle", id'[f] = id'[g]
               PROVE  f \in crossed' /\ op'[f] # "create"
    BY DEF Apart
  <2>1. CASE f = h
    <3>1. Same(g) /\ id'[h] = i
      BY <2>1
    <3> QED
      BY <2>1, <3>1 DEF Same
  <2>2. CASE g = h
    <3>1. Same(f) /\ id'[h] = i
      BY <2>2
    <3> QED
      BY <2>2, <3>1 DEF Same
  <2>3. CASE f # h /\ g # h
    <3>1. Same(f) /\ Same(g)
      BY <2>3
    <3>2. f \in crossed /\ op[f] # "create"
      BY <1>1, <3>1 DEF Apart, Same
    <3> QED
      BY <2>3, <3>1, <3>2 DEF Same
  <2> QED
    BY <2>1, <2>2, <2>3
<1>5. Fresh'
  BY <1>1 DEF Fresh
<1>6. Rest'
  <2> SUFFICES ASSUME NEW j \in Items, j \notin doubtful', ~ Committing(j)'
               PROVE  Agrees(db[j], vault[j], last[j])'
    BY DEF Rest
  <2>1. CASE j = i
    BY <2>1
  <2>2. CASE j # i
    <3>1. ~ Committing(j)
      BY <2>2 DEF Committing, Same
    <3>2. Agrees(db[j], vault[j], last[j])
      BY <1>1, <2>2, <3>1 DEF Rest
    <3> QED
      BY <2>2, <3>2
  <2> QED
    BY <2>1, <2>2
<1> QED
  BY <1>3, <1>4, <1>5, <1>6 DEF IInv

\* Nobody else is about the record of a request that has met nobody.
LEMMA Alone ==
    ASSUME IInv, NEW h \in Handlers, pc[h] # "idle", h \notin crossed
    PROVE  \A g \in Handlers \ {h} : ~ (pc[g] # "idle" /\ id[g] = id[h])
  BY DEF IInv, Apart

\* A request about the record of h has met h.
LEMMA Others ==
    ASSUME IInv, NEW h \in Handlers, pc[h] # "idle", NEW g \in Handlers \ {h},
           pc[g] # "idle", id[g] = id[h]
    PROVE  /\ g \in crossed /\ h \in crossed /\ id[h] \in doubtful
           /\ op[g] # "create" /\ op[h] # "create"
  BY DEF IInv, Apart, ContextInv, Context

\* An answer without a commit.
LEMMA AnswerStep ==
    ASSUME IInv, NEW h \in Handlers, pc[h] # "idle", Answer(h),
           UNCHANGED <<db, vault, used, last>>,
           doubtful' = doubtful \cup {i \in {id[h]} : pc[h] = "commit"}
    PROVE  IInv'
<1>1. TypeOK /\ ContextInv /\ Apart /\ Fresh /\ Rest
  BY DEF IInv
<1>2. PICK i \in Items : i = id[h]
  BY <1>1 DEF ContextInv, Context
<1>3. /\ pc'[h] = "idle" /\ h \notin crossed'
      /\ \A g \in Handlers \ {h} : Same(g) /\ (g \in crossed' <=> g \in crossed)
  BY <1>1 DEF Answer, Goto, Same, TypeOK
<1>4. Nothing \in Data
  BY DEF Nothing, Data
<1>5. TypeOK'
  BY <1>1, <1>2, <1>4 DEF TypeOK, Answer, Goto, PCs, Ops
<1>6. Context(h)'
  BY <1>3 DEF Context
<1>7. ASSUME NEW g \in Handlers \ {h}, pc[g] # "idle", id[g] = i
      PROVE  g \in crossed' /\ i \in doubtful' /\ op[g] # "create"
  BY <1>2, <1>3, <1>7, Others
<1>8. ASSUME i \notin doubtful', ~ Committing(i)' PROVE Agrees(db[i], vault[i], last[i])'
  <2>1. i \notin doubtful /\ pc[h] # "commit"
    BY <1>2, <1>8
  <2>2. ~ Committing(i)
    BY <1>2, <1>3, <1>8, <2>1 DEF Committing, Same
  <2> QED
    BY <1>1, <2>1, <2>2 DEF Rest
<1>9. i \in used
  BY <1>1, <1>2 DEF ContextInv, Context
<1>10. \A j \in Items \ {i} : j \in doubtful' <=> j \in doubtful
  BY <1>2
<1> QED
  BY <1>2, <1>3, <1>5, <1>6, <1>7, <1>8, <1>9, <1>10, Frame

-----------------------------------------------------------------------------
\* A record that nobody is about agrees, unless it is doubtful.
LEMMA Quiet ==
    ASSUME IInv, NEW i \in Items, i \notin doubtful,
           \A g \in Handlers : pc[g] # "idle" => id[g] # i
    PROVE  Agrees(db[i], vault[i], last[i])
  BY DEF IInv, Rest, Committing

\* What the request is going to leave, with what there is of record i.
Leaves(i, o, d, sc, l) ==
    LET new == IF o = "create" THEN d ELSE Overlay(db[i], d)
    IN  Agrees(new,
               IF o = "patch" /\ ~ new.secret THEN Null
               ELSE IF sc = Absent THEN vault[i] ELSE sc,
               l)

\* Request o about i with the fields r begins: h goes to l, with d to write and sc for
\* Vault, which are right, if it writes at once and meets nobody.
Begins(h, i, o, r, l, d, sc) ==
    /\ Start(h, o, i, r) /\ Goto(h, l) /\ used' = used \cup {i}
    /\ data' = [data EXCEPT ![h] = d]
    /\ secretContent' = [secretContent EXCEPT ![h] = sc]
    /\ r.content # Null
    /\ r.isBinary = IF r.content = Absent THEN Absent ELSE IsBinary(r.content)
    /\ o = "create" => i \notin used /\ d \in Row
    /\ o # "create" => db[i] # NoRow
    /\ l = "read" => o = "patch" /\ ~ (r.content = Absent <=> r.secret = Absent)
    /\ l = "write" /\ o # "remove" /\ About(i) = {}
       /\ (i \notin doubtful \/ o # "patch" \/ (r.secret # Absent /\ r.content # Absent))
         => Leaves(i, o, d, sc, IF r.content = Absent THEN last[i] ELSE r.content)

LEMMA StartStep ==
    ASSUME IInv, NEW h \in Handlers, NEW i \in Items,
           NEW o \in {"create", "patch", "remove"}, NEW r \in Data,
           NEW l \in {"read", "write"}, NEW d \in Data, NEW sc \in Contents \cup {Absent},
           Begins(h, i, o, r, l, d, sc)
    PROVE  IInv'
<1>0. /\ Start(h, o, i, r) /\ Goto(h, l) /\ used' = used \cup {i}
      /\ data' = [data EXCEPT ![h] = d]
      /\ secretContent' = [secretContent EXCEPT ![h] = sc]
      /\ r.content # Null
      /\ r.isBinary = IF r.content = Absent THEN Absent ELSE IsBinary(r.content)
      /\ o = "create" => i \notin used /\ d \in Row
      /\ o # "create" => db[i] # NoRow
      /\ l = "read" => o = "patch" /\ ~ (r.content = Absent <=> r.secret = Absent)
      /\ l = "write" /\ o # "remove" /\ About(i) = {}
         /\ (i \notin doubtful \/ o # "patch" \/ (r.secret # Absent /\ r.content # Absent))
           => Leaves(i, o, d, sc, IF r.content = Absent THEN last[i] ELSE r.content)
  BY DEF Begins
<1> USE <1>0
<1>1. TypeOK /\ ContextInv /\ Apart /\ Fresh /\ Rest
  BY DEF IInv
<1>2. /\ pc[h] = "idle" /\ pc'[h] = l /\ op'[h] = o /\ id'[h] = i /\ asked'[h] = r
      /\ data'[h] = d /\ secretContent'[h] = sc
      /\ UNCHANGED <<db, vault, row, last>>
      /\ \A g \in Handlers \ {h} : Same(g)
      /\ crossed' = crossed \cup About(i) \cup {g \in {h} : About(i) # {}}
      /\ doubtful' = doubtful \cup {j \in {i} : About(i) # {}}
  BY <1>1 DEF Start, Goto, Same, TypeOK
<1>3. h \notin crossed /\ h \notin About(i)
  BY <1>1, <1>2 DEF ContextInv, Context, About
<1>4. TypeOK'
  BY <1>1, <1>2 DEF TypeOK, Start, Goto, PCs, Ops, About
<1>5. ASSUME NEW g \in Handlers \ {h}, pc[g] # "idle", id[g] = i
      PROVE  /\ g \in crossed' /\ h \in crossed' /\ i \in doubtful'
             /\ op[g] # "create" /\ o # "create"
  <2>1. g \in About(i) /\ i \in used
    BY <1>1, <1>5 DEF About, ContextInv, Context
  <2>2. o # "create" /\ db[i] # NoRow
    BY <2>1
  <2>3. op[g] # "create"
    BY <1>1, <1>5, <2>2 DEF ContextInv, Context
  <2> QED
    BY <1>2, <2>1, <2>2, <2>3
<1>6. \A g \in Handlers \ {h} :
         ~ (pc[g] # "idle" /\ id[g] = i) => (g \in crossed' <=> g \in crossed)
  BY <1>2 DEF About
<1>7. Ready(h)' => Right(h)'
  <2> SUFFICES ASSUME Ready(h)' PROVE Right(h)'
    OBVIOUS
  <2>1. h \notin crossed' /\ l = "write"
    BY <1>2 DEF Ready
  <2>2. About(i) = {}
    BY <1>2, <2>1
  <2>3. i \notin doubtful \/ o # "patch" \/ (r.secret # Absent /\ r.content # Absent)
    BY <1>2 DEF Ready, Whole
  <2>4. LastBy(h)' = IF r.content = Absent THEN last[i] ELSE r.content
    BY <1>2 DEF LastBy
  <2>5. CASE o = "remove"
    <3>1. Written(h)' = NoRow /\ EntryFor(h, Written(h))' = Null
      BY <1>2, <2>1, <2>5 DEF Written, EntryFor
    <3> QED
      BY <3>1 DEF Right, Agrees
  <2>6. CASE o # "remove"
    <3>1. Written(h)' = IF o = "create" THEN d ELSE Overlay(db[i], d)
      BY <1>2, <2>1, <2>6 DEF Written
    <3>2. EntryFor(h, Written(h))' =
            IF o = "patch" /\ ~ Written(h)'.secret THEN Null
            ELSE IF sc = Absent THEN vault[i] ELSE sc
      BY <1>2, <2>1, <2>6 DEF EntryFor
    <3>3. Leaves(i, o, d, sc, LastBy(h)')
      BY <2>1, <2>2, <2>3, <2>4, <2>6
    <3> QED
      BY <3>1, <3>2, <3>3 DEF Right, Leaves
  <2> QED
    BY <2>5, <2>6
<1>8. Context(h)'
  <2>1. o = "create" => db[i] = NoRow /\ vault[i] = Null
    BY <1>1 DEF Fresh
  <2>2. h \in crossed' => i \in doubtful'
    BY <1>2, <1>3
  <2> QED
    BY <1>2, <1>7, <2>1, <2>2 DEF Context
<1>9. ASSUME i \notin doubtful', ~ Committing(i)' PROVE Agrees(db[i], vault[i], last[i])'
  <2>1. i \notin doubtful
    BY <1>2, <1>9
  <2>2. ~ Committing(i)
    BY <1>2, <1>9 DEF Committing, Same
  <2> QED
    BY <1>1, <1>2, <2>1, <2>2 DEF Rest
<1>10. \A j \in Items \ {i} : j \in doubtful' <=> j \in doubtful
  BY <1>2
<1> QED
  BY <1>2, <1>4, <1>5, <1>6, <1>8, <1>9, <1>10, Frame

\* A record that nobody had.
LEMMA CreateStep ==
    ASSUME IInv, NEW h \in Handlers, NEW i \in Items, Create(h, i) PROVE IInv'
<1>1. PICK r \in Requests(i) :
        /\ r.content # Absent /\ r.secret # Absent
        /\ i \notin used /\ used' = used \cup {i}
        /\ Start(h, "create", i, r)
        /\ data' = [data EXCEPT ![h] = ProcessContent(r)]
        /\ secretContent' = [secretContent EXCEPT ![h] = ForVault(r)]
        /\ Goto(h, "write")
  BY DEF Create
<1>2. /\ r \in Data /\ r.content # Null /\ r.isBinary = IsBinary(r.content)
      /\ r.content \in Contents /\ r.secret \in BOOLEAN
  <2>1. /\ r \in Data /\ r.content # Null
        /\ r.isBinary = IF r.content = Absent THEN Absent ELSE IsBinary(r.content)
    BY RequestFields
  <2> QED
    BY <1>1, <2>1 DEF Data
<1>3. PICK d \in Data : d = ProcessContent(r)
  BY <1>2, ProcessFields
<1>4. PICK sc \in Contents \cup {Absent} : sc = ForVault(r)
  BY <1>2, ProcessFields
<1>5. /\ d.secret = r.secret /\ d.isBinary = r.isBinary
      /\ d.content = (IF r.secret THEN Null ELSE r.content)
      /\ sc = (IF r.secret THEN r.content ELSE Absent)
  BY <1>2, <1>3, <1>4, ProcessFields
<1>6. d \in Row
  <2>1. IsBinary(r.content) \in BOOLEAN
    BY DEF IsBinary
  <2>2. d.isBinary \in BOOLEAN
    BY <1>2, <1>5, <2>1
  <2> QED
    BY <1>2, <1>5, <2>2 DEF Data, Row
<1>7. vault[i] = Null
  BY <1>1 DEF IInv, Fresh
<1>8. d # NoRow
  BY <1>6, ConstantsAssumption
<1>9. Leaves(i, "create", d, sc, r.content)
  <2>1. CASE r.secret
    BY <1>2, <1>5, <1>8, <2>1, ConstantsAssumption DEF Leaves, Agrees
  <2>2. CASE ~ r.secret
    BY <1>2, <1>5, <1>7, <1>8, <2>2 DEF Leaves, Agrees
  <2> QED
    BY <2>1, <2>2
<1>10. /\ data' = [data EXCEPT ![h] = d] /\ secretContent' = [secretContent EXCEPT ![h] = sc]
       /\ r.isBinary = (IF r.content = Absent THEN Absent ELSE IsBinary(r.content))
       /\ (IF r.content = Absent THEN last[i] ELSE r.content) = r.content
  BY <1>1, <1>2, <1>3, <1>4
<1>11. Begins(h, i, "create", r, "write", d, sc)
  BY <1>1, <1>2, <1>6, <1>9, <1>10 DEF Begins
<1> QED
  BY <1>2, <1>11, StartStep

\* A PATCH that needs no current value, or reads it first.
LEMMA PatchStep ==
    ASSUME IInv, NEW h \in Handlers, Patch(h) PROVE IInv'
<1>0. PICK i \in Items : \E r \in Requests(i) :
        /\ db[i] # NoRow
        /\ Start(h, "patch", i, r)
        /\ UNCHANGED used
        /\ IF (r.content = Absent) = (r.secret = Absent)
           THEN /\ data' = [data EXCEPT ![h] =
                     IF r.content = Absent THEN r ELSE ProcessContent(r)]
                /\ secretContent' = [secretContent EXCEPT ![h] =
                     IF r.content = Absent THEN Absent ELSE ForVault(r)]
                /\ Goto(h, "write")
           ELSE Goto(h, "read") /\ UNCHANGED <<data, secretContent>>
  BY DEF Patch
<1>1. PICK r \in Requests(i) :
        /\ db[i] # NoRow
        /\ Start(h, "patch", i, r)
        /\ UNCHANGED used
        /\ IF (r.content = Absent) = (r.secret = Absent)
           THEN /\ data' = [data EXCEPT ![h] =
                     IF r.content = Absent THEN r ELSE ProcessContent(r)]
                /\ secretContent' = [secretContent EXCEPT ![h] =
                     IF r.content = Absent THEN Absent ELSE ForVault(r)]
                /\ Goto(h, "write")
           ELSE Goto(h, "read") /\ UNCHANGED <<data, secretContent>>
  BY <1>0
<1>2. /\ r \in Data /\ r.content # Null
      /\ r.isBinary = (IF r.content = Absent THEN Absent ELSE IsBinary(r.content))
  BY RequestFields
<1>3. /\ db[i] \in Row /\ i \in used /\ used' = used \cup {i}
  BY <1>1 DEF IInv, TypeOK, Fresh
<1>4. CASE ~ (r.content = Absent <=> r.secret = Absent)
  <2>1. Goto(h, "read") /\ UNCHANGED <<data, secretContent>>
    BY <1>1, <1>4
  <2>2. PICK d \in Data : d = data[h]
    BY DEF IInv, TypeOK
  <2>3. PICK sc \in Contents \cup {Absent} : sc = secretContent[h]
    BY DEF IInv, TypeOK
  <2>4. /\ data' = [data EXCEPT ![h] = d]
        /\ secretContent' = [secretContent EXCEPT ![h] = sc]
    BY <2>1, <2>2, <2>3 DEF IInv, TypeOK
  <2>5. Begins(h, i, "patch", r, "read", d, sc)
    BY <1>1, <1>2, <1>3, <1>4, <2>1, <2>4 DEF Begins
  <2> QED
    BY <1>2, <2>5, StartStep
<1>5. CASE r.content = Absent /\ r.secret = Absent
  <2>1. /\ data' = [data EXCEPT ![h] = r] /\ Goto(h, "write")
        /\ secretContent' = [secretContent EXCEPT ![h] = Absent]
    BY <1>1, <1>5
  <2>2. ASSUME About(i) = {}, i \notin doubtful PROVE Leaves(i, "patch", r, Absent, last[i])
    <3>1. Agrees(db[i], vault[i], last[i])
      BY <2>2, Quiet DEF About
    <3> QED
      BY <1>2, <1>3, <1>5, <3>1, SameAgrees DEF Leaves
  <2>3. (IF r.content = Absent THEN last[i] ELSE r.content) = last[i]
    BY <1>5
  <2>4. PICK sc \in Contents \cup {Absent} : sc = Absent
    OBVIOUS
  <2>5. Begins(h, i, "patch", r, "write", r, sc)
    BY <1>1, <1>2, <1>3, <1>5, <2>1, <2>2, <2>3, <2>4 DEF Begins
  <2> QED
    BY <1>2, <2>5, StartStep
<1>6. CASE r.content # Absent /\ r.secret # Absent
  <2>1. r.content \in Contents /\ r.secret \in BOOLEAN
    BY <1>2, <1>6 DEF Data
  <2>2. PICK d \in Data : d = ProcessContent(r)
    BY <1>2, <2>1, ProcessFields
  <2>3. PICK sc \in Contents \cup {Absent} : sc = ForVault(r)
    BY <1>2, <2>1, ProcessFields
  <2>4. /\ data' = [data EXCEPT ![h] = d] /\ Goto(h, "write")
        /\ secretContent' = [secretContent EXCEPT ![h] = sc]
    BY <1>1, <1>6, <2>2, <2>3
  <2>5. Leaves(i, "patch", d, sc, r.content)
    <3>1. r.isBinary = IsBinary(r.content)
      BY <1>2, <1>6
    <3> QED
      BY <1>2, <1>3, <2>1, <2>2, <2>3, <3>1, WholeAgrees DEF Leaves
  <2>6. (IF r.content = Absent THEN last[i] ELSE r.content) = r.content
    BY <1>6
  <2>7. Begins(h, i, "patch", r, "write", d, sc)
    BY <1>1, <1>2, <1>3, <1>6, <2>4, <2>5, <2>6 DEF Begins
  <2> QED
    BY <1>2, <2>7, StartStep
<1> QED
  BY <1>4, <1>5, <1>6

LEMMA RemoveStep ==
    ASSUME IInv, NEW h \in Handlers, Remove(h) PROVE IInv'
<1>1. PICK i \in Items :
        /\ db[i] # NoRow
        /\ Start(h, "remove", i, Nothing) /\ Goto(h, "write")
        /\ UNCHANGED <<used, data, secretContent>>
  BY DEF Remove
<1>2. PICK d \in Data : d = data[h]
  BY DEF IInv, TypeOK
<1>3. PICK sc \in Contents \cup {Absent} : sc = secretContent[h]
  BY DEF IInv, TypeOK
<1>4. /\ data' = [data EXCEPT ![h] = d] /\ secretContent' = [secretContent EXCEPT ![h] = sc]
      /\ used' = used \cup {i}
  BY <1>1, <1>2, <1>3 DEF IInv, TypeOK, Fresh
<1>5. PICK r \in Data : r = Nothing
  BY DEF Nothing, Data
<1>6. /\ r.content # Null
      /\ r.isBinary = (IF r.content = Absent THEN Absent ELSE IsBinary(r.content))
  BY <1>5, ConstantsAssumption DEF Nothing
<1>7. Begins(h, i, "remove", r, "write", d, sc)
  BY <1>1, <1>4, <1>5, <1>6 DEF Begins
<1> QED
  BY <1>7, StartStep

-----------------------------------------------------------------------------
\* A step that changes only what h is about to do.
LEMMA OwnStep ==
    ASSUME IInv, TypeOK', NEW h \in Handlers, pc[h] \notin {"idle", "commit"},
           pc'[h] \notin {"idle", "commit"}, id'[h] = id[h], op'[h] = op[h],
           UNCHANGED <<db, vault, used, crossed, doubtful, last>>,
           \A g \in Handlers \ {h} : Same(g), Context(h)'
    PROVE  IInv'
<1>1. TypeOK /\ ContextInv /\ Apart /\ Fresh /\ Rest
  BY DEF IInv
<1>2. PICK i \in Items : i = id[h]
  BY <1>1 DEF ContextInv, Context
<1>3. ASSUME NEW g \in Handlers \ {h}, pc[g] # "idle", id[g] = i
      PROVE  /\ g \in crossed' /\ h \in crossed' /\ i \in doubtful'
             /\ op[g] # "create" /\ op'[h] # "create"
  BY <1>2, <1>3, Others
<1>4. ASSUME i \notin doubtful', ~ Committing(i)' PROVE Agrees(db[i], vault[i], last[i])'
  <2>1. ~ Committing(i)
    BY <1>4 DEF Committing, Same
  <2> QED
    BY <1>1, <1>4, <2>1 DEF Rest
<1>5. i \in used
  BY <1>1, <1>2 DEF ContextInv, Context
<1> QED
  BY <1>2, <1>3, <1>4, <1>5, Frame

\* The rest of a PATCH is worked out from the row that was read, or from Vault.
LEMMA CompleteStep ==
    ASSUME IInv, NEW h \in Handlers, pc[h] \in {"read", "fetch"},
           NEW s \in BOOLEAN, NEW c \in Contents, Complete(h, s, c),
           id[h] \notin doubtful => db[id[h]] # NoRow /\ s = db[id[h]].secret,
           c = IF s THEN vault[id[h]] ELSE db[id[h]].content,
           UNCHANGED <<db, vault, used, op, id, asked, row, history>>
    PROVE  IInv'
<1>1. TypeOK /\ ContextInv /\ Apart /\ Fresh /\ Rest /\ Context(h)
  BY DEF IInv, ContextInv
<1>2. PICK i \in Items : i = id[h]
  BY <1>1 DEF Context
<1>3. PICK a \in Data : a = asked[h]
  BY <1>1 DEF TypeOK
<1>4. /\ a.content # Null /\ ~ (a.content = Absent <=> a.secret = Absent)
      /\ a.isBinary = (IF a.content = Absent THEN Absent ELSE IsBinary(a.content))
      /\ op[h] = "patch" /\ h \in Handlers /\ i \in used /\ pc[h] # "idle"
      /\ h \in crossed => i \in doubtful
  BY <1>1, <1>2, <1>3 DEF Context
<1>6. ASSUME i \notin doubtful
      PROVE  db[i] \in Row /\ Agrees(db[i], vault[i], last[i]) /\ s = db[i].secret
  <2>1. h \notin crossed
    BY <1>4, <1>6
  <2>2. ~ Committing(i)
    BY <1>2, <1>4, <2>1, Alone DEF Committing
  <2> QED
    BY <1>1, <1>2, <1>6, <2>2 DEF Rest, TypeOK
<1> DEFINE item == IF a.content # Absent THEN [a EXCEPT !.secret = s]
                                         ELSE [a EXCEPT !.content = c]
           same == a.content = Absent /\ a.secret = s
<1>7. PICK it \in Data : it = item
  BY DEF Data
<1>8. it.secret \in BOOLEAN /\ it.content \in Contents
  BY <1>4, <1>7 DEF Data
<1>9. PICK d \in Data : d = IF same THEN a ELSE ProcessContent(it)
  BY <1>8, ProcessFields
<1>10. PICK sc \in Contents \cup {Absent} : sc = IF same THEN Absent ELSE ForVault(it)
  BY <1>8, ProcessFields
<1>11. /\ data' = [data EXCEPT ![h] = d] /\ secretContent' = [secretContent EXCEPT ![h] = sc]
       /\ pc' = [pc EXCEPT ![h] = "write"]
  BY <1>3, <1>7, <1>9, <1>10 DEF Complete, Goto
<1>12. /\ pc'[h] = "write" /\ op'[h] = "patch" /\ id'[h] = i /\ asked'[h] = a
       /\ data'[h] = d /\ secretContent'[h] = sc
       /\ \A g \in Handlers \ {h} : Same(g)
  BY <1>1, <1>2, <1>3, <1>4, <1>11 DEF TypeOK, Same
<1>13. TypeOK'
  BY <1>1, <1>11 DEF TypeOK, PCs, history
<1>14. ASSUME i \notin doubtful
       PROVE  Leaves(i, "patch", d, sc, IF a.content = Absent THEN last[i] ELSE a.content)
  <2>9. PICK r \in Row :
          r = db[i] /\ Agrees(r, vault[i], last[i]) /\ s = r.secret
    BY <1>6, <1>14
  <2>1. CASE a.content # Absent
    <3>1. /\ a.content \in Contents /\ a.isBinary = IsBinary(a.content)
          /\ it = [a EXCEPT !.secret = r.secret]
          /\ d = ProcessContent(it) /\ sc = ForVault(it)
      BY <1>4, <2>9, <1>7, <1>9, <1>10, <1>14, <2>1 DEF Data
    <3> QED
      BY <2>9, <2>1, <3>1, ContentAgrees DEF Leaves
  <2>2. CASE a.content = Absent /\ a.secret = s
    <3>1. a.isBinary = Absent /\ d = a /\ sc = Absent /\ a.secret = r.secret
      BY <1>4, <2>9, <1>9, <1>10, <1>14, <2>2
    <3> QED
      BY <2>9, <2>2, <3>1, SameAgrees DEF Leaves
  <2>3. CASE a.content = Absent /\ a.secret # s
    <3>1. c = last[i]
      BY <1>2, <2>9, ConstantsAssumption DEF Agrees
    <3>2. /\ a.isBinary = Absent /\ a.secret \in BOOLEAN /\ it = [a EXCEPT !.content = last[i]]
          /\ d = ProcessContent(it) /\ sc = ForVault(it)
      BY <1>4, <1>7, <1>9, <1>10, <2>3, <3>1 DEF Data
    <3> QED
      BY <2>9, <2>3, <3>2, FlagAgrees DEF Leaves
  <2> QED
    BY <2>1, <2>2, <2>3
<1>15. Ready(h)' => Right(h)'
  <2> SUFFICES ASSUME Ready(h)' PROVE Right(h)'
    OBVIOUS
  <2>1. i \notin doubtful
    BY <1>4, <1>12 DEF Ready, Whole, history
  <2>2. /\ Written(h)' = Overlay(db[i], d)
        /\ LastBy(h)' = IF a.content = Absent THEN last[i] ELSE a.content
    BY <1>12 DEF Written, LastBy, history
  <2>3. EntryFor(h, Written(h))' = IF ~ Written(h)'.secret THEN Null
                                  ELSE IF sc = Absent THEN vault[i] ELSE sc
    BY <1>12 DEF EntryFor
  <2> QED
    BY <1>14, <2>1, <2>2, <2>3 DEF Right, Leaves
<1>16. Context(h)'
  BY <1>4, <1>12, <1>15 DEF Context, history
<1> QED
  BY <1>2, <1>4, <1>12, <1>13, <1>16, OwnStep DEF history

LEMMA GetCurrentValueStep ==
    ASSUME IInv, NEW h \in Handlers, GetCurrentValue(h) PROVE IInv'
<1>1. TypeOK /\ ContextInv /\ Context(h) /\ pc[h] = "read"
      /\ UNCHANGED <<db, vault, used, doubtful, last>>
  BY DEF IInv, ContextInv, GetCurrentValue
<1>2. CASE db[id[h]] # NoRow /\ db[id[h]].secret /\ Goto(h, "fetch")
           /\ UNCHANGED <<request, crossed>>
  <2>1. /\ pc'[h] = "fetch" /\ \A g \in Handlers \ {h} : Same(g)
    BY <1>1, <1>2 DEF TypeOK, Goto, Same, request
  <2>2. TypeOK'
    BY <1>1, <1>2 DEF TypeOK, Goto, PCs, request
  <2>3. ~ Ready(h)'
    BY <2>1 DEF Ready
  <2>4. Context(h)'
    BY <1>1, <1>2, <2>1, <2>3 DEF Context, request
  <2> QED
    BY <1>1, <1>2, <2>1, <2>2, <2>4, OwnStep DEF request
<1>3. CASE Answer(h)
  <2>1. doubtful' = doubtful \cup {i \in {id[h]} : pc[h] = "commit"}
    BY <1>1
  <2> QED
    BY <1>1, <1>3, <2>1, AnswerStep
<1>4. CASE /\ db[id[h]] # NoRow /\ ~ db[id[h]].secret /\ db[id[h]].content # Null
           /\ Complete(h, FALSE, db[id[h]].content)
           /\ UNCHANGED <<op, id, asked, row, crossed>>
  <2>1. db[id[h]] \in Row
    BY <1>1, <1>4 DEF TypeOK, Context
  <2>2. PICK c \in Contents : c = db[id[h]].content
    BY <1>4, <2>1 DEF Row
  <2>3. PICK s \in BOOLEAN : s = FALSE
    OBVIOUS
  <2>4. db[id[h]].secret = FALSE
    BY <1>4, <2>1 DEF Row
  <2>5. Complete(h, s, c)
    BY <1>4, <2>2, <2>3
  <2> QED
    BY <1>1, <1>4, <2>2, <2>3, <2>4, <2>5, CompleteStep DEF history
<1> QED
  BY <1>2, <1>3, <1>4 DEF GetCurrentValue

LEMMA GetContentFromVaultStep ==
    ASSUME IInv, NEW h \in Handlers, GetContentFromVault(h) PROVE IInv'
<1>1. TypeOK /\ ContextInv /\ Context(h) /\ pc[h] = "fetch"
      /\ UNCHANGED <<db, vault, used, doubtful, last>>
  BY DEF IInv, ContextInv, GetContentFromVault
<1>2. CASE Answer(h)
  <2>1. doubtful' = doubtful \cup {i \in {id[h]} : pc[h] = "commit"}
    BY <1>1
  <2> QED
    BY <1>1, <1>2, <2>1, AnswerStep
<1>3. CASE /\ vault[id[h]] # Null /\ Complete(h, TRUE, vault[id[h]])
           /\ UNCHANGED <<op, id, asked, row, crossed>>
  <2>1. PICK c \in Contents : c = vault[id[h]]
    BY <1>1, <1>3 DEF TypeOK, Context
  <2>2. PICK s \in BOOLEAN : s = TRUE
    OBVIOUS
  <2>3. id[h] \notin doubtful => db[id[h]] # NoRow /\ s = db[id[h]].secret
    <3> SUFFICES ASSUME id[h] \notin doubtful PROVE db[id[h]] # NoRow /\ s = db[id[h]].secret
      OBVIOUS
    <3>1. db[id[h]] # NoRow /\ db[id[h]].secret
      BY <1>1 DEF Context
    <3>2. db[id[h]] \in Row
      BY <1>1, <3>1 DEF TypeOK, Context
    <3> QED
      BY <2>2, <3>1, <3>2 DEF Row
  <2>4. Complete(h, s, c)
    BY <1>3, <2>1, <2>2
  <2> QED
    BY <1>1, <1>3, <2>1, <2>2, <2>3, <2>4, CompleteStep DEF history
<1> QED
  BY <1>2, <1>3 DEF GetContentFromVault

\* The row is locked, and is what was to be written.
LEMMA WriteStep ==
    ASSUME IInv, NEW h \in Handlers, Write(h) PROVE IInv'
<1>1. TypeOK /\ ContextInv /\ Context(h) /\ pc[h] = "write"
      /\ UNCHANGED <<db, vault, used, doubtful, last>>
  BY DEF IInv, ContextInv, Write
<1>2. PICK i \in Items : i = id[h]
  BY <1>1 DEF Context
<1>3. CASE Answer(h)
  <2>1. doubtful' = doubtful \cup {j \in {id[h]} : pc[h] = "commit"}
    BY <1>1
  <2> QED
    BY <1>1, <1>3, <2>1, AnswerStep
<1>4. CASE /\ op[h] = "create" \/ db[id[h]] # NoRow
           /\ row' = [row EXCEPT ![h] = IF op[h] = "create" THEN data[h]
                                        ELSE Overlay(db[id[h]], data[h])]
           /\ Goto(h, "vault")
           /\ UNCHANGED <<op, id, asked, data, secretContent, crossed>>
  <2>1. PICK r \in Row : r = IF op[h] = "create" THEN data[h] ELSE Overlay(db[i], data[h])
    <3>1. CASE op[h] = "create"
      BY <1>1, <3>1 DEF Context
    <3>2. CASE op[h] # "create"
      <4>1. db[i] \in Row /\ data[h] \in Data
        BY <1>1, <1>2, <1>4, <3>2 DEF TypeOK
      <4> QED
        BY <3>2, <4>1, OverlayType
    <3> QED
      BY <3>1, <3>2
  <2>2. row' = [row EXCEPT ![h] = r] /\ pc' = [pc EXCEPT ![h] = "vault"]
    BY <1>2, <1>4, <2>1 DEF Goto
  <2>3. /\ pc'[h] = "vault" /\ row'[h] = r
        /\ \A g \in Handlers \ {h} : Same(g)
    BY <1>1, <1>4, <2>2 DEF TypeOK, Same
  <2>4. TypeOK'
    BY <1>1, <1>4, <2>2 DEF TypeOK, PCs
  <2>5. Ready(h)' => Right(h)'
    <3> SUFFICES ASSUME Ready(h)' PROVE Right(h)'
      OBVIOUS
    <3>1. Right(h)
      BY <1>1, <1>4, <2>3 DEF Context, Ready, Whole
    <3>2. Written(h)' = Written(h)
      BY <1>1, <1>2, <1>4, <2>1, <2>3 DEF Written, Context
    <3>3. EntryFor(h, Written(h))' = EntryFor(h, Written(h))
      BY <1>1, <1>4, <2>3, <3>2 DEF EntryFor
    <3>4. LastBy(h)' = LastBy(h)
      BY <1>1, <1>4 DEF LastBy
    <3> QED
      BY <3>1, <3>2, <3>3, <3>4 DEF Right
  <2>6. Context(h)'
    BY <1>1, <1>4, <2>3, <2>5 DEF Context
  <2> QED
    BY <1>1, <1>4, <2>3, <2>4, <2>6, OwnStep
<1> QED
  BY <1>3, <1>4 DEF Write

\* The hook leaves in Vault what the flag of the row asks for.
LEMMA AfterProcessStep ==
    ASSUME IInv, NEW h \in Handlers, AfterProcess(h) PROVE IInv'
<1>1. TypeOK /\ ContextInv /\ Apart /\ Fresh /\ Rest /\ Context(h) /\ pc[h] = "vault"
      /\ UNCHANGED <<db, used, op, id, asked, data, secretContent, row, crossed, doubtful, last>>
  BY DEF IInv, ContextInv, AfterProcess, request, history
<1>2. PICK i \in Items : i = id[h]
  BY <1>1 DEF Context
<1>3. PICK v : v = IF i \in AttachFiles THEN EntryOfAttachFile(h, i)
                                         ELSE EntryOfUserParameter(h, i)
  OBVIOUS
<1>4. vault' = [vault EXCEPT ![i] = v] /\ pc' = [pc EXCEPT ![h] = "commit"]
  BY <1>2, <1>3 DEF AfterProcess, Goto
<1>5. v \in Contents \cup {Null}
  <2>1. vault[i] \in Contents \cup {Null} /\ secretContent[h] \in Contents \cup {Absent}
    BY <1>1 DEF TypeOK
  <2> QED
    BY <1>3, <2>1 DEF EntryOfAttachFile, EntryOfUserParameter
<1>6. /\ pc'[h] = "commit" /\ vault'[i] = v
      /\ \A g \in Handlers \ {h} : Same(g)
      /\ \A j \in Items \ {i} : vault'[j] = vault[j]
  BY <1>1, <1>4 DEF TypeOK, Same
<1>7. TypeOK'
  BY <1>1, <1>4, <1>5 DEF TypeOK, PCs
<1>8. ASSUME NEW g \in Handlers \ {h}, pc[g] # "idle", id[g] = i
      PROVE  /\ g \in crossed' /\ h \in crossed' /\ i \in doubtful'
             /\ op[g] # "create" /\ op'[h] # "create"
  BY <1>1, <1>2, <1>8, Others
<1>9. Ready(h)' => Right(h)'
  <2> SUFFICES ASSUME Ready(h)' PROVE Right(h)'
    OBVIOUS
  <2>1. Right(h)
    BY <1>1, <1>6 DEF Context, Ready, Whole
  <2>2. Written(h)' = Written(h) /\ LastBy(h)' = LastBy(h)
    BY <1>1, <1>6 DEF Written, LastBy
  <2>3. PICK w : w = Written(h)
    OBVIOUS
  <2>4. w = (IF op[h] = "remove" THEN NoRow ELSE row[h]) /\ op[h] \in {"create", "patch", "remove"}
    BY <1>1, <2>3 DEF Written, Context
  <2>5. EntryFor(h, w) = v
    <3>1. EntryFor(h, w) = IF op[h] = "remove" \/ (op[h] = "patch" /\ ~ w.secret) THEN Null
                           ELSE IF secretContent[h] = Absent THEN vault[i]
                                ELSE secretContent[h]
      BY <1>1, <1>2 DEF EntryFor
    <3>2. CASE i \notin AttachFiles
      BY <1>3, <2>4, <3>1, <3>2 DEF EntryOfUserParameter
    <3>3. CASE i \in AttachFiles /\ op[h] = "remove"
      BY <1>3, <2>4, <3>1, <3>3 DEF EntryOfAttachFile
    <3>4. CASE i \in AttachFiles /\ op[h] = "patch"
      BY <1>3, <2>4, <3>1, <3>4 DEF EntryOfAttachFile
    <3>5. CASE i \in AttachFiles /\ op[h] = "create"
      <4>1. w = row[h] /\ row[h] \in Row /\ row[h] # NoRow
        BY <1>1, <2>4, <3>5, ConstantsAssumption DEF Context
      <4>2. Agrees(w, EntryFor(h, w), LastBy(h))
        BY <2>1, <2>3 DEF Right
      <4>3. secretContent[h] \in Contents \cup {Absent}
        BY <1>1 DEF TypeOK
      <4>4. secretContent[h] # Absent => row[h].secret
        BY <3>1, <3>5, <4>1, <4>2, <4>3, ConstantsAssumption DEF Agrees
      <4> QED
        BY <1>3, <2>4, <3>1, <3>5, <4>4 DEF EntryOfAttachFile
    <3> QED
      BY <2>4, <3>2, <3>3, <3>4, <3>5
  <2>6. EntryFor(h, Written(h))' = v
    BY <1>1, <1>2, <1>6 DEF EntryFor
  <2> QED
    BY <2>1, <2>2, <2>3, <2>5, <2>6 DEF Right
<1>10. Context(h)'
  BY <1>1, <1>6, <1>9 DEF Context
<1>11. Committing(i)' /\ i \in used
  BY <1>1, <1>2, <1>6 DEF Committing, Context
<1> QED
  BY <1>1, <1>2, <1>6, <1>7, <1>8, <1>10, <1>11, Frame

\* A request that met nobody leaves a record that agrees.
LEMMA CommitStep ==
    ASSUME IInv, NEW h \in Handlers, Commit(h) PROVE IInv'
<1>1. TypeOK /\ ContextInv /\ Context(h) /\ pc[h] = "commit" /\ Answer(h)
      /\ UNCHANGED <<vault, used>>
  BY DEF IInv, ContextInv, Commit
<1>2. PICK i \in Items : i = id[h]
  BY <1>1 DEF Context
<1>3. PICK r \in Row \cup {NoRow} : r = IF op[h] = "remove" THEN NoRow ELSE row[h]
  BY <1>1 DEF TypeOK
<1>4. PICK l \in Contents \cup {Null} : l = LastBy(h)
  BY <1>1, <1>2 DEF TypeOK, Context, LastBy, Data
<1>5. /\ db' = [db EXCEPT ![i] = r] /\ last' = [last EXCEPT ![i] = l]
      /\ doubtful' = doubtful \ {j \in {i} : Whole(h) /\ h \notin crossed}
  <2>1. l = IF asked[h].content # Absent THEN asked[h].content ELSE last[i]
    BY <1>2, <1>4 DEF LastBy
  <2>2. (op[h] # "patch" \/ Absent \notin {asked[h].secret, asked[h].content}) <=> Whole(h)
    BY DEF Whole
  <2> QED
    BY <1>2, <1>3, <2>1, <2>2 DEF Commit
<1>6. /\ pc'[h] = "idle" /\ h \notin crossed'
      /\ \A g \in Handlers \ {h} : Same(g) /\ (g \in crossed' <=> g \in crossed)
      /\ db'[i] = r /\ last'[i] = l
      /\ \A j \in Items \ {i} : /\ db'[j] = db[j] /\ last'[j] = last[j]
                                /\ j \in doubtful' <=> j \in doubtful
  BY <1>1, <1>5 DEF Answer, Goto, Same, TypeOK
<1>7. TypeOK'
  <2>1. Nothing \in Data
    BY DEF Nothing, Data
  <2> QED
    BY <1>1, <1>5, <2>1 DEF TypeOK, Answer, Goto, PCs, Ops
<1>8. Context(h)'
  BY <1>6 DEF Context
<1>9. ASSUME NEW g \in Handlers \ {h}, pc[g] # "idle", id[g] = i
      PROVE  g \in crossed' /\ i \in doubtful' /\ op[g] # "create"
  <2>1. g \in crossed /\ h \in crossed /\ i \in doubtful /\ op[g] # "create"
    BY <1>1, <1>2, <1>9, Others
  <2> QED
    BY <1>5, <1>6, <2>1
<1>10. ASSUME i \notin doubtful' PROVE Agrees(db[i], vault[i], last[i])'
  <2>1. h \notin crossed
    BY <1>1, <1>2, <1>5, <1>10 DEF Context
  <2>2. Whole(h) \/ i \notin doubtful
    BY <1>5, <1>10
  <2>3. Right(h)
    BY <1>1, <1>2, <2>1, <2>2 DEF Context, Ready
  <2>4. Written(h) = r
    BY <1>1, <1>3 DEF Written
  <2>5. EntryFor(h, Written(h)) = vault[i]
    BY <1>1, <1>2 DEF EntryFor
  <2> QED
    BY <1>1, <1>4, <1>6, <2>3, <2>4, <2>5 DEF Right
<1>11. i \in used
  BY <1>1, <1>2 DEF Context
<1> QED
  BY <1>1, <1>2, <1>6, <1>7, <1>8, <1>9, <1>10, <1>11, Frame

LEMMA FailStep ==
    ASSUME IInv, NEW h \in Handlers, Fail(h) PROVE IInv'
<1>1. pc[h] # "idle"
  BY ConstantsAssumption DEF Fail
<1> QED
  BY <1>1, AnswerStep DEF Fail

-----------------------------------------------------------------------------
\* In the first state there is nothing.
LEMMA InitInv == Init => IInv
<1> SUFFICES ASSUME Init PROVE IInv
  OBVIOUS
<1>1. Nothing \in Data
  BY DEF Nothing, Data
<1>2. TypeOK
  BY <1>1 DEF Init, TypeOK, PCs, Ops
<1>3. ContextInv /\ Apart /\ Fresh
  BY DEF Init, ContextInv, Context, Apart, Fresh
<1>4. Rest
  BY DEF Init, Rest, Agrees
<1> QED
  BY <1>2, <1>3, <1>4 DEF IInv

\* Each step keeps the invariant.
LEMMA NextInv == IInv /\ [Next]_vars => IInv'
<1> SUFFICES ASSUME IInv, [Next]_vars PROVE IInv'
  OBVIOUS
<1>1. CASE UNCHANGED vars
  <2>1. UNCHANGED <<db, vault, used, pc, op, id, asked, data, secretContent, row, crossed,
                    doubtful, last>>
    BY <1>1 DEF vars, request, history
  <2>2. TypeOK'
    BY <2>1 DEF IInv, TypeOK
  <2>3. ContextInv'
    <3> SUFFICES ASSUME NEW g \in Handlers PROVE Context(g)'
      BY DEF ContextInv
    <3>1. Same(g) /\ Context(g)
      BY <2>1 DEF Same, IInv, ContextInv
    <3>2. Right(g) => Right(g)'
      BY <2>1, <3>1, RightSame
    <3>3. Ready(g)' => Ready(g)
      BY <2>1 DEF Ready, Whole
    <3> QED
      BY <2>1, <3>1, <3>2, <3>3 DEF Context
  <2>4. Apart' /\ Fresh'
    BY <2>1 DEF IInv, Apart, Fresh
  <2>5. Rest'
    BY <2>1 DEF IInv, Rest, Committing
  <2> QED
    BY <2>2, <2>3, <2>4, <2>5 DEF IInv
<1>2. ASSUME NEW h \in Handlers, Request(h) \/ Step(h) \/ Fail(h) PROVE IInv'
  <2>1. AttachFiles \subseteq Items /\ UserParameters \subseteq Items
    BY DEF Items
  <2>2. ASSUME Request(h) PROVE IInv'
    <3>1. ASSUME NEW i \in Items, Create(h, i) PROVE IInv'
      BY <3>1, CreateStep
    <3> QED
      BY <2>1, <2>2, <3>1, PatchStep, RemoveStep
      DEF Request, CreateAttachFile, CreateUserParameter
  <2>3. ASSUME Step(h) PROVE IInv'
    BY <2>3, GetCurrentValueStep, GetContentFromVaultStep, WriteStep, AfterProcessStep,
       CommitStep DEF Step
  <2> QED
    BY <1>2, <2>2, <2>3, FailStep
<1> QED
  BY <1>1, <1>2 DEF Next

\* The invariant, which the theorems below follow from.
THEOREM Invariance == Spec => []IInv
<1> QED
  BY InitInv, NextInv, PTL DEF Spec

\* Every variable keeps its type.
THEOREM TypeCorrect == Spec => []TypeOK
<1>1. IInv => TypeOK
  BY DEF IInv
<1> QED
  BY <1>1, Invariance, PTL

\* A record that no transaction has locked agrees, unless it is doubtful.
LEMMA SettledAgrees ==
    ASSUME IInv, NEW i \in Items, Settled(i) PROVE Agrees(db[i], vault[i], last[i])
<1>1. i \notin doubtful /\ ~ Committing(i)
  BY DEF Settled, Locked, Committing
<1> QED
  BY <1>1 DEF IInv, Rest

\* Secret contents are in Vault and only there, others in the database and only there,
\* and nothing is left of a record that is removed, for requests that do not meet:
\* the hooks of process-attach-files.ts and process-user-parameters.ts.
THEOREM ContentPlace == Spec => []ContentWhereFlagSays
<1>1. IInv => ContentWhereFlagSays
  <2> SUFFICES ASSUME IInv, NEW i \in Items, Settled(i)
               PROVE  /\ (db[i] # NoRow /\ db[i].secret) <=> vault[i] # Null
                      /\ db[i] # NoRow => (db[i].secret <=> db[i].content = Null)
    BY DEF ContentWhereFlagSays
  <2>1. Agrees(db[i], vault[i], last[i])
    BY SettledAgrees
  <2>2. last[i] \in Contents => last[i] # Null
    BY ConstantsAssumption
  <2> QED
    BY <2>1, <2>2 DEF Agrees
<1> QED
  BY <1>1, Invariance, PTL

\* The content is the one given last, however often the flag was turned and requests
\* failed in between, and its kind is the one in the row: beforePatchProcess takes it
\* along.
THEOREM ContentLast == Spec => []ContentKept
<1>1. IInv => ContentKept
  <2> SUFFICES ASSUME IInv, NEW i \in Items, Settled(i), db[i] # NoRow
               PROVE  /\ last[i] = IF db[i].secret THEN vault[i] ELSE db[i].content
                      /\ db[i].isBinary = IsBinary(last[i])
    BY DEF ContentKept
  <2>1. Agrees(db[i], vault[i], last[i])
    BY SettledAgrees
  <2> QED
    BY <2>1 DEF Agrees
<1> QED
  BY <1>1, Invariance, PTL
=============================================================================
