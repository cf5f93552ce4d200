--------------------------- MODULE InterfaceProofs ---------------------------
(***************************************************************************)
(* Proofs about the web interface: its pages (module Pages), for any       *)
(* number of rows, names, requests, changes and finds, and its sessions    *)
(* (module Browser), for any number of tabs, users and log-ins.            *)
(***************************************************************************)
EXTENDS Pages, Browser, FiniteSetTheorems, TLAPS

\* What the tab would show if it were up to date.
View(i) == IF i \in Visible THEN rows[i] ELSE NoRow

\* Ids are given out in order, and a user who has public keys has a default one.
ServerInv ==
    /\ \A i \in Live : i <= ids
    /\ kind = "EncryptKey" => \A i \in 1 .. ids : rows[i] # NoRow
    /\ kind = "PublicKey" /\ Live # {} => \E i \in Live : rows[i].flag

\* What the dialogs make of a form.
WellFormed(q) ==
    /\ q.op \in {"patch", "remove"} => q.id \in Ids
    /\ kind = "PublicKey" => q.scope = Names
    /\ kind = "EncryptKey" => /\ q.op # "remove"
                              /\ q.op = "create" => q.check # "none" \/ q.scope = {q.name}
    /\ kind \in {"EncryptKey", "AttachFile", "UserParameter"} => q.config
    /\ kind = "Stream" => /\ q.op = "create" => q.check # "none"
                          /\ q.op = "patch" => q.config

\* The server has no reason to refuse q, but for a conflict of names.
Admissible(q) ==
    /\ q.op # "create" => q.id \in Live
    /\ kind = "PublicKey" /\ q.op # "remove" /\ ~ q.flag => ~ Live \subseteq {q.id}
    /\ kind = "EncryptKey" /\ q.op = "patch" => rows[q.id].latest
    /\ kind = "Member" /\ q.op # "create" => Admin(Me) /\ rows[q.id].name # Me

\* What a form claims of the rows is so: a rule that is content has seen what the server
\* has, and a page that was up to date has offered what the server accepts.
Right(q) == /\ q.check = "ok" => ~ Taken(q.name)
            /\ q.informed => Admissible(q)

\* A call that is answered: its row, if there is one, has an id that was given out.
Done(k) == k.state = "ok" => /\ k.form.id \in 1 .. ids
                             /\ k.answer = NoRow <=> k.form.op = "remove"

FormInv ==
    /\ form # NoForm => WellFormed(form) /\ Right(form)
    /\ \A c \in UnderWay : /\ WellFormed(calls[c].form) /\ Right(calls[c].form)
                           /\ calls[c].form.check # "dup" /\ Done(calls[c])

\* An answer that nothing has overtaken.
Current(a) ==
    /\ \A i \in Ids : a.rows[i] # NoRow => a.rows[i] = View(i)
    /\ a.full => \A i \in Ids : a.rows[i] = View(i)

\* The end of call k will bring row i to the store, or make it known as stale.
Brings(k, i) ==
    \/ k.form.id = i /\ (k.state = "ok" \/ Eager(k.form))
    \/ k.state = "ok" /\ rows[i].name \in k.form.scope

\* Something under way will do so.
Coming(i) ==
    \/ \E c \in UnderWay : Brings(calls[c], i)
    \/ \E q \in asked : i \in q.ids /\ rows[i].name \in q.names
    \/ \E a \in answers : a.old \/ a.rows[i] # NoRow

\* Answers, the rows that the tab should not have, and those that it should have.
StoreA == \A a \in answers : a.old \/ Current(a)
StoreB == \A i \in Ids \ (Visible \cup gone) :
            store[i] = NoRow \/ \E c \in UnderWay : Is(c, "ok") /\ calls[c].form.id = i
StoreC == ~ stale => \A i \in Visible \ gone : store[i] = rows[i] \/ Coming(i)

StoreInv == StoreA /\ StoreB /\ StoreC

ConfigInv ==
    kind \in StreamParts /\ ~ cfgStale =>
        \/ cfg \/ cfgAsked \/ cfgAnswers # {}
        \/ \E c \in UnderWay : Is(c, "ok") /\ calls[c].form.config

\* What is under way when nothing has been mixed up.
Answer == [rows : [Ids -> RowOrNone], full : BOOLEAN, old : BOOLEAN]

IInv == /\ TypeOK /\ answers \subseteq Answer
        /\ ServerInv /\ FormInv /\ StoreInv /\ ConfigInv

-----------------------------------------------------------------------------
(***************************************************************************)
(* What a request of the server makes of the rows.                         *)
(***************************************************************************)
Plain(q) == /\ q.op \in {"create", "patch", "remove"} /\ q.name \in Names
            /\ q.flag \in BOOLEAN
            /\ kind = "EncryptKey" => q.op # "remove"

\* A row may be changed beside the one of the request.
Touched(q, r) == \/ kind = "PublicKey"
                 \/ kind = "EncryptKey" /\ q.op = "create" /\ r.name = q.name

\* r becomes s: it stays a row of the same name.
Persists(q, r, s) ==
    /\ s \in RowOrNone
    /\ s = NoRow <=> r = NoRow
    /\ r # NoRow => s.name = r.name
    /\ s # r => Touched(q, r)

\* A row is a record with a stamp that the bound allows.
LEMMA RowFields ==
    ASSUME NEW r \in Row
    PROVE  /\ r # NoRow
           /\ r = [name |-> r.name, flag |-> r.flag, latest |-> r.latest, stamp |-> r.stamp]
           /\ r.name \in Names /\ r.flag \in BOOLEAN /\ r.latest \in BOOLEAN
  BY ConstantsAssumption DEF Row

\* Taking the flag or the rank from a row keeps its name.
LEMMA OneRow ==
    ASSUME changes \in Nat, changes < MaxChanges, NEW r \in RowOrNone, NEW n
    PROVE  /\ Cleared(r) \in RowOrNone /\ (Cleared(r) = NoRow <=> r = NoRow)
           /\ r # NoRow => Cleared(r).name = r.name
           /\ Outdated(r, n) \in RowOrNone /\ (Outdated(r, n) = NoRow <=> r = NoRow)
           /\ r # NoRow => Outdated(r, n).name = r.name
           /\ Outdated(r, n) # r => r.name = n
<1>1. changes + 1 \in 0 .. MaxChanges + 1
  BY ConstantsAssumption
<1>2. CASE r = NoRow
  BY <1>2 DEF Cleared, Outdated, RowOrNone
<1>3. CASE r \in Row
  <2>1. /\ r # NoRow /\ [r EXCEPT !.flag = FALSE, !.stamp = changes + 1] \in Row
        /\ [r EXCEPT !.flag = FALSE, !.latest = FALSE, !.stamp = changes + 1] \in Row
    BY <1>1, <1>3, RowFields DEF Row
  <2>2. /\ [r EXCEPT !.flag = FALSE, !.stamp = changes + 1].name = r.name
        /\ [r EXCEPT !.flag = FALSE, !.latest = FALSE, !.stamp = changes + 1].name = r.name
    BY <1>3, RowFields
  <2> QED
    BY <1>3, <2>1, <2>2, ConstantsAssumption DEF Cleared, Outdated, RowOrNone
<1> QED
  BY <1>2, <1>3 DEF RowOrNone

\* Before the flag is given to another key: the row of the request, and the others.
LEMMA WrittenRows ==
    ASSUME TypeOK, changes < MaxChanges, NEW q, Plain(q), NEW t \in Ids
    PROVE  /\ Written(q, t) \in [Ids -> RowOrNone]
           /\ q.op = "remove" => Written(q, t)[t] = NoRow
           /\ q.op # "remove" => /\ Written(q, t)[t] \in Row
                                 /\ Written(q, t)[t].name = q.name
                                 /\ Written(q, t)[t].flag = q.flag
           /\ \A j \in Ids \ {t} : Persists(q, rows[j], Written(q, t)[j])
<1>1. /\ changes \in Nat /\ rows \in [Ids -> RowOrNone]
  BY ConstantsAssumption DEF TypeOK
<1> DEFINE new == [name |-> q.name, flag |-> q.flag, latest |-> TRUE, stamp |-> changes + 1]
           w == IF q.op = "remove" THEN NoRow ELSE new
<1>2. new \in Row /\ w \in RowOrNone
  BY <1>1, ConstantsAssumption DEF Row, Plain, RowOrNone
<1>3. Beside(q, t) \in [Ids -> RowOrNone]
      /\ \A j \in Ids : Persists(q, rows[j], Beside(q, t)[j])
  <2>1. \A j \in Ids : rows[j] \in RowOrNone
    BY <1>1
  <2>2. CASE kind = "PublicKey" /\ q.op # "remove" /\ q.flag
    <3>1. Beside(q, t) = [j \in Ids |-> Cleared(rows[j])]
      BY <2>2 DEF Beside
    <3> QED
      BY <1>1, <2>1, <2>2, <3>1, OneRow DEF Persists, Touched
  <2>3. CASE kind = "EncryptKey" /\ q.op = "create"
    <3>1. Beside(q, t) = [j \in Ids |-> Outdated(rows[j], q.name)]
      BY <2>3 DEF Beside
    <3> QED
      BY <1>1, <2>1, <2>3, <3>1, OneRow DEF Persists, Touched
  <2>4. CASE ~ (kind = "PublicKey" /\ q.op # "remove" /\ q.flag)
             /\ ~ (kind = "EncryptKey" /\ q.op = "create")
    <3>1. Beside(q, t) = [j \in Ids |-> rows[j]]
      BY <2>4 DEF Beside
    <3> QED
      BY <2>1, <3>1 DEF Persists
  <2> QED
    BY <2>2, <2>3, <2>4
<1>4. Written(q, t) = [Beside(q, t) EXCEPT ![t] = w]
  BY DEF Written
<1>5. /\ Written(q, t) \in [Ids -> RowOrNone] /\ Written(q, t)[t] = w
      /\ \A j \in Ids \ {t} : Written(q, t)[j] = Beside(q, t)[j]
  BY <1>2, <1>3, <1>4
<1> QED
  BY <1>2, <1>3, <1>5

\* A row that gets the flag keeps its name; only a user without a default key is
\* concerned, and has one then.
LEMMA PromotedRows ==
    ASSUME changes \in Nat, changes < MaxChanges, NEW t \in Ids,
           NEW r \in [Ids -> RowOrNone], NEW p \in Promoted(r, t)
    PROVE  /\ p \in [Ids -> RowOrNone] /\ p[t] = r[t]
           /\ kind # "PublicKey" => p = r
           /\ \A j \in Ids : /\ p[j] = NoRow <=> r[j] = NoRow
                             /\ r[j] # NoRow => p[j].name = r[j].name
           /\ \/ kind # "PublicKey" \/ \E j \in Ids : p[j] # NoRow /\ p[j].flag
              \/ p = r /\ \A j \in Ids \ {t} : r[j] = NoRow
<1> DEFINE left == {j \in Ids \ {t} : r[j] # NoRow}
           flagged(s) == [s EXCEPT !.flag = TRUE, !.stamp = changes + 1]
           with(j) == [m \in Ids |-> IF m = j THEN flagged(r[m]) ELSE r[m]]
<1>1. CASE kind # "PublicKey" \/ left = {} \/ \E j \in Ids : r[j] # NoRow /\ r[j].flag
  <2>1. p = r
    BY <1>1 DEF Promoted
  <2> QED
    BY <1>1, <2>1
<1>2. CASE ~ (kind # "PublicKey" \/ left = {} \/ \E j \in Ids : r[j] # NoRow /\ r[j].flag)
  <2>1. PICK j \in left : p = with(j)
    BY <1>2 DEF Promoted
  <2>2. r[j] \in Row /\ j \in Ids /\ j # t
    BY DEF RowOrNone
  <2>3. changes + 1 \in 0 .. MaxChanges + 1
    BY ConstantsAssumption
  <2>4. /\ flagged(r[j]) \in Row /\ flagged(r[j]).name = r[j].name /\ flagged(r[j]).flag = TRUE
        /\ flagged(r[j]) # NoRow
    BY <2>2, <2>3, RowFields, ConstantsAssumption DEF Row
  <2>5. /\ p \in [Ids -> RowOrNone] /\ p[j] = flagged(r[j])
        /\ \A m \in Ids \ {j} : p[m] = r[m]
    <3> HIDE DEF flagged
    <3> QED BY <2>1, <2>2, <2>4 DEF RowOrNone
  <2> HIDE DEF flagged, with
  <2>6. r[j] # NoRow
    BY <2>2, RowFields
  <2> QED
    BY <1>2, <2>2, <2>4, <2>5, <2>6
<1> QED
  BY <1>1, <1>2

\* The effect of a request on the rows: its own row, and what becomes of the others.
LEMMA ApplyRows ==
    ASSUME TypeOK, ServerInv, NEW q, NEW u, Plain(q), ~ Refused(q, u), Apply(q)
    PROVE  /\ Target(q) \in Ids /\ rows' \in [Ids -> RowOrNone]
           /\ rows'[Target(q)] = NoRow <=> q.op = "remove"
           /\ q.op # "remove" => rows'[Target(q)].name = q.name
           /\ \A j \in Ids \ {Target(q)} : Persists(q, rows[j], rows'[j])
           /\ ids' \in 0 .. MaxIds /\ ids <= ids' /\ Target(q) \in 1 .. ids'
           /\ changes' \in 0 .. MaxChanges
           /\ q.op # "create" => q.id \in Live
           /\ q.op = "create" => rows[Target(q)] = NoRow
           /\ ServerInv'
<1> DEFINE t == Target(q)
           w == Written(q, t)
<1>1. /\ t \in Ids /\ changes \in Nat /\ changes < MaxChanges
      /\ rows' \in Promoted(w, t) /\ changes' = changes + 1 /\ kind' = kind
      /\ ids \in 0 .. MaxIds /\ rows \in [Ids -> RowOrNone]
      /\ ids' = IF q.op = "create" THEN ids + 1 ELSE ids
  BY ConstantsAssumption DEF Apply, TypeOK
<1>2. q.op # "create" => q.id \in Live /\ t = q.id
  BY DEF Refused, Target
<1>3. /\ w \in [Ids -> RowOrNone] /\ (q.op = "remove" => w[t] = NoRow)
      /\ q.op # "remove" => w[t] \in Row /\ w[t].name = q.name /\ w[t].flag = q.flag
      /\ \A j \in Ids \ {t} : Persists(q, rows[j], w[j])
  <2> HIDE DEF t
  <2> QED BY <1>1, WrittenRows
<1>4. /\ rows' \in [Ids -> RowOrNone] /\ rows'[t] = w[t]
      /\ kind # "PublicKey" => rows' = w
      /\ \A j \in Ids : /\ rows'[j] = NoRow <=> w[j] = NoRow
                        /\ w[j] # NoRow => rows'[j].name = w[j].name
      /\ \/ kind # "PublicKey" \/ \E j \in Ids : rows'[j] # NoRow /\ rows'[j].flag
         \/ rows' = w /\ \A j \in Ids \ {t} : w[j] = NoRow
  <2> HIDE DEF t, w
  <2> QED BY <1>1, <1>3, PromotedRows
<1> HIDE DEF t, w
<1>5. /\ rows'[t] = NoRow <=> q.op = "remove"
      /\ q.op # "remove" => rows'[t].name = q.name
  BY <1>3, <1>4, RowFields
<1>6. \A j \in Ids \ {t} : Persists(q, rows[j], rows'[j])
  BY <1>3, <1>4 DEF Persists, Touched, Plain
<1>7. /\ ids' \in 0 .. MaxIds /\ ids <= ids' /\ t \in 1 .. ids'
      /\ changes' \in 0 .. MaxChanges
      /\ q.op = "create" => rows[t] = NoRow
  <2>1. CASE q.op = "create"
    <3>1. t = ids + 1
      BY <2>1 DEF t, Target
    <3>2. rows[t] = NoRow
      BY <1>1, <3>1, ConstantsAssumption DEF ServerInv, Live, Ids
    <3> QED
      BY <1>1, <2>1, <3>1, <3>2, ConstantsAssumption DEF Ids
  <2>2. CASE q.op # "create"
    <3>1. t <= ids
      BY <1>2, <2>2 DEF ServerInv
    <3> QED
      BY <1>1, <2>2, <3>1, ConstantsAssumption DEF Ids
  <2> QED
    BY <2>1, <2>2
<1>8. ServerInv'
  <2>1. \A i \in Live' : i <= ids'
    <3> SUFFICES ASSUME NEW i \in Live' PROVE i <= ids'
      OBVIOUS
    <3>1. CASE i = t
      BY <3>1, <1>7 DEF Ids
    <3>2. CASE i # t
      BY <3>2, <1>1, <1>6, <1>7, ConstantsAssumption DEF Live, Persists, ServerInv, Ids
    <3> QED
      BY <3>1, <3>2
  <2>2. kind' = "EncryptKey" => \A i \in 1 .. ids' : rows'[i] # NoRow
    <3> SUFFICES ASSUME kind = "EncryptKey", NEW i \in 1 .. ids' PROVE rows'[i] # NoRow
      BY <1>1
    <3>1. i \in Ids
      BY <1>7, ConstantsAssumption DEF Ids
    <3>2. CASE i = t
      BY <3>2, <1>5 DEF Plain
    <3>3. CASE i # t
      <4>1. i \in 1 .. ids
        BY <3>1, <3>3, <1>1, <1>7 DEF t, Target
      <4> QED
        BY <4>1, <3>1, <3>3, <1>6 DEF ServerInv, Persists
    <3> QED
      BY <3>2, <3>3
  <2>3. kind' = "PublicKey" /\ Live' # {} => \E i \in Live' : rows'[i].flag
    <3> SUFFICES ASSUME kind = "PublicKey", Live' # {} PROVE \E i \in Live' : rows'[i].flag
      BY <1>1
    <3>1. CASE \E j \in Ids : rows'[j] # NoRow /\ rows'[j].flag
      BY <3>1 DEF Live
    <3>2. CASE rows' = w /\ \A j \in Ids \ {t} : w[j] = NoRow
      <4>1. t \in Live' /\ q.op # "remove"
        BY <3>2, <1>5 DEF Live
      <4>2. \A j \in Ids \ {t} : rows[j] = NoRow
        BY <3>2, <1>6 DEF Persists
      <4>3. Live \subseteq {q.id}
        BY <4>2, <1>2, <1>7 DEF Live
      <4>4. q.flag
        BY <4>1, <4>3 DEF Refused
      <4> QED
        BY <4>1, <4>4, <1>3, <3>2
    <3> QED
      BY <3>1, <3>2, <1>4
  <2> QED
    BY <2>1, <2>2, <2>3 DEF ServerInv
<1>9. q.op # "create" => q.id \in Live
  BY <1>2
<1> QED
  BY <1>1, <1>4, <1>5, <1>6, <1>7, <1>8, <1>9 DEF t

\* Which ids have a row after a request.
LEMMA ApplyLive ==
    ASSUME TypeOK, ServerInv, NEW q, NEW u, Plain(q), ~ Refused(q, u), Apply(q)
    PROVE  Live' = IF q.op = "remove" THEN Live \ {Target(q)} ELSE Live \cup {Target(q)}
<1>1. /\ Target(q) \in Ids
      /\ rows'[Target(q)] = NoRow <=> q.op = "remove"
      /\ \A j \in Ids \ {Target(q)} : Persists(q, rows[j], rows'[j])
  BY ApplyRows
<1> QED
  BY <1>1 DEF Live, Persists

\* What a tab may see changes by the row of its own request only: no user can take
\* the rights of an administrator from himself.
LEMMA ApplyVisible ==
    ASSUME TypeOK, ServerInv, NEW q, Plain(q), ~ Refused(q, Me), Apply(q)
    PROVE  /\ Visible = Live /\ Visible' = Live'
<1>1. /\ Target(q) \in Ids /\ rows \in [Ids -> RowOrNone] /\ kind' = kind
      /\ \A j \in Ids \ {Target(q)} : Persists(q, rows[j], rows'[j])
      /\ q.op # "create" => q.id \in Live
      /\ q.op = "create" => rows[Target(q)] = NoRow
  BY ApplyRows DEF TypeOK, Apply
<1>2. CASE kind # "Member"
  BY <1>1, <1>2 DEF Visible
<1>3. CASE kind = "Member"
  <2>1. Admin(Me)
    BY <1>3 DEF Refused
  <2>2. PICK i \in Live : rows[i].name = Me /\ rows[i].flag
    BY <2>1 DEF Admin
  <2>3. i # Target(q) /\ i \in Ids
    BY <1>1, <1>3, <2>2 DEF Refused, Target, Live
  <2>4. rows'[i] = rows[i] /\ i \in Live'
    BY <1>1, <1>3, <2>2, <2>3 DEF Persists, Touched, Live
  <2>5. Admin(Me)'
    BY <2>2, <2>4 DEF Admin
  <2> QED
    BY <2>1, <2>5 DEF Visible
<1> QED
  BY <1>2, <1>3

-----------------------------------------------------------------------------
(***************************************************************************)
(* What the pages offer.                                                   *)
(***************************************************************************)
\* The buttons and fields of a page, given the rows it shows.
Fits(q) ==
    /\ q \in Form /\ q.informed = FALSE /\ q.check # "ok" /\ WellFormed(q)
    /\ IF q.op = "create" THEN q.id = 0 ELSE q.id \in Shown
    /\ kind = "PublicKey" /\ q.op # "remove" /\ ~ q.flag =>
         IF q.op = "create" THEN Shown # {} ELSE Shown # {q.id} \/ ~ store[q.id].flag
    /\ kind = "EncryptKey" /\ q.op = "patch" => store[q.id].latest
    /\ kind = "Member" /\ q.op # "create" => store[q.id].name # Me

\* The form for something new.
LEMMA FormNew ==
    /\ NewForm \in Form /\ NewForm.op = "create" /\ NewForm.id = 0
    /\ NewForm.name = Me /\ NewForm.scope = {} /\ NewForm.check = "none"
    /\ ~ NewForm.informed
  BY ConstantsAssumption DEF NewForm, Form

\* The form for a row that is shown.
LEMMA FormOf ==
    ASSUME TypeOK, NEW i \in Shown, NEW o \in {"create", "patch", "remove"}
    PROVE  /\ Change(o, i) \in Form /\ Change(o, i).op = o /\ Change(o, i).id = i
           /\ Change(o, i).name = store[i].name /\ Change(o, i).scope = {}
           /\ Change(o, i).check = "none" /\ ~ Change(o, i).informed
           /\ store[i] \in Row /\ i \in Ids /\ i # 0 /\ {i} \subseteq Shown
<1>1. store[i] \in Row /\ i \in Ids /\ i # 0
  BY ConstantsAssumption DEF Shown, TypeOK, RowOrNone, Ids
<1> QED
  BY <1>1, RowFields, ConstantsAssumption DEF Change, NewForm, Form

\* The fields of a form can be replaced one by one.
LEMMA FormFields ==
    ASSUME NEW q \in Form
    PROVE  /\ \A f \in BOOLEAN :
                /\ [q EXCEPT !.flag = f] \in Form /\ [q EXCEPT !.config = f] \in Form
                /\ [q EXCEPT !.informed = f] \in Form
           /\ \A s \in {"none", "asked", "ok", "dup", "overtaken"} :
                [q EXCEPT !.check = s] \in Form
           /\ \A n \in Names : [q EXCEPT !.name = n] \in Form
           /\ \A s \in SUBSET Names : [q EXCEPT !.scope = s] \in Form
           /\ \A i \in Ids \cup {0} : [q EXCEPT !.id = i] \in Form
  BY DEF Form

\* Keys: the first one is the default one, and the only one stays it.
LEMMA PublicKeysFit ==
    ASSUME TypeOK, kind = "PublicKey", NEW q \in PublicKeysView PROVE Fits(q)
<1>1. CASE q \in PublicKeyRegister(Shown = {})
  <2>1. PICK f \in IF Shown = {} THEN {TRUE} ELSE BOOLEAN :
          q = [NewForm EXCEPT !.flag = f, !.scope = Names]
    BY <1>1 DEF PublicKeyRegister
  <2> QED
    BY <2>1, FormNew DEF Fits, WellFormed, Form
<1>2. ASSUME NEW i \in Shown, q \in PublicKeyUpdate(i, Shown = {i}) PROVE Fits(q)
  <2>1. PICK f \in IF Shown = {i} THEN {store[i].flag} ELSE BOOLEAN :
          q = [Change("patch", i) EXCEPT !.flag = f, !.scope = Names]
    BY <1>2 DEF PublicKeyUpdate
  <2>2. f \in BOOLEAN
    BY FormOf, RowFields
  <2>3. PICK p \in Form : p = Change("patch", i) /\ p.op = "patch" /\ p.id = i /\ ~ p.informed
                         /\ p.check = "none"
    BY FormOf
  <2>4. /\ q \in Form /\ q.op = "patch" /\ q.id = i /\ ~ q.informed /\ q.flag = f
        /\ q.scope = Names /\ q.check = "none"
    BY <2>1, <2>2, <2>3 DEF Form
  <2> QED
    BY <2>1, <2>4, FormOf DEF Fits, WellFormed
<1>3. ASSUME NEW i \in Shown, q \in PublicKeyDelete(i) PROVE Fits(q)
  <2>1. q = [Change("remove", i) EXCEPT !.scope = Names]
    BY <1>3 DEF PublicKeyDelete
  <2> QED
    BY <2>1, FormOf DEF Fits, WellFormed, Form
<1> QED
  BY <1>1, <1>2, <1>3 DEF PublicKeysView, PublicKeysTable

\* Data keys: a new target, a new version, or a change of the latest one.
LEMMA EncryptKeysFit ==
    ASSUME TypeOK, kind = "EncryptKey", NEW q \in EncryptKeysView PROVE Fits(q)
<1>1. CASE q \in EncryptKeyCreate
  <2>1. PICK n \in Names :
          q \in EncryptKeyDialog([NewForm EXCEPT !.name = n, !.check = "asked"])
    BY <1>1 DEF EncryptKeyCreate
  <2>2. PICK f \in BOOLEAN :
          q = [[NewForm EXCEPT !.name = n, !.check = "asked"]
                 EXCEPT !.flag = f, !.config = TRUE]
    BY <2>1 DEF EncryptKeyDialog
  <2> QED
    BY <2>2, FormNew DEF Fits, WellFormed, Form
<1>2. ASSUME NEW i \in Editable, q \in EncryptKeyUpdate(i) PROVE Fits(q)
  <2>1. PICK f \in BOOLEAN :
          q = [[Change("create", i) EXCEPT !.id = 0, !.scope = {store[i].name}]
                 EXCEPT !.flag = f, !.config = TRUE]
    BY <1>2 DEF EncryptKeyUpdate, EncryptKeyDialog
  <2>2. i \in Shown /\ store[i].name \in Names
    BY FormOf, RowFields DEF Editable
  <2>3. PICK p \in Form : p = Change("create", i) /\ p.op = "create" /\ p.name = store[i].name
                         /\ p.check = "none" /\ ~ p.informed
    BY <2>2, FormOf
  <2> QED
    BY <2>1, <2>2, <2>3 DEF Fits, WellFormed, Form
<1>3. ASSUME NEW i \in Editable, q \in EncryptKeyUpdateParams(i) PROVE Fits(q)
  <2>1. PICK f \in BOOLEAN : q = [Change("patch", i) EXCEPT !.flag = f, !.config = TRUE]
    BY <1>3 DEF EncryptKeyUpdateParams
  <2>2. i \in Shown /\ store[i].latest
    BY DEF Editable
  <2>3. PICK p \in Form : p = Change("patch", i) /\ p.op = "patch" /\ p.id = i
                         /\ p.check = "none" /\ ~ p.informed
    BY <2>2, FormOf
  <2>4. /\ q \in Form /\ q.op = "patch" /\ q.id = i /\ ~ q.informed /\ q.config
        /\ q.check = "none"
    BY <2>1, <2>3 DEF Form
  <2> QED
    BY <2>2, <2>4, FormOf DEF Fits, WellFormed
<1> QED
  BY <1>1, <1>2, <1>3 DEF EncryptKeysView, EncryptKeyTable

\* Members: not the user himself.
LEMMA MembersFit ==
    ASSUME TypeOK, kind = "Member", NEW q \in MembersView PROVE Fits(q)
<1>1. CASE q \in MemberCreate
  <2>1. PICK n \in Names : q = [NewForm EXCEPT !.name = n, !.flag = FALSE]
    BY <1>1 DEF MemberCreate
  <2> QED
    BY <2>1, FormNew DEF Fits, WellFormed, Form
<1>2. ASSUME NEW i \in Shown, store[i].name # Me, q \in MemberUpdate(i) PROVE Fits(q)
  <2>1. PICK f \in BOOLEAN : q = [Change("patch", i) EXCEPT !.flag = f]
    BY <1>2 DEF MemberUpdate
  <2> QED
    BY <1>2, <2>1, FormOf DEF Fits, WellFormed, Form
<1>3. ASSUME NEW i \in Shown, store[i].name # Me, q \in MemberDelete(i) PROVE Fits(q)
  <2>1. q = Change("remove", i)
    BY <1>3 DEF MemberDelete
  <2> QED
    BY <1>3, <2>1, FormOf DEF Fits, WellFormed, Form
<1> QED
  BY <1>1, <1>2, <1>3 DEF MembersView, MembersTable

\* Files, parameters and access keys: whatever is shown.
LEMMA OthersFit ==
    ASSUME TypeOK,
           NEW q, \/ kind = "AttachFile" /\ q \in AttachFilesView
                  \/ kind = "UserParameter" /\ q \in UserParametersView
                  \/ kind = "AccessKey" /\ q \in AccessKeysView
    PROVE  Fits(q)
<1>1. CASE \/ q = [NewForm EXCEPT !.config = TRUE]
           \/ kind = "AccessKey" /\ q = NewForm
  BY <1>1, FormNew DEF Fits, WellFormed, Form
<1>2. ASSUME NEW i \in Shown,
             \/ q = [Change("patch", i) EXCEPT !.config = TRUE]
             \/ q = [Change("remove", i) EXCEPT !.config = TRUE]
             \/ kind = "AccessKey" /\ q = Change("remove", i)
      PROVE  Fits(q)
  <2>1. PICK o \in {"patch", "remove"}, p \in Form :
          /\ p = Change(o, i) /\ p.op = o /\ p.id = i /\ p.check = "none" /\ ~ p.informed
          /\ q = [p EXCEPT !.config = TRUE] \/ (kind = "AccessKey" /\ q = p)
    BY <1>2, FormOf
  <2>2. /\ q \in Form /\ q.op = o /\ q.id = i /\ q.check = "none" /\ ~ q.informed
        /\ q.config \/ kind = "AccessKey"
    BY <2>1 DEF Form
  <2> QED
    BY <2>2, FormOf DEF Fits, WellFormed
<1>3. CASE kind = "AttachFile"
  BY <1>1, <1>2, <1>3
  DEF AttachFilesView, AttachFileTable, AttachFileDialog, AttachFileDeleteDialog
<1>4. CASE kind = "UserParameter"
  BY <1>1, <1>2, <1>4
  DEF UserParametersView, UserParameterTable, UserParameterDialog, UserParameterDeleteDialog
<1>5. CASE kind = "AccessKey"
  BY <1>1, <1>2, <1>5
  DEF AccessKeysView, AccessKeysList, AccessKeyCard, AccessKeyCreateDialog
<1> QED
  BY <1>3, <1>4, <1>5

\* Streams: a name is asked for when it is new, and stays.
LEMMA StreamsFit ==
    ASSUME TypeOK, kind = "Stream", NEW q \in StreamsView PROVE Fits(q)
<1>1. CASE q \in StreamBasicInfoCreate
  <2>1. PICK n \in Names : q = [[NewForm EXCEPT !.name = n] EXCEPT !.check = "asked"]
    BY <1>1 DEF StreamBasicInfoCreate, StreamNameTextField
  <2> QED
    BY <2>1, FormNew DEF Fits, WellFormed, Form
<1>2. ASSUME NEW i \in Shown, q \in StreamBasicInfoUpdate(i) PROVE Fits(q)
  <2>1. q = [Change("patch", i) EXCEPT !.config = TRUE]
    BY <1>2 DEF StreamBasicInfoUpdate, StreamNameTextField
  <2>2. PICK p \in Form : p = Change("patch", i) /\ p.op = "patch" /\ p.id = i /\ ~ p.informed
                         /\ p.check = "none"
    BY FormOf
  <2>3. /\ q \in Form /\ q.op = "patch" /\ q.id = i /\ ~ q.informed /\ q.config
        /\ q.check = "none"
    BY <2>1, <2>2 DEF Form
  <2> QED
    BY <2>3, FormOf DEF Fits, WellFormed
<1>3. ASSUME NEW i \in Shown, q \in StreamDeleteDialog(i) PROVE Fits(q)
  <2>1. q = Change("remove", i)
    BY <1>3 DEF StreamDeleteDialog
  <2> QED
    BY <2>1, FormOf DEF Fits, WellFormed, Form
<1> QED
  BY <1>1, <1>2, <1>3 DEF StreamsView, StreamsTable

\* Together: what any page offers.
LEMMA OfferedFit ==
    ASSUME TypeOK, NEW q \in Offered PROVE Fits(q)
<1>1. kind \in Kinds
  BY DEF TypeOK
<1> QED
  BY <1>1, PublicKeysFit, EncryptKeysFit, MembersFit, OthersFit, StreamsFit DEF Offered, Kinds

-----------------------------------------------------------------------------
(***************************************************************************)
(* Forms and requests on their way                                         *)
(***************************************************************************)
\* The same request, which may no longer be heard.
Kept(k, l) == l # NoCall /\ l.form = k.form /\ l.state = k.state /\ l.answer = k.answer

\* The same request, after a change of the rows.
Overtaken(k, l) ==
    l # NoCall /\ l.form = Behind(k.form) /\ l.state = k.state /\ l.answer = k.answer

\* What a form is after a change of the rows.
LEMMA BehindForm ==
    ASSUME NEW q \in Form
    PROVE  /\ Behind(q) \in Form /\ Behind(q) # NoForm
           /\ Behind(q).op = q.op /\ Behind(q).id = q.id /\ Behind(q).name = q.name
           /\ Behind(q).scope = q.scope /\ Behind(q).config = q.config
           /\ ~ Behind(q).informed
           /\ Behind(q).check \in {"none", "asked", "overtaken"}
           /\ Behind(q).check = "none" <=> q.check = "none"
<1>1. q # NoForm /\ q.check \in {"none", "asked", "ok", "dup", "overtaken"}
  BY ConstantsAssumption DEF Form
<1>2. PICK v : v = IF q.check \in {"ok", "dup"} THEN "overtaken" ELSE q.check
  OBVIOUS
<1>3. /\ v \in {"none", "asked", "overtaken"}
      /\ v = "none" <=> q.check = "none"
  BY <1>1, <1>2
<1>4. Behind(q) = [q EXCEPT !.informed = FALSE, !.check = v]
  BY <1>1, <1>2 DEF Behind
<1>5. [q EXCEPT !.informed = FALSE, !.check = v] \in Form
  BY <1>3 DEF Form
<1> QED
  BY <1>3, <1>4, <1>5, ConstantsAssumption DEF Form

\* The fields of a request.
LEMMA CallFields ==
    ASSUME NEW k \in Call
    PROVE  /\ k # NoCall /\ k.form \in Form /\ k.state \in {"sent", "ok"}
           /\ k.answer \in RowOrNone /\ k.heard \in BOOLEAN
  BY ConstantsAssumption DEF Call
LEMMA CallUnheard ==
    ASSUME NEW k \in Call
    PROVE  /\ [k EXCEPT !.heard = FALSE] \in Call /\ ~ [k EXCEPT !.heard = FALSE].heard
           /\ Kept(k, [k EXCEPT !.heard = FALSE])
<1>1. [k EXCEPT !.heard = FALSE] \in Call
  BY DEF Call
<1> QED
  BY <1>1, CallFields DEF Kept, Call
LEMMA CallBehind ==
    ASSUME NEW k \in Call
    PROVE  /\ [k EXCEPT !.form = Behind(k.form)] \in Call
           /\ [k EXCEPT !.form = Behind(k.form)].heard = k.heard
           /\ Overtaken(k, [k EXCEPT !.form = Behind(k.form)])
<1>1. Behind(k.form) \in Form
  BY CallFields, BehindForm
<1>2. [k EXCEPT !.form = Behind(k.form)] \in Call
  BY <1>1 DEF Call
<1> QED
  BY <1>1, <1>2, CallFields DEF Overtaken, Call

\* The requests of a dialog that was closed, and those that others overtake.
LEMMA UnheardCalls ==
    ASSUME TypeOK
    PROVE  /\ Unheard \in [Calls -> Call \cup {NoCall}]
           /\ \A c \in Calls : calls[c] = NoCall => Unheard[c] = NoCall
           /\ \A c \in UnderWay : Kept(calls[c], Unheard[c]) /\ ~ Unheard[c].heard
<1>1. \A c \in Calls : calls[c] \in Call \cup {NoCall}
  BY DEF TypeOK
<1>2. \A c \in Calls : Unheard[c] = IF calls[c] = NoCall THEN NoCall
                                    ELSE [calls[c] EXCEPT !.heard = FALSE]
  BY DEF Unheard
<1>3. \A c \in Calls : Unheard[c] \in Call \cup {NoCall}
  BY <1>1, <1>2, CallUnheard
<1>4. Unheard \in [Calls -> Call \cup {NoCall}]
  BY <1>2, <1>3 DEF Unheard
<1> QED
  BY <1>1, <1>2, <1>4, CallUnheard DEF UnderWay
LEMMA OvertakenCalls ==
    ASSUME TypeOK
    PROVE  /\ CallsBehind \in [Calls -> Call \cup {NoCall}]
           /\ \A c \in Calls : calls[c] = NoCall => CallsBehind[c] = NoCall
           /\ \A c \in UnderWay : /\ Overtaken(calls[c], CallsBehind[c])
                                  /\ CallsBehind[c].heard = calls[c].heard
<1>1. \A c \in Calls : calls[c] \in Call \cup {NoCall}
  BY DEF TypeOK
<1>2. \A c \in Calls : CallsBehind[c] = IF calls[c] = NoCall THEN NoCall
                                        ELSE [calls[c] EXCEPT !.form = Behind(calls[c].form)]
  BY DEF CallsBehind
<1>3. \A c \in Calls : CallsBehind[c] \in Call \cup {NoCall}
  BY <1>1, <1>2, CallBehind
<1>4. CallsBehind \in [Calls -> Call \cup {NoCall}]
  BY <1>2, <1>3 DEF CallsBehind
<1> QED
  BY <1>1, <1>2, <1>4, CallBehind DEF UnderWay

\* The types of the dialog and of the requests.
TabOK == /\ form \in Form \cup {NoForm}
         /\ calls \in [Calls -> Call \cup {NoCall}]
         /\ form = NoForm => \A c \in Calls : calls[c] # NoCall => ~ calls[c].heard

\* The requests S end, the others go on.
Ends(S) == /\ \A c \in S : calls'[c] = NoCall
           /\ \A c \in Calls \ S : calls[c] = NoCall => calls'[c] = NoCall
           /\ \A c \in UnderWay \ S : Kept(calls[c], calls'[c])

\* Steps of the tab that send nothing and leave the form, or close it.
LEMMA EndsClosed ==
    ASSUME TypeOK, NEW c \in Calls,
           form' = NoForm /\ calls' = [Unheard EXCEPT ![c] = NoCall]
    PROVE  TabOK' /\ Ends({c})
<1>1. \A d \in Calls : calls'[d] = IF d = c THEN NoCall ELSE Unheard[d]
  BY UnheardCalls
<1>2. TabOK'
  BY <1>1, UnheardCalls DEF TabOK, UnderWay
<1> QED
  BY <1>1, <1>2, UnheardCalls DEF Ends, UnderWay
LEMMA EndsOpen ==
    ASSUME TypeOK, NEW c \in Calls,
           form' = form /\ calls' = [calls EXCEPT ![c] = NoCall]
    PROVE  TabOK' /\ Ends({c})
<1>1. \A d \in Calls : calls'[d] = IF d = c THEN NoCall ELSE calls[d]
  BY DEF TypeOK
<1>2. TabOK'
  BY <1>1 DEF TabOK, TypeOK
<1> QED
  BY <1>1, <1>2 DEF Ends, UnderWay, Kept
LEMMA EndsRequest ==
    ASSUME TypeOK, NEW c \in Calls, Refuse(c) \/ Fail(c) \/ AnswerLost(c) \/ Answered(c)
    PROVE  /\ TabOK' /\ Ends({c}) /\ form' \in {form, NoForm} /\ calls[c] # NoCall
           /\ UNCHANGED server
<1>1. \/ form' = NoForm /\ calls' = [Unheard EXCEPT ![c] = NoCall]
      \/ form' = form /\ calls' = [calls EXCEPT ![c] = NoCall]
  BY DEF Refuse, Fail, AnswerLost, Answered, AnsweredWithError, Close
<1>2. calls[c] # NoCall /\ UNCHANGED server
  BY DEF Refuse, Fail, AnswerLost, Answered, Is
<1> QED
  BY <1>1, <1>2, EndsClosed, EndsOpen
LEMMA EndsNone ==
    ASSUME TypeOK, Cancel \/ UNCHANGED <<form, calls>>
    PROVE  TabOK' /\ Ends({}) /\ form' \in {form, NoForm}
<1>1. CASE Cancel
  BY <1>1, UnheardCalls DEF Cancel, Close, TabOK, Ends, UnderWay
<1>2. CASE UNCHANGED <<form, calls>>
  BY <1>2 DEF TabOK, TypeOK, Ends, UnderWay, Kept
<1> QED
  BY <1>1, <1>2

-----------------------------------------------------------------------------
(***************************************************************************)
(* Types                                                                   *)
(***************************************************************************)
LEMMA TypeInit == Init => TypeOK /\ answers \subseteq Answer
<1> SUFFICES ASSUME Init PROVE TypeOK /\ answers \subseteq Answer
  OBVIOUS
<1>1. PICK o \in Names : o # Me
  <2>1. Cardinality({Me}) = 1 /\ (Names = {Me} => Cardinality(Names) = 1)
    BY FS_Singleton
  <2> QED
    BY <2>1, ConstantsAssumption
<1>2. (CHOOSE m \in Names : m # Me) \in Names
  BY <1>1
<1>3. ids \in 0 .. MaxIds /\ kind \in Kinds /\ Me \in Names /\ MaxChanges \in Nat
  BY ConstantsAssumption DEF Init, Kinds
<1>4. rows \in [Ids -> RowOrNone]
  <2> DEFINE n(i) == IF i = 2 /\ kind \in {"Member", "Stream"}
                       THEN CHOOSE m \in Names : m # Me ELSE Me
             f(i) == kind \in {"PublicKey", "EncryptKey"} => i = ids
             l(i) == kind = "EncryptKey" => i = ids
             r(i) == [name |-> n(i), flag |-> f(i), latest |-> l(i), stamp |-> 0]
  <2>1. \A i \in Ids : n(i) \in Names /\ f(i) \in BOOLEAN /\ l(i) \in BOOLEAN
    BY <1>2, <1>3
  <2>2. \A i \in Ids : r(i) \in Row
    <3> HIDE DEF n, f, l
    <3> QED BY <2>1, <1>3 DEF Row
  <2>3. rows = [i \in Ids |-> IF i <= ids THEN r(i) ELSE NoRow]
    BY DEF Init, Before
  <2> HIDE DEF r
  <2> QED
    BY <2>2, <2>3 DEF RowOrNone
<1>5. asked \subseteq Query
  BY DEF Init, Everything, Query
<1>6. store \in [Ids -> RowOrNone]
  BY DEF Init, RowOrNone
<1>7. /\ form = NoForm /\ calls = [c \in Calls |-> NoCall] /\ changes = 0
      /\ cfg = FALSE /\ cfgAsked \in BOOLEAN /\ cfgAnswers = {} /\ answers = {}
      /\ stale = TRUE /\ gone = {} /\ cfgStale = TRUE
  BY DEF Init
<1>8. /\ 0 \in 0 .. MaxChanges /\ form \in Form \cup {NoForm}
      /\ calls \in [Calls -> Call \cup {NoCall}] /\ \A c \in Calls : calls[c] = NoCall
  BY <1>3, <1>7
<1>9. ids \in 0 .. MaxIds /\ kind \in Kinds
  BY <1>3
<1> QED
  BY <1>4, <1>5, <1>6, <1>7, <1>8, <1>9 DEF TypeOK

\* The form of a request, and of the dialog.
LEMMA CallForm ==
    ASSUME IInv, NEW c \in UnderWay
    PROVE  /\ calls[c] \in Call /\ calls[c].form \in Form /\ WellFormed(calls[c].form)
           /\ Right(calls[c].form) /\ calls[c].form.check # "dup" /\ Plain(calls[c].form)
           /\ calls[c].state \in {"sent", "ok"}
<1>1. calls[c] \in Call
  BY DEF IInv, TypeOK, UnderWay
<1>2. /\ WellFormed(calls[c].form) /\ Right(calls[c].form)
      /\ calls[c].form.check # "dup"
  BY DEF IInv, FormInv
<1>3. Plain(calls[c].form)
  BY <1>1, <1>2, CallFields DEF WellFormed, Plain, Form
<1> QED
  BY <1>1, <1>2, <1>3, CallFields
LEMMA DialogForm ==
    ASSUME IInv, form # NoForm PROVE form \in Form /\ WellFormed(form) /\ Right(form)
  BY DEF IInv, TypeOK, FormInv

\* The row that an answer makes of what the tab knows is a row.
LEMMA CompletedRow ==
    ASSUME IInv, NEW c \in Calls, Is(c, "ok")
    PROVE  /\ calls[c].form \in Form /\ calls[c].form.id \in Ids
           /\ Completed(calls[c]) \in RowOrNone
           /\ c \in UnderWay
<1>1. PICK k : k = calls[c]
  OBVIOUS
<1>2. c \in UnderWay /\ k.state = "ok"
  BY <1>1 DEF Is, UnderWay
<1>3. /\ k \in Call /\ k.form \in Form /\ k.answer \in RowOrNone /\ k.form.id \in 1 .. ids
      /\ ids \in 0 .. MaxIds /\ rows \in [Ids -> RowOrNone]
  BY <1>1, <1>2, CallForm, CallFields DEF IInv, TypeOK, FormInv, Done
<1>4. k.form.id \in Ids
  BY <1>3, ConstantsAssumption DEF Ids
<1>5. CASE kind = "EncryptKey" /\ k.answer # NoRow
  <2>1. rows[k.form.id] \in Row /\ k.answer \in Row
    BY <1>3, <1>4, <1>5 DEF IInv, ServerInv, RowOrNone
  <2>2. \A b \in BOOLEAN : [k.answer EXCEPT !.latest = b] \in Row
    BY <2>1 DEF Row
  <2>3. (k.form.op = "create" \/ rows[k.form.id].latest) \in BOOLEAN
    BY <2>1, RowFields
  <2>4. Completed(k) = [k.answer EXCEPT !.latest = k.form.op = "create"
                                                    \/ rows[k.form.id].latest]
    BY <1>5 DEF Completed
  <2>5. Completed(k) \in Row
    BY <2>2, <2>3, <2>4
  <2> QED
    BY <1>1, <1>2, <1>3, <1>4, <2>5 DEF RowOrNone
<1>6. CASE ~ (kind = "EncryptKey" /\ k.answer # NoRow)
  BY <1>1, <1>2, <1>3, <1>4, <1>6 DEF Completed
<1> QED
  BY <1>5, <1>6

\* A form is sent: the new request, the others, and the store after the row was
\* committed to it.
LEMMA Submitted ==
    ASSUME IInv, NEW c \in Calls, Submit(c)
    PROVE  /\ form \in Form /\ WellFormed(form) /\ Right(form) /\ form.check # "dup"
           /\ TabOK' /\ form' \in {form, NoForm}
           /\ calls[c] = NoCall /\ calls'[c] # NoCall /\ calls'[c].form = form
           /\ calls'[c].state = "sent"
           /\ \A d \in Calls \ {c} : calls[d] = NoCall => calls'[d] = NoCall
           /\ \A d \in UnderWay : d # c /\ Kept(calls[d], calls'[d])
<1>1. form \in Form /\ WellFormed(form) /\ Right(form) /\ form.check # "dup"
      /\ TypeOK /\ calls[c] = NoCall
  BY DialogForm DEF Submit, IInv
<1>2. PICK waits \in BOOLEAN : waits = (kind # "AccessKey" \/ form.op # "remove")
  OBVIOUS
<1>3. PICK new : new = [form |-> form, state |-> "sent", answer |-> NoRow, heard |-> waits]
  OBVIOUS
<1>4. /\ new \in Call /\ new # NoCall /\ new.form = form /\ new.state = "sent"
      /\ new.heard = waits
  BY <1>1, <1>3, CallFields DEF Call, RowOrNone
<1>5. IF waits THEN form' = form /\ calls' = [calls EXCEPT ![c] = new]
               ELSE form' = NoForm /\ calls' = [Unheard EXCEPT ![c] = new]
  BY <1>2, <1>3 DEF Submit, Close
<1>6. CASE waits
  <2>1. \A d \in Calls : calls'[d] = IF d = c THEN new ELSE calls[d]
    BY <1>1, <1>5, <1>6 DEF TypeOK
  <2>2. TabOK'
    BY <1>1, <1>4, <1>5, <1>6, <2>1, ConstantsAssumption DEF TabOK, TypeOK
  <2> QED
    BY <1>1, <1>4, <1>5, <1>6, <2>1, <2>2 DEF UnderWay, Kept
<1>7. CASE ~ waits
  <2>1. \A d \in Calls : calls'[d] = IF d = c THEN new ELSE Unheard[d]
    BY <1>1, <1>5, <1>7, UnheardCalls
  <2>2. TabOK'
    BY <1>1, <1>4, <1>5, <1>7, <2>1, UnheardCalls DEF TabOK, UnderWay
  <2> QED
    BY <1>1, <1>4, <1>5, <1>7, <2>1, <2>2, UnheardCalls DEF UnderWay
<1> QED
  BY <1>6, <1>7
LEMMA Committed ==
    ASSUME IInv, NEW c \in Calls, Submit(c)
    PROVE  /\ store' \in [Ids -> RowOrNone]
           /\ \A i \in Ids : store'[i] = NoRow <=> store[i] = NoRow
           /\ \A i \in Ids : store'[i] # store[i] => i = form.id /\ Eager(form)
<1>1. form \in Form /\ store \in [Ids -> RowOrNone] /\ WellFormed(form)
  BY Submitted DEF IInv, TypeOK
<1>2. CASE Eager(form) /\ store[form.id] # NoRow
  <2>1. form.id \in Ids /\ store[form.id] \in Row
    BY <1>1, <1>2 DEF Eager, WellFormed, RowOrNone
  <2> DEFINE r == [store[form.id] EXCEPT !.flag = form.flag, !.stamp = Unsaved]
  <2>2. Unsaved \in 0 .. MaxChanges + 1
    BY ConstantsAssumption DEF Unsaved
  <2>3. r \in Row
    BY <1>1, <2>1, <2>2 DEF Row, Form
  <2>4. store' = [store EXCEPT ![form.id] = r]
    BY <1>2 DEF Submit
  <2> HIDE DEF r
  <2> QED
    BY <1>1, <1>2, <2>1, <2>3, <2>4, RowFields DEF RowOrNone
<1>3. CASE ~ (Eager(form) /\ store[form.id] # NoRow)
  BY <1>1, <1>3 DEF Submit
<1> QED
  BY <1>2, <1>3

\* A request changes the rows: its answer, the others, and the form of the dialog.
LEMMA Overtakes ==
    ASSUME TypeOK, form' = Behind(form)
    PROVE  form' \in Form \cup {NoForm} /\ (form' = NoForm <=> form = NoForm)
<1>1. CASE form = NoForm
  BY <1>1 DEF Behind
<1>2. CASE form # NoForm
  BY <1>2, BehindForm DEF TypeOK
<1> QED
  BY <1>1, <1>2
LEMMA Served ==
    ASSUME IInv, NEW c \in Calls, Serve(c), NEW q, q = calls[c].form
    PROVE  /\ c \in UnderWay /\ calls[c].state = "sent"
           /\ Plain(q) /\ ~ Refused(q, Me) /\ Apply(q) /\ q \in Form /\ WellFormed(q)
           /\ TabOK' /\ form' = Behind(form)
           /\ \A d \in Calls \ {c} : calls[d] = NoCall => calls'[d] = NoCall
           /\ \A d \in UnderWay \ {c} : Overtaken(calls[d], calls'[d])
           /\ calls'[c] # NoCall /\ calls'[c].state = "ok"
           /\ calls'[c].answer = rows'[Target(q)]
           /\ calls'[c].form = [Behind(q) EXCEPT !.id = Target(q)]
<1>1. c \in UnderWay /\ calls[c].state = "sent" /\ TypeOK /\ ServerInv
  BY DEF Serve, Is, UnderWay, IInv
<1>2. /\ Plain(q) /\ ~ Refused(q, Me) /\ Apply(q) /\ q \in Form /\ WellFormed(q)
      /\ calls[c] \in Call
  BY <1>1, CallForm DEF Serve
<1>3. Target(q) \in Ids /\ rows' \in [Ids -> RowOrNone]
  BY <1>1, <1>2, ApplyRows
<1>4. PICK new : new = [form   |-> [Behind(q) EXCEPT !.id = Target(q)], state |-> "ok",
                        answer |-> rows'[Target(q)], heard |-> calls[c].heard]
  OBVIOUS
<1>5. [Behind(q) EXCEPT !.id = Target(q)] \in Form
  BY <1>2, <1>3, BehindForm, FormFields
<1>6. /\ new \in Call /\ new # NoCall /\ new.state = "ok"
      /\ new.answer = rows'[Target(q)] /\ new.heard = calls[c].heard
      /\ new.form = [Behind(q) EXCEPT !.id = Target(q)]
  BY <1>2, <1>3, <1>4, <1>5, CallFields DEF Call
<1>7. calls' = [CallsBehind EXCEPT ![c] = new] /\ form' = Behind(form)
  BY <1>4 DEF Serve
<1>8. \A d \in Calls : calls'[d] = IF d = c THEN new ELSE CallsBehind[d]
  BY <1>1, <1>7, OvertakenCalls
<1>9. TabOK'
  <2>1. calls' \in [Calls -> Call \cup {NoCall}]
    BY <1>1, <1>6, <1>7, OvertakenCalls
  <2>2. form' \in Form \cup {NoForm} /\ (form' = NoForm <=> form = NoForm)
    BY <1>1, <1>7, Overtakes
  <2>3. ASSUME form = NoForm, NEW d \in Calls, calls'[d] # NoCall PROVE ~ calls'[d].heard
    <3>1. d \in UnderWay /\ calls'[d].heard = calls[d].heard
      BY <1>1, <1>6, <1>8, <2>3, OvertakenCalls DEF UnderWay
    <3> QED
      BY <1>1, <2>3, <3>1 DEF TypeOK, UnderWay
  <2> QED
    BY <2>1, <2>2, <2>3 DEF TabOK
<1> QED
  BY <1>1, <1>2, <1>6, <1>7, <1>8, <1>9, OvertakenCalls

LEMMA OthersOvertake ==
    ASSUME TypeOK, form' = Behind(form), calls' = CallsBehind
    PROVE  /\ TabOK'
           /\ \A d \in Calls : calls[d] = NoCall => calls'[d] = NoCall
           /\ \A d \in UnderWay : Overtaken(calls[d], calls'[d])
<1>1. form' \in Form \cup {NoForm} /\ (form' = NoForm <=> form = NoForm)
  BY Overtakes
<1>2. ASSUME form = NoForm, NEW d \in Calls, calls'[d] # NoCall PROVE ~ calls'[d].heard
  <2>1. d \in UnderWay /\ calls'[d].heard = calls[d].heard
    BY <1>2, OvertakenCalls DEF UnderWay
  <2> QED
    BY <1>2, <2>1 DEF TypeOK, UnderWay
<1> QED
  BY <1>1, <1>2, OvertakenCalls DEF TabOK

\* What is on its way from before a change.
LEMMA OldAnswers ==
    ASSUME answers \subseteq Answer
    PROVE  /\ {[a EXCEPT !.old = TRUE] : a \in answers} \subseteq Answer
           /\ \A b \in {[a EXCEPT !.old = TRUE] : a \in answers} :
                b.old /\ \E a \in answers : b.rows = a.rows /\ b.full = a.full
           /\ \A a \in answers : \E b \in {[c EXCEPT !.old = TRUE] : c \in answers} :
                b.old /\ b.rows = a.rows
<1>1. ASSUME NEW a \in answers
      PROVE  /\ [a EXCEPT !.old = TRUE] \in Answer /\ [a EXCEPT !.old = TRUE].old
             /\ [a EXCEPT !.old = TRUE].rows = a.rows /\ [a EXCEPT !.old = TRUE].full = a.full
  BY DEF Answer
<1> QED
  BY <1>1

\* The requests of others.
LEMMA AnyPlain ==
    ASSUME IInv, NEW q \in AnyRequest PROVE Plain(q)
<1>1. PICK o \in OtherOps, i \in Ids :
        q \in {Request(o, i, n, f) : n \in OtherNames, f \in OtherFlags}
  BY DEF AnyRequest
<1>2. PICK n \in OtherNames, f \in OtherFlags : q = Request(o, i, n, f)
  BY <1>1
<1>3. /\ o \in {"create", "patch", "remove"} /\ (kind = "EncryptKey" => o # "remove")
      /\ f \in BOOLEAN /\ n \in Names
  BY ConstantsAssumption DEF OtherOps, OtherNames, OtherFlags
<1> QED
  BY <1>2, <1>3, FormNew DEF Request, Plain, Form
\* Every action keeps the types.
LEMMA TypeStep == ASSUME IInv, Next PROVE (TypeOK /\ answers \subseteq Answer)'
<1>1. TypeOK /\ answers \subseteq Answer
  BY DEF IInv
<1> USE DEF server, find, config
<1>2. ASSUME NEW q \in Offered, Open(q) PROVE (TypeOK /\ answers \subseteq Answer)'
  <2>1. q \in Form /\ WellFormed(q) /\ (q.id = 0 \/ q.id \in Ids)
    BY <1>1, OfferedFit DEF Fits, Shown
  <2>2. form' \in Form /\ form' # NoForm /\ UNCHANGED calls
    BY <1>2, <2>1, FormFields, ConstantsAssumption DEF Open
  <2>3. asked' \subseteq Query
    BY <1>1, <1>2, <2>1 DEF Open, TypeOK, Query
  <2> QED
    BY <1>1, <1>2, <2>2, <2>3 DEF Open, TypeOK
<1>3. CASE RuleAnswered
  <2>1. /\ form \in Form /\ form' \in Form /\ form' # NoForm
        /\ UNCHANGED <<server, store, calls, find, config, stale, gone>>
    BY <1>1, <1>3, FormFields, ConstantsAssumption DEF RuleAnswered, TypeOK
  <2> QED
    BY <1>1, <2>1 DEF TypeOK
<1>4. CASE Cancel
  BY <1>1, <1>4, EndsNone DEF Cancel, TabOK, TypeOK
<1>5. ASSUME NEW c \in Calls, Submit(c) PROVE (TypeOK /\ answers \subseteq Answer)'
  <2>1. store' \in [Ids -> RowOrNone] /\ TabOK'
    BY <1>5, Committed, Submitted
  <2> QED
    BY <1>1, <1>5, <2>1 DEF Submit, TabOK, TypeOK
<1>6. ASSUME NEW c \in Calls, Refuse(c) \/ Fail(c)
       PROVE  (TypeOK /\ answers \subseteq Answer)'
  <2>1. /\ TabOK' /\ stale' \in BOOLEAN
        /\ UNCHANGED <<server, store, find, config, gone>>
    BY <1>1, <1>6, EndsRequest DEF Refuse, Fail
  <2> QED
    BY <1>1, <2>1 DEF TabOK, TypeOK
<1>7. ASSUME NEW c \in Calls, AnswerLost(c) PROVE (TypeOK /\ answers \subseteq Answer)'
  <2>1. TabOK' /\ Is(c, "ok")
    BY <1>1, <1>7, EndsRequest DEF AnswerLost
  <2>2. calls[c].form.id \in Ids
    BY <2>1, CompletedRow
  <2>3. /\ stale' = TRUE /\ gone' \subseteq Ids /\ cfgStale' \in BOOLEAN
        /\ UNCHANGED <<server, store, find, cfg, cfgAsked, cfgAnswers>>
    BY <1>1, <1>7, <2>2 DEF AnswerLost, TypeOK
  <2> QED
    BY <1>1, <2>1, <2>3 DEF TabOK, TypeOK
<1>8. ASSUME NEW q, Apply(q), answers' = {[a EXCEPT !.old = TRUE] : a \in answers}
      PROVE  /\ (answers \subseteq Answer)' /\ cfg' \in BOOLEAN /\ cfgAnswers' \subseteq BOOLEAN
             /\ kind' \in Kinds
  <2>1. (answers \subseteq Answer)'
    BY <1>1, <1>8, OldAnswers
  <2>2. cfg' \in BOOLEAN /\ cfgAnswers' \subseteq BOOLEAN
    <3>1. CASE kind = "Stream" /\ q.op # "patch"
      BY <1>1, <1>8, <3>1 DEF Apply, TypeOK
    <3>2. CASE ~ (kind = "Stream" /\ q.op # "patch")
      <4>1. cfg' = FALSE /\ cfgAnswers' = {FALSE : c \in cfgAnswers}
        BY <1>8, <3>2 DEF Apply
      <4>2. {FALSE : c \in cfgAnswers} \subseteq BOOLEAN
        BY Zenon
      <4> QED
        BY <4>1, <4>2
    <3> QED
      BY <3>1, <3>2
  <2> QED
    BY <1>1, <1>8, <2>1, <2>2 DEF Apply, TypeOK
<1>9. ASSUME NEW c \in Calls, Serve(c) PROVE (TypeOK /\ answers \subseteq Answer)'
  <2>1. PICK q : q = calls[c].form
    OBVIOUS
  <2>2. Plain(q) /\ Apply(q) /\ ~ Refused(q, Me) /\ TabOK'
    BY <1>9, <2>1, Served
  <2>3. /\ rows' \in [Ids -> RowOrNone] /\ ids' \in 0 .. MaxIds
        /\ changes' \in 0 .. MaxChanges
    BY <1>1, <2>2, ApplyRows DEF IInv
  <2>4. (answers \subseteq Answer)' /\ cfg' \in BOOLEAN /\ cfgAnswers' \subseteq BOOLEAN
        /\ kind' \in Kinds
    BY <1>8, <2>2 DEF Apply
  <2>5. stale' \in BOOLEAN
    <3>1. stale' = (stale \/ (q.check # "none" /\ Taken(q.name)))
      BY <1>9, <2>1 DEF Serve
    <3> QED
      BY <3>1
  <2>6. UNCHANGED <<store, asked, cfgAsked, cfgStale, gone>>
    BY <1>9 DEF Serve
  <2>7. TypeOK'
    BY <1>1, <2>2, <2>3, <2>4, <2>5, <2>6 DEF TypeOK, TabOK, Answer
  <2> QED
    BY <2>4, <2>7
<1>10. ASSUME NEW c \in Calls, Answered(c) PROVE (TypeOK /\ answers \subseteq Answer)'
  <2>1. TabOK' /\ Is(c, "ok")
    BY <1>1, <1>10, EndsRequest DEF Answered
  <2>2. PICK k : k = calls[c]
    OBVIOUS
  <2>3. PICK row : row = Completed(k)
    OBVIOUS
  <2>4. k.form \in Form /\ k.form.id \in Ids /\ row \in RowOrNone
    BY <2>1, <2>2, <2>3, CompletedRow
  <2>5. /\ store' = [store EXCEPT ![k.form.id] = row]
        /\ asked' \subseteq asked \cup {[names |-> k.form.scope, ids |-> Ids]}
        /\ gone' \subseteq gone \cup {k.form.id}
        /\ UNCHANGED <<server, answers, cfg, cfgAnswers>>
    BY <1>10, <2>2, <2>3 DEF Answered
  <2>6. stale' \in BOOLEAN /\ cfgStale' \in BOOLEAN /\ cfgAsked' \in BOOLEAN
    BY <1>1, <1>10 DEF Answered, TypeOK
  <2>7. [names |-> k.form.scope, ids |-> Ids] \in Query
    BY <2>4 DEF Query, Form
  <2> QED
    BY <1>1, <2>1, <2>4, <2>5, <2>6, <2>7 DEF TabOK, TypeOK
<1>11. ASSUME NEW q \in asked, ReadRows(q) PROVE (TypeOK /\ answers \subseteq Answer)'
  <2> DEFINE r == [i \in Ids |-> IF i \in Visible \cap q.ids /\ rows[i].name \in q.names
                                   THEN rows[i] ELSE NoRow]
             b == [rows |-> r, full |-> (q = Everything), old |-> FALSE]
  <2>1. r \in [Ids -> RowOrNone]
    BY <1>1 DEF TypeOK, RowOrNone
  <2>2. b \in Answer
    <3> HIDE DEF r
    <3> QED BY <2>1 DEF Answer
  <2>3. answers' = answers \cup {b} /\ asked' = asked \ {q}
        /\ UNCHANGED <<server, store, form, calls, config, stale, gone>>
    BY <1>11 DEF ReadRows
  <2> HIDE DEF b
  <2>4. answers' \subseteq Answer
    BY <1>1, <2>2, <2>3
  <2> QED
    BY <1>1, <2>3, <2>4 DEF TypeOK, Answer
<1>12. ASSUME NEW q \in asked, FindFails(q) PROVE (TypeOK /\ answers \subseteq Answer)'
  BY <1>1, <1>12 DEF FindFails, TypeOK
<1>13. ASSUME NEW a \in answers, FindAnswered(a) PROVE (TypeOK /\ answers \subseteq Answer)'
  <2>1. a.rows \in [Ids -> RowOrNone] /\ a.full \in BOOLEAN
    BY <1>1 DEF TypeOK
  <2>2. store' \in [Ids -> RowOrNone] /\ stale' \in BOOLEAN
    BY <1>1, <1>13, <2>1 DEF FindAnswered, TypeOK
  <2> QED
    BY <1>1, <1>13, <2>2 DEF FindAnswered, TypeOK
<1>14. CASE ReadConfig \/ ConfigFails \/ \E b \in cfgAnswers : ConfigAnswered(b)
  <2>1. CASE ReadConfig \/ ConfigFails
    <3>1. cfgAnswers \cup {TRUE} \subseteq BOOLEAN
      BY <1>1 DEF TypeOK
    <3>2. /\ cfgAnswers' \subseteq BOOLEAN /\ cfgStale' \in BOOLEAN /\ cfgAsked' = FALSE
          /\ UNCHANGED <<server, store, form, calls, find, cfg, stale, gone>>
      BY <1>1, <2>1, <3>1 DEF ReadConfig, ConfigFails, TypeOK
    <3> QED
      BY <1>1, <3>2 DEF TypeOK
  <2>2. ASSUME NEW c \in cfgAnswers, ConfigAnswered(c)
        PROVE  (TypeOK /\ answers \subseteq Answer)'
    <3>1. c \in BOOLEAN /\ (~ c) \in BOOLEAN
      BY <1>1 DEF TypeOK
    <3>2. cfg' \in BOOLEAN /\ cfgStale' \in BOOLEAN /\ cfgAnswers' \subseteq BOOLEAN
      BY <1>1, <2>2, <3>1 DEF ConfigAnswered, TypeOK
    <3> QED
      BY <1>1, <2>2, <3>2 DEF ConfigAnswered, TypeOK
  <2> QED
    BY <1>14, <2>1, <2>2
<1>15. ASSUME NEW q \in AnyRequest, NEW u, Other(q, u)
       PROVE  (TypeOK /\ answers \subseteq Answer)'
  <2>1. Plain(q) /\ Apply(q) /\ ~ Refused(q, u)
    BY <1>15, AnyPlain DEF Other
  <2>2. /\ rows' \in [Ids -> RowOrNone] /\ ids' \in 0 .. MaxIds
        /\ changes' \in 0 .. MaxChanges
    BY <1>1, <2>1, ApplyRows DEF IInv
  <2>3. (answers \subseteq Answer)' /\ cfg' \in BOOLEAN /\ cfgAnswers' \subseteq BOOLEAN
        /\ kind' \in Kinds
    BY <1>8, <2>1 DEF Apply
  <2>4. gone' \subseteq Ids
    BY <1>1, <1>15 DEF Other, TypeOK, Visible, Live
  <2>5. TabOK'
    BY <1>1, <1>15, OthersOvertake DEF Other
  <2> QED
    BY <1>1, <1>15, <2>2, <2>3, <2>4, <2>5 DEF Other, TypeOK, TabOK, Answer
<1>16. CASE Reload
  <2>1. cfgAsked' \in BOOLEAN /\ store' \in [Ids -> RowOrNone] /\ asked' \subseteq Query
    BY <1>16 DEF Reload, Everything, Query, RowOrNone
  <2>2. calls' \in [Calls -> Call \cup {NoCall}] /\ \A c \in Calls : calls'[c] = NoCall
    BY <1>16 DEF Reload
  <2> QED
    BY <1>1, <1>16, <2>1, <2>2 DEF Reload, Close, TypeOK
<1> QED
  BY <1>2, <1>3, <1>4, <1>5, <1>6, <1>7, <1>9, <1>10, <1>11, <1>12, <1>13, <1>14, <1>15,
     <1>16, Next DEF Next

-----------------------------------------------------------------------------
(***************************************************************************)
(* The server                                                              *)
(***************************************************************************)
\* Requests of the tab, requests of others, and steps that leave the server alone.
Changes(q, u) == Plain(q) /\ ~ Refused(q, u) /\ Apply(q)
Changing == \/ \E c \in Calls : Serve(c) /\ Changes(calls[c].form, Me)
            \/ \E q \in AnyRequest, u \in Names : Other(q, u) /\ Changes(q, u)

LEMMA ServerMoves == ASSUME IInv, Next PROVE Changing \/ UNCHANGED server
<1>1. ASSUME NEW c \in Calls, Serve(c) PROVE Changing
  BY <1>1, Served DEF Changes, Changing
<1>2. ASSUME NEW q \in AnyRequest, NEW u \in Names, Other(q, u) PROVE Changing
  BY <1>2, AnyPlain DEF Other, Changes, Changing
<1>3. CASE \E q \in Offered : Open(q)
  BY <1>3 DEF Open
<1>4. ASSUME NEW c \in Calls,
             Submit(c) \/ Refuse(c) \/ Fail(c) \/ AnswerLost(c) \/ Answered(c)
      PROVE  UNCHANGED server
  BY <1>4 DEF Submit, Refuse, Fail, AnswerLost, Answered
<1>5. CASE \/ RuleAnswered \/ Cancel
           \/ \E q \in asked : ReadRows(q) \/ FindFails(q)
           \/ \E a \in answers : FindAnswered(a)
  BY <1>5 DEF RuleAnswered, Cancel, ReadRows, FindFails, FindAnswered
<1>6. CASE ReadConfig \/ ConfigFails \/ (\E b \in cfgAnswers : ConfigAnswered(b)) \/ Reload
  BY <1>6 DEF ReadConfig, ConfigFails, ConfigAnswered, Reload
<1> QED
  BY <1>1, <1>2, <1>3, <1>4, <1>5, <1>6 DEF Next

\* What does not depend on anything but the server stays as it is with it.
LEMMA SameServer ==
    ASSUME UNCHANGED server
    PROVE  /\ Live' = Live /\ Visible' = Visible
           /\ \A n : Taken(n)' <=> Taken(n)
           /\ \A n : Admin(n)' <=> Admin(n)
  BY DEF server, Live, Visible, Taken, Admin

LEMMA ServerInit == Init => ServerInv
<1> SUFFICES ASSUME Init PROVE ServerInv
  OBVIOUS
<1>1. ids \in 0 .. 2 /\ rows = Before(ids)
  BY DEF Init
<1>2. \A i \in Ids : i > ids => rows[i] = NoRow
  BY <1>1, ConstantsAssumption DEF Before, Ids
<1>3. TypeOK
  BY TypeInit
<1>4. \A i \in Ids : i <= ids => rows[i] \in Row
  <2> SUFFICES ASSUME NEW i \in Ids, i <= ids PROVE rows[i] \in Row
    OBVIOUS
  <2> DEFINE r == [name   |-> IF i = 2 /\ kind \in {"Member", "Stream"}
                                THEN CHOOSE m \in Names : m # Me ELSE Me,
                   flag   |-> kind \in {"PublicKey", "EncryptKey"} => i = ids,
                   latest |-> kind = "EncryptKey" => i = ids, stamp |-> 0]
  <2>1. rows[i] = r
    BY <1>1 DEF Before
  <2>2. rows[i] \in RowOrNone
    BY <1>3 DEF TypeOK
  <2>3. r \in Row
    <3>1. \E m \in Names : m # Me
      <4>1. Cardinality({Me}) = 1 /\ (Names = {Me} => Cardinality(Names) = 1)
        BY FS_Singleton
      <4> QED
        BY <4>1, ConstantsAssumption
    <3>2. (IF i = 2 /\ kind \in {"Member", "Stream"}
             THEN CHOOSE m \in Names : m # Me ELSE Me) \in Names
      BY <3>1, ConstantsAssumption
    <3> QED
      BY <3>2, ConstantsAssumption DEF Row
  <2> QED
    BY <2>1, <2>3
<1>5. ids \in Ids => rows[ids].flag
  <2> SUFFICES ASSUME ids \in Ids PROVE rows[ids].flag
    OBVIOUS
  <2>1. rows[ids] = [name   |-> IF ids = 2 /\ kind \in {"Member", "Stream"}
                                  THEN CHOOSE m \in Names : m # Me ELSE Me,
                     flag   |-> kind \in {"PublicKey", "EncryptKey"} => ids = ids,
                     latest |-> kind = "EncryptKey" => ids = ids, stamp |-> 0]
    BY <1>1 DEF Before
  <2>2. rows[ids].flag = (kind \in {"PublicKey", "EncryptKey"} => ids = ids)
    BY <2>1
  <2> QED
    BY <2>2
<1>6. Live # {} => ids \in Live
  BY <1>1, <1>2, <1>4, RowFields, ConstantsAssumption DEF Live, Ids
<1>7. \A i \in 1 .. ids : i \in Ids /\ rows[i] # NoRow
  BY <1>1, <1>4, RowFields, ConstantsAssumption DEF Ids
<1> QED
  BY <1>1, <1>2, <1>5, <1>6, <1>7, ConstantsAssumption DEF ServerInv, Live, Ids

\* Only requests change the server.
LEMMA ServerStep == ASSUME IInv, Next PROVE ServerInv'
<1>1. CASE Changing
  BY <1>1, ApplyRows DEF Changing, Changes, IInv
<1>2. CASE UNCHANGED server
  BY <1>2, SameServer DEF IInv, ServerInv, server
<1> QED
  BY <1>1, <1>2, ServerMoves

-----------------------------------------------------------------------------
(***************************************************************************)
(* The forms: those of a page that is up to date, and what becomes of them *)
(***************************************************************************)
\* Such a page shows the rows of the server, and offers what the server accepts.
LEMMA Informed ==
    ASSUME IInv, Quiet, ~ stale, gone = {}
    PROVE  /\ Shown = Visible /\ \A i \in Visible : store[i] = rows[i]
<1>1. /\ \A i \in Ids \ Visible : store[i] = NoRow
      /\ \A i \in Visible : store[i] = rows[i] \/ Coming(i)
  BY DEF IInv, StoreInv, StoreB, StoreC, Quiet
<1>2. \A i : ~ Coming(i)
  BY DEF Quiet, Coming, UnderWay
<1>3. Visible \subseteq Ids /\ \A i \in Visible : rows[i] # NoRow
  BY DEF Visible, Live
<1> QED
  BY <1>1, <1>2, <1>3 DEF Shown

LEMMA InformedAdmissible ==
    ASSUME IInv, NEW q \in Offered, Quiet, ~ stale, gone = {} PROVE Admissible(q)
<1>1. Fits(q) /\ q \in Form /\ ServerInv /\ TypeOK
  BY OfferedFit DEF Fits, IInv
<1>2. Shown = Visible /\ \A i \in Visible : store[i] = rows[i]
  BY Informed
<1>3. Visible \subseteq Live /\ (kind # "Member" => Visible = Live)
  BY DEF Visible
<1>4. q.op # "create" => q.id \in Live
  BY <1>1, <1>2, <1>3 DEF Fits
<1>5. kind = "PublicKey" /\ q.op # "remove" /\ ~ q.flag => ~ Live \subseteq {q.id}
  <2> SUFFICES ASSUME kind = "PublicKey", q.op # "remove", ~ q.flag, Live \subseteq {q.id}
               PROVE  FALSE
    OBVIOUS
  <2>1. CASE q.op = "create"
    <3>1. q.id = 0 /\ Live # {}
      BY <1>1, <1>2, <1>3, <2>1 DEF Fits
    <3>2. 0 \notin Live
      BY ConstantsAssumption DEF Live, Ids
    <3> QED
      BY <3>1, <3>2
  <2>2. CASE q.op # "create"
    <3>1. q.id \in Live /\ Live = {q.id}
      BY <1>4, <2>2
    <3>2. rows[q.id].flag
      BY <1>1, <3>1 DEF ServerInv
    <3> QED
      BY <1>1, <1>2, <1>3, <2>2, <3>1, <3>2 DEF Fits
  <2> QED
    BY <2>1, <2>2
<1>6. kind = "EncryptKey" /\ q.op = "patch" => rows[q.id].latest
  BY <1>1, <1>2, <1>3 DEF Fits
<1>7. kind = "Member" /\ q.op # "create" => Admin(Me) /\ rows[q.id].name # Me
  <2> SUFFICES ASSUME kind = "Member", q.op # "create" PROVE Admin(Me) /\ rows[q.id].name # Me
    OBVIOUS
  <2>1. q.id \in Visible /\ store[q.id].name # Me
    BY <1>1, <1>2 DEF Fits
  <2> QED
    BY <1>2, <2>1 DEF Visible
<1> QED
  BY <1>4, <1>5, <1>6, <1>7 DEF Admissible

\* The claims of a form, as long as the server stays as it is.
LEMMA SameClaims ==
    ASSUME UNCHANGED server, NEW q
    PROVE  /\ WellFormed(q)' <=> WellFormed(q)
           /\ Right(q)' <=> Right(q)
<1>1. Admissible(q)' <=> Admissible(q)
  BY SameServer DEF Admissible, server
<1> QED
  BY <1>1, SameServer DEF WellFormed, Right, server

\* After a change a form claims nothing any more.
LEMMA NoClaims ==
    ASSUME kind' = kind, NEW q \in Form, WellFormed(q)
    PROVE  /\ WellFormed(Behind(q))' /\ Right(Behind(q))' /\ Behind(q).check # "dup"
           /\ \A i \in Ids : /\ WellFormed([Behind(q) EXCEPT !.id = i])'
                            /\ Right([Behind(q) EXCEPT !.id = i])'
                            /\ [Behind(q) EXCEPT !.id = i].check # "dup"
                            /\ [Behind(q) EXCEPT !.id = i].id = i
                            /\ [Behind(q) EXCEPT !.id = i].op = q.op
<1>1. PICK p : p = Behind(q)
  OBVIOUS
<1>2. /\ p \in Form /\ p.op = q.op /\ p.id = q.id /\ p.name = q.name /\ p.scope = q.scope
      /\ p.config = q.config /\ ~ p.informed /\ p.check \in {"none", "asked", "overtaken"}
      /\ p.check = "none" <=> q.check = "none"
  BY <1>1, BehindForm
<1>3. /\ WellFormed(p)' /\ Right(p)' /\ p.check # "dup"
  BY <1>2 DEF WellFormed, Right
<1>4. ASSUME NEW i \in Ids
      PROVE  /\ WellFormed([p EXCEPT !.id = i])' /\ Right([p EXCEPT !.id = i])'
             /\ [p EXCEPT !.id = i].check # "dup" /\ [p EXCEPT !.id = i].id = i
             /\ [p EXCEPT !.id = i].op = q.op
  <2>1. PICK r : r = [p EXCEPT !.id = i]
    OBVIOUS
  <2>2. /\ r.op = q.op /\ r.id = i /\ r.name = q.name /\ r.scope = q.scope
        /\ r.config = q.config /\ ~ r.informed /\ r.check = p.check
    BY <1>2, <2>1 DEF Form
  <2>3. WellFormed(r)' /\ Right(r)' /\ r.check # "dup"
    BY <1>2, <2>2 DEF WellFormed, Right
  <2> QED
    BY <2>1, <2>2, <2>3
<1> QED
  BY <1>1, <1>3, <1>4

\* The claims of the dialog and of a request.
DialogInv == form # NoForm => WellFormed(form) /\ Right(form)
CallInv(k) ==
    k # NoCall => /\ WellFormed(k.form) /\ Right(k.form) /\ k.form.check # "dup" /\ Done(k)

\* Requests that go on without a change of the rows.
LEMMA KeptInv ==
    ASSUME IInv, UNCHANGED server, NEW c \in UnderWay, Kept(calls[c], calls'[c])
    PROVE  CallInv(calls[c])'
<1>1. PICK k : k = calls[c]
  OBVIOUS
<1>2. PICK l : l = calls'[c]
  OBVIOUS
<1>3. /\ WellFormed(k.form) /\ Right(k.form) /\ k.form.check # "dup" /\ Done(k)
  BY <1>1 DEF IInv, FormInv
<1>4. /\ l.form = k.form /\ l.state = k.state /\ l.answer = k.answer
  BY <1>1, <1>2 DEF Kept
<1>5. WellFormed(k.form)' /\ Right(k.form)' /\ ids' = ids
  BY <1>3, SameClaims DEF server
<1> QED
  BY <1>2, <1>3, <1>4, <1>5 DEF CallInv, Done

\* Requests that others have overtaken.
LEMMA OvertakenInv ==
    ASSUME IInv, NEW c \in UnderWay, kind' = kind, ids' \in 0 .. MaxIds, ids <= ids',
           Overtaken(calls[c], calls'[c])
    PROVE  CallInv(calls[c])'
<1>1. PICK k : k = calls[c]
  OBVIOUS
<1>2. PICK l : l = calls'[c]
  OBVIOUS
<1>3. k.form \in Form /\ WellFormed(k.form) /\ Done(k) /\ ids \in 0 .. MaxIds
  BY <1>1, CallForm DEF IInv, FormInv, TypeOK
<1>4. /\ l.form = Behind(k.form) /\ l.state = k.state /\ l.answer = k.answer
  BY <1>1, <1>2 DEF Overtaken
<1>5. l.form.id = k.form.id /\ l.form.op = k.form.op
  BY <1>3, <1>4, BehindForm
<1>6. \A i \in 1 .. ids : i \in 1 .. ids'
  BY <1>3, ConstantsAssumption
<1>7. Done(l)'
  BY <1>3, <1>4, <1>5, <1>6 DEF Done
<1>8. /\ WellFormed(Behind(k.form))' /\ Right(Behind(k.form))'
      /\ Behind(k.form).check # "dup"
  BY <1>3, NoClaims
<1> QED
  BY <1>2, <1>4, <1>7, <1>8 DEF CallInv

\* The form of a dialog that stays open while rows change.
LEMMA DialogOvertaken ==
    ASSUME IInv, kind' = kind, form' = Behind(form) PROVE DialogInv'
<1>1. CASE form = NoForm
  BY <1>1 DEF DialogInv, Behind
<1>2. CASE form # NoForm
  <2>1. PICK q : q = form
    OBVIOUS
  <2>2. q \in Form /\ WellFormed(q)
    BY <1>2, <2>1, DialogForm
  <2>3. WellFormed(Behind(q))' /\ Right(Behind(q))'
    BY <2>2, NoClaims
  <2>4. form' = Behind(q)
    BY <2>1
  <2> QED
    BY <2>3, <2>4 DEF DialogInv
<1> QED
  BY <1>1, <1>2

\* A dialog that is closed, or stays as it is.
LEMMA DialogKept ==
    ASSUME IInv, UNCHANGED server, form' \in {form, NoForm} PROVE DialogInv'
<1>1. form' # NoForm => WellFormed(form) /\ Right(form)
  BY DialogForm
<1>2. PICK q : q = form
  OBVIOUS
<1>3. WellFormed(q)' <=> WellFormed(q)
  BY SameClaims
<1>4. Right(q)' <=> Right(q)
  BY SameClaims
<1> QED
  BY <1>1, <1>2, <1>3, <1>4 DEF DialogInv

\* Forms keep their fields on the way, and claim nothing that they do not know.
LEMMA FormStep == ASSUME IInv, Next PROVE FormInv'
<1>1. TypeOK /\ FormInv /\ ServerInv
  BY DEF IInv
<1>2. SUFFICES DialogInv' /\ \A c \in Calls : CallInv(calls[c])'
  BY DEF FormInv, DialogInv, CallInv, UnderWay
<1> USE DEF find, config
<1>3. ASSUME UNCHANGED server, NEW S, Ends(S)
      PROVE  \A c \in Calls : CallInv(calls[c])'
  <2> SUFFICES ASSUME NEW c \in Calls, calls'[c] # NoCall PROVE CallInv(calls[c])'
    BY DEF CallInv
  <2>1. c \in UnderWay /\ Kept(calls[c], calls'[c])
    BY <1>3 DEF Ends, UnderWay
  <2> QED
    BY <1>3, <2>1, KeptInv
<1>4. ASSUME UNCHANGED <<server, calls>> PROVE \A c \in Calls : CallInv(calls[c])'
  <2>1. Ends({})
    BY <1>4 DEF Ends, Kept, UnderWay
  <2> QED
    BY <1>3, <1>4, <2>1
<1>5. ASSUME NEW q \in Offered, Open(q)
      PROVE  DialogInv' /\ \A c \in Calls : CallInv(calls[c])'
  <2>1. Fits(q) /\ q \in Form /\ WellFormed(q)
    BY <1>1, OfferedFit DEF Fits
  <2> DEFINE up == Quiet /\ ~ stale /\ gone = {}
  <2>2. PICK v \in BOOLEAN : v = up
    OBVIOUS
  <2>3. PICK p : p = [q EXCEPT !.informed = v]
    OBVIOUS
  <2>4. form' = p /\ UNCHANGED <<server, calls>>
    BY <1>5, <2>2, <2>3 DEF Open
  <2>5. /\ p.op = q.op /\ p.id = q.id /\ p.scope = q.scope /\ p.name = q.name
        /\ p.flag = q.flag /\ p.check = q.check /\ p.config = q.config /\ p.informed = v
    BY <2>1, <2>3 DEF Form
  <2>6. WellFormed(p)
    BY <2>1, <2>5 DEF WellFormed
  <2>7. p.check # "ok"
    BY <2>1, <2>5 DEF Fits
  <2>8. p.informed => Admissible(p)
    <3> SUFFICES ASSUME v PROVE Admissible(p)
      BY <2>5
    <3>1. Admissible(q)
      BY <2>2, InformedAdmissible
    <3> QED
      BY <2>5, <3>1 DEF Admissible
  <2>9. WellFormed(p)' /\ Right(p)'
    BY <2>4, <2>6, <2>7, <2>8, SameClaims DEF Right
  <2>10. DialogInv'
    BY <2>4, <2>9 DEF DialogInv
  <2> QED
    BY <1>4, <2>4, <2>10
<1>6. CASE RuleAnswered
  <2>1. PICK q : q = form
    OBVIOUS
  <2>2. q \in Form /\ WellFormed(q) /\ Right(q) /\ q.check # "none"
    BY <1>6, <2>1, DialogForm DEF RuleAnswered
  <2>3. PICK v : v = IF Taken(q.name) THEN "dup" ELSE "ok"
    OBVIOUS
  <2>4. PICK p : p = [q EXCEPT !.check = v]
    OBVIOUS
  <2>5. form' = p /\ UNCHANGED <<server, calls>>
    BY <1>6, <2>1, <2>3, <2>4 DEF RuleAnswered
  <2>6. /\ p.op = q.op /\ p.id = q.id /\ p.scope = q.scope /\ p.name = q.name
        /\ p.flag = q.flag /\ p.check = v /\ p.config = q.config /\ p.informed = q.informed
    BY <2>2, <2>4 DEF Form
  <2>7. WellFormed(p) /\ Right(p)
    BY <2>2, <2>3, <2>6 DEF WellFormed, Right, Admissible
  <2>8. WellFormed(p)' /\ Right(p)'
    BY <2>5, <2>7, SameClaims
  <2>9. DialogInv'
    BY <2>5, <2>8 DEF DialogInv
  <2> QED
    BY <1>4, <2>5, <2>9
<1>7. CASE \/ Cancel \/ ReadConfig \/ ConfigFails
           \/ \E b \in cfgAnswers : ConfigAnswered(b)
           \/ \E q \in asked : ReadRows(q) \/ FindFails(q)
           \/ \E a \in answers : FindAnswered(a)
  <2>1. UNCHANGED server /\ (Cancel \/ UNCHANGED <<form, calls>>)
    BY <1>7 DEF Cancel, ReadConfig, ConfigFails, ConfigAnswered, ReadRows, FindFails,
                FindAnswered
  <2>2. Ends({}) /\ form' \in {form, NoForm}
    BY <1>1, <2>1, EndsNone
  <2> QED
    BY <1>3, <2>1, <2>2, DialogKept
<1>8. ASSUME NEW c \in Calls, Refuse(c) \/ Fail(c) \/ AnswerLost(c) \/ Answered(c)
      PROVE  DialogInv' /\ \A d \in Calls : CallInv(calls[d])'
  <2>1. Ends({c}) /\ form' \in {form, NoForm} /\ UNCHANGED server
    BY <1>1, <1>8, EndsRequest
  <2> QED
    BY <1>3, <2>1, DialogKept
<1>9. ASSUME NEW c \in Calls, Submit(c)
      PROVE  DialogInv' /\ \A d \in Calls : CallInv(calls[d])'
  <2>1. PICK q : q = form
    OBVIOUS
  <2>2. /\ q \in Form /\ WellFormed(q) /\ Right(q) /\ q.check # "dup"
        /\ form' \in {form, NoForm} /\ UNCHANGED server
        /\ calls'[c].form = q /\ calls'[c].state = "sent"
    BY <1>9, <2>1, Submitted DEF Submit
  <2>3. WellFormed(q)' /\ Right(q)'
    BY <2>2, SameClaims
  <2>4. CallInv(calls[c])'
    BY <2>2, <2>3 DEF CallInv, Done
  <2>5. ASSUME NEW d \in Calls \ {c}, calls'[d] # NoCall PROVE CallInv(calls[d])'
    <3>1. d \in UnderWay /\ Kept(calls[d], calls'[d])
      BY <1>9, <2>5, Submitted DEF UnderWay
    <3> QED
      BY <2>2, <3>1, KeptInv
  <2>6. \A d \in Calls \ {c} : CallInv(calls[d])'
    BY <2>5 DEF CallInv
  <2> QED
    BY <2>2, <2>4, <2>6, DialogKept
<1>10. ASSUME NEW c \in Calls, Serve(c)
       PROVE  DialogInv' /\ \A d \in Calls : CallInv(calls[d])'
  <2>1. PICK q : q = calls[c].form
    OBVIOUS
  <2>2. /\ q \in Form /\ WellFormed(q) /\ Plain(q) /\ ~ Refused(q, Me) /\ Apply(q)
        /\ form' = Behind(form) /\ calls'[c].form = [Behind(q) EXCEPT !.id = Target(q)]
        /\ calls'[c].answer = rows'[Target(q)]
    BY <1>10, <2>1, Served
  <2>3. /\ Target(q) \in Ids /\ Target(q) \in 1 .. ids' /\ kind' = kind
        /\ rows'[Target(q)] = NoRow <=> q.op = "remove"
        /\ ids' \in 0 .. MaxIds /\ ids <= ids'
    BY <1>1, <2>2, ApplyRows DEF Apply
  <2>4. DialogInv'
    BY <2>2, <2>3, DialogOvertaken
  <2>5. PICK t \in Ids : t = Target(q)
    BY <2>3
  <2>6. PICK p : p = [Behind(q) EXCEPT !.id = t]
    OBVIOUS
  <2>7. /\ WellFormed(p)' /\ Right(p)' /\ p.check # "dup" /\ p.id = t /\ p.op = q.op
    BY <2>2, <2>3, <2>6, NoClaims
  <2>8. calls'[c].form = p
    BY <2>2, <2>5, <2>6
  <2>9. CallInv(calls[c])'
    BY <2>2, <2>3, <2>5, <2>7, <2>8 DEF CallInv, Done
  <2>10. ASSUME NEW d \in Calls \ {c}, calls'[d] # NoCall PROVE CallInv(calls[d])'
    <3>1. d \in UnderWay /\ Overtaken(calls[d], calls'[d])
      BY <1>10, <2>1, <2>10, Served DEF UnderWay
    <3> QED
      BY <2>3, <3>1, OvertakenInv
  <2>11. \A d \in Calls \ {c} : CallInv(calls[d])'
    BY <2>10 DEF CallInv
  <2> QED
    BY <2>4, <2>9, <2>11
<1>11. ASSUME NEW q \in AnyRequest, NEW u, Other(q, u)
       PROVE  DialogInv' /\ \A d \in Calls : CallInv(calls[d])'
  <2>1. Plain(q) /\ ~ Refused(q, u) /\ Apply(q)
    BY <1>11, AnyPlain DEF Other
  <2>2. ids' \in 0 .. MaxIds /\ ids <= ids' /\ kind' = kind
    BY <1>1, <2>1, ApplyRows DEF Apply
  <2>3. form' = Behind(form) /\ calls' = CallsBehind
    BY <1>11 DEF Other
  <2>4. ASSUME NEW d \in Calls, calls'[d] # NoCall PROVE CallInv(calls[d])'
    <3>1. d \in UnderWay /\ Overtaken(calls[d], calls'[d])
      BY <1>1, <2>3, <2>4, OthersOvertake DEF UnderWay
    <3> QED
      BY <2>2, <3>1, OvertakenInv
  <2>5. \A d \in Calls : CallInv(calls[d])'
    BY <2>4 DEF CallInv
  <2> QED
    BY <2>2, <2>3, <2>5, DialogOvertaken
<1>12. CASE Reload
  BY <1>12 DEF Reload, Close, DialogInv, CallInv
<1> QED
  BY <1>2, <1>5, <1>6, <1>7, <1>8, <1>9, <1>10, <1>11, <1>12 DEF Next

-----------------------------------------------------------------------------
(***************************************************************************)
(* The store                                                               *)
(***************************************************************************)
\* An answer that a change has overtaken is known to be old.
LEMMA OldStep ==
    ASSUME answers \subseteq Answer, NEW q, Apply(q)
    PROVE  /\ \A a \in answers' : a.old
           /\ \A a \in answers : \E b \in answers' : b.old /\ b.rows = a.rows
  BY OldAnswers DEF Apply

\* A row that a request of the tab changes besides its own is found again.
LEMMA ServedComing ==
    ASSUME IInv, NEW c \in Calls, Serve(c), NEW q, q = calls[c].form,
           NEW i \in Ids, i # Target(q), rows[i] # NoRow, rows'[i] # rows[i]
    PROVE  stale' \/ rows'[i].name \in q.scope
<1>1. /\ Plain(q) /\ ~ Refused(q, Me) /\ Apply(q) /\ q \in Form
      /\ WellFormed(q) /\ TypeOK /\ ServerInv
  BY Served DEF IInv
<1>2. Persists(q, rows[i], rows'[i])
  BY <1>1, ApplyRows
<1>3. rows[i] \in Row
  BY <1>1 DEF TypeOK, RowOrNone
<1>4. CASE kind = "PublicKey"
  BY <1>1, <1>2, <1>3, <1>4, RowFields DEF WellFormed, Persists
<1>5. CASE kind = "EncryptKey" /\ q.op = "create" /\ rows[i].name = q.name
  <2>1. CASE q.check # "none"
    <3>1. Taken(q.name)
      BY <1>5 DEF Taken, Live
    <3>2. stale' = (stale \/ (q.check # "none" /\ Taken(q.name)))
      BY DEF Serve
    <3> QED
      BY <2>1, <3>1, <3>2
  <2>2. CASE q.check = "none"
    BY <1>1, <1>2, <1>5, <2>2 DEF WellFormed, Persists
  <2> QED
    BY <2>1, <2>2
<1> QED
  BY <1>2, <1>4, <1>5 DEF Persists, Touched

\* What was on its way stays so, while the server stays as it is.
LEMMA StillBrought ==
    ASSUME UNCHANGED server, NEW i, NEW c \in UnderWay, Brings(calls[c], i),
           Kept(calls[c], calls'[c])
    PROVE  Coming(i)'
<1>1. PICK k : k = calls[c]
  OBVIOUS
<1>2. PICK l : l = calls'[c]
  OBVIOUS
<1>3. l # NoCall /\ l.form = k.form /\ l.state = k.state
  BY <1>1, <1>2 DEF Kept
<1>4. Brings(k, i)
  BY <1>1
<1>5. Brings(l, i)'
  BY <1>3, <1>4 DEF Brings, Eager, server
<1>6. c \in UnderWay'
  BY <1>2, <1>3 DEF UnderWay
<1> QED
  BY <1>2, <1>5, <1>6 DEF Coming
LEMMA StillComing ==
    ASSUME UNCHANGED server, NEW i, Coming(i),
           asked \subseteq asked', answers \subseteq answers',
           \A c \in UnderWay : Brings(calls[c], i) => Kept(calls[c], calls'[c])
    PROVE  Coming(i)'
<1>1. ASSUME NEW c \in UnderWay, Brings(calls[c], i) PROVE Coming(i)'
  BY <1>1, StillBrought
<1>2. CASE \E q \in asked : i \in q.ids /\ rows[i].name \in q.names
  BY <1>2 DEF Coming, server
<1>3. CASE \E a \in answers : a.old \/ a.rows[i] # NoRow
  BY <1>3 DEF Coming
<1> QED
  BY <1>1, <1>2, <1>3 DEF Coming

\* A row that the tab should not have is the one of a request that is answered.
LEMMA OnlyAnswers ==
    ASSUME StoreB, NEW i \in Ids, i \notin Visible', i \notin gone', i \notin Visible,
           i \notin gone, store'[i] = store[i],
           \A c \in UnderWay : Is(c, "ok") /\ calls[c].form.id = i
             => /\ calls'[c] # NoCall /\ calls'[c].state = calls[c].state
                /\ calls'[c].form.id = i
    PROVE  store'[i] = NoRow \/ \E c \in UnderWay' : Is(c, "ok")' /\ calls'[c].form.id = i
<1>1. CASE store[i] = NoRow
  BY <1>1
<1>2. ASSUME NEW c \in UnderWay, Is(c, "ok"), calls[c].form.id = i
      PROVE  c \in UnderWay' /\ Is(c, "ok")' /\ calls'[c].form.id = i
  BY <1>2 DEF Is, UnderWay
<1> QED
  BY <1>1, <1>2 DEF StoreB

LEMMA CurrentStays ==
    ASSUME UNCHANGED server, NEW a PROVE Current(a)' <=> Current(a)
<1>1. \A i \in Ids : View(i)' = View(i)
  BY SameServer DEF View, server
<1> QED
  BY <1>1 DEF Current

LEMMA StoreStep == ASSUME IInv, Next PROVE StoreInv'
<1>1. /\ TypeOK /\ answers \subseteq Answer /\ FormInv /\ ServerInv
      /\ StoreA /\ StoreB /\ StoreC
  BY DEF IInv, StoreInv
<1>2. Visible \subseteq Ids /\ \A i \in Visible : rows[i] \in Row
  BY <1>1 DEF Visible, Live, TypeOK, RowOrNone
<1> SUFFICES StoreA' /\ StoreB' /\ StoreC'
  BY DEF StoreInv
<1> USE DEF find, config
<1>3. ASSUME UNCHANGED server, answers' \subseteq answers PROVE StoreA'
  BY <1>1, <1>3, CurrentStays DEF StoreA
<1>4. ASSUME UNCHANGED <<server, store>>, gone \subseteq gone', NEW S, Ends(S),
             \A c \in S : Is(c, "ok") => calls[c].form.id \in Visible \cup gone'
      PROVE  StoreB'
  <2> SUFFICES ASSUME NEW i \in Ids, i \notin Visible', i \notin gone'
               PROVE  store'[i] = NoRow
                        \/ \E c \in UnderWay' : Is(c, "ok")' /\ calls'[c].form.id = i
    BY DEF StoreB
  <2>1. i \notin Visible /\ i \notin gone /\ store'[i] = store[i]
    BY <1>4, SameServer
  <2>2. ASSUME NEW c \in UnderWay, Is(c, "ok"), calls[c].form.id = i
        PROVE  calls'[c] # NoCall /\ calls'[c].state = calls[c].state /\ calls'[c].form.id = i
    <3>1. c \notin S
      BY <1>4, <2>1, <2>2
    <3> QED
      BY <1>4, <2>2, <3>1 DEF Ends, Kept
  <2> QED
    BY <1>1, <2>1, <2>2, OnlyAnswers
<1>5. ASSUME UNCHANGED <<server, store, answers, gone>>, asked \subseteq asked', NEW S, Ends(S),
             ~ stale' => ~ stale /\ \A c \in S, i \in Ids : ~ Brings(calls[c], i)
      PROVE  StoreC'
  <2> SUFFICES ASSUME ~ stale', NEW i \in Visible, i \notin gone
               PROVE  store[i] = rows[i] \/ Coming(i)'
    BY <1>5, SameServer DEF StoreC, server
  <2>1. CASE store[i] = rows[i]
    BY <2>1
  <2>2. CASE Coming(i)
    <3>1. \A c \in UnderWay : Brings(calls[c], i) => Kept(calls[c], calls'[c])
      BY <1>2, <1>5 DEF Ends
    <3> QED
      BY <1>5, <2>2, <3>1, StillComing
  <2> QED
    BY <1>1, <1>5, <2>1, <2>2 DEF StoreC
<1>6. ASSUME UNCHANGED calls PROVE Ends({})
  BY <1>6 DEF Ends, Kept, UnderWay
<1>7. ASSUME \/ \E q \in Offered : Open(q)
             \/ RuleAnswered \/ Cancel
             \/ ReadConfig \/ ConfigFails \/ \E b \in cfgAnswers : ConfigAnswered(b)
      PROVE  StoreA' /\ StoreB' /\ StoreC'
  <2>1. /\ UNCHANGED <<server, store, answers, stale, gone>> /\ asked \subseteq asked'
        /\ UNCHANGED calls \/ Cancel
    BY <1>7 DEF Open, RuleAnswered, Cancel, ReadConfig, ConfigFails, ConfigAnswered
  <2>2. Ends({})
    <3>1. CASE UNCHANGED calls
      BY <1>6, <3>1
    <3>2. CASE Cancel
      BY <1>1, <3>2, EndsNone
    <3> QED
      BY <2>1, <3>1, <3>2
  <2>3. StoreA'
    BY <1>3, <2>1
  <2>4. StoreB'
    BY <1>4, <2>1, <2>2
  <2>5. StoreC'
    BY <1>5, <2>1, <2>2
  <2> QED
    BY <2>3, <2>4, <2>5
<1>8. ASSUME NEW c \in Calls, Refuse(c) \/ Fail(c) PROVE StoreA' /\ StoreB' /\ StoreC'
  <2>1. /\ UNCHANGED <<server, store, find, gone>>
        /\ Is(c, "sent") /\ Ends({c})
        /\ stale' = (stale \/ Eager(calls[c].form))
    BY <1>1, <1>8, EndsRequest DEF Refuse, Fail
  <2>2. ~ Is(c, "ok") /\ (~ stale' => ~ stale /\ \A i \in Ids : ~ Brings(calls[c], i))
    BY <2>1 DEF Is, Brings
  <2>3. StoreA'
    BY <1>3, <2>1
  <2>4. StoreB'
    BY <1>4, <2>1, <2>2
  <2>5. StoreC'
    BY <1>5, <2>1, <2>2
  <2> QED
    BY <2>3, <2>4, <2>5
<1>9. ASSUME NEW c \in Calls, AnswerLost(c) PROVE StoreA' /\ StoreB' /\ StoreC'
  <2>1. /\ UNCHANGED <<server, store, find>> /\ Is(c, "ok") /\ Ends({c})
        /\ stale' = TRUE /\ gone' = gone \cup ({calls[c].form.id} \ Visible)
    BY <1>1, <1>9, EndsRequest DEF AnswerLost
  <2>2. StoreA'
    BY <1>3, <2>1
  <2>3. StoreB'
    BY <1>4, <2>1
  <2>4. StoreC'
    BY <2>1 DEF StoreC
  <2> QED
    BY <2>2, <2>3, <2>4
<1>10. ASSUME NEW c \in Calls, Submit(c) PROVE StoreA' /\ StoreB' /\ StoreC'
  <2>1. /\ UNCHANGED <<server, answers, asked, stale, gone>>
        /\ \A d \in UnderWay : d # c /\ Kept(calls[d], calls'[d])
        /\ calls'[c] # NoCall /\ calls'[c].form = form
    BY <1>10, Submitted DEF Submit
  <2>2. StoreA'
    BY <1>3, <2>1
  <2>3. StoreB'
    <3> SUFFICES ASSUME NEW i \in Ids, i \notin Visible', i \notin gone'
                 PROVE  store'[i] = NoRow
                          \/ \E d \in UnderWay' : Is(d, "ok")' /\ calls'[d].form.id = i
      BY DEF StoreB
    <3>1. i \notin Visible /\ i \notin gone
      BY <2>1, SameServer
    <3>2. CASE store[i] = NoRow
      BY <1>10, <3>2, Committed
    <3>3. ASSUME NEW d \in UnderWay, Is(d, "ok"), calls[d].form.id = i
          PROVE  d \in UnderWay' /\ Is(d, "ok")' /\ calls'[d].form.id = i
      BY <2>1, <3>3 DEF Is, UnderWay, Kept
    <3> QED
      BY <1>1, <3>1, <3>2, <3>3 DEF StoreB
  <2>4. ASSUME NEW i, Coming(i) PROVE Coming(i)'
    BY <2>1, <2>4, StillComing
  <2>5. ASSUME NEW i \in Ids, store'[i] # store[i] PROVE Coming(i)'
    <3>1. i = form.id /\ Eager(form)
      BY <1>10, <2>5, Committed
    <3>2. PICK l : l = calls'[c]
      OBVIOUS
    <3>3. Brings(l, i)'
      BY <2>1, <3>1, <3>2 DEF Brings, Eager, server
    <3>4. c \in UnderWay'
      BY <2>1 DEF UnderWay
    <3> QED
      BY <3>2, <3>3, <3>4 DEF Coming
  <2>6. StoreC'
    <3> SUFFICES ASSUME ~ stale', NEW i \in Visible, i \notin gone
                 PROVE  store'[i] = rows[i] \/ Coming(i)'
      BY <2>1, SameServer DEF StoreC, server
    <3> QED
      BY <1>1, <1>2, <2>1, <2>4, <2>5 DEF StoreC
  <2> QED
    BY <2>2, <2>3, <2>6
<1>11. ASSUME NEW c \in Calls, Serve(c) PROVE StoreA' /\ StoreB' /\ StoreC'
  <2>1. PICK q : q = calls[c].form
    OBVIOUS
  <2>2. PICK p : p = [Behind(q) EXCEPT !.id = Target(q)]
    OBVIOUS
  <2>3. /\ Plain(q) /\ ~ Refused(q, Me) /\ Apply(q) /\ q \in Form /\ WellFormed(q)
        /\ c \in UnderWay /\ calls[c].state = "sent"
        /\ calls'[c] # NoCall /\ calls'[c].state = "ok" /\ calls'[c].form = p
        /\ \A d \in UnderWay \ {c} : Overtaken(calls[d], calls'[d])
    BY <1>11, <2>1, <2>2, Served
  <2>4. /\ Target(q) \in Ids /\ rows' \in [Ids -> RowOrNone] /\ kind' = kind
        /\ rows'[Target(q)] = NoRow <=> q.op = "remove"
        /\ \A j \in Ids \ {Target(q)} : Persists(q, rows[j], rows'[j])
    BY <1>1, <2>3, ApplyRows DEF Apply
  <2>5. Visible = Live /\ Visible' = Live'
    BY <1>1, <2>3, ApplyVisible
  <2>6. p.id = Target(q) /\ p.scope = q.scope
    BY <2>2, <2>3, <2>4, BehindForm DEF Form
  <2>7. UNCHANGED <<store, asked, gone>> /\ (stale => stale')
    BY <1>11 DEF Serve
  <2>8. c \in UnderWay' /\ Is(c, "ok")' /\ ~ Is(c, "ok")
    BY <2>3 DEF UnderWay, Is
  <2>9. ASSUME NEW d \in UnderWay \ {c}
        PROVE  /\ d \in UnderWay' /\ calls'[d].state = calls[d].state
               /\ calls'[d].form.id = calls[d].form.id /\ calls'[d].form.op = calls[d].form.op
               /\ calls'[d].form.scope = calls[d].form.scope
    <3>1. calls[d].form \in Form
      BY CallForm
    <3>2. PICK k : k = calls[d]
      OBVIOUS
    <3>3. PICK l : l = calls'[d]
      OBVIOUS
    <3>4. l # NoCall /\ l.form = Behind(k.form) /\ l.state = k.state
      BY <2>3, <3>2, <3>3 DEF Overtaken
    <3>5. l.form.id = k.form.id /\ l.form.op = k.form.op /\ l.form.scope = k.form.scope
      BY <3>1, <3>2, <3>4, BehindForm
    <3> QED
      BY <3>2, <3>3, <3>4, <3>5 DEF UnderWay
  <2>10. StoreA'
    BY <1>1, <2>3, OldStep DEF StoreA
  <2>11. StoreB'
    <3> SUFFICES ASSUME NEW i \in Ids, i \notin Visible', i \notin gone'
                 PROVE  store'[i] = NoRow
                          \/ \E d \in UnderWay' : Is(d, "ok")' /\ calls'[d].form.id = i
      BY DEF StoreB
    <3>1. CASE i = Target(q)
      BY <2>3, <2>6, <2>8, <3>1
    <3>2. CASE i # Target(q)
      <4>1. i \notin Visible /\ i \notin gone /\ store'[i] = store[i]
        BY <2>4, <2>5, <2>7, <3>2 DEF Live, Persists
      <4>2. ASSUME NEW d \in UnderWay, Is(d, "ok"), calls[d].form.id = i
            PROVE  /\ calls'[d] # NoCall /\ calls'[d].state = calls[d].state
                   /\ calls'[d].form.id = i
        <5>1. d # c
          BY <2>8, <4>2
        <5> QED
          BY <2>9, <4>2, <5>1 DEF UnderWay
      <4> QED
        BY <1>1, <4>1, <4>2, OnlyAnswers
    <3> QED
      BY <3>1, <3>2
  <2>12. StoreC'
    <3> SUFFICES ASSUME ~ stale', NEW i \in Visible', i \notin gone
                 PROVE  store[i] = rows'[i] \/ Coming(i)'
      BY <2>7 DEF StoreC
    <3>1. ASSUME i = Target(q) \/ rows'[i].name \in q.scope PROVE Coming(i)'
      <4>1. PICK l : l = calls'[c]
        OBVIOUS
      <4>2. Brings(l, i)'
        BY <2>3, <2>6, <3>1, <4>1 DEF Brings
      <4> QED
        BY <2>8, <4>1, <4>2 DEF Coming
    <3>2. CASE i # Target(q)
      <4>1. i \in Ids /\ i \in Visible /\ rows[i] # NoRow /\ rows'[i] \in Row
        BY <2>4, <2>5, <3>2 DEF Live, Persists, RowOrNone
      <4>2. rows'[i].name = rows[i].name
        BY <2>4, <3>2, <4>1 DEF Persists
      <4>3. CASE rows'[i] # rows[i]
        BY <1>11, <2>1, <3>1, <3>2, <4>1, <4>3, ServedComing
      <4>4. CASE rows'[i] = rows[i] /\ Coming(i)
        <5>1. ASSUME NEW d \in UnderWay, Brings(calls[d], i) PROVE Coming(i)'
          <6>1. d # c
            BY <2>1, <2>3, <3>2, <5>1 DEF Brings, Eager, Target
          <6>2. PICK k : k = calls[d]
            OBVIOUS
          <6>3. PICK l : l = calls'[d]
            OBVIOUS
          <6>4. /\ d \in UnderWay' /\ l.state = k.state /\ l.form.id = k.form.id
                /\ l.form.op = k.form.op /\ l.form.scope = k.form.scope
            BY <2>9, <6>1, <6>2, <6>3
          <6>5. Brings(k, i)
            BY <5>1, <6>2
          <6>6. Brings(l, i)'
            BY <2>4, <4>2, <6>4, <6>5 DEF Brings, Eager
          <6> QED
            BY <6>3, <6>4, <6>6 DEF Coming
        <5>2. CASE \E r \in asked : i \in r.ids /\ rows[i].name \in r.names
          BY <2>7, <4>2, <5>2 DEF Coming
        <5>3. CASE \E a \in answers : a.old \/ a.rows[i] # NoRow
          <6>1. \E b \in answers' : b.old
            BY <1>1, <2>3, <5>3, OldStep
          <6> QED
            BY <6>1 DEF Coming
        <5> QED
          BY <4>4, <5>1, <5>2, <5>3 DEF Coming
      <4>5. ~ stale /\ i \in Visible /\ i \notin gone
        BY <2>7, <4>1
      <4>6. store[i] = rows[i] \/ Coming(i)
        BY <1>1, <4>5 DEF StoreC
      <4> QED
        BY <4>3, <4>4, <4>6
    <3> QED
      BY <3>1, <3>2
  <2> QED
    BY <2>10, <2>11, <2>12
<1>12. ASSUME NEW c \in Calls, Answered(c) PROVE StoreA' /\ StoreB' /\ StoreC'
  <2>1. PICK q : q = calls[c].form
    OBVIOUS
  <2>2. PICK row : row = Completed(calls[c])
    OBVIOUS
  <2> DEFINE last == \A d \in UnderWay \ {c} : ~ (Is(d, "ok") /\ calls[d].form.id = q.id)
  <2>3. /\ Is(c, "ok") /\ Ends({c}) /\ q \in Form /\ q.id \in Ids
        /\ store' = [store EXCEPT ![q.id] = row]
        /\ gone' = IF row # NoRow /\ last THEN gone \cup ({q.id} \ Visible) ELSE gone
        /\ UNCHANGED <<server, answers>>
    <3>1. Is(c, "ok") /\ Ends({c})
      BY <1>1, <1>12, EndsRequest DEF Answered
    <3> QED
      BY <1>12, <2>1, <2>2, <3>1, CompletedRow DEF Answered
  <2>4. ~ stale' => /\ ~ stale /\ (last => row = rows[q.id])
                    /\ q.scope # {} => [names |-> q.scope, ids |-> Ids] \in asked'
    <3>1. CASE calls[c].heard
      <4>1. /\ stale' = (stale \/ (last /\ row # rows[q.id]))
            /\ asked' = asked \cup {[names |-> s, ids |-> Ids] : s \in {q.scope} \ {{}}}
        BY <1>12, <2>1, <2>2, <3>1 DEF Answered
      <4> HIDE DEF last
      <4> QED
        BY <4>1
    <3>2. CASE ~ calls[c].heard
      <4>1. stale' = (stale \/ (last /\ row # rows[q.id]) \/ q.scope # {})
        BY <1>12, <2>1, <2>2, <3>2 DEF Answered
      <4> HIDE DEF last
      <4> QED
        BY <4>1
    <3> QED
      BY <3>1, <3>2
  <2>5. asked \subseteq asked'
    BY <1>12 DEF Answered
  <2>6. /\ store'[q.id] = row
        /\ \A i \in Ids \ {q.id} : store'[i] = store[i]
    BY <1>1, <2>3 DEF TypeOK
  <2>7. ASSUME NEW d \in UnderWay, d # c
        PROVE  /\ d \in UnderWay' /\ calls'[d].state = calls[d].state
               /\ calls'[d].form = calls[d].form /\ Kept(calls[d], calls'[d])
    BY <2>3, <2>7 DEF Ends, Kept, UnderWay
  <2>8. StoreA'
    BY <1>3, <2>3
  \* Unless the answer is the last one for its row, another one is on its way.
  <2>9. ASSUME ~ last
        PROVE  \E d \in UnderWay' : Is(d, "ok")' /\ calls'[d].form.id = q.id
    <3>1. PICK d \in UnderWay \ {c} : Is(d, "ok") /\ calls[d].form.id = q.id
      BY <2>9
    <3> QED
      BY <2>7, <3>1 DEF Is, UnderWay
  <2> HIDE DEF last
  <2>10. StoreB'
    <3> SUFFICES ASSUME NEW i \in Ids, i \notin Visible', i \notin gone'
                 PROVE  store'[i] = NoRow
                          \/ \E d \in UnderWay' : Is(d, "ok")' /\ calls'[d].form.id = i
      BY DEF StoreB
    <3>1. i \notin Visible /\ i \notin gone
      BY <2>3, SameServer
    <3>2. CASE i = q.id
      BY <2>3, <2>6, <2>9, <3>1, <3>2
    <3>3. CASE i # q.id
      <4>1. ASSUME NEW d \in UnderWay, Is(d, "ok"), calls[d].form.id = i
            PROVE  /\ calls'[d] # NoCall /\ calls'[d].state = calls[d].state
                   /\ calls'[d].form.id = i
        <5>1. d # c
          BY <2>1, <3>3, <4>1
        <5> QED
          BY <2>7, <4>1, <5>1 DEF UnderWay
      <4> QED
        BY <1>1, <2>6, <3>1, <3>3, <4>1, OnlyAnswers
    <3> QED
      BY <3>2, <3>3
  <2>11. StoreC'
    <3> SUFFICES ASSUME ~ stale', NEW i \in Visible, i \notin gone'
                 PROVE  store'[i] = rows[i] \/ Coming(i)'
      BY <2>3, SameServer DEF StoreC, server
    <3>1. CASE i = q.id
      <4>1. CASE last
        BY <2>4, <2>6, <3>1, <4>1
      <4>2. CASE ~ last
        <5>1. PICK d \in UnderWay' : Is(d, "ok")' /\ calls'[d].form.id = i
          BY <2>9, <3>1, <4>2
        <5>2. PICK l : l = calls'[d]
          OBVIOUS
        <5>3. Brings(l, i)'
          BY <5>1, <5>2 DEF Brings, Is
        <5> QED
          BY <5>1, <5>2, <5>3 DEF Coming
      <4> QED
        BY <4>1, <4>2
    <3>2. CASE i # q.id
      <4>1. i \notin gone /\ (store[i] = rows[i] \/ Coming(i))
        BY <1>1, <2>3, <2>4 DEF StoreC
      <4>2. CASE rows[i].name \in q.scope
        BY <1>2, <2>3, <2>4, <4>2 DEF Coming, server
      <4>3. CASE Coming(i) /\ rows[i].name \notin q.scope
        <5>1. ~ Brings(calls[c], i)
          BY <2>1, <3>2, <4>3 DEF Brings
        <5>2. \A d \in UnderWay : Brings(calls[d], i) => Kept(calls[d], calls'[d])
          BY <2>7, <5>1
        <5> QED
          BY <2>3, <2>5, <4>3, <5>2, StillComing
      <4> QED
        BY <1>2, <2>6, <3>2, <4>1, <4>2, <4>3
    <3> QED
      BY <3>1, <3>2
  <2> QED
    BY <2>8, <2>10, <2>11
<1>13. ASSUME NEW q \in asked, ReadRows(q) PROVE StoreA' /\ StoreB' /\ StoreC'
  <2> DEFINE r == [i \in Ids |-> IF i \in Visible \cap q.ids /\ rows[i].name \in q.names
                                   THEN rows[i] ELSE NoRow]
             b == [rows |-> r, full |-> (q = Everything), old |-> FALSE]
  <2>1. /\ answers' = answers \cup {b} /\ asked' = asked \ {q}
        /\ UNCHANGED <<server, store, form, calls, stale, gone>>
    BY <1>13 DEF ReadRows
  <2>2. /\ \A i \in Ids : b.rows[i] = IF i \in Visible \cap q.ids /\ rows[i].name \in q.names
                                        THEN rows[i] ELSE NoRow
        /\ b.full = (q = Everything) /\ b.old = FALSE
    OBVIOUS
  <2> HIDE DEF b
  <2>3. Current(b)
    <3>1. \A i \in Ids : b.rows[i] # NoRow => b.rows[i] = View(i)
      BY <2>2 DEF View
    <3>2. ASSUME q = Everything, NEW i \in Ids PROVE b.rows[i] = View(i)
      <4>1. i \in q.ids /\ q.names = Names
        BY <3>2 DEF Everything
      <4>2. i \in Visible => rows[i].name \in Names
        BY <1>2, RowFields
      <4> QED
        BY <2>2, <4>1, <4>2 DEF View
    <3> QED
      BY <2>2, <3>1, <3>2 DEF Current
  <2>4. StoreA'
    BY <1>1, <2>1, <2>3, CurrentStays DEF StoreA
  <2>5. StoreB'
    BY <1>4, <1>6, <2>1
  <2>6. ASSUME NEW i \in Visible, Coming(i) PROVE Coming(i)'
    <3>1. CASE i \in q.ids /\ rows[i].name \in q.names
      <4>1. b.rows[i] # NoRow
        BY <1>2, <2>2, <3>1, RowFields
      <4> QED
        BY <2>1, <4>1 DEF Coming
    <3>2. CASE ~ (i \in q.ids /\ rows[i].name \in q.names)
      <4>1. CASE \E c \in UnderWay : Brings(calls[c], i)
        BY <2>1, <4>1, StillBrought DEF Kept, UnderWay
      <4>2. CASE ~ \E c \in UnderWay : Brings(calls[c], i)
        BY <2>1, <2>6, <3>2, <4>2 DEF Coming, server
      <4> QED
        BY <4>1, <4>2
    <3> QED
      BY <3>1, <3>2
  <2>7. StoreC'
    BY <1>1, <2>1, <2>6, SameServer DEF StoreC, server
  <2> QED
    BY <2>4, <2>5, <2>7
<1>14. ASSUME NEW q \in asked, FindFails(q) PROVE StoreA' /\ StoreB' /\ StoreC'
  <2>1. UNCHANGED <<server, store, form, calls, answers, gone>> /\ stale' = TRUE
    BY <1>14 DEF FindFails
  <2>2. StoreB'
    BY <1>4, <1>6, <2>1
  <2> QED
    BY <1>3, <2>1, <2>2 DEF StoreC
<1>15. ASSUME NEW a \in answers, FindAnswered(a) PROVE StoreA' /\ StoreB' /\ StoreC'
  <2>1. /\ answers' = answers \ {a}
        /\ store' = [i \in Ids |-> IF a.rows[i] # NoRow THEN a.rows[i] ELSE store[i]]
        /\ stale' = IF a.old THEN TRUE ELSE stale /\ ~ a.full
        /\ gone' = gone \cup {i \in Ids \ Visible : a.rows[i] # NoRow}
        /\ UNCHANGED <<server, form, calls, asked>>
    BY <1>15 DEF FindAnswered
  <2>2. StoreA'
    BY <1>1, <2>1, CurrentStays DEF StoreA
  <2>3. StoreB'
    <3> SUFFICES ASSUME NEW i \in Ids, i \notin Visible', i \notin gone'
                 PROVE  store'[i] = NoRow
                          \/ \E d \in UnderWay' : Is(d, "ok")' /\ calls'[d].form.id = i
      BY DEF StoreB
    <3>1. i \notin Visible
      BY <2>1, SameServer
    <3>2. store'[i] = store[i] /\ i \notin gone
      BY <2>1, <3>1
    <3> QED
      BY <1>1, <2>1, <3>1, <3>2, OnlyAnswers DEF UnderWay
  <2>4. StoreC'
    <3> SUFFICES ASSUME ~ stale', NEW i \in Visible, i \notin gone
                 PROVE  store'[i] = rows[i] \/ Coming(i)'
      BY <2>1, SameServer DEF StoreC, server
    <3>1. ~ a.old /\ Current(a) /\ (stale => a.full)
      BY <1>1, <2>1 DEF StoreA
    <3>2. i \in Ids /\ View(i) = rows[i] /\ rows[i] # NoRow
      BY <1>2, RowFields DEF View
    <3>3. CASE a.rows[i] # NoRow
      BY <2>1, <3>1, <3>2, <3>3 DEF Current
    <3>4. CASE a.rows[i] = NoRow
      <4>1. ~ stale /\ store'[i] = store[i]
        BY <2>1, <3>1, <3>2, <3>4 DEF Current
      <4>2. Coming(i) => Coming(i)'
        <5>1. CASE \E c \in UnderWay : Brings(calls[c], i)
          BY <2>1, <5>1, StillBrought DEF Kept, UnderWay
        <5>2. CASE ~ \E c \in UnderWay : Brings(calls[c], i)
          BY <2>1, <3>1, <3>4, <5>2 DEF Coming, server
        <5> QED
          BY <5>1, <5>2
      <4> QED
        BY <1>1, <4>1, <4>2 DEF StoreC
    <3> QED
      BY <3>3, <3>4
  <2> QED
    BY <2>2, <2>3, <2>4
<1>16. ASSUME NEW q \in AnyRequest, NEW u, Other(q, u) PROVE StoreA' /\ StoreB' /\ StoreC'
  <2>1. /\ Apply(q) /\ stale' = TRUE /\ gone' = gone \cup (Visible \ Visible')
        /\ store' = store /\ form' = Behind(form) /\ calls' = CallsBehind
    BY <1>16 DEF Other
  <2>2. StoreA'
    BY <1>1, <2>1, OldStep DEF StoreA
  <2>3. StoreB'
    <3> SUFFICES ASSUME NEW i \in Ids, i \notin Visible', i \notin gone'
                 PROVE  store'[i] = NoRow
                          \/ \E d \in UnderWay' : Is(d, "ok")' /\ calls'[d].form.id = i
      BY DEF StoreB
    <3>1. i \notin Visible /\ i \notin gone
      BY <2>1
    <3>2. ASSUME NEW d \in UnderWay, Is(d, "ok"), calls[d].form.id = i
          PROVE  /\ calls'[d] # NoCall /\ calls'[d].state = calls[d].state
                 /\ calls'[d].form.id = i
      <4>1. calls[d].form \in Form
        BY CallForm
      <4>2. Overtaken(calls[d], calls'[d])
        BY <1>1, <2>1, OthersOvertake
      <4>3. PICK k : k = calls[d]
        OBVIOUS
      <4>4. PICK l : l = calls'[d]
        OBVIOUS
      <4>5. l # NoCall /\ l.form = Behind(k.form) /\ l.state = k.state
        BY <4>2, <4>3, <4>4 DEF Overtaken
      <4>6. l.form.id = k.form.id
        BY <4>1, <4>3, <4>5, BehindForm
      <4> QED
        BY <3>2, <4>3, <4>4, <4>5, <4>6
    <3> QED
      BY <1>1, <2>1, <3>1, <3>2, OnlyAnswers
  <2> QED
    BY <2>1, <2>2, <2>3 DEF StoreC
<1>17. CASE Reload
  BY <1>17 DEF Reload, StoreA, StoreB, StoreC
<1> QED
  BY <1>7, <1>8, <1>9, <1>10, <1>11, <1>12, <1>13, <1>14, <1>15, <1>16, <1>17, Next DEF Next

-----------------------------------------------------------------------------
\* Every change that a page of a stream makes has it get the configuration file anew.
LEMMA ConfigStep == ASSUME IInv, Next PROVE ConfigInv'
<1>1. ConfigInv /\ TypeOK
  BY DEF IInv
<1> USE DEF find, config
\* What an answer will bring is still to come, unless the answer is one of S.
<1>2. ASSUME NEW S, Ends(S),
             \A c \in S : Is(c, "ok") /\ calls[c].form.config => cfgStale' \/ cfgAsked',
             UNCHANGED <<kind, cfg, cfgAnswers>>, cfgAsked => cfgAsked', cfgStale => cfgStale'
      PROVE  ConfigInv'
  <2> SUFFICES ASSUME kind \in StreamParts, ~ cfgStale', ~ cfg, ~ cfgAsked', cfgAnswers = {}
               PROVE  \E c \in UnderWay' : Is(c, "ok")' /\ calls'[c].form.config
    BY <1>2 DEF ConfigInv
  <2>1. PICK c \in UnderWay : Is(c, "ok") /\ calls[c].form.config
    BY <1>1, <1>2 DEF ConfigInv
  <2>2. c \notin S
    BY <1>2, <2>1
  <2>3. Kept(calls[c], calls'[c])
    BY <1>2, <2>1, <2>2 DEF Ends
  <2> QED
    BY <2>1, <2>3 DEF Kept, Is, UnderWay
<1>3. CASE \/ \E q \in Offered : Open(q)
           \/ RuleAnswered \/ Cancel
           \/ \E q \in asked : ReadRows(q) \/ FindFails(q)
           \/ \E a \in answers : FindAnswered(a)
  <2>1. UNCHANGED <<kind, config>> /\ (Cancel \/ UNCHANGED calls)
    BY <1>3 DEF Open, RuleAnswered, Cancel, ReadRows, FindFails, FindAnswered, server
  <2>2. Ends({})
    <3>1. CASE Cancel
      BY <1>1, <3>1, EndsNone
    <3>2. CASE UNCHANGED calls
      BY <3>2 DEF Ends, Kept, UnderWay
    <3> QED
      BY <2>1, <3>1, <3>2
  <2> QED
    BY <1>2, <2>1, <2>2
<1>4. ASSUME NEW c \in Calls, Submit(c) PROVE ConfigInv'
  <2>1. UNCHANGED <<kind, config>> /\ \A d \in UnderWay : Kept(calls[d], calls'[d])
    BY <1>4, Submitted DEF Submit, server
  <2> QED
    BY <1>1, <2>1 DEF ConfigInv, Kept, Is, UnderWay
<1>5. ASSUME NEW c \in Calls, Refuse(c) \/ Fail(c) PROVE ConfigInv'
  <2>1. UNCHANGED <<kind, config>> /\ Is(c, "sent") /\ Ends({c})
    BY <1>1, <1>5, EndsRequest DEF Refuse, Fail, server
  <2>2. ~ Is(c, "ok")
    BY <2>1 DEF Is
  <2> QED
    BY <1>2, <2>1, <2>2
<1>6. ASSUME NEW c \in Calls, AnswerLost(c) PROVE ConfigInv'
  <2>1. /\ UNCHANGED <<kind, cfg, cfgAsked, cfgAnswers>> /\ Ends({c})
        /\ cfgStale' = (cfgStale \/ calls[c].form.config)
    BY <1>1, <1>6, EndsRequest DEF AnswerLost, server
  <2> QED
    BY <1>2, <2>1
<1>7. ASSUME NEW c \in Calls, Answered(c) PROVE ConfigInv'
  <2>1. UNCHANGED <<kind, cfg, cfgAnswers>> /\ Ends({c})
    BY <1>1, <1>7, EndsRequest DEF Answered, server
  <2>2. /\ calls[c].form.config => cfgStale' \/ cfgAsked'
        /\ cfgAsked => cfgAsked'
        /\ cfgStale => cfgStale'
    <3>1. CASE calls[c].heard
      <4>1. cfgAsked' = (cfgAsked \/ calls[c].form.config) /\ UNCHANGED cfgStale
        BY <1>7, <3>1 DEF Answered
      <4> QED
        BY <4>1
    <3>2. CASE ~ calls[c].heard
      <4>1. cfgStale' = (cfgStale \/ calls[c].form.config) /\ UNCHANGED cfgAsked
        BY <1>7, <3>2 DEF Answered
      <4> QED
        BY <4>1
    <3> QED
      BY <3>1, <3>2
  <2> QED
    BY <1>2, <2>1, <2>2
<1>8. ASSUME NEW c \in Calls, Serve(c) PROVE ConfigInv'
  <2>1. PICK q : q = calls[c].form
    OBVIOUS
  <2>2. PICK p : p = [Behind(q) EXCEPT !.id = Target(q)]
    OBVIOUS
  <2>3. /\ Plain(q) /\ ~ Refused(q, Me) /\ Apply(q) /\ q \in Form /\ WellFormed(q)
        /\ c \in UnderWay /\ calls[c].state = "sent" /\ calls'[c] # NoCall
        /\ calls'[c].state = "ok" /\ calls'[c].form = p
        /\ \A d \in UnderWay \ {c} : Overtaken(calls[d], calls'[d])
    BY <1>8, <2>1, <2>2, Served
  <2>4. p.config = q.config /\ kind' = kind
    BY <2>2, <2>3, BehindForm DEF Form, Apply
  <2>5. UNCHANGED <<cfgAsked, cfgStale>>
    BY <1>8 DEF Serve
  <2>6. CASE q.config
    <3>1. c \in UnderWay' /\ Is(c, "ok")' /\ calls'[c].form.config
      BY <2>3, <2>4, <2>6 DEF UnderWay, Is
    <3> QED
      BY <3>1 DEF ConfigInv
  <2>7. CASE ~ q.config
    <3>1. kind \in StreamParts => kind = "Stream" /\ q.op # "patch"
      BY <2>3, <2>7 DEF StreamParts, WellFormed
    <3>2. kind \in StreamParts => UNCHANGED <<cfg, cfgAnswers>>
      BY <2>3, <3>1 DEF Apply
    <3>3. ASSUME NEW d \in UnderWay, Is(d, "ok"), calls[d].form.config
          PROVE  d \in UnderWay' /\ Is(d, "ok")' /\ calls'[d].form.config
      <4>1. d # c
        BY <2>3, <3>3 DEF Is
      <4>2. calls[d].form \in Form
        BY CallForm
      <4>3. PICK k : k = calls[d]
        OBVIOUS
      <4>4. PICK l : l = calls'[d]
        OBVIOUS
      <4>5. l # NoCall /\ l.form = Behind(k.form) /\ l.state = k.state
        BY <2>3, <4>1, <4>3, <4>4 DEF Overtaken
      <4>6. l.form.config = k.form.config
        BY <4>2, <4>3, <4>5, BehindForm
      <4> QED
        BY <3>3, <4>3, <4>4, <4>5, <4>6 DEF Is, UnderWay
    <3> QED
      BY <1>1, <2>4, <2>5, <3>2, <3>3 DEF ConfigInv
  <2> QED
    BY <2>6, <2>7
<1>9. CASE ReadConfig \/ ConfigFails
  BY <1>9 DEF ReadConfig, ConfigFails, ConfigInv
<1>10. ASSUME NEW b \in cfgAnswers, ConfigAnswered(b) PROVE ConfigInv'
  BY <1>10 DEF ConfigAnswered, ConfigInv
<1>11. ASSUME NEW q \in AnyRequest, NEW u, Other(q, u) PROVE ConfigInv'
  BY <1>11 DEF Other, ConfigInv
<1>12. CASE Reload
  BY <1>12 DEF Reload, ConfigInv
<1> QED
  BY <1>3, <1>4, <1>5, <1>6, <1>7, <1>8, <1>9, <1>10, <1>11, <1>12 DEF Next

-----------------------------------------------------------------------------
(***************************************************************************)
(* The invariant, and what it implies                                      *)
(***************************************************************************)
LEMMA PagesInit == Init => IInv
<1> SUFFICES ASSUME Init PROVE IInv
  OBVIOUS
<1>1. TypeOK /\ answers \subseteq Answer /\ ServerInv
  BY TypeInit, ServerInit
<1>2. form = NoForm /\ UnderWay = {} /\ answers = {} /\ stale /\ cfgStale
      /\ \A i \in Ids : store[i] = NoRow
  BY DEF Init, UnderWay
<1>3. FormInv /\ StoreInv /\ ConfigInv
  BY <1>2 DEF FormInv, StoreInv, StoreA, StoreB, StoreC, ConfigInv
<1> QED
  BY <1>1, <1>3 DEF IInv

LEMMA PagesStutter == ASSUME IInv, UNCHANGED vars PROVE IInv'
<1>1. UNCHANGED server
      /\ UNCHANGED <<store, form, calls, asked, answers, cfg, cfgAsked, cfgAnswers,
                     cfgStale, stale, gone>>
  BY DEF vars, find, config
<1>2. TypeOK' /\ (answers \subseteq Answer)'
  BY <1>1 DEF IInv, TypeOK, server, Answer
<1>3. ServerInv'
  BY <1>1, SameServer DEF IInv, ServerInv, server
<1>4. FormInv'
  <2>1. DialogInv'
    BY <1>1, DialogKept
  <2>2. ASSUME NEW c \in UnderWay PROVE CallInv(calls[c])'
    BY <1>1, <2>2, KeptInv DEF Kept, UnderWay
  <2>3. UnderWay' = UnderWay
    BY <1>1 DEF UnderWay
  <2> QED
    BY <1>1, <2>1, <2>2, <2>3 DEF FormInv, DialogInv, CallInv, UnderWay
<1>5. StoreInv'
  <2>1. StoreA' /\ StoreB'
    BY <1>1, SameServer, CurrentStays DEF IInv, StoreInv, StoreA, StoreB, UnderWay, Is
  <2>2. ASSUME NEW i, Coming(i) PROVE Coming(i)'
    BY <1>1, <2>2, StillComing DEF Kept, UnderWay
  <2>3. StoreC'
    BY <1>1, <2>2, SameServer DEF IInv, StoreInv, StoreC, server
  <2> QED
    BY <2>1, <2>3 DEF StoreInv
<1>6. ConfigInv'
  BY <1>1 DEF IInv, ConfigInv, UnderWay, Is, server
<1> QED
  BY <1>2, <1>3, <1>4, <1>5, <1>6 DEF IInv

LEMMA PagesStep == ASSUME IInv, [Next]_vars PROVE IInv'
<1>1. CASE Next
  BY <1>1, TypeStep, ServerStep, FormStep, StoreStep, ConfigStep DEF IInv
<1> QED
  BY <1>1, PagesStutter

LEMMA PagesInv == Spec => []IInv
<1>1. IInv /\ [Next]_vars => IInv'
  BY PagesStep
<1> QED
  BY PagesInit, <1>1, PTL DEF Spec

\* Every variable keeps its type, for any number of rows, names, requests, changes and
\* finds: the store of feathers-vuex holds rows of the API only, a form is one of the
\* dialogs', and no request waits for a dialog that is closed.
THEOREM PagesTypes == Spec => []TypeOK
<1>1. IInv => TypeOK
  BY DEF IInv
<1> QED
  BY <1>1, PagesInv, PTL

\* A table shows what the server has, however many requests of the tab were under way
\* together and in whatever order they and the finds were answered, unless one of the
\* causes that StoreAgrees names: others, a find or a save that failed, an answer
\* overtaken, lost or not heard, a rule not waited for.
THEOREM StoreFollows == Spec => []StoreAgrees
<1>1. IInv => StoreAgrees
  <2> SUFFICES ASSUME IInv, Quiet, ~ stale, NEW i \in Ids \ gone
               PROVE  store[i] = IF i \in Visible THEN rows[i] ELSE NoRow
    BY DEF StoreAgrees
  <2>1. /\ i \notin Visible => store[i] = NoRow
        /\ i \in Visible => store[i] = rows[i] \/ Coming(i)
    BY DEF IInv, StoreInv, StoreB, StoreC, Quiet
  <2>2. ~ Coming(i)
    BY DEF Quiet, Coming
  <2> QED
    BY <2>1, <2>2
<1> QED
  BY <1>1, PagesInv, PTL

\* The page of a stream shows the configuration file after the last change, unless others
\* changed rows, a get failed or was overtaken, or an answer was lost or not heard.
THEOREM ConfigFollows == Spec => []ConfigShown
<1>1. IInv => ConfigShown
  BY DEF IInv, ConfigInv, ConfigShown
<1> QED
  BY <1>1, PagesInv, PTL

\* A form that is right about the rows when it is sent, and while it is on its way, is
\* never refused; one that is sent again is not right about them any more.
THEOREM OffersAccepted == Spec => RefusedOnlyIfBehind
<1>1. IInv /\ [Next]_vars =>
        [\A c \in Calls : Refuse(c) =>
           \/ ~ calls[c].form.informed
           \/ calls[c].form.check \notin {"none", "ok"}
           \/ kind = "Member" /\ calls[c].form.op = "create"]_vars
  <2> SUFFICES ASSUME IInv, NEW c \in Calls, Refuse(c), calls[c].form.informed,
                      calls[c].form.check \in {"none", "ok"},
                      ~ (kind = "Member" /\ calls[c].form.op = "create")
               PROVE  FALSE
    OBVIOUS
  <2>1. PICK q : q = calls[c].form
    OBVIOUS
  <2>2. c \in UnderWay /\ Refused(q, Me)
    BY <2>1 DEF Refuse, Is, UnderWay
  <2>3. q \in Form /\ WellFormed(q) /\ Right(q)
    BY <2>1, <2>2, CallForm
  <2>4. Admissible(q) /\ (q.check # "none" => ~ Taken(q.name))
    BY <2>1, <2>3 DEF Right
  <2>5. ~ Conflict(q)
    BY <2>1, <2>3, <2>4 DEF Conflict, WellFormed
  <2> QED
    BY <2>1, <2>2, <2>3, <2>4, <2>5 DEF Refused, Admissible
<1> QED
  BY <1>1, PagesInv, PTL DEF Spec, RefusedOnlyIfBehind

\* A form for something new takes the name of what is there only if its rule was not
\* waited for, or if rows have changed since the rule was content (as they have when the
\* form was sent before).
THEOREM NothingTaken == Spec => NewIsNew
<1>1. IInv /\ [Next]_vars =>
        [\A c \in Calls :
           Serve(c) /\ calls[c].form.check # "none" /\ Taken(calls[c].form.name)
           => calls[c].form.check \in {"asked", "overtaken"}]_vars
  <2> SUFFICES ASSUME IInv, NEW c \in Calls, Serve(c), calls[c].form.check # "none",
                      Taken(calls[c].form.name)
               PROVE  calls[c].form.check \in {"asked", "overtaken"}
    OBVIOUS
  <2>1. PICK q : q = calls[c].form
    OBVIOUS
  <2>2. c \in UnderWay
    BY DEF Serve, Is, UnderWay
  <2>3. q \in Form /\ Right(q) /\ q.check # "dup"
    BY <2>1, <2>2, CallForm
  <2>4. q.check \in {"none", "asked", "ok", "dup", "overtaken"}
    BY <2>3 DEF Form
  <2> QED
    BY <2>1, <2>3, <2>4 DEF Right
<1> QED
  BY <1>1, PagesInv, PTL DEF Spec, NewIsNew

-----------------------------------------------------------------------------
(***************************************************************************)
(* Sessions of the web interface (module Browser): types, that a session   *)
(* keeps its Vault token, and that a tab shows nobody else's records, for  *)
(* any number of tabs, users and log-ins and any life time of a JWT.       *)
(***************************************************************************)
Issued == {j \in Jwts : jwts[j] # NoSession}

\* What a tab waits for: the JWT of a log-in names its user, nobody finds anything
\* while the tab logs out.
Context(t) ==
    /\ finds[t] \in Issued \cup {NoJwt} /\ fresh[t] \in Issued \cup {NoJwt}
    /\ pc[t] = "authenticate" => mine[t] = NoJwt
    /\ pc[t] \in {"login", "redis"} => who[t] \in Users
    /\ pc[t] = "redis" => fresh[t] # NoJwt /\ jwts[fresh[t]].user = who[t]
    /\ pc[t] = "logout" => page[t] = "logout" /\ (t \notin late => finds[t] = NoJwt)

\* A JWT that a browser holds has its entry in Redis, which lasts at least as long.
Backed(j) ==
    \/ j = NoJwt \/ j \in lost
    \/ /\ redis[j] # NoSession /\ redis[j].user = jwts[j].user
       /\ redis[j].exp >= jwts[j].exp
TokenInv ==
    /\ Backed(stored)
    /\ \A t \in Tabs : Backed(mine[t]) /\ (pc[t] = "authenticate" => Backed(fresh[t]))
    /\ \A j \in Issued : jwts[j].exp <= now + JwtTtl

\* The store of a tab and what it is going to get belong to the user of the tab, or
\* there is neither.
Own(t) ==
    IF mine[t] = NoJwt
      THEN storeOf[t] \cap Counted = {} /\ finds[t] = NoJwt
      ELSE /\ storeOf[t] \cap Counted \subseteq Owned[User(t)]
           /\ finds[t] # NoJwt => jwts[finds[t]].user = User(t)
OwnInv == \A t \in Tabs \ (late \cup switched) : Own(t)

ContextInv == \A t \in Tabs : Context(t)
SessionInv == BrowserTypeOK /\ ContextInv /\ TokenInv /\ OwnInv

\* In the first state no tab has anything.
LEMMA SessionInit == BrowserInit => SessionInv
<1> SUFFICES ASSUME BrowserInit PROVE SessionInv
  OBVIOUS
<1>1. BrowserTypeOK
  BY BrowserAssumption DEF BrowserInit, BrowserTypeOK, Places, PCs
<1>2. ContextInv /\ TokenInv /\ OwnInv
  BY BrowserAssumption
  DEF BrowserInit, ContextInv, Context, TokenInv, OwnInv, Own, Backed, Issued
<1> QED
  BY <1>1, <1>2 DEF SessionInv

-----------------------------------------------------------------------------
\* The guard of the router changes nothing but what the tab waits for.
LEMMA VisitStep ==
    ASSUME SessionInv, NEW t \in Tabs, Visit(t)
    PROVE  SessionInv'
<1>1. BrowserTypeOK /\ ContextInv /\ TokenInv /\ OwnInv
  BY DEF SessionInv
<1> USE DEF Visit, sessions, history, Goto, Show
<1>2. BrowserTypeOK'
  BY <1>1, BrowserAssumption DEF BrowserTypeOK, Places, PCs
<1>3. ContextInv'
  BY <1>1, BrowserAssumption DEF ContextInv, Context, Issued, BrowserTypeOK
<1>4. TokenInv'
  BY <1>1 DEF TokenInv, Backed, Issued, BrowserTypeOK
<1>5. OwnInv'
  BY <1>1 DEF OwnInv, Own, User
<1> QED
  BY <1>2, <1>3, <1>4, <1>5 DEF SessionInv

\* A JWT taken over from another tab has its entry; the tab had no records.
LEMMA AuthenticateStep ==
    ASSUME SessionInv, NEW t \in Tabs, Authenticate(t)
    PROVE  SessionInv'
<1>1. BrowserTypeOK /\ ContextInv /\ TokenInv /\ OwnInv
  BY DEF SessionInv
<1> USE DEF Authenticate, sessions, history, Goto, Show, Idle
<1>2. BrowserTypeOK'
  BY <1>1, BrowserAssumption
  DEF BrowserTypeOK, Places, PCs, ContextInv, Context, Issued, Valid
<1>3. ContextInv'
  BY <1>1, BrowserAssumption DEF ContextInv, Context, Issued, BrowserTypeOK
<1>4. TokenInv'
  BY <1>1 DEF TokenInv, Backed, Issued, BrowserTypeOK
<1>5. OwnInv'
  BY <1>1 DEF OwnInv, Own, User, BrowserTypeOK, ContextInv, Context, Valid
<1> QED
  BY <1>2, <1>3, <1>4, <1>5 DEF SessionInv

\* A tab that is loaded again has nothing.
LEMMA TabReloadStep ==
    ASSUME SessionInv, NEW t \in Tabs, ReloadTab(t)
    PROVE  SessionInv'
<1>1. BrowserTypeOK /\ ContextInv /\ TokenInv /\ OwnInv
  BY DEF SessionInv
<1> USE DEF ReloadTab, sessions, Goto, Show, Idle
<1>2. BrowserTypeOK'
  BY <1>1, BrowserAssumption DEF BrowserTypeOK, Places, PCs
<1>3. ContextInv'
  BY <1>1, BrowserAssumption DEF ContextInv, Context, Issued, BrowserTypeOK
<1>4. TokenInv'
  BY <1>1 DEF TokenInv, Backed, Issued, BrowserTypeOK
<1>5. OwnInv'
  BY <1>1 DEF OwnInv, Own, User, BrowserTypeOK
<1> QED
  BY <1>2, <1>3, <1>4, <1>5 DEF SessionInv

\* A page that logs a user in waits for the server.
LEMMA LoginStep ==
    ASSUME SessionInv, NEW t \in Tabs,
           LoginForm(t) \/ LoginShibboleth(t)
    PROVE  SessionInv'
<1>1. BrowserTypeOK /\ ContextInv /\ TokenInv /\ OwnInv
  BY DEF SessionInv
<1> USE DEF LoginForm, LoginShibboleth, sessions, history, Goto
<1>2. BrowserTypeOK'
  BY <1>1, BrowserAssumption DEF BrowserTypeOK, Places, PCs
<1>3. ContextInv'
  BY <1>1, BrowserAssumption DEF ContextInv, Context, Issued, BrowserTypeOK
<1>4. TokenInv'
  BY <1>1 DEF TokenInv, Backed, Issued, BrowserTypeOK
<1>5. OwnInv'
  BY <1>1 DEF OwnInv, Own, User
<1> QED
  BY <1>2, <1>3, <1>4, <1>5 DEF SessionInv

\* A new JWT is one that no browser holds yet.
LEMMA CreateAccessTokenStep ==
    ASSUME SessionInv, NEW t \in Tabs, CreateAccessToken(t)
    PROVE  SessionInv'
<1>1. BrowserTypeOK /\ ContextInv /\ TokenInv /\ OwnInv
  BY DEF SessionInv
<1>2. CASE Idle(t) /\ UNCHANGED jwts
  <2> USE <1>2 DEF CreateAccessToken, history, Goto, Idle
  <2>1. BrowserTypeOK'
    BY <1>1, BrowserAssumption DEF BrowserTypeOK, PCs
  <2>2. ContextInv'
    BY <1>1, BrowserAssumption DEF ContextInv, Context, Issued, BrowserTypeOK
  <2>3. TokenInv'
    BY <1>1 DEF TokenInv, Backed, Issued, BrowserTypeOK
  <2>4. OwnInv'
    BY <1>1 DEF OwnInv, Own, User
  <2> QED
    BY <2>1, <2>2, <2>3, <2>4 DEF SessionInv
<1>3. ASSUME NEW j \in Jwts, jwts[j] = NoSession,
             jwts' = [jwts EXCEPT ![j] = [user |-> who[t], exp |-> now + JwtTtl,
                                          shibboleth |-> page[t] = "shibboleth"]],
             fresh' = [fresh EXCEPT ![t] = j], Goto(t, "redis"), UNCHANGED who
      PROVE  SessionInv'
  <2> USE <1>3 DEF CreateAccessToken, history, Goto
  <2>1. /\ who[t] \in Users /\ pc[t] = "login" /\ now \in 0 .. MaxNow
        /\ UNCHANGED <<now, redis, stored, mine, page, storeOf, finds, lost, late, switched>>
    BY <1>1 DEF ContextInv, Context, BrowserTypeOK
  <2>2. /\ now + JwtTtl \in 0 .. MaxNow + JwtTtl
        /\ [user |-> who[t], exp |-> now + JwtTtl, shibboleth |-> page[t] = "shibboleth"]
             \in Session
    BY <2>1, BrowserAssumption DEF Session
  <2>3. /\ Issued' = Issued \cup {j} /\ j \notin Issued
        /\ \A i \in Issued : jwts'[i] = jwts[i]
        /\ jwts'[j].user = who[t] /\ jwts'[j].exp = now + JwtTtl
    BY <1>1, <2>2, BrowserAssumption DEF Issued, BrowserTypeOK
  <2>4. /\ stored \in Issued \cup {NoJwt}
        /\ \A s \in Tabs : mine[s] \in Issued \cup {NoJwt}
    BY <1>1 DEF BrowserTypeOK, Issued
  <2>5. BrowserTypeOK'
    BY <1>1, <2>1, <2>2, <2>3, BrowserAssumption DEF BrowserTypeOK, PCs, Issued
  <2>6. ContextInv'
    BY <1>1, <2>1, <2>3, BrowserAssumption DEF ContextInv, Context, BrowserTypeOK
  <2>7. TokenInv'
    BY <1>1, <2>1, <2>3, <2>4, BrowserAssumption
    DEF TokenInv, Backed, BrowserTypeOK, ContextInv, Context
  <2>8. OwnInv'
    BY <1>1, <2>1, <2>3, <2>4 DEF OwnInv, Own, User, ContextInv, Context
  <2> QED
    BY <2>5, <2>6, <2>7, <2>8 DEF SessionInv
<1> QED
  BY <1>2, <1>3 DEF CreateAccessToken

\* The entry of a log-in is for its user, and lasts as long as the JWT; the JWT is
\* held by the browser from then on.
LEMMA SetRedisStep ==
    ASSUME SessionInv, NEW t \in Tabs, SetRedis(t)
    PROVE  SessionInv'
<1>1. BrowserTypeOK /\ ContextInv /\ TokenInv /\ OwnInv
  BY DEF SessionInv
<1>9. PICK j \in Jwts : j = fresh[t] /\ j \in Issued
  BY <1>1, BrowserAssumption DEF SetRedis, ContextInv, Context, Issued, BrowserTypeOK
<1>2. /\ pc[t] = "redis" /\ Idle(t) /\ j = fresh[t] /\ jwts[j].user = who[t]
      /\ j \in Jwts /\ jwts[j] \in Session /\ jwts[j].exp <= now + JwtTtl
      /\ j # NoJwt /\ now \in 0 .. MaxNow
      /\ UNCHANGED <<now, jwts, storeOf, finds, lost, late>>
  BY <1>1, <1>9, BrowserAssumption
  DEF SetRedis, ContextInv, Context, Issued, TokenInv, BrowserTypeOK
<1>3. CASE UNCHANGED <<redis, mine, stored, page, switched>>
  <2> USE <1>2, <1>3, <1>9 DEF Goto, Idle
  <2>1. BrowserTypeOK'
    BY <1>1, BrowserAssumption DEF BrowserTypeOK, PCs
  <2>2. ContextInv'
    BY <1>1, BrowserAssumption DEF ContextInv, Context, Issued, BrowserTypeOK
  <2>3. TokenInv'
    BY <1>1 DEF TokenInv, Backed, Issued, BrowserTypeOK
  <2>4. OwnInv'
    BY <1>1 DEF OwnInv, Own, User
  <2> QED
    BY <2>1, <2>2, <2>3, <2>4 DEF SessionInv
<1>4. ASSUME redis' = [redis EXCEPT ![j] = [jwts[j] EXCEPT !.exp = now + Expire]],
             mine' = [mine EXCEPT ![t] = j], stored' = j, Show(t, "home"),
             switched' = IF mine[t] # NoJwt /\ User(t) # who[t]
                           THEN switched \cup {t} ELSE switched
      PROVE  SessionInv'
  <2> USE <1>2, <1>4, <1>9 DEF Goto, Idle, Show
  <2>1. /\ [jwts[j] EXCEPT !.exp = now + Expire] \in Session
        /\ redis'[j] # NoSession /\ redis'[j].user = jwts[j].user
        /\ redis'[j].exp = now + JwtTtl
        /\ \A i \in Jwts \ {j} : redis'[i] = redis[i]
    BY <1>1, BrowserAssumption DEF Session, BrowserTypeOK, Expire
  <2>2. BrowserTypeOK'
    BY <1>1, <2>1, BrowserAssumption DEF BrowserTypeOK, PCs, Places, Issued
  <2>3. ContextInv'
    BY <1>1, BrowserAssumption DEF ContextInv, Context, Issued, BrowserTypeOK
  <2>4. Backed(j)' /\ \A i \in Jwts \cup {NoJwt} : Backed(i) => Backed(i)'
    BY <1>1, <2>1 DEF Backed, BrowserTypeOK
  <2>5. TokenInv'
    <3>1. \A s \in Tabs : mine[s] \in Jwts \cup {NoJwt} /\ fresh[s] \in Jwts \cup {NoJwt}
      BY <1>1 DEF BrowserTypeOK
    <3>2. Backed(stored)'
      BY <2>4
    <3>3. ASSUME NEW s \in Tabs
          PROVE  Backed(mine[s])' /\ (pc[s] = "authenticate" => Backed(fresh[s]))'
      <4>1. CASE s = t
        <5>1. mine'[s] = j /\ pc'[s] = "none"
          BY <1>1, <4>1 DEF BrowserTypeOK
        <5> QED
          BY <2>4, <5>1
      <4>2. CASE s # t
        <5>1. mine'[s] = mine[s] /\ fresh'[s] = fresh[s] /\ pc'[s] = pc[s]
          BY <1>1, <4>2 DEF BrowserTypeOK
        <5>2. Backed(mine[s])'
          BY <1>1, <2>4, <3>1, <5>1 DEF TokenInv
        <5>3. pc'[s] = "authenticate" => Backed(fresh[s])'
          BY <1>1, <2>4, <3>1, <5>1 DEF TokenInv
        <5> QED
          BY <5>2, <5>3
      <4> QED
        BY <4>1, <4>2
    <3> QED
      BY <1>1, <3>2, <3>3 DEF TokenInv, Issued
  <2>6. OwnInv'
    BY <1>1 DEF OwnInv, Own, User, BrowserTypeOK
  <2> QED
    BY <2>2, <2>3, <2>5, <2>6 DEF SessionInv
<1> QED
  BY <1>2, <1>3, <1>4, <1>9 DEF SetRedis

\* A find is made with the JWT of the tab, or with the one it had before.
LEMMA FindStep ==
    ASSUME SessionInv, NEW t \in Tabs, Find(t)
    PROVE  SessionInv'
<1>1. BrowserTypeOK /\ ContextInv /\ TokenInv /\ OwnInv
  BY DEF SessionInv
<1> USE DEF Find, sessions, history
<1>2. BrowserTypeOK'
  BY <1>1, BrowserAssumption DEF BrowserTypeOK, Places, PCs
<1>3. ContextInv'
  BY <1>1, BrowserAssumption DEF ContextInv, Context, Issued, BrowserTypeOK
<1>4. TokenInv'
  BY <1>1 DEF TokenInv, Backed, Issued, BrowserTypeOK
<1>5. OwnInv'
  BY <1>1 DEF OwnInv, Own, User, BrowserTypeOK
<1> QED
  BY <1>2, <1>3, <1>4, <1>5 DEF SessionInv

\* What a tab gets is the user's whose JWT the find was made with.
LEMMA FindAnsweredStep ==
    ASSUME SessionInv, NEW t \in Tabs, TabFindAnswered(t)
    PROVE  SessionInv'
<1>1. BrowserTypeOK /\ ContextInv /\ TokenInv /\ OwnInv
  BY DEF SessionInv
<1> USE DEF TabFindAnswered, sessions, history, Show
<1>2. /\ finds[t] \in Issued
      /\ Owned[jwts[finds[t]].user] \subseteq Records
  BY <1>1, BrowserAssumption
  DEF ContextInv, Context, Issued, BrowserTypeOK, Session, Records
<1>3. BrowserTypeOK'
  BY <1>1, <1>2, BrowserAssumption DEF BrowserTypeOK, Places, PCs
<1>4. ContextInv'
  BY <1>1, BrowserAssumption DEF ContextInv, Context, Issued, BrowserTypeOK
<1>5. TokenInv'
  BY <1>1 DEF TokenInv, Backed, Issued, BrowserTypeOK
<1>6. OwnInv'
  BY <1>1 DEF OwnInv, Own, User, BrowserTypeOK
<1> QED
  BY <1>3, <1>4, <1>5, <1>6 DEF SessionInv

\* Before a log-out, a find under way is remembered in `late'.
LEMMA LogoutStep ==
    ASSUME SessionInv, NEW t \in Tabs, Logout(t)
    PROVE  SessionInv'
<1>1. BrowserTypeOK /\ ContextInv /\ TokenInv /\ OwnInv
  BY DEF SessionInv
<1> USE DEF Logout, sessions, Show, Goto
<1>2. BrowserTypeOK'
  BY <1>1, BrowserAssumption DEF BrowserTypeOK, Places, PCs
<1>3. ContextInv'
  BY <1>1, BrowserAssumption DEF ContextInv, Context, Issued, BrowserTypeOK
<1>4. TokenInv'
  BY <1>1 DEF TokenInv, Backed, Issued, BrowserTypeOK
<1>5. OwnInv'
  BY <1>1 DEF OwnInv, Own, User, BrowserTypeOK
<1> QED
  BY <1>2, <1>3, <1>4, <1>5 DEF SessionInv

\* After it the store has nothing that counts, or is made anew.
LEMMA LoggedOutStep ==
    ASSUME SessionInv, NEW t \in Tabs, LoggedOut(t)
    PROVE  SessionInv'
<1>1. BrowserTypeOK /\ ContextInv /\ TokenInv /\ OwnInv
  BY DEF SessionInv
<1> USE DEF LoggedOut, sessions, Show, Goto
<1>2. BrowserTypeOK'
  BY <1>1, BrowserAssumption DEF BrowserTypeOK, Places, PCs
<1>3. ContextInv'
  BY <1>1, BrowserAssumption DEF ContextInv, Context, Issued, BrowserTypeOK
<1>4. TokenInv'
  BY <1>1 DEF TokenInv, Backed, Issued, BrowserTypeOK
<1>5. OwnInv'
  BY <1>1 DEF OwnInv, Own, User, BrowserTypeOK, MustReload, ExistStoreData, ContextInv, Context
<1> QED
  BY <1>2, <1>3, <1>4, <1>5 DEF SessionInv

\* A log-out that fails leaves everything as it is.
LEMMA LogoutFailsStep ==
    ASSUME SessionInv, NEW t \in Tabs, LogoutFails(t)
    PROVE  SessionInv'
<1>1. BrowserTypeOK /\ ContextInv /\ TokenInv /\ OwnInv
  BY DEF SessionInv
<1> USE DEF LogoutFails, sessions, history, Goto
<1>2. BrowserTypeOK'
  BY <1>1, BrowserAssumption DEF BrowserTypeOK, Places, PCs
<1>3. ContextInv'
  BY <1>1, BrowserAssumption DEF ContextInv, Context, Issued, BrowserTypeOK
<1>4. TokenInv'
  BY <1>1 DEF TokenInv, Backed, Issued, BrowserTypeOK
<1>5. OwnInv'
  BY <1>1 DEF OwnInv, Own, User
<1> QED
  BY <1>2, <1>3, <1>4, <1>5 DEF SessionInv

\* Time passes.
LEMMA TickStep ==
    ASSUME SessionInv, Tick PROVE SessionInv'
<1>1. BrowserTypeOK /\ ContextInv /\ TokenInv /\ OwnInv
  BY DEF SessionInv
<1> USE DEF Tick, tab, history
<1>2. BrowserTypeOK'
  BY <1>1, BrowserAssumption DEF BrowserTypeOK
<1>3. ContextInv'
  BY <1>1 DEF ContextInv, Context, Issued
<1>4. TokenInv'
  <2>1. \A j \in Issued : jwts[j].exp \in Nat /\ now \in Nat
    BY <1>1, BrowserAssumption DEF Issued, BrowserTypeOK, Session
  <2> QED
    BY <1>1, <2>1, BrowserAssumption DEF TokenInv, Backed, Issued
<1>5. OwnInv'
  BY <1>1 DEF OwnInv, Own, User
<1> QED
  BY <1>2, <1>3, <1>4, <1>5 DEF SessionInv

\* What Redis loses is remembered in `lost'.
LEMMA RestartStep ==
    ASSUME SessionInv, Restart PROVE SessionInv'
<1>1. BrowserTypeOK /\ ContextInv /\ TokenInv /\ OwnInv
  BY DEF SessionInv
<1> USE DEF Restart, tab
<1>2. BrowserTypeOK'
  BY <1>1, BrowserAssumption DEF BrowserTypeOK
<1>3. ContextInv'
  BY <1>1 DEF ContextInv, Context, Issued
<1>4. TokenInv'
  BY <1>1 DEF TokenInv, Backed, Issued, BrowserTypeOK, ContextInv, Context
<1>5. OwnInv'
  BY <1>1 DEF OwnInv, Own, User
<1> QED
  BY <1>2, <1>3, <1>4, <1>5 DEF SessionInv

\* Each step keeps the invariant.
LEMMA SessionStep == SessionInv /\ [BrowserNext]_browserVars => SessionInv'
<1> SUFFICES ASSUME SessionInv, [BrowserNext]_browserVars PROVE SessionInv'
  OBVIOUS
<1>1. CASE UNCHANGED browserVars
  BY <1>1
  DEF browserVars, sessions, tab, history, SessionInv, BrowserTypeOK, ContextInv, Context,
      TokenInv, Backed, OwnInv, Own, User, Issued
<1>2. CASE BrowserNext
  BY <1>2, VisitStep, AuthenticateStep, TabReloadStep, LoginStep, CreateAccessTokenStep,
     SetRedisStep, FindStep, FindAnsweredStep, LogoutStep, LoggedOutStep, LogoutFailsStep,
     TickStep, RestartStep DEF BrowserNext
<1> QED
  BY <1>1, <1>2

\* The invariant, which the theorems below are parts of.
THEOREM SessionInvariant == BrowserSpec => []SessionInv
<1> QED
  BY SessionInit, SessionStep, PTL DEF BrowserSpec

\* Every variable keeps its type.
THEOREM SessionTypes == BrowserSpec => []BrowserTypeOK
<1>1. SessionInv => BrowserTypeOK
  BY DEF SessionInv
<1> QED
  BY <1>1, SessionInvariant, PTL

\* A tab whose JWT is valid has the Vault token of its user in Redis, whatever other
\* tabs do, as long as Redis loses nothing: `create' of authentication.ts keeps the
\* entry at least as long as the JWT lasts.
THEOREM TokenLasts == BrowserSpec => []SessionHasToken
<1>1. SessionInv => SessionHasToken
  <2> SUFFICES ASSUME SessionInv, NEW t \in Tabs, Valid(mine[t]), mine[t] \notin lost
               PROVE  HasToken(mine[t]) /\ redis[mine[t]].user = User(t)
    BY DEF SessionHasToken
  <2>1. /\ Backed(mine[t]) /\ mine[t] \in Jwts /\ jwts[mine[t]] \in Session
        /\ redis[mine[t]] \in Session \cup {NoSession} /\ now \in 0 .. MaxNow
    BY DEF SessionInv, TokenInv, BrowserTypeOK, Valid
  <2> QED
    BY <2>1, BrowserAssumption DEF Backed, Valid, HasToken, User, Session
<1> QED
  BY <1>1, SessionInvariant, PTL

\* The store of a tab has records of no other user that LogoutView looks for, unless a
\* log-out overtook a find or another user logged in without a log-out.
THEOREM StoreIsOwn == BrowserSpec => []NothingOfOthers
<1>1. SessionInv => NothingOfOthers
  BY DEF SessionInv, OwnInv, Own, NothingOfOthers
<1> QED
  BY <1>1, SessionInvariant, PTL
=============================================================================
