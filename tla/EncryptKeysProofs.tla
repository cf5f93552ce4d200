------------------------- MODULE EncryptKeysProofs --------------------------
(***************************************************************************)
(* Theorems about EncryptKeys, for any number of requests, targets, keys   *)
(* and versions.                                                           *)
(***************************************************************************)
EXTENDS EncryptKeysMet, TLAPS

\* h prepares a row, inserted or not.
Creating(h) == pc[h] = "insert" \/ Inserted(h)

\* A handler remembers a key and a row exactly while it writes them.
ContextInv ==
    \A h \in Handlers :
        /\ kid[h] = NoKey <=> pc[h] \in {"idle", "delete", "cleanup"}
        /\ row[h] = NoRow <=> pc[h] \in {"idle", "delete", "cleanup"}

\* What the locks of a transaction protect.
LockInv ==
    /\ \A h \in Handlers : Patched(h) => db[kid[h]] # NoRow
    /\ \A h \in Handlers :
         Inserted(h) => live /\ row[h].version \notin Versions(row[h].target)
    /\ \A g, h \in Handlers :
         g # h /\ Inserted(g) /\ Inserted(h)
           => row[g].target # row[h].target \/ row[g].version # row[h].version
    /\ \A g, h \in Handlers :
         Deleted(h) => /\ live
                       /\ g # h => ~ Inserted(g) /\ ~ Patched(g) /\ ~ Deleted(g)
    /\ ~ live => \A k \in KeyIds : db[k] = NoRow

\* An id belongs to one row.
FreshInv ==
    /\ \A k \in KeyIds : db[k] # NoRow => k \in used
    /\ \A h \in Handlers : Creating(h) => kid[h] \in used /\ db[kid[h]] = NoRow
    /\ \A g, h \in Handlers :
         g # h /\ Creating(g) /\ Creating(h) => kid[g] # kid[h]

\* A version being inserted comes right after committed ones.
NextInv ==
    \A h \in Handlers :
        Creating(h) /\ live =>
            /\ row[h].version >= 1
            /\ 1..(row[h].version - 1) \subseteq Versions(row[h].target)

IInv == TypeOK /\ ContextInv /\ LockInv /\ FreshInv /\ NextInv /\ VersionsGapless

-----------------------------------------------------------------------------
\* The step changes flags at most: the keys and their versions stay.
SameKeys ==
    \A k \in KeyIds :
        /\ db'[k] = NoRow <=> db[k] = NoRow
        /\ db[k] # NoRow => /\ db'[k].target = db[k].target
                            /\ db'[k].version = db[k].version

\* Such a step keeps the versions of every target.
LEMMA SameVersions ==
    ASSUME SameKeys, NEW t
    PROVE  KeysOf(t)' = KeysOf(t) /\ Versions(t)' = Versions(t)
BY DEF SameKeys, KeysOf, Versions

LEMMA SameGapless ==
    ASSUME VersionsGapless, SameKeys PROVE VersionsGapless'
<1>1. ASSUME NEW t \in Targets, NEW j \in KeysOf(t), NEW k \in KeysOf(t),
             db'[j].version = db'[k].version
      PROVE  j = k
  BY <1>1 DEF SameKeys, VersionsGapless, KeysOf
<1> QED
  BY <1>1, SameVersions DEF VersionsGapless

LEMMA InitInv == Init => IInv
BY ConstantsAssumption
   DEF Init, IInv, TypeOK, PCs, ContextInv, LockInv, FreshInv, NextInv,
       VersionsGapless, Creating, Inserted, Patched, Deleted, KeysOf, Versions

LEMMA PrepareEncryptKeyInv ==
    ASSUME IInv, NEW h \in Handlers, PrepareEncryptKey(h) PROVE IInv'
<1> USE ConstantsAssumption DEF IInv
<1>1. PICK t \in Targets, e \in BOOLEAN, k \in KeyIds \ used :
        /\ \E v \in GenerateVersion(t) :
             row' = [row EXCEPT ![h] = [target |-> t, version |-> v,
                                        enabled |-> e]]
        /\ kid' = [kid EXCEPT ![h] = k]
        /\ used' = used \cup {k}
  BY DEF PrepareEncryptKey
<1> PICK v \in GenerateVersion(t) :
      row' = [row EXCEPT ![h] = [target |-> t, version |-> v, enabled |-> e]]
  BY <1>1
<1>2. /\ pc[h] = "idle"
      /\ pc' = [pc EXCEPT ![h] = "insert"]
      /\ UNCHANGED <<db, live, vault, removals, secrets>>
  BY DEF PrepareEncryptKey, Goto
<1>3. v \in Nat /\ v >= 1 /\ 1..(v - 1) \subseteq Versions(t)
  <2>1. CASE KeysOf(t) = {}
    BY <2>1 DEF GenerateVersion
  <2>2. CASE KeysOf(t) # {}
    <3>1. PICK j \in KeysOf(t) : v = db[j].version + 1
      BY <2>2 DEF GenerateVersion
    <3>2. db[j].version \in Nat /\ db[j].version \in Versions(t)
      BY DEF TypeOK, Row, KeysOf, Versions
    <3> QED
      BY <3>1, <3>2 DEF VersionsGapless
  <2> QED
    BY <2>1, <2>2
<1>4. [target |-> t, version |-> v, enabled |-> e] \in Row
  BY <1>3 DEF Row
<1>5. SameKeys
  BY <1>2 DEF SameKeys
<1>6. TypeOK'
  BY <1>1, <1>2, <1>4 DEF TypeOK, PCs
<1>7. ContextInv'
  BY <1>1, <1>2, <1>4 DEF ContextInv, TypeOK
<1>8. LockInv'
  BY <1>1, <1>2, SameVersions, <1>5 DEF LockInv, Inserted, Patched, Deleted, TypeOK
<1>9. FreshInv'
  BY <1>1, <1>2 DEF FreshInv, Creating, Inserted, TypeOK
<1>10. NextInv'
  BY <1>1, <1>2, <1>3, SameVersions, <1>5 DEF NextInv, Creating, Inserted, TypeOK
<1> QED
  BY <1>5, <1>6, <1>7, <1>8, <1>9, <1>10, SameGapless

LEMMA DisallowModifyOldRecordInv ==
    ASSUME IInv, NEW h \in Handlers, DisallowModifyOldRecord(h) PROVE IInv'
<1> USE ConstantsAssumption DEF IInv
<1>1. PICK k \in KeyIds, e \in BOOLEAN :
        /\ db[k] # NoRow
        /\ kid' = [kid EXCEPT ![h] = k]
        /\ row' = [row EXCEPT ![h] = [db[k] EXCEPT !.enabled = e]]
  BY DEF DisallowModifyOldRecord
<1>2. /\ pc[h] = "idle"
      /\ pc' = [pc EXCEPT ![h] = "patch"]
      /\ UNCHANGED <<db, live, vault, removals, used, secrets>>
  BY DEF DisallowModifyOldRecord, Goto, shared
<1>3. [db[k] EXCEPT !.enabled = e] \in Row
  BY <1>1 DEF Row, TypeOK
<1>4. SameKeys
  BY <1>2 DEF SameKeys
<1>5. TypeOK'
  BY <1>1, <1>2, <1>3 DEF TypeOK, PCs
<1>6. ContextInv'
  BY <1>1, <1>2, <1>3 DEF ContextInv, TypeOK
<1>7. LockInv'
  BY <1>1, <1>2, <1>4, SameVersions
     DEF LockInv, Inserted, Patched, Deleted, TypeOK
<1>8. FreshInv'
  BY <1>1, <1>2 DEF FreshInv, Creating, Inserted, TypeOK
<1>9. NextInv'
  BY <1>1, <1>2, <1>4, SameVersions DEF NextInv, Creating, Inserted, TypeOK
<1> QED
  BY <1>4, <1>5, <1>6, <1>7, <1>8, <1>9, SameGapless

LEMMA PrepareCleanupSecretsInv ==
    ASSUME IInv, NEW h \in Handlers, PrepareCleanupSecrets(h) PROVE IInv'
<1> USE ConstantsAssumption DEF IInv
<1>1. /\ pc[h] = "idle"
      /\ pc' = [pc EXCEPT ![h] = "delete"]
      /\ secrets' = [secrets EXCEPT ![h] = {k \in KeyIds : db[k] # NoRow}]
      /\ UNCHANGED <<db, live, vault, removals, used, kid, row>>
  BY DEF PrepareCleanupSecrets, Goto, shared
<1>2. SameKeys
  BY <1>1 DEF SameKeys
<1>3. TypeOK'
  BY <1>1 DEF TypeOK, PCs
<1>4. ContextInv'
  BY <1>1 DEF ContextInv, TypeOK
<1>5. LockInv'
  BY <1>1, <1>2, SameVersions DEF LockInv, Inserted, Patched, Deleted, TypeOK
<1>6. FreshInv'
  BY <1>1 DEF FreshInv, Creating, Inserted, TypeOK
<1>7. NextInv'
  BY <1>1, <1>2, SameVersions DEF NextInv, Creating, Inserted, TypeOK
<1> QED
  BY <1>2, <1>3, <1>4, <1>5, <1>6, <1>7, SameGapless

\* A request that ends without a change to the database: a refused INSERT, a
\* PATCH or DELETE of something gone, a failure.
LEMMA AnswerInv ==
    ASSUME IInv, NEW h \in Handlers, Answer(h),
           UNCHANGED <<db, live, vault, used>>, removals' \subseteq KeyIds
    PROVE  IInv'
<1> USE ConstantsAssumption DEF IInv, Answer, Goto
<1>1. SameKeys
  BY DEF SameKeys
<1>2. TypeOK'
  BY DEF TypeOK, PCs
<1>3. ContextInv'
  BY DEF ContextInv, TypeOK
<1>4. LockInv'
  BY <1>1, SameVersions DEF LockInv, Inserted, Patched, Deleted, TypeOK
<1>5. FreshInv'
  BY DEF FreshInv, Creating, Inserted, TypeOK
<1>6. NextInv'
  BY <1>1, SameVersions DEF NextInv, Creating, Inserted, TypeOK
<1> QED
  BY <1>1, <1>2, <1>3, <1>4, <1>5, <1>6, SameGapless

LEMMA InsertKeyInv ==
    ASSUME IInv, NEW h \in Handlers, InsertKey(h) PROVE IInv'
<1> USE ConstantsAssumption DEF IInv
<1>1. /\ pc[h] = "insert"
      /\ InsertUnblocked(h)
      /\ live
      /\ row[h].version \notin Versions(row[h].target)
      /\ pc' = [pc EXCEPT ![h] = "disableOld"]
      /\ UNCHANGED <<db, live, vault, removals, used, kid, row, secrets>>
  BY DEF InsertKey, Goto, shared
<1>2. SameKeys
  BY <1>1 DEF SameKeys
<1>3. TypeOK'
  BY <1>1 DEF TypeOK, PCs
<1>4. ContextInv'
  BY <1>1 DEF ContextInv, TypeOK
<1>5. LockInv'
  BY <1>1, <1>2, SameVersions
     DEF LockInv, Inserted, Patched, Deleted, TypeOK, InsertUnblocked
<1>6. FreshInv'
  BY <1>1 DEF FreshInv, Creating, Inserted, TypeOK
<1>7. NextInv'
  BY <1>1, <1>2, SameVersions DEF NextInv, Creating, Inserted, TypeOK
<1> QED
  BY <1>2, <1>3, <1>4, <1>5, <1>6, <1>7, SameGapless

LEMMA DisableOldKeyInv ==
    ASSUME IInv, NEW h \in Handlers, DisableOldKey(h) PROVE IInv'
<1> USE ConstantsAssumption DEF IInv
<1>1. /\ pc[h] = "disableOld"
      /\ db' = [k \in KeyIds |-> IF k \in KeysOf(row[h].target)
                                 THEN [db[k] EXCEPT !.enabled = FALSE]
                                 ELSE db[k]]
      /\ pc' = [pc EXCEPT ![h] = "register"]
      /\ UNCHANGED <<live, vault, removals, used, kid, row, secrets>>
  BY DEF DisableOldKey, Goto
<1>2. ASSUME NEW k \in KeysOf(row[h].target)
      PROVE  /\ db[k] \in Row
             /\ [db[k] EXCEPT !.enabled = FALSE] \in Row
             /\ [db[k] EXCEPT !.enabled = FALSE].target = db[k].target
             /\ [db[k] EXCEPT !.enabled = FALSE].version = db[k].version
  BY DEF TypeOK, KeysOf, Row
<1>3. SameKeys
  BY <1>1, <1>2 DEF SameKeys, KeysOf
<1>4. TypeOK'
  BY <1>1, <1>2 DEF TypeOK, PCs
<1>5. ContextInv'
  BY <1>1 DEF ContextInv, TypeOK
<1>6. LockInv'
  <2>1. \A g \in Handlers : Patched(g)' => Patched(g) /\ kid[g] \in KeyIds
    BY <1>1 DEF Patched, ContextInv, TypeOK
  <2> QED
    BY <1>1, <1>3, <2>1, SameVersions
       DEF LockInv, Inserted, Patched, Deleted, TypeOK, SameKeys
<1>7. FreshInv'
  <2>1. \A g \in Handlers : Creating(g) => kid[g] \in KeyIds
    BY DEF Creating, Inserted, ContextInv, TypeOK
  <2> QED
    BY <1>1, <1>3, <2>1 DEF FreshInv, Creating, Inserted, TypeOK, SameKeys
<1>8. NextInv'
  BY <1>1, <1>3, SameVersions DEF NextInv, Creating, Inserted, TypeOK
<1> QED
  BY <1>3, <1>4, <1>5, <1>6, <1>7, <1>8, SameGapless

LEMMA RegisterEncryptKeyInv ==
    ASSUME IInv, NEW h \in Handlers, RegisterEncryptKey(h) PROVE IInv'
<1> USE ConstantsAssumption DEF IInv
<1>1. /\ pc[h] = "register"
      /\ vault' = [vault EXCEPT ![kid[h]] = [target  |-> row[h].target,
                                             version |-> row[h].version]]
      /\ pc' = [pc EXCEPT ![h] = "commitCreate"]
      /\ UNCHANGED <<db, live, removals, used, kid, row, secrets>>
  BY DEF RegisterEncryptKey, Goto
<1>2. SameKeys
  BY <1>1 DEF SameKeys
<1>3. TypeOK'
  <2>1. [target |-> row[h].target, version |-> row[h].version] \in Secret
    BY <1>1 DEF ContextInv, TypeOK, Row, Secret
  <2> QED
    BY <1>1, <2>1 DEF TypeOK, PCs
<1>4. ContextInv'
  BY <1>1 DEF ContextInv, TypeOK
<1>5. LockInv'
  BY <1>1, <1>2, SameVersions DEF LockInv, Inserted, Patched, Deleted, TypeOK
<1>6. FreshInv'
  BY <1>1 DEF FreshInv, Creating, Inserted, TypeOK
<1>7. NextInv'
  BY <1>1, <1>2, SameVersions DEF NextInv, Creating, Inserted, TypeOK
<1> QED
  BY <1>2, <1>3, <1>4, <1>5, <1>6, <1>7, SameGapless

\* The step commits the row of h, and adds just that: row k, version v of
\* target t.
AddsRow(h, k, t, v) ==
    /\ k = kid[h]
    /\ row[h] = [target |-> t, version |-> v, enabled |-> row[h].enabled]
    /\ db[k] = NoRow /\ k \in used /\ live
    /\ v \notin Versions(t) /\ v >= 1 /\ 1..(v - 1) \subseteq Versions(t)
    /\ KeysOf(t)' = KeysOf(t) \cup {k}
    /\ \A u : u # t => KeysOf(u)' = KeysOf(u)
    /\ \A j \in KeyIds : j # k => db'[j] = db[j]
    /\ db'[k] = row[h] /\ row[h] # NoRow
    /\ Versions(t)' = Versions(t) \cup {v}
    /\ \A u : u # t => Versions(u)' = Versions(u)

\* What the commit of a new row does.
LEMMA CommitCreateEffect ==
    ASSUME IInv, NEW h \in Handlers, CommitCreate(h)
    PROVE  \E k \in KeyIds, t \in Targets, v \in Nat : AddsRow(h, k, t, v)
<1> USE ConstantsAssumption DEF IInv
<1>1. /\ pc[h] = "commitCreate"
      /\ db' = [db EXCEPT ![kid[h]] = row[h]]
      /\ pc' = [pc EXCEPT ![h] = "idle"]
      /\ kid' = [kid EXCEPT ![h] = NoKey]
      /\ row' = [row EXCEPT ![h] = NoRow]
      /\ secrets' = [secrets EXCEPT ![h] = {}]
      /\ UNCHANGED <<live, vault, removals, used>>
  BY DEF CommitCreate, Answer, Goto
<1>2. PICK k \in KeyIds, t \in Targets, v \in Nat, e \in BOOLEAN :
        /\ k = kid[h]
        /\ row[h] = [target |-> t, version |-> v, enabled |-> e]
  <2>1. kid[h] \in KeyIds /\ row[h] \in Row
    BY <1>1 DEF ContextInv, TypeOK
  <2> QED
    BY <2>1 DEF Row
<1>3. db[k] = NoRow /\ live /\ v \notin Versions(t) /\ v >= 1
        /\ 1..(v - 1) \subseteq Versions(t) /\ k \in used
  <2>1. Creating(h) /\ Inserted(h)
    BY <1>1 DEF Creating, Inserted
  <2>2. row[h].target = t /\ row[h].version = v
    BY <1>2
  <2> QED
    BY <1>2, <2>1, <2>2 DEF FreshInv, LockInv, NextInv
<1>4. /\ KeysOf(t)' = KeysOf(t) \cup {k}
      /\ \A u : u # t => KeysOf(u)' = KeysOf(u)
      /\ \A j \in KeyIds : j # k => db'[j] = db[j]
      /\ db'[k] = row[h] /\ row[h] # NoRow
  <2>1. row[h] # NoRow
    BY <1>1 DEF ContextInv
  <2>2. /\ \A j \in KeyIds : j # k => db'[j] = db[j]
        /\ db'[k] = row[h]
    BY <1>1, <1>2 DEF TypeOK
  <2> QED
    BY <1>2, <1>3, <2>1, <2>2 DEF KeysOf
<1>5. /\ Versions(t)' = Versions(t) \cup {v}
      /\ \A u : u # t => Versions(u)' = Versions(u)
  BY <1>2, <1>3, <1>4 DEF Versions, KeysOf
<1> QED
  BY <1>2, <1>3, <1>4, <1>5 DEF AddsRow

LEMMA CommitCreateInv ==
    ASSUME IInv, NEW h \in Handlers, CommitCreate(h) PROVE IInv'
<1> USE ConstantsAssumption DEF IInv
<1>1. /\ pc[h] = "commitCreate"
      /\ db' = [db EXCEPT ![kid[h]] = row[h]]
      /\ pc' = [pc EXCEPT ![h] = "idle"]
      /\ kid' = [kid EXCEPT ![h] = NoKey]
      /\ row' = [row EXCEPT ![h] = NoRow]
      /\ secrets' = [secrets EXCEPT ![h] = {}]
      /\ UNCHANGED <<live, vault, removals, used>>
  BY DEF CommitCreate, Answer, Goto
<1>2. PICK k \in KeyIds, t \in Targets, v \in Nat : AddsRow(h, k, t, v)
  BY CommitCreateEffect
<1> USE DEF AddsRow
<1>3. TypeOK'
  BY <1>1, <1>2 DEF TypeOK, PCs
<1>4. ContextInv'
  BY <1>1 DEF ContextInv, TypeOK
<1>5. LockInv'
  <2>1. ASSUME NEW g \in Handlers, Patched(g)' PROVE db'[kid'[g]] # NoRow
    BY <1>1, <1>2, <2>1 DEF LockInv, Patched, TypeOK
  <2>2. ASSUME NEW g \in Handlers, Inserted(g)'
        PROVE  (live /\ row[g].version \notin Versions(row[g].target))'
    <3>1. g # h /\ Inserted(g) /\ Inserted(h) /\ row'[g] = row[g]
      BY <1>1, <2>2 DEF Inserted, TypeOK
    <3>2. row[g].target # t \/ row[g].version # v
      BY <1>2, <3>1 DEF LockInv
    <3>3. row[g].version \notin Versions(row[g].target)
      BY <3>1 DEF LockInv
    <3>4. ASSUME NEW u, u = row[g].target PROVE row[g].version \notin Versions(u)'
      BY <1>2, <3>2, <3>3, <3>4
    <3> QED
      BY <1>1, <1>2, <3>1, <3>4
  <2>3. ~ live' => \A j \in KeyIds : db'[j] = NoRow
    BY <1>1, <1>2
  <2> QED
    BY <1>1, <2>1, <2>2, <2>3 DEF LockInv, Inserted, Patched, Deleted, TypeOK
<1>6. FreshInv'
  <2>1. ASSUME NEW g \in Handlers, Creating(g)'
        PROVE  g # h /\ Creating(g) /\ kid'[g] = kid[g] /\ kid[g] # k
                 /\ kid[g] \in KeyIds
    <3>1. g # h /\ Creating(g) /\ Creating(h) /\ kid'[g] = kid[g]
      BY <1>1, <2>1 DEF Creating, Inserted, TypeOK
    <3>2. kid[g] \in KeyIds
      BY <3>1 DEF Creating, Inserted, ContextInv, TypeOK
    <3> QED
      BY <1>2, <3>1, <3>2 DEF FreshInv
  <2>2. \A j \in KeyIds : db'[j] # NoRow => j \in used'
    BY <1>1, <1>2 DEF FreshInv
  <2>3. \A g \in Handlers : Creating(g)' => kid'[g] \in used' /\ db'[kid'[g]] = NoRow
    BY <1>1, <1>2, <2>1 DEF FreshInv
  <2>4. \A g, i \in Handlers : g # i /\ Creating(g)' /\ Creating(i)' => kid'[g] # kid'[i]
    BY <2>1 DEF FreshInv
  <2> QED
    BY <2>2, <2>3, <2>4 DEF FreshInv
<1>7. NextInv'
  <2> SUFFICES ASSUME NEW g \in Handlers, Creating(g)', live'
               PROVE  (row[g].version >= 1
                        /\ 1..(row[g].version - 1) \subseteq Versions(row[g].target))'
    BY DEF NextInv
  <2>1. Creating(g) /\ row'[g] = row[g] /\ live
    BY <1>1 DEF Creating, Inserted, TypeOK
  <2> QED
    BY <1>2, <2>1 DEF NextInv
<1>8. VersionsGapless'
  <2> SUFFICES ASSUME NEW u \in Targets
               PROVE  /\ \A w \in Versions(u)' : w >= 1 /\ 1..w \subseteq Versions(u)'
                      /\ \A i, j \in KeysOf(u)' :
                           db'[i].version = db'[j].version => i = j
    BY DEF VersionsGapless
  <2>1. CASE u # t
    BY <1>2, <2>1 DEF VersionsGapless, KeysOf
  <2>2. CASE u = t
    <3>1. ASSUME NEW w \in Versions(t)' PROVE w >= 1 /\ 1..w \subseteq Versions(t)'
      <4>1. CASE w = v
        BY <1>2, <4>1
      <4>2. CASE w \in Versions(t)
        BY <1>2, <4>2 DEF VersionsGapless
      <4> QED
        BY <1>2, <4>1, <4>2
    <3>2. ASSUME NEW i \in KeysOf(t)', NEW j \in KeysOf(t)',
                 db'[i].version = db'[j].version
          PROVE  i = j
      <4>1. \A n \in KeysOf(t) : db[n].version # v
        BY <1>2 DEF Versions
      <4> QED
        BY <1>2, <3>2, <4>1 DEF VersionsGapless, KeysOf
    <3> QED
      BY <2>2, <3>1, <3>2
  <2> QED
    BY <2>1, <2>2
<1> QED
  BY <1>3, <1>4, <1>5, <1>6, <1>7, <1>8

LEMMA PatchKeyInv ==
    ASSUME IInv, NEW h \in Handlers, PatchKey(h) PROVE IInv'
<1> USE ConstantsAssumption
<1>1. CASE db[kid[h]] = NoRow
  BY <1>1, AnswerInv DEF PatchKey, shared, IInv, TypeOK
<1>2. CASE db[kid[h]] # NoRow
  <2> USE DEF IInv
  <2>1. /\ pc[h] = "patch"
        /\ \A g \in Handlers : ~ Deleted(g)
        /\ pc' = [pc EXCEPT ![h] = "commitPatch"]
        /\ UNCHANGED <<db, live, vault, removals, used, kid, row, secrets>>
    BY <1>2 DEF PatchKey, Goto, shared
  <2>2. SameKeys
    BY <2>1 DEF SameKeys
  <2>3. TypeOK'
    BY <2>1 DEF TypeOK, PCs
  <2>4. ContextInv'
    BY <2>1 DEF ContextInv, TypeOK
  <2>5. LockInv'
    BY <1>2, <2>1, <2>2, SameVersions DEF LockInv, Inserted, Patched, Deleted, TypeOK
  <2>6. FreshInv'
    BY <2>1 DEF FreshInv, Creating, Inserted, TypeOK
  <2>7. NextInv'
    BY <2>1, <2>2, SameVersions DEF NextInv, Creating, Inserted, TypeOK
  <2> QED
    BY <2>2, <2>3, <2>4, <2>5, <2>6, <2>7, SameGapless
<1> QED
  BY <1>1, <1>2

\* What the commit of a PATCH does.
LEMMA CommitPatchEffect ==
    ASSUME IInv, NEW h \in Handlers, CommitPatch(h)
    PROVE  /\ kid[h] \in KeyIds
           /\ db' \in [KeyIds -> Row \cup {NoRow}]
           /\ db'[kid[h]].enabled = row[h].enabled
           /\ \A j \in KeyIds : j # kid[h] => db'[j] = db[j]
           /\ SameKeys
<1> USE ConstantsAssumption DEF IInv
<1> DEFINE new == [db[kid[h]] EXCEPT !.enabled = row[h].enabled]
<1>1. pc[h] = "commitPatch" /\ db' = [db EXCEPT ![kid[h]] = new]
  BY DEF CommitPatch
<1>2. /\ kid[h] \in KeyIds
      /\ db[kid[h]] \in Row
      /\ row[h] \in Row
  BY <1>1 DEF ContextInv, TypeOK, LockInv, Patched
<1>3. /\ new \in Row
      /\ new.target = db[kid[h]].target
      /\ new.version = db[kid[h]].version
      /\ new.enabled = row[h].enabled
  BY <1>2 DEF Row
<1> QED
  BY <1>1, <1>2, <1>3 DEF SameKeys, TypeOK

LEMMA CommitPatchInv ==
    ASSUME IInv, NEW h \in Handlers, CommitPatch(h) PROVE IInv'
<1> USE ConstantsAssumption DEF IInv
<1>1. /\ pc[h] = "commitPatch"
      /\ pc' = [pc EXCEPT ![h] = "idle"]
      /\ kid' = [kid EXCEPT ![h] = NoKey]
      /\ row' = [row EXCEPT ![h] = NoRow]
      /\ secrets' = [secrets EXCEPT ![h] = {}]
      /\ UNCHANGED <<live, vault, removals, used>>
  BY DEF CommitPatch, Answer, Goto
<1>2. SameKeys /\ db' \in [KeyIds -> Row \cup {NoRow}]
  BY CommitPatchEffect
<1>3. TypeOK'
  BY <1>1, <1>2 DEF TypeOK, PCs
<1>4. ContextInv'
  BY <1>1 DEF ContextInv, TypeOK
<1>5. LockInv'
  <2>1. ASSUME NEW g \in Handlers, Patched(g)' PROVE db'[kid'[g]] # NoRow
    <3>1. Patched(g) /\ kid'[g] = kid[g] /\ kid[g] \in KeyIds
      BY <1>1, <2>1 DEF Patched, ContextInv, TypeOK
    <3> QED
      BY <1>2, <3>1 DEF LockInv, SameKeys
  <2> QED
    BY <1>1, <1>2, <2>1, SameVersions
       DEF LockInv, Inserted, Patched, Deleted, TypeOK, SameKeys
<1>6. FreshInv'
  <2>1. \A g \in Handlers : Creating(g) => kid[g] \in KeyIds
    BY DEF Creating, Inserted, ContextInv, TypeOK
  <2> QED
    BY <1>1, <1>2, <2>1 DEF FreshInv, Creating, Inserted, TypeOK, SameKeys
<1>7. NextInv'
  BY <1>1, <1>2, SameVersions DEF NextInv, Creating, Inserted, TypeOK
<1> QED
  BY <1>2, <1>3, <1>4, <1>5, <1>6, <1>7, SameGapless

LEMMA DeleteStreamInv ==
    ASSUME IInv, NEW h \in Handlers, DeleteStream(h) PROVE IInv'
<1> USE ConstantsAssumption
<1>1. CASE ~ live
  BY <1>1, AnswerInv DEF DeleteStream, IInv, TypeOK
<1>2. CASE live
  <2> USE DEF IInv
  <2>1. /\ pc[h] = "delete"
        /\ \A g \in Handlers : ~ Inserted(g) /\ ~ Patched(g) /\ ~ Deleted(g)
        /\ pc' = [pc EXCEPT ![h] = "cleanup"]
        /\ removals' = removals \cup secrets[h]
        /\ UNCHANGED <<db, live, vault, used, kid, row, secrets>>
    BY <1>2 DEF DeleteStream, Goto
  <2>2. SameKeys
    BY <2>1 DEF SameKeys
  <2>3. TypeOK'
    BY <2>1 DEF TypeOK, PCs
  <2>4. ContextInv'
    BY <2>1 DEF ContextInv, TypeOK
  <2>5. LockInv'
    BY <1>2, <2>1, <2>2, SameVersions DEF LockInv, Inserted, Patched, Deleted, TypeOK
  <2>6. FreshInv'
    BY <2>1 DEF FreshInv, Creating, Inserted, TypeOK
  <2>7. NextInv'
    BY <2>1, <2>2, SameVersions DEF NextInv, Creating, Inserted, TypeOK
  <2> QED
    BY <2>2, <2>3, <2>4, <2>5, <2>6, <2>7, SameGapless
<1> QED
  BY <1>1, <1>2

LEMMA CommitRemoveInv ==
    ASSUME IInv, NEW h \in Handlers, CommitRemove(h) PROVE IInv'
<1> USE ConstantsAssumption DEF IInv
<1>1. /\ pc[h] = "cleanup"
      /\ db' = [k \in KeyIds |-> NoRow]
      /\ live' = FALSE
      /\ pc' = [pc EXCEPT ![h] = "idle"]
      /\ kid' = [kid EXCEPT ![h] = NoKey]
      /\ row' = [row EXCEPT ![h] = NoRow]
      /\ secrets' = [secrets EXCEPT ![h] = {}]
      /\ UNCHANGED <<vault, removals, used>>
  BY DEF CommitRemove, Answer, Goto
<1>2. \A g \in Handlers : ~ Inserted(g)' /\ ~ Patched(g)' /\ ~ Deleted(g)'
  BY <1>1 DEF LockInv, Inserted, Patched, Deleted, TypeOK
<1>3. \A t : KeysOf(t)' = {} /\ Versions(t)' = {}
  BY <1>1 DEF KeysOf, Versions
<1>4. TypeOK'
  BY <1>1 DEF TypeOK, PCs
<1>5. ContextInv'
  BY <1>1 DEF ContextInv, TypeOK
<1>6. LockInv'
  BY <1>1, <1>2 DEF LockInv
<1>7. FreshInv'
  <2>1. \A g \in Handlers : Creating(g)' => Creating(g) /\ kid'[g] = kid[g]
                                           /\ kid[g] \in KeyIds
    BY <1>1 DEF Creating, Inserted, ContextInv, TypeOK
  <2> QED
    BY <1>1, <2>1 DEF FreshInv
<1>8. NextInv'
  BY <1>1 DEF NextInv
<1>9. VersionsGapless'
  BY <1>3 DEF VersionsGapless
<1> QED
  BY <1>4, <1>5, <1>6, <1>7, <1>8, <1>9

LEMMA RemoveSecretInv ==
    ASSUME IInv, NEW k \in KeyIds, RemoveSecret(k) PROVE IInv'
<1> USE DEF IInv, RemoveSecret
<1>1. SameKeys
  BY DEF SameKeys
<1>2. TypeOK'
  BY DEF TypeOK
<1>3. ContextInv'
  BY DEF ContextInv
<1>4. LockInv'
  BY <1>1, SameVersions DEF LockInv, Inserted, Patched, Deleted
<1>5. FreshInv'
  BY DEF FreshInv, Creating, Inserted
<1>6. NextInv'
  BY <1>1, SameVersions DEF NextInv, Creating, Inserted
<1> QED
  BY <1>1, <1>2, <1>3, <1>4, <1>5, <1>6, SameGapless

LEMMA StutterInv == ASSUME IInv, UNCHANGED vars PROVE IInv'
<1> USE DEF IInv, vars
<1>1. SameKeys
  BY DEF SameKeys
<1>2. TypeOK' /\ ContextInv' /\ FreshInv'
  BY DEF TypeOK, ContextInv, FreshInv, Creating, Inserted
<1>3. LockInv' /\ NextInv'
  BY <1>1, SameVersions
     DEF LockInv, NextInv, Creating, Inserted, Patched, Deleted
<1> QED
  BY <1>1, <1>2, <1>3, SameGapless

\* Whatever requests are interleaved and whatever fails, the strengthening IInv
\* holds.
THEOREM Invariance == Spec => []IInv
<1>1. IInv /\ [Next]_vars => IInv'
  <2> SUFFICES ASSUME IInv, [Next]_vars PROVE IInv'
    OBVIOUS
  <2>1. ASSUME NEW h \in Handlers, Request(h) PROVE IInv'
    BY <2>1, PrepareEncryptKeyInv, DisallowModifyOldRecordInv,
       PrepareCleanupSecretsInv DEF Request
  <2>2. ASSUME NEW h \in Handlers, CreateStep(h) PROVE IInv'
    <3>1. CASE InsertRefused(h)
      BY <3>1, AnswerInv DEF InsertRefused, shared, IInv, TypeOK
    <3> QED
      BY <2>2, <3>1, InsertKeyInv, DisableOldKeyInv, RegisterEncryptKeyInv,
         CommitCreateInv DEF CreateStep
  <2>3. ASSUME NEW h \in Handlers, PatchStep(h) PROVE IInv'
    BY <2>3, PatchKeyInv, CommitPatchInv DEF PatchStep
  <2>4. ASSUME NEW h \in Handlers, RemoveStep(h) PROVE IInv'
    BY <2>4, DeleteStreamInv, CommitRemoveInv DEF RemoveStep
  <2>5. ASSUME NEW h \in Handlers, Fail(h) PROVE IInv'
    BY <2>5, AnswerInv DEF Fail, shared, IInv, TypeOK
  <2>6. ASSUME NEW k \in KeyIds, RemoveSecret(k) PROVE IInv'
    BY <2>6, RemoveSecretInv
  <2>7. CASE UNCHANGED vars
    BY <2>7, StutterInv
  <2> QED
    BY <2>1, <2>2, <2>3, <2>4, <2>5, <2>6, <2>7 DEF Next
<1> QED
  BY InitInv, <1>1, PTL DEF Spec

\* Every variable keeps its type.
THEOREM TypeCorrect == Spec => []TypeOK
<1>1. IInv => TypeOK
  BY DEF IInv
<1> QED
  BY <1>1, Invariance, PTL

\* Whatever requests are interleaved and whatever calls fail, the versions of
\* a target are numbered without a gap and without a duplicate.
THEOREM Gapless == Spec => []VersionsGapless
<1>1. IInv => VersionsGapless
  BY DEF IInv
<1> QED
  BY <1>1, Invariance, PTL

-----------------------------------------------------------------------------
\* Every other step changes flags at most.
LEMMA OtherSteps ==
    ASSUME IInv, [Next]_vars,
           ~ \E h \in Handlers : CommitCreate(h) \/ CommitRemove(h)
    PROVE  SameKeys /\ live' = live
<1>1. ASSUME NEW h \in Handlers, DisableOldKey(h) PROVE SameKeys /\ live' = live
  <2>1. ASSUME NEW k \in KeysOf(row[h].target)
        PROVE  /\ db[k] # NoRow /\ db[k] \in Row
               /\ [db[k] EXCEPT !.enabled = FALSE] \in Row
               /\ [db[k] EXCEPT !.enabled = FALSE].target = db[k].target
               /\ [db[k] EXCEPT !.enabled = FALSE].version = db[k].version
    BY DEF IInv, TypeOK, KeysOf, Row
  <2> QED
    BY <1>1, <2>1, ConstantsAssumption DEF DisableOldKey, SameKeys
<1>2. ASSUME NEW h \in Handlers, CommitPatch(h) PROVE SameKeys /\ live' = live
  BY <1>2, CommitPatchEffect DEF CommitPatch
<1>3. CASE db' = db /\ live' = live
  BY <1>3 DEF SameKeys
<1> QED
  BY <1>1, <1>2, <1>3
     DEF Next, Request, CreateStep, PatchStep, RemoveStep, PrepareEncryptKey,
         DisallowModifyOldRecord, PrepareCleanupSecrets, InsertKey, InsertRefused,
         RegisterEncryptKey, PatchKey, DeleteStream, RemoveSecret, Fail, shared, vars

\* The versions that are committed when the next one comes.
LEMMA NextVersion ==
    ASSUME IInv, NEW h, NEW k \in KeyIds, NEW t \in Targets, NEW v \in Nat,
           AddsRow(h, k, t, v)
    PROVE  Versions(t) = 1..(v - 1)
<1>1. v \notin Versions(t) /\ v >= 1 /\ 1..(v - 1) \subseteq Versions(t)
  BY DEF AddsRow
<1>2. ASSUME NEW w \in Versions(t) PROVE w \in 1..(v - 1)
  <2>1. w \in Nat /\ w >= 1 /\ 1..w \subseteq Versions(t)
    <3>1. PICK j \in KeysOf(t) : w = db[j].version
      BY DEF Versions
    <3>2. db[j] \in Row
      BY DEF IInv, TypeOK, KeysOf
    <3> QED
      BY <3>1, <3>2 DEF IInv, VersionsGapless, Row
  <2>2. ~ v \in 1..w
    BY <1>1, <2>1
  <2> QED
    BY <1>1, <2>1, <2>2
<1> QED
  BY <1>1, <1>2

\* The rows implement the abstract histories of versions.
THEOREM Refinement == Spec => KeepsHistory
<1> USE DEF History!Spec, History!Init, History!Next, History!Publish,
            History!Drop, History!keyVars
<1>1. Init => History!Init
  BY DEF Init, Versions, KeysOf
<1>2. IInv /\ [Next]_vars => [History!Next]_(History!keyVars)
  <2> SUFFICES ASSUME IInv, [Next]_vars PROVE [History!Next]_(History!keyVars)
    OBVIOUS
  <2>1. ASSUME NEW h \in Handlers, CommitCreate(h)
        PROVE  \E t \in Targets : History!Publish(t)
    <3>1. PICK k \in KeyIds, t \in Targets, v \in Nat : AddsRow(h, k, t, v)
      BY <2>1, CommitCreateEffect
    <3>2. /\ v \notin Versions(t) /\ v >= 1 /\ 1..(v - 1) \subseteq Versions(t)
          /\ Versions(t)' = Versions(t) \cup {v}
          /\ \A u : u # t => Versions(u)' = Versions(u)
          /\ live
      BY <3>1 DEF AddsRow
    <3>3. Versions(t) = 1..(v - 1)
      BY <3>1, NextVersion
    <3>4. Versions(t)' = 1..v
      BY <3>2, <3>3
    <3>5. [u \in Targets |-> Versions(u)]'
            = [[u \in Targets |-> Versions(u)] EXCEPT ![t] = 1..v]
      BY <3>2, <3>4
    <3>6. /\ (v - 1) + 1 = v
          /\ v - 1 \in [u \in Targets |-> Versions(u)][t] \cup {0}
      BY <3>2, <3>3
    <3>7. live' = live
      BY <2>1 DEF CommitCreate
    <3>8. History!Publish(t)
      BY <3>2, <3>3, <3>5, <3>6, <3>7
    <3> QED
      BY <3>8
  <2>2. ASSUME NEW h \in Handlers, CommitRemove(h) PROVE History!Drop
    BY <2>2 DEF CommitRemove, IInv, LockInv, Deleted, Versions, KeysOf
  <2>3. CASE SameKeys /\ live' = live
    BY <2>3, SameVersions
  <2> QED
    BY <2>1, <2>2, <2>3, OtherSteps
<1> QED
  BY <1>1, <1>2, Invariance, PTL DEF Spec, KeepsHistory

-----------------------------------------------------------------------------
(***************************************************************************)
(* Keys and secrets.  A removal on its way to Vault is harmless as long as *)
(* the transaction that asked for it is open, or the stream is gone.       *)
(***************************************************************************)
SecretInv ==
    /\ \A h \in Handlers :
         pc[h] = "commitCreate" =>
            vault[kid[h]] = [target |-> row[h].target, version |-> row[h].version]
    /\ removals # {} => ~ live \/ \E h \in Handlers : Deleted(h)
    /\ KeyHasSecret

\* A step that leaves Vault and the stream alone and brings no handler to its
\* commit.
LEMMA SecretQuiet ==
    ASSUME SecretInv, SameKeys, UNCHANGED <<vault, removals, live>>,
           \A h \in Handlers :
             /\ Deleted(h)' <=> Deleted(h)
             /\ pc'[h] = "commitCreate" => /\ pc[h] = "commitCreate"
                                           /\ kid'[h] = kid[h] /\ row'[h] = row[h]
    PROVE  SecretInv'
BY DEF SecretInv, SameKeys, KeyHasSecret

\* So does the end of any request that does not hold the stream.
LEMMA SecretAnswer ==
    ASSUME IInv, SecretInv, NEW h \in Handlers, Answer(h), pc[h] # "cleanup",
           SameKeys, UNCHANGED <<vault, removals, live>>
    PROVE  SecretInv'
<1>1. \A g \in Handlers :
        /\ Deleted(g)' <=> Deleted(g)
        /\ pc'[g] = "commitCreate" => /\ pc[g] = "commitCreate"
                                      /\ kid'[g] = kid[g] /\ row'[g] = row[g]
  BY DEF Answer, Goto, Deleted, IInv, TypeOK
<1> QED
  BY <1>1, SecretQuiet

\* And so does a handler that moves on, but not to its commit.
LEMMA SecretGoto ==
    ASSUME IInv, SecretInv, NEW h \in Handlers,
           NEW l \in {"insert", "disableOld", "register", "patch", "commitPatch",
                      "delete"},
           Goto(h, l), pc[h] # "cleanup", SameKeys,
           UNCHANGED <<vault, removals, live>>,
           \A g \in Handlers : g # h => kid'[g] = kid[g] /\ row'[g] = row[g]
    PROVE  SecretInv'
<1>1. \A g \in Handlers :
        /\ Deleted(g)' <=> Deleted(g)
        /\ pc'[g] = "commitCreate" => /\ pc[g] = "commitCreate"
                                      /\ kid'[g] = kid[g] /\ row'[g] = row[g]
  BY DEF Goto, Deleted, IInv, TypeOK
<1> QED
  BY <1>1, SecretQuiet

LEMMA SecretRegister ==
    ASSUME IInv, SecretInv, NEW h \in Handlers, RegisterEncryptKey(h)
    PROVE  SecretInv'
<1>1. /\ pc[h] = "register"
      /\ vault' = [vault EXCEPT ![kid[h]] = [target  |-> row[h].target,
                                             version |-> row[h].version]]
      /\ pc' = [pc EXCEPT ![h] = "commitCreate"]
      /\ UNCHANGED <<db, live, removals, used, kid, row, secrets>>
  BY DEF RegisterEncryptKey, Goto
<1>2. kid[h] \in KeyIds /\ db[kid[h]] = NoRow /\ Creating(h)
  BY <1>1 DEF IInv, TypeOK, ContextInv, FreshInv, Creating, Inserted
<1>3. ASSUME NEW g \in Handlers, pc'[g] = "commitCreate"
      PROVE  vault'[kid'[g]] = [target |-> row'[g].target, version |-> row'[g].version]
  <2>1. CASE g = h
    BY <1>1, <1>2, <2>1 DEF IInv, TypeOK
  <2>2. CASE g # h
    <3>1. pc[g] = "commitCreate" /\ Creating(g)
      BY <1>1, <1>3, <2>2 DEF IInv, TypeOK, Creating, Inserted
    <3>2. kid[g] # kid[h]
      BY <1>2, <2>2, <3>1 DEF IInv, FreshInv
    <3> QED
      BY <1>1, <3>1, <3>2 DEF SecretInv, IInv, TypeOK, ContextInv
  <2> QED
    BY <2>1, <2>2
<1>4. KeyHasSecret'
  BY <1>1, <1>2 DEF SecretInv, KeyHasSecret, Deleted, IInv, TypeOK
<1>5. removals' # {} => ~ live' \/ \E g \in Handlers : Deleted(g)'
  BY <1>1 DEF SecretInv, Deleted, IInv, TypeOK
<1> QED
  BY <1>3, <1>4, <1>5 DEF SecretInv

LEMMA SecretCommit ==
    ASSUME IInv, SecretInv, NEW h \in Handlers, CommitCreate(h)
    PROVE  SecretInv'
<1>1. /\ pc[h] = "commitCreate"
      /\ db' = [db EXCEPT ![kid[h]] = row[h]]
      /\ Answer(h)
      /\ UNCHANGED <<live, vault, removals, used>>
  BY DEF CommitCreate
<1>2. kid[h] \in KeyIds
  BY <1>1 DEF IInv, TypeOK, ContextInv
<1>3. \A g \in Handlers :
        /\ Deleted(g)' <=> Deleted(g)
        /\ pc'[g] = "commitCreate" => /\ pc[g] = "commitCreate"
                                      /\ kid'[g] = kid[g] /\ row'[g] = row[g]
  BY <1>1 DEF Answer, Goto, Deleted, IInv, TypeOK
<1>4. KeyHasSecret'
  BY <1>1, <1>2, <1>3 DEF SecretInv, KeyHasSecret, IInv, TypeOK
<1> QED
  BY <1>1, <1>3, <1>4 DEF SecretInv

LEMMA SecretRemoval ==
    ASSUME IInv, SecretInv, NEW k \in KeyIds, RemoveSecret(k)
    PROVE  SecretInv'
<1>1. ~ live \/ \E h \in Handlers : Deleted(h)
  BY DEF SecretInv, RemoveSecret
<1>2. \A h \in Handlers : pc[h] # "commitCreate"
  BY <1>1 DEF IInv, LockInv, Inserted, Deleted
<1>3. KeyHasSecret'
  BY <1>1 DEF IInv, LockInv, RemoveSecret, KeyHasSecret, Deleted
<1> QED
  BY <1>1, <1>2, <1>3 DEF SecretInv, RemoveSecret, Deleted

LEMMA SecretDelete ==
    ASSUME IInv, SecretInv, NEW h \in Handlers, DeleteStream(h)
    PROVE  SecretInv'
<1> SameKeys
  BY DEF DeleteStream, SameKeys
<1>1. CASE ~ live
  BY <1>1, SecretAnswer DEF DeleteStream
<1>2. CASE live
  <2>1. /\ \A g \in Handlers : ~ Inserted(g)
        /\ pc' = [pc EXCEPT ![h] = "cleanup"]
        /\ UNCHANGED <<db, live, vault>>
    BY <1>2 DEF DeleteStream, Goto
  <2>2. Deleted(h)'
    BY <2>1 DEF Deleted, IInv, TypeOK
  <2>3. \A g \in Handlers : pc'[g] # "commitCreate"
    BY <2>1 DEF Inserted, IInv, TypeOK
  <2> QED
    BY <2>2, <2>3 DEF SecretInv, KeyHasSecret
<1> QED
  BY <1>1, <1>2

LEMMA SecretCommitRemove ==
    ASSUME IInv, SecretInv, NEW h \in Handlers, CommitRemove(h)
    PROVE  SecretInv'
<1>1. /\ pc[h] = "cleanup"
      /\ live' = FALSE
      /\ db' = [k \in KeyIds |-> NoRow]
      /\ pc' = [pc EXCEPT ![h] = "idle"]
  BY DEF CommitRemove, Answer, Goto
<1>2. \A g \in Handlers : pc'[g] # "commitCreate"
  BY <1>1 DEF IInv, TypeOK, LockInv, Deleted, Inserted
<1> QED
  BY <1>1, <1>2 DEF SecretInv, KeyHasSecret

\* Whatever requests are interleaved, and whatever fails outside cleanupSecrets,
\* a key of the database has its secret in Vault.
THEOREM SecretsKept ==
    ASSUME "cleanup" \notin Faults PROVE Spec => []KeyHasSecret
<1>1. Init => SecretInv
  BY DEF Init, SecretInv, KeyHasSecret
<1>2. IInv /\ SecretInv /\ [Next]_vars => SecretInv'
  <2> SUFFICES ASSUME IInv, SecretInv, [Next]_vars PROVE SecretInv'
    OBVIOUS
  <2>0. (db' = db => SameKeys)
    BY DEF SameKeys
  <2>1. ASSUME NEW h \in Handlers, Request(h) PROVE SecretInv'
    <3>1. /\ pc[h] = "idle" /\ db' = db
          /\ UNCHANGED <<vault, removals, live>>
          /\ \A g \in Handlers : g # h => kid'[g] = kid[g] /\ row'[g] = row[g]
      BY <2>1 DEF Request, PrepareEncryptKey, DisallowModifyOldRecord,
                  PrepareCleanupSecrets, shared, IInv, TypeOK
    <3>2. \E l \in {"insert", "patch", "delete"} : Goto(h, l)
      BY <2>1 DEF Request, PrepareEncryptKey, DisallowModifyOldRecord,
                  PrepareCleanupSecrets
    <3> QED
      BY <2>0, <3>1, <3>2, SecretGoto
  <2>2. ASSUME NEW h \in Handlers, InsertKey(h) \/ DisableOldKey(h) PROVE SecretInv'
    <3>1. SameKeys
      <4>1. ~ \E g \in Handlers : CommitCreate(g) \/ CommitRemove(g)
        <5>1. pc'[h] \in {"disableOld", "register"} /\ pc[h] # pc'[h]
          BY <2>2 DEF InsertKey, DisableOldKey, Goto, IInv, TypeOK
        <5>2. ASSUME NEW g \in Handlers, CommitCreate(g) \/ CommitRemove(g)
              PROVE  pc'[h] = "idle" \/ pc'[h] = pc[h]
          BY <5>2 DEF CommitCreate, CommitRemove, Answer, Goto, IInv, TypeOK
        <5> QED
          BY <5>1, <5>2
      <4> QED
        BY <4>1, OtherSteps
    <3>2. /\ pc[h] # "cleanup"
          /\ UNCHANGED <<vault, removals, live, kid, row>>
          /\ \E l \in {"disableOld", "register"} : Goto(h, l)
      BY <2>2 DEF InsertKey, DisableOldKey, shared
    <3> QED
      BY <3>1, <3>2, SecretGoto
  <2>3. ASSUME NEW h \in Handlers, InsertRefused(h) PROVE SecretInv'
    BY <2>0, <2>3, SecretAnswer DEF InsertRefused, shared
  <2>4. ASSUME NEW h \in Handlers, PatchKey(h) PROVE SecretInv'
    <3>1. CASE db[kid[h]] = NoRow
      BY <2>0, <2>4, <3>1, SecretAnswer DEF PatchKey, shared
    <3>2. CASE db[kid[h]] # NoRow
      BY <2>0, <2>4, <3>2, SecretGoto DEF PatchKey, shared
    <3> QED
      BY <3>1, <3>2
  <2>5. ASSUME NEW h \in Handlers, CommitPatch(h) PROVE SecretInv'
    BY <2>5, CommitPatchEffect, SecretAnswer DEF CommitPatch
  <2>6. ASSUME NEW h \in Handlers, Fail(h) PROVE SecretInv'
    BY <2>0, <2>6, SecretAnswer DEF Fail, shared
  <2>7. CASE UNCHANGED vars
    BY <2>0, <2>7, SecretQuiet DEF vars, Deleted
  <2> QED
    BY <2>1, <2>2, <2>3, <2>4, <2>5, <2>6, <2>7, SecretRegister, SecretCommit,
       SecretRemoval, SecretDelete, SecretCommitRemove
       DEF Next, CreateStep, PatchStep, RemoveStep
<1>3. SecretInv => KeyHasSecret
  BY DEF SecretInv
<1> QED
  BY <1>1, <1>2, <1>3, Invariance, PTL DEF Spec

-----------------------------------------------------------------------------
(***************************************************************************)
(* One enabled key per target.  Once the older rows of a target are turned *)
(* off, nothing turns one on before the new row is committed: at most one  *)
(* request at a time inserts a row for a target.                           *)
(***************************************************************************)
OneEnabledEach ==
    \A t \in Targets : \A j, k \in KeysOf(t) :
        db[j].enabled /\ db[k].enabled => j = k

EnabledInv ==
    /\ \A h \in Handlers :
         pc[h] \in {"patch", "commitPatch"} => row[h].enabled = FALSE
    /\ \A h \in Handlers :
         pc[h] \in {"register", "commitCreate"} =>
            \A k \in KeysOf(row[h].target) : ~ db[k].enabled
    /\ OneEnabledEach

\* The step turns no committed row on and adds none.
OnlyOff == \A k \in KeyIds : db'[k].enabled => db[k].enabled

LEMMA OneInserter ==
    ASSUME IInv, NEW g \in Handlers, NEW h \in Handlers, Inserted(g), Inserted(h),
           row[g].target = row[h].target
    PROVE  g = h
<1> DEFINE t == row[h].target
<1>1. /\ row[g] \in Row /\ row[h] \in Row /\ live
      /\ Creating(g) /\ Creating(h)
  BY DEF IInv, TypeOK, ContextInv, LockInv, Inserted, Creating
<1>2. PICK v \in Nat, w \in Nat : v = row[g].version /\ w = row[h].version
  BY <1>1 DEF Row
<1>3. /\ v \notin Versions(t) /\ v >= 1 /\ 1..(v - 1) \subseteq Versions(t)
      /\ w \notin Versions(t) /\ w >= 1 /\ 1..(w - 1) \subseteq Versions(t)
  BY <1>1, <1>2 DEF IInv, LockInv, NextInv
<1>4. ~ v \in 1..(w - 1) /\ ~ w \in 1..(v - 1)
  BY <1>3
<1>5. v = w
  BY <1>3, <1>4
<1> QED
  BY <1>2, <1>5 DEF IInv, LockInv

\* A step that turns no row on, with every handler where it was, or back from
\* the database, or preparing its request.
LEMMA EnabledQuiet ==
    ASSUME IInv, EnabledInv, SameKeys, OnlyOff,
           \A h \in Handlers :
             \/ pc'[h] \in {"idle", "insert", "disableOld", "delete", "cleanup"}
             \/ pc'[h] = "patch" /\ row'[h].enabled = FALSE
             \/ /\ row'[h] = row[h]
                /\ \/ pc'[h] = pc[h]
                   \/ pc[h] = "patch" /\ pc'[h] = "commitPatch"
                   \/ pc[h] = "register" /\ pc'[h] = "commitCreate"
                   \/ /\ pc[h] = "disableOld" /\ pc'[h] = "register"
                      /\ \A k \in KeysOf(row[h].target) : ~ db'[k].enabled
    PROVE  EnabledInv'
<1>1. ASSUME NEW h \in Handlers, pc'[h] \in {"patch", "commitPatch"}
      PROVE  row'[h].enabled = FALSE
  BY <1>1 DEF EnabledInv
<1>2. ASSUME NEW h \in Handlers, pc'[h] \in {"register", "commitCreate"},
             NEW k \in KeysOf(row[h].target)'
      PROVE  ~ db'[k].enabled
  <2>1. row'[h] = row[h] /\ k \in KeysOf(row[h].target) /\ k \in KeyIds
    BY <1>2, SameVersions DEF KeysOf, SameKeys
  <2> QED
    BY <1>2, <2>1 DEF EnabledInv, OnlyOff
<1>3. OneEnabledEach'
  <2> SUFFICES ASSUME NEW t \in Targets, NEW j \in KeysOf(t)', NEW k \in KeysOf(t)',
                      db'[j].enabled, db'[k].enabled
               PROVE  j = k
    BY DEF OneEnabledEach
  <2>1. j \in KeysOf(t) /\ k \in KeysOf(t) /\ j \in KeyIds /\ k \in KeyIds
    BY SameVersions DEF KeysOf
  <2> QED
    BY <2>1 DEF EnabledInv, OneEnabledEach, OnlyOff
<1> QED
  BY <1>1, <1>2, <1>3 DEF EnabledInv

LEMMA EnabledDisable ==
    ASSUME IInv, EnabledInv, NEW h \in Handlers, DisableOldKey(h)
    PROVE  EnabledInv'
<1>1. /\ pc[h] = "disableOld"
      /\ db' = [k \in KeyIds |-> IF k \in KeysOf(row[h].target)
                                 THEN [db[k] EXCEPT !.enabled = FALSE]
                                 ELSE db[k]]
      /\ pc' = [pc EXCEPT ![h] = "register"]
      /\ row' = row
  BY DEF DisableOldKey, Goto
<1>2. ASSUME NEW k \in KeysOf(row[h].target)
      PROVE  /\ db[k] \in Row /\ k \in KeyIds
             /\ [db[k] EXCEPT !.enabled = FALSE].enabled = FALSE
  BY DEF IInv, TypeOK, KeysOf, Row
<1>3. SameKeys
  BY <1>1, OtherSteps DEF Next, CreateStep, CommitCreate, CommitRemove, Answer,
                          Goto, IInv, TypeOK, PCs
<1>4. OnlyOff
  BY <1>1, <1>2 DEF OnlyOff
<1>5. \A k \in KeysOf(row[h].target) : ~ db'[k].enabled
  BY <1>1, <1>2
<1>6. \A g \in Handlers : g # h => pc'[g] = pc[g]
  BY <1>1 DEF IInv, TypeOK
<1>7. pc'[h] = "register"
  BY <1>1 DEF IInv, TypeOK
<1> QED
  BY <1>1, <1>3, <1>4, <1>5, <1>6, <1>7, EnabledQuiet

LEMMA EnabledCommitPatch ==
    ASSUME IInv, EnabledInv, NEW h \in Handlers, CommitPatch(h)
    PROVE  EnabledInv'
<1>1. pc[h] = "commitPatch" /\ Answer(h)
  BY DEF CommitPatch
<1>2. row[h].enabled = FALSE
  BY <1>1 DEF EnabledInv
<1>3. SameKeys /\ OnlyOff
  BY <1>2, CommitPatchEffect DEF OnlyOff
<1>4. \A g \in Handlers : IF g = h THEN pc'[g] = "idle"
                          ELSE pc'[g] = pc[g] /\ row'[g] = row[g]
  BY <1>1 DEF Answer, Goto, IInv, TypeOK
<1> QED
  BY <1>3, <1>4, EnabledQuiet

LEMMA EnabledCommit ==
    ASSUME IInv, EnabledInv, NEW h \in Handlers, CommitCreate(h)
    PROVE  EnabledInv'
<1>1. pc[h] = "commitCreate" /\ Answer(h)
  BY DEF CommitCreate
<1>2. PICK k \in KeyIds, t \in Targets, v \in Nat : AddsRow(h, k, t, v)
  BY CommitCreateEffect
<1>3. row[h].target = t
  BY <1>2 DEF AddsRow
<1>4. \A g \in Handlers : IF g = h THEN pc'[g] = "idle"
                          ELSE pc'[g] = pc[g] /\ row'[g] = row[g]
  BY <1>1 DEF Answer, Goto, IInv, TypeOK
<1>5. \A j \in KeysOf(t) : ~ db[j].enabled
  BY <1>1, <1>3 DEF EnabledInv
<1>6. ASSUME NEW g \in Handlers, pc'[g] \in {"register", "commitCreate"},
             NEW j \in KeysOf(row[g].target)'
      PROVE  ~ db'[j].enabled
  <2>1. g # h /\ Inserted(g) /\ Inserted(h) /\ row'[g] = row[g]
        /\ pc[g] \in {"register", "commitCreate"}
    BY <1>1, <1>4, <1>6 DEF Inserted
  <2>2. row[g].target # t
    BY <1>3, <2>1, OneInserter
  <2>3. j \in KeyIds /\ db'[j] # NoRow /\ db'[j].target = row[g].target
    BY <1>6, <2>1 DEF KeysOf
  <2>4. j # k
    BY <1>2, <1>3, <2>2, <2>3 DEF AddsRow
  <2>5. j \in KeysOf(row[g].target)
    BY <1>2, <2>3, <2>4 DEF AddsRow, KeysOf
  <2>6. db'[j] = db[j]
    BY <1>2, <2>3, <2>4 DEF AddsRow
  <2> QED
    BY <2>1, <2>6, <2>5 DEF EnabledInv
<1>7. OneEnabledEach'
  <2> SUFFICES ASSUME NEW u \in Targets, NEW i \in KeysOf(u)', NEW j \in KeysOf(u)',
                      db'[i].enabled, db'[j].enabled
               PROVE  i = j
    BY DEF OneEnabledEach
  <2>1. /\ KeysOf(t)' = KeysOf(t) \cup {k}
        /\ \A w : w # t => KeysOf(w)' = KeysOf(w)
        /\ \A n \in KeyIds : n # k => db'[n] = db[n]
        /\ \A w : k \notin KeysOf(w)
    BY <1>2 DEF AddsRow, KeysOf
  <2>2. CASE u = t
    <3>1. \A n \in KeysOf(t) : n \in KeyIds /\ n # k
      BY <2>1 DEF KeysOf
    <3> QED
      BY <1>5, <2>1, <2>2, <3>1
  <2>3. CASE u # t
    <3>1. i \in KeysOf(u) /\ j \in KeysOf(u) /\ i \in KeyIds /\ j \in KeyIds
          /\ i # k /\ j # k
      BY <2>1, <2>3 DEF KeysOf
    <3> QED
      BY <2>1, <3>1 DEF EnabledInv, OneEnabledEach
  <2> QED
    BY <2>2, <2>3
<1>8. ASSUME NEW g \in Handlers, pc'[g] \in {"patch", "commitPatch"}
      PROVE  row'[g].enabled = FALSE
  BY <1>4, <1>8 DEF EnabledInv
<1> QED
  BY <1>6, <1>7, <1>8 DEF EnabledInv

\* If no client turns a key on again, a target never has two enabled keys,
\* whatever is interleaved and whatever fails.
THEOREM OneEnabled ==
    ASSUME \A t \in Targets : TRUE \notin PatchFlags[t]
    PROVE  Spec => []AtMostOneEnabled
<1>1. Init => EnabledInv
  BY DEF Init, EnabledInv, OneEnabledEach, KeysOf
<1>2. IInv /\ EnabledInv /\ [Next]_vars => EnabledInv'
  <2> SUFFICES ASSUME IInv, EnabledInv, [Next]_vars PROVE EnabledInv'
    OBVIOUS
  <2>0. db' = db => SameKeys /\ OnlyOff
    BY DEF SameKeys, OnlyOff
  <2>1. ASSUME NEW h \in Handlers, DisallowModifyOldRecord(h) PROVE EnabledInv'
    <3>1. PICK k \in KeyIds, e \in BOOLEAN :
            /\ db[k] # NoRow /\ e \in PatchFlags[db[k].target]
            /\ row' = [row EXCEPT ![h] = [db[k] EXCEPT !.enabled = e]]
      BY <2>1 DEF DisallowModifyOldRecord
    <3>2. row'[h].enabled = e /\ \A g \in Handlers : g # h => row'[g] = row[g]
      BY <3>1 DEF IInv, TypeOK, Row
    <3>3. e = FALSE
      BY <3>1 DEF IInv, TypeOK, Row
    <3>4. /\ db' = db /\ pc'[h] = "patch"
          /\ \A g \in Handlers : g # h => pc'[g] = pc[g]
      BY <2>1 DEF DisallowModifyOldRecord, Goto, shared, IInv, TypeOK
    <3> QED
      BY <2>0, <3>2, <3>3, <3>4, EnabledQuiet
  <2>2. ASSUME NEW h \in Handlers,
               PrepareEncryptKey(h) \/ PrepareCleanupSecrets(h) \/ InsertKey(h)
        PROVE  EnabledInv'
    <3>1. /\ db' = db /\ pc'[h] \in {"insert", "delete", "disableOld"}
          /\ \A g \in Handlers : g # h => pc'[g] = pc[g] /\ row'[g] = row[g]
      BY <2>2 DEF PrepareEncryptKey, PrepareCleanupSecrets, InsertKey, Goto,
                  shared, IInv, TypeOK
    <3> QED
      BY <2>0, <3>1, EnabledQuiet
  <2>3. ASSUME NEW h \in Handlers, Answer(h), db' = db PROVE EnabledInv'
    <3>1. /\ pc'[h] = "idle"
          /\ \A g \in Handlers : g # h => pc'[g] = pc[g] /\ row'[g] = row[g]
      BY <2>3 DEF Answer, Goto, IInv, TypeOK
    <3> QED
      BY <2>0, <2>3, <3>1, EnabledQuiet
  <2>4. ASSUME NEW h \in Handlers, RegisterEncryptKey(h) PROVE EnabledInv'
    <3>1. /\ db' = db /\ row' = row /\ pc[h] = "register" /\ pc'[h] = "commitCreate"
          /\ \A g \in Handlers : g # h => pc'[g] = pc[g]
      BY <2>4 DEF RegisterEncryptKey, Goto, IInv, TypeOK
    <3> QED
      BY <2>0, <3>1, EnabledQuiet
  <2>5. ASSUME NEW h \in Handlers, PatchKey(h) PROVE EnabledInv'
    <3>1. CASE Answer(h) /\ db' = db
      BY <2>3, <3>1
    <3>2. CASE Goto(h, "commitPatch") /\ UNCHANGED <<db, row>>
      <4>1. /\ pc[h] = "patch" /\ pc'[h] = "commitPatch"
            /\ \A g \in Handlers : g # h => pc'[g] = pc[g]
        BY <2>5, <3>2 DEF PatchKey, Goto, IInv, TypeOK
      <4> QED
        BY <2>0, <3>2, <4>1, EnabledQuiet
    <3> QED
      BY <2>5, <3>1, <3>2 DEF PatchKey, shared
  <2>6. ASSUME NEW h \in Handlers, DeleteStream(h) PROVE EnabledInv'
    <3>1. CASE Answer(h) /\ db' = db
      BY <2>3, <3>1
    <3>2. CASE Goto(h, "cleanup") /\ UNCHANGED <<db, row>>
      <4>1. /\ pc'[h] = "cleanup"
            /\ \A g \in Handlers : g # h => pc'[g] = pc[g]
        BY <3>2 DEF Goto, IInv, TypeOK
      <4> QED
        BY <2>0, <3>2, <4>1, EnabledQuiet
    <3> QED
      BY <2>6, <3>1, <3>2 DEF DeleteStream
  <2>7. ASSUME NEW h \in Handlers, CommitRemove(h) PROVE EnabledInv'
    <3>1. \A t : KeysOf(t)' = {}
      BY <2>7 DEF CommitRemove, KeysOf
    <3>2. \A g \in Handlers : IF g = h THEN pc'[g] = "idle"
                              ELSE pc'[g] = pc[g] /\ row'[g] = row[g]
      BY <2>7 DEF CommitRemove, Answer, Goto, IInv, TypeOK
    <3> QED
      BY <3>1, <3>2 DEF EnabledInv, OneEnabledEach
  <2>8. CASE db' = db /\ pc' = pc /\ row' = row
    BY <2>0, <2>8, EnabledQuiet
  <2> QED
    BY <2>1, <2>2, <2>3, <2>4, <2>5, <2>6, <2>7, <2>8, EnabledDisable,
       EnabledCommitPatch, EnabledCommit
       DEF Next, Request, CreateStep, PatchStep, RemoveStep, InsertRefused, Fail,
           RemoveSecret, shared, vars
<1>3. EnabledInv => AtMostOneEnabled
  BY DEF EnabledInv, OneEnabledEach, AtMostOneEnabled
<1> QED
  BY <1>1, <1>2, <1>3, Invariance, PTL DEF Spec
-----------------------------------------------------------------------------
(***************************************************************************)
(* The latest key of a target.  A PATCH is about a row of its target, and  *)
(* a request that has turned off the older rows of a target commits a      *)
(* newer one, unless it fails.                                             *)
(***************************************************************************)
\* The targets of which no client turns a key off.
OnlyOn == {t \in Targets : FALSE \notin CreateFlags[t] \cup PatchFlags[t]}

\* h has a row to change.
Patching(h) == pc[h] \in {"patch", "commitPatch"}

\* h has turned off the older rows of t and is about to commit a newer one.
Renewing(h, t) == pc[h] \in {"register", "commitCreate"} /\ row[h].target = t

\* A PATCH is about a row of its target until the stream goes.
PatchInv ==
    \A h \in Handlers :
        Patching(h) /\ live => /\ db[kid[h]] # NoRow
                               /\ db[kid[h]].target = row[h].target

LatestInv ==
    /\ \A h \in Handlers :
         (Creating(h) \/ Patching(h)) /\ row[h].target \in OnlyOn => row[h].enabled
    /\ \A t \in OnlyOn : \A k \in KeysOf(t) :
         Latest(k) => db[k].enabled \/ \E h \in Handlers : Renewing(h, t)

\* The latest version of a target stays the latest when only flags change.
LEMMA SameLatest ==
    ASSUME SameKeys, NEW k \in KeyIds, db[k] # NoRow
    PROVE  Latest(k)' <=> Latest(k)
<1>1. \A t : KeysOf(t)' = KeysOf(t)
  BY SameVersions
<1>2. db'[k].target = db[k].target /\ db'[k].version = db[k].version
  BY DEF SameKeys
<1>3. \A j \in KeysOf(db[k].target) : db'[j].version = db[j].version
  BY DEF SameKeys, KeysOf
<1> QED
  BY <1>1, <1>2, <1>3 DEF Latest

\* Where a handler at work goes.
Onward == {<<"insert", "disableOld">>, <<"disableOld", "register">>,
           <<"register", "commitCreate">>, <<"patch", "commitPatch">>,
           <<"delete", "cleanup">>}

\* A handler stays, goes on with the same key and row, is answered, or begins.
Moves(g) ==
    \/ pc'[g] = pc[g] /\ kid'[g] = kid[g] /\ row'[g] = row[g] /\ secrets'[g] = secrets[g]
    \/ /\ <<pc[g], pc'[g]>> \in Onward
       /\ kid'[g] = kid[g] /\ row'[g] = row[g] /\ secrets'[g] = secrets[g]
    \/ pc'[g] = "idle"
    \/ pc[g] = "idle" /\ pc'[g] \in {"insert", "patch", "delete"}

LEMMA HandlersMove ==
    ASSUME IInv, [Next]_vars PROVE \A g \in Handlers : Moves(g)
<1> USE DEF IInv, TypeOK, Moves
<1>1. ASSUME NEW h \in Handlers, NEW l \in PCs, <<pc[h], l>> \in Onward, Goto(h, l),
             UNCHANGED <<kid, row, secrets>>
      PROVE  \A g \in Handlers : Moves(g)
  BY <1>1 DEF Goto
<1>2. ASSUME NEW h \in Handlers, Answer(h) PROVE \A g \in Handlers : Moves(g)
  BY <1>2 DEF Answer, Goto
<1>3. ASSUME NEW h \in Handlers, Request(h) PROVE \A g \in Handlers : Moves(g)
  BY <1>3 DEF Request, PrepareEncryptKey, DisallowModifyOldRecord,
              PrepareCleanupSecrets, Goto
<1>4. ASSUME NEW h \in Handlers, CreateStep(h) PROVE \A g \in Handlers : Moves(g)
  BY <1>1, <1>2, <1>4
     DEF CreateStep, InsertKey, InsertRefused, DisableOldKey, RegisterEncryptKey,
         CommitCreate, Onward, PCs
<1>5. ASSUME NEW h \in Handlers, PatchStep(h) PROVE \A g \in Handlers : Moves(g)
  BY <1>1, <1>2, <1>5 DEF PatchStep, PatchKey, CommitPatch, Onward, PCs
<1>6. ASSUME NEW h \in Handlers, RemoveStep(h) PROVE \A g \in Handlers : Moves(g)
  BY <1>1, <1>2, <1>6 DEF RemoveStep, DeleteStream, CommitRemove, Onward, PCs
<1>7. ASSUME NEW h \in Handlers, Fail(h) PROVE \A g \in Handlers : Moves(g)
  BY <1>2, <1>7 DEF Fail
<1>8. CASE UNCHANGED <<pc, kid, row, secrets>>
  BY <1>8
<1> QED
  BY <1>3, <1>4, <1>5, <1>6, <1>7, <1>8 DEF Next, RemoveSecret, vars

\* A PATCH that has been let through by a check goes on with its row.
LEMMA PatchesMove ==
    ASSUME IInv, [Next]_vars, NEW g \in Handlers, Patching(g)'
    PROVE  \/ Patching(g) /\ kid'[g] = kid[g] /\ row'[g] = row[g]
           \/ pc[g] = "idle" /\ DisallowModifyOldRecord(g)
<1>1. Moves(g)
  BY HandlersMove
<1>2. CASE pc[g] # "idle"
  BY <1>1, <1>2 DEF Moves, Patching, Onward
<1>3. CASE pc[g] = "idle"
  <2>1. pc'[g] = "patch"
    BY <1>1, <1>3 DEF Moves, Patching, Onward
  <2>2. ASSUME NEW h \in Handlers, NEW l \in PCs, Goto(h, l), h # g \/ l # "patch"
        PROVE  FALSE
    BY <1>3, <2>1, <2>2 DEF Goto, IInv, TypeOK
  <2> QED
    BY <1>3, <2>1, <2>2
       DEF Next, Request, CreateStep, PatchStep, RemoveStep, PrepareEncryptKey,
           DisallowModifyOldRecord, PrepareCleanupSecrets, InsertKey, InsertRefused,
           DisableOldKey, RegisterEncryptKey, CommitCreate, PatchKey, CommitPatch,
           DeleteStream, CommitRemove, RemoveSecret, Fail, Answer, vars, PCs
<1> QED
  BY <1>2, <1>3

\* What DisallowModifyOldRecord lets through.
LEMMA CheckedEffect ==
    ASSUME IInv, NEW g \in Handlers, DisallowModifyOldRecord(g)
    PROVE  /\ db' = db /\ live' = live
           /\ kid'[g] \in KeyIds
           /\ db[kid'[g]] # NoRow
           /\ Latest(kid'[g])
           /\ row'[g].target = db[kid'[g]].target
           /\ row'[g].enabled \in PatchFlags[row'[g].target]
<1> USE DEF IInv, TypeOK
<1>1. PICK k \in KeyIds, e \in BOOLEAN :
        /\ db[k] # NoRow /\ e \in PatchFlags[db[k].target]
        /\ Latest(k)
        /\ kid' = [kid EXCEPT ![g] = k]
        /\ row' = [row EXCEPT ![g] = [db[k] EXCEPT !.enabled = e]]
  BY DEF DisallowModifyOldRecord
<1>2. db[k] \in Row
  BY <1>1
<1>3. kid'[g] = k /\ row'[g] = [db[k] EXCEPT !.enabled = e]
  BY <1>1
<1>4. row'[g].target = db[k].target /\ row'[g].enabled = e
  BY <1>2, <1>3 DEF Row
<1> QED
  BY <1>1, <1>3, <1>4 DEF DisallowModifyOldRecord, shared

LEMMA PatchInvStep ==
    ASSUME IInv, PatchInv, [Next]_vars PROVE PatchInv'
<1> SUFFICES ASSUME NEW g \in Handlers, Patching(g)', live'
             PROVE  (db[kid[g]] # NoRow /\ db[kid[g]].target = row[g].target)'
  BY DEF PatchInv
<1>1. CASE DisallowModifyOldRecord(g)
  BY <1>1, CheckedEffect
<1>2. CASE Patching(g) /\ kid'[g] = kid[g] /\ row'[g] = row[g]
  <2>1. kid[g] \in KeyIds
    BY <1>2 DEF IInv, TypeOK, ContextInv, Patching
  <2>2. CASE \E h \in Handlers : CommitRemove(h)
    BY <2>2 DEF CommitRemove
  <2>3. CASE \E h \in Handlers : CommitCreate(h)
    <3>1. PICK h \in Handlers : CommitCreate(h)
      BY <2>3
    <3>2. PICK k \in KeyIds, t \in Targets, v \in Nat : AddsRow(h, k, t, v)
      BY <3>1, CommitCreateEffect
    <3>3. live /\ db[k] = NoRow /\ \A j \in KeyIds : j # k => db'[j] = db[j]
      BY <3>2 DEF AddsRow
    <3> QED
      BY <1>2, <2>1, <3>3 DEF PatchInv
  <2>4. CASE SameKeys /\ live' = live
    BY <1>2, <2>1, <2>4 DEF PatchInv, SameKeys
  <2> QED
    BY <2>2, <2>3, <2>4, OtherSteps
<1> QED
  BY <1>1, <1>2, PatchesMove

\* What PrepareEncryptKey makes ready.
LEMMA PreparedEffect ==
    ASSUME IInv, NEW h \in Handlers, PrepareEncryptKey(h)
    PROVE  row'[h].enabled \in CreateFlags[row'[h].target]
<1> USE DEF IInv, TypeOK
<1>1. PICK t \in Targets, e \in BOOLEAN : \E v :
        /\ e \in CreateFlags[t]
        /\ row' = [row EXCEPT ![h] = [target |-> t, version |-> v, enabled |-> e]]
  BY DEF PrepareEncryptKey
<1> QED
  BY <1>1

\* A handler that has a row to write has it from one of the two checks.
LEMMA RowsMove ==
    ASSUME IInv, [Next]_vars, NEW g \in Handlers, (Creating(g) \/ Patching(g))'
    PROVE  \/ (Creating(g) \/ Patching(g)) /\ row'[g] = row[g]
           \/ pc[g] = "idle" /\ DisallowModifyOldRecord(g)
           \/ pc[g] = "idle" /\ PrepareEncryptKey(g)
<1> USE DEF Creating, Inserted, Patching
<1>1. Moves(g)
  BY HandlersMove
<1>2. CASE pc[g] # "idle"
  BY <1>1, <1>2 DEF Moves, Onward
<1>3. CASE pc[g] = "idle"
  <2>1. pc'[g] \in {"patch", "insert"}
    BY <1>1, <1>3 DEF Moves, Onward
  <2>2. ASSUME NEW h \in Handlers, NEW l \in PCs, Goto(h, l),
               h # g \/ l \notin {"patch", "insert"}
        PROVE  FALSE
    BY <1>3, <2>1, <2>2 DEF Goto, IInv, TypeOK
  <2>3. ASSUME NEW h \in Handlers,
               CreateStep(h) \/ PatchStep(h) \/ RemoveStep(h) \/ Fail(h)
        PROVE  FALSE
    BY <1>3, <2>1, <2>2, <2>3
       DEF CreateStep, PatchStep, RemoveStep, InsertKey, InsertRefused, DisableOldKey,
           RegisterEncryptKey, CommitCreate, PatchKey, CommitPatch, DeleteStream,
           CommitRemove, Fail, Answer, PCs
  <2>4. ASSUME NEW h \in Handlers, h # g, Request(h) PROVE FALSE
    BY <1>3, <2>1, <2>2, <2>4
       DEF Request, PrepareEncryptKey, DisallowModifyOldRecord, PrepareCleanupSecrets, PCs
  <2>5. ~ PrepareCleanupSecrets(g)
    BY <1>3, <2>1 DEF PrepareCleanupSecrets, Goto, IInv, TypeOK
  <2>6. pc' # pc
    BY <1>3, <2>1
  <2> QED
    BY <1>3, <2>3, <2>4, <2>5, <2>6 DEF Next, Request, RemoveSecret, vars
<1> QED
  BY <1>2, <1>3

\* A request that renews t goes on doing so until it commits, as nothing fails
\* after the older rows have been turned off.
NoFailureAfterDisable == Faults \cap {"register", "commitCreate"} = {}

LEMMA RenewingMoves ==
    ASSUME NoFailureAfterDisable, IInv, [Next]_vars, NEW g \in Handlers, NEW t,
           Renewing(g, t)
    PROVE  Renewing(g, t)' \/ CommitCreate(g)
<1>1. Moves(g)
  BY HandlersMove
<1>2. CASE pc'[g] # "idle"
  BY <1>1, <1>2 DEF Moves, Renewing, Onward
<1>3. CASE pc'[g] = "idle"
  <2>1. ASSUME NEW h \in Handlers, Answer(h) \/ \E l \in PCs : Goto(h, l), h # g
        PROVE  FALSE
    BY <1>3, <2>1 DEF Goto, Answer, IInv, TypeOK, Renewing
  <2>2. ASSUME NEW l \in PCs \ {"idle"}, Goto(g, l) PROVE FALSE
    BY <1>3, <2>2 DEF Goto, IInv, TypeOK
  <2>3. pc' # pc
    BY <1>3 DEF Renewing
  <2> QED
    BY <1>3, <2>1, <2>2, <2>3
       DEF Next, Request, CreateStep, PatchStep, RemoveStep, PrepareEncryptKey,
           DisallowModifyOldRecord, PrepareCleanupSecrets, InsertKey, InsertRefused,
           DisableOldKey, RegisterEncryptKey, CommitCreate, PatchKey, CommitPatch,
           DeleteStream, CommitRemove, RemoveSecret, Fail, vars, PCs, Renewing,
           NoFailureAfterDisable
<1> QED
  BY <1>2, <1>3

\* A step that keeps the rows, and turns none off of a target that is only ever
\* turned on.
LEMMA LatestKept ==
    ASSUME NoFailureAfterDisable, IInv, LatestInv, [Next]_vars, SameKeys,
           \A h \in Handlers : ~ CommitCreate(h),
           NEW t \in OnlyOn, NEW k \in KeysOf(t)', Latest(k)',
           db[k].enabled => db'[k].enabled
    PROVE  db'[k].enabled \/ \E h \in Handlers : Renewing(h, t)'
<1>1. k \in KeysOf(t) /\ k \in KeyIds /\ db[k] # NoRow
  BY SameVersions DEF KeysOf
<1>2. Latest(k)
  BY <1>1, SameLatest
<1>3. CASE db[k].enabled
  BY <1>3
<1>4. CASE \E h \in Handlers : Renewing(h, t)
  BY <1>4, RenewingMoves
<1> QED
  BY <1>1, <1>2, <1>3, <1>4 DEF LatestInv

\* A new row is the latest of its target, and is enabled.
LEMMA LatestCommit ==
    ASSUME NoFailureAfterDisable, IInv, LatestInv, [Next]_vars,
           NEW h \in Handlers, CommitCreate(h),
           NEW t \in OnlyOn, NEW k \in KeysOf(t)', Latest(k)'
    PROVE  db'[k].enabled \/ \E g \in Handlers : Renewing(g, t)'
<1>1. PICK n \in KeyIds, u \in Targets, v \in Nat : AddsRow(h, n, u, v)
  BY CommitCreateEffect
<1>2. /\ row[h].target = u /\ row[h].version = v /\ db'[n] = row[h]
      /\ db[n] = NoRow
      /\ KeysOf(u)' = KeysOf(u) \cup {n}
      /\ \A w : w # u => KeysOf(w)' = KeysOf(w)
      /\ \A j \in KeyIds : j # n => db'[j] = db[j]
  BY <1>1 DEF AddsRow
<1>3. Versions(u) = 1..(v - 1) /\ v >= 1
  BY <1>1, NextVersion DEF AddsRow
<1>4. Creating(h)
  BY DEF CommitCreate, Creating, Inserted
<1>5. k \in KeyIds /\ db'[k].target = t /\ k \in KeysOf(t)'
  BY DEF KeysOf
<1>6. CASE u = t
  <2>1. ASSUME k # n PROVE FALSE
    <3>1. k \in KeysOf(u) /\ n \in KeysOf(u)'
      BY <1>2, <1>6, <2>1
    <3>2. db[k].version \in 1..(v - 1)
      BY <1>3, <3>1 DEF Versions
    <3>3. db'[k].version = db[k].version /\ db'[n].version = v
      BY <1>2, <1>5, <2>1
    <3>4. db'[n].version <= db'[k].version
      BY <1>5, <1>6, <3>1 DEF Latest
    <3> QED
      BY <1>3, <3>2, <3>3, <3>4
  <2> QED
    BY <1>2, <1>4, <1>6, <2>1 DEF LatestInv
<1>7. CASE u # t
  <2>1. KeysOf(t)' = KeysOf(t) /\ n \notin KeysOf(t)
    BY <1>2, <1>7 DEF KeysOf
  <2>2. \A j \in KeysOf(t) : db'[j] = db[j]
    BY <1>2, <2>1 DEF KeysOf
  <2>3. db[k].target = t /\ Latest(k)
    BY <1>5, <2>1, <2>2 DEF Latest, KeysOf
  <2>4. CASE db[k].enabled
    BY <2>1, <2>2, <2>4
  <2>5. ASSUME NEW g \in Handlers, Renewing(g, t) PROVE Renewing(g, t)'
    <3>1. g # h
      BY <1>2, <1>7, <2>5 DEF Renewing
    <3>2. ~ CommitCreate(g)
      BY <2>5, <3>1 DEF CommitCreate, Answer, Goto, IInv, TypeOK, Renewing
    <3> QED
      BY <2>5, <3>2, RenewingMoves
  <2> QED
    BY <2>1, <2>3, <2>4, <2>5 DEF LatestInv
<1> QED
  BY <1>6, <1>7

LEMMA LatestInvStep ==
    ASSUME NoFailureAfterDisable, IInv, PatchInv, LatestInv, [Next]_vars
    PROVE  LatestInv'
<1>1. ASSUME NEW g \in Handlers, (Creating(g) \/ Patching(g))', row'[g].target \in OnlyOn
      PROVE  row'[g].enabled
  <2>1. row'[g].target \in Targets
           /\ FALSE \notin CreateFlags[row'[g].target] \cup PatchFlags[row'[g].target]
           /\ CreateFlags[row'[g].target] \subseteq BOOLEAN
           /\ PatchFlags[row'[g].target] \subseteq BOOLEAN
    BY <1>1, ConstantsAssumption DEF OnlyOn
  <2>2. CASE DisallowModifyOldRecord(g)
    BY <2>1, <2>2, CheckedEffect
  <2>3. CASE PrepareEncryptKey(g)
    BY <2>1, <2>3, PreparedEffect
  <2>4. CASE (Creating(g) \/ Patching(g)) /\ row'[g] = row[g]
    BY <1>1, <2>4 DEF LatestInv
  <2> QED
    BY <1>1, <2>2, <2>3, <2>4, RowsMove
<1>2. ASSUME NEW t \in OnlyOn, NEW k \in KeysOf(t)', Latest(k)'
      PROVE  db'[k].enabled \/ \E g \in Handlers : Renewing(g, t)'
  <2>1. CASE \E h \in Handlers : CommitCreate(h)
    BY <1>2, <2>1, LatestCommit
  <2>2. CASE \E h \in Handlers : CommitRemove(h)
    BY <1>2, <2>2 DEF CommitRemove, KeysOf
  <2>3. ASSUME ~ \E h \in Handlers : CommitCreate(h) \/ CommitRemove(h)
        PROVE  db'[k].enabled \/ \E g \in Handlers : Renewing(g, t)'
    <3>1. SameKeys /\ live' = live
      BY <2>3, OtherSteps
    <3>2. k \in KeysOf(t) /\ k \in KeyIds /\ db[k] \in Row /\ db[k].target = t
      BY <3>1, SameVersions DEF KeysOf, IInv, TypeOK
    <3>3. CASE \E h \in Handlers : DisableOldKey(h)
      <4>1. PICK h \in Handlers : DisableOldKey(h)
        BY <3>3
      <4>2. CASE row[h].target = t
        <5>1. Renewing(h, t)'
          BY <4>1, <4>2 DEF DisableOldKey, Goto, Renewing, IInv, TypeOK
        <5> QED
          BY <5>1
      <4>3. CASE row[h].target # t
        <5>1. db'[k] = db[k]
          BY <3>2, <4>1, <4>3 DEF DisableOldKey, KeysOf
        <5> QED
          BY <1>2, <2>3, <3>1, <5>1, LatestKept
      <4> QED
        BY <4>2, <4>3
    <3>4. CASE \E h \in Handlers : CommitPatch(h)
      <4>1. PICK h \in Handlers : CommitPatch(h)
        BY <3>4
      <4>2. db'[kid[h]].enabled = row[h].enabled /\ \A j \in KeyIds : j # kid[h] => db'[j] = db[j]
        BY <4>1, CommitPatchEffect
      <4>3. CASE k # kid[h]
        BY <1>2, <2>3, <3>1, <3>2, <4>2, <4>3, LatestKept
      <4>4. CASE k = kid[h]
        <5>1. Patching(h) /\ live
          BY <3>2, <4>1 DEF CommitPatch, Patching, IInv, LockInv, KeysOf
        <5>2. row[h].target = t
          BY <3>2, <4>4, <5>1 DEF PatchInv
        <5> QED
          BY <4>2, <4>4, <5>1, <5>2 DEF LatestInv
      <4> QED
        BY <4>3, <4>4
    <3>5. CASE db' = db
      BY <1>2, <2>3, <3>1, <3>5, LatestKept
    <3> QED
      BY <2>3, <3>3, <3>4, <3>5
         DEF Next, Request, CreateStep, PatchStep, RemoveStep, PrepareEncryptKey,
             DisallowModifyOldRecord, PrepareCleanupSecrets, InsertKey, InsertRefused,
             RegisterEncryptKey, PatchKey, DeleteStream, RemoveSecret, Fail, shared, vars
  <2> QED
    BY <2>1, <2>2, <2>3
<1> QED
  BY <1>1, <1>2 DEF LatestInv, OnlyOn

\* Spec => []PatchInv.
LEMMA PatchesOnTarget == Spec => []PatchInv
<1>1. Init => PatchInv
  BY DEF Init, PatchInv, Patching
<1> QED
  BY <1>1, PatchInvStep, Invariance, PTL DEF Spec

\* If no client turns the keys of a target off, its latest key is enabled except
\* while the request that replaces it runs, whatever is interleaved; provided that
\* nothing fails in a create once the nested transaction has turned the older keys
\* off.
THEOREM LatestEnabled ==
    ASSUME NoFailureAfterDisable PROVE Spec => []LatestStaysEnabled
<1>1. Init => LatestInv
  BY DEF Init, LatestInv, Creating, Inserted, Patching, KeysOf
<1>2. LatestInv /\ IInv => LatestStaysEnabled
  <2> SUFFICES ASSUME LatestInv, IInv, NEW k \in KeyIds, db[k] # NoRow, Latest(k),
                      FALSE \notin CreateFlags[db[k].target] \cup PatchFlags[db[k].target],
                      ~ db[k].enabled
               PROVE  \E h \in Handlers : Inserted(h) /\ row[h].target = db[k].target
    BY DEF LatestStaysEnabled
  <2>1. db[k].target \in OnlyOn /\ k \in KeysOf(db[k].target)
    BY DEF OnlyOn, KeysOf, IInv, TypeOK, Row
  <2> QED
    BY <2>1 DEF LatestInv, Renewing, Inserted
<1>3. IInv /\ PatchInv /\ LatestInv /\ [Next]_vars => LatestInv'
  BY LatestInvStep
<1> QED
  BY <1>1, <1>2, <1>3, Invariance, PatchesOnTarget, PTL DEF Spec

-----------------------------------------------------------------------------
(***************************************************************************)
(* EncryptKeysMet: the history variables do not restrict the steps.        *)
(***************************************************************************)
LEMMA MetImplements == MetSpec => Spec
<1>1. MetInit => Init
  BY DEF MetInit
<1>2. [MetNext]_metVars => [Next]_vars
  BY DEF MetNext, metVars
<1> QED
  BY <1>1, <1>2, PTL DEF MetSpec, Spec

\* A PATCH not overtaken is about the latest row.
FrozenInv ==
    \A h \in Handlers :
        Patching(h) /\ live => Latest(kid[h]) \/ h \in overtaken

LEMMA FrozenInvStep ==
    ASSUME IInv, PatchInv, FrozenInv, MetNext PROVE FrozenInv'
<1> SUFFICES ASSUME NEW g \in Handlers, Patching(g)', live', g \notin overtaken'
             PROVE  Latest(kid[g])'
  BY DEF FrozenInv
<1>1. /\ [Next]_vars
      /\ g \notin overtaken
      /\ \A k \in New : db'[k].target # row'[g].target
  BY DEF MetNext, Patching
<1>2. CASE DisallowModifyOldRecord(g)
  <2>1. db' = db /\ db[kid'[g]] # NoRow /\ kid'[g] \in KeyIds /\ Latest(kid'[g])
    BY <1>2, CheckedEffect
  <2> QED
    BY <2>1 DEF Latest, KeysOf
<1>3. CASE Patching(g) /\ kid'[g] = kid[g] /\ row'[g] = row[g]
  <2>1. kid[g] \in KeyIds
    BY <1>3 DEF IInv, TypeOK, ContextInv, Patching
  <2>2. CASE \E h \in Handlers : CommitRemove(h)
    BY <2>2 DEF CommitRemove
  <2>3. CASE \E h \in Handlers : CommitCreate(h)
    <3>1. PICK h \in Handlers : CommitCreate(h)
      BY <2>3
    <3>2. PICK k \in KeyIds, t \in Targets, v \in Nat : AddsRow(h, k, t, v)
      BY <3>1, CommitCreateEffect
    <3>3. /\ live /\ db[k] = NoRow /\ db'[k] = row[h] /\ row[h].target = t
          /\ row[h] # NoRow
          /\ \A j \in KeyIds : j # k => db'[j] = db[j]
          /\ \A u : u # t => KeysOf(u)' = KeysOf(u)
      BY <3>2 DEF AddsRow
    <3>4. /\ db[kid[g]] # NoRow /\ db[kid[g]].target = row[g].target
          /\ Latest(kid[g])
      BY <1>1, <1>3, <3>3 DEF PatchInv, FrozenInv
    <3>5. db[kid[g]].target # t
      BY <1>1, <1>3, <3>3, <3>4 DEF New
    <3>6. PICK u : u = db[kid[g]].target /\ u # t
      BY <3>5
    <3>7. /\ db'[kid[g]] = db[kid[g]]
          /\ KeysOf(u)' = KeysOf(u)
          /\ \A j \in KeysOf(u) : db'[j] = db[j]
      BY <2>1, <3>3, <3>4, <3>6 DEF KeysOf
    <3> QED
      BY <1>3, <3>4, <3>6, <3>7 DEF Latest
  <2>4. CASE SameKeys /\ live' = live
    <3>1. Latest(kid[g]) /\ db[kid[g]] # NoRow
      BY <1>1, <1>3, <2>4 DEF PatchInv, FrozenInv
    <3>2. Latest(kid[g])'
      BY <1>3, <2>1, <2>4, <3>1, SameLatest
    <3> QED
      BY <3>2
  <2> QED
    BY <1>1, <2>2, <2>3, <2>4, OtherSteps
<1> QED
  BY <1>1, <1>2, <1>3, PatchesMove

\* A PATCH changes the latest key of its target, unless a newer one has been
\* committed since it was checked: DisallowModifyOldRecord is as good as a check
\* outside the transaction can be.
THEOREM OldFrozen == MetSpec => OldRecordsFrozen
<1>1. MetInit => FrozenInv
  BY DEF MetInit, Init, FrozenInv, Patching
<1>2. IInv /\ PatchInv /\ FrozenInv /\ [MetNext]_metVars => FrozenInv'
  <2>1. ASSUME FrozenInv, UNCHANGED metVars PROVE FrozenInv'
    BY <2>1 DEF FrozenInv, Patching, Latest, KeysOf, metVars, vars
  <2> QED
    BY <2>1, FrozenInvStep
<1>3. IInv /\ FrozenInv =>
        \A h \in Handlers : CommitPatch(h) => Latest(kid[h]) \/ h \in overtaken
  <2> SUFFICES ASSUME IInv, FrozenInv, NEW h \in Handlers, CommitPatch(h)
               PROVE  Latest(kid[h]) \/ h \in overtaken
    OBVIOUS
  <2>1. Patched(h) /\ Patching(h) /\ kid[h] \in KeyIds
    BY DEF CommitPatch, Patched, Patching, IInv, TypeOK, ContextInv
  <2>2. live
    BY <2>1 DEF IInv, LockInv
  <2> QED
    BY <2>1, <2>2 DEF FrozenInv
<1> QED
  BY <1>1, <1>2, <1>3, MetImplements, Invariance, PatchesOnTarget, PTL
     DEF MetSpec, OldRecordsFrozen

-----------------------------------------------------------------------------
\* The clean-up of a stream finds every key but the missed ones, and when it is
\* over Vault has none of those it has found.
LeftInv ==
    /\ \A k \in KeyIds :
         vault[k] # NoSecret =>
            \/ db[k] # NoRow
            \/ k \in missed
            \/ \E h \in Handlers : pc[h] = "commitCreate" /\ kid[h] = k
    /\ \A h \in Handlers : pc[h] \in {"delete", "cleanup"} =>
         \A k \in KeyIds : db[k] # NoRow => k \in secrets[h] \cup missed
    /\ \A h \in Handlers : Deleted(h) =>
         \A k \in secrets[h] : k \in removals \/ vault[k] = NoSecret

LEMMA LeftRegister ==
    ASSUME IInv, LeftInv, NEW h \in Handlers, RegisterEncryptKey(h), UNCHANGED missed
    PROVE  LeftInv'
<1> USE DEF IInv, TypeOK
<1>1. /\ pc[h] = "register" /\ Inserted(h)
      /\ kid[h] \in KeyIds
      /\ \E s : vault' = [vault EXCEPT ![kid[h]] = s]
      /\ pc' = [pc EXCEPT ![h] = "commitCreate"]
      /\ UNCHANGED <<db, removals, kid, secrets>>
  BY DEF RegisterEncryptKey, Goto, ContextInv, Inserted
<1>2. \A g \in Handlers : ~ Deleted(g) /\ (~ Deleted(g))'
  BY <1>1 DEF LockInv, Deleted, Inserted
<1>3. ASSUME NEW k \in KeyIds, vault'[k] # NoSecret
      PROVE  \/ db'[k] # NoRow
             \/ k \in missed'
             \/ \E g \in Handlers : pc'[g] = "commitCreate" /\ kid'[g] = k
  BY <1>1, <1>3 DEF LeftInv
<1>4. ASSUME NEW g \in Handlers, pc'[g] \in {"delete", "cleanup"}
      PROVE  \A k \in KeyIds : db'[k] # NoRow => k \in secrets'[g] \cup missed'
  BY <1>1, <1>4 DEF LeftInv
<1> QED
  BY <1>2, <1>3, <1>4 DEF LeftInv

LEMMA LeftCommit ==
    ASSUME IInv, LeftInv, NEW h \in Handlers, CommitCreate(h),
           missed' = missed \cup {k \in New : \E g \in Handlers : pc[g] = "delete"}
    PROVE  LeftInv'
<1> USE DEF IInv, TypeOK
<1>1. PICK k \in KeyIds, t \in Targets, v \in Nat : AddsRow(h, k, t, v)
  BY CommitCreateEffect
<1>2. /\ k = kid[h] /\ db[k] = NoRow /\ db'[k] # NoRow /\ k \in New
      /\ \A j \in KeyIds : j # k => db'[j] = db[j]
  BY <1>1 DEF AddsRow, New
<1>3. /\ pc[h] = "commitCreate" /\ Inserted(h) /\ pc' = [pc EXCEPT ![h] = "idle"]
      /\ UNCHANGED <<vault, removals>>
      /\ \A g \in Handlers : g # h => kid'[g] = kid[g] /\ secrets'[g] = secrets[g]
  BY DEF CommitCreate, Answer, Goto, Inserted
<1>4. \A g \in Handlers : ~ Deleted(g) /\ (~ Deleted(g))'
  BY <1>3 DEF LockInv, Deleted, Inserted
<1>5. ASSUME NEW j \in KeyIds, vault'[j] # NoSecret
      PROVE  \/ db'[j] # NoRow
             \/ j \in missed'
             \/ \E g \in Handlers : pc'[g] = "commitCreate" /\ kid'[g] = j
  BY <1>2, <1>3, <1>5 DEF LeftInv
<1>6. ASSUME NEW g \in Handlers, pc'[g] \in {"delete", "cleanup"}
      PROVE  \A j \in KeyIds : db'[j] # NoRow => j \in secrets'[g] \cup missed'
  <2>1. g # h /\ pc[g] = "delete"
    BY <1>3, <1>4, <1>6 DEF Deleted
  <2>2. k \in missed'
    BY <1>2, <2>1
  <2> QED
    BY <1>2, <1>3, <2>1, <2>2 DEF LeftInv
<1> QED
  BY <1>4, <1>5, <1>6 DEF LeftInv

LEMMA LeftRemove ==
    ASSUME IInv, LeftInv, NEW h \in Handlers, CommitRemove(h), UNCHANGED missed
    PROVE  LeftInv'
<1> USE DEF IInv, TypeOK
<1>1. /\ Deleted(h) /\ secrets[h] \cap removals = {}
      /\ db' = [k \in KeyIds |-> NoRow]
      /\ pc' = [pc EXCEPT ![h] = "idle"]
      /\ UNCHANGED <<vault, removals>>
      /\ \A g \in Handlers : g # h => secrets'[g] = secrets[g]
  BY DEF CommitRemove, Answer, Goto, Deleted
<1>2. \A g \in Handlers : ~ Inserted(g) /\ (Deleted(g) => g = h)
  BY <1>1 DEF LockInv, Deleted, Inserted
<1>3. ASSUME NEW k \in KeyIds, vault'[k] # NoSecret PROVE k \in missed'
  <2>1. db[k] # NoRow \/ k \in missed
    BY <1>1, <1>2, <1>3 DEF LeftInv, Inserted
  <2>2. k \notin secrets[h]
    BY <1>1, <1>3 DEF LeftInv
  <2> QED
    BY <1>1, <2>1, <2>2 DEF LeftInv, Deleted
<1>4. \A g \in Handlers : ~ Deleted(g)'
  BY <1>1, <1>2 DEF Deleted
<1> QED
  BY <1>1, <1>3, <1>4 DEF LeftInv

LEMMA LeftRemoval ==
    ASSUME IInv, LeftInv, NEW k \in KeyIds, RemoveSecret(k), UNCHANGED missed
    PROVE  LeftInv'
BY DEF IInv, TypeOK, RemoveSecret, LeftInv, Deleted

\* A removal that has looked the keys up, or taken the locks.
LEMMA LeftDelete ==
    ASSUME IInv, LeftInv, NEW h \in Handlers, UNCHANGED missed,
           PrepareCleanupSecrets(h) \/ (DeleteStream(h) /\ live)
    PROVE  LeftInv'
<1> USE DEF IInv, TypeOK, LeftInv, Deleted
<1>1. CASE PrepareCleanupSecrets(h)
  BY <1>1 DEF PrepareCleanupSecrets, Goto, shared
<1>2. CASE DeleteStream(h) /\ live
  <2>1. /\ pc[h] = "delete"
        /\ \A g \in Handlers : ~ Deleted(g)
        /\ removals' = removals \cup secrets[h]
        /\ pc' = [pc EXCEPT ![h] = "cleanup"]
        /\ UNCHANGED <<db, vault, kid, secrets>>
    BY <1>2 DEF DeleteStream, Goto
  <2> QED
    BY <2>1
<1> QED
  BY <1>1, <1>2

\* Any other step leaves the stores alone, but for flags.
LEMMA LeftQuiet ==
    ASSUME IInv, LeftInv, SameKeys, UNCHANGED <<vault, missed>>, removals \subseteq removals',
           \A g \in Handlers :
             /\ pc[g] = "commitCreate" => pc'[g] = "commitCreate" /\ kid'[g] = kid[g]
             /\ pc'[g] \in {"delete", "cleanup"} => pc'[g] = pc[g] /\ secrets'[g] = secrets[g]
    PROVE  LeftInv'
BY DEF LeftInv, SameKeys, Deleted

LEMMA LeftInvStep ==
    ASSUME "commitCreate" \notin Faults, IInv, LeftInv, MetNext PROVE LeftInv'
<1>1. /\ Next /\ [Next]_vars
      /\ missed' = missed \cup {k \in New : \E g \in Handlers : pc[g] = "delete"}
  BY DEF MetNext
<1>2. SameKeys => missed' = missed
  BY <1>1 DEF SameKeys, New
<1>3. ASSUME NEW h \in Handlers, CommitCreate(h) PROVE LeftInv'
  BY <1>1, <1>3, LeftCommit
<1>4. ASSUME NEW h \in Handlers, CommitRemove(h) PROVE LeftInv'
  <2>1. New = {}
    BY <1>4 DEF CommitRemove, New
  <2> QED
    BY <1>1, <1>4, <2>1, LeftRemove
<1>5. ASSUME ~ \E h \in Handlers : CommitCreate(h) \/ CommitRemove(h)
      PROVE  LeftInv'
  <2>1. SameKeys /\ missed' = missed
    BY <1>1, <1>2, <1>5, OtherSteps
  <2>2. ASSUME NEW h \in Handlers, Answer(h), pc[h] # "commitCreate",
               UNCHANGED <<vault, removals>>
        PROVE  LeftInv'
    <3>1. \A g \in Handlers :
             /\ pc[g] = "commitCreate" => pc'[g] = "commitCreate" /\ kid'[g] = kid[g]
             /\ pc'[g] \in {"delete", "cleanup"} => pc'[g] = pc[g] /\ secrets'[g] = secrets[g]
      BY <2>2 DEF Answer, Goto, IInv, TypeOK
    <3> QED
      BY <2>1, <2>2, <3>1, LeftQuiet
  <2>3. ASSUME NEW h \in Handlers, NEW l \in PCs \ {"delete", "cleanup"}, Goto(h, l),
               pc[h] # "commitCreate", UNCHANGED <<vault, removals, secrets>>,
               \A g \in Handlers : g # h => kid'[g] = kid[g]
        PROVE  LeftInv'
    <3>1. \A g \in Handlers :
             /\ pc[g] = "commitCreate" => pc'[g] = "commitCreate" /\ kid'[g] = kid[g]
             /\ pc'[g] \in {"delete", "cleanup"} => pc'[g] = pc[g] /\ secrets'[g] = secrets[g]
      BY <2>3 DEF Goto, IInv, TypeOK
    <3> QED
      BY <2>1, <2>3, <3>1, LeftQuiet
  <2>4. ASSUME NEW h \in Handlers, Request(h) PROVE LeftInv'
    <3>1. CASE PrepareCleanupSecrets(h)
      BY <2>1, <3>1, LeftDelete
    <3>2. CASE PrepareEncryptKey(h) \/ DisallowModifyOldRecord(h)
      <4>1. \E l \in {"insert", "patch"} : Goto(h, l)
        BY <3>2 DEF PrepareEncryptKey, DisallowModifyOldRecord
      <4>2. /\ pc[h] # "commitCreate" /\ UNCHANGED <<vault, removals, secrets>>
            /\ \A g \in Handlers : g # h => kid'[g] = kid[g]
        BY <3>2 DEF PrepareEncryptKey, DisallowModifyOldRecord, shared, IInv, TypeOK
      <4> QED
        BY <2>3, <4>1, <4>2 DEF PCs
    <3> QED
      BY <2>4, <3>1, <3>2 DEF Request
  <2>5. ASSUME NEW h \in Handlers, InsertKey(h) \/ DisableOldKey(h) PROVE LeftInv'
    <3>1. \E l \in {"disableOld", "register"} : Goto(h, l)
      BY <2>5 DEF InsertKey, DisableOldKey
    <3>2. pc[h] # "commitCreate" /\ UNCHANGED <<vault, removals, secrets, kid>>
      BY <2>5 DEF InsertKey, DisableOldKey, shared
    <3> QED
      BY <2>3, <3>1, <3>2 DEF PCs
  <2>6. ASSUME NEW h \in Handlers, InsertRefused(h) PROVE LeftInv'
    BY <2>2, <2>6 DEF InsertRefused, shared
  <2>7. ASSUME NEW h \in Handlers, PatchKey(h) PROVE LeftInv'
    <3>1. CASE db[kid[h]] = NoRow
      BY <2>2, <2>7, <3>1 DEF PatchKey, shared
    <3>2. CASE db[kid[h]] # NoRow
      BY <2>3, <2>7, <3>2 DEF PatchKey, shared, PCs
    <3> QED
      BY <3>1, <3>2
  <2>8. ASSUME NEW h \in Handlers, CommitPatch(h) PROVE LeftInv'
    BY <2>2, <2>8 DEF CommitPatch
  <2>9. ASSUME NEW h \in Handlers, DeleteStream(h) PROVE LeftInv'
    BY <2>1, <2>2, <2>9, LeftDelete DEF DeleteStream
  <2>10. ASSUME NEW h \in Handlers, Fail(h) PROVE LeftInv'
    BY <2>2, <2>10 DEF Fail, shared
  <2> QED
    BY <1>1, <1>5, <2>1, <2>4, <2>5, <2>6, <2>7, <2>8, <2>9, <2>10, LeftRegister,
       LeftRemoval
       DEF Next, CreateStep, PatchStep, RemoveStep
<1> QED
  BY <1>3, <1>4, <1>5

\* Once the stream is removed, Vault has no key of it but those that were committed
\* between the look-up and the DELETE of a removal; provided that no create fails
\* after it has written to Vault.
THEOREM NothingLeft ==
    ASSUME "commitCreate" \notin Faults PROVE MetSpec => []NoSecretAfterRemoval
<1>1. MetInit => LeftInv
  BY DEF MetInit, Init, LeftInv, Deleted
<1>2. IInv /\ LeftInv /\ [MetNext]_metVars => LeftInv'
  <2>1. ASSUME LeftInv, UNCHANGED metVars PROVE LeftInv'
    BY <2>1 DEF LeftInv, Deleted, metVars, vars
  <2> QED
    BY <2>1, LeftInvStep
<1>3. IInv /\ LeftInv => NoSecretAfterRemoval
  BY DEF IInv, LockInv, LeftInv, NoSecretAfterRemoval, Inserted
<1> QED
  BY <1>1, <1>2, <1>3, MetImplements, Invariance, PTL DEF MetSpec
=============================================================================
